---------------------------- MODULE HealthWaiter ----------------------------
(***************************************************************************)
(* The wait for a healthy stack (docker/health.waiter.ts, waitForHealthy)   *)
(* that ends `start`, the containers step of every provisioning, and the    *)
(* redeploy.  The waiter polls `docker compose ps`, restarts an optional    *)
(* service that stays broken, once, and gives up on a required one that     *)
(* exits, stays unhealthy or is late.                                       *)
(*                                                                          *)
(* Time is a clock the waiter's own calls and sleeps advance.  The services *)
(* change at any moment, so a poll may answer anything, whatever the poll   *)
(* before or a restart in between made of them.                             *)
(*                                                                          *)
(* A definition marked `mutant` is a faulty variant of the next one, used   *)
(* only to check that the properties can fail.                              *)
(***************************************************************************)
EXTENDS Integers, FiniteSets

CONSTANTS
  Required,       \* the services the stack cannot do without
  Optional,       \* OPTIONAL_SERVICES
  TimeoutTicks,   \* timeoutMs
  IntervalTicks,  \* intervalMs
  GraceTicks,     \* optionalGraceMs
  MaxCall,        \* bound on the duration of one docker command
  FaultyCalls,    \* TRUE: a docker command may fail
  Never           \* `undefined` for a moment

ASSUME HealthWaiterAssumption ==
  /\ Required # {} /\ Required \cap Optional = {}
  /\ IsFiniteSet(Optional)
  /\ TimeoutTicks \in Nat \ {0} /\ IntervalTicks \in Nat \ {0}
  /\ GraceTicks \in Nat \ {0} /\ MaxCall \in Nat
  /\ FaultyCalls \in BOOLEAN
  /\ Never \notin Nat

Services == Required \cup Optional

VARIABLES
  pc, result, failed, aborted,
  now,              \* Date.now() - startedAt
  wakeAt,
  seen,             \* the answer of the last poll
  toHeal,           \* optional services of this poll not looked at yet
  unhealthyStreaks, brokenStreaks, restarted, abandoned,
  lastRestartAt, requiredHealthyAt,
  \* history variables
  previous,         \* the answer of the poll before
  restarts          \* restarts the waiter asked for and docker did

control == <<pc, result, failed, aborted>>
clock   == <<now, wakeAt>>
memory  == <<unhealthyStreaks, brokenStreaks, restarted, abandoned,
             lastRestartAt, requiredHealthyAt>>
history == <<previous, restarts>>
vars    == <<control, clock, seen, toHeal, memory, history>>

\* "healthy": isServiceHealthy.  "unhealthy": not exited, and its healthcheck
\* says so.  "starting": anything else (starting, created, paused, missing...).
States == {"healthy", "starting", "unhealthy", "exited"}
Results == {"none", "healthy", "timeout", "unhealthy", "exited", "aborted", "error"}
UnhealthyConfirmationPolls == 2

TypeOK ==
  /\ seen \in [Services -> States] /\ previous \in [Services -> States]
  /\ pc \in {"poll", "heal", "decide", "delay", "done"} /\ result \in Results
  /\ failed \subseteq Required /\ aborted \in BOOLEAN
  /\ now \in Nat /\ wakeAt \in Nat
  /\ toHeal \subseteq Optional
  /\ unhealthyStreaks \in [Required -> Nat]
  /\ brokenStreaks \in [Optional -> Nat]
  /\ restarted \subseteq Optional /\ abandoned \subseteq Optional
  /\ lastRestartAt \in Nat /\ requiredHealthyAt \in Nat \cup {Never}
  /\ restarts \in [Optional -> Nat]

Init ==
  /\ pc = "poll" /\ result = "none" /\ failed = {} /\ aborted = FALSE
  /\ now = 0 /\ wakeAt = 0
  /\ seen = [s \in Services |-> "starting"]
  /\ toHeal = {}
  /\ unhealthyStreaks = [s \in Required |-> 0]
  /\ brokenStreaks = [s \in Optional |-> 0]
  /\ restarted = {} /\ abandoned = {}
  /\ lastRestartAt = 0 /\ requiredHealthyAt = Never
  /\ previous = seen /\ restarts = [s \in Optional |-> 0]

-----------------------------------------------------------------------------
(* What the waiter concludes from a poll.                                     *)

Broken(s) == seen[s] \in {"exited", "unhealthy"}
UnhealthyNow == {s \in Required : seen[s] = "unhealthy"}
Exited == {s \in Required : seen[s] = "exited"}
RequiredHealthy == \A s \in Required : seen[s] = "healthy"
WaitingFor == {s \in Optional \ abandoned : seen[s] # "healthy"}

\* A service that is not unhealthy in this poll starts over.
NextStreaks ==
  [s \in Required |-> IF s \in UnhealthyNow THEN unhealthyStreaks[s] + 1 ELSE 0]
Confirmed ==
  {s \in UnhealthyNow : NextStreaks[s] >= UnhealthyConfirmationPolls}

\* A service that is not broken in this poll starts over.
BrokenStreakExited(s) ==    \* mutant
  IF seen[s] = "exited" THEN brokenStreaks[s] + 1 ELSE 0
BrokenStreak(s) == IF Broken(s) THEN brokenStreaks[s] + 1 ELSE 0

\* The grace counts from the moment the required services were first seen
\* healthy or from the last restart, whichever is later.
GraceFrom(healthyAt) ==
  IF healthyAt > lastRestartAt THEN healthyAt ELSE lastRestartAt
HealthyAt == IF requiredHealthyAt = Never THEN now ELSE requiredHealthyAt

DoneAfterGrace(elapsed) == elapsed >= GraceTicks     \* mutant
DoneLate(elapsed) == elapsed > GraceTicks \/ now >= TimeoutTicks    \* mutant
DoneWaiting(elapsed) == elapsed >= GraceTicks \/ now >= TimeoutTicks

Least(a, b) == IF a < b THEN a ELSE b

-----------------------------------------------------------------------------
(* The waiter.                                                                *)

Settle(r, services) == pc' = "done" /\ result' = r /\ failed' = services

\* A docker command takes its time.
Elapses == \E d \in 0..MaxCall : now' = now + d

AbortSeen ==
  /\ pc = "poll" /\ aborted
  /\ Settle("aborted", {})
  /\ UNCHANGED <<aborted, clock, seen, toHeal, memory, history>>

Poll ==
  /\ pc = "poll" /\ ~aborted
  /\ Elapses
  /\ seen' \in [Services -> States] /\ previous' = seen /\ toHeal' = Optional /\ pc' = "heal"
  /\ UNCHANGED <<result, failed, aborted, wakeAt, memory, restarts>>

PollFails ==
  /\ pc = "poll" /\ ~aborted /\ FaultyCalls
  /\ Elapses
  /\ Settle("error", {})
  /\ UNCHANGED <<aborted, wakeAt, seen, toHeal, memory, history>>

Healing(s) == pc = "heal" /\ s \in toHeal

\* Nothing to do for this service, now or any more.
LeaveAlone(s) ==
  /\ Healing(s)
  /\ s \in abandoned \/ BrokenStreak(s) < UnhealthyConfirmationPolls
  /\ brokenStreaks' = IF s \in abandoned THEN brokenStreaks
                      ELSE [brokenStreaks EXCEPT ![s] = BrokenStreak(s)]
  /\ toHeal' = toHeal \ {s}
  /\ UNCHANGED <<control, clock, seen, unhealthyStreaks, restarted,
                 abandoned, lastRestartAt, requiredHealthyAt, history>>

MustHeal(s) == /\ Healing(s) /\ s \notin abandoned
               /\ BrokenStreak(s) >= UnhealthyConfirmationPolls

Abandon(s) ==
  /\ MustHeal(s) /\ s \in restarted
  /\ brokenStreaks' = [brokenStreaks EXCEPT ![s] = BrokenStreak(s)]
  /\ abandoned' = abandoned \cup {s} /\ toHeal' = toHeal \ {s}
  /\ UNCHANGED <<control, clock, seen, unhealthyStreaks, restarted,
                 lastRestartAt, requiredHealthyAt, history>>

Restarted(s) == restarted \cup {s}

Restart(s) ==
  /\ MustHeal(s) /\ s \notin restarted /\ ~aborted
  /\ Elapses
  /\ restarted' = Restarted(s) /\ restarts' = [restarts EXCEPT ![s] = @ + 1]
  /\ brokenStreaks' = [brokenStreaks EXCEPT ![s] = 0]
  /\ lastRestartAt' = now' /\ toHeal' = toHeal \ {s}
  /\ UNCHANGED <<control, wakeAt, seen, unhealthyStreaks, abandoned,
                 requiredHealthyAt, previous>>

RestartFails(s) ==
  /\ MustHeal(s) /\ s \notin restarted /\ ~aborted /\ FaultyCalls
  /\ Elapses
  /\ brokenStreaks' = [brokenStreaks EXCEPT ![s] = BrokenStreak(s)]
  /\ abandoned' = abandoned \cup {s} /\ toHeal' = toHeal \ {s}
  /\ UNCHANGED <<control, wakeAt, seen, unhealthyStreaks, restarted,
                 lastRestartAt, requiredHealthyAt, history>>

\* Every docker command is given the signal: an aborted one rejects.
RestartAborted(s) ==
  /\ MustHeal(s) /\ s \notin restarted /\ aborted
  /\ Settle("aborted", {})
  /\ brokenStreaks' = [brokenStreaks EXCEPT ![s] = BrokenStreak(s)]
  /\ UNCHANGED <<aborted, clock, seen, toHeal, unhealthyStreaks,
                 restarted, abandoned, lastRestartAt, requiredHealthyAt, history>>

Deciding == pc = "heal" /\ toHeal = {}

\* Every required service is healthy: return, or wait for the optional ones.
\* This branch neither counts nor clears the unhealthy streaks.
Succeed ==
  /\ Deciding /\ RequiredHealthy
  /\ WaitingFor = {} \/ DoneWaiting(now - GraceFrom(HealthyAt))
  /\ Settle("healthy", {})
  /\ requiredHealthyAt' = IF WaitingFor = {} THEN requiredHealthyAt ELSE HealthyAt
  /\ UNCHANGED <<aborted, clock, seen, toHeal, unhealthyStreaks,
                 brokenStreaks, restarted, abandoned, lastRestartAt, history>>

WaitForOptional ==
  /\ Deciding /\ RequiredHealthy
  /\ WaitingFor # {} /\ ~DoneWaiting(now - GraceFrom(HealthyAt))
  /\ requiredHealthyAt' = HealthyAt
  /\ wakeAt' = now + Least(IntervalTicks,
                           GraceTicks - (now - GraceFrom(HealthyAt)))
  /\ pc' = "delay"
  /\ UNCHANGED <<result, failed, aborted, now, seen, toHeal,
                 unhealthyStreaks, brokenStreaks, restarted, abandoned,
                 lastRestartAt, history>>

FailExited ==
  /\ Deciding /\ ~RequiredHealthy /\ Exited # {}
  /\ Settle("exited", Exited)
  /\ UNCHANGED <<aborted, clock, seen, toHeal, memory, history>>

CountUnhealthy ==
  /\ Deciding /\ ~RequiredHealthy /\ Exited = {}
  /\ unhealthyStreaks' = NextStreaks
  /\ UNCHANGED <<aborted, now, seen, toHeal, brokenStreaks, restarted,
                 abandoned, lastRestartAt, requiredHealthyAt, history>>

FailUnhealthy ==
  /\ CountUnhealthy /\ Confirmed # {}
  /\ Settle("unhealthy", Confirmed) /\ UNCHANGED wakeAt

FailTimeout ==
  /\ CountUnhealthy /\ Confirmed = {} /\ now >= TimeoutTicks
  /\ Settle("timeout", {s \in Required : seen[s] # "healthy"})
  /\ UNCHANGED wakeAt

WaitForRequired ==
  /\ CountUnhealthy /\ Confirmed = {} /\ now < TimeoutTicks
  /\ wakeAt' = now + Least(IntervalTicks, TimeoutTicks - now)
  /\ pc' = "delay" /\ UNCHANGED <<result, failed>>

\* `delay` ends early when the signal aborts.
Wake ==
  /\ pc = "delay"
  /\ now' \in IF aborted THEN now..wakeAt ELSE {wakeAt}
  /\ pc' = "poll" /\ wakeAt' = 0
  /\ UNCHANGED <<result, failed, aborted, seen, toHeal, memory,
                 history>>

-----------------------------------------------------------------------------
Interrupt ==
  /\ result = "none" /\ ~aborted
  /\ aborted' = TRUE
  /\ UNCHANGED <<pc, result, failed, clock, seen, toHeal, memory, history>>

Finished == pc = "done" /\ UNCHANGED vars

\* The optional services of one poll are looked at in any order; the code takes
\* the order of `compose config --services`.
Heal == \E s \in Optional :
  \/ LeaveAlone(s) \/ Abandon(s) \/ Restart(s) \/ RestartFails(s)
  \/ RestartAborted(s)

Waiter ==
  \/ AbortSeen \/ Poll \/ PollFails \/ Heal \/ Succeed \/ WaitForOptional
  \/ FailExited \/ FailUnhealthy \/ FailTimeout \/ WaitForRequired \/ Wake

Next == Waiter \/ Interrupt \/ Finished

Spec == Init /\ [][Next]_vars

\* The waiter goes on as long as the docker commands it runs end.
FairSpec == Spec /\ WF_vars(Waiter)

-----------------------------------------------------------------------------
(* Properties.                                                                *)

\* An optional service never makes the wait fail: when it does, the last poll
\* saw a required service that was not healthy, and blames only such services.
FailsOnlyForRequired ==
  result \in {"timeout", "unhealthy", "exited"} =>
    failed # {} /\ \A s \in failed : seen[s] # "healthy"

\* However often an optional service breaks, and whatever it does in between,
\* one wait restarts it at most once.
RestartedOnce == \A s \in Optional : restarts[s] <= 1

\* The wait does not go on without an optional service that its last two polls
\* saw broken before it tried to restart it.
OptionalWasTried ==
  result = "healthy" =>
    \A s \in Optional :
      {seen[s], previous[s]} \subseteq {"exited", "unhealthy"} =>
        restarts[s] > 0 \/ s \in abandoned

\* The timeout holds whatever the services do, restarts included: only the last
\* sleep and the commands of the last round can end after it.
EndsInTime ==
  now <= TimeoutTicks + IntervalTicks + MaxCall * (1 + Cardinality(Optional))

\* Every wait ends.
Terminates == <>(result # "none")

\* Refuted where some services are optional (UnhealthyTwice proves it where none
\* is): a required service is only reported unhealthy when two polls in a row saw
\* it so.
UnhealthyIsConfirmed ==
  result = "unhealthy" =>
    \A s \in failed : seen[s] = "unhealthy" /\ previous[s] = "unhealthy"

=============================================================================
