------------------------- MODULE HealthWaiterProofs -------------------------
(***************************************************************************)
(* Proofs about HealthWaiter, for every set of services, timeout, interval, *)
(* grace and duration of the docker commands: the types, that a wait only   *)
(* fails for required services, that it restarts an optional service once,  *)
(* and that it ends in time.                                                *)
(***************************************************************************)
EXTENDS HealthWaiter, FiniteSetTheorems, TLAPS

USE DEF vars, control, clock, memory, history

\* The last moment at which a round can begin: sleeps end by then.
LastRound == TimeoutTicks + IntervalTicks

\* What is left of the deadline: a round that began in time may still run one
\* docker command per optional service it has not looked at.
OnTime ==
  /\ pc = "poll" => now <= LastRound
  /\ pc = "delay" => now <= LastRound /\ wakeAt <= LastRound
  /\ pc = "heal" => now + MaxCall * Cardinality(toHeal)
                      <= LastRound + MaxCall * (1 + Cardinality(Optional))
  /\ EndsInTime

\* `restarted` remembers every restart.
RestartsKnown ==
  \A s \in Optional : restarts[s] <= IF s \in restarted THEN 1 ELSE 0

\* While the wait is not over nothing has been blamed.
OverWhenDone == pc # "done" => result = "none"

IInv == TypeOK /\ OnTime /\ RestartsKnown /\ OverWhenDone /\ FailsOnlyForRequired

-----------------------------------------------------------------------------
\* A docker command fits in what is reserved for one of k commands (Elapses).
LEMMA CallFits ==
  ASSUME NEW m \in Nat, NEW k \in Nat, k # 0, NEW d \in 0..m
  PROVE  /\ m * k \in Nat /\ m * (k - 1) \in Nat
         /\ d + m * (k - 1) <= m * k
<1>1. m * (k - 1) + m = m * k
  OBVIOUS
<1>2. m * k \in Nat /\ m * (k - 1) \in Nat
  OBVIOUS
<1> QED
  BY <1>1, <1>2

\* The sets of optional services are finite, so the bounds are numbers.
LEMMA Numbers ==
  ASSUME TypeOK
  PROVE  /\ LastRound \in Nat
         /\ IsFiniteSet(toHeal) /\ Cardinality(toHeal) \in Nat
         /\ Cardinality(Optional) \in Nat
         /\ MaxCall * Cardinality(toHeal) \in Nat
         /\ MaxCall * Cardinality(Optional) \in Nat
         /\ MaxCall * (1 + Cardinality(Optional))
              = MaxCall + MaxCall * Cardinality(Optional)
<1>1. IsFiniteSet(Optional) /\ toHeal \subseteq Optional /\ MaxCall \in Nat
  BY HealthWaiterAssumption DEF TypeOK
<1>2. IsFiniteSet(toHeal)
  BY <1>1, FS_Subset
<1>3. Cardinality(toHeal) \in Nat /\ Cardinality(Optional) \in Nat
  BY <1>1, <1>2, FS_CardinalityType
<1>4. LastRound \in Nat
  BY HealthWaiterAssumption DEF LastRound
<1> DEFINE c == Cardinality(Optional)
           h == Cardinality(toHeal)
<1>5. c \in Nat /\ h \in Nat
  BY <1>3
<1> HIDE DEF c, h
<1>6. MaxCall * h \in Nat /\ MaxCall * c \in Nat /\ MaxCall * (1 + c) = MaxCall + MaxCall * c
  BY <1>1, <1>5
<1> QED
  BY <1>2, <1>3, <1>4, <1>6 DEF c, h

\* One docker command more for the service that was looked at (Restart,
\* RestartFails) keeps the reserve of the others.
LEMMA ReserveKept ==
  ASSUME TypeOK, OnTime, NEW s \in toHeal, pc = "heal", NEW d \in 0..MaxCall
  PROVE  now + d + MaxCall * Cardinality(toHeal \ {s})
           <= LastRound + MaxCall * (1 + Cardinality(Optional))
<1> DEFINE h == Cardinality(toHeal)
           r == Cardinality(toHeal \ {s})
           b == LastRound + MaxCall * (1 + Cardinality(Optional))
<1>1. IsFiniteSet(toHeal) /\ h \in Nat /\ b \in Nat /\ MaxCall * h \in Nat
  BY Numbers, HealthWaiterAssumption
<1>2. r = h - 1
  BY <1>1, FS_RemoveElement
<1>3. h # 0
  BY <1>1, FS_EmptySet
<1>4. now + MaxCall * h <= b /\ now \in Nat
  BY DEF OnTime, TypeOK
<1> HIDE DEF h, r, b
<1>5. d + MaxCall * (h - 1) <= MaxCall * h /\ MaxCall * (h - 1) \in Nat
  BY <1>1, <1>3, CallFits, HealthWaiterAssumption
<1>6. now + d + MaxCall * r <= b
  BY <1>1, <1>2, <1>4, <1>5
<1> QED
  BY <1>6 DEF r, b

\* A service that was looked at without a docker command gives its part back.
LEMMA ReserveReturned ==
  ASSUME TypeOK, OnTime, NEW s \in toHeal, pc = "heal"
  PROVE  now + MaxCall * Cardinality(toHeal \ {s})
           <= LastRound + MaxCall * (1 + Cardinality(Optional))
<1>1. 0 \in 0..MaxCall
  BY HealthWaiterAssumption
<1>2. now + 0 + MaxCall * Cardinality(toHeal \ {s})
        <= LastRound + MaxCall * (1 + Cardinality(Optional))
  BY <1>1, ReserveKept
<1> QED
  BY <1>2 DEF TypeOK

-----------------------------------------------------------------------------
\* A wait begins with nothing blamed, restarted or late (Init).
LEMMA InitIInv == Init => IInv
<1> SUFFICES ASSUME Init PROVE IInv
  OBVIOUS
<1>1. TypeOK
  BY HealthWaiterAssumption DEF Init, TypeOK, Services, States, Results
<1>2. OnTime
  BY <1>1, Numbers, HealthWaiterAssumption DEF Init, OnTime, EndsInTime, LastRound
<1>3. RestartsKnown /\ OverWhenDone /\ FailsOnlyForRequired
  BY DEF Init, RestartsKnown, OverWhenDone, FailsOnlyForRequired
<1> QED
  BY <1>1, <1>2, <1>3 DEF IInv

\* AbortSeen, Interrupt, Finished and stuttering leave the clock alone.
LEMMA QuietStep ==
  ASSUME IInv, AbortSeen \/ Interrupt \/ Finished \/ UNCHANGED vars
  PROVE  IInv'
<1>1. TypeOK'
  BY DEF IInv, TypeOK, AbortSeen, Interrupt, Finished, Settle, Results
<1>2. OnTime'
  BY DEF IInv, OnTime, EndsInTime, AbortSeen, Interrupt, Finished, Settle
<1>3. RestartsKnown' /\ OverWhenDone' /\ FailsOnlyForRequired'
  BY DEF IInv, RestartsKnown, OverWhenDone, FailsOnlyForRequired, AbortSeen,
         Interrupt, Finished, Settle
<1> QED
  BY <1>1, <1>2, <1>3 DEF IInv

\* A poll begins a round in time, and reserves a command for every optional
\* service (Poll, PollFails).
LEMMA PollStep ==
  ASSUME IInv, Poll \/ PollFails
  PROVE  IInv'
<1>1. PICK d \in 0..MaxCall : now' = now + d
  BY DEF Poll, PollFails, Elapses
<1>2. TypeOK'
  <2>1. now' \in Nat
    BY <1>1, HealthWaiterAssumption DEF IInv, TypeOK
  <2> QED
    BY <2>1 DEF IInv, TypeOK, Poll, PollFails, Settle, Results
<1>3. OnTime'
  <2> DEFINE reserve == MaxCall * Cardinality(Optional)
  <2>1. LastRound \in Nat /\ reserve \in Nat
        /\ MaxCall * (1 + Cardinality(Optional)) = MaxCall + reserve
    BY Numbers DEF IInv
  <2>2. now \in Nat /\ now <= LastRound /\ MaxCall \in Nat
    BY HealthWaiterAssumption DEF IInv, TypeOK, OnTime, Poll, PollFails
  <2>3. now' + reserve <= LastRound + MaxCall * (1 + Cardinality(Optional))
        /\ now' <= LastRound + MaxCall * (1 + Cardinality(Optional))
    <3> HIDE DEF reserve
    <3> QED
      BY <1>1, <2>1, <2>2
  <2>4. EndsInTime'
    BY <2>3 DEF EndsInTime, LastRound
  <2>5. CASE Poll
    BY <2>3, <2>4, <2>5 DEF OnTime, Poll, LastRound
  <2>6. CASE PollFails
    BY <2>4, <2>6 DEF OnTime, PollFails, Settle
  <2> QED
    BY <2>5, <2>6
<1>4. RestartsKnown' /\ OverWhenDone' /\ FailsOnlyForRequired'
  BY DEF IInv, RestartsKnown, OverWhenDone, FailsOnlyForRequired, Poll,
         PollFails, Settle
<1> QED
  BY <1>2, <1>3, <1>4 DEF IInv

\* Looking at an optional service uses at most the command reserved for it, and
\* restarts it only if it was not restarted before (Heal).
LEMMA HealStep ==
  ASSUME IInv, NEW s \in Optional,
         LeaveAlone(s) \/ Abandon(s) \/ Restart(s) \/ RestartFails(s)
           \/ RestartAborted(s)
  PROVE  IInv'
<1>1. pc = "heal" /\ s \in toHeal /\ result = "none"
  BY DEF IInv, OverWhenDone, LeaveAlone, Abandon, Restart, RestartFails,
         RestartAborted, MustHeal, Healing
<1>2. BrokenStreak(s) \in Nat
  BY DEF IInv, TypeOK, BrokenStreak
<1>3. TypeOK'
  <2>1. brokenStreaks' \in [Optional -> Nat]
    BY <1>2 DEF IInv, TypeOK, LeaveAlone, Abandon, Restart, RestartFails,
       RestartAborted
  <2>2. now' \in Nat /\ lastRestartAt' \in Nat
    BY HealthWaiterAssumption DEF IInv, TypeOK, LeaveAlone, Abandon, Restart,
       RestartFails, RestartAborted, Elapses
  <2>3. restarts' \in [Optional -> Nat] /\ restarted' \subseteq Optional
        /\ abandoned' \subseteq Optional /\ toHeal' \subseteq Optional
    BY DEF IInv, TypeOK, LeaveAlone, Abandon, Restart, RestartFails,
       RestartAborted, Restarted
  <2> QED
    BY <2>1, <2>2, <2>3 DEF IInv, TypeOK, LeaveAlone, Abandon, Restart,
       RestartFails, RestartAborted, Settle, Results
<1>4. OnTime'
  <2>1. CASE LeaveAlone(s) \/ Abandon(s)
    BY <1>1, <2>1, ReserveReturned DEF IInv, OnTime, EndsInTime, LastRound,
       LeaveAlone, Abandon
  <2>2. CASE Restart(s) \/ RestartFails(s)
    <3>1. PICK d \in 0..MaxCall : now' = now + d
      BY <2>2 DEF Restart, RestartFails, Elapses
    <3>2. toHeal' = toHeal \ {s} /\ pc' = "heal"
      BY <1>1, <2>2 DEF Restart, RestartFails
    <3>3. now' + MaxCall * Cardinality(toHeal')
            <= LastRound + MaxCall * (1 + Cardinality(Optional))
      BY <1>1, <3>1, <3>2, ReserveKept DEF IInv
    <3>4. MaxCall * Cardinality(toHeal') \in Nat /\ now' \in Nat
          /\ LastRound + MaxCall * (1 + Cardinality(Optional)) \in Nat
      <4>1. IsFiniteSet(toHeal')
        BY <3>2, Numbers, FS_RemoveElement DEF IInv
      <4>2. Cardinality(toHeal') \in Nat /\ MaxCall \in Nat
        BY <4>1, FS_CardinalityType, HealthWaiterAssumption
      <4>3. MaxCall * Cardinality(toHeal') \in Nat
        BY <4>2
      <4>4. now' \in Nat
        BY <1>3 DEF TypeOK
      <4>5. LastRound + MaxCall * (1 + Cardinality(Optional)) \in Nat
        BY Numbers, <4>2 DEF IInv
      <4> QED
        BY <4>3, <4>4, <4>5
    <3>5. now' <= LastRound + MaxCall * (1 + Cardinality(Optional))
      BY <3>3, <3>4
    <3> QED
      BY <3>2, <3>3, <3>5 DEF OnTime, EndsInTime, LastRound
  <2>3. CASE RestartAborted(s)
    BY <2>3 DEF IInv, OnTime, EndsInTime, RestartAborted, Settle
  <2> QED
    BY <2>1, <2>2, <2>3
<1>5. RestartsKnown'
  <2>1. CASE Restart(s)
    <3>1. restarts' = [restarts EXCEPT ![s] = @ + 1]
          /\ restarted' = restarted \cup {s} /\ s \notin restarted
      BY <2>1 DEF Restart, Restarted
    <3>2. restarts \in [Optional -> Nat] /\ RestartsKnown
      BY DEF IInv, TypeOK
    <3> QED
      BY <3>1, <3>2 DEF RestartsKnown
  <2>2. CASE ~Restart(s)
    BY <2>2 DEF IInv, RestartsKnown, LeaveAlone, Abandon, RestartFails,
       RestartAborted
  <2> QED
    BY <2>1, <2>2
<1>6. OverWhenDone' /\ FailsOnlyForRequired'
  BY <1>1 DEF IInv, OverWhenDone, FailsOnlyForRequired, LeaveAlone, Abandon,
     Restart, RestartFails, RestartAborted, Settle
<1> QED
  BY <1>3, <1>4, <1>5, <1>6 DEF IInv

\* A wait that ends blames only required services its last poll saw unwell
\* (Succeed, FailExited, FailUnhealthy, FailTimeout).
LEMMA VerdictStep ==
  ASSUME IInv, Succeed \/ FailExited \/ FailUnhealthy \/ FailTimeout
  PROVE  IInv'
<1>1. NextStreaks \in [Required -> Nat]
  BY DEF IInv, TypeOK, NextStreaks
<1>2. HealthyAt \in Nat
  BY DEF IInv, TypeOK, HealthyAt
<1>3. TypeOK'
  <2>1. unhealthyStreaks' \in [Required -> Nat]
        /\ requiredHealthyAt' \in Nat \cup {Never}
    BY <1>1, <1>2 DEF IInv, TypeOK, Succeed, FailExited, FailUnhealthy,
       FailTimeout, CountUnhealthy
  <2>2. failed' \subseteq Required /\ result' \in Results /\ pc' = "done"
    BY DEF Succeed, FailExited, FailUnhealthy, FailTimeout, CountUnhealthy,
       Settle, Exited, Confirmed, UnhealthyNow, Results
  <2> QED
    BY <2>1, <2>2 DEF IInv, TypeOK, Succeed, FailExited, FailUnhealthy,
       FailTimeout, CountUnhealthy
<1>4. OnTime'
  BY DEF IInv, OnTime, EndsInTime, Succeed, FailExited, FailUnhealthy,
     FailTimeout, CountUnhealthy, Settle
<1>5. RestartsKnown' /\ OverWhenDone'
  BY DEF IInv, RestartsKnown, OverWhenDone, Succeed, FailExited, FailUnhealthy,
     FailTimeout, CountUnhealthy, Settle
<1>6. FailsOnlyForRequired'
  <2>1. CASE Succeed
    BY <2>1 DEF Succeed, Settle, FailsOnlyForRequired
  <2>2. CASE FailExited
    BY <2>2 DEF FailExited, Settle, FailsOnlyForRequired, Exited
  <2>3. CASE FailUnhealthy
    BY <2>3 DEF FailUnhealthy, CountUnhealthy, Settle, FailsOnlyForRequired,
       Confirmed, UnhealthyNow
  <2>4. CASE FailTimeout
    BY <2>4 DEF FailTimeout, CountUnhealthy, Settle, FailsOnlyForRequired,
       RequiredHealthy
  <2> QED
    BY <2>1, <2>2, <2>3, <2>4
<1> QED
  BY <1>3, <1>4, <1>5, <1>6 DEF IInv

\* Sleeps begin before the timeout and last at most an interval
\* (WaitForOptional, WaitForRequired).
LEMMA SleepStep ==
  ASSUME IInv, WaitForOptional \/ WaitForRequired
  PROVE  IInv'
<1> DEFINE left == GraceTicks - (now - GraceFrom(HealthyAt))
<1>1. now \in Nat /\ HealthyAt \in Nat /\ lastRestartAt \in Nat
      /\ GraceFrom(HealthyAt) \in Nat
  BY DEF IInv, TypeOK, HealthyAt, GraceFrom
<1>2. TimeoutTicks \in Nat /\ IntervalTicks \in Nat /\ GraceTicks \in Nat
  BY HealthWaiterAssumption
<1>3. now < TimeoutTicks /\ wakeAt' \in Nat /\ wakeAt' <= now + IntervalTicks
  <2>1. CASE WaitForOptional
    <3>1. now < TimeoutTicks /\ left > 0 /\ left \in Int
      BY <1>1, <1>2, <2>1 DEF WaitForOptional, DoneWaiting
    <3>2. wakeAt' = now + Least(IntervalTicks, left)
      BY <2>1 DEF WaitForOptional
    <3> HIDE DEF left
    <3> QED
      BY <1>1, <1>2, <3>1, <3>2 DEF Least
  <2>2. CASE WaitForRequired
    BY <1>1, <1>2, <2>2 DEF WaitForRequired, Least
  <2> QED
    BY <2>1, <2>2
<1>4. TypeOK'
  <2>1. NextStreaks \in [Required -> Nat]
    BY DEF IInv, TypeOK, NextStreaks
  <2> QED
    BY <1>1, <1>3, <2>1 DEF IInv, TypeOK, WaitForOptional, WaitForRequired,
       CountUnhealthy
<1>5. OnTime'
  BY <1>1, <1>2, <1>3 DEF IInv, OnTime, EndsInTime, LastRound, WaitForOptional,
     WaitForRequired, CountUnhealthy
<1>6. RestartsKnown' /\ OverWhenDone' /\ FailsOnlyForRequired'
  BY DEF IInv, RestartsKnown, OverWhenDone, FailsOnlyForRequired,
     WaitForOptional, WaitForRequired, CountUnhealthy, Deciding
<1> QED
  BY <1>4, <1>5, <1>6 DEF IInv

\* Nobody sleeps longer than planned (Wake).
LEMMA WakeStep ==
  ASSUME IInv, Wake
  PROVE  IInv'
<1>1. now' \in Nat /\ now' <= LastRound
  <2>1. now \in Nat /\ wakeAt \in Nat /\ wakeAt <= LastRound /\ LastRound \in Nat
    BY Numbers DEF IInv, TypeOK, OnTime, Wake
  <2>2. now' \in now..wakeAt \/ now' = wakeAt
    BY DEF Wake
  <2> QED
    BY <2>1, <2>2
<1>2. TypeOK'
  BY <1>1 DEF IInv, TypeOK, Wake
<1>3. OnTime'
  <2>1. LastRound \in Nat /\ MaxCall * (1 + Cardinality(Optional)) \in Nat
    BY Numbers, HealthWaiterAssumption DEF IInv
  <2>2. now' <= LastRound + MaxCall * (1 + Cardinality(Optional))
    BY <1>1, <2>1
  <2> QED
    BY <1>1, <2>2 DEF OnTime, EndsInTime, LastRound, Wake
<1>4. RestartsKnown' /\ OverWhenDone' /\ FailsOnlyForRequired'
  BY DEF IInv, RestartsKnown, OverWhenDone, FailsOnlyForRequired, Wake
<1> QED
  BY <1>2, <1>3, <1>4 DEF IInv

\* The invariant is inductive: every step of the waiter and an interrupt keep it.
LEMMA NextIInv == IInv /\ [Next]_vars => IInv'
<1> SUFFICES ASSUME IInv, [Next]_vars PROVE IInv'
  OBVIOUS
<1>1. CASE AbortSeen \/ Interrupt \/ Finished \/ UNCHANGED vars
  BY <1>1, QuietStep
<1>2. CASE Poll \/ PollFails
  BY <1>2, PollStep
<1>3. CASE Heal
  <2>1. PICK s \in Optional :
          LeaveAlone(s) \/ Abandon(s) \/ Restart(s) \/ RestartFails(s)
            \/ RestartAborted(s)
    BY <1>3 DEF Heal
  <2> QED
    BY <2>1, HealStep
<1>4. CASE Succeed \/ FailExited \/ FailUnhealthy \/ FailTimeout
  BY <1>4, VerdictStep
<1>5. CASE WaitForOptional \/ WaitForRequired
  BY <1>5, SleepStep
<1>6. CASE Wake
  BY <1>6, WakeStep
<1> QED
  BY <1>1, <1>2, <1>3, <1>4, <1>5, <1>6 DEF Next, Waiter

\* The inductive invariant holds in every reachable state.
THEOREM Invariance == Spec => []IInv
<1>1. Init => IInv
  BY InitIInv
<1>2. IInv /\ [Next]_vars => IInv'
  BY NextIInv
<1> QED
  BY <1>1, <1>2, PTL DEF Spec

\* The variables of waitForHealthy keep their types.
THEOREM TypeCorrect == Spec => []TypeOK
<1>1. IInv => TypeOK
  BY DEF IInv
<1> QED
  BY <1>1, Invariance, PTL

\* Whatever the services and the docker commands do, waitForHealthy ends by its
\* timeout, an interval and the commands of one round.
THEOREM WaitEndsInTime == Spec => []EndsInTime
<1>1. IInv => EndsInTime
  BY DEF IInv, OnTime
<1> QED
  BY <1>1, Invariance, PTL

\* A wait only fails for a required service the last poll saw unwell.
THEOREM OptionalNeverFails == Spec => []FailsOnlyForRequired
<1>1. IInv => FailsOnlyForRequired
  BY DEF IInv
<1> QED
  BY <1>1, Invariance, PTL

\* healOptional restarts a service at most once in a wait.
THEOREM RestartsOnce == Spec => []RestartedOnce
<1>1. IInv => RestartedOnce
  <2> SUFFICES ASSUME IInv, NEW s \in Optional PROVE restarts[s] <= 1
    BY DEF RestartedOnce
  <2>1. restarts[s] \in Nat /\ restarts[s] <= IF s \in restarted THEN 1 ELSE 0
    BY DEF IInv, TypeOK, RestartsKnown
  <2> QED
    BY <2>1
<1> QED
  BY <1>1, Invariance, PTL

-----------------------------------------------------------------------------
(* Optional services are given their chance.                                  *)

Unwell == {"exited", "unhealthy"}
Tried(s) == restarts[s] > 0 \/ s \in abandoned
\* Its broken polls are counted, or no longer matter.
Noticed(s) == brokenStreaks[s] >= 1 \/ Tried(s)

\* The streak lags behind the poll until healOptional has looked at the service;
\* from then on two broken polls in a row have been acted upon.
StreaksFollow ==
  \A s \in Optional :
    IF pc = "heal" /\ s \in toHeal
    THEN previous[s] \in Unwell => Noticed(s)
    ELSE pc # "done" =>
           /\ seen[s] \in Unwell => Noticed(s)
           /\ {seen[s], previous[s]} \subseteq Unwell => Tried(s)

TriedInv == StreaksFollow /\ OptionalWasTried

\* A service that was looked at is counted, restarted or abandoned (Heal).
LEMMA HealFollows ==
  ASSUME IInv, TriedInv, NEW s \in Optional,
         LeaveAlone(s) \/ Abandon(s) \/ Restart(s) \/ RestartFails(s)
  PROVE  TriedInv'
<1>1. /\ pc = "heal" /\ s \in toHeal /\ pc' = "heal" /\ toHeal' = toHeal \ {s}
      /\ seen' = seen /\ previous' = previous /\ result' = result /\ result = "none"
  BY DEF IInv, OverWhenDone, LeaveAlone, Abandon, Restart, RestartFails,
     MustHeal, Healing
<1>2. ASSUME NEW t \in Optional, t # s
      PROVE  brokenStreaks'[t] = brokenStreaks[t] /\ (Tried(t)' <=> Tried(t))
  BY <1>2 DEF IInv, TypeOK, Tried, LeaveAlone, Abandon, Restart, RestartFails
<1>3. CASE Tried(s)'
  BY <1>1, <1>2, <1>3 DEF TriedInv, StreaksFollow, Noticed, OptionalWasTried
<1>4. CASE ~Tried(s)'
  <2>1. /\ LeaveAlone(s) /\ s \notin abandoned
        /\ BrokenStreak(s) < UnhealthyConfirmationPolls
        /\ brokenStreaks'[s] = BrokenStreak(s) /\ ~Tried(s)
    BY <1>4 DEF IInv, TypeOK, Tried, LeaveAlone, Abandon, Restart, RestartFails
  <2>2. seen[s] \in Unwell => brokenStreaks[s] = 0 /\ brokenStreaks'[s] = 1
    BY <2>1 DEF IInv, TypeOK, BrokenStreak, Broken, Unwell,
       UnhealthyConfirmationPolls
  <2>3. previous[s] \in Unwell => brokenStreaks[s] >= 1
    BY <1>1, <2>1 DEF TriedInv, StreaksFollow, Noticed
  <2>4. ~({seen[s], previous[s]} \subseteq Unwell)
    BY <2>2, <2>3
  <2>5. seen'[s] \in Unwell => Noticed(s)'
    BY <1>1, <2>2 DEF Noticed
  <2>6. ~({seen'[s], previous'[s]} \subseteq Unwell)
    BY <1>1, <2>4
  <2> QED
    BY <1>1, <1>2, <2>5, <2>6 DEF TriedInv, StreaksFollow, Noticed, OptionalWasTried
<1> QED
  BY <1>3, <1>4

LEMMA NextTriedInv == IInv /\ TriedInv /\ [Next]_vars => TriedInv'
<1> SUFFICES ASSUME IInv, TriedInv, [Next]_vars PROVE TriedInv'
  OBVIOUS
<1>1. CASE Interrupt \/ Finished \/ UNCHANGED vars
  BY <1>1 DEF TriedInv, StreaksFollow, Noticed, Tried, OptionalWasTried, Interrupt,
     Finished
<1>2. CASE AbortSeen \/ PollFails \/ FailExited \/ FailUnhealthy \/ FailTimeout
  BY <1>2 DEF TriedInv, StreaksFollow, OptionalWasTried, AbortSeen, PollFails,
     FailExited, FailUnhealthy, FailTimeout, CountUnhealthy, Settle
<1>3. CASE Poll
  BY <1>3 DEF Poll, IInv, OverWhenDone, TriedInv, StreaksFollow, Noticed, Tried,
     OptionalWasTried
<1>4. CASE Heal
  <2>1. PICK s \in Optional :
          LeaveAlone(s) \/ Abandon(s) \/ Restart(s) \/ RestartFails(s)
            \/ RestartAborted(s)
    BY <1>4 DEF Heal
  <2>2. CASE RestartAborted(s)
    BY <2>2 DEF RestartAborted, Settle, TriedInv, StreaksFollow, OptionalWasTried
  <2> QED
    BY <2>1, <2>2, HealFollows
<1>5. CASE Succeed
  BY <1>5 DEF Succeed, Deciding, Settle, TriedInv, StreaksFollow, Tried, Unwell,
     OptionalWasTried
<1>6. CASE WaitForOptional \/ WaitForRequired
  BY <1>6 DEF WaitForOptional, WaitForRequired, CountUnhealthy, Deciding, IInv,
     OverWhenDone, TriedInv, StreaksFollow, Noticed, Tried, OptionalWasTried
<1>7. CASE Wake
  BY <1>7 DEF Wake, IInv, OverWhenDone, TriedInv, StreaksFollow, Noticed, Tried,
     OptionalWasTried
<1> QED
  BY <1>1, <1>2, <1>3, <1>4, <1>5, <1>6, <1>7 DEF Next, Waiter

\* waitForHealthy never reports a healthy stack while an optional service has been
\* broken in the last two polls and healOptional has not tried to restart it.
THEOREM OptionalIsTried == Spec => []OptionalWasTried
<1>1. Init => TriedInv
  BY DEF Init, TriedInv, StreaksFollow, OptionalWasTried, Services, Unwell
<1>2. TriedInv => OptionalWasTried
  BY DEF TriedInv
<1> QED
  BY <1>1, <1>2, NextTriedInv, Invariance, PTL DEF Spec
-----------------------------------------------------------------------------
(* A required service that is reported unhealthy.                             *)

\* A streak is of the poll before, or of the last one once it has been judged.
StreaksFresh ==
  \A s \in Required : unhealthyStreaks[s] > 0 =>
    /\ pc \in {"poll", "delay"} => seen[s] = "unhealthy"
    /\ pc = "heal" => previous[s] = "unhealthy"

FreshInv == StreaksFresh /\ UnhealthyIsConfirmed

\* Where the wait for optional services does not come between two judgements,
\* every poll counts or clears the streaks.
LEMMA NextFreshInv ==
  ASSUME Optional = {}, IInv, FreshInv, [Next]_vars
  PROVE  FreshInv'
<1>1. CASE Interrupt \/ Finished \/ UNCHANGED vars
  BY <1>1 DEF FreshInv, StreaksFresh, UnhealthyIsConfirmed, Interrupt, Finished
<1>2. CASE AbortSeen \/ PollFails \/ Succeed \/ FailExited
  BY <1>2 DEF FreshInv, StreaksFresh, UnhealthyIsConfirmed, AbortSeen, PollFails, Succeed,
     FailExited, Settle
<1>3. CASE Poll
  BY <1>3 DEF Poll, IInv, OverWhenDone, FreshInv, StreaksFresh, UnhealthyIsConfirmed
<1>4. CASE FailUnhealthy \/ FailTimeout \/ WaitForRequired
  <2>1. /\ unhealthyStreaks' = NextStreaks /\ UNCHANGED <<seen, previous>>
        /\ pc = "heal" /\ result = "none"
    BY <1>4 DEF FailUnhealthy, FailTimeout, WaitForRequired, CountUnhealthy, Deciding,
       IInv, OverWhenDone
  <2>2. ASSUME NEW s \in Required
        PROVE  /\ NextStreaks[s] > 0 => seen[s] = "unhealthy"
               /\ NextStreaks[s] >= 2 => previous[s] = "unhealthy"
    BY <2>1 DEF NextStreaks, UnhealthyNow, FreshInv, StreaksFresh, IInv, TypeOK
  <2>3. CASE FailUnhealthy
    BY <2>1, <2>2, <2>3 DEF FailUnhealthy, Settle, Confirmed, UnhealthyNow,
       UnhealthyConfirmationPolls, FreshInv, StreaksFresh, UnhealthyIsConfirmed
  <2>4. CASE FailTimeout \/ WaitForRequired
    BY <2>1, <2>2, <2>4 DEF FailTimeout, WaitForRequired, Settle, FreshInv, StreaksFresh,
       UnhealthyIsConfirmed
  <2> QED
    BY <1>4, <2>3, <2>4
<1>5. CASE Wake
  BY <1>5 DEF Wake, IInv, OverWhenDone, FreshInv, StreaksFresh, UnhealthyIsConfirmed
<1>6. ~WaitForOptional /\ ~Heal
  BY DEF WaitForOptional, WaitingFor, Heal
<1> QED
  BY <1>1, <1>2, <1>3, <1>4, <1>5, <1>6 DEF Next, Waiter

\* In a stack without optional services a required one is only reported unhealthy
\* when two polls in a row saw it so (UNHEALTHY_CONFIRMATION_POLLS).  With them it
\* can be reported after one: the wait for them does not clear its streak.
THEOREM UnhealthyTwice ==
  ASSUME Optional = {}
  PROVE  Spec => []UnhealthyIsConfirmed
<1>1. Init => FreshInv
  BY DEF Init, FreshInv, StreaksFresh, UnhealthyIsConfirmed
<1>2. IInv /\ FreshInv /\ [Next]_vars => FreshInv'
  BY NextFreshInv
<1>3. FreshInv => UnhealthyIsConfirmed
  BY DEF FreshInv
<1> QED
  BY <1>1, <1>2, <1>3, Invariance, PTL DEF Spec

=============================================================================
