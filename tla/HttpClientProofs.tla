--------------------------- MODULE HttpClientProofs ---------------------------
(***************************************************************************)
(* Proofs about HttpClient, for every policy and every timeout: its types,  *)
(* the time a wait, with its verification, and a request take at most, and  *)
(* that it implements Exchange.                                             *)
(***************************************************************************)
EXTENDS HttpClient, TLAPS

Waiting  == {"probe", "probing", "verify", "verifying", "resting", "pausing"}
Sending  == {"attempt", "waiting", "sleeping"}

\* The time n failed attempts and the pauses after them take at most.
Slot     == Timeout + MaxPause
Spent(n) == n * Slot

\* Nothing is sent before the service was ready; the result comes last.
Phases ==
  /\ pc \in Waiting => sent = 0
  /\ pc = "attempt" /\ sent = 0 => elapsed = 0
  /\ pc \in {"waiting", "sleeping"} => sent > 0
  /\ pc = "done" <=> result # "none"
  /\ result = "notReady" => sent = 0
  /\ pc \in Sending => attempt <= attempts
  /\ pc = "sleeping" => attempt < attempts
  /\ pc \in {"verify", "verifying"} => tries \in 1..verify
  /\ pc = "resting" => tries \in 1..(verify - 1)

\* The clock, with what the pending timer may still add.
Clock ==
  /\ pc = "probe" => elapsed <= PollTimeout
  /\ pc = "probing" => elapsed + timer <= PollTimeout + ProbeTimeout
  /\ pc = "verify" => elapsed <= PollTimeout + ProbeTimeout + Spent(tries - 1)
  /\ pc = "verifying" =>
       elapsed + timer <= PollTimeout + ProbeTimeout + Spent(tries - 1) + Timeout
  /\ pc = "resting" => elapsed + timer <= PollTimeout + ProbeTimeout + Spent(tries)
  /\ pc = "pausing" => elapsed + timer <= PollTimeout
  /\ pc = "attempt" => elapsed <= Spent(attempt - 1)
  /\ pc = "waiting" => elapsed + timer <= Spent(attempt - 1) + Timeout
  /\ pc = "sleeping" => elapsed + timer <= Spent(attempt)
  /\ pc = "done" => EndsInTime

\* What the server may still run: the strays and the attempt being waited for.
Open == strays + (IF pc = "waiting" /\ ~ran THEN 1 ELSE 0)

Sends ==
  /\ runs + Open <= sent
  /\ resets + (IF pc = "waiting" THEN 1 ELSE 0) <= sent
  /\ pc = "waiting" /\ ran => runs > 0
  /\ method = "POST" => runs + strays <= resets + 1
  /\ method = "POST" /\ (pc \in {"attempt", "sleeping"} \/ (pc = "waiting" /\ ~ran)) =>
       runs + strays <= resets

IInv == TypeOK /\ Phases /\ Clock /\ Sends

USE DEF vars, policy, server, history

-----------------------------------------------------------------------------
(* Arithmetic.                                                              *)

LEMMA SlotIsNat == MaxPause \in Nat /\ Slot \in Nat /\ MaxPause >= MaxDelay
                   /\ MaxPause >= MaxRetryAfter
BY HttpAssumption DEF MaxPause, Slot, Max2

LEMMA SpentGrows ==
  /\ Spent(0) = 0
  /\ \A n \in Nat : Spent(n) \in Nat /\ Spent(n + 1) = Spent(n) + Slot
<1>1. Slot \in Nat
  BY SlotIsNat
<1> HIDE DEF Slot
<1> QED
  BY <1>1 DEF Spent

LEMMA SpentMonotone ==
  ASSUME NEW a \in Nat, NEW b \in Nat, a <= b
  PROVE  Spent(a) <= Spent(b)
<1>1. Slot \in Nat
  BY SlotIsNat
<1> HIDE DEF Slot
<1> QED
  BY <1>1 DEF Spent

LEMMA SpentBound ==
  ASSUME NEW n \in Nat \ {0}
  PROVE  RequestTime(n) = Spent(n - 1) + Timeout
<1>1. MaxPause \in Nat /\ Timeout \in Nat
  BY SlotIsNat, HttpAssumption
<1> HIDE DEF MaxPause
<1> QED
  BY <1>1 DEF Spent, Slot, RequestTime

\* A pause is never longer than the longest of the two caps.
LEMMA PausesCapped ==
  ASSUME NEW n, NEW wish \in Nat, NEW p \in Pause(n, wish)
  PROVE  p \in Nat /\ p <= MaxPause
<1>1. PICK d \in 0..MaxDelay : p = Max2(d, RetryAfter(wish))
  BY DEF Pause, Backoff
<1>2. RetryAfter(wish) \in Nat /\ RetryAfter(wish) <= MaxRetryAfter
  BY HttpAssumption DEF RetryAfter, Min2
<1> QED
  BY <1>1, <1>2, SlotIsNat, HttpAssumption DEF Max2

LEMMA IntervalsCut ==
  ASSUME NEW n, NEW p \in Interval(n), elapsed \in Nat, elapsed < PollTimeout
  PROVE  p \in Nat /\ elapsed + p <= PollTimeout
<1>1. PICK d \in 0..MaxDelay : p = Min2(d, PollTimeout - elapsed)
  BY DEF Interval, Backoff
<1> QED
  BY <1>1, HttpAssumption DEF Min2
-----------------------------------------------------------------------------
(* Types and the invariant, action by action.                               *)

LEMMA InitInv == Init => IInv
<1> SUFFICES ASSUME Init PROVE IInv
  OBVIOUS
<1>1. TypeOK
  <2>1. attempts \in 1..MaxAttempts
    BY DEF Init
  <2>2. pc \in Labels /\ result \in Results
    BY DEF Init, Labels, Results
  <2>3. aborted \in BOOLEAN /\ ran \in BOOLEAN
    BY DEF Init
  <2> QED
    BY <2>1, <2>2, <2>3 DEF Init, TypeOK
<1>2. Phases /\ Clock /\ Sends
  BY HttpAssumption DEF Init, Phases, Clock, Sends, Open, Waiting, Sending
<1> QED
  BY <1>1, <1>2 DEF IInv

\* The ways a step sets its timer.
LEMMA SleepTypes ==
  ASSUME IInv, NEW kind, NEW wish \in Nat, pc = "waiting", SleepOrGiveUp(kind, wish),
         kind \in {"busy", "failed", "rejected", "refused", "reset", "broken", "timeout"}
  PROVE  /\ pc' \in {"sleeping", "done"} /\ result' \in {"none", "status", "network", "timeout"}
         /\ pc' = "done" <=> result' # "none"
         /\ timer' \in Nat /\ attempt' = attempt /\ elapsed' = elapsed
         /\ pc' = "sleeping" => Retryable(kind) /\ attempt < attempts /\ timer' <= MaxPause
<1>1. result = "none" /\ timer \in Nat
  BY DEF IInv, TypeOK, Phases
<1>2. CASE GiveUp(kind)
  BY <1>1, <1>2 DEF SleepOrGiveUp, Done, ResultOf
<1>3. CASE ~GiveUp(kind)
  <2>1. timer' \in Nat /\ timer' <= MaxPause
    BY <1>3, PausesCapped DEF SleepOrGiveUp
  <2>2. attempt < attempts /\ Retryable(kind)
    BY <1>3 DEF GiveUp, IInv, TypeOK
  <2> QED
    BY <1>1, <1>3, <2>1, <2>2 DEF SleepOrGiveUp
<1> QED
  BY <1>2, <1>3

\* The end of an attempt keeps to the time: the sleep takes its share.
LEMMA SleepClock ==
  ASSUME IInv, pc = "waiting", pc' \in {"sleeping", "done"}, timer' \in Nat,
         attempt' = attempt, elapsed' = elapsed, UNCHANGED <<attempts, sent>>,
         pc' = "sleeping" => timer' <= MaxPause
  PROVE  Clock'
<1>1. elapsed + timer <= Spent(attempt - 1) + Timeout /\ sent > 0
  BY DEF IInv, Clock, Phases
<1>2. attempt \in Nat \ {0} /\ attempts \in Nat \ {0} /\ attempt <= attempts
      /\ timer \in Nat /\ elapsed \in Nat
  BY HttpAssumption DEF IInv, TypeOK, Phases, Sending
<1>3. Spent(attempt - 1) + Slot = Spent(attempt) /\ Spent(attempt) \in Nat
      /\ Spent(attempt - 1) \in Nat /\ Spent(attempts - 1) \in Nat
  <2>1. attempt - 1 \in Nat /\ attempts - 1 \in Nat /\ (attempt - 1) + 1 = attempt
    BY <1>2
  <2> QED
    BY <2>1, <1>2, SpentGrows
<1>4. Spent(attempt - 1) <= Spent(attempts - 1)
  <2>1. attempt - 1 \in Nat /\ attempts - 1 \in Nat /\ attempt - 1 <= attempts - 1
    BY <1>2
  <2> QED
    BY <2>1, SpentMonotone
<1>5. CASE pc' = "sleeping"
  <2>1. elapsed + timer' <= Spent(attempt)
    BY <1>1, <1>2, <1>3, <1>5, SlotIsNat, HttpAssumption DEF Slot
  <2> QED
    BY <1>5, <2>1 DEF Clock
<1>6. CASE pc' = "done"
  <2>1. elapsed <= Spent(attempts - 1) + Timeout
    BY <1>1, <1>2, <1>3, <1>4, HttpAssumption
  <2>2. elapsed <= RequestTime(attempts)
    BY <2>1, <1>2, SpentBound
  <2>3. EndsInTime'
    BY <1>1, <2>2 DEF EndsInTime
  <2> QED
    BY <1>6, <2>3 DEF Clock
<1> QED
  BY <1>5, <1>6

\* A wait that is within its budget is in time, with or without a verification.
LEMMA WithinBudget ==
  ASSUME verify \in Nat, NEW e \in Nat, e <= PollTimeout + ProbeTimeout
  PROVE  e <= PollTimeout + ProbeTimeout
              + (IF verify = 0 THEN 0 ELSE RequestTime(verify))
<1>1. CASE verify = 0
  BY <1>1, HttpAssumption
<1>2. CASE verify # 0
  <2>1. verify - 1 \in Nat /\ verify \in Nat \ {0}
    BY <1>2
  <2>2. RequestTime(verify) \in Nat
    BY <2>1, SpentBound, SpentGrows, HttpAssumption
  <2> QED
    BY <1>2, <2>2, HttpAssumption
<1> QED
  BY <1>1, <1>2

LEMMA ProbeStep == ASSUME IInv, Probe PROVE IInv'
<1>1. TypeOK'
  BY HttpAssumption DEF IInv, Probe, Done, TypeOK, Labels, Results
<1>2. Phases' /\ Sends'
  BY DEF IInv, Probe, Done, TypeOK, Phases, Sends, Open, Waiting, Sending
<1>3. Clock'
  <2>1. elapsed <= PollTimeout /\ elapsed \in Nat /\ verify \in Nat /\ sent = 0
    BY DEF IInv, Probe, TypeOK, Phases, Clock, Waiting
  <2>2. elapsed <= PollTimeout + ProbeTimeout
                   + (IF verify = 0 THEN 0 ELSE RequestTime(verify))
    BY <2>1, WithinBudget, HttpAssumption
  <2> QED
    BY <2>1, <2>2, HttpAssumption DEF Probe, Done, Clock, EndsInTime
<1> QED
  BY <1>1, <1>2, <1>3 DEF IInv

\* A wait that goes on stays within its budget.
LEMMA PauseStep ==
  ASSUME IInv, pc \in {"probing", "verifying"}, PauseOrGiveUp
  PROVE  /\ pc' \in {"pausing", "done"} /\ timer' \in Nat /\ elapsed' = elapsed
         /\ attempt' \in {attempt, attempt + 1}
         /\ pc' = "done" => result' = "notReady"
         /\ pc' = "pausing" => result' = "none" /\ elapsed + timer' <= PollTimeout
<1>1. elapsed \in Nat /\ timer \in Nat /\ result = "none"
  BY DEF IInv, TypeOK, Phases
<1>2. CASE elapsed >= PollTimeout
  BY <1>1, <1>2 DEF PauseOrGiveUp, Done
<1>3. CASE ~(elapsed >= PollTimeout)
  <2>1. elapsed < PollTimeout
    BY <1>1, <1>3, HttpAssumption
  <2>2. timer' \in Interval(attempt)
    BY <1>3 DEF PauseOrGiveUp
  <2>3. timer' \in Nat /\ elapsed + timer' <= PollTimeout
    BY <1>1, <2>1, <2>2, IntervalsCut
  <2> QED
    BY <1>1, <1>3, <2>3 DEF PauseOrGiveUp
<1> QED
  BY <1>2, <1>3

\* The service is ready: the request begins with a clock of its own.
LEMMA ReadyStep ==
  ASSUME IInv, pc \in {"probing", "verifying"}, Ready, tries' = tries,
         UNCHANGED <<policy, aborted, server, ran, strays, history>>
  PROVE  IInv'
<1>1. sent = 0 /\ result = "none" /\ attempts \in Nat /\ attempts >= 1
  BY HttpAssumption DEF IInv, TypeOK, Phases, Waiting
<1>2. TypeOK'
  BY <1>1 DEF IInv, TypeOK, Labels, Results, Ready
<1>3. Phases' /\ Sends'
  BY <1>1 DEF IInv, TypeOK, Phases, Sends, Open, Waiting, Sending, Ready
<1>4. Clock'
  BY <1>1, SpentGrows DEF Clock, Ready
<1> QED
  BY <1>2, <1>3, <1>4 DEF IInv

LEMMA ProbeEndsStep == ASSUME IInv, ProbeEnds PROVE IInv'
<1>1. pc = "probing" /\ sent = 0 /\ elapsed + timer <= PollTimeout + ProbeTimeout
      /\ elapsed \in Nat /\ timer \in Nat /\ result = "none" /\ attempts >= 1
      /\ verify \in Nat
  BY HttpAssumption DEF IInv, ProbeEnds, Phases, Clock, TypeOK, Waiting
<1>2. /\ UNCHANGED <<policy, aborted, server, ran, strays, history>>
  BY DEF ProbeEnds
<1>6. elapsed <= PollTimeout + ProbeTimeout
                 + (IF verify = 0 THEN 0 ELSE RequestTime(verify))
  <2>1. elapsed <= PollTimeout + ProbeTimeout
    BY <1>1, HttpAssumption
  <2> QED
    BY <1>1, <2>1, WithinBudget
<1>3. CASE PauseOrGiveUp /\ UNCHANGED tries
  <2>1. TypeOK'
    BY <1>1, <1>2, <1>3, PauseStep DEF IInv, TypeOK, Labels, Results
  <2>2. Phases' /\ Sends'
    BY <1>1, <1>2, <1>3, PauseStep DEF IInv, TypeOK, Phases, Sends, Open, Waiting, Sending
  <2>3. Clock'
    BY <1>1, <1>2, <1>3, <1>6, PauseStep DEF Clock, EndsInTime
  <2> QED
    BY <2>1, <2>2, <2>3 DEF IInv
<1>4. CASE (Done("aborted") \/ Done("status")) /\ UNCHANGED tries
  <2>1. TypeOK'
    BY <1>1, <1>2, <1>4 DEF IInv, TypeOK, Done, Labels, Results
  <2>2. Phases' /\ Sends'
    BY <1>1, <1>2, <1>4 DEF IInv, TypeOK, Done, Phases, Sends, Open, Waiting, Sending
  <2>3. Clock'
    BY <1>1, <1>2, <1>4, <1>6 DEF Done, Clock, EndsInTime
  <2> QED
    BY <2>1, <2>2, <2>3 DEF IInv
<1>5. CASE Ready /\ UNCHANGED tries
  BY <1>1, <1>2, <1>5, ReadyStep
<1>7. CASE /\ verify > 0 /\ pc' = "verify" /\ tries' = 1 /\ timer' = 0
           /\ UNCHANGED <<attempt, result, elapsed>>
  <2>1. TypeOK'
    BY <1>1, <1>2, <1>7 DEF IInv, TypeOK, Labels
  <2>2. Phases' /\ Sends'
    BY <1>1, <1>2, <1>7 DEF IInv, TypeOK, Phases, Sends, Open, Waiting, Sending
  <2>3. Clock'
    <3>1. tries' - 1 = 0 /\ Spent(tries' - 1) = 0
      BY <1>7, SpentGrows
    <3> QED
      BY <1>1, <1>7, <3>1, HttpAssumption DEF Clock
  <2> QED
    BY <2>1, <2>2, <2>3 DEF IInv
<1> QED
  BY <1>3, <1>4, <1>5, <1>7 DEF ProbeEnds

\* The time a wait has taken while the n-th attempt of its verification ends.
LEMMA VerifyTime ==
  ASSUME IInv, NEW n \in 1..verify, NEW e \in Nat,
         e <= PollTimeout + ProbeTimeout + Spent(n - 1) + Timeout
  PROVE  /\ e <= PollTimeout + ProbeTimeout
                 + (IF verify = 0 THEN 0 ELSE RequestTime(verify))
         /\ Spent(n - 1) \in Nat /\ Spent(n) = Spent(n - 1) + Slot
<1>1. verify \in Nat \ {0} /\ n \in Nat /\ n - 1 \in Nat /\ verify - 1 \in Nat
      /\ n - 1 <= verify - 1 /\ (n - 1) + 1 = n
  BY HttpAssumption DEF IInv, TypeOK
<1>2. /\ Spent(n - 1) \in Nat /\ Spent(verify - 1) \in Nat
      /\ Spent(n) = Spent(n - 1) + Slot
  BY <1>1, SpentGrows
<1>3. Spent(n - 1) <= Spent(verify - 1)
  BY <1>1, SpentMonotone
<1>4. RequestTime(verify) = Spent(verify - 1) + Timeout
  BY <1>1, SpentBound
<1> QED
  BY <1>1, <1>2, <1>3, <1>4, HttpAssumption

LEMMA VerifyStep == ASSUME IInv, Verify PROVE IInv'
<1>1. /\ pc = "verify" /\ sent = 0 /\ result = "none" /\ tries \in 1..verify
      /\ elapsed <= PollTimeout + ProbeTimeout + Spent(tries - 1) /\ elapsed \in Nat
      /\ UNCHANGED <<policy, tries, aborted, server, ran, strays, history>>
  BY DEF IInv, TypeOK, Verify, Phases, Clock, Waiting
<1>2. Spent(tries - 1) \in Nat
  <2>1. tries - 1 \in Nat
    BY <1>1 DEF IInv, TypeOK
  <2> QED
    BY <2>1, SpentGrows
<1>3. elapsed <= PollTimeout + ProbeTimeout + Spent(tries - 1) + Timeout
  BY <1>1, <1>2, HttpAssumption
<1>4. TypeOK'
  BY <1>1, HttpAssumption DEF IInv, Verify, Done, TypeOK, Labels, Results
<1>5. Phases' /\ Sends'
  BY <1>1 DEF IInv, Verify, Done, TypeOK, Phases, Sends, Open, Waiting, Sending
<1>6. Clock'
  <2>1. CASE aborted
    BY <1>1, <1>3, <2>1, VerifyTime DEF Verify, Done, Clock, EndsInTime
  <2>2. CASE ~aborted
    BY <1>1, <1>2, <2>2, HttpAssumption DEF Verify, Clock
  <2> QED
    BY <2>1, <2>2
<1> QED
  BY <1>4, <1>5, <1>6 DEF IInv

LEMMA VerifyEndsStep == ASSUME IInv, VerifyEnds PROVE IInv'
<1>1. /\ pc = "verifying" /\ sent = 0 /\ result = "none" /\ tries \in 1..verify
      /\ elapsed + timer <= PollTimeout + ProbeTimeout + Spent(tries - 1) + Timeout
      /\ elapsed \in Nat /\ timer \in Nat /\ attempts >= 1
      /\ UNCHANGED <<policy, tries, aborted, server, ran, strays, history>>
  BY HttpAssumption DEF IInv, TypeOK, VerifyEnds, Phases, Clock, Waiting
<1>2. /\ Spent(tries - 1) \in Nat /\ Spent(tries) = Spent(tries - 1) + Slot
      /\ elapsed <= PollTimeout + ProbeTimeout
                    + (IF verify = 0 THEN 0 ELSE RequestTime(verify))
  <2>1. tries - 1 \in Nat
    BY <1>1 DEF IInv, TypeOK
  <2>2. elapsed <= PollTimeout + ProbeTimeout + Spent(tries - 1) + Timeout
    BY <1>1, <2>1, SpentGrows, HttpAssumption
  <2> QED
    BY <1>1, <2>2, VerifyTime
<1>3. CASE PauseOrGiveUp
  <2>1. TypeOK'
    BY <1>1, <1>3, PauseStep DEF IInv, TypeOK, Labels, Results
  <2>2. Phases' /\ Sends'
    BY <1>1, <1>3, PauseStep DEF IInv, TypeOK, Phases, Sends, Open, Waiting, Sending
  <2>3. Clock'
    BY <1>1, <1>2, <1>3, PauseStep, HttpAssumption DEF Clock, EndsInTime
  <2> QED
    BY <2>1, <2>2, <2>3 DEF IInv
<1>4. CASE Done("aborted") \/ Done("status")
  <2>1. TypeOK'
    BY <1>1, <1>4 DEF IInv, TypeOK, Done, Labels, Results
  <2>2. Phases' /\ Sends'
    BY <1>1, <1>4 DEF IInv, TypeOK, Done, Phases, Sends, Open, Waiting, Sending
  <2>3. Clock'
    BY <1>1, <1>2, <1>4 DEF Done, Clock, EndsInTime
  <2> QED
    BY <2>1, <2>2, <2>3 DEF IInv
<1>5. CASE Ready
  BY <1>1, <1>5, ReadyStep
<1>6. CASE tries < verify /\ RestOrPoll
  <2>1. PICK wish \in Wishes : timer' \in Pause(tries, wish)
    BY <1>1, <1>6 DEF RestOrPoll, IInv, TypeOK
  <2>2. timer' \in Nat /\ timer' <= MaxPause
    BY <2>1, PausesCapped, HttpAssumption
  <2>3. pc' = "resting" /\ UNCHANGED <<attempt, result, elapsed>>
    BY <1>1, <1>6 DEF RestOrPoll, IInv, TypeOK
  <2>4. TypeOK'
    BY <1>1, <2>2, <2>3 DEF IInv, TypeOK, Labels
  <2>5. Phases' /\ Sends'
    BY <1>1, <1>6, <2>3 DEF IInv, TypeOK, Phases, Sends, Open, Waiting, Sending
  <2>6. elapsed + timer' <= PollTimeout + ProbeTimeout + Spent(tries)
    <3>1. elapsed <= PollTimeout + ProbeTimeout + Spent(tries - 1) + Timeout
      BY <1>1, <1>2, HttpAssumption
    <3> QED
      BY <1>1, <1>2, <2>2, <3>1, SlotIsNat, HttpAssumption DEF Slot
  <2>7. Clock'
    BY <1>1, <2>3, <2>6 DEF Clock
  <2> QED
    BY <2>4, <2>5, <2>7 DEF IInv
<1> QED
  BY <1>1, <1>3, <1>4, <1>5, <1>6 DEF VerifyEnds, RestOrPoll, IInv, TypeOK

LEMMA RestEndsStep == ASSUME IInv, RestEnds PROVE IInv'
<1>1. /\ pc = "resting" /\ sent = 0 /\ result = "none" /\ tries \in 1..(verify - 1)
      /\ elapsed + timer <= PollTimeout + ProbeTimeout + Spent(tries)
      /\ elapsed \in Nat /\ timer \in Nat /\ verify \in Nat
      /\ UNCHANGED <<policy, aborted, server, ran, strays, history>>
  BY HttpAssumption DEF IInv, TypeOK, RestEnds, Phases, Clock, Waiting
<1>2. tries + 1 \in 1..verify /\ (tries + 1) - 1 = tries /\ Spent(tries) \in Nat
  BY <1>1, SpentGrows
<1>3. CASE /\ pc' = "verify" /\ tries' = tries + 1
           /\ UNCHANGED <<attempt, result, timer, elapsed>>
  <2>1. TypeOK'
    BY <1>1, <1>2, <1>3 DEF IInv, TypeOK, Labels
  <2>2. Phases' /\ Sends'
    BY <1>1, <1>2, <1>3 DEF IInv, TypeOK, Phases, Sends, Open, Waiting, Sending
  <2>3. Clock'
    BY <1>1, <1>2, <1>3, HttpAssumption DEF Clock
  <2> QED
    BY <2>1, <2>2, <2>3 DEF IInv
<1>4. CASE Done("aborted") /\ UNCHANGED tries
  <2>1. TypeOK'
    BY <1>1, <1>4 DEF IInv, TypeOK, Done, Labels, Results
  <2>2. Phases' /\ Sends'
    BY <1>1, <1>4 DEF IInv, TypeOK, Done, Phases, Sends, Open, Waiting, Sending
  <2>3. elapsed <= PollTimeout + ProbeTimeout
                   + (IF verify = 0 THEN 0 ELSE RequestTime(verify))
    <3>1. elapsed <= PollTimeout + ProbeTimeout + Spent((tries + 1) - 1) + Timeout
      BY <1>1, <1>2, HttpAssumption
    <3> QED
      BY <1>1, <1>2, <3>1, VerifyTime
  <2>4. Clock'
    BY <1>1, <1>4, <2>3 DEF Done, Clock, EndsInTime
  <2> QED
    BY <2>1, <2>2, <2>4 DEF IInv
<1> QED
  BY <1>3, <1>4 DEF RestEnds

LEMMA PauseEndsStep == ASSUME IInv, PauseEnds PROVE IInv'
<1>1. TypeOK'
  BY DEF IInv, PauseEnds, Done, TypeOK, Labels, Results
<1>2. Phases' /\ Sends'
  BY DEF IInv, PauseEnds, Done, TypeOK, Phases, Sends, Open, Waiting, Sending
<1>3. Clock'
  <2>1. elapsed <= PollTimeout /\ elapsed \in Nat /\ verify \in Nat /\ sent = 0
    BY HttpAssumption DEF IInv, PauseEnds, TypeOK, Phases, Clock, Waiting
  <2>2. elapsed <= PollTimeout + ProbeTimeout
                   + (IF verify = 0 THEN 0 ELSE RequestTime(verify))
    BY <2>1, WithinBudget, HttpAssumption
  <2> QED
    BY <2>1, <2>2 DEF PauseEnds, Done, Clock, EndsInTime
<1> QED
  BY <1>1, <1>2, <1>3 DEF IInv

LEMMA AttemptStep == ASSUME IInv, Attempt PROVE IInv'
<1>1. /\ pc = "attempt" /\ elapsed <= Spent(attempt - 1) /\ attempt <= attempts
      /\ elapsed \in Nat /\ attempt \in Nat \ {0} /\ attempts \in Nat \ {0}
      /\ (sent = 0 => elapsed = 0) /\ sent \in Nat /\ result = "none"
  BY HttpAssumption DEF IInv, Attempt, Clock, Phases, TypeOK, Sending
<1>2. CASE aborted
  <2>1. TypeOK' /\ Phases' /\ Sends'
    BY <1>1, <1>2 DEF IInv, Attempt, Done, TypeOK, Labels, Results, Phases, Sends, Open,
       Waiting, Sending
  <2>2. Spent(attempt - 1) <= Spent(attempts - 1) /\ Spent(attempts - 1) \in Nat
        /\ Spent(attempt - 1) \in Nat
    <3>1. attempt - 1 \in Nat /\ attempts - 1 \in Nat /\ attempt - 1 <= attempts - 1
      BY <1>1
    <3> QED
      BY <3>1, SpentMonotone, SpentGrows
  <2>3. elapsed <= RequestTime(attempts)
    <3>1. elapsed <= Spent(attempts - 1) + Timeout
      BY <1>1, <2>2, HttpAssumption
    <3> QED
      BY <1>1, <3>1, SpentBound
  <2>4. EndsInTime
    <3>1. sent = 0 => elapsed <= PollTimeout + ProbeTimeout /\ verify \in Nat
      BY <1>1, HttpAssumption DEF IInv, TypeOK
    <3> QED
      BY <1>1, <2>3, <3>1, WithinBudget DEF EndsInTime
  <2>5. EndsInTime' /\ pc' = "done"
    BY <1>2, <2>4 DEF Attempt, Done, EndsInTime
  <2>6. Clock'
    BY <2>5 DEF Clock
  <2> QED
    BY <2>1, <2>6 DEF IInv
<1>3. CASE ~aborted
  <2>5. ran' \in BOOLEAN
    BY <1>3 DEF Attempt
  <2>1. TypeOK' /\ Phases'
    BY <1>1, <1>3, <2>5, HttpAssumption DEF IInv, Attempt, TypeOK, Labels, Phases, Waiting,
       Sending
  <2>4. Sends'
    BY <1>1, <1>3 DEF IInv, Attempt, TypeOK, Sends, Open
  <2>2. Spent(attempt - 1) \in Nat
    <3>1. attempt - 1 \in Nat
      BY <1>1
    <3> QED
      BY <3>1, SpentGrows
  <2>3. Clock'
    BY <1>1, <1>3, <2>2, HttpAssumption DEF Attempt, Clock
  <2> QED
    BY <2>1, <2>3, <2>4 DEF IInv
<1> QED
  BY <1>2, <1>3

LEMMA ServeStep == ASSUME IInv, Serve PROVE IInv'
<1>1. TypeOK' /\ Phases' /\ Sends'
  BY DEF IInv, Serve, TypeOK, Labels, Phases, Sends, Open, Waiting, Sending
<1>2. Clock'
  BY DEF IInv, Serve, Clock
<1> QED
  BY <1>1, <1>2 DEF IInv

\* Being told while the attempt waits: the clock stays, the counts are closed.
LEMMA SucceedStep == ASSUME IInv, Succeed PROVE IInv'
<1>1. TypeOK' /\ Phases' /\ Sends'
  BY DEF IInv, Succeed, Done, TypeOK, Labels, Results, Phases, Sends, Open, Waiting, Sending
<1>2. Clock'
  BY SleepClock DEF IInv, Succeed, Done, TypeOK
<1> QED
  BY <1>1, <1>2 DEF IInv

\* An attempt that failed in one of the retried or final ways.
LEMMA FailedAttempt ==
  ASSUME IInv, NEW kind, NEW wish \in Nat, pc = "waiting", SleepOrGiveUp(kind, wish),
         kind \in {"busy", "failed", "rejected", "refused", "reset", "broken", "timeout"},
         UNCHANGED <<policy, tries, aborted, server, ran, sent, runs>>,
         strays' \in Nat, resets' \in Nat
  PROVE  TypeOK' /\ Phases' /\ Clock'
<1>1. TypeOK'
  BY SleepTypes DEF IInv, TypeOK, Labels, Results
<1>2. Phases'
  BY SleepTypes DEF IInv, TypeOK, Phases, Waiting, Sending
<1>3. Clock'
  BY SleepTypes, SleepClock
<1> QED
  BY <1>1, <1>2, <1>3

\* An attempt given up because of an abort.
LEMMA AbortedAttempt ==
  ASSUME IInv, pc = "waiting", Done("aborted"),
         UNCHANGED <<policy, tries, aborted, server, ran, sent, runs>>,
         strays' \in Nat, resets' \in Nat
  PROVE  TypeOK' /\ Phases' /\ Clock'
<1>1. TypeOK' /\ Phases'
  BY DEF IInv, Done, TypeOK, Labels, Results, Phases, Waiting, Sending
<1>2. Clock'
  BY SleepClock DEF IInv, Done, TypeOK
<1> QED
  BY <1>1, <1>2

LEMMA AnswerStep == ASSUME IInv, Answer PROVE IInv'
<1>1. pc = "waiting" /\ UNCHANGED <<policy, tries, aborted, server, ran, strays, history>>
      /\ strays \in Nat /\ resets \in Nat
  BY DEF IInv, TypeOK, Answer
<1>2. ASSUME NEW wish \in Wishes, ~ran, SleepOrGiveUp("busy", wish) PROVE IInv'
  <2>1. wish \in Nat
    BY HttpAssumption
  <2>2. TypeOK' /\ Phases' /\ Clock'
    BY <1>1, <1>2, <2>1, FailedAttempt
  <2>3. pc' \in {"sleeping", "done"}
    BY <1>1, <1>2, <2>1, SleepTypes
  <2>4. Sends'
    BY <1>1, <1>2, <2>3 DEF IInv, TypeOK, Sends, Open
  <2> QED
    BY <2>2, <2>4 DEF IInv
<1>3. ASSUME NEW kind \in {"failed", "rejected"}, NEW wish \in Nat,
             SleepOrGiveUp(kind, wish)
      PROVE  IInv'
  <2>2. TypeOK' /\ Phases' /\ Clock'
    BY <1>1, <1>3, FailedAttempt
  <2>3. pc' \in {"sleeping", "done"} /\ (method = "POST" => pc' = "done")
    BY <1>1, <1>3, SleepTypes DEF Retryable
  <2>4. Sends'
    BY <1>1, <2>3 DEF IInv, TypeOK, Sends, Open
  <2> QED
    BY <2>2, <2>4 DEF IInv
<1> QED
  BY <1>2, <1>3, HttpAssumption DEF Answer

LEMMA RefuseStep == ASSUME IInv, Refuse PROVE IInv'
<1>1. pc = "waiting" /\ ~ran
      /\ UNCHANGED <<policy, tries, aborted, server, ran, strays, history>>
      /\ strays \in Nat /\ resets \in Nat
  BY DEF IInv, TypeOK, Refuse
<1>2. CASE SleepOrGiveUp("refused", 0)
  <2>1. TypeOK' /\ Phases' /\ Clock' /\ pc' \in {"sleeping", "done"}
    BY <1>1, <1>2, FailedAttempt, SleepTypes
  <2>2. Sends'
    BY <1>1, <2>1 DEF IInv, TypeOK, Sends, Open
  <2> QED
    BY <2>1, <2>2 DEF IInv
<1>3. CASE Done("aborted")
  <2>1. TypeOK' /\ Phases' /\ Clock'
    BY <1>1, <1>3, AbortedAttempt
  <2>2. Sends'
    BY <1>1, <1>3 DEF IInv, TypeOK, Sends, Open, Done
  <2> QED
    BY <2>1, <2>2 DEF IInv
<1> QED
  BY <1>2, <1>3 DEF Refuse

\* What an attempt leaves behind was open before.
LEMMA LeftBehind ==
  ASSUME IInv, pc = "waiting", LeaveBehind
  PROVE  /\ strays' \in Nat
         /\ strays' <= strays + (IF ran THEN 0 ELSE 1) /\ (ran => strays' = strays)
<1>1. strays \in Nat
  BY DEF IInv, TypeOK
<1> QED
  BY <1>1 DEF LeaveBehind

\* The counts after an attempt that is over: only a reset lets a POST go on.
LEMMA ClosedSends ==
  ASSUME IInv, pc = "waiting", LeaveBehind, pc' \in {"sleeping", "done"},
         UNCHANGED <<method, ran, sent, runs>>, resets' = resets \/ resets' = resets + 1,
         method = "POST" /\ pc' = "sleeping" => resets' = resets + 1
  PROVE  Sends'
<1> DEFINE post == method = "POST"
<1>1. /\ runs \in Nat /\ resets \in Nat /\ sent \in Nat /\ strays \in Nat
      /\ runs + Open <= sent /\ resets + 1 <= sent
      /\ post => runs + strays <= resets + 1
      /\ post /\ ~ran => runs + strays <= resets
  BY DEF IInv, TypeOK, Sends
<1>2. Open = strays + (IF ran THEN 0 ELSE 1) /\ Open' = strays'
  BY <1>1, LeftBehind DEF Open
<1>3. ran \in BOOLEAN /\ post \in BOOLEAN
  BY DEF IInv, TypeOK
<1>4. strays' \in Nat /\ strays' <= strays + (IF ran THEN 0 ELSE 1)
  BY LeftBehind
<1>5. method' = method /\ sent' = sent /\ runs' = runs
  OBVIOUS
<1> HIDE DEF post
<1>6. /\ resets' <= sent /\ resets' \in Nat /\ runs + strays' <= sent
      /\ post => runs + strays' <= resets' + 1
                 /\ (resets' = resets + 1 => runs + strays' <= resets')
  <2> DEFINE Closed(s, k) ==
        /\ k <= sent /\ k \in Nat /\ runs + s <= sent
        /\ post => runs + s <= k + 1 /\ (k = resets + 1 => runs + s <= k)
  <2>1. ASSUME NEW s \in Nat, NEW k \in {resets, resets + 1},
               s <= strays + (IF ran THEN 0 ELSE 1)
        PROVE  Closed(s, k)
    <3>1. CASE ran
      BY <1>1, <1>2, <2>1, <3>1
    <3>2. CASE ~ran
      BY <1>1, <1>2, <2>1, <3>2
    <3> QED
      BY <3>1, <3>2
  <2> HIDE DEF Closed
  <2>2. Closed(strays', resets')
    BY <1>4, <2>1
  <2> QED
    BY <2>2 DEF Closed
<1>7. /\ runs' + Open' <= sent' /\ resets' <= sent'
      /\ method' = "POST" => runs' + strays' <= resets' + 1
      /\ method' = "POST" /\ pc' = "sleeping" => runs' + strays' <= resets'
  <2>1. post <=> method' = "POST"
    BY <1>5 DEF post
  <2>2. post /\ pc' = "sleeping" => resets' = resets + 1
    BY DEF post
  <2> QED
    BY <1>2, <1>5, <1>6, <2>1, <2>2
<1> QED
  BY <1>6, <1>7 DEF Sends

LEMMA DisconnectStep == ASSUME IInv, Disconnect PROVE IInv'
<1>1. pc = "waiting" /\ LeaveBehind /\ resets \in Nat
      /\ UNCHANGED <<policy, tries, aborted, server, ran, sent, runs>>
  BY DEF IInv, TypeOK, Disconnect
<1>2. strays' \in Nat /\ (ran => strays' = strays) /\ strays' <= strays + (IF ran THEN 0 ELSE 1)
  BY <1>1, LeftBehind
<1>3. CASE SleepOrGiveUp("reset", 0) /\ resets' = resets + 1
  <2>1. TypeOK' /\ Phases' /\ Clock' /\ pc' \in {"sleeping", "done"}
    BY <1>1, <1>2, <1>3, FailedAttempt, SleepTypes
  <2>2. Sends'
    BY <1>1, <1>3, <2>1, ClosedSends DEF IInv, TypeOK
  <2> QED
    BY <2>1, <2>2 DEF IInv
<1>4. CASE SleepOrGiveUp("broken", 0) /\ UNCHANGED resets
  <2>1. TypeOK' /\ Phases' /\ Clock'
    BY <1>1, <1>2, <1>4, FailedAttempt
  <2>2. pc' \in {"sleeping", "done"} /\ (method = "POST" => pc' = "done")
    BY <1>1, <1>4, SleepTypes DEF Retryable
  <2>3. Sends'
    BY <1>1, <1>4, <2>2, ClosedSends DEF IInv, TypeOK
  <2> QED
    BY <2>1, <2>3 DEF IInv
<1>5. CASE Done("aborted") /\ resets' \in {resets, resets + 1}
  <2>1. TypeOK' /\ Phases' /\ Clock'
    BY <1>1, <1>2, <1>5, AbortedAttempt
  <2>2. Sends'
    BY <1>1, <1>5, ClosedSends DEF IInv, TypeOK, Done
  <2> QED
    BY <2>1, <2>2 DEF IInv
<1> QED
  BY <1>3, <1>4, <1>5 DEF Disconnect

LEMMA TimeOutStep == ASSUME IInv, TimeOut \/ AbortAttempt PROVE IInv'
<1>1. pc = "waiting" /\ LeaveBehind /\ resets \in Nat
      /\ UNCHANGED <<policy, tries, aborted, server, ran, history>>
  BY DEF IInv, TypeOK, TimeOut, AbortAttempt
<1>2. strays' \in Nat /\ (ran => strays' = strays) /\ strays' <= strays + (IF ran THEN 0 ELSE 1)
  BY <1>1, LeftBehind
<1>3. CASE SleepOrGiveUp("timeout", 0)
  <2>1. TypeOK' /\ Phases' /\ Clock'
    BY <1>1, <1>2, <1>3, FailedAttempt
  <2>2. pc' \in {"sleeping", "done"} /\ (method = "POST" => pc' = "done")
    BY <1>1, <1>3, SleepTypes DEF Retryable
  <2>3. Sends'
    BY <1>1, <2>2, ClosedSends DEF IInv, TypeOK
  <2> QED
    BY <2>1, <2>3 DEF IInv
<1>4. CASE Done("aborted")
  <2>1. TypeOK' /\ Phases' /\ Clock'
    BY <1>1, <1>2, <1>4, AbortedAttempt
  <2>2. Sends'
    BY <1>1, <1>4, ClosedSends DEF IInv, TypeOK, Done
  <2> QED
    BY <2>1, <2>2 DEF IInv
<1> QED
  BY <1>3, <1>4 DEF TimeOut, AbortAttempt

LEMMA SleepEndsStep == ASSUME IInv, SleepEnds PROVE IInv'
<1>1. /\ pc = "sleeping" /\ elapsed + timer <= Spent(attempt) /\ attempt < attempts
      /\ elapsed \in Nat /\ timer \in Nat /\ attempt \in Nat \ {0} /\ attempts \in Nat \ {0}
      /\ sent > 0 /\ result = "none"
      /\ UNCHANGED <<policy, tries, aborted, server, ran, strays, history>>
  BY HttpAssumption DEF IInv, TypeOK, SleepEnds, Clock, Phases
<1>2. CASE pc' = "attempt" /\ timer = 0 /\ attempt' = attempt + 1 /\ UNCHANGED <<result, timer, elapsed>>
  <2>1. TypeOK' /\ Phases'
    BY <1>1, <1>2 DEF IInv, TypeOK, Labels, Phases, Waiting, Sending
  <2>2. Sends'
    BY <1>1, <1>2 DEF IInv, TypeOK, Sends, Open
  <2>3. Clock'
    <3>1. attempt' - 1 = attempt
      BY <1>1, <1>2
    <3> QED
      BY <1>1, <1>2, <3>1 DEF Clock
  <2> QED
    BY <2>1, <2>2, <2>3 DEF IInv
<1>3. CASE Done("aborted")
  <2>1. TypeOK' /\ Phases'
    BY <1>1, <1>3 DEF IInv, Done, TypeOK, Labels, Results, Phases, Waiting, Sending
  <2>2. Sends'
    BY <1>1, <1>3 DEF IInv, Done, TypeOK, Sends, Open
  <2>3. attempts - 1 \in Nat /\ attempt <= attempts - 1
    BY <1>1
  <2>4. Spent(attempt) <= Spent(attempts - 1) /\ Spent(attempts - 1) \in Nat
        /\ Spent(attempt) \in Nat
    BY <1>1, <2>3, SpentMonotone, SpentGrows
  <2>5. elapsed <= RequestTime(attempts)
    <3>1. elapsed <= Spent(attempts - 1) + Timeout
      BY <1>1, <2>4, HttpAssumption
    <3> QED
      BY <1>1, <3>1, SpentBound
  <2>6. EndsInTime
    BY <1>1, <2>5 DEF EndsInTime
  <2>7. EndsInTime' /\ pc' = "done"
    BY <1>1, <1>3, <2>6 DEF Done, EndsInTime
  <2>8. Clock'
    BY <2>7 DEF Clock
  <2> QED
    BY <2>1, <2>2, <2>8 DEF IInv
<1> QED
  BY <1>1, <1>2, <1>3 DEF SleepEnds

LEMMA RunStrayStep == ASSUME IInv, RunStray PROVE IInv'
<1>1. TypeOK' /\ Phases' /\ Clock'
  BY DEF IInv, RunStray, TypeOK, Phases, Clock, EndsInTime, Waiting, Sending
<1>2. Sends'
  BY DEF IInv, RunStray, TypeOK, Sends, Open
<1> QED
  BY <1>1, <1>2 DEF IInv

LEMMA WorldStep == ASSUME IInv, StartOrStop \/ Abort \/ UNCHANGED vars PROVE IInv'
<1>1. /\ up' \in BOOLEAN
      /\ aborted' \in BOOLEAN
      /\ upFor' \in Nat
  <2>1. up \in BOOLEAN /\ aborted \in BOOLEAN /\ upFor \in Nat
    BY DEF IInv, TypeOK
  <2>2. (up' = up \/ up' = ~up) /\ (aborted' = aborted \/ aborted' = TRUE)
        /\ (upFor' = upFor \/ upFor' = 0)
    BY DEF StartOrStop, Abort
  <2>3. up' \in BOOLEAN /\ aborted' \in BOOLEAN
    BY <2>1, <2>2, Zenon
  <2> QED
    BY <2>1, <2>2, <2>3
<1>2. UNCHANGED <<pc, policy, attempt, tries, result, timer, elapsed, ran, strays, history>>
  BY DEF StartOrStop, Abort
<1>3. TypeOK'
  BY <1>1, <1>2 DEF IInv, TypeOK
<1>4. Phases' /\ Clock' /\ Sends'
  BY <1>2 DEF IInv, Phases, Clock, EndsInTime, Sends, Open
<1> QED
  BY <1>3, <1>4 DEF IInv

LEMMA TickStep == ASSUME IInv, Tick PROVE IInv'
<1>1. /\ pc \in {"probing", "verifying", "resting", "pausing", "waiting", "sleeping"}
      /\ timer > 0
      /\ timer' = timer - 1 /\ elapsed' = elapsed + 1
      /\ UNCHANGED <<pc, policy, attempt, tries, result, aborted, up, ran, strays, history>>
      /\ timer \in Nat /\ elapsed \in Nat /\ upFor' \in Nat
  BY DEF Tick, IInv, TypeOK
<1>2. elapsed' + timer' = elapsed + timer /\ elapsed' \in Nat /\ timer' \in Nat
  BY <1>1
<1>3. TypeOK'
  BY <1>1, <1>2 DEF IInv, TypeOK
<1>4. Clock'
  BY <1>1, <1>2 DEF IInv, Clock
<1>5. Phases'
  BY <1>1, <1>2 DEF IInv, Phases
<1>6. Sends'
  BY <1>1 DEF IInv, Sends, Open
<1> QED
  BY <1>3, <1>4, <1>5, <1>6 DEF IInv

LEMMA NextInv == ASSUME IInv, [Next]_vars PROVE IInv'
BY ProbeStep, ProbeEndsStep, VerifyStep, VerifyEndsStep, RestEndsStep, PauseEndsStep,
   AttemptStep, ServeStep, SucceedStep, AnswerStep, RefuseStep, DisconnectStep,
   TimeOutStep, SleepEndsStep, RunStrayStep, WorldStep, TickStep
   DEF Next, LocalStep, NetworkStep

THEOREM Invariance == Spec => []IInv
BY InitInv, NextInv, PTL DEF Spec

\* The client's variables, its counters and its timer keep their types.
THEOREM TypeCorrect == Spec => []TypeOK
<1>1. IInv => TypeOK
  BY DEF IInv
<1> QED
  BY <1>1, Invariance, PTL

\* The wait for a service (waitUntilReady) never outlasts its budget by more than
\* one probe: the probe's own timeout and, where the caller verifies, the time of
\* a whole request.  A request never lasts longer than its attempts and the
\* pauses between them.
THEOREM RequestsEndInTime == Spec => []EndsInTime
<1>1. ASSUME IInv PROVE EndsInTime
  <2>1. /\ elapsed \in Nat /\ timer \in Nat /\ sent \in Nat /\ attempt \in Nat \ {0}
        /\ attempts \in Nat \ {0} /\ pc \in Labels /\ Phases /\ Clock
    BY <1>1, HttpAssumption DEF IInv, TypeOK
  <2>2. CASE pc = "done"
    BY <2>1, <2>2 DEF Clock
  <2>3. CASE pc \in Waiting
    <3>1. sent = 0 /\ verify \in Nat
      BY <1>1, <2>3 DEF IInv, TypeOK, Phases
    <3>2. CASE pc \in {"verify", "verifying", "resting"}
      <4>1. PICK n \in 1..verify :
              elapsed <= PollTimeout + ProbeTimeout + Spent(n - 1) + Timeout
        <5>1. CASE pc \in {"verify", "verifying"}
          <6>1. tries \in 1..verify /\ tries - 1 \in Nat
            BY <2>1, <3>1, <5>1 DEF Phases
          <6>2. elapsed <= PollTimeout + ProbeTimeout + Spent(tries - 1) + Timeout
            BY <2>1, <5>1, <6>1, SpentGrows, HttpAssumption DEF Clock
          <6> QED
            BY <6>1, <6>2
        <5>2. CASE pc = "resting"
          <6>1. tries + 1 \in 1..verify /\ (tries + 1) - 1 = tries /\ tries \in Nat
            BY <2>1, <3>1, <5>2 DEF Phases
          <6>2. elapsed <= PollTimeout + ProbeTimeout + Spent((tries + 1) - 1) + Timeout
            BY <2>1, <5>2, <6>1, SpentGrows, HttpAssumption DEF Clock
          <6> QED
            BY <6>1, <6>2
        <5> QED
          BY <3>2, <5>1, <5>2
      <4> QED
        BY <1>1, <2>1, <3>1, <4>1, VerifyTime DEF EndsInTime
    <3>3. CASE pc \in {"probe", "probing", "pausing"}
      <4>1. elapsed <= PollTimeout + ProbeTimeout
        BY <2>1, <3>3, HttpAssumption DEF Clock
      <4> QED
        BY <2>1, <3>1, <4>1, WithinBudget DEF EndsInTime
    <3> QED
      BY <2>3, <3>2, <3>3 DEF Waiting
  <2>4. CASE pc \in Sending
    <3>1. CASE sent = 0
      <4>1. elapsed <= PollTimeout + ProbeTimeout /\ verify \in Nat
        BY <1>1, <2>1, <2>4, <3>1, HttpAssumption DEF Sending, Phases, IInv, TypeOK
      <4> QED
        BY <2>1, <3>1, <4>1, WithinBudget DEF EndsInTime
    <3>2. CASE sent # 0
      <4>1. attempt - 1 \in Nat /\ attempts - 1 \in Nat /\ attempt - 1 <= attempts - 1
        BY <2>1, <2>4 DEF Phases
      <4>2. /\ Spent(attempt - 1) <= Spent(attempts - 1)
            /\ Spent(attempts - 1) \in Nat /\ Spent(attempt - 1) \in Nat
        BY <4>1, SpentMonotone, SpentGrows
      <4>3. pc = "sleeping" => Spent(attempt) <= Spent(attempts - 1) /\ Spent(attempt) \in Nat
        <5>1. pc = "sleeping" => attempt <= attempts - 1
          BY <2>1 DEF Phases
        <5> QED
          BY <2>1, <4>1, <5>1, SpentMonotone, SpentGrows
      <4>4. elapsed <= Spent(attempts - 1) + Timeout
        BY <2>1, <2>4, <4>2, <4>3, HttpAssumption DEF Clock, Sending
      <4>5. elapsed <= RequestTime(attempts)
        BY <2>1, <4>4, SpentBound
      <4> QED
        BY <3>2, <4>5 DEF EndsInTime
    <3> QED
      BY <3>1, <3>2
  <2> QED
    BY <2>1, <2>2, <2>3, <2>4 DEF Labels, Waiting, Sending
<1> QED
  BY <1>1, Invariance, PTL

-----------------------------------------------------------------------------
(* HttpClient implements Exchange.                                          *)

LEMMA InitRefines == Init => Promise!Init
BY DEF Init, Promise!Init, Repeatable, Told

\* A step that tells nothing, sends nothing and runs nothing stutters.
LEMMA Stutters ==
  ASSUME UNCHANGED <<method, sent, runs, resets, aborted, result>>
  PROVE  UNCHANGED Promise!vars
BY DEF Promise!vars, Repeatable, Told

\* What the caller is told comes once, and an abort only after one.
LEMMA Tells ==
  ASSUME IInv, pc # "done", UNCHANGED <<method, sent, runs, aborted>>,
         result' \in Results, result' # "none",
         result' = "ok" => runs > 0, result' = "aborted" => aborted
  PROVE  /\ UNCHANGED resets => Promise!Tell /\ UNCHANGED resets
         /\ resets' = resets + 1 /\ resets < sent /\ result' # "ok" => Promise!Reset
<1>1. Told = "nothing" /\ UNCHANGED Repeatable
  BY DEF IInv, Phases, Told, Repeatable
<1>2. Told' \in {"done", "failed", "aborted"}
      /\ (Told' = "done" <=> result' = "ok") /\ (Told' = "aborted" <=> result' = "aborted")
  BY DEF Told, Results
<1>3. UNCHANGED resets => Promise!Tell /\ UNCHANGED resets
  BY <1>1, <1>2 DEF Promise!Tell
<1>4. resets' = resets + 1 /\ resets < sent /\ result' # "ok" => Promise!Reset
  BY <1>1, <1>2 DEF Promise!Reset
<1> QED
  BY <1>3, <1>4

\* A step that only sets the result, or leaves it.
LEMMA TellsOrStutters ==
  ASSUME IInv, pc # "done", UNCHANGED <<method, history, aborted>>,
         \/ result' = result
         \/ result' \in {"status", "network", "timeout", "notReady"}
         \/ result' = "ok" /\ runs > 0
         \/ result' = "aborted" /\ aborted
  PROVE  [Promise!Next]_Promise!vars
<1>1. CASE result' = result
  BY <1>1, Stutters
<1>2. CASE result' # result
  <2>1. result' \in Results /\ result' # "none"
        /\ (result' = "ok" => runs > 0) /\ (result' = "aborted" => aborted)
    BY <1>2 DEF Results
  <2> QED
    BY <2>1, Tells DEF Promise!Next
<1> QED
  BY <1>1, <1>2

LEMMA FailureTold ==
  ASSUME IInv, pc = "waiting", NEW wish \in Nat,
         NEW kind \in {"busy", "failed", "rejected", "refused", "reset", "broken", "timeout"},
         SleepOrGiveUp(kind, wish)
  PROVE  result' = result \/ result' \in {"status", "network", "timeout"}
<1>1. result = "none" /\ result' \in {"none", "status", "network", "timeout"}
  BY SleepTypes DEF IInv, Phases
<1> QED
  BY <1>1

LEMMA DisconnectRefines == ASSUME IInv, Disconnect PROVE [Promise!Next]_Promise!vars
<1>1. /\ pc = "waiting" /\ UNCHANGED <<method, aborted, sent, runs>> /\ resets < sent
      /\ resets \in Nat /\ sent \in Nat
  BY DEF Disconnect, IInv, TypeOK, Sends
<1>2. result' = result \/ result' \in {"status", "network", "timeout"}
      \/ (result' = "aborted" /\ aborted)
  BY <1>1, FailureTold DEF Disconnect, Done
<1>3. CASE UNCHANGED resets
  BY <1>1, <1>2, <1>3, TellsOrStutters
<1>4. CASE resets' = resets + 1
  <2>1. CASE result' = result
    BY <1>1, <1>4, <2>1 DEF Promise!Next, Promise!Reset, Repeatable, Told
  <2>2. CASE result' # result
    <3>1. result' \in Results /\ result' # "none" /\ result' # "ok"
          /\ (result' = "aborted" => aborted)
      BY <1>2, <2>2 DEF Results
    <3>2. Promise!Reset
      BY <1>1, <1>4, <3>1, Tells
    <3> QED
      BY <3>2 DEF Promise!Next
  <2> QED
    BY <2>1, <2>2
<1> QED
  BY <1>3, <1>4 DEF Disconnect

LEMMA RunRefines == ASSUME IInv, Serve \/ RunStray PROVE Promise!Run
<1>1. /\ runs' = runs + 1 /\ UNCHANGED <<method, sent, resets, aborted, result>>
      /\ runs \in Nat /\ sent \in Nat /\ resets \in Nat /\ strays \in Nat
  BY DEF Serve, RunStray, IInv, TypeOK
<1>2. CASE Serve
  <2>1. runs < sent /\ (method = "POST" => runs <= resets)
    BY <1>1, <1>2 DEF Serve, IInv, Sends, Open
  <2> QED
    BY <1>1, <2>1 DEF Promise!Run, Repeatable, Told
<1>3. CASE RunStray
  <2>1. strays >= 1 /\ runs + Open <= sent /\ (method = "POST" => runs + strays <= resets + 1)
    BY <1>1, <1>3 DEF RunStray, IInv, Sends
  <2>2. Open >= strays /\ Open \in Nat
    BY <1>1 DEF Open
  <2>3. runs < sent /\ (method = "POST" => runs <= resets)
    BY <1>1, <2>1, <2>2
  <2> QED
    BY <1>1, <2>3 DEF Promise!Run, Repeatable, Told
<1> QED
  BY <1>2, <1>3

LEMMA AttemptRefines == ASSUME IInv, Attempt PROVE [Promise!Next]_Promise!vars
<1>1. pc = "attempt" /\ result = "none" /\ UNCHANGED <<method, aborted, runs, resets>>
  BY DEF Attempt, IInv, Phases
<1>2. CASE aborted
  BY <1>1, <1>2, TellsOrStutters DEF Attempt, Done
<1>3. CASE ~aborted
  <2>1. Promise!Send
    BY <1>1, <1>3 DEF Attempt, Promise!Send, Repeatable, Told
  <2> QED
    BY <2>1 DEF Promise!Next
<1> QED
  BY <1>2, <1>3

\* Every step of the client, the server or the caller is a step of Exchange.
LEMMA NextRefines == ASSUME IInv, [Next]_vars PROVE [Promise!Next]_Promise!vars
<1>1. CASE \/ Probe \/ ProbeEnds \/ Verify \/ VerifyEnds \/ RestEnds \/ PauseEnds
           \/ SleepEnds \/ AbortAttempt
  BY <1>1, TellsOrStutters
     DEF Probe, ProbeEnds, Ready, Verify, VerifyEnds, RestOrPoll, RestEnds, PauseEnds,
         PauseOrGiveUp, SleepEnds, AbortAttempt, Done
<1>2. CASE Attempt
  BY <1>2, AttemptRefines
<1>3. CASE TimeOut
  BY <1>3, FailureTold, TellsOrStutters DEF TimeOut, Done
<1>4. CASE Succeed
  <2>1. runs > 0
    BY <1>4 DEF Succeed, IInv, Sends
  <2> QED
    BY <1>4, <2>1, TellsOrStutters DEF Succeed, Done
<1>5. CASE Answer
  <2>1. result' = result \/ result' \in {"status", "network", "timeout"}
    <3>1. ASSUME NEW wish \in Wishes, SleepOrGiveUp("busy", wish)
          PROVE  result' = result \/ result' \in {"status", "network", "timeout"}
      BY <1>5, <3>1, FailureTold, HttpAssumption DEF Answer
    <3>2. ASSUME NEW kind \in {"failed", "rejected"}, NEW wish \in Nat,
                 SleepOrGiveUp(kind, wish)
          PROVE  result' = result \/ result' \in {"status", "network", "timeout"}
      BY <1>5, <3>2, FailureTold DEF Answer
    <3> QED
      BY <1>5, <3>1, <3>2, HttpAssumption DEF Answer
  <2> QED
    BY <1>5, <2>1, TellsOrStutters DEF Answer
<1>6. CASE Refuse
  BY <1>6, FailureTold, TellsOrStutters DEF Refuse, Done
<1>7. CASE Disconnect
  BY <1>7, DisconnectRefines
<1>8. CASE Serve \/ RunStray
  BY <1>8, RunRefines DEF Promise!Next
<1>9. CASE Abort
  BY <1>9 DEF Abort, Promise!Next, Promise!Stop, Repeatable, Told
<1>10. CASE StartOrStop \/ Tick \/ UNCHANGED vars
  <2>1. UNCHANGED <<method, sent, runs, resets, aborted, result>>
    BY <1>10 DEF StartOrStop, Tick
  <2> QED
    BY <2>1, Stutters
<1> QED
  BY <1>1, <1>2, <1>3, <1>4, <1>5, <1>6, <1>7, <1>8, <1>9, <1>10
     DEF Next, LocalStep, NetworkStep

\* A request keeps what Exchange promises: a POST runs at most once more than its
\* connection was reset, success is told only of a request that ran, and nothing
\* is sent after an abort or after the caller was told.
THEOREM ClientImplementsExchange == Spec => KeepsPromise
<1> QED
  BY InitRefines, NextRefines, Invariance, PTL DEF Spec, KeepsPromise, Promise!Spec

-----------------------------------------------------------------------------
(* A service that is there is found.                                         *)

\* Only a probe that failed after the whole budget calls the service not ready
\* (PauseOrGiveUp), and nothing moves once the caller was told.
LEMMA NextReady ==
  ASSUME IInv, ReadyIsFound, [Next]_vars
  PROVE  ReadyIsFound'
<1>1. pc = "done" <=> result # "none"
  BY DEF IInv, Phases
<1>2. CASE pc = "done"
  <2>1. UNCHANGED <<result, elapsed, server, verify>>
    BY <1>2 DEF Next, LocalStep, NetworkStep, Probe, ProbeEnds, Verify, VerifyEnds,
       RestEnds, PauseEnds, Attempt,
       TimeOut, AbortAttempt, SleepEnds, Succeed, Answer, Refuse, Disconnect, Serve,
       RunStray, StartOrStop, Abort, Tick
  <2> QED
    BY <2>1 DEF ReadyIsFound, LongestCall
<1>3. CASE pc # "done" /\ result' = "notReady"
  <2>1. \A kind : ResultOf(kind) = "notReady" =>
          kind \notin {"busy", "failed", "rejected", "refused", "reset", "broken", "timeout"}
    BY DEF ResultOf
  <2>2. ~(NetworkStep \/ TimeOut)
    BY <1>1, <1>3, <2>1 DEF NetworkStep, TimeOut, Succeed, Answer, Refuse, Disconnect,
       SleepOrGiveUp, Done
  <2>3. ~(Probe \/ Verify \/ RestEnds \/ PauseEnds \/ Attempt \/ AbortAttempt \/ SleepEnds)
    BY <1>1, <1>3 DEF Probe, Verify, RestEnds, PauseEnds, Attempt, AbortAttempt, SleepEnds,
       Done
  <2>4. ~(Serve \/ RunStray \/ StartOrStop \/ Abort \/ Tick \/ UNCHANGED vars)
    BY <1>1, <1>3 DEF Serve, RunStray, StartOrStop, Abort, Tick
  <2>5. ProbeEnds \/ VerifyEnds
    BY <2>2, <2>3, <2>4 DEF Next, LocalStep
  <2>6. /\ PauseOrGiveUp /\ UNCHANGED <<verify, server>>
        /\ ~up \/ upFor < ProbeTimeout \/ (verify > 0 /\ upFor < Timeout)
    <3>1. CASE ProbeEnds
      BY <1>1, <1>3, <3>1 DEF ProbeEnds, Ready, Done
    <3>2. CASE VerifyEnds
      <4>1. verify > 0
        BY <3>2 DEF VerifyEnds, IInv, TypeOK, Phases
      <4> QED
        BY <1>1, <1>3, <3>2, <4>1 DEF VerifyEnds, RestOrPoll, Ready, Done
    <3> QED
      BY <2>5, <3>1, <3>2
  <2>7. elapsed >= PollTimeout /\ elapsed' = elapsed
    BY <1>1, <1>3, <2>6 DEF PauseOrGiveUp, Done
  <2>8. /\ upFor \in Nat /\ ProbeTimeout \in Nat /\ Timeout \in Nat /\ verify \in Nat
        /\ ~up \/ upFor < LongestCall
    BY <2>6, HttpAssumption DEF IInv, TypeOK, LongestCall, Max2
  <2>9. LongestCall' = LongestCall /\ LongestCall \in Nat
    BY <2>6, HttpAssumption DEF LongestCall, Max2
  <2> QED
    BY <2>6, <2>7, <2>8, <2>9 DEF ReadyIsFound
<1> QED
  BY <1>2, <1>3 DEF ReadyIsFound

\* waitUntilReady and pollUntil never give up a service before the whole budget
\* has passed, nor one that was there for all of the last call: the interval is
\* cut so that a probe is made at the deadline.
THEOREM ReadyServiceIsFound == Spec => []ReadyIsFound
<1>1. Init => ReadyIsFound
  BY DEF Init, ReadyIsFound
<1>2. IInv /\ ReadyIsFound /\ [Next]_vars => ReadyIsFound'
  BY NextReady
<1> QED
  BY <1>1, <1>2, Invariance, PTL DEF Spec

=============================================================================
