------------------------------ MODULE HttpClient ------------------------------
(***************************************************************************)
(* The HTTP client of the service clients (http/http.client.ts,             *)
(* backoff.http.ts, ready.http.ts): a wait until a service answers, then    *)
(* one request with its retries.  A probe of the wait is a GET with a       *)
(* timeout of its own and, for most services, a second GET that verifies    *)
(* the answer with all the retries of an ordinary request.  The server may  *)
(* be down, starting, slow, or run a request whose answer is lost, also     *)
(* after the client has given it up; the caller may abort at any moment.    *)
(*                                                                          *)
(* Time passes in Tick; a timer that is due goes off before the next tick.  *)
(* A 429 or a 503 is the answer of a server that has not run the request; a *)
(* service that is up answers a probe and its verification before their     *)
(* timeouts.                                                                *)
(*                                                                          *)
(* A definition marked `mutant` is a faulty variant of the next one, used   *)
(* only to check that the properties can fail.                              *)
(***************************************************************************)
EXTENDS Integers

CONSTANTS
  MaxAttempts,              \* the largest policy.attempts of a client
  Timeout, ProbeTimeout,    \* of a request, of a probe
  PollTimeout,              \* of the whole wait
  BaseDelay, MaxDelay,      \* of the backoff, whose factor is 2
  Spread,                   \* 1 / jitter
  MaxRetryAfter, Wishes     \* Wishes: what a Retry-After may ask

ASSUME HttpAssumption ==
  /\ MaxAttempts \in Nat \ {0}
  /\ Timeout \in Nat /\ ProbeTimeout \in Nat /\ PollTimeout \in Nat
  /\ BaseDelay \in Nat /\ MaxDelay \in Nat /\ Spread \in Nat \ {0}
  /\ MaxRetryAfter \in Nat /\ Wishes \subseteq Nat /\ 0 \in Wishes

VARIABLES
  pc,
  method, attempts,     \* "POST", or "PUT" for the idempotent methods
  verify,               \* attempts of the caller's verify; 0: there is none
  attempt,              \* of pollUntil, then of the request
  tries,                \* attempt of the verification
  result, aborted,
  timer,                \* what is left of the timeout or the sleep
  elapsed,              \* since the wait, then the request, began
  \* the server
  up, ran,              \* ran: it has run the attempt being waited for
  strays,               \* attempts the client gave up that may still be run
  \* history variables
  sent, runs, resets,
  upFor                 \* how long the service has been up

policy  == <<method, attempts, verify>>
server  == <<up, upFor>>
history == <<sent, runs, resets>>
vars == <<pc, policy, attempt, tries, result, aborted, timer, elapsed,
          server, ran, strays, history>>

Labels == {"probe", "probing", "verify", "verifying", "resting", "pausing",
           "attempt", "waiting", "sleeping", "done"}
Results == {"none", "ok", "status", "network", "timeout", "notReady", "aborted"}

TypeOK ==
  /\ pc \in Labels /\ method \in {"PUT", "POST"}
  /\ attempts \in 1..MaxAttempts /\ attempt \in Nat \ {0}
  /\ verify \in 0..MaxAttempts /\ tries \in Nat
  /\ result \in Results /\ aborted \in BOOLEAN
  /\ timer \in Nat /\ elapsed \in Nat
  /\ up \in BOOLEAN /\ ran \in BOOLEAN /\ strays \in Nat
  /\ sent \in Nat /\ runs \in Nat /\ resets \in Nat /\ upFor \in Nat

Init ==
  /\ pc = "probe" /\ method \in {"PUT", "POST"} /\ attempts \in 1..MaxAttempts
  /\ verify \in 0..MaxAttempts /\ tries = 0
  /\ attempt = 1 /\ result = "none" /\ aborted = FALSE
  /\ timer = 0 /\ elapsed = 0
  /\ up \in BOOLEAN /\ ran = FALSE /\ strays = 0
  /\ sent = 0 /\ runs = 0 /\ resets = 0 /\ upFor = 0
-----------------------------------------------------------------------------
(* backoff.http.ts, http.errors.ts                                          *)

Min2(a, b) == IF a <= b THEN a ELSE b
Max2(a, b) == IF a >= b THEN a ELSE b

\* computeDelay: doubled for every retry, spread by the jitter, capped twice.
Exponential(n) == Min2(MaxDelay, BaseDelay * 2^(n - 1))
Backoff(n) ==
  {d \in 0..MaxDelay : /\ Exponential(n) - Exponential(n) \div Spread <= d
                       /\ d <= Exponential(n) + Exponential(n) \div Spread}

\* parseRetryAfter; an absent or invalid header asks for nothing.
RetryAfter(wish) == Min2(wish, MaxRetryAfter)
\* The longer of the backoff and what the server asked for.
Pause(n, wish) == {Max2(d, RetryAfter(wish)) : d \in Backoff(n)}
MaxPause == Max2(MaxDelay, MaxRetryAfter)

\* isRetryableFailure.  busy: 429 and 503; failed: the other transient
\* statuses; rejected: any other status and a body that is no JSON; refused:
\* ECONNREFUSED, ENOTFOUND; reset: ECONNRESET; broken: other network errors.
\* mutant
RetryableWhateverTheMethod(kind) == kind # "rejected"
Retryable(kind) ==
  IF method = "POST" THEN kind \in {"busy", "refused", "reset"}
                     ELSE kind # "rejected"

ResultOf(kind) ==
  CASE kind \in {"busy", "failed", "rejected"}   -> "status"
    [] kind \in {"refused", "reset", "broken"}   -> "network"
    [] kind = "timeout"                          -> "timeout"

Done(r) == pc' = "done" /\ result' = r /\ UNCHANGED <<attempt, timer, elapsed>>
-----------------------------------------------------------------------------
(* waitUntilReady, pollUntil                                                *)

Probe ==
  /\ pc = "probe"
  /\ IF aborted THEN Done("aborted")
     ELSE /\ pc' = "probing" /\ timer' = ProbeTimeout
          /\ UNCHANGED <<attempt, result, elapsed>>
  /\ UNCHANGED <<policy, tries, aborted, server, ran, strays, history>>

\* A transient error: the interval is cut at the deadline, so that the last
\* probe is made there.
Interval(n) == {Min2(d, PollTimeout - elapsed) : d \in Backoff(n)}

PauseOrGiveUp ==
  IF elapsed >= PollTimeout
  THEN Done("notReady")
  ELSE /\ pc' = "pausing" /\ timer' \in Interval(attempt)
       /\ attempt' = attempt + 1
       /\ UNCHANGED <<result, elapsed>>

Ready ==
  /\ pc' = "attempt" /\ attempt' = 1 /\ elapsed' = 0 /\ timer' = 0
  /\ UNCHANGED result

\* A service that is starting may answer readyPath before it is up (Jellyfin's
\* bootstrap host); the verification is there to tell.
ProbeEnds ==
  /\ pc = "probing"
  /\ \/ verify = 0 /\ up /\ Ready /\ UNCHANGED tries
     \/ /\ verify > 0 /\ pc' = "verify" /\ tries' = 1 /\ timer' = 0
        /\ UNCHANGED <<attempt, result, elapsed>>
     \/ /\ ~up \/ (timer = 0 /\ upFor < ProbeTimeout)
        /\ IF aborted THEN Done("aborted") ELSE PauseOrGiveUp
        /\ UNCHANGED tries
     \/ aborted /\ Done("aborted") /\ UNCHANGED tries
     \/ ~up /\ ~aborted /\ Done("status") /\ UNCHANGED tries   \* a definitive answer
  /\ UNCHANGED <<policy, aborted, server, ran, strays, history>>

\* await verify?.(): a GET under the policy and the timeout of the client, not
\* under those of the probe.
Verify ==
  /\ pc = "verify"
  /\ IF aborted THEN Done("aborted")
     ELSE /\ pc' = "verifying" /\ timer' = Timeout
          /\ UNCHANGED <<attempt, result, elapsed>>
  /\ UNCHANGED <<policy, tries, aborted, server, ran, strays, history>>

\* Only a server that answers asks for a pause.
RestOrPoll ==
  IF tries >= verify
  THEN PauseOrGiveUp
  ELSE /\ pc' = "resting"
       /\ \E wish \in Wishes : (up => wish = 0) /\ timer' \in Pause(tries, wish)
       /\ UNCHANGED <<attempt, result, elapsed>>

\* A failure of the client's attempt is retried by the client; an answer that
\* verify itself refuses (503: the server is still starting) is not.
VerifyEnds ==
  /\ pc = "verifying"
  /\ \/ up /\ Ready
     \/ /\ ~up \/ (timer = 0 /\ upFor < Timeout)
        /\ IF aborted THEN Done("aborted") ELSE RestOrPoll
     \/ ~up /\ (IF aborted THEN Done("aborted") ELSE PauseOrGiveUp)
     \/ aborted /\ Done("aborted")
     \/ ~aborted /\ Done("status")   \* a definitive answer: a key is rejected
  /\ UNCHANGED <<policy, tries, aborted, server, ran, strays, history>>

RestEnds ==
  /\ pc = "resting"
  /\ \/ /\ timer = 0 /\ ~aborted
        /\ pc' = "verify" /\ tries' = tries + 1
        /\ UNCHANGED <<attempt, result, timer, elapsed>>
     \/ aborted /\ Done("aborted") /\ UNCHANGED tries
  /\ UNCHANGED <<policy, aborted, server, ran, strays, history>>

\* mutant
PauseEndsWithoutProbe ==
  /\ pc = "pausing" /\ timer = 0
  /\ IF elapsed >= PollTimeout
     THEN Done("notReady")
     ELSE pc' = "probe" /\ UNCHANGED <<attempt, result, timer, elapsed>>
  /\ UNCHANGED <<policy, tries, aborted, server, ran, strays, history>>
PauseEnds ==
  /\ pc = "pausing"
  /\ \/ timer = 0 /\ pc' = "probe" /\ UNCHANGED <<attempt, result, timer, elapsed>>
     \/ aborted /\ Done("aborted")
  /\ UNCHANGED <<policy, tries, aborted, server, ran, strays, history>>
-----------------------------------------------------------------------------
(* request, attemptOnce                                                     *)

Attempt ==
  /\ pc = "attempt"
  /\ IF aborted
     THEN Done("aborted") /\ UNCHANGED <<ran, sent>>
     ELSE /\ pc' = "waiting" /\ timer' = Timeout /\ ran' = FALSE /\ sent' = sent + 1
          /\ UNCHANGED <<attempt, result, elapsed>>
  /\ UNCHANGED <<policy, tries, aborted, server, strays, runs, resets>>

\* The server runs the request being waited for.
Serve ==
  /\ pc = "waiting" /\ up /\ ~ran
  /\ ran' = TRUE /\ runs' = runs + 1
  /\ UNCHANGED <<pc, policy, attempt, tries, result, aborted, timer, elapsed, server,
                 strays, sent, resets>>

Succeed ==
  /\ pc = "waiting" /\ ran
  /\ Done("ok")
  /\ UNCHANGED <<policy, tries, aborted, server, ran, strays, history>>

\* mutant
GiveUpLate(kind) == ~Retryable(kind) \/ attempt > attempts
GiveUp(kind) == ~Retryable(kind) \/ attempt >= attempts

SleepOrGiveUp(kind, wish) ==
  IF GiveUp(kind)
  THEN Done(ResultOf(kind))
  ELSE /\ pc' = "sleeping" /\ timer' \in Pause(attempt, wish)
       /\ UNCHANGED <<attempt, result, elapsed>>

\* What the server has of an attempt the client gives up may still be run.
LeaveBehind == strays' \in IF ran THEN {strays} ELSE {strays, strays + 1}

Answer ==
  /\ pc = "waiting"
  /\ \/ ~ran /\ \E wish \in Wishes : SleepOrGiveUp("busy", wish)
     \/ \E wish \in Wishes : SleepOrGiveUp("failed", wish)
     \/ SleepOrGiveUp("rejected", 0)
  /\ UNCHANGED <<policy, tries, aborted, server, ran, strays, history>>

\* fail: an abort is told before a timeout, a timeout before a network error.
Refuse ==
  /\ pc = "waiting" /\ ~up /\ ~ran
  /\ IF aborted THEN Done("aborted") ELSE SleepOrGiveUp("refused", 0)
  /\ UNCHANGED <<policy, tries, aborted, server, ran, strays, history>>

Disconnect ==
  /\ pc = "waiting"
  /\ \/ /\ IF aborted THEN Done("aborted") ELSE SleepOrGiveUp("reset", 0)
        /\ resets' = resets + 1
     \/ /\ IF aborted THEN Done("aborted") ELSE SleepOrGiveUp("broken", 0)
        /\ UNCHANGED resets
  /\ LeaveBehind
  /\ UNCHANGED <<policy, tries, aborted, server, ran, sent, runs>>

\* mutant
TimeOutBeforeTheBody ==
  /\ pc = "waiting" /\ timer = 0 /\ ~ran
  /\ IF aborted THEN Done("aborted") ELSE SleepOrGiveUp("timeout", 0)
  /\ LeaveBehind
  /\ UNCHANGED <<policy, tries, aborted, server, ran, history>>
TimeOut ==
  /\ pc = "waiting" /\ timer = 0
  /\ IF aborted THEN Done("aborted") ELSE SleepOrGiveUp("timeout", 0)
  /\ LeaveBehind
  /\ UNCHANGED <<policy, tries, aborted, server, ran, history>>

AbortAttempt ==
  /\ pc = "waiting" /\ aborted
  /\ Done("aborted")
  /\ LeaveBehind
  /\ UNCHANGED <<policy, tries, aborted, server, ran, history>>

SleepEnds ==
  /\ pc = "sleeping"
  /\ \/ /\ timer = 0 /\ ~aborted
        /\ pc' = "attempt" /\ attempt' = attempt + 1 /\ UNCHANGED <<result, timer, elapsed>>
     \/ aborted /\ Done("aborted")
  /\ UNCHANGED <<policy, tries, aborted, server, ran, strays, history>>
-----------------------------------------------------------------------------
(* The server, the caller and the clock.                                    *)

RunStray ==
  /\ strays > 0 /\ strays' = strays - 1 /\ runs' = runs + 1
  /\ UNCHANGED <<pc, policy, attempt, tries, result, aborted, timer, elapsed, server, ran,
                 sent, resets>>

\* A service that starts or stops; it is down while it is starting.
StartOrStop ==
  /\ pc # "done"
  /\ up' = ~up /\ upFor' = 0
  /\ UNCHANGED <<pc, policy, attempt, tries, result, aborted, timer, elapsed, ran, strays,
                 history>>

Abort ==
  /\ pc # "done" /\ ~aborted /\ aborted' = TRUE
  /\ UNCHANGED <<pc, policy, attempt, tries, result, timer, elapsed, server, ran, strays,
                 history>>

\* The longest call of a probe.
LongestCall == IF verify = 0 THEN ProbeTimeout ELSE Max2(ProbeTimeout, Timeout)

Tick ==
  /\ pc \in {"probing", "verifying", "resting", "pausing", "waiting", "sleeping"}
  /\ timer > 0
  /\ timer' = timer - 1 /\ elapsed' = elapsed + 1
  /\ upFor' = IF up /\ upFor < LongestCall /\ pc # "waiting" THEN upFor + 1 ELSE upFor
  /\ UNCHANGED <<pc, policy, attempt, tries, result, aborted, up, ran, strays, history>>

LocalStep ==
  \/ Probe \/ ProbeEnds \/ Verify \/ VerifyEnds \/ RestEnds \/ PauseEnds
  \/ Attempt \/ TimeOut \/ AbortAttempt \/ SleepEnds
NetworkStep == Succeed \/ Answer \/ Refuse \/ Disconnect

Next == LocalStep \/ NetworkStep \/ Serve \/ RunStray \/ StartOrStop \/ Abort \/ Tick

Spec == Init /\ [][Next]_vars

\* Time passes, timers go off and promises settle; an attempt need not be
\* answered.
FairSpec == Spec /\ WF_vars(LocalStep) /\ WF_vars(Tick)
-----------------------------------------------------------------------------
(* Properties.                                                              *)

Repeatable == method # "POST"
Told == CASE result = "none" -> "nothing"
          [] result = "ok" -> "done"
          [] result = "aborted" -> "aborted"
          [] OTHER -> "failed"

\* A request keeps what Exchange promises: a POST runs once more than its
\* connection was reset at most, success is told only of a request that ran,
\* nothing is sent after an abort or after the caller was told.
Promise == INSTANCE Exchange WITH
  repeatable <- Repeatable, stopped <- aborted, told <- Told
KeepsPromise == Promise!Spec

\* The longest request under a policy of n attempts.
RequestTime(n) == n * Timeout + (n - 1) * MaxPause

\* A wait takes at most its budget and one probe more: where the caller
\* verifies, a probe may take as long as a whole request on top of its own
\* timeout.  A request takes at most its attempts and the longest pauses
\* between them.
EndsInTime ==
  IF sent = 0
  THEN elapsed <= PollTimeout + ProbeTimeout
                  + (IF verify = 0 THEN 0 ELSE RequestTime(verify))
  ELSE elapsed <= RequestTime(attempts)

\* A service is called not ready only when the whole budget has passed and the
\* service was not there for all of the last call.
ReadyIsFound ==
  result = "notReady" => elapsed >= PollTimeout /\ ~(up /\ upFor >= LongestCall)

\* The wait and the request end, whatever the server does.
Terminates == <>(pc = "done")
=============================================================================
