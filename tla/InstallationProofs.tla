--------------------------- MODULE InstallationProofs ---------------------------
(***************************************************************************)
(* For any number of terminals, any sequences of commands and any           *)
(* interleaving of their reads and writes: what the release check says is   *)
(* fresh and in the order of the releases; the keys of the services are     *)
(* kept; the wizard asks for all that is missing; a command that runs alone *)
(* leaves what it was not asked to change, a lone release check leaves the  *)
(* settings, and a setup that runs alone brings the two files and Jellyfin  *)
(* into agreement.                                                          *)
(***************************************************************************)
EXTENDS Installation, WellFoundedInduction, TLAPS

\* An answer of GitHub that is remembered anywhere was true at the time it is
\* dated with, as far as the clock was not ahead.
TrueAnswer(c) ==
  /\ c.at <= time + ahead
  /\ c.release # 0 => c.release = latest \/ c.at <= superseded[c.release] + ahead
TrueNews(t) ==
  /\ t.at <= time
  /\ t.release # 0 => t.release = latest \/ superseded[t.release] + Ttl + back > t.at

Tolds == [release : {0} \cup Releases, available : BOOLEAN, at : Nat]

NewsTypes ==
  /\ state.cache \in Caches
  /\ carried \in [Procs -> Caches] /\ reply \in [Procs -> Caches]
  /\ told \in [Procs -> Tolds]
  /\ latest \in Releases /\ superseded \in [Releases -> Nat]
  /\ time \in Nat /\ ahead \in Nat /\ back \in Nat
NewsInv ==
  /\ NewsTypes
  /\ TrueAnswer(state.cache)
  /\ \A p \in Procs : TrueAnswer(carried[p]) /\ TrueAnswer(reply[p]) /\ TrueNews(told[p])

\* Whoever is about to write .env has read the keys that are in it.
KeyInv ==
  /\ pc \in [Procs -> Labels] /\ key = [p \in Procs |-> key[p]]
  /\ disk = [p \in Procs |-> disk[p]] /\ \A p \in Procs : IsEnv(disk[p])
  /\ IsEnv(env)
  /\ settled # 0 =>
       /\ env.keys = settled
       /\ \A p \in Procs :
            /\ pc[p] \in {"ensuring", "issuing"} => disk[p].keys = settled
            /\ pc[p] = "ensuring" => key[p] = settled
-----------------------------------------------------------------------------
(* The release check                                                        *)

World == <<latest, superseded, time, ahead, back>>

\* Time, the clock and new releases take nothing from what was learnt.
LEMMA WorldKeepsAnswers ==
  ASSUME NewsTypes, UNCHANGED World \/ TimePasses \/ SetClock \/ Publish
  PROVE  /\ \A c \in Caches : TrueAnswer(c) => TrueAnswer(c)'
         /\ \A t \in Tolds : TrueNews(t) => TrueNews(t)'
         /\ (NewsTypes' <=> /\ (state.cache \in Caches)'
                            /\ (carried \in [Procs -> Caches])'
                            /\ (reply \in [Procs -> Caches])'
                            /\ (told \in [Procs -> Tolds])')
<1>1. CASE UNCHANGED World
  BY <1>1 DEF World, TrueAnswer, TrueNews, NewsTypes, Caches, Tolds, Releases
<1>2. CASE TimePasses
  BY <1>2 DEF TimePasses, TrueAnswer, TrueNews, NewsTypes, Caches, Tolds, Releases
<1>3. CASE SetClock
  <2>1. /\ UNCHANGED <<latest, superseded, time>> /\ ahead' \in Nat /\ back' \in Nat
        /\ ahead' >= ahead /\ back' >= back
    BY <1>3 DEF SetClock, NewsTypes
  <2>2. ASSUME NEW c \in Caches, TrueAnswer(c) PROVE TrueAnswer(c)'
    BY <2>1, <2>2 DEF TrueAnswer, NewsTypes, Caches
  <2>3. ASSUME NEW t \in Tolds, TrueNews(t) PROVE TrueNews(t)'
    BY <2>1, <2>3, InstallationAssumption DEF TrueNews, NewsTypes, Tolds
  <2>4. NewsTypes' <=> /\ (state.cache \in Caches)' /\ (carried \in [Procs -> Caches])'
                       /\ (reply \in [Procs -> Caches])' /\ (told \in [Procs -> Tolds])'
    BY <2>1 DEF NewsTypes, Caches, Tolds, Releases
  <2>. QED BY <2>2, <2>3, <2>4
<1>4. CASE Publish
  <2>1. /\ latest' \in Releases /\ time' = time /\ ahead' = ahead /\ back' = back
        /\ superseded' = [superseded EXCEPT ![latest] = time]
    BY <1>4 DEF Publish
  <2>2. superseded' \in [Releases -> Nat]
    BY <2>1 DEF NewsTypes
  <2>3. ASSUME NEW c \in Caches, TrueAnswer(c) PROVE TrueAnswer(c)'
    BY <2>1, <2>3 DEF TrueAnswer, NewsTypes, Caches
  <2>4. ASSUME NEW t \in Tolds, TrueNews(t) PROVE TrueNews(t)'
    BY <2>1, <2>4, InstallationAssumption DEF TrueNews, NewsTypes, Tolds
  <2>5. Caches' = Caches /\ Tolds' = Tolds /\ Releases' = Releases
    BY DEF Caches, Tolds, Releases
  <2>6. NewsTypes' <=> /\ (state.cache \in Caches)' /\ (carried \in [Procs -> Caches])'
                       /\ (reply \in [Procs -> Caches])' /\ (told \in [Procs -> Tolds])'
    BY <2>1, <2>2, <2>5 DEF NewsTypes
  <2>. QED BY <2>3, <2>4, <2>6
<1>. QED BY <1>1, <1>2, <1>3, <1>4

\* A cache that is fresh by the clock holds a release that was the latest within
\* the hour.
LEMMA FreshIsTrue ==
  ASSUME NewsTypes, NEW c \in Caches, TrueAnswer(c), c.release # 0,
         IsCacheFresh(c, Clock)
  PROVE  c.release = latest \/ superseded[c.release] + Ttl + back > time
<1>1. c.at \in Int /\ c.release \in Releases
  BY DEF Caches
<1>2. Clock - c.at < Ttl
  BY DEF IsCacheFresh
<1>3. CASE c.release # latest
  <2>1. c.at <= superseded[c.release] + ahead /\ superseded[c.release] \in Nat
    BY <1>1, <1>3 DEF TrueAnswer, NewsTypes
  <2>. QED BY <1>1, <1>2, <2>1, InstallationAssumption DEF Clock, NewsTypes
<1>. QED BY <1>3

\* The commands read and write caches, and date an answer before they ask.
LEMMA StepKeepsNews == NewsInv /\ [Next]_vars => NewsInv'
<1>. SUFFICES ASSUME NewsInv, [Next]_vars PROVE NewsInv'
  OBVIOUS
<1>. USE DEF NewsInv
<1>a. NewsTypes
  OBVIOUS
<1>world. ASSUME UNCHANGED <<state, carried, reply, told>>,
                 UNCHANGED World \/ TimePasses \/ SetClock \/ Publish
          PROVE  NewsInv'
  <2>1. /\ state.cache \in Caches
        /\ \A p \in Procs : carried[p] \in Caches /\ reply[p] \in Caches /\ told[p] \in Tolds
    BY DEF NewsTypes
  <2>. QED BY <1>world, <2>1, WorldKeepsAnswers DEF NewsTypes
<1>kept. ASSUME UNCHANGED World,
                state'.cache \in Caches, TrueAnswer(state'.cache),
                carried' \in [Procs -> Caches], reply' \in [Procs -> Caches],
                told' \in [Procs -> Tolds],
                \A p \in Procs : /\ TrueAnswer(carried'[p]) /\ TrueAnswer(reply'[p])
                                 /\ TrueNews(told'[p])
         PROVE  NewsInv'
  BY <1>kept DEF World, NewsTypes, TrueAnswer, TrueNews
<1>1. CASE UNCHANGED vars
  BY <1>1, <1>world DEF vars, files, news, command, history, World
<1>2. CASE TimePasses \/ SetClock \/ Publish
  BY <1>2, <1>world DEF TimePasses, SetClock, Publish, files, command, history
<1>3. ASSUME NEW p \in Procs, CliStep(p) \/ Stop(p) PROVE NewsInv'
  <2>. DEFINE Quiet == UNCHANGED <<state, carried, reply, told, World>>
  <2>quiet. Quiet => NewsInv'
    BY <1>world DEF World
  <2>1. CASE Stop(p)
    BY <2>1, <2>quiet DEF Stop, files, news, history, World
  <2>2. CASE Begin(p)
    <3>1. NothingTold \in Tolds /\ TrueNews(NothingTold)
      BY DEF NothingTold, Tolds, TrueNews, NewsTypes
    <3>2. told' = [told EXCEPT ![p] = NothingTold]
      BY <2>2 DEF Begin
    <3>3. told' \in [Procs -> Tolds] /\ \A q \in Procs : TrueNews(told'[q])
      BY <3>1, <3>2 DEF NewsTypes
    <3>. QED BY <2>2, <3>3, <1>kept DEF Begin, files, news, World, NewsTypes
  <2>3. CASE LoadState(p)
    <3>1. carried' = [carried EXCEPT ![p] = state.cache]
      BY <2>3 DEF LoadState
    <3>2. carried' \in [Procs -> Caches] /\ \A q \in Procs : TrueAnswer(carried'[q])
      BY <3>1 DEF NewsTypes
    <3>. QED BY <2>3, <3>2, <1>kept DEF LoadState, files, news, history, World, NewsTypes
  <2>4. CASE LoadEnv(p)
    BY <2>4, <2>quiet DEF LoadEnv, files, news, history, World
  <2>5. CASE FirstResolve(p) \/ Answer(p) \/ SecondResolve(p)
    BY <2>5, <2>quiet DEF FirstResolve, Answer, SecondResolve, files, news, history, World
  <2>6. CASE Approve(p) \/ Decline(p) \/ Purge(p) \/ PersistRead(p)
    BY <2>6, <2>quiet DEF Approve, Decline, Purge, PersistRead, files, news, history, World
  <2>7. CASE PersistWrite(p)
    <3>1. state'.cache = carried[p]
      BY <2>7 DEF PersistWrite, ToPersist
    <3>2. UNCHANGED <<carried, reply, told, World>>
      BY <2>7 DEF PersistWrite, news, history, World
    <3>. QED BY <3>1, <3>2, <1>kept DEF NewsTypes
  <2>8. CASE EnsureRead(p) \/ EnsureWrite(p) \/ Access(p) \/ CreateKey(p)
    BY <2>8, <2>quiet DEF EnsureRead, EnsureWrite, Access, CreateKey, files, news, history, World
  <2>9. CASE IssueRead(p) \/ IssueWrite(p) \/ FetchNothing(p)
    BY <2>9, <2>quiet DEF IssueRead, IssueWrite, FetchNothing, files, news, history, World
  <2>10. CASE LoadForCheck(p)
    <3>1. /\ UNCHANGED <<state, World>>
          /\ reply' = [reply EXCEPT ![p] = [at |-> Clock, release |-> 0]]
          /\ carried' = [carried EXCEPT ![p] = state.cache]
      BY <2>10 DEF LoadForCheck, files, news, World
    <3>2. carried' \in [Procs -> Caches] /\ \A q \in Procs : TrueAnswer(carried'[q])
      BY <3>1 DEF NewsTypes
    <3>3. [at |-> Clock, release |-> 0] \in Caches /\ TrueAnswer([at |-> Clock, release |-> 0])
      BY DEF Caches, TrueAnswer, Clock, NewsTypes
    <3>4. reply' \in [Procs -> Caches] /\ \A q \in Procs : TrueAnswer(reply'[q])
      BY <3>1, <3>3 DEF NewsTypes
    <3>5. told' \in [Procs -> Tolds] /\ \A q \in Procs : TrueNews(told'[q])
      <4>1. CASE /\ state.cache.release # 0 /\ IsCacheFresh(state.cache, Clock)
                 /\ Tell(p, state.cache.release)
        <5>. DEFINE t == [release |-> state.cache.release, at |-> time,
                          available |-> IsNewer(Versions[state.cache.release], Versions[cli])]
        <5>1. told' = [told EXCEPT ![p] = t]
          BY <4>1 DEF Tell
        <5>2. t \in Tolds
          BY <4>1 DEF Tolds, NewsTypes, Caches, IsNewer
        <5>3. TrueNews(t)
          BY <4>1, <1>a, FreshIsTrue DEF TrueNews, NewsTypes
        <5>. QED BY <5>1, <5>2, <5>3 DEF NewsTypes
      <4>2. CASE UNCHANGED told
        BY <4>2 DEF NewsTypes
      <4>. QED BY <2>10, <4>1, <4>2 DEF LoadForCheck
    <3>. QED BY <3>1, <3>2, <3>4, <3>5, <1>kept DEF NewsTypes
  <2>11. CASE Fetch(p)
    <3>1. /\ UNCHANGED <<state, carried, World>>
          /\ reply' = [reply EXCEPT ![p].release = latest] /\ Tell(p, latest)
      BY <2>11 DEF Fetch, files, news, World
    <3>2. PICK c \in Caches : c = [reply[p] EXCEPT !.release = latest]
      BY DEF NewsTypes, Caches
    <3>3. TrueAnswer(c)
      BY <3>2 DEF TrueAnswer, NewsTypes, Caches
    <3>4. reply' \in [Procs -> Caches] /\ \A q \in Procs : TrueAnswer(reply'[q])
      BY <3>1, <3>2, <3>3 DEF NewsTypes
    <3>. DEFINE t == [release |-> latest, at |-> time,
                      available |-> IsNewer(Versions[latest], Versions[cli])]
    <3>5. told' = [told EXCEPT ![p] = t] /\ t \in Tolds /\ TrueNews(t)
      BY <3>1 DEF Tell, Tolds, NewsTypes, TrueNews, IsNewer
    <3>6. told' \in [Procs -> Tolds] /\ \A q \in Procs : TrueNews(told'[q])
      BY <3>5 DEF NewsTypes
    <3>. QED BY <3>1, <3>4, <3>6, <1>kept DEF NewsTypes
  <2>12. CASE Store(p)
    <3>1. state'.cache = reply[p]
      BY <2>12 DEF Store
    <3>2. UNCHANGED <<carried, reply, told, World>>
      BY <2>12 DEF Store, news, history, World
    <3>. QED BY <3>1, <3>2, <1>kept DEF NewsTypes
  <2>. QED BY <1>3, <2>1, <2>2, <2>3, <2>4, <2>5, <2>6, <2>7, <2>8, <2>9, <2>10,
              <2>11, <2>12 DEF CliStep
<1>. QED BY <1>1, <1>2, <1>3 DEF Next

LEMMA InitIsTrue == Init => NewsInv
<1>. SUFFICES ASSUME Init PROVE NewsInv
  OBVIOUS
<1>1. PICK s \in Scenarios : state = s.state /\ latest = s.latest
  BY DEF Init
<1>2. /\ carried = [p \in Procs |-> NoCache] /\ reply = [p \in Procs |-> NoCache]
      /\ told = [p \in Procs |-> NothingTold] /\ superseded = [r \in Releases |-> 0]
      /\ time = 0 /\ ahead = 0 /\ back = 0
  BY DEF Init
<1>3. state.cache \in Caches /\ state.cache.at <= 0 /\ latest \in Releases
  BY <1>1, ScenariosAssumption DEF IsState
<1>4. NoCache \in Caches /\ NothingTold \in Tolds
  BY DEF NoCache, Caches, NothingTold, Tolds
<1>5. NewsTypes
  BY <1>2, <1>3, <1>4 DEF NewsTypes
<1>6. TrueAnswer(state.cache) /\ TrueAnswer(NoCache) /\ TrueNews(NothingTold)
  BY <1>2, <1>3 DEF TrueAnswer, TrueNews, NoCache, NothingTold, Caches
<1>. QED BY <1>2, <1>5, <1>6 DEF NewsInv

\* The release check never announces stale news as fresh, whatever the commands
\* write over each other (inspectUpdate, storeUpdateCache).
THEOREM NewsStaysFresh == Spec => []NewsIsFresh
<1>1. NewsInv => NewsIsFresh
  BY DEF NewsInv, NewsIsFresh, TrueNews
<1>. QED BY <1>1, InitIsTrue, StepKeepsNews, PTL DEF Spec
-----------------------------------------------------------------------------
(* The keys                                                                 *)

\* A step that leaves .env and what was read of it, and sends no command to a
\* write.
LEMMA OthersKeepKeys ==
  ASSUME KeyInv, NEW p \in Procs, NEW label \in Labels \ {"ensuring", "issuing"},
         pc' = [pc EXCEPT ![p] = label], UNCHANGED <<env, disk, settled>>,
         UNCHANGED key \/ \E k : key' = [key EXCEPT ![p] = k]
  PROVE  KeyInv'
<1>1. pc' \in [Procs -> Labels] /\ \A q \in Procs \ {p} : pc'[q] = pc[q]
  BY DEF KeyInv
<1>2. pc'[p] = label
  BY DEF KeyInv
<1>3. key' = [q \in Procs |-> key'[q]] /\ \A q \in Procs \ {p} : key'[q] = key[q]
  BY DEF KeyInv
<1>4. Labels' = Labels
  BY DEF Labels
<1>. QED BY <1>1, <1>2, <1>3, <1>4 DEF KeyInv, IsEnv

\* Whoever writes .env keeps the keys it has read, and no two commands have read
\* different ones once one has begun alone on them.
LEMMA StepKeepsKeys == KeyInv /\ [Next]_vars => KeyInv'
<1>. SUFFICES ASSUME KeyInv, [Next]_vars PROVE KeyInv'
  OBVIOUS
<1>l. Labels' = Labels
  BY DEF Labels
<1>same. ASSUME UNCHANGED <<pc, key, env, disk, settled>> PROVE KeyInv'
  BY <1>same, <1>l DEF KeyInv, IsEnv
<1>1. CASE UNCHANGED vars
  BY <1>1, <1>same DEF vars, files, command, history
<1>2. CASE TimePasses \/ SetClock \/ Publish
  BY <1>2, <1>same DEF TimePasses, SetClock, Publish, files, command, history
<1>3. ASSUME NEW p \in Procs, CliStep(p) \/ Stop(p) PROVE KeyInv'
  <2>quiet. ASSUME NEW label \in Labels \ {"ensuring", "issuing"}, NEW t, GoOn(p, label, t),
                   UNCHANGED <<env, disk, settled>>,
                   UNCHANGED key \/ \E k : key' = [key EXCEPT ![p] = k]
            PROVE  KeyInv'
    BY <2>quiet, OthersKeepKeys DEF GoOn
  <2>1. CASE Stop(p)
    BY <2>1, <2>quiet DEF Stop, End, files, history, Labels
  <2>2. CASE Begin(p)
    <3>1. PICK label \in {"confirm", "load"} : pc' = [pc EXCEPT ![p] = label]
      BY <2>2 DEF Begin
    <3>2. /\ UNCHANGED env /\ disk' = [disk EXCEPT ![p] = NoEnv]
          /\ key' = [key EXCEPT ![p] = 0]
          /\ settled' = IF \A r \in Procs : ~Busy(r) THEN env.keys ELSE settled
      BY <2>2 DEF Begin, files
    <3>3. /\ pc' \in [Procs -> Labels] /\ pc'[p] \notin {"ensuring", "issuing"}
          /\ key' = [q \in Procs |-> key'[q]] /\ disk' = [q \in Procs |-> disk'[q]]
          /\ \A q \in Procs \ {p} : pc'[q] = pc[q] /\ key'[q] = key[q] /\ disk'[q] = disk[q]
      BY <3>1, <3>2 DEF KeyInv, Labels
    <3>4. IsEnv(NoEnv)
      BY DEF IsEnv, NoEnv
    <3>5. disk'[p] = NoEnv
      BY <3>2 DEF KeyInv
    <3>6. IsEnv(env)' /\ \A q \in Procs : IsEnv(disk[q])'
      BY <3>2, <3>3, <3>4, <3>5 DEF KeyInv, IsEnv
    <3>7. CASE \A r \in Procs : ~Busy(r)
      <4>1. \A q \in Procs \ {p} : pc'[q] \notin {"ensuring", "issuing"}
        BY <3>3, <3>7 DEF Busy
      <4>. QED BY <3>2, <3>3, <3>6, <3>7, <4>1, <1>l DEF KeyInv
    <3>8. CASE ~ \A r \in Procs : ~Busy(r)
      BY <3>2, <3>3, <3>6, <3>8, <1>l DEF KeyInv
    <3>. QED BY <3>7, <3>8
  <2>3. CASE LoadState(p)
    BY <2>3, <2>quiet DEF LoadState, End, files, history, Labels
  <2>4. CASE LoadEnv(p)
    <3>1. /\ UNCHANGED <<env, disk, settled, key>>
          /\ \E label \in {"resolve", "done", "purge", "persist", "confirm"} :
               pc' = [pc EXCEPT ![p] = label]
      <4>. DEFINE t == task[p]
      <4>1. UNCHANGED <<env, disk, settled, key>>
        BY <2>4 DEF LoadEnv, files, history
      <4>2. CASE Job(p).kind = "setup"
        BY <2>4, <4>1, <4>2 DEF LoadEnv, GoOn
      <4>3. CASE /\ Job(p).kind # "setup"
                 /\ ~env.home \/ \E f \in RequiredSecrets : env.secrets[f] = Undefined
        BY <2>4, <4>1, <4>3 DEF LoadEnv, GoOn, End
      <4>4. CASE /\ Job(p).kind # "setup"
                 /\ ~(~env.home \/ \E f \in RequiredSecrets : env.secrets[f] = Undefined)
        BY <2>4, <4>1, <4>4 DEF LoadEnv, GoOn
      <4>. QED BY <4>2, <4>3, <4>4
    <3>. QED BY <3>1, OthersKeepKeys DEF Labels
  <2>5. CASE FirstResolve(p)
    BY <2>5, <2>quiet DEF FirstResolve, End, files, history, Labels
  <2>6. CASE Answer(p)
    BY <2>6, <1>same DEF Answer, files, history
  <2>7. CASE SecondResolve(p)
    BY <2>7, <2>quiet DEF SecondResolve, files, history, Labels
  <2>8. CASE Approve(p)
    BY <2>8, <2>quiet DEF Approve, Go, files, history, Labels
  <2>9. CASE Decline(p)
    BY <2>9, <2>quiet DEF Decline, End, files, history, Labels
  <2>10. CASE Purge(p)
    BY <2>10, <2>quiet DEF Purge, Go, files, history, Labels
  <2>11. CASE PersistRead(p)
    BY <2>11, <2>quiet DEF PersistRead, AfterPersist, Go, files, history, Labels
  <2>12. CASE PersistWrite(p)
    BY <2>12, <2>quiet DEF PersistWrite, AfterPersist, Go, history, Labels
  <2>13. CASE EnsureRead(p)
    <3>1. /\ UNCHANGED <<env, settled>> /\ disk' = [disk EXCEPT ![p] = env]
          /\ key' = [key EXCEPT ![p] = KeysFor(env)]
          /\ \E label \in {"access", "ensuring"} : pc' = [pc EXCEPT ![p] = label]
      BY <2>13 DEF EnsureRead, files, history
    <3>2. /\ pc' \in [Procs -> Labels] /\ disk'[p] = env /\ key'[p] = KeysFor(env)
          /\ key' = [q \in Procs |-> key'[q]] /\ disk' = [q \in Procs |-> disk'[q]]
          /\ \A q \in Procs \ {p} : pc'[q] = pc[q] /\ key'[q] = key[q] /\ disk'[q] = disk[q]
      BY <3>1 DEF KeyInv, Labels
    <3>3. settled # 0 => KeysFor(env) = settled
      BY DEF KeyInv, KeysFor
    <3>4. IsEnv(env)' /\ \A q \in Procs : IsEnv(disk[q])'
      BY <3>1, <3>2 DEF KeyInv, IsEnv
    <3>. QED BY <3>1, <3>2, <3>3, <3>4, <1>l DEF KeyInv
  <2>14. CASE EnsureWrite(p)
    <3>1. /\ env' = NextEnv(p, disk[p], key[p]) /\ UNCHANGED <<key, disk, settled>>
          /\ pc' = [pc EXCEPT ![p] = "access"] /\ pc[p] = "ensuring"
      BY <2>14 DEF EnsureWrite, Go, GoOn, history
    <3>2. IsEnv(env)' /\ env'.keys = key[p]
      BY <3>1 DEF IsEnv, NextEnv
    <3>3. /\ pc' \in [Procs -> Labels] /\ pc'[p] = "access"
          /\ \A q \in Procs \ {p} : pc'[q] = pc[q]
      BY <3>1 DEF KeyInv, Labels
    <3>4. \A q \in Procs : IsEnv(disk[q])'
      BY <3>1 DEF KeyInv, IsEnv
    <3>. QED BY <3>1, <3>2, <3>3, <3>4, <1>l DEF KeyInv
  <2>15. CASE Access(p)
    BY <2>15, <2>quiet DEF Access, End, Go, files, history, Labels
  <2>16. CASE CreateKey(p)
    BY <2>16, <2>quiet DEF CreateKey, Go, files, history, Labels
  <2>17. CASE IssueRead(p)
    <3>1. /\ UNCHANGED <<env, settled, key>> /\ disk' = [disk EXCEPT ![p] = env]
          /\ \E label \in {"done", "issuing"} : pc' = [pc EXCEPT ![p] = label]
      BY <2>17 DEF IssueRead, End, Go, GoOn, files, history
    <3>2. /\ pc' \in [Procs -> Labels] /\ disk'[p] = env /\ pc'[p] # "ensuring"
          /\ disk' = [q \in Procs |-> disk'[q]]
          /\ \A q \in Procs \ {p} : pc'[q] = pc[q] /\ disk'[q] = disk[q]
      BY <3>1 DEF KeyInv, Labels
    <3>4. IsEnv(env)' /\ \A q \in Procs : IsEnv(disk[q])'
      BY <3>1, <3>2 DEF KeyInv, IsEnv
    <3>. QED BY <3>1, <3>2, <3>4, <1>l DEF KeyInv
  <2>18. CASE IssueWrite(p)
    <3>1. /\ env' = [disk[p] EXCEPT !.jellyfin = key[p]] /\ UNCHANGED <<key, disk, settled>>
          /\ pc' = [pc EXCEPT ![p] = "done"] /\ pc[p] = "issuing"
      BY <2>18 DEF IssueWrite, End, GoOn, history
    <3>2. IsEnv(env)' /\ env'.keys = disk[p].keys
      BY <3>1 DEF KeyInv, IsEnv
    <3>3. /\ pc' \in [Procs -> Labels] /\ pc'[p] = "done"
          /\ \A q \in Procs \ {p} : pc'[q] = pc[q]
      BY <3>1 DEF KeyInv, Labels
    <3>4. \A q \in Procs : IsEnv(disk[q])'
      BY <3>1 DEF KeyInv, IsEnv
    <3>. QED BY <3>1, <3>2, <3>3, <3>4, <1>l DEF KeyInv
  <2>19. CASE LoadForCheck(p)
    BY <2>19, <2>quiet DEF LoadForCheck, End, files, Labels
  <2>20. CASE Fetch(p)
    BY <2>20, <2>quiet DEF Fetch, End, Go, files, Labels
  <2>21. CASE FetchNothing(p)
    BY <2>21, <2>quiet DEF FetchNothing, End, files, history, Labels
  <2>22. CASE Store(p)
    BY <2>22, <2>quiet DEF Store, End, history, Labels
  <2>. QED BY <1>3, <2>1, <2>2, <2>3, <2>4, <2>5, <2>6, <2>7, <2>8, <2>9, <2>10, <2>11,
              <2>12, <2>13, <2>14, <2>15, <2>16, <2>17, <2>18, <2>19, <2>20, <2>21,
              <2>22 DEF CliStep
<1>. QED BY <1>1, <1>2, <1>3 DEF Next

LEMMA InitHasKeys == Init => KeyInv
<1>. SUFFICES ASSUME Init PROVE KeyInv
  OBVIOUS
<1>1. PICK s \in Scenarios : env = s.env
  BY DEF Init
<1>2. IsEnv(env) /\ IsEnv(NoEnv)
  BY <1>1, ScenariosAssumption DEF IsEnv, NoEnv
<1>3. /\ pc = [p \in Procs |-> "idle"] /\ key = [p \in Procs |-> 0]
      /\ disk = [p \in Procs |-> NoEnv] /\ settled = 0
  BY DEF Init
<1>. QED BY <1>2, <1>3 DEF KeyInv, Labels

\* Once a command has begun alone on an installation that has its keys, no
\* overlap of commands, failure or interrupt ever changes them
\* (ensureEnvStep, ensureServiceKeys, persistIssuedKey).
THEOREM KeysStay == Spec => []KeysAreKept
<1>1. KeyInv => KeysAreKept
  BY DEF KeyInv, KeysAreKept
<1>. QED BY <1>1, InitHasKeys, StepKeepsKeys, PTL DEF Spec
-----------------------------------------------------------------------------
(* What the commands hold                                                   *)

\* Types: what is in the files, and what a command has read of them.
IsTask(t) ==
  /\ t = [job |-> t.job, source |-> t.source, saved |-> t.saved, draft |-> t.draft,
          answers |-> t.answers, answered |-> t.answered, issues |-> t.issues,
          config |-> t.config, secrets |-> t.secrets, cleared |-> t.cleared,
          result |-> t.result]
  /\ t.source = NoConfig \/ IsConfig(t.source)
  /\ IsSecrets(t.saved)
  /\ IsValues(t.answers) /\ \A f \in Fields : t.answers[f] # Blank
IsFile(e) == IsEnv(e) /\ IsSecrets(e.secrets) /\ e.keys \in Nat

Typed ==
  /\ IsState(state) /\ IsFile(env)
  /\ live \subseteq 1..issued /\ issued \in Nat /\ keysMade \in Nat
  /\ jobs \in [Procs -> Seq(Jobs)]
  /\ pc \in [Procs -> Labels] /\ task = [p \in Procs |-> task[p]]
  /\ key = [p \in Procs |-> key[p]] /\ disk = [p \in Procs |-> disk[p]]
  /\ carried \in [Procs -> Caches]
  /\ began = [p \in Procs |-> began[p]] /\ alone = [p \in Procs |-> alone[p]]
  /\ \A p \in Procs : IsTask(task[p]) /\ IsFile(disk[p]) /\ key[p] \in Nat

SourcesOf(t) ==
  [config |-> t.source, secrets |-> t.saved, flags |-> t.job.flags, envFile |-> t.job.envFile]
Input(t, storage) == Resolve(SourcesOf(t), t.answers, storage)

\* What a command applies comes from what it has loaded and was told.
Kept(t) ==
  t.source # NoConfig /\ t.secrets = t.saved /\ t.cleared = {}
Chosen(t) ==
  \/ /\ t.job.kind = "setup"
     /\ \E storage \in t.job.fuse :
          /\ Input(t, storage).issues = {} /\ t.config = Input(t, storage).config
          /\ t.secrets = Input(t, storage).secrets /\ t.cleared = Input(t, storage).cleared
  \/ /\ t.job.kind = "config" /\ Kept(t)
     /\ t.config = [t.source EXCEPT !.transcoding = t.job.value]
  \/ t.job.kind \in {"reset", "redeploy"} /\ Kept(t) /\ t.config = t.source

\* What a command has been told so far: nothing; all that is asked but may not be
\* skipped.
Untold(t) ==
  /\ IsJob(t.job) /\ t.answers = NoValues /\ t.answered = {}
  /\ t.issues = {} /\ t.cleared = {}
Asked(t) ==
  \A f \in t.answered \ {"acmeEmail", "opensubtitlesUsername"} : t.answers[f] # Undefined

Ready   == {"persist", "persisting"}
Writing == {"ensure", "ensuring"}
Last    == {"access", "create", "issue", "issuing"}

\* What a command holds at a label.
Phase(t, label) ==
  /\ label # "idle" => IsJob(t.job)
  /\ label # "done" => t.result = "none"
  /\ label = "confirm" => \/ t.job.kind = "reset" /\ Untold(t)
                          \/ t.job.kind \in {"setup", "config"} /\ Chosen(t)
  /\ label = "load" => Untold(t)
  /\ label = "loadenv" => /\ Untold(t) /\ t.job.kind # "check"
                          /\ t.job.kind = "setup" \/ t.source # NoConfig
  /\ label = "resolve" => Untold(t) /\ t.job.kind = "setup"
  /\ label = "wizard" =>
       /\ t.job.kind = "setup" /\ t.issues = {} /\ Asked(t)
       /\ \E storage \in t.job.fuse :
            t.draft = Resolve(SourcesOf(t), NoValues, storage).draft
  /\ label = "purge" => t.job.kind = "reset" /\ Chosen(t)
  /\ label \in Ready \cup Writing \cup Last => Chosen(t)
  /\ label \in Writing => t.job.kind # "config"
  /\ label \in {"fetch", "storing"} => t.job.kind = "check"
  /\ \A i \in t.issues : i[2] # "missing"
Phases == \A p \in Procs : Phase(task[p], pc[p])

(* What a command alone leaves                                             *)

Written(t, e) ==
  [f \in SecretFields |-> IF f \in t.cleared THEN Undefined ELSE Or(t.secrets[f], e.secrets[f])]
Merged(t, e, keys, access) ==
  [home |-> TRUE, domain |-> t.config.domain, storage |-> t.config.storage,
   secrets |-> Written(t, e), keys |-> keys, jellyfin |-> access]
Persisted(t, cache, version) ==
  [config |-> [t.config EXCEPT !.version = version], cache |-> cache]

\* The file a command leaves of the one it began with.
Made(t, before, after) ==
  IF t.job.kind = "config" THEN after = [before EXCEPT !.jellyfin = after.jellyfin]
  ELSE /\ after = Merged(t, before, after.keys, after.jellyfin) /\ after.keys # 0
       /\ before.keys # 0 => after.keys = before.keys

\* What a command alone has read is what it began with.
Read(t, cache, before) ==
  t.source = before.state.config /\ t.saved = before.env.secrets /\ cache = before.state.cache

\* What a command that is alone sees, and what it has to see at each label.
Sight(p) ==
  [state |-> state, env |-> env, cache |-> carried[p], disk |-> disk[p], key |-> key[p],
   live |-> live, version |-> cli]

Follows(t, label, before, now) ==
  LET Persistent == now.state = Persisted(t, now.cache, now.version)
  IN /\ label # "idle"
     /\ IsState(before.state) /\ IsFile(before.env)
     /\ label \notin Writing \cup Last \cup {"done"} => now.state = before.state
     /\ label \notin Last \cup {"done"} => now.env = before.env
     /\ label \in {"loadenv", "fetch", "storing"} =>
          t.source = before.state.config /\ now.cache = before.state.cache
     /\ label \in {"resolve", "wizard", "purge"} \cup Ready \cup Writing \cup Last
          => Read(t, now.cache, before)
     /\ label = "confirm" /\ t.job.kind # "reset" => Read(t, now.cache, before)
     /\ label \in Writing \cup Last => Persistent
     /\ label = "ensuring" =>
          /\ now.disk = before.env /\ now.key # 0
          /\ before.env.keys # 0 => now.key = before.env.keys
     /\ label \in Last => Made(t, before.env, now.env)
     /\ label = "issuing" => now.disk = now.env
     /\ label \in {"issue", "issuing"} => now.key \in now.live
     /\ label = "done" =>
          /\ \/ now.state = before.state
             \/ t.job.kind = "check" /\ now.state.config = before.state.config
             \/ Chosen(t) /\ Read(t, now.cache, before) /\ Persistent
          /\ \/ now.env = before.env
             \/ Chosen(t) /\ Read(t, now.cache, before) /\ Made(t, before.env, now.env)
          /\ t.result = "success" /\ t.job.kind # "check" =>
               /\ Chosen(t) /\ Read(t, now.cache, before) /\ Persistent
               /\ Made(t, before.env, now.env) /\ now.env.jellyfin \in now.live

Alone(p) ==
  /\ \A q \in Procs \ {p} : ~Busy(q)
  /\ Follows(task[p], pc[p], began[p], Sight(p))
AloneInv == \A p \in Procs : alone[p] => Alone(p)
-----------------------------------------------------------------------------
(* The smallest of a set                                                    *)

\* A set of numbers that is not empty has a smallest one.
LEMMA SmallestElement ==
  ASSUME NEW S, S \subseteq Nat, S # {}
  PROVE  \E k \in S : \A j \in S : k <= j
<1>. DEFINE Less == {ss \in Nat \X Nat : ss[1] < ss[2]}
<1>1. IsWellFoundedOn(Less, Nat)
  BY NatLessThanWellFounded DEF OpToRel
<1>. HIDE DEF Less
<1>2. \E k \in S : \A j \in S : <<j, k>> \notin Less
  BY <1>1, WFMin
<1>3. \A j, k \in Nat : <<j, k>> \notin Less => k <= j
  BY DEF Less
<1>. QED BY <1>2, <1>3

-----------------------------------------------------------------------------
(* The layers of a setup                                                    *)

LEMMA Earliest ==
  ASSUME NEW S \in SUBSET Int, NEW k \in S, \A j \in S : k <= j
  PROVE  (CHOOSE i \in S : \A j \in S : i <= j) = k
<1>1. \A i \in S : (\A j \in S : i <= j) => i = k
  OBVIOUS
<1>. QED BY <1>1

LEMMA MergeTakesFirst ==
  ASSUME NEW layers, DOMAIN layers \in SUBSET Int, NEW f \in Fields
  PROVE  /\ \A k \in DOMAIN layers :
              /\ layers[k][f] \notin {Undefined, Blank}
              /\ \A j \in DOMAIN layers : j < k => layers[j][f] \in {Undefined, Blank}
              => Merge(layers)[f] = layers[k][f]
         /\ (\A j \in DOMAIN layers : layers[j][f] \in {Undefined, Blank})
              => Merge(layers)[f] = Undefined
<1>. DEFINE S == {i \in DOMAIN layers : layers[i][f] \notin {Undefined, Blank}}
            m == CHOOSE i \in S : \A j \in S : i <= j
<1>1. Merge(layers)[f] = IF S = {} THEN Undefined ELSE layers[m][f]
  BY DEF Merge
<1>2. \A i \in S : (\A j \in S : i <= j) => m = i
  BY Earliest
<1>. HIDE DEF m
<1>. QED BY <1>1, <1>2

\* What merges into a field: the first layer that gives it a value.
First(v, w) == IF v \in {Undefined, Blank} THEN w ELSE v
Told(a, g, e, f) == First(a[f], First(g[f], First(e[f], Undefined)))
Whole(a, g, e, b, f) == First(a[f], First(g[f], First(e[f], First(b[f], Undefined))))

LEMMA Layers ==
  ASSUME NEW a, NEW g, NEW e, NEW b, NEW f \in Fields
  PROVE  /\ Merge(<<a, g, e>>)[f] = Told(a, g, e, f)
         /\ Merge(<<a, g, e>> \o <<b>>)[f] = Whole(a, g, e, b, f)
<1>1. Merge(<<a, g, e>>)[f] = Told(a, g, e, f)
  <2>. DEFINE layers == <<a, g, e>>
  <2>1. /\ DOMAIN layers = 1..3
        /\ layers[1] = a /\ layers[2] = g /\ layers[3] = e
    OBVIOUS
  <2>. HIDE DEF layers
  <2>2. \A k \in DOMAIN layers : k = 1 \/ k = 2 \/ k = 3
    BY <2>1
  <2>3. Merge(layers)[f] = Told(a, g, e, f)
    BY <2>1, <2>2, MergeTakesFirst DEF Told, First
  <2>. QED BY <2>3 DEF layers
<1>2. Merge(<<a, g, e>> \o <<b>>)[f] = Whole(a, g, e, b, f)
  <2>. DEFINE layers == <<a, g, e>> \o <<b>>
  <2>1. /\ DOMAIN layers = 1..4
        /\ layers[1] = a /\ layers[2] = g /\ layers[3] = e /\ layers[4] = b
    OBVIOUS
  <2>. HIDE DEF layers
  <2>2. \A k \in DOMAIN layers : k = 1 \/ k = 2 \/ k = 3 \/ k = 4
    BY <2>1
  <2>3. Merge(layers)[f] = Whole(a, g, e, b, f)
    BY <2>1, <2>2, MergeTakesFirst DEF Whole, First
  <2>. QED BY <2>3 DEF layers
<1>. QED BY <1>1, <1>2

\* What a setup of these sources and answers resolves to.
Before(src) == Previous(src.config, src.secrets)
Said(src, a, f)  == Told(a, src.flags, src.envFile, f)
Value(src, a, f) == Whole(a, src.flags, src.envFile, Before(src), f)
DomainOf(src, a) ==
  IF Said(src, a, "domain") # Undefined THEN Said(src, a, "domain")
  ELSE IF Before(src).domain = Localhost THEN Undefined ELSE Before(src).domain
BaseOf(src) == IF src.config = NoConfig THEN DefaultConfig ELSE src.config
ConfigOf(src, a, storage) ==
  [mode |-> Or(Value(src, a, "mode"), "local"),
   domain |-> IF Value(src, a, "mode") = "remote" THEN DomainOf(src, a) ELSE Localhost,
   acmeEmail |-> Value(src, a, "acmeEmail"), acmeStaging |-> Value(src, a, "acmeStaging"),
   transcoding |-> Or(Value(src, a, "transcoding"), "off"),
   storage |-> storage, rest |-> BaseOf(src).rest, version |-> BaseOf(src).version]
Cleared(src, a) == {f \in OptionalSecrets : Clears(<<a, src.flags, src.envFile>>, f)}
Values(src, a) ==
  [f \in Fields |-> IF f \in Cleared(src, a) THEN Undefined ELSE Value(src, a, f)]
IssuesOf(src, a, storage) ==
  LET first == InputIssues([f \in Fields |-> Said(src, a, f)], Values(src, a), DomainOf(src, a))
  IN IF first # {} THEN first ELSE ConfigIssues(ConfigOf(src, a, storage))
Complete(src, a) ==
  /\ \A f \in RequiredSecrets : Value(src, a, f) # Undefined
  /\ Value(src, a, "mode") = "remote" => DomainOf(src, a) # Undefined
Correct(src, a) ==
  /\ Value(src, a, "mode") \in DeployModes \cup {Undefined}
  /\ Value(src, a, "transcoding") \in TranscodingModes \cup {Undefined}
  /\ Value(src, a, "mode") # "remote" => Said(src, a, "domain") \in {Undefined, Localhost}

LEMMA ClearedIsNamed ==
  ASSUME NEW src, NEW a
  PROVE  /\ Cleared(src, a) \subseteq OptionalSecrets
         /\ \A f \in Cleared(src, a) :
              a[f] # Undefined \/ src.flags[f] # Undefined \/ src.envFile[f] # Undefined
<1>. DEFINE asked == <<a, src.flags, src.envFile>>
<1>1. ASSUME NEW f \in Cleared(src, a)
      PROVE  a[f] # Undefined \/ src.flags[f] # Undefined \/ src.envFile[f] # Undefined
  <2>1. PICK i \in DOMAIN asked : asked[i][f] = Blank
    BY <1>1 DEF Cleared, Clears
  <2>2. /\ i = 1 \/ i = 2 \/ i = 3
        /\ asked[1] = a /\ asked[2] = src.flags /\ asked[3] = src.envFile
    BY <2>1
  <2>3. a[f] = Blank \/ src.flags[f] = Blank \/ src.envFile[f] = Blank
    BY <2>1, <2>2
  <2>. QED BY <2>3 DEF Blank, Undefined
<1>. QED BY <1>1 DEF Cleared

\* The values that are no optional secret cannot be cleared.
LEMMA ValueOf ==
  ASSUME NEW src, NEW a
  PROVE  /\ \A f \in ConfigFields \cup RequiredSecrets : Values(src, a)[f] = Value(src, a, f)
         /\ Values(src, a).mode = Value(src, a, "mode")
         /\ Values(src, a).acmeEmail = Value(src, a, "acmeEmail")
         /\ Values(src, a).acmeStaging = Value(src, a, "acmeStaging")
         /\ Values(src, a).transcoding = Value(src, a, "transcoding")
<1>1. \A f \in ConfigFields \cup RequiredSecrets : f \in Fields /\ f \notin Cleared(src, a)
  BY ClearedIsNamed DEF Fields, ConfigFields, SecretFields, RequiredSecrets, OptionalSecrets
<1>2. \A f \in ConfigFields \cup RequiredSecrets : Values(src, a)[f] = Value(src, a, f)
  BY <1>1 DEF Values
<1>3. {"mode", "acmeEmail", "acmeStaging", "transcoding"} \subseteq ConfigFields
  BY DEF ConfigFields
<1>. QED BY <1>2, <1>3

LEMMA BuiltConfig ==
  ASSUME NEW src, src.config = NoConfig \/ IsConfig(src.config), NEW a, NEW storage
  PROVE  BuildConfig(src.config, Values(src, a), DomainOf(src, a), storage)
           = ConfigOf(src, a, storage)
<1>. DEFINE base == BaseOf(src)
            values == Values(src, a)
            config == BuildConfig(src.config, values, DomainOf(src, a), storage)
<1>1. base = [mode |-> base.mode, domain |-> base.domain, acmeEmail |-> base.acmeEmail,
              acmeStaging |-> base.acmeStaging, transcoding |-> base.transcoding,
              storage |-> base.storage, rest |-> base.rest, version |-> base.version]
  BY DEF IsConfig, DefaultConfig, BaseOf
<1>2. config = [base EXCEPT
                  !.mode = Or(values.mode, "local"),
                  !.domain = IF values.mode = "remote" THEN DomainOf(src, a) ELSE Localhost,
                  !.acmeEmail = values.acmeEmail, !.acmeStaging = values.acmeStaging,
                  !.transcoding = Or(values.transcoding, "off"), !.storage = storage]
  BY DEF BuildConfig, BaseOf
<1>. HIDE DEF base, config, values
<1>3. config = [mode |-> Or(values.mode, "local"),
                domain |-> IF values.mode = "remote" THEN DomainOf(src, a) ELSE Localhost,
                acmeEmail |-> values.acmeEmail, acmeStaging |-> values.acmeStaging,
                transcoding |-> Or(values.transcoding, "off"), storage |-> storage,
                rest |-> base.rest, version |-> base.version]
  BY <1>1, <1>2
<1>. QED BY <1>3, ValueOf DEF ConfigOf, base, config, values

LEMMA Resolutions ==
  ASSUME NEW src, src.config = NoConfig \/ IsConfig(src.config), NEW a, NEW storage
  PROVE  Resolve(src, a, storage)
           = [issues |-> IssuesOf(src, a, storage), config |-> ConfigOf(src, a, storage),
              secrets |-> [f \in SecretFields |-> Values(src, a)[f]],
              cleared |-> Cleared(src, a),
              draft |-> [Values(src, a) EXCEPT !.domain = DomainOf(src, a)]]
<1>. DEFINE asked == <<a, src.flags, src.envFile>>
            explicit == Merge(asked)
            merged == Merge(asked \o <<Before(src)>>)
            cleared == {f \in OptionalSecrets : Clears(asked, f)}
            values == [f \in Fields |-> IF f \in cleared THEN Undefined ELSE merged[f]]
            candidate == Candidate(explicit, Before(src))
            config == BuildConfig(src.config, values, candidate, storage)
            first == InputIssues(explicit, values, candidate)
            issues == IF first # {} THEN first ELSE ConfigIssues(config)
<1>1. Resolve(src, a, storage)
        = [issues |-> issues, config |-> config,
           secrets |-> [f \in SecretFields |-> values[f]], cleared |-> cleared,
           draft |-> [values EXCEPT !.domain = candidate]]
  BY DEF Resolve, Before
<1>2. \A f \in Fields : explicit[f] = Said(src, a, f) /\ merged[f] = Value(src, a, f)
  BY Layers DEF Said, Value
<1>3. explicit = [f \in Fields |-> Said(src, a, f)]
  BY <1>2 DEF Merge
<1>4. cleared = Cleared(src, a)
  BY DEF Cleared
<1>. HIDE DEF cleared, explicit, merged
<1>5. values = Values(src, a)
  BY <1>2, <1>4 DEF Values
<1>6. candidate = DomainOf(src, a)
  <2>1. "domain" \in Fields
    BY DEF Fields, ConfigFields
  <2>. QED BY <1>2, <2>1 DEF Candidate, DomainOf
<1>. HIDE DEF candidate, values
<1>7. config = ConfigOf(src, a, storage)
  BY <1>5, <1>6, BuiltConfig
<1>. HIDE DEF config
<1>8. issues = IssuesOf(src, a, storage)
  BY <1>3, <1>5, <1>6, <1>7 DEF IssuesOf
<1>. HIDE DEF issues
<1>. QED BY <1>1, <1>4, <1>5, <1>6, <1>7, <1>8

\* A resolution without issues; one that misses nothing.
LEMMA Issues ==
  ASSUME NEW src, NEW a, NEW storage
  PROVE  /\ (IssuesOf(src, a, storage) = {}) <=>
              Complete(src, a) /\ Correct(src, a) /\ ConfigIssues(ConfigOf(src, a, storage)) = {}
         /\ Complete(src, a) => \A i \in IssuesOf(src, a, storage) : i[2] # "missing"
<1>. DEFINE explicit == [f \in Fields |-> Said(src, a, f)]
            values == Values(src, a)
            first == InputIssues(explicit, values, DomainOf(src, a))
<1>1. explicit.domain = Said(src, a, "domain")
  BY DEF Fields, ConfigFields
<1>2. first = {} <=>
        /\ values["mode"] \in DeployModes \cup {Undefined}
        /\ values["transcoding"] \in TranscodingModes \cup {Undefined}
        /\ \A f \in RequiredSecrets : values[f] # Undefined
        /\ values.mode # "remote" => explicit.domain \in {Undefined, Localhost}
        /\ values.mode = "remote" => DomainOf(src, a) # Undefined
  BY DEF InputIssues
<1>3. first = {} <=> Complete(src, a) /\ Correct(src, a)
  BY <1>1, <1>2, ValueOf DEF Complete, Correct
<1>4. \A i \in first : i[2] = "missing" =>
        \/ \E f \in RequiredSecrets : values[f] = Undefined
        \/ values.mode = "remote" /\ DomainOf(src, a) = Undefined
  BY DEF InputIssues
<1>5. \A i \in ConfigIssues(ConfigOf(src, a, storage)) : i[2] # "missing"
  BY DEF ConfigIssues
<1>6. Complete(src, a) => \A i \in first : i[2] # "missing"
  BY <1>4, ValueOf DEF Complete
<1>. HIDE DEF first
<1>. QED BY <1>3, <1>5, <1>6 DEF IssuesOf, first

\* The fields, by name.
LEMMA FieldNames ==
  /\ ConfigFields \subseteq Fields /\ SecretFields \subseteq Fields
  /\ RequiredSecrets \cap OptionalSecrets = {} /\ ConfigFields \cap SecretFields = {}
  /\ OptionalSecrets \subseteq SecretFields /\ RequiredSecrets \subseteq SecretFields
  /\ \A f \in ConfigFields : f \in {"mode", "domain", "acmeEmail", "acmeStaging", "transcoding"}
  /\ "domain" \in ConfigFields /\ "mode" \in ConfigFields /\ "transcoding" \in ConfigFields
  /\ "acmeEmail" \in ConfigFields /\ "acmeStaging" \in ConfigFields
BY DEF Fields, ConfigFields, SecretFields, RequiredSecrets, OptionalSecrets

\* Nothing merges to a blank.
LEMMA NeverBlank == \A src, a, f : Value(src, a, f) # Blank
BY DEF Value, Whole, First, Blank, Undefined

LEMMA ChosenBySetup ==
  ASSUME NEW t, IsTask(t), Chosen(t), t.job.kind = "setup"
  PROVE  \E src, a, storage :
           /\ src = SourcesOf(t) /\ a = t.answers
           /\ t.config = ConfigOf(src, a, storage)
           /\ t.secrets = [f \in SecretFields |-> Values(src, a)[f]]
           /\ t.cleared = Cleared(src, a)
           /\ Complete(src, a) /\ Correct(src, a) /\ ConfigIssues(t.config) = {}
<1>. PICK src : src = SourcesOf(t)
  OBVIOUS
<1>. PICK a : a = t.answers
  OBVIOUS
<1>1. PICK storage : LET r == Resolve(src, a, storage)
                     IN /\ r.issues = {} /\ t.config = r.config
                        /\ t.secrets = r.secrets /\ t.cleared = r.cleared
  BY DEF Chosen, Input
<1>2. src.config = NoConfig \/ IsConfig(src.config)
  BY DEF SourcesOf, IsTask
<1>3. /\ IssuesOf(src, a, storage) = {} /\ t.config = ConfigOf(src, a, storage)
      /\ t.secrets = [f \in SecretFields |-> Values(src, a)[f]] /\ t.cleared = Cleared(src, a)
  BY <1>1, <1>2, Resolutions
<1>4. Complete(src, a) /\ Correct(src, a) /\ ConfigIssues(t.config) = {}
  BY <1>3, Issues
<1>. QED BY <1>3, <1>4

\* Whatever a command applies is a configuration parseConfig takes.
LEMMA ChosenIsSound ==
  ASSUME NEW t, IsTask(t), IsJob(t.job), Chosen(t)
  PROVE  /\ IsConfig(t.config) /\ IsSecrets(t.secrets) /\ t.cleared \subseteq OptionalSecrets
         /\ t.job.kind = "setup" => \A f \in RequiredSecrets : t.secrets[f] # Undefined
<1>1. CASE t.job.kind # "setup"
  <2>1. IsConfig(t.source) /\ t.secrets = t.saved /\ t.cleared = {}
    BY <1>1 DEF Chosen, Kept, IsTask
  <2>2. CASE t.config = t.source
    BY <1>1, <2>1, <2>2 DEF IsTask
  <2>3. CASE t.config = [t.source EXCEPT !.transcoding = t.job.value]
    <3>1. t.job.value \in TranscodingModes
      BY DEF IsJob
    <3>2. IsConfig(t.config)
      BY <2>1, <2>3, <3>1 DEF IsConfig
    <3>. QED BY <1>1, <2>1, <3>2 DEF IsTask
  <2>. QED BY <1>1, <2>2, <2>3 DEF Chosen
<1>2. CASE t.job.kind = "setup"
  <2>1. PICK src, a, storage :
           /\ t.config = ConfigOf(src, a, storage)
           /\ t.secrets = [f \in SecretFields |-> Values(src, a)[f]]
           /\ t.cleared = Cleared(src, a)
           /\ Complete(src, a) /\ Correct(src, a) /\ ConfigIssues(t.config) = {}
    BY <1>2, ChosenBySetup
  <2>2. IsConfig(t.config)
    <3>1. /\ t.config.mode = Or(Value(src, a, "mode"), "local")
          /\ t.config.domain = IF Value(src, a, "mode") = "remote" THEN DomainOf(src, a)
                               ELSE Localhost
          /\ t.config.acmeStaging = Value(src, a, "acmeStaging")
          /\ t.config.transcoding = Or(Value(src, a, "transcoding"), "off")
      BY <2>1 DEF ConfigOf
    <3>2. /\ t.config.mode \in DeployModes /\ t.config.transcoding \in TranscodingModes
          /\ t.config.mode = "local" => t.config.domain = Localhost
      BY <2>1, <3>1 DEF Correct, Or, DeployModes, TranscodingModes, Undefined
    <3>3. /\ t.config.mode = "remote" => t.config.domain \in Domains
          /\ t.config.acmeEmail \in Emails \cup {Undefined}
      BY <2>1 DEF ConfigIssues
    <3>4. t.config.acmeStaging # Blank
      BY <3>1, NeverBlank
    <3>5. t.config = [mode |-> t.config.mode, domain |-> t.config.domain,
                      acmeEmail |-> t.config.acmeEmail, acmeStaging |-> t.config.acmeStaging,
                      transcoding |-> t.config.transcoding, storage |-> t.config.storage,
                      rest |-> t.config.rest, version |-> t.config.version]
      BY <2>1 DEF ConfigOf
    <3>. QED BY <3>2, <3>3, <3>4, <3>5 DEF IsConfig
  <2>3. \A f \in RequiredSecrets : t.secrets[f] # Undefined
    BY <2>1, ValueOf, FieldNames DEF Complete
  <2>4. IsSecrets(t.secrets)
    <3>1. ASSUME NEW f \in SecretFields PROVE t.secrets[f] # Blank
      <4>1. t.secrets[f] = Undefined \/ t.secrets[f] = Value(src, a, f)
        BY <2>1, FieldNames DEF Values
      <4>. QED BY <4>1, NeverBlank DEF Blank, Undefined
    <3>. QED BY <2>1, <3>1 DEF IsSecrets
  <2>. QED BY <2>1, <2>2, <2>3, <2>4, ClearedIsNamed
<1>. QED BY <1>1, <1>2

\* The fields some layer names.
Named(t) ==
  {f \in Fields : \E layer \in {t.answers, t.job.flags, t.job.envFile} : layer[f] # Undefined}

\* A setup leaves what no layer names as an earlier one left it.
LEMMA SetupKeepsConfig ==
  ASSUME NEW t, IsTask(t), Chosen(t), t.job.kind = "setup", t.source # NoConfig
  PROVE  /\ t.config.rest = t.source.rest
         /\ \A f \in ConfigFields \ Named(t) :
              t.config[f] = t.source[f] \/ (f = "domain" /\ "mode" \in Named(t))
<1>1. PICK src, a, storage : /\ src = SourcesOf(t) /\ a = t.answers
                             /\ t.config = ConfigOf(src, a, storage) /\ Complete(src, a)
  BY ChosenBySetup
<1>2. /\ src.config = t.source /\ src.secrets = t.saved
      /\ src.flags = t.job.flags /\ src.envFile = t.job.envFile
  BY <1>1 DEF SourcesOf
<1>3. IsConfig(t.source) /\ BaseOf(src) = t.source
  BY <1>2 DEF IsTask, BaseOf
<1>4. \A f \in ConfigFields : Before(src)[f] = t.source[f]
  BY <1>2, FieldNames DEF Before, Previous
<1>5. \A f \in ConfigFields \ Named(t) :
        Value(src, a, f) = First(t.source[f], Undefined) /\ Said(src, a, f) = Undefined
  <2>. SUFFICES ASSUME NEW f \in ConfigFields \ Named(t)
                PROVE  /\ Value(src, a, f) = First(t.source[f], Undefined)
                       /\ Said(src, a, f) = Undefined
    OBVIOUS
  <2>1. a[f] = Undefined /\ src.flags[f] = Undefined /\ src.envFile[f] = Undefined
    BY <1>1, <1>2, FieldNames DEF Named
  <2>. QED BY <1>4, <2>1 DEF Value, Whole, Said, Told, First
<1>6. /\ t.config.mode = Or(Value(src, a, "mode"), "local")
      /\ t.config.domain = IF Value(src, a, "mode") = "remote" THEN DomainOf(src, a)
                           ELSE Localhost
      /\ t.config.acmeEmail = Value(src, a, "acmeEmail")
      /\ t.config.acmeStaging = Value(src, a, "acmeStaging")
      /\ t.config.transcoding = Or(Value(src, a, "transcoding"), "off")
      /\ t.config.rest = t.source.rest
  BY <1>1, <1>3 DEF ConfigOf
<1>7. "mode" \notin Named(t) =>
        t.config.mode = t.source.mode /\ Value(src, a, "mode") = t.source.mode
  BY <1>3, <1>5, <1>6, FieldNames DEF Or, First, IsConfig, DeployModes, Undefined, Blank
<1>8. "acmeEmail" \notin Named(t) => t.config.acmeEmail = t.source.acmeEmail
  BY <1>3, <1>5, <1>6, FieldNames, SetupInputAssumption DEF First, IsConfig
<1>9. "acmeStaging" \notin Named(t) => t.config.acmeStaging = t.source.acmeStaging
  BY <1>3, <1>5, <1>6, FieldNames DEF First, IsConfig
<1>10. "transcoding" \notin Named(t) => t.config.transcoding = t.source.transcoding
  BY <1>3, <1>5, <1>6, FieldNames
     DEF Or, First, IsConfig, TranscodingModes, Undefined, Blank
<1>11. ASSUME "mode" \notin Named(t), "domain" \notin Named(t)
       PROVE  t.config.domain = t.source.domain
  <2>1. DomainOf(src, a) = IF t.source.domain = Localhost THEN Undefined ELSE t.source.domain
    BY <1>4, <1>5, <1>11, FieldNames DEF DomainOf
  <2>2. Value(src, a, "mode") = "remote" => DomainOf(src, a) # Undefined
    BY <1>1 DEF Complete
  <2>. QED BY <1>3, <1>6, <1>7, <1>11, <2>1, <2>2 DEF IsConfig, DeployModes
<1>. QED BY <1>6, <1>7, <1>8, <1>9, <1>10, <1>11, FieldNames

\* Merging the secrets into the file they came from.
LEMMA SetupKeepsSecrets ==
  ASSUME NEW t, IsTask(t), Chosen(t), t.job.kind = "setup"
  PROVE  /\ \A f \in SecretFields \ Named(t) : t.secrets[f] = t.saved[f] /\ f \notin t.cleared
         /\ \A f \in t.cleared : t.secrets[f] = Undefined
         /\ \A f \in SecretFields \ t.cleared : Or(t.secrets[f], t.saved[f]) = t.secrets[f]
<1>1. PICK src, a, storage : /\ src = SourcesOf(t) /\ a = t.answers
                             /\ t.secrets = [f \in SecretFields |-> Values(src, a)[f]]
                             /\ t.cleared = Cleared(src, a)
  BY ChosenBySetup
<1>2. /\ src.config = t.source /\ src.secrets = t.saved
      /\ src.flags = t.job.flags /\ src.envFile = t.job.envFile
  BY <1>1 DEF SourcesOf
<1>3. \A f \in SecretFields : Before(src)[f] = t.saved[f] /\ t.saved[f] # Blank
  BY <1>2, FieldNames DEF Before, Previous, IsTask, IsSecrets
<1>4. /\ t.cleared \subseteq SecretFields
      /\ \A f \in SecretFields :
           t.secrets[f] = IF f \in t.cleared THEN Undefined ELSE Value(src, a, f)
  BY <1>1, ClearedIsNamed, FieldNames DEF Values
<1>5. ASSUME NEW f \in SecretFields \ Named(t)
      PROVE  t.secrets[f] = t.saved[f] /\ f \notin t.cleared
  <2>1. a[f] = Undefined /\ src.flags[f] = Undefined /\ src.envFile[f] = Undefined
    BY <1>1, <1>2, FieldNames DEF Named
  <2>2. f \notin t.cleared
    BY <1>1, <2>1, ClearedIsNamed
  <2>. QED BY <1>3, <1>4, <2>1, <2>2 DEF Value, Whole, First
<1>6. ASSUME NEW f \in SecretFields \ t.cleared, t.secrets[f] = Undefined
      PROVE  t.saved[f] = Undefined
  BY <1>3, <1>4, <1>6 DEF Value, Whole, First
<1>7. \A f \in SecretFields \ t.cleared : Or(t.secrets[f], t.saved[f]) = t.secrets[f]
  BY <1>6 DEF Or
<1>. QED BY <1>4, <1>5, <1>7

\* The next setup without options applies the same again.
LEMMA SetupIsSettled ==
  ASSUME NEW config, IsConfig(config), NEW secrets, IsSecrets(secrets),
         \A f \in RequiredSecrets : secrets[f] # Undefined
  PROVE  LET again == Resolve([config |-> config, secrets |-> secrets,
                               flags |-> NoValues, envFile |-> NoValues],
                              NoValues, config.storage)
         IN again.issues = {} /\ again.config = config /\ again.secrets = secrets
<1>. PICK src : src = [config |-> config, secrets |-> secrets,
                       flags |-> NoValues, envFile |-> NoValues]
  OBVIOUS
<1>. PICK a : a = NoValues
  OBVIOUS
<1>1. /\ src.config = config /\ src.secrets = secrets
      /\ src.flags = NoValues /\ src.envFile = NoValues
  OBVIOUS
<1>2. \A f \in Fields : /\ a[f] = Undefined /\ src.flags[f] = Undefined
                        /\ src.envFile[f] = Undefined
  BY <1>1 DEF NoValues
<1>3. config # NoConfig
  BY DEF IsConfig, NoConfig, DefaultConfig, DeployModes
<1>4. \A f \in ConfigFields : Before(src)[f] = config[f]
  BY <1>1, <1>3, FieldNames DEF Before, Previous
<1>5. \A f \in SecretFields : Before(src)[f] = secrets[f]
  BY <1>1, FieldNames DEF Before, Previous
<1>6. \A f \in Fields : /\ Value(src, a, f) = First(Before(src)[f], Undefined)
                        /\ Said(src, a, f) = Undefined
  BY <1>2 DEF Value, Whole, Said, Told, First
<1>7. Cleared(src, a) = {}
  BY <1>2, ClearedIsNamed, FieldNames
<1>8. [f \in SecretFields |-> Values(src, a)[f]] = secrets
  <2>1. ASSUME NEW f \in SecretFields PROVE Values(src, a)[f] = secrets[f]
    <3>1. Values(src, a)[f] = First(secrets[f], Undefined)
      BY <1>5, <1>6, <1>7, FieldNames DEF Values
    <3>. QED BY <3>1 DEF First, IsSecrets
  <2>. QED BY <2>1 DEF IsSecrets
<1>9. /\ Value(src, a, "mode") = config.mode
      /\ Value(src, a, "acmeEmail") = config.acmeEmail
      /\ Value(src, a, "acmeStaging") = config.acmeStaging
      /\ Value(src, a, "transcoding") = config.transcoding
  <2>1. /\ Value(src, a, "mode") = First(config.mode, Undefined)
        /\ Value(src, a, "acmeEmail") = First(config.acmeEmail, Undefined)
        /\ Value(src, a, "acmeStaging") = First(config.acmeStaging, Undefined)
        /\ Value(src, a, "transcoding") = First(config.transcoding, Undefined)
    BY <1>4, <1>6, FieldNames
  <2>2. First(config.mode, Undefined) = config.mode
    BY DEF First, IsConfig, DeployModes, Undefined, Blank
  <2>3. First(config.acmeEmail, Undefined) = config.acmeEmail
    BY SetupInputAssumption DEF First, IsConfig
  <2>4. First(config.acmeStaging, Undefined) = config.acmeStaging
    BY DEF First, IsConfig
  <2>5. First(config.transcoding, Undefined) = config.transcoding
    BY DEF First, IsConfig, TranscodingModes, Undefined, Blank
  <2>. QED BY <2>1, <2>2, <2>3, <2>4, <2>5
<1>10. DomainOf(src, a) = IF config.domain = Localhost THEN Undefined ELSE config.domain
  BY <1>4, <1>6, FieldNames DEF DomainOf
<1>11. config.mode = "remote" => DomainOf(src, a) = config.domain /\ config.domain # Undefined
  BY <1>10, SetupInputAssumption DEF IsConfig
<1>12. ConfigOf(src, a, config.storage) = config
  <2>1. BaseOf(src) = config
    BY <1>1, <1>3 DEF BaseOf
  <2>2. Or(config.mode, "local") = config.mode
    BY DEF Or, IsConfig, DeployModes, Undefined
  <2>3. Or(config.transcoding, "off") = config.transcoding
    BY DEF Or, IsConfig, TranscodingModes, Undefined
  <2>4. (IF config.mode = "remote" THEN DomainOf(src, a) ELSE Localhost) = config.domain
    BY <1>11 DEF IsConfig, DeployModes
  <2>5. ConfigOf(src, a, config.storage)
          = [mode |-> config.mode, domain |-> config.domain, acmeEmail |-> config.acmeEmail,
             acmeStaging |-> config.acmeStaging, transcoding |-> config.transcoding,
             storage |-> config.storage, rest |-> config.rest, version |-> config.version]
    BY <1>9, <2>1, <2>2, <2>3, <2>4 DEF ConfigOf
  <2>. QED BY <2>5 DEF IsConfig
<1>13. Complete(src, a)
  <2>1. ASSUME NEW f \in RequiredSecrets PROVE Value(src, a, f) # Undefined
    <3>1. Value(src, a, f) = First(secrets[f], Undefined)
      BY <1>5, <1>6, FieldNames
    <3>. QED BY <3>1, FieldNames DEF First, IsSecrets
  <2>. QED BY <1>9, <1>11, <2>1 DEF Complete
<1>14. Correct(src, a)
  BY <1>6, <1>9, FieldNames DEF Correct, IsConfig
<1>15. ConfigIssues(config) = {}
  BY DEF ConfigIssues, IsConfig
<1>16. IssuesOf(src, a, config.storage) = {}
  BY <1>12, <1>13, <1>14, <1>15, Issues
<1>17. src.config = NoConfig \/ IsConfig(src.config)
  BY <1>1
<1>18. Resolve(src, a, config.storage)
         = [issues |-> IssuesOf(src, a, config.storage),
            config |-> ConfigOf(src, a, config.storage),
            secrets |-> [f \in SecretFields |-> Values(src, a)[f]],
            cleared |-> Cleared(src, a),
            draft |-> [Values(src, a) EXCEPT !.domain = DomainOf(src, a)]]
  BY <1>17, Resolutions
<1>. QED BY <1>8, <1>12, <1>16, <1>18

\* Once no question is open the input misses nothing.
LEMMA WizardCompletes ==
  ASSUME NEW t, IsTask(t), Asked(t), NEW storage, NEW draft, t.draft = draft,
         draft = Resolve(SourcesOf(t), NoValues, storage).draft,
         Open(Known(t.draft, t.answers), t.answered) = {}, NEW now
  PROVE  \A i \in Input(t, now).issues : i[2] # "missing"
<1>. PICK src : src = SourcesOf(t)
  OBVIOUS
<1>. PICK a : a = t.answers
  OBVIOUS
<1>. PICK none : none = NoValues
  OBVIOUS
<1>1. src.config = NoConfig \/ IsConfig(src.config)
  BY DEF SourcesOf, IsTask
<1>2. Resolve(src, none, storage)
        = [issues |-> IssuesOf(src, none, storage),
           config |-> ConfigOf(src, none, storage),
           secrets |-> [f \in SecretFields |-> Values(src, none)[f]],
           cleared |-> Cleared(src, none),
           draft |-> [Values(src, none) EXCEPT !.domain = DomainOf(src, none)]]
  BY <1>1, Resolutions
<1>3. draft = [Values(src, none) EXCEPT !.domain = DomainOf(src, none)]
  BY <1>2
<1>4. /\ draft["domain"] = DomainOf(src, none)
      /\ \A f \in RequiredSecrets \cup {"mode"} : draft[f] = Value(src, none, f)
  <2>1. DOMAIN Values(src, none) = Fields
    BY DEF Values
  <2>2. "domain" \notin RequiredSecrets \cup {"mode"}
    BY DEF RequiredSecrets
  <2>3. \A f \in RequiredSecrets \cup {"mode"} :
          f \in Fields /\ Values(src, none)[f] = Value(src, none, f)
    BY ValueOf, FieldNames
  <2>. QED BY <1>3, <2>1, <2>2, <2>3, FieldNames
<1>. DEFINE known == Known(draft, a)
<1>5. \A f \in Fields : known[f] = Or(a[f], draft[f])
  BY DEF Known
<1>6. \A f \in {"mode", "domain"} \cup RequiredSecrets :
        f \in Fields /\ (\E i \in DOMAIN Questions : Questions[i] = f)
  <2>1. /\ DOMAIN Questions = 1..9 /\ Questions[1] = "mode" /\ Questions[2] = "domain"
        /\ Questions[4] = "rdApiToken" /\ Questions[5] = "adminUsername"
        /\ Questions[6] = "adminPassword"
    BY DEF Questions
  <2>. QED BY <2>1, FieldNames DEF RequiredSecrets
<1>7. ASSUME NEW f \in {"mode", "domain"} \cup RequiredSecrets, Applies(f, known)
      PROVE  a[f] # Undefined
  <2>1. f \in t.answered
    BY <1>6, <1>7 DEF Open
  <2>2. f \notin {"acmeEmail", "opensubtitlesUsername"}
    BY DEF RequiredSecrets
  <2>. QED BY <2>1, <2>2 DEF Asked
<1>8. \A f \in Fields : a[f] # Blank
  BY DEF IsTask
<1>9. ASSUME NEW f \in Fields
      PROVE  /\ Value(src, a, f) = Or(a[f], Value(src, none, f))
             /\ Said(src, a, f) = Or(a[f], Said(src, none, f))
  BY <1>8 DEF Value, Whole, Said, Told, First, NoValues, Or
<1>10. \A f \in RequiredSecrets \cup {"mode"} : Value(src, a, f) = known[f]
  <2>. HIDE DEF known
  <2>. QED BY <1>4, <1>5, <1>6, <1>9
<1>11. ASSUME NEW f \in RequiredSecrets PROVE Value(src, a, f) # Undefined
  <2>1. ASSUME known[f] = Undefined PROVE FALSE
    <3>1. Applies(f, known)
      BY <2>1 DEF Applies, RequiredSecrets
    <3>2. known[f] = Or(a[f], draft[f]) /\ a[f] # Undefined
      BY <1>5, <1>6, <1>7, <3>1
    <3>. QED BY <2>1, <3>2 DEF Or
  <2>. QED BY <1>10, <2>1
<1>12. ASSUME Value(src, a, "mode") = "remote" PROVE DomainOf(src, a) # Undefined
  <2>1. known["mode"] = "remote"
    BY <1>10, <1>12
  <2>2. known["domain"] # Undefined
    <3>1. ASSUME known["domain"] = Undefined PROVE FALSE
      <4>1. Applies("domain", known)
        BY <2>1, <3>1 DEF Applies
      <4>2. known["domain"] = Or(a["domain"], draft["domain"]) /\ a["domain"] # Undefined
        BY <1>5, <1>6, <1>7, <4>1
      <4>. QED BY <3>1, <4>2 DEF Or
    <3>. QED BY <3>1
  <2>3. known["domain"] = Or(a["domain"], DomainOf(src, none))
    BY <1>4, <1>5, <1>6
  <2>4. Said(src, a, "domain") = Or(a["domain"], Said(src, none, "domain"))
    BY <1>6, <1>9
  <2>. HIDE DEF known
  <2>. QED BY <2>2, <2>3, <2>4 DEF Or, DomainOf
<1>13. Complete(src, a)
  BY <1>11, <1>12 DEF Complete
<1>14. Input(t, now).issues = IssuesOf(src, a, now)
  <2>1. Input(t, now) = Resolve(src, a, now)
    BY DEF Input
  <2>. QED BY <1>1, <2>1, Resolutions
<1>. QED BY <1>13, <1>14, Issues

-----------------------------------------------------------------------------
(* What a command holds                                                     *)

LEMMA NothingHeld ==
  /\ \A j \in Jobs : IsJob(j)
  /\ \A j : IsTask([NoTask EXCEPT !.job = j]) /\ (IsJob(j) => Untold([NoTask EXCEPT !.job = j]))
  /\ \A j : [NoTask EXCEPT !.job = j].job = j /\ [NoTask EXCEPT !.job = j].result = "none"
  /\ IsTask(NoTask) /\ IsFile(NoEnv) /\ NoTask.issues = {} /\ NoTask.result = "none"
<1>1. \A j \in Jobs : IsJob(j)
  BY DEF Jobs
<1>2. IsSecrets(NoSecrets) /\ IsValues(NoValues) /\ \A f \in Fields : NoValues[f] # Blank
  BY DEF IsSecrets, NoSecrets, IsValues, NoValues, Undefined, Blank
<1>3. IsFile(NoEnv)
  BY <1>2 DEF IsFile, NoEnv, IsEnv
<1>4. IsTask(NoTask) /\ NoTask.issues = {} /\ NoTask.result = "none"
  BY <1>2 DEF IsTask, NoTask
<1>5. ASSUME NEW j
      PROVE  /\ [NoTask EXCEPT !.job = j].job = j /\ [NoTask EXCEPT !.job = j].result = "none"
             /\ IsTask([NoTask EXCEPT !.job = j])
             /\ IsJob(j) => Untold([NoTask EXCEPT !.job = j])
  BY <1>2 DEF IsTask, NoTask, Untold
<1>. QED BY <1>1, <1>3, <1>4, <1>5

\* A command that ends holds what it held.
LEMMA Ended ==
  ASSUME NEW t, IsTask(t), NEW label, label # "idle", Phase(t, label), NEW result
  PROVE  /\ IsTask([t EXCEPT !.result = result])
         /\ Phase([t EXCEPT !.result = result], "done")
<1>. PICK u : u = [t EXCEPT !.result = result]
  OBVIOUS
<1>1. /\ u.job = t.job /\ u.issues = t.issues /\ u.source = t.source /\ u.saved = t.saved
      /\ u.answers = t.answers /\ IsTask(u)
  BY DEF IsTask
<1>2. Phase(u, "done")
  BY <1>1 DEF Phase, Ready, Writing, Last
<1>. QED BY <1>1, <1>2

\* What a setup resolved to without issues, before the wizard or after it.
LEMMA ResolvedIsChosen ==
  ASSUME NEW t, NEW storage, NEW r, r = Input(t, storage), r.issues = {}, NEW u,
         t.job.kind = "setup", storage \in t.job.fuse,
         u.job = t.job, u.source = t.source, u.saved = t.saved, u.answers = t.answers,
         u.config = r.config, u.secrets = r.secrets, u.cleared = r.cleared
  PROVE  Chosen(u)
<1>1. Input(u, storage) = r
  BY DEF Input, SourcesOf
<1>. QED BY <1>1 DEF Chosen

\* reset, config and redeploy apply what they have loaded.
LEMMA Loaded ==
  ASSUME Typed, Phases, NEW p \in Procs, LoadEnv(p), NEW t, t = task[p],
         t.job.kind # "setup",
         ~(~env.home \/ \E f \in RequiredSecrets : env.secrets[f] = Undefined)
  PROVE  \E label \in {"purge", "persist", "confirm"} : \E u :
           /\ GoOn(p, label, u) /\ IsTask(u) /\ Phase(u, label)
           /\ u.job = t.job /\ u.source = t.source /\ u.saved = env.secrets
<1>0. /\ IsTask(t) /\ t.job = Job(p) /\ t.result = "none"
      /\ Untold(t) /\ t.job.kind # "check" /\ t.source # NoConfig
  BY DEF Typed, Phases, Phase, Job, LoadEnv
<1>. DEFINE loaded == [t EXCEPT !.saved = env.secrets, !.secrets = env.secrets,
                                !.config = t.source]
            label == CASE t.job.kind = "reset" -> "purge"
                       [] t.job.kind = "redeploy" -> "persist"
                       [] OTHER -> IF Disruptive(t.source, t.job.value)
                                   THEN "confirm" ELSE "persist"
<1>1. PICK u : u = IF t.job.kind = "config"
                   THEN [loaded EXCEPT !.config.transcoding = t.job.value] ELSE loaded
  OBVIOUS
<1>2. GoOn(p, label, u)
  BY <1>0, <1>1 DEF LoadEnv
<1>3. t.job.kind \in {"config", "reset", "redeploy"}
  BY <1>0 DEF Untold, IsJob, Kinds
<1>4. /\ u.job = t.job /\ u.source = t.source /\ u.saved = env.secrets
      /\ u.secrets = env.secrets /\ u.answers = t.answers /\ u.issues = t.issues
      /\ u.cleared = t.cleared /\ u.result = t.result /\ IsTask(u)
      /\ u.config = IF t.job.kind = "config"
                    THEN [t.source EXCEPT !.transcoding = t.job.value] ELSE t.source
  <2>1. /\ loaded.job = t.job /\ loaded.source = t.source /\ loaded.saved = env.secrets
        /\ loaded.secrets = env.secrets /\ loaded.answers = t.answers
        /\ loaded.issues = t.issues /\ loaded.cleared = t.cleared
        /\ loaded.config = t.source /\ loaded.result = t.result /\ IsTask(loaded)
    <3>1. PICK l : l = loaded
      OBVIOUS
    <3>2. /\ l.job = t.job /\ l.source = t.source /\ l.saved = env.secrets
          /\ l.secrets = env.secrets /\ l.answers = t.answers
          /\ l.issues = t.issues /\ l.cleared = t.cleared /\ l.config = t.source /\ l.result = t.result
          /\ l = [job |-> l.job, source |-> l.source, saved |-> l.saved, draft |-> l.draft,
                  answers |-> l.answers, answered |-> l.answered, issues |-> l.issues,
                  config |-> l.config, secrets |-> l.secrets, cleared |-> l.cleared,
                  result |-> l.result]
      BY <1>0, <3>1 DEF IsTask
    <3>3. IsSecrets(env.secrets)
      BY DEF Typed, IsFile
    <3>4. IsTask(l)
      BY <1>0, <3>2, <3>3 DEF IsTask
    <3>. HIDE DEF loaded
    <3>. QED BY <3>1, <3>2, <3>4
  <2>2. CASE t.job.kind # "config"
    BY <1>1, <2>1, <2>2
  <2>3. CASE t.job.kind = "config"
    <3>. HIDE DEF loaded
    <3>1. u = [loaded EXCEPT !.config = [t.source EXCEPT !.transcoding = t.job.value]]
      BY <1>1, <2>1, <2>3
    <3>. QED BY <2>1, <2>3, <3>1 DEF IsTask
  <2>. QED BY <2>2, <2>3
<1>5. Chosen(u)
  BY <1>0, <1>3, <1>4 DEF Chosen, Kept, Untold
<1>6. /\ label \in {"purge", "persist", "confirm"}
      /\ label = "purge" => t.job.kind = "reset"
      /\ label = "confirm" => t.job.kind = "config"
  <2>1. CASE t.job.kind = "reset"
    BY <2>1
  <2>2. CASE t.job.kind = "redeploy"
    BY <2>2
  <2>3. CASE t.job.kind = "config"
    BY <2>3
  <2>. QED BY <1>3, <2>1, <2>2, <2>3
<1>. HIDE DEF label
<1>7. Phase(u, label)
  BY <1>0, <1>4, <1>5, <1>6 DEF Phase, Untold, Ready, Writing, Last
<1>. QED BY <1>2, <1>4, <1>6, <1>7 DEF Labels

\* Every step takes a command to a phase with what it has to hold there.
LEMMA Moves ==
  ASSUME Typed, Phases, NEW p \in Procs, CliStep(p) \/ Stop(p)
  PROVE  \E label \in Labels \ {"idle"} : \E t : GoOn(p, label, t) /\ IsTask(t) /\ Phase(t, label)
<1>. PICK t : t = task[p]
  OBVIOUS
<1>0. /\ IsTask(t) /\ Phase(t, pc[p]) /\ pc[p] \in Labels /\ t.job = Job(p)
      /\ pc[p] # "done" => t.result = "none"
      /\ task = [q \in Procs |-> task[q]] /\ pc \in [Procs -> Labels]
  BY DEF Typed, Phases, Phase, Job
<1>go. ASSUME NEW label \in Labels \ {"idle"}, Go(p, label), Phase(t, label)
       PROVE  \E l \in Labels \ {"idle"} : \E u : GoOn(p, l, u) /\ IsTask(u) /\ Phase(u, l)
  BY <1>go, <1>0 DEF Go
<1>end. ASSUME NEW result, End(p, result), pc[p] # "idle"
        PROVE  \E l \in Labels \ {"idle"} : \E u : GoOn(p, l, u) /\ IsTask(u) /\ Phase(u, l)
  <2>1. GoOn(p, "done", [t EXCEPT !.result = result])
    BY <1>end DEF End
  <2>2. "done" \in Labels \ {"idle"}
    BY DEF Labels
  <2>. QED BY <1>0, <1>end, <2>1, <2>2, Ended
<1>1. CASE Stop(p)
  BY <1>1, <1>end DEF Stop, Busy
<1>2. CASE Begin(p)
  <2>1. PICK job : job = Head(jobs[p])
    OBVIOUS
  <2>2. PICK u : u = [NoTask EXCEPT !.job = job]
    OBVIOUS
  <2>3. job \in Jobs
    BY <1>2, <2>1 DEF Begin, Typed
  <2>4. IsTask(u) /\ Untold(u) /\ u.job = job /\ u.issues = {} /\ u.result = "none"
    BY <2>2, <2>3, NothingHeld DEF Untold
  <2>5. GoOn(p, IF job.kind = "reset" THEN "confirm" ELSE "load", u)
    BY <1>2, <2>1, <2>2 DEF Begin, GoOn
  <2>6. /\ "confirm" \in Labels \ {"idle"} /\ "load" \in Labels \ {"idle"}
        /\ job.kind = "reset" => Phase(u, "confirm")
        /\ Phase(u, "load")
    BY <2>4 DEF Phase, Untold, Ready, Writing, Last, Labels
  <2>. QED BY <2>4, <2>5, <2>6
<1>3. CASE LoadState(p)
  <2>1. CASE state.config = NoConfig /\ Job(p).kind # "setup"
    BY <1>3, <2>1, <1>end DEF LoadState
  <2>2. CASE ~(state.config = NoConfig /\ Job(p).kind # "setup")
    <3>1. PICK u : u = [t EXCEPT !.source = state.config]
      OBVIOUS
    <3>2. GoOn(p, "loadenv", u) /\ pc[p] = "load" /\ t.job.kind # "check"
      BY <1>0, <1>3, <2>2, <3>1 DEF LoadState
    <3>3. /\ u.job = t.job /\ u.result = t.result /\ u.source = state.config /\ u.answers = t.answers
          /\ u.answered = t.answered /\ u.issues = t.issues /\ u.cleared = t.cleared /\ IsTask(u)
      BY <1>0, <3>1 DEF IsTask, Typed, IsState
    <3>4. Phase(u, "loadenv")
      BY <1>0, <2>2, <3>2, <3>3 DEF Phase, Untold, Ready, Writing, Last
    <3>5. "loadenv" \in Labels \ {"idle"}
      BY DEF Labels
    <3>. QED BY <3>2, <3>3, <3>4, <3>5
  <2>. QED BY <2>1, <2>2
<1>4. CASE LoadEnv(p)
  <2>1. pc[p] = "loadenv"
    BY <1>4 DEF LoadEnv
  <2>2. Untold(t) /\ t.job.kind # "check" /\ (t.job.kind = "setup" \/ t.source # NoConfig)
    BY <1>0, <2>1 DEF Phase
  <2>3. CASE t.job.kind = "setup"
    <3>1. PICK u : u = [t EXCEPT !.saved = env.secrets]
      OBVIOUS
    <3>2. GoOn(p, "resolve", u)
      BY <1>0, <1>4, <2>3, <3>1 DEF LoadEnv
    <3>3. /\ u.job = t.job /\ u.result = t.result /\ u.answers = t.answers /\ u.issues = t.issues
          /\ u.answered = t.answered /\ u.cleared = t.cleared /\ IsTask(u)
      BY <1>0, <3>1 DEF IsTask, Typed, IsFile
    <3>4. Phase(u, "resolve")
      BY <1>0, <2>1, <2>2, <2>3, <3>3 DEF Phase, Untold, Ready, Writing, Last
    <3>. QED BY <3>2, <3>3, <3>4 DEF Labels
  <2>4. CASE /\ t.job.kind # "setup"
             /\ ~env.home \/ \E f \in RequiredSecrets : env.secrets[f] = Undefined
    <3>1. End(p, "refused")
      BY <1>0, <1>4, <2>4 DEF LoadEnv
    <3>. QED BY <1>end, <2>1, <3>1
  <2>5. CASE /\ t.job.kind # "setup"
             /\ ~(~env.home \/ \E f \in RequiredSecrets : env.secrets[f] = Undefined)
    BY <1>0, <1>4, <2>5, Loaded DEF Labels
  <2>. QED BY <2>3, <2>4, <2>5
<1>5. CASE FirstResolve(p)
  <2>1. PICK storage \in Job(p).fuse :
          LET r == Resolution(p, storage)
          IN IF r.issues = {} THEN GoOn(p, IF ~Job(p).interactive \/ Job(p).yes
                                           THEN "persist" ELSE "confirm", Resolved(p, r))
             ELSE IF ~Job(p).interactive \/ \E i \in r.issues : i[2] = "invalid"
                  THEN End(p, "refused")
             ELSE GoOn(p, "wizard", [task[p] EXCEPT !.draft = r.draft])
    BY <1>5 DEF FirstResolve
  <2>2. PICK r : r = Input(t, storage)
    OBVIOUS
  <2>3. Resolution(p, storage) = r
    BY <2>2 DEF Resolution, Input, SourcesOf, Job
  <2>4. pc[p] = "resolve" /\ Untold(t) /\ t.job.kind = "setup"
    BY <1>0, <1>5 DEF FirstResolve, Phase
  <2>5. CASE r.issues = {}
    <3>1. PICK u : u = [t EXCEPT !.config = r.config, !.secrets = r.secrets,
                                 !.cleared = r.cleared, !.issues = r.issues]
      OBVIOUS
    <3>2. PICK label \in {"persist", "confirm"} : GoOn(p, label, u)
      BY <2>1, <2>3, <2>5, <3>1 DEF Resolved
    <3>3. IsTask(u) /\ u.job = t.job /\ Chosen(u) /\ u.issues = {} /\ u.result = t.result
      <4>1. storage \in t.job.fuse /\ IsTask(t) /\ t.job.kind = "setup"
        BY <1>0, <2>1, <2>4
      <4>2. /\ IsTask(u) /\ u.job = t.job /\ u.issues = r.issues /\ u.result = t.result
            /\ u.source = t.source /\ u.saved = t.saved /\ u.answers = t.answers
            /\ u.config = r.config /\ u.secrets = r.secrets /\ u.cleared = r.cleared
        <5>1. /\ u.job = t.job /\ u.issues = r.issues /\ u.result = t.result
              /\ u.source = t.source /\ u.saved = t.saved /\ u.answers = t.answers
              /\ u.config = r.config /\ u.secrets = r.secrets /\ u.cleared = r.cleared
              /\ u = [job |-> u.job, source |-> u.source, saved |-> u.saved, draft |-> u.draft,
                      answers |-> u.answers, answered |-> u.answered, issues |-> u.issues,
                      config |-> u.config, secrets |-> u.secrets, cleared |-> u.cleared,
                      result |-> u.result]
          BY <3>1, <4>1 DEF IsTask
        <5>. QED BY <4>1, <5>1 DEF IsTask
      <4>3. Chosen(u)
        BY <2>2, <2>5, <4>1, <4>2, ResolvedIsChosen
      <4>. QED BY <2>5, <4>2, <4>3
    <3>4. Phase(u, label)
      BY <1>0, <2>4, <3>2, <3>3 DEF Phase, Untold, Ready, Writing, Last
    <3>. QED BY <3>2, <3>3, <3>4 DEF Labels
  <2>6. CASE End(p, "refused")
    BY <1>end, <2>4, <2>6
  <2>7. CASE GoOn(p, "wizard", [task[p] EXCEPT !.draft = r.draft])
    <3>1. PICK u : u = [t EXCEPT !.draft = r.draft]
      OBVIOUS
    <3>2. /\ u.job = t.job /\ u.source = t.source /\ u.saved = t.saved /\ IsTask(u)
          /\ u.result = t.result
          /\ u.answers = t.answers /\ u.answered = t.answered /\ u.issues = t.issues
          /\ u.draft = r.draft
      BY <1>0, <3>1 DEF IsTask
    <3>3. SourcesOf(u) = SourcesOf(t)
      BY <3>2 DEF SourcesOf
    <3>4. u.draft = Resolve(SourcesOf(u), NoValues, storage).draft
      BY <2>2, <2>4, <3>2, <3>3 DEF Input, Untold
    <3>5. Asked(u)
      BY <2>4, <3>2 DEF Untold, Asked
    <3>6. Phase(u, "wizard")
      BY <1>0, <2>1, <2>4, <3>2, <3>4, <3>5 DEF Phase, Untold, Ready, Writing, Last
    <3>. QED BY <2>7, <3>1, <3>2, <3>6 DEF Labels
  <2>. QED BY <2>1, <2>3, <2>5, <2>6, <2>7
<1>6. CASE Answer(p)
  <2>0. t.job.kind = "setup" /\ t.issues = {} /\ Asked(t) /\ pc[p] = "wizard"
    BY <1>0, <1>6 DEF Answer, Phase
  <2>1. PICK q, a : /\ q = NextQuestion(KnownTo(p), task[p].answered)
                    /\ q \in Fields /\ a \in Answers(q)
                    /\ task' = [task EXCEPT ![p].answered = @ \cup {q},
                                           ![p].answers[q] = IF a = Blank THEN @ ELSE a]
    <3>1. PICK q : q = NextQuestion(KnownTo(p), task[p].answered)
      OBVIOUS
    <3>2. q \in Fields
      <4>. DEFINE S == Open(KnownTo(p), task[p].answered)
                  i == CHOOSE i \in S : \A j \in S : i <= j
      <4>1. S # {} /\ S \subseteq 1..9
        BY <1>6 DEF Answer, Open, Questions
      <4>2. PICK k \in S : \A j \in S : k <= j
        BY <4>1, SmallestElement
      <4>3. i = k
        BY <4>1, <4>2, Earliest
      <4>4. q = Questions[k]
        BY <3>1, <4>3 DEF NextQuestion
      <4>5. \A j \in 1..9 : Questions[j] \in Fields
        BY DEF Questions, Fields, ConfigFields, SecretFields, RequiredSecrets, OptionalSecrets
      <4>. QED BY <4>1, <4>4, <4>5
    <3>3. PICK a \in Answers(q) :
            task' = [task EXCEPT ![p].answered = @ \cup {q},
                                 ![p].answers[q] = IF a = Blank THEN @ ELSE a]
      BY <1>6, <3>1 DEF Answer
    <3>. QED BY <3>1, <3>2, <3>3
  <2>2. PICK u : u = [t EXCEPT !.answered = @ \cup {q},
                               !.answers[q] = IF a = Blank THEN @ ELSE a]
    OBVIOUS
  <2>3. GoOn(p, "wizard", u)
    <3>1. task' = [task EXCEPT ![p] = u]
      BY <1>0, <2>1, <2>2
    <3>2. pc' = [pc EXCEPT ![p] = "wizard"]
      BY <1>0, <1>6, <2>0 DEF Answer
    <3>. QED BY <3>1, <3>2 DEF GoOn
  <2>4. /\ u.job = t.job /\ u.source = t.source /\ u.saved = t.saved /\ u.result = t.result
        /\ u.issues = t.issues /\ u.draft = t.draft /\ u.answered = t.answered \cup {q}
        /\ u.answers = [t.answers EXCEPT ![q] = IF a = Blank THEN @ ELSE a]
        /\ u = [job |-> u.job, source |-> u.source, saved |-> u.saved, draft |-> u.draft,
                answers |-> u.answers, answered |-> u.answered, issues |-> u.issues,
                config |-> u.config, secrets |-> u.secrets, cleared |-> u.cleared,
                result |-> u.result]
    BY <1>0, <2>2 DEF IsTask
  <2>5. /\ IsValues(u.answers) /\ \A f \in Fields : u.answers[f] # Blank
        /\ \A f \in Fields \ {q} : u.answers[f] = t.answers[f]
        /\ u.answers[q] = IF a = Blank THEN t.answers[q] ELSE a
    BY <1>0, <2>1, <2>4 DEF IsTask, IsValues
  <2>6. IsTask(u)
    BY <1>0, <2>4, <2>5 DEF IsTask
  <2>7. q \notin {"acmeEmail", "opensubtitlesUsername"} => a \notin {Undefined, Blank}
    BY <2>1, SetupInputAssumption DEF Answers, DeployModes, TranscodingModes, Undefined, Blank
  <2>8. Asked(u)
    BY <2>0, <2>4, <2>5, <2>7 DEF Asked
  <2>9. SourcesOf(u) = SourcesOf(t)
    BY <2>4 DEF SourcesOf
  <2>10. Phase(u, "wizard")
    BY <1>0, <2>0, <2>4, <2>8, <2>9 DEF Phase, Ready, Writing, Last
  <2>. QED BY <2>3, <2>6, <2>10 DEF Labels
<1>7. CASE SecondResolve(p)
  <2>1. PICK now \in Job(p).fuse :
          LET r == Resolution(p, now)
          IN IF r.issues # {}
             THEN GoOn(p, "done", [Resolved(p, r) EXCEPT !.result = "incomplete"])
             ELSE GoOn(p, IF Job(p).yes THEN "persist" ELSE "confirm", Resolved(p, r))
    BY <1>7 DEF SecondResolve
  <2>2. PICK r : r = Input(t, now)
    OBVIOUS
  <2>3. Resolution(p, now) = r
    BY <2>2 DEF Resolution, Input, SourcesOf, Job
  <2>4. /\ pc[p] = "wizard" /\ t.job.kind = "setup" /\ Asked(t) /\ IsJob(t.job)
        /\ Open(Known(t.draft, t.answers), t.answered) = {}
        /\ \E storage \in t.job.fuse : t.draft = Resolve(SourcesOf(t), NoValues, storage).draft
    BY <1>0, <1>7 DEF SecondResolve, Phase, KnownTo
  <2>5. \A i \in r.issues : i[2] # "missing"
    <3>1. PICK storage : t.draft = Resolve(SourcesOf(t), NoValues, storage).draft
      BY <2>4
    <3>. QED BY <1>0, <2>2, <2>4, <3>1, WizardCompletes
  <2>6. PICK v : v = [t EXCEPT !.config = r.config, !.secrets = r.secrets,
                               !.cleared = r.cleared, !.issues = r.issues]
    OBVIOUS
  <2>7. /\ IsTask(v) /\ v.job = t.job /\ v.issues = r.issues /\ v.result = t.result
        /\ r.issues = {} => Chosen(v)
    <3>1. now \in t.job.fuse /\ IsTask(t) /\ t.job.kind = "setup"
      BY <1>0, <2>1, <2>4
    <3>2. /\ IsTask(v) /\ v.job = t.job /\ v.issues = r.issues /\ v.result = t.result
          /\ v.source = t.source /\ v.saved = t.saved /\ v.answers = t.answers
          /\ v.config = r.config /\ v.secrets = r.secrets /\ v.cleared = r.cleared
      <4>1. /\ v.job = t.job /\ v.issues = r.issues /\ v.result = t.result
            /\ v.source = t.source /\ v.saved = t.saved /\ v.answers = t.answers
            /\ v.config = r.config /\ v.secrets = r.secrets /\ v.cleared = r.cleared
            /\ v = [job |-> v.job, source |-> v.source, saved |-> v.saved, draft |-> v.draft,
                    answers |-> v.answers, answered |-> v.answered, issues |-> v.issues,
                    config |-> v.config, secrets |-> v.secrets, cleared |-> v.cleared,
                    result |-> v.result]
        BY <2>6, <3>1 DEF IsTask
      <4>. QED BY <3>1, <4>1 DEF IsTask
    <3>3. r.issues = {} => Chosen(v)
      BY <2>2, <3>1, <3>2, ResolvedIsChosen
    <3>. QED BY <3>2, <3>3
  <2>8. CASE r.issues # {}
    <3>1. PICK u : u = [v EXCEPT !.result = "incomplete"]
      OBVIOUS
    <3>2. GoOn(p, "done", u)
      BY <2>1, <2>3, <2>6, <2>8, <3>1 DEF Resolved
    <3>3. IsTask(u) /\ u.job = t.job /\ u.issues = r.issues
      BY <2>7, <3>1 DEF IsTask
    <3>4. Phase(u, "done")
      BY <2>4, <2>5, <3>3 DEF Phase, Ready, Writing, Last
    <3>. QED BY <3>2, <3>3, <3>4 DEF Labels
  <2>9. CASE r.issues = {}
    <3>1. PICK label \in {"persist", "confirm"} : GoOn(p, label, v)
      BY <2>1, <2>3, <2>6, <2>9 DEF Resolved
    <3>2. Phase(v, label)
      BY <1>0, <2>4, <2>7, <2>9, <3>1 DEF Phase, Untold, Ready, Writing, Last
    <3>. QED BY <2>7, <3>1, <3>2 DEF Labels
  <2>. QED BY <2>8, <2>9
<1>8. CASE Approve(p)
  <2>1. pc[p] = "confirm" /\ Go(p, IF Job(p).kind = "reset" THEN "load" ELSE "persist")
    BY <1>8 DEF Approve
  <2>2. \/ t.job.kind = "reset" /\ Untold(t)
        \/ t.job.kind \in {"setup", "config"} /\ Chosen(t)
    BY <1>0, <2>1 DEF Phase
  <2>3. CASE t.job.kind = "reset"
    <3>1. Phase(t, "load")
      BY <1>0, <2>1, <2>2, <2>3 DEF Phase, Ready, Writing, Last
    <3>. QED BY <1>0, <1>go, <2>1, <2>3, <3>1 DEF Labels
  <2>4. CASE t.job.kind # "reset"
    <3>1. Phase(t, "persist")
      BY <1>0, <2>1, <2>2, <2>4 DEF Phase, Ready, Writing, Last
    <3>. QED BY <1>0, <1>go, <2>1, <2>4, <3>1 DEF Labels
  <2>. QED BY <2>3, <2>4
<1>9. CASE Decline(p)
  BY <1>9, <1>end DEF Decline
<1>10. CASE Purge(p)
  <2>1. pc[p] = "purge" /\ Go(p, "persist")
    BY <1>10 DEF Purge
  <2>2. Phase(t, "persist")
    BY <1>0, <2>1 DEF Phase, Ready, Writing, Last
  <2>. QED BY <1>go, <2>1, <2>2 DEF Labels
<1>11. ASSUME pc[p] \in Ready, NEW label \in {AfterPersist(p), "persisting"}, Go(p, label)
       PROVE  \E l \in Labels \ {"idle"} : \E u : GoOn(p, l, u) /\ IsTask(u) /\ Phase(u, l)
  <2>1. label \in {"access", "ensure", "persisting"} /\ (label = "ensure" => t.job.kind # "config")
    BY <1>0, <1>11 DEF AfterPersist
  <2>2. Phase(t, label)
    BY <1>0, <1>11, <2>1 DEF Phase, Ready, Writing, Last
  <2>. QED BY <1>go, <1>11, <2>1, <2>2 DEF Labels
<1>12. CASE PersistRead(p)
  BY <1>11, <1>12 DEF PersistRead, Ready
<1>13. CASE PersistWrite(p)
  BY <1>11, <1>13 DEF PersistWrite, Ready
<1>14. ASSUME pc[p] \in Writing \cup Last,
              NEW label \in (Writing \cup Last), label \in Writing => pc[p] \in Writing, Go(p, label)
       PROVE  \E l \in Labels \ {"idle"} : \E u : GoOn(p, l, u) /\ IsTask(u) /\ Phase(u, l)
  <2>1. Phase(t, label)
    BY <1>0, <1>14 DEF Phase, Ready, Writing, Last
  <2>2. label \in Labels \ {"idle"}
    BY DEF Labels, Writing, Last
  <2>. QED BY <1>go, <1>14, <2>1, <2>2
<1>15. CASE EnsureRead(p)
  <2>1. PICK label \in {"access", "ensuring"} : pc' = [pc EXCEPT ![p] = label]
    BY <1>15 DEF EnsureRead
  <2>2. task' = [task EXCEPT ![p] = task[p]] /\ pc[p] = "ensure"
    BY <1>0, <1>15 DEF EnsureRead
  <2>3. Go(p, label)
    BY <2>1, <2>2 DEF Go, GoOn
  <2>. QED BY <1>14, <2>2, <2>3 DEF Writing, Last
<1>16. CASE EnsureWrite(p)
  BY <1>14, <1>16 DEF EnsureWrite, Writing, Last
<1>17. CASE Access(p)
  BY <1>14, <1>17, <1>end DEF Access, Writing, Last
<1>18. CASE CreateKey(p)
  BY <1>14, <1>18 DEF CreateKey, Writing, Last
<1>19. CASE IssueRead(p)
  BY <1>14, <1>19, <1>end DEF IssueRead, Writing, Last
<1>20. CASE IssueWrite(p)
  BY <1>20, <1>end DEF IssueWrite
<1>21. CASE LoadForCheck(p)
  <2>0. pc[p] = "load" /\ t.job.kind = "check" /\ Untold(t)
    BY <1>0, <1>21 DEF LoadForCheck, Phase
  <2>1. CASE End(p, "success")
    BY <1>end, <2>0, <2>1
  <2>2. CASE GoOn(p, "fetch", [task[p] EXCEPT !.source = state.config])
    <3>1. PICK u : u = [t EXCEPT !.source = state.config]
      OBVIOUS
    <3>2. u.job = t.job /\ u.result = t.result /\ u.issues = t.issues /\ IsTask(u)
      BY <1>0, <3>1 DEF IsTask, Typed, IsState
    <3>3. Phase(u, "fetch")
      BY <1>0, <2>0, <3>2 DEF Phase, Untold, Ready, Writing, Last
    <3>. QED BY <2>2, <3>1, <3>2, <3>3 DEF Labels
  <2>. QED BY <1>21, <2>1, <2>2 DEF LoadForCheck
<1>22. CASE Fetch(p)
  <2>1. pc[p] = "fetch"
    BY <1>22 DEF Fetch
  <2>2. Phase(t, "storing")
    BY <1>0, <2>1 DEF Phase, Ready, Writing, Last
  <2>. QED BY <1>go, <1>end, <1>22, <2>1, <2>2 DEF Fetch, Labels
<1>23. CASE FetchNothing(p)
  BY <1>23, <1>end DEF FetchNothing
<1>24. CASE Store(p)
  BY <1>24, <1>end DEF Store
<1>. QED BY <1>1, <1>2, <1>3, <1>4, <1>5, <1>6, <1>7, <1>8, <1>9, <1>10, <1>12, <1>13,
            <1>15, <1>16, <1>17, <1>18, <1>19, <1>20, <1>21, <1>22, <1>23, <1>24 DEF CliStep

-----------------------------------------------------------------------------
(* Every step                                                               *)

\* activeKey picks one of the keys Jellyfin has.
LEMMA ActiveKey ==
  ASSUME NEW keys, keys \subseteq Nat, keys # {}
  PROVE  FirstKey(keys) \in keys
<1>1. PICK k \in keys : \A j \in keys : k <= j
  BY SmallestElement
<1>2. keys \in SUBSET Int
  OBVIOUS
<1>. QED BY <1>1, <1>2, Earliest DEF FirstKey

LEMMA StepKeepsPhases ==
  ASSUME Typed, Phases, NEW p \in Procs, CliStep(p) \/ Stop(p)
  PROVE  /\ Phases'
         /\ pc' \in [Procs -> Labels] /\ task' = [q \in Procs |-> task'[q]]
         /\ \A q \in Procs : IsTask(task'[q])
         /\ \A q \in Procs \ {p} : pc'[q] = pc[q] /\ task'[q] = task[q]
         /\ pc'[p] # "idle"
<1>0. PICK label \in Labels \ {"idle"} :
        \E t : GoOn(p, label, t) /\ IsTask(t) /\ Phase(t, label)
  BY Moves
<1>1. PICK t : GoOn(p, label, t) /\ IsTask(t) /\ Phase(t, label)
  BY <1>0
<1>2. /\ pc \in [Procs -> Labels] /\ task = [q \in Procs |-> task[q]]
      /\ \A q \in Procs : IsTask(task[q])
  BY DEF Typed
<1>3. /\ pc' \in [Procs -> Labels] /\ task' = [q \in Procs |-> task'[q]]
      /\ pc'[p] = label /\ task'[p] = t
      /\ \A q \in Procs \ {p} : pc'[q] = pc[q] /\ task'[q] = task[q]
  BY <1>1, <1>2 DEF GoOn
<1>4. ASSUME NEW q \in Procs PROVE Phase(task'[q], pc'[q]) /\ IsTask(task'[q])
  BY <1>1, <1>2, <1>3 DEF Phases
<1>5. Phases'
  BY <1>4 DEF Phases
<1>. QED BY <1>1, <1>3, <1>4, <1>5

\* A step that writes no file and reads none for a later write.
Reads == <<files, jellyfin, jobs, key, disk, carried, began, alone>>

LEMMA StepKeepsTypes ==
  ASSUME Typed, Phases, NewsTypes, NEW p \in Procs, CliStep(p) \/ Stop(p)
  PROVE  Typed'
<1>. DEFINE Rest ==
       /\ IsState(state) /\ IsFile(env)
       /\ live \subseteq 1..issued /\ issued \in Nat /\ keysMade \in Nat
       /\ jobs \in [Procs -> Seq(Jobs)]
       /\ key = [q \in Procs |-> key[q]] /\ disk = [q \in Procs |-> disk[q]]
       /\ carried \in [Procs -> Caches]
       /\ began = [q \in Procs |-> began[q]] /\ alone = [q \in Procs |-> alone[q]]
       /\ \A q \in Procs : IsFile(disk[q]) /\ key[q] \in Nat
<1>0. Rest
  BY DEF Typed
<1>typed. Rest' => Typed'
  BY StepKeepsPhases DEF Typed
<1>files. ASSUME UNCHANGED <<jellyfin, jobs, key, disk, carried, began, alone>>,
                 IsState(state'), IsFile(env')
          PROVE  Rest'
  BY <1>0, <1>files DEF jellyfin
<1>quiet. ASSUME UNCHANGED Reads PROVE Rest'
  BY <1>0, <1>quiet, <1>files DEF Reads, files
<1>. HIDE DEF Rest
<1>. SUFFICES Rest'
  BY <1>typed
<1>1. CASE Stop(p)
  BY <1>1, <1>quiet DEF Stop, Reads, history
<1>2. CASE Begin(p)
  <2>1. /\ jobs' = [jobs EXCEPT ![p] = Tail(@)] /\ jobs[p] # <<>>
        /\ key' = [key EXCEPT ![p] = 0] /\ disk' = [disk EXCEPT ![p] = NoEnv]
        /\ began' = [began EXCEPT ![p] = [state |-> state, env |-> env]]
        /\ alone' = [q \in Procs |-> q = p /\ \A r \in Procs : ~Busy(r)]
        /\ UNCHANGED <<files, jellyfin, carried>>
    BY <1>2 DEF Begin
  <2>2. IsFile(NoEnv)
    BY NothingHeld
  <2>3. jobs' \in [Procs -> Seq(Jobs)]
    BY <1>0, <2>1 DEF Rest
  <2>4. /\ key' = [q \in Procs |-> key'[q]] /\ disk' = [q \in Procs |-> disk'[q]]
        /\ \A q \in Procs : IsFile(disk'[q]) /\ key'[q] \in Nat
    BY <1>0, <2>1, <2>2 DEF Rest
  <2>5. /\ began' = [q \in Procs |-> began'[q]] /\ alone' = [q \in Procs |-> alone'[q]]
    BY <1>0, <2>1 DEF Rest
  <2>. QED BY <1>0, <2>1, <2>3, <2>4, <2>5 DEF Rest, files, jellyfin
<1>read. ASSUME NEW c \in Caches, carried' = [carried EXCEPT ![p] = c],
                UNCHANGED <<files, jellyfin, jobs, key, disk, began, alone>>
         PROVE  Rest'
  BY <1>0, <1>read DEF Rest, files, jellyfin
<1>keys. ASSUME UNCHANGED <<files, jobs, carried, began, alone>>,
                live' \subseteq 1..issued', issued' \in Nat, keysMade' \in Nat,
                disk' = disk \/ disk' = [disk EXCEPT ![p] = env],
                key' = key \/ \E k \in Nat : key' = [key EXCEPT ![p] = k]
         PROVE  Rest'
  <2>1. /\ disk' = [q \in Procs |-> disk'[q]] /\ \A q \in Procs : IsFile(disk'[q])
    BY <1>0, <1>keys DEF Rest
  <2>2. /\ key' = [q \in Procs |-> key'[q]] /\ \A q \in Procs : key'[q] \in Nat
    BY <1>0, <1>keys DEF Rest
  <2>. QED BY <1>0, <1>keys, <2>1, <2>2 DEF Rest, files
<1>3. CASE LoadState(p)
  BY <1>3, <1>read DEF LoadState, Typed, IsState, history
<1>4. CASE LoadEnv(p)
  BY <1>4, <1>quiet DEF LoadEnv, Reads, history
<1>5. CASE FirstResolve(p) \/ Answer(p) \/ SecondResolve(p)
  BY <1>5, <1>quiet DEF FirstResolve, Answer, SecondResolve, Reads, history
<1>6. CASE Approve(p) \/ Decline(p) \/ PersistRead(p)
  BY <1>6, <1>quiet DEF Approve, Decline, PersistRead, Reads, history
<1>7. CASE Purge(p)
  BY <1>7, <1>keys DEF Purge, Typed, history
<1>t. PICK t : t = task[p]
  OBVIOUS
<1>chosen. ASSUME pc[p] \in {"persisting", "ensuring"}
           PROVE  /\ IsConfig(t.config) /\ IsSecrets(t.secrets)
                  /\ t.cleared \subseteq OptionalSecrets
  BY <1>t, <1>chosen, ChosenIsSound DEF Typed, Phases, Phase, Ready, Writing
<1>8. CASE PersistWrite(p)
  <2>1. /\ state' = [config |-> [t.config EXCEPT !.version = cli], cache |-> carried[p]]
        /\ IsConfig(t.config) /\ carried[p] \in Caches
    BY <1>8, <1>t, <1>chosen DEF PersistWrite, ToPersist, Typed
  <2>2. PICK c : c = [t.config EXCEPT !.version = cli]
    OBVIOUS
  <2>3. IsConfig(c)
    BY <2>1, <2>2 DEF IsConfig
  <2>4. IsState(state')
    BY <2>1, <2>2, <2>3 DEF IsState
  <2>. QED BY <1>8, <2>4, <1>files DEF PersistWrite, Typed, history
<1>9. CASE EnsureRead(p)
  <2>1. KeysFor(env) \in Nat /\ keysMade' \in Nat
    BY <1>9 DEF EnsureRead, KeysFor, Typed, IsFile
  <2>. QED BY <1>9, <2>1, <1>keys DEF EnsureRead, Typed, history
<1>10. CASE EnsureWrite(p)
  <2>1. PICK d, k : d = disk[p] /\ k = key[p]
    OBVIOUS
  <2>2. /\ env' = [home |-> TRUE, domain |-> t.config.domain, storage |-> t.config.storage,
                   secrets |-> [f \in SecretFields |->
                                  IF f \in t.cleared THEN Undefined
                                  ELSE Or(t.secrets[f], d.secrets[f])],
                   keys |-> k, jellyfin |-> d.jellyfin]
        /\ IsSecrets(t.secrets) /\ IsFile(d) /\ k \in Nat
    BY <1>10, <1>t, <1>chosen, <2>1 DEF EnsureWrite, NextEnv, Typed
  <2>3. IsSecrets(env'.secrets)
    BY <2>2 DEF IsSecrets, IsFile, Or, Undefined, Blank
  <2>4. IsFile(env')
    BY <2>2, <2>3 DEF IsFile, IsEnv
  <2>. QED BY <1>10, <2>4, <1>files DEF EnsureWrite, Typed, history
<1>11. CASE Access(p)
  <2>1. live # {} => FirstKey(live) \in Nat
    <3>1. PICK l : l = live
      OBVIOUS
    <3>2. l \subseteq Nat
      BY <3>1 DEF Typed
    <3>. QED BY <3>1, <3>2, ActiveKey
  <2>2. key' = key \/ \E k \in Nat : key' = [key EXCEPT ![p] = k]
    BY <1>11, <2>1 DEF Access, Typed
  <2>. QED BY <1>11, <2>2, <1>keys DEF Access, Typed, jellyfin, history
<1>12. CASE CreateKey(p)
  <2>1. /\ live' = live \cup {issued + 1} /\ issued' = issued + 1
        /\ key' = [key EXCEPT ![p] = FirstKey(live')]
        /\ UNCHANGED <<files, keysMade, jobs, disk, carried, began, alone>>
    BY <1>12 DEF CreateKey, history
  <2>2. live' \subseteq 1..issued' /\ issued' \in Nat
    BY <2>1 DEF Typed
  <2>3. PICK l : l = live'
    OBVIOUS
  <2>4. FirstKey(l) \in Nat
    BY <2>1, <2>2, <2>3, ActiveKey
  <2>. QED BY <2>1, <2>2, <2>3, <2>4, <1>keys DEF Typed
<1>13. CASE IssueRead(p)
  BY <1>13, <1>keys DEF IssueRead, Typed, jellyfin, history
<1>14. CASE IssueWrite(p)
  <2>1. PICK d, k : d = disk[p] /\ k = key[p]
    OBVIOUS
  <2>2. IsFile(d) /\ env' = [d EXCEPT !.jellyfin = k]
    BY <1>14, <2>1 DEF IssueWrite, Typed
  <2>3. IsFile(env')
    BY <2>2 DEF IsFile, IsEnv
  <2>. QED BY <1>14, <2>3, <1>files DEF IssueWrite, Typed, history
<1>15. CASE LoadForCheck(p)
  BY <1>15, <1>read DEF LoadForCheck, Typed, IsState
<1>16. CASE Fetch(p) \/ FetchNothing(p)
  BY <1>16, <1>quiet DEF Fetch, FetchNothing, Reads, history
<1>17. CASE Store(p)
  <2>1. state' = [config |-> t.source, cache |-> reply[p]] /\ IsTask(t) /\ reply[p] \in Caches
    BY <1>17, <1>t DEF Store, Typed, NewsTypes
  <2>2. IsState(state')
    BY <2>1 DEF IsState, IsTask
  <2>. QED BY <1>17, <2>2, <1>files DEF Store, Typed, history
<1>. QED BY <1>1, <1>2, <1>3, <1>4, <1>5, <1>6, <1>7, <1>8, <1>9, <1>10, <1>11, <1>12,
            <1>13, <1>14, <1>15, <1>16, <1>17 DEF CliStep

-----------------------------------------------------------------------------
(* A command alone                                                          *)

LEMMA SameChosen ==
  ASSUME NEW t, NEW u, u.job = t.job, u.source = t.source, u.saved = t.saved,
         u.answers = t.answers, u.config = t.config, u.secrets = t.secrets,
         u.cleared = t.cleared
  PROVE  Chosen(t) => Chosen(u)
<1>1. SourcesOf(u) = SourcesOf(t)
  BY DEF SourcesOf
<1>. QED BY <1>1 DEF Chosen, Kept, Input

\* A command may stop anywhere.
LEMMA EndFollows ==
  ASSUME NEW t, IsTask(t), NEW label \in Labels \ {"idle", "done"}, Phase(t, label),
         NEW before, NEW now, Follows(t, label, before, now),
         NEW result, result # "success" \/ t.job.kind = "check",
         NEW u, u = [t EXCEPT !.result = result]
  PROVE  Follows(u, "done", before, now)
<1>1. /\ u.job = t.job /\ u.source = t.source /\ u.saved = t.saved
      /\ u.answers = t.answers /\ u.config = t.config /\ u.secrets = t.secrets
      /\ u.cleared = t.cleared /\ u.result = result
  BY DEF IsTask
<1>2. Chosen(t) => Chosen(u)
  BY <1>1, SameChosen
<1>3. /\ \A c : Read(t, c, before) => Read(u, c, before)
      /\ \A c, v : Persisted(u, c, v) = Persisted(t, c, v)
      /\ \A e : Made(t, before.env, e) => Made(u, before.env, e)
  BY <1>1 DEF Read, Persisted, Made, Merged, Written
<1>4. CASE label \notin Writing \cup Last
  <2>1. /\ now.state = before.state /\ now.env = before.env
        /\ IsState(before.state) /\ IsFile(before.env)
    BY <1>4 DEF Follows
  <2>. QED BY <1>1, <2>1 DEF Follows, Ready, Writing, Last
<1>5. CASE label \in Writing
  BY <1>1, <1>2, <1>3, <1>5 DEF Follows, Writing, Last, Phase, Ready
<1>6. CASE label \in Last
  BY <1>1, <1>2, <1>3, <1>6 DEF Follows, Writing, Last, Phase, Ready
<1>. QED BY <1>4, <1>5, <1>6

\* A command that has done all it had to.
LEMMA SuccessFollows ==
  ASSUME NEW t, IsTask(t), NEW label \in Last, Phase(t, label),
         NEW before, NEW now, Follows(t, label, before, now), NEW then,
         then.state = now.state, then.cache = now.cache, then.version = now.version,
         Made(t, before.env, then.env), then.env.jellyfin \in then.live,
         NEW u, u = [t EXCEPT !.result = "success"]
  PROVE  Follows(u, "done", before, then)
<1>1. /\ u.job = t.job /\ u.source = t.source /\ u.saved = t.saved
      /\ u.answers = t.answers /\ u.config = t.config /\ u.secrets = t.secrets
      /\ u.cleared = t.cleared
  BY DEF IsTask
<1>2. Chosen(t) /\ Chosen(u)
  BY <1>1, SameChosen DEF Phase
<1>3. /\ \A c : Read(t, c, before) => Read(u, c, before)
      /\ \A c, v : Persisted(u, c, v) = Persisted(t, c, v)
      /\ \A e : Made(t, before.env, e) => Made(u, before.env, e)
  BY <1>1 DEF Read, Persisted, Made, Merged, Written
<1>. QED BY <1>1, <1>2, <1>3 DEF Follows, Writing, Last

LEMMA AloneAfter ==
  ASSUME Typed, Phases, NewsTypes, AloneInv, NEW p \in Procs, alone[p],
         CliStep(p) \/ Stop(p), ~Begin(p)
  PROVE  Alone(p)'
<1>. PICK t, l, before, now : t = task[p] /\ l = pc[p] /\ before = began[p] /\ now = Sight(p)
  OBVIOUS
<1>. PICK u, m, then : u = task'[p] /\ m = pc'[p] /\ then = Sight(p)'
  OBVIOUS
<1>0. /\ IsTask(t) /\ Phase(t, l) /\ l \in Labels /\ t.job = Job(p)
      /\ task = [q \in Procs |-> task[q]] /\ pc \in [Procs -> Labels]
      /\ carried \in [Procs -> Caches]
      /\ key = [q \in Procs |-> key[q]] /\ disk = [q \in Procs |-> disk[q]]
      /\ IsFile(env) /\ IsTask(u) /\ Phase(u, m) /\ keysMade \in Nat
      /\ live \subseteq 1..issued /\ issued \in Nat
  <2>1. Phases' /\ IsTask(task'[p])
    BY StepKeepsPhases
  <2>2. Phase(u, m)
    BY <2>1 DEF Phases
  <2>. QED BY <2>1, <2>2 DEF Typed, Phases, Job
<1>a. (\A q \in Procs \ {p} : ~Busy(q)) /\ Follows(t, l, before, now)
  BY DEF AloneInv, Alone
<1>n. /\ now.state = state /\ now.env = env /\ now.cache = carried[p] /\ now.disk = disk[p]
      /\ now.key = key[p] /\ now.live = live /\ now.version = cli
  BY DEF Sight
<1>m. /\ then.state = state' /\ then.env = env' /\ then.cache = carried'[p]
      /\ then.disk = disk'[p] /\ then.key = key'[p] /\ then.live = live'
      /\ then.version = cli'
  BY DEF Sight
<1>goon. ASSUME NEW label, NEW v, GoOn(p, label, v) PROVE m = label /\ u = v
  BY <1>0, <1>goon DEF GoOn
<1>after. ASSUME Follows(u, m, before, then), began' = began PROVE Alone(p)'
  <2>1. \A q \in Procs \ {p} : ~Busy(q)'
    BY <1>a, StepKeepsPhases DEF Busy
  <2>. QED BY <1>after, <2>1 DEF Alone
<1>same. ASSUME UNCHANGED <<files, live, news, key, disk, carried>> PROVE then = now
  BY <1>same DEF Sight, files, news
<1>end. ASSUME NEW result, End(p, result), result # "success" \/ t.job.kind = "check",
               UNCHANGED <<files, live, news, key, disk, carried, began>>, l \notin {"idle", "done"}
        PROVE  Alone(p)'
  <2>1. m = "done" /\ u = [t EXCEPT !.result = result] /\ then = now
    BY <1>end, <1>goon, <1>same DEF End
  <2>2. Follows(u, m, before, then)
    BY <1>0, <1>a, <1>end, <2>1, EndFollows
  <2>. QED BY <1>end, <1>after, <2>2
<1>1. CASE Stop(p)
  BY <1>1, <1>end DEF Stop, Busy, jellyfin, history
<1>2. CASE LoadState(p)
  <2>0. /\ l = "load" /\ carried' = [carried EXCEPT ![p] = state.cache]
        /\ UNCHANGED <<files, live, news, key, disk, began>>
    BY <1>2 DEF LoadState, jellyfin, history
  <2>1. then = [now EXCEPT !.cache = state.cache]
    BY <1>0, <2>0 DEF Sight, files, news
  <2>2. /\ then.state = state /\ then.env = env /\ then.cache = state.cache
        /\ state = before.state /\ env = before.env
        /\ IsState(before.state) /\ IsFile(before.env)
    BY <1>a, <1>n, <2>0, <2>1 DEF Follows, Ready, Writing, Last, Sight
  <2>3. CASE End(p, "refused")
    <3>1. m = "done" /\ u = [t EXCEPT !.result = "refused"] /\ u.result = "refused"
      BY <1>0, <1>goon, <2>3 DEF End, IsTask
    <3>. QED BY <2>0, <2>2, <3>1, <1>after DEF Follows, Ready, Writing, Last
  <2>4. CASE GoOn(p, "loadenv", [task[p] EXCEPT !.source = state.config])
    <3>1. m = "loadenv" /\ u = [t EXCEPT !.source = state.config] /\ u.source = state.config
      BY <1>0, <1>goon, <2>4 DEF IsTask
    <3>. QED BY <2>0, <2>2, <3>1, <1>after DEF Follows, Ready, Writing, Last
  <2>. QED BY <1>2, <2>3, <2>4 DEF LoadState
<1>3. CASE LoadEnv(p)
  <2>0. /\ l = "loadenv" /\ UNCHANGED <<files, live, news, key, disk, carried, began>>
    BY <1>3 DEF LoadEnv, jellyfin, history
  <2>1. then = now
    BY <2>0, <1>same
  <2>2. /\ now.state = before.state /\ now.env = before.env /\ now.env = env
        /\ IsState(before.state) /\ IsFile(before.env)
        /\ t.source = before.state.config /\ now.cache = before.state.cache
    BY <1>a, <1>n, <2>0 DEF Follows, Writing, Last
  <2>3. ASSUME u.source = t.source, u.saved = env.secrets,
               m \in {"resolve", "purge", "persist", "confirm"}
        PROVE  Alone(p)'
    <3>1. Read(u, then.cache, before)
      BY <2>1, <2>2, <2>3 DEF Read
    <3>. QED BY <2>0, <2>1, <2>2, <2>3, <3>1, <1>after DEF Follows, Ready, Writing, Last
  <2>4. CASE t.job.kind = "setup"
    <3>1. GoOn(p, "resolve", [t EXCEPT !.saved = env.secrets])
      BY <1>0, <1>3, <2>4 DEF LoadEnv
    <3>2. m = "resolve" /\ u = [t EXCEPT !.saved = env.secrets]
      BY <1>goon, <3>1
    <3>. QED BY <1>0, <2>3, <3>2 DEF IsTask
  <2>5. CASE /\ t.job.kind # "setup"
             /\ ~env.home \/ \E f \in RequiredSecrets : env.secrets[f] = Undefined
    <3>1. End(p, "refused")
      BY <1>0, <1>3, <2>5 DEF LoadEnv
    <3>. QED BY <1>end, <2>0, <3>1
  <2>6. CASE /\ t.job.kind # "setup"
             /\ ~(~env.home \/ \E f \in RequiredSecrets : env.secrets[f] = Undefined)
    <3>0. PICK label \in {"purge", "persist", "confirm"} :
            \E v : GoOn(p, label, v) /\ v.source = t.source /\ v.saved = env.secrets
      BY <1>3, <2>6, Loaded
    <3>1. PICK v : GoOn(p, label, v) /\ v.source = t.source /\ v.saved = env.secrets
      BY <3>0
    <3>. QED BY <1>goon, <2>3, <3>1
  <2>. QED BY <2>4, <2>5, <2>6
\* A step before anything is written.
<1>early. ASSUME l \in {"resolve", "wizard"}, m \in {"wizard", "confirm", "persist", "done"},
                 u.job = t.job, u.source = t.source, u.saved = t.saved,
                 m = "done" => u.result # "success",
                 UNCHANGED <<files, live, news, key, disk, carried, began>>
          PROVE  Alone(p)'
  <2>1. then = now
    BY <1>early, <1>same
  <2>2. /\ now.state = before.state /\ now.env = before.env
        /\ IsState(before.state) /\ IsFile(before.env) /\ Read(t, now.cache, before)
    BY <1>a, <1>early DEF Follows, Writing, Last
  <2>3. Read(u, then.cache, before)
    BY <1>early, <2>1, <2>2 DEF Read
  <2>. QED BY <1>early, <2>1, <2>2, <2>3, <1>after DEF Follows, Ready, Writing, Last
<1>4. CASE FirstResolve(p)
  <2>0. l = "resolve" /\ UNCHANGED <<files, live, news, key, disk, carried, began>>
    BY <1>4 DEF FirstResolve, jellyfin, history
  <2>1. PICK r : \/ \E label \in {"persist", "confirm"} : GoOn(p, label, Resolved(p, r))
                 \/ End(p, "refused")
                 \/ GoOn(p, "wizard", [task[p] EXCEPT !.draft = r.draft])
    BY <1>4 DEF FirstResolve
  <2>2. CASE End(p, "refused")
    BY <1>end, <2>0, <2>2
  <2>3. CASE GoOn(p, "wizard", [task[p] EXCEPT !.draft = r.draft])
    <3>1. m = "wizard" /\ u = [t EXCEPT !.draft = r.draft]
      BY <1>goon, <2>3
    <3>2. u.job = t.job /\ u.source = t.source /\ u.saved = t.saved
      BY <1>0, <3>1 DEF IsTask
    <3>. QED BY <1>early, <2>0, <3>1, <3>2
  <2>4. CASE \E label \in {"persist", "confirm"} : GoOn(p, label, Resolved(p, r))
    <3>1. /\ m \in {"persist", "confirm"}
          /\ u = [t EXCEPT !.config = r.config, !.secrets = r.secrets,
                           !.cleared = r.cleared, !.issues = r.issues]
      BY <1>goon, <2>4 DEF Resolved
    <3>2. u.job = t.job /\ u.source = t.source /\ u.saved = t.saved
      BY <1>0, <3>1 DEF IsTask
    <3>. QED BY <1>early, <2>0, <3>1, <3>2
  <2>. QED BY <2>1, <2>2, <2>3, <2>4
<1>5. CASE Answer(p)
  <2>1. PICK q, a : task' = [task EXCEPT ![p].answered = @ \cup {q},
                                         ![p].answers[q] = IF a = Blank THEN @ ELSE a]
    BY <1>5 DEF Answer
  <2>2. u = [t EXCEPT !.answered = @ \cup {q}, !.answers[q] = IF a = Blank THEN @ ELSE a]
    BY <1>0, <2>1
  <2>3. u.job = t.job /\ u.source = t.source /\ u.saved = t.saved
    BY <1>0, <2>2 DEF IsTask
  <2>4. l = "wizard" /\ m = "wizard"
    BY <1>5 DEF Answer
  <2>. QED BY <1>5, <1>early, <2>3, <2>4 DEF Answer, jellyfin, history
<1>6. CASE SecondResolve(p)
  <2>0. l = "wizard" /\ UNCHANGED <<files, live, news, key, disk, carried, began>>
    BY <1>6 DEF SecondResolve, jellyfin, history
  <2>1. PICK r :
          \/ \E label \in {"persist", "confirm"} : GoOn(p, label, Resolved(p, r))
          \/ GoOn(p, "done", [Resolved(p, r) EXCEPT !.result = "incomplete"])
    BY <1>6 DEF SecondResolve
  <2>2. PICK v : v = [t EXCEPT !.config = r.config, !.secrets = r.secrets,
                               !.cleared = r.cleared, !.issues = r.issues]
    OBVIOUS
  <2>3. /\ v.job = t.job /\ v.source = t.source /\ v.saved = t.saved
        /\ v = [job |-> v.job, source |-> v.source, saved |-> v.saved, draft |-> v.draft,
                answers |-> v.answers, answered |-> v.answered, issues |-> v.issues,
                config |-> v.config, secrets |-> v.secrets, cleared |-> v.cleared,
                result |-> v.result]
    BY <1>0, <2>2 DEF IsTask
  <2>4. \/ m \in {"persist", "confirm"} /\ u = v
        \/ m = "done" /\ u = [v EXCEPT !.result = "incomplete"]
    BY <1>goon, <2>1, <2>2 DEF Resolved
  <2>5. /\ u.job = t.job /\ u.source = t.source /\ u.saved = t.saved
        /\ m = "done" => u.result # "success"
    BY <2>3, <2>4
  <2>. QED BY <1>early, <2>0, <2>4, <2>5
<1>7. CASE Approve(p)
  <2>0. /\ l = "confirm" /\ UNCHANGED <<files, live, news, key, disk, carried, began>>
        /\ m = IF t.job.kind = "reset" THEN "load" ELSE "persist"
        /\ u = t
    BY <1>0, <1>7, <1>goon DEF Approve, Go, jellyfin, history
  <2>1. then = now
    BY <2>0, <1>same
  <2>. QED BY <1>a, <2>0, <2>1, <1>after DEF Follows, Ready, Writing, Last
<1>8. CASE Decline(p)
  BY <1>8, <1>end DEF Decline, jellyfin, history
<1>9. CASE Purge(p)
  <2>0. l = "purge" /\ m = "persist" /\ u = t /\ UNCHANGED <<files, news, carried, began>>
    BY <1>9, <1>goon DEF Purge, Go, history
  <2>1. then.state = now.state /\ then.env = now.env /\ then.cache = now.cache
    BY <1>m, <1>n, <2>0 DEF files
  <2>. QED BY <1>a, <2>0, <2>1, <1>after DEF Follows, Ready, Writing, Last
\* What has been read is what the command began with, and once it is saved, the
\* state is the one it applies.
<1>ready. ASSUME l \in Ready
          PROVE  /\ IsState(before.state) /\ IsFile(before.env) /\ state = before.state
                 /\ env = before.env /\ Read(t, carried[p], before)
  BY <1>a, <1>n, <1>ready DEF Follows, Ready, Writing, Last
<1>saved. ASSUME l \in Ready, m = AfterPersist(p), u = t, state' = ToPersist(p),
                 UNCHANGED <<env, news, carried, began>>
          PROVE  Alone(p)'
  <2>1. then.state = Persisted(u, then.cache, then.version)
    BY <1>m, <1>0, <1>saved DEF ToPersist, Persisted, news
  <2>2. then.env = before.env /\ Read(u, then.cache, before)
    BY <1>m, <1>ready, <1>saved
  <2>3. CASE t.job.kind = "config"
    <3>1. m = "access" /\ Made(u, before.env, then.env)
      BY <1>0, <1>ready, <1>saved, <2>2, <2>3 DEF AfterPersist, Made, IsFile, IsEnv
    <3>. QED BY <1>ready, <1>saved, <2>1, <2>2, <3>1, <1>after DEF Follows, Ready, Writing, Last
  <2>4. CASE t.job.kind # "config"
    <3>1. m = "ensure"
      BY <1>0, <1>saved, <2>4 DEF AfterPersist
    <3>. QED BY <1>ready, <1>saved, <2>1, <2>2, <3>1, <1>after DEF Follows, Ready, Writing, Last
  <2>. QED BY <2>3, <2>4
<1>10. CASE PersistRead(p)
  <2>0. /\ l = "persist" /\ u = t /\ UNCHANGED <<files, live, news, key, disk, carried, began>>
        /\ m = IF state = ToPersist(p) THEN AfterPersist(p) ELSE "persisting"
    BY <1>10, <1>goon DEF PersistRead, Go, jellyfin, history
  <2>1. then = now
    BY <2>0, <1>same
  <2>2. CASE state = ToPersist(p)
    BY <2>0, <2>2, <1>saved DEF Ready, files
  <2>3. CASE state # ToPersist(p)
    BY <1>a, <2>0, <2>1, <2>3, <1>after DEF Follows, Ready, Writing, Last
  <2>. QED BY <2>2, <2>3
<1>11. CASE PersistWrite(p)
  BY <1>11, <1>goon, <1>saved DEF PersistWrite, Go, Ready, history
<1>writing. ASSUME l \in Writing
            PROVE  /\ IsState(before.state) /\ IsFile(before.env) /\ env = before.env
                   /\ Read(t, carried[p], before) /\ t.job.kind # "config"
                   /\ state = Persisted(t, carried[p], cli)
  BY <1>0, <1>a, <1>n, <1>writing DEF Follows, Phase, Writing, Last
<1>made. ASSUME l \in Writing, m = "access", u = t, UNCHANGED <<state, news, carried, began>>,
                NEW k, k # 0, before.env.keys # 0 => k = before.env.keys,
                env' = NextEnv(p, before.env, k)
         PROVE  Alone(p)'
  <2>1. env' = Merged(t, before.env, k, before.env.jellyfin)
    BY <1>made DEF NextEnv, Merged, Written
  <2>2. env' = Merged(t, before.env, env'.keys, env'.jellyfin) /\ env'.keys = k
    BY <2>1 DEF Merged
  <2>3. Made(u, before.env, then.env)
    BY <1>m, <1>made, <1>writing, <2>2 DEF Made
  <2>4. /\ then.state = Persisted(u, then.cache, then.version)
        /\ Read(u, then.cache, before)
    BY <1>m, <1>made, <1>writing DEF news
  <2>. QED BY <1>made, <1>writing, <2>3, <2>4, <1>after DEF Follows, Ready, Writing, Last
<1>12. CASE EnsureRead(p)
  <2>0. /\ l = "ensure" /\ u = t /\ UNCHANGED <<files, live, news, carried, began>>
        /\ disk' = [disk EXCEPT ![p] = env] /\ key' = [key EXCEPT ![p] = KeysFor(env)]
        /\ m = IF env = NextEnv(p, env, KeysFor(env)) THEN "access" ELSE "ensuring"
    BY <1>0, <1>12 DEF EnsureRead, history
  <2>1. PICK k : k = KeysFor(env)
    OBVIOUS
  <2>2. k # 0 /\ (env.keys # 0 => k = env.keys)
    BY <1>0, <2>1 DEF KeysFor
  <2>3. CASE env = NextEnv(p, env, KeysFor(env))
    BY <2>0, <2>1, <2>2, <2>3, <1>writing, <1>made DEF Writing, files
  <2>4. CASE env # NextEnv(p, env, KeysFor(env))
    <3>1. /\ then.state = state /\ then.env = env /\ then.cache = carried[p]
          /\ then.disk = env /\ then.key = k /\ then.version = cli
      BY <1>0, <1>m, <2>0, <2>1 DEF files, news
    <3>. QED BY <2>0, <2>2, <2>4, <3>1, <1>writing, <1>after DEF Follows, Ready, Writing, Last
  <2>. QED BY <2>3, <2>4
<1>13. CASE EnsureWrite(p)
  <2>0. /\ l = "ensuring" /\ m = "access" /\ u = t /\ UNCHANGED <<state, news, carried, began>>
        /\ env' = NextEnv(p, disk[p], key[p])
    BY <1>13, <1>goon DEF EnsureWrite, Go, history
  <2>1. /\ disk[p] = before.env /\ key[p] # 0
        /\ before.env.keys # 0 => key[p] = before.env.keys
    BY <1>a, <1>n, <2>0 DEF Follows
  <2>. QED BY <2>0, <2>1, <1>made DEF Writing
<1>last. ASSUME l \in Last
         PROVE  /\ IsState(before.state) /\ IsFile(before.env)
                /\ Read(t, carried[p], before) /\ state = Persisted(t, carried[p], cli)
                /\ Made(t, before.env, env)
  BY <1>a, <1>n, <1>last DEF Follows, Writing, Last
\* A step after everything but Jellyfin's key is written.
<1>onward. ASSUME l \in Last, u = t, UNCHANGED <<files, news, carried, began>>, m \in Last,
                  m = "issuing" => disk'[p] = env,
                  m \in {"issue", "issuing"} => key'[p] \in live'
           PROVE  Alone(p)'
  <2>1. /\ then.state = state /\ then.env = env /\ then.cache = carried[p]
        /\ then.version = cli /\ then.key = key'[p] /\ then.live = live' /\ then.disk = disk'[p]
    BY <1>m, <1>onward DEF files, news
  <2>. QED BY <1>last, <1>onward, <2>1, <1>after DEF Follows, Ready, Writing, Last
<1>success. ASSUME l \in Last, End(p, "success"), UNCHANGED <<state, news, carried, began>>,
                   Made(t, before.env, env'), env'.jellyfin \in live'
            PROVE  Alone(p)'
  <2>1. m = "done" /\ u = [t EXCEPT !.result = "success"]
    BY <1>goon, <1>success DEF End
  <2>2. then.state = now.state /\ then.cache = now.cache /\ then.version = now.version
    BY <1>m, <1>n, <1>success DEF news
  <2>3. Made(t, before.env, then.env) /\ then.env.jellyfin \in then.live
    BY <1>m, <1>success
  <2>4. Follows(u, m, before, then)
    BY <1>0, <1>a, <1>success, <2>1, <2>2, <2>3, SuccessFollows
  <2>. QED BY <1>success, <1>after, <2>4
<1>14. CASE Access(p)
  <2>0. /\ l = "access" /\ UNCHANGED <<files, live, news, carried, began>>
        /\ key' = [key EXCEPT ![p] = IF live = {} THEN @ ELSE FirstKey(live)]
    BY <1>14 DEF Access, jellyfin, history
  <2>1. CASE env.jellyfin \in live
    BY <1>14, <2>0, <2>1, <1>last, <1>success DEF Access, Last, files
  <2>2. CASE env.jellyfin \notin live
    <3>1. PICK k : k = live
      OBVIOUS
    <3>2. live # {} => FirstKey(live) \in live
      BY <1>0, <3>1, ActiveKey
    <3>3. u = t /\ m = IF live = {} THEN "create" ELSE "issue"
      BY <1>14, <2>2, <1>goon DEF Access, Go
    <3>4. m = "issue" => key'[p] \in live
      BY <1>0, <2>0, <3>2, <3>3
    <3>. QED BY <2>0, <3>3, <3>4, <1>onward DEF Last
  <2>. QED BY <2>1, <2>2
<1>15. CASE CreateKey(p)
  <2>0. /\ l = "create" /\ m = "issue" /\ u = t /\ UNCHANGED <<files, news, carried, began>>
        /\ live' = live \cup {issued + 1} /\ key' = [key EXCEPT ![p] = FirstKey(live')]
    BY <1>15, <1>goon DEF CreateKey, Go, history
  <2>1. PICK k : k = live'
    OBVIOUS
  <2>2. k \subseteq Nat /\ k # {}
    BY <1>0, <2>0, <2>1
  <2>3. key'[p] \in live'
    BY <1>0, <2>0, <2>1, <2>2, ActiveKey
  <2>. QED BY <2>0, <2>3, <1>onward DEF Last
<1>16. CASE IssueRead(p)
  <2>0. /\ l = "issue" /\ UNCHANGED <<files, live, news, key, carried, began>>
        /\ disk' = [disk EXCEPT ![p] = env]
    BY <1>16 DEF IssueRead, jellyfin, history
  <2>1. key[p] \in live
    BY <1>a, <1>n, <2>0 DEF Follows
  <2>2. CASE env.jellyfin = key[p]
    BY <1>16, <2>0, <2>1, <2>2, <1>last, <1>success DEF IssueRead, Last, files
  <2>3. CASE env.jellyfin # key[p]
    <3>1. u = t /\ m = "issuing" /\ disk'[p] = env
      BY <1>0, <1>16, <1>goon, <2>0, <2>3 DEF IssueRead, Go
    <3>. QED BY <2>0, <2>1, <3>1, <1>onward DEF Last
  <2>. QED BY <2>2, <2>3
<1>17. CASE IssueWrite(p)
  <2>0. /\ l = "issuing" /\ End(p, "success") /\ UNCHANGED <<state, live, news, carried, began>>
        /\ env' = [disk[p] EXCEPT !.jellyfin = key[p]]
    BY <1>17 DEF IssueWrite, jellyfin, history
  <2>1. disk[p] = env /\ key[p] \in live
    BY <1>a, <1>n, <2>0 DEF Follows
  <2>2. /\ env'.jellyfin = key[p] /\ env' = [env EXCEPT !.jellyfin = key[p]]
        /\ env'.keys = env.keys
    BY <1>0, <2>0, <2>1 DEF IsFile, IsEnv
  <2>3. Made(t, before.env, env')
    <3>1. Made(t, before.env, env)
      BY <1>last, <2>0 DEF Last
    <3>2. CASE t.job.kind = "config"
      <4>1. env' = [before.env EXCEPT !.jellyfin = key[p]]
        BY <1>last, <2>0, <2>2, <3>1, <3>2 DEF Made, Last, IsFile, IsEnv
      <4>. QED BY <2>2, <3>2, <4>1 DEF Made
    <3>3. CASE t.job.kind # "config"
      <4>1. env = Merged(t, before.env, env.keys, env.jellyfin)
        BY <3>1, <3>3 DEF Made
      <4>2. env' = Merged(t, before.env, env.keys, key[p])
        <5>1. /\ env'.home = env.home /\ env'.domain = env.domain
              /\ env'.storage = env.storage /\ env'.secrets = env.secrets
              /\ env' = [home |-> env'.home, domain |-> env'.domain, storage |-> env'.storage,
                         secrets |-> env'.secrets, keys |-> env'.keys,
                         jellyfin |-> env'.jellyfin]
          BY <1>0, <2>2 DEF IsFile, IsEnv
        <5>2. /\ env.domain = t.config.domain /\ env.storage = t.config.storage
              /\ env.home = TRUE /\ env.secrets = Written(t, before.env)
          BY <4>1 DEF Merged
        <5>. QED BY <2>2, <5>1, <5>2 DEF Merged
      <4>. QED BY <2>2, <3>1, <3>3, <4>2 DEF Made
    <3>. QED BY <3>2, <3>3
  <2>. QED BY <2>0, <2>1, <2>2, <2>3, <1>success DEF Last
<1>18. CASE LoadForCheck(p)
  <2>0. /\ l = "load" /\ t.job.kind = "check" /\ carried' = [carried EXCEPT ![p] = state.cache]
        /\ UNCHANGED <<files, live, news, key, disk, began>>
    BY <1>0, <1>18 DEF LoadForCheck, jellyfin
  <2>1. /\ then.state = state /\ then.env = env /\ then.cache = state.cache
        /\ state = before.state /\ env = before.env
        /\ IsState(before.state) /\ IsFile(before.env)
    BY <1>0, <1>a, <1>n, <1>m, <2>0 DEF Follows, Ready, Writing, Last, files
  <2>2. CASE End(p, "success")
    <3>1. m = "done" /\ u = [t EXCEPT !.result = "success"] /\ u.job = t.job
      BY <1>0, <1>goon, <2>2 DEF End, IsTask
    <3>. QED BY <2>0, <2>1, <3>1, <1>after DEF Follows, Ready, Writing, Last
  <2>3. CASE GoOn(p, "fetch", [task[p] EXCEPT !.source = state.config])
    <3>1. m = "fetch" /\ u = [t EXCEPT !.source = state.config] /\ u.source = state.config
      BY <1>0, <1>goon, <2>3 DEF IsTask
    <3>. QED BY <2>0, <2>1, <3>1, <1>after DEF Follows, Ready, Writing, Last
  <2>. QED BY <1>18, <2>2, <2>3 DEF LoadForCheck
<1>19. CASE Fetch(p)
  <2>0. /\ l = "fetch" /\ t.job.kind = "check"
        /\ UNCHANGED <<files, live, news, key, disk, carried, began>>
    BY <1>0, <1>19 DEF Fetch, Phase, jellyfin
  <2>1. CASE End(p, "success")
    BY <1>end, <2>0, <2>1
  <2>2. CASE Go(p, "storing")
    <3>1. m = "storing" /\ u = t /\ then = now
      BY <1>goon, <1>same, <2>0, <2>2 DEF Go
    <3>. QED BY <1>a, <2>0, <3>1, <1>after DEF Follows, Ready, Writing, Last
  <2>. QED BY <1>19, <2>1, <2>2 DEF Fetch
<1>20. CASE FetchNothing(p)
  <2>1. t.job.kind = "check"
    BY <1>0, <1>20 DEF FetchNothing, Phase
  <2>. QED BY <1>20, <1>end, <2>1 DEF FetchNothing, jellyfin, history
<1>21. CASE Store(p)
  <2>0. /\ l = "storing" /\ t.job.kind = "check" /\ state'.config = t.source
        /\ UNCHANGED <<env, began>> /\ m = "done" /\ u = [t EXCEPT !.result = "success"]
    BY <1>0, <1>21, <1>goon DEF Store, End, Phase, history
  <2>1. /\ then.state.config = before.state.config /\ then.env = before.env
        /\ IsState(before.state) /\ IsFile(before.env) /\ u.job = t.job
    BY <1>0, <1>a, <1>n, <1>m, <2>0 DEF Follows, Ready, Writing, Last, IsTask
  <2>. QED BY <2>0, <2>1, <1>after DEF Follows, Ready, Writing, Last
<1>. QED BY <1>1, <1>2, <1>3, <1>4, <1>5, <1>6, <1>7, <1>8, <1>9, <1>10, <1>11, <1>12,
            <1>13, <1>14, <1>15, <1>16, <1>17, <1>18, <1>19, <1>20, <1>21 DEF CliStep

LEMMA StepKeepsAlone ==
  ASSUME Typed, Phases, NewsTypes, AloneInv, NEW p \in Procs, CliStep(p) \/ Stop(p)
  PROVE  AloneInv'
<1>1. CASE Begin(p)
  <2>1. /\ \A q \in Procs \ {p} : ~alone'[q]
        /\ alone'[p] => \A r \in Procs : ~Busy(r)
        /\ began'[p] = [state |-> state, env |-> env] /\ UNCHANGED files
    BY <1>1 DEF Begin, Typed
  <2>2. PICK job : job = Head(jobs[p])
    OBVIOUS
  <2>3. /\ pc'[p] = IF job.kind = "reset" THEN "confirm" ELSE "load"
        /\ task'[p] = [NoTask EXCEPT !.job = job]
    BY <1>1, <2>2 DEF Begin, Typed
  <2>4. task'[p].job = job
    BY <2>3, NothingHeld
  <2>5. IsState(state) /\ IsFile(env)
    BY DEF Typed
  <2>6. Follows(task[p], pc[p], began[p], Sight(p))'
    <3>1. PICK t, l, before, then : /\ t = task'[p] /\ l = pc'[p] /\ before = began'[p]
                                    /\ then = Sight(p)'
      OBVIOUS
    <3>2. /\ then.state = state /\ then.env = env /\ before.state = state /\ before.env = env
          /\ t.job = job /\ l = IF job.kind = "reset" THEN "confirm" ELSE "load"
      BY <2>1, <2>3, <2>4, <3>1 DEF Sight, files
    <3>3. Follows(t, l, before, then)
      BY <2>5, <3>2 DEF Follows, Ready, Writing, Last
    <3>. QED BY <3>1, <3>3
  <2>7. alone'[p] => Alone(p)'
    <3>1. \A q \in Procs \ {p} : Busy(q)' <=> Busy(q)
      BY StepKeepsPhases DEF Busy
    <3>. QED BY <2>1, <2>6, <3>1 DEF Alone
  <2>. QED BY <2>1, <2>7 DEF AloneInv
<1>2. CASE ~Begin(p)
  <2>1. Busy(p) /\ UNCHANGED alone
    BY <1>2 DEF CliStep, Stop, LoadState, LoadEnv, FirstResolve, Answer, SecondResolve,
                Approve, Decline, Purge, PersistRead, PersistWrite, EnsureRead, EnsureWrite,
                Access, CreateKey, IssueRead, IssueWrite, LoadForCheck, Fetch,
                FetchNothing, Store, Busy, history
  <2>2. \A q \in Procs \ {p} : ~alone'[q]
    BY <2>1 DEF AloneInv, Alone
  <2>3. alone'[p] => Alone(p)'
    BY <1>2, <2>1, AloneAfter
  <2>. QED BY <2>2, <2>3 DEF AloneInv
<1>. QED BY <1>1, <1>2

CommandInv == Typed /\ Phases /\ AloneInv

LEMMA StepKeepsCommands == CommandInv /\ NewsTypes /\ [Next]_vars => CommandInv'
<1>. SUFFICES ASSUME CommandInv, NewsTypes, [Next]_vars PROVE CommandInv'
  OBVIOUS
<1>1. ASSUME UNCHANGED <<files, jellyfin, cli, jobs, pc, task, key, disk, carried, history>>
      PROVE  CommandInv'
  <2>1. Typed' /\ Phases'
    BY <1>1 DEF CommandInv, Typed, Phases, files, jellyfin, history
  <2>2. \A p \in Procs : Alone(p)' <=> Alone(p)
    <3>1. ASSUME NEW p \in Procs PROVE Alone(p)' <=> Alone(p)
      <4>1. Sight(p)' = Sight(p)
        BY <1>1 DEF Sight, files, jellyfin
      <4>. QED BY <1>1, <4>1 DEF Alone, Busy, history
    <3>. QED BY <3>1
  <2>3. AloneInv'
    BY <1>1, <2>2 DEF CommandInv, AloneInv, history
  <2>. QED BY <2>1, <2>3 DEF CommandInv
<1>2. CASE UNCHANGED vars
  BY <1>1, <1>2 DEF vars, news, command
<1>3. CASE TimePasses \/ SetClock \/ Publish
  BY <1>1, <1>3 DEF TimePasses, SetClock, Publish, command
<1>4. ASSUME NEW p \in Procs, CliStep(p) \/ Stop(p) PROVE CommandInv'
  BY <1>4, StepKeepsPhases, StepKeepsTypes, StepKeepsAlone DEF CommandInv
<1>. QED BY <1>2, <1>3, <1>4 DEF Next

LEMMA InitHoldsCommands == Init => CommandInv
<1>. SUFFICES ASSUME Init PROVE CommandInv
  OBVIOUS
<1>1. PICK s \in Scenarios :
        /\ state = s.state /\ env = s.env /\ live = s.live /\ jobs = s.jobs
        /\ issued = s.env.jellyfin /\ keysMade = s.env.keys
  BY DEF Init
<1>2. /\ pc = [p \in Procs |-> "idle"] /\ task = [p \in Procs |-> NoTask]
      /\ key = [p \in Procs |-> 0] /\ disk = [p \in Procs |-> NoEnv]
      /\ carried = [p \in Procs |-> NoCache]
      /\ began = [p \in Procs |-> [state |-> state, env |-> env]]
      /\ alone = [p \in Procs |-> FALSE]
  BY DEF Init
<1>3. /\ IsState(state) /\ IsFile(env) /\ jobs \in [Procs -> Seq(Jobs)]
      /\ live \subseteq 1..issued /\ issued \in Nat /\ keysMade \in Nat
  BY <1>1, ScenariosAssumption DEF IsFile
<1>4. NoCache \in Caches
  BY DEF NoCache, Caches
<1>5. Typed
  BY <1>2, <1>3, <1>4, NothingHeld DEF Typed, Labels
<1>6. Phases
  BY <1>2, NothingHeld DEF Phases, Phase, Ready, Writing, Last
<1>. QED BY <1>2, <1>5, <1>6 DEF CommandInv, AloneInv

LEMMA CommandsHold == Spec => []CommandInv
<1>1. NewsInv => NewsTypes
  BY DEF NewsInv
<1>. QED BY <1>1, InitIsTrue, StepKeepsNews, InitHoldsCommands, StepKeepsCommands, PTL DEF Spec

\* The wizard asks for everything that is missing: the question it shows next
\* and the issues it is sent back with never disagree
\* (nextSetupQuestion, resolveSetupInput).
THEOREM WizardIsComplete == Spec => []WizardAsksWhatIsMissing
<1>1. CommandInv => WizardAsksWhatIsMissing
  BY DEF CommandInv, Phases, Phase, WizardAsksWhatIsMissing
<1>. QED BY <1>1, CommandsHold, PTL

\* What a command alone leaves of the two files, wherever it is.
LEMMA Outcome ==
  ASSUME NEW t, IsTask(t), NEW label \in Labels, Phase(t, label),
         NEW before, NEW now, Follows(t, label, before, now)
  PROVE  /\ \/ now.state = before.state
            \/ t.job.kind = "check" /\ now.state.config = before.state.config
            \/ Chosen(t) /\ Read(t, now.cache, before)
                 /\ now.state = Persisted(t, now.cache, now.version)
         /\ \/ now.env = before.env
            \/ Chosen(t) /\ Read(t, now.cache, before) /\ Made(t, before.env, now.env)
         /\ t.result = "success" /\ t.job.kind # "check"
              => /\ Chosen(t) /\ Read(t, now.cache, before)
                 /\ now.state = Persisted(t, now.cache, now.version)
<1>1. CASE label = "done"
  BY <1>1 DEF Follows
<1>2. CASE label \in Writing \cup Last
  BY <1>2 DEF Follows, Phase, Writing, Last
<1>3. CASE label \notin Writing \cup Last \cup {"done"}
  BY <1>3 DEF Follows, Phase, Writing, Last
<1>. QED BY <1>1, <1>2, <1>3

\* The configuration a command applies, and the secrets it writes.
LEMMA ChosenConfig ==
  ASSUME NEW t, IsTask(t), IsJob(t.job), Chosen(t), t.source # NoConfig,
         NEW asked, asked = CASE t.job.kind = "setup"  -> Named(t)
                              [] t.job.kind = "config" -> {"transcoding"}
                              [] OTHER                 -> {}
  PROVE  /\ t.config.rest = t.source.rest
         /\ \A f \in ConfigFields \ asked :
              t.config[f] = t.source[f] \/ (f = "domain" /\ "mode" \in asked)
         /\ t.job.kind # "setup" => t.config.storage = t.source.storage
         /\ t.job.kind = "config" => t.config.transcoding = t.job.value
<1>1. IsConfig(t.source)
  BY DEF IsTask
<1>2. CASE t.job.kind = "setup"
  BY <1>2, SetupKeepsConfig
<1>3. CASE t.job.kind = "config"
  <2>1. t.config = [t.source EXCEPT !.transcoding = t.job.value] /\ asked = {"transcoding"}
    BY <1>3 DEF Chosen
  <2>. QED BY <1>1, <1>3, <2>1, FieldNames DEF IsConfig
<1>4. CASE t.job.kind \notin {"setup", "config"}
  BY <1>4 DEF Chosen
<1>. QED BY <1>2, <1>3, <1>4

LEMMA ChosenSecrets ==
  ASSUME NEW t, IsTask(t), IsJob(t.job), Chosen(t), NEW e, e.secrets = t.saved,
         NEW made, Made(t, e, made), IsFile(e)
  PROVE  /\ t.job.kind # "setup" => made.secrets = e.secrets
         /\ t.job.kind = "setup" => /\ made.secrets = t.secrets
                                    /\ \A f \in SecretFields \ Named(t) :
                                         made.secrets[f] = e.secrets[f]
         /\ e.keys # 0 => made.keys = e.keys
<1>1. CASE t.job.kind = "config"
  <2>1. made = [e EXCEPT !.jellyfin = made.jellyfin]
    BY <1>1 DEF Made
  <2>2. made.secrets = e.secrets /\ made.keys = e.keys
    <3>1. PICK k : k = made.jellyfin
      OBVIOUS
    <3>2. made = [e EXCEPT !.jellyfin = k]
      BY <2>1, <3>1
    <3>. QED BY <3>2 DEF IsFile, IsEnv
  <2>. QED BY <1>1, <2>2
<1>2. CASE t.job.kind # "config"
  <2>1. /\ made = Merged(t, e, made.keys, made.jellyfin)
        /\ e.keys # 0 => made.keys = e.keys
    BY <1>2 DEF Made
  <2>2. made.secrets = Written(t, e)
    BY <2>1 DEF Merged
  <2>3. IsSecrets(t.secrets)
    BY ChosenIsSound
  <2>4. CASE t.job.kind = "setup"
    <3>1. \A f \in SecretFields : Written(t, e)[f] = t.secrets[f]
      BY <2>4, SetupKeepsSecrets DEF Written
    <3>2. Written(t, e) = t.secrets
      BY <2>3, <3>1 DEF Written, IsSecrets
    <3>. QED BY <2>1, <2>2, <2>4, <3>2, SetupKeepsSecrets
  <2>5. CASE t.job.kind # "setup"
    <3>1. t.secrets = e.secrets /\ t.cleared = {}
      BY <1>2, <2>5 DEF Chosen, Kept
    <3>2. \A f \in SecretFields : Written(t, e)[f] = e.secrets[f]
      BY <3>1 DEF Written, Or
    <3>3. Written(t, e) = e.secrets
      BY <2>3, <3>1, <3>2 DEF Written, IsSecrets
    <3>. QED BY <2>1, <2>2, <2>5, <3>3
  <2>. QED BY <2>4, <2>5
<1>. QED BY <1>1, <1>2

LEMMA AloneLeavesTheRest == CommandInv => OnlyAskedIsChanged
<1>. SUFFICES ASSUME CommandInv, NEW p \in Procs, alone[p]
     PROVE  LET before == began[p]
                asked  == CASE Job(p).kind = "setup"  -> Given(p)
                            [] Job(p).kind = "config" -> {"transcoding"}
                            [] OTHER                  -> {}
                old    == before.state.config
                new    == state.config
            IN /\ Job(p).kind # "check" => state.cache = before.state.cache
               /\ old # NoConfig =>
                    /\ new.rest = old.rest
                    /\ \A f \in ConfigFields \ asked :
                         new[f] = old[f] \/ (f = "domain" /\ "mode" \in asked)
                    /\ Job(p).kind # "setup" => new.storage = old.storage
               /\ \A f \in SecretFields \ asked : env.secrets[f] = before.env.secrets[f]
               /\ before.env.keys # 0 => env.keys = before.env.keys
               /\ Job(p).kind = "config" /\ task[p].result = "success"
                    => new.transcoding = Job(p).value
  BY DEF OnlyAskedIsChanged
<1>. PICK t, before, now, asked :
       /\ t = task[p] /\ before = began[p] /\ now = Sight(p)
       /\ asked = CASE Job(p).kind = "setup"  -> Given(p)
                    [] Job(p).kind = "config" -> {"transcoding"}
                    [] OTHER                  -> {}
  OBVIOUS
<1>1. /\ IsTask(t) /\ Phase(t, pc[p]) /\ pc[p] \in Labels /\ Follows(t, pc[p], before, now)
      /\ now.state = state /\ now.env = env /\ now.cache = carried[p] /\ t.job = Job(p)
  BY DEF CommandInv, Typed, Phases, AloneInv, Alone, Sight, Job
<1>2. /\ pc[p] # "idle" /\ IsJob(t.job) /\ IsState(before.state) /\ IsFile(before.env)
  BY <1>1 DEF Follows, Phase
<1>3. asked = CASE t.job.kind = "setup"  -> Named(t)
                [] t.job.kind = "config" -> {"transcoding"}
                [] OTHER                 -> {}
  <2>1. Given(p) = Named(t)
    BY <1>1 DEF Given, Named, Job
  <2>. QED BY <1>1, <2>1
<1>. PICK old, new : old = before.state.config /\ new = now.state.config
  OBVIOUS
<1>4. ASSUME Chosen(t), Read(t, now.cache, before),
             now.state = Persisted(t, now.cache, now.version)
      PROVE  /\ now.state.cache = before.state.cache
             /\ old # NoConfig =>
                  /\ new.rest = old.rest
                  /\ \A f \in ConfigFields \ asked :
                       new[f] = old[f] \/ (f = "domain" /\ "mode" \in asked)
                  /\ t.job.kind # "setup" => new.storage = old.storage
             /\ t.job.kind = "config" => new.transcoding = t.job.value
  <2>1. IsConfig(t.config)
    BY <1>1, <1>2, <1>4, ChosenIsSound
  <2>2. /\ now.state.cache = before.state.cache
        /\ new = [t.config EXCEPT !.version = now.version] /\ t.source = old
    BY <1>4 DEF Persisted, Read
  <2>3. /\ \A f \in ConfigFields \cup {"rest", "storage"} : new[f] = t.config[f]
        /\ new.rest = t.config.rest /\ new.storage = t.config.storage
        /\ new.transcoding = t.config.transcoding
    BY <2>1, <2>2, FieldNames DEF IsConfig
  <2>4. t.job.kind = "config" => t.source # NoConfig
    BY <1>4 DEF Chosen, Kept
  <2>5. old # NoConfig =>
          /\ t.config.rest = old.rest
          /\ \A f \in ConfigFields \ asked :
               t.config[f] = old[f] \/ (f = "domain" /\ "mode" \in asked)
          /\ t.job.kind # "setup" => t.config.storage = old.storage
          /\ t.job.kind = "config" => t.config.transcoding = t.job.value
    BY <1>1, <1>2, <1>3, <1>4, <2>2, ChosenConfig
  <2>6. old # NoConfig =>
          \A f \in ConfigFields \ asked : new[f] = old[f] \/ (f = "domain" /\ "mode" \in asked)
    BY <2>3, <2>5
  <2>. QED BY <2>2, <2>3, <2>4, <2>5, <2>6
<1>5. /\ t.job.kind # "check" => state.cache = before.state.cache
      /\ old # NoConfig =>
           /\ new.rest = old.rest
           /\ \A f \in ConfigFields \ asked :
                new[f] = old[f] \/ (f = "domain" /\ "mode" \in asked)
           /\ t.job.kind # "setup" => new.storage = old.storage
      /\ t.job.kind = "config" /\ t.result = "success" => new.transcoding = t.job.value
  BY <1>1, <1>4, Outcome
<1>6. /\ \A f \in SecretFields \ asked : env.secrets[f] = before.env.secrets[f]
      /\ before.env.keys # 0 => env.keys = before.env.keys
  <2>1. CASE now.env = before.env
    BY <1>1, <2>1
  <2>2. CASE Chosen(t) /\ Read(t, now.cache, before) /\ Made(t, before.env, now.env)
    <3>1. PICK e, made : e = before.env /\ made = now.env
      OBVIOUS
    <3>2. e.secrets = t.saved /\ Made(t, e, made) /\ IsFile(e)
      BY <1>2, <2>2, <3>1 DEF Read
    <3>. QED BY <1>1, <1>2, <1>3, <2>2, <3>1, <3>2, ChosenSecrets
  <2>. QED BY <1>1, <2>1, <2>2, Outcome
<1>. QED BY <1>1, <1>5, <1>6

\* A command that runs alone changes what it was asked to change and nothing
\* else, also when it stops between two writes
\* (resolveSetupInput, CONFIG_SETTINGS.apply, persistStateStep, ensureEnvStep).
THEOREM OthersSettingsStay == Spec => []OnlyAskedIsChanged
BY CommandsHold, AloneLeavesTheRest, PTL

LEMMA AloneRepairs == CommandInv => SetupRepairs
<1>. SUFFICES ASSUME CommandInv, NEW p \in Procs, alone[p], Job(p).kind = "setup",
                     pc[p] = "done", task[p].result = "success"
     PROVE  LET again == Resolve([config |-> state.config, secrets |-> env.secrets,
                                  flags |-> NoValues, envFile |-> NoValues],
                                 NoValues, state.config.storage)
            IN /\ env.home /\ env.keys # 0 /\ env.jellyfin \in live
               /\ env.domain = state.config.domain /\ env.storage = state.config.storage
               /\ env.secrets = task[p].secrets
               /\ again.issues = {} /\ again.config = state.config
               /\ again.secrets = env.secrets
  BY DEF SetupRepairs
<1>. PICK t, before, now, config, secrets :
       /\ t = task[p] /\ before = began[p] /\ now = Sight(p)
       /\ config = state.config /\ secrets = env.secrets
  OBVIOUS
<1>1. /\ IsTask(t) /\ Phase(t, pc[p]) /\ Follows(t, pc[p], before, now)
      /\ now.state = state /\ now.env = env /\ now.live = live /\ now.version = cli
      /\ t.job.kind = "setup" /\ IsJob(t.job) /\ IsFile(env)
  BY DEF CommandInv, Typed, Phases, Phase, AloneInv, Alone, Sight, Job
<1>2. /\ Chosen(t) /\ Read(t, now.cache, before) /\ IsFile(before.env)
      /\ state = Persisted(t, now.cache, cli) /\ Made(t, before.env, env) /\ env.jellyfin \in live
  BY <1>1 DEF Follows
<1>3. /\ IsConfig(t.config) /\ IsSecrets(t.secrets)
      /\ \A f \in RequiredSecrets : t.secrets[f] # Undefined
  BY <1>1, <1>2, ChosenIsSound
<1>4. /\ env = Merged(t, before.env, env.keys, env.jellyfin) /\ env.keys # 0
  BY <1>1, <1>2 DEF Made
<1>5. env.home /\ env.domain = t.config.domain /\ env.storage = t.config.storage
  BY <1>4 DEF Merged
<1>6. secrets = t.secrets
  <2>1. PICK e, made : e = before.env /\ made = env
    OBVIOUS
  <2>2. e.secrets = t.saved /\ Made(t, e, made) /\ IsFile(e)
    BY <1>2, <2>1 DEF Read
  <2>. QED BY <1>1, <1>2, <2>1, <2>2, ChosenSecrets
<1>7. config = [t.config EXCEPT !.version = cli]
  BY <1>2 DEF Persisted
<1>8. IsConfig(config) /\ config.domain = t.config.domain /\ config.storage = t.config.storage
  BY <1>3, <1>7 DEF IsConfig
<1>9. LET again == Resolve([config |-> config, secrets |-> secrets,
                            flags |-> NoValues, envFile |-> NoValues],
                           NoValues, config.storage)
      IN again.issues = {} /\ again.config = config /\ again.secrets = secrets
  BY <1>3, <1>6, <1>8, SetupIsSettled
<1>. QED BY <1>2, <1>4, <1>5, <1>6, <1>8, <1>9

\* A setup that ran alone and succeeded leaves the two files and Jellyfin in
\* agreement, whatever was left of them before, and such that the next one
\* without options applies the same
\* (resolveSetupInput, persistStateStep, ensureEnvStep, ensureJellyfinAccess).
THEOREM SetupLeavesAgreement == Spec => []SetupRepairs
BY CommandsHold, AloneRepairs, PTL

-----------------------------------------------------------------------------
(* Types                                                                    *)

\* Every key that is in .env, was read from it or is about to be written there has
\* been generated here or created by Jellyfin.
Held(p) ==
  /\ task[p].result \in Results
  /\ disk[p].keys \in 0..keysMade /\ disk[p].jellyfin \in 0..issued
  /\ pc[p] = "ensuring" => key[p] \in 0..keysMade
  /\ pc[p] \in {"issue", "issuing"} => key[p] \in 1..issued
KeysExist ==
  /\ env.keys \in 0..keysMade /\ env.jellyfin \in 0..issued
  /\ \A p \in Procs : Held(p)

\* How a step of a command can end.
LEMMA StepsEnd ==
  ASSUME Typed, KeysExist, NEW p \in Procs, CliStep(p) \/ Stop(p)
  PROVE  task'[p].result \in Results
<1>1. /\ task = [q \in Procs |-> task[q]] /\ task[p].result \in Results
      /\ IsTask(task[p])
  BY DEF Typed, KeysExist, Held
<1>ended. ASSUME NEW result \in Results, End(p, result) PROVE task'[p].result \in Results
  BY <1>1, <1>ended DEF End, GoOn, IsTask
<1>gone. ASSUME NEW label, Go(p, label) PROVE task'[p].result \in Results
  BY <1>1, <1>gone DEF Go, GoOn
<1>same. ASSUME UNCHANGED task PROVE task'[p].result \in Results
  BY <1>1, <1>same
<1>words. /\ "success" \in Results /\ "stopped" \in Results /\ "refused" \in Results
          /\ "cancelled" \in Results /\ "incomplete" \in Results /\ "none" \in Results
  BY DEF Results
<1>2. CASE Stop(p) \/ Decline(p) \/ FetchNothing(p) \/ IssueWrite(p) \/ Store(p)
  BY <1>2, <1>ended, <1>words DEF Stop, Decline, FetchNothing, IssueWrite, Store
<1>3. CASE Begin(p)
  BY <1>3, <1>1, <1>words DEF Begin, NoTask
<1>4. CASE LoadState(p)
  <2>1. CASE End(p, "refused")
    BY <2>1, <1>ended, <1>words
  <2>2. CASE GoOn(p, "loadenv", [task[p] EXCEPT !.source = state.config])
    BY <2>2, <1>1 DEF GoOn, IsTask
  <2>. QED BY <1>4, <2>1, <2>2 DEF LoadState
<1>5. CASE LoadEnv(p)
  <2>. DEFINE t == task[p]
              loaded == [t EXCEPT !.saved = env.secrets, !.secrets = env.secrets,
                                  !.config = t.source]
  <2>1. CASE Job(p).kind = "setup"
    <3>1. GoOn(p, "resolve", [t EXCEPT !.saved = env.secrets])
      BY <1>5, <2>1 DEF LoadEnv
    <3>. QED BY <3>1, <1>1 DEF GoOn, IsTask
  <2>2. CASE /\ Job(p).kind # "setup"
             /\ ~env.home \/ \E f \in RequiredSecrets : env.secrets[f] = Undefined
    <3>1. End(p, "refused")
      BY <1>5, <2>2 DEF LoadEnv
    <3>. QED BY <3>1, <1>ended, <1>words
  <2>3. CASE /\ Job(p).kind # "setup"
             /\ ~(~env.home \/ \E f \in RequiredSecrets : env.secrets[f] = Undefined)
    <3>1. task' = [task EXCEPT ![p] = IF Job(p).kind = "config"
                                      THEN [loaded EXCEPT !.config.transcoding = Job(p).value]
                                      ELSE loaded]
      BY <1>5, <2>3 DEF LoadEnv, GoOn
    <3>2. loaded.result = t.result
      BY <1>1 DEF IsTask
    <3>3. [loaded EXCEPT !.config.transcoding = Job(p).value].result = t.result
      BY <1>1 DEF IsTask
    <3>. QED BY <1>1, <3>1, <3>2, <3>3
  <2>. QED BY <2>1, <2>2, <2>3
<1>6. CASE FirstResolve(p)
  <2>1. PICK storage \in Job(p).fuse :
          LET r == Resolution(p, storage)
          IN IF r.issues = {} THEN GoOn(p, IF ~Job(p).interactive \/ Job(p).yes
                                           THEN "persist" ELSE "confirm", Resolved(p, r))
             ELSE IF ~Job(p).interactive \/ \E i \in r.issues : i[2] = "invalid"
                  THEN End(p, "refused")
             ELSE GoOn(p, "wizard", [task[p] EXCEPT !.draft = r.draft])
    BY <1>6 DEF FirstResolve
  <2>2. PICK r : r = Resolution(p, storage)
    OBVIOUS
  <2>3. CASE task' = [task EXCEPT ![p] = Resolved(p, r)]
    BY <2>3, <1>1 DEF Resolved, IsTask
  <2>4. CASE End(p, "refused")
    BY <2>4, <1>ended, <1>words
  <2>5. CASE task' = [task EXCEPT ![p] = [task[p] EXCEPT !.draft = r.draft]]
    BY <2>5, <1>1 DEF IsTask
  <2>. QED BY <2>1, <2>2, <2>3, <2>4, <2>5 DEF GoOn
<1>7. CASE Answer(p)
  <2>1. PICK q, a : task' = [task EXCEPT ![p].answered = @ \cup {q},
                                         ![p].answers[q] = IF a = Blank THEN @ ELSE a]
    BY <1>7 DEF Answer
  <2>. QED BY <2>1, <1>1 DEF IsTask
<1>8. CASE SecondResolve(p)
  <2>1. PICK storage \in Job(p).fuse :
          LET r == Resolution(p, storage)
          IN IF r.issues # {}
             THEN GoOn(p, "done", [Resolved(p, r) EXCEPT !.result = "incomplete"])
             ELSE GoOn(p, IF Job(p).yes THEN "persist" ELSE "confirm", Resolved(p, r))
    BY <1>8 DEF SecondResolve
  <2>2. PICK r : r = Resolution(p, storage)
    OBVIOUS
  <2>3. CASE task' = [task EXCEPT ![p] = Resolved(p, r)]
    BY <2>3, <1>1 DEF Resolved, IsTask
  <2>4. CASE task' = [task EXCEPT ![p] = [Resolved(p, r) EXCEPT !.result = "incomplete"]]
    BY <2>4, <1>1, <1>words DEF Resolved, IsTask
  <2>. QED BY <2>1, <2>2, <2>3, <2>4 DEF GoOn
<1>9. CASE Approve(p) \/ Purge(p) \/ PersistRead(p) \/ PersistWrite(p) \/ EnsureWrite(p)
           \/ CreateKey(p)
  BY <1>9, <1>gone DEF Approve, Purge, PersistRead, PersistWrite, EnsureWrite, CreateKey
<1>10. CASE EnsureRead(p)
  BY <1>10, <1>same DEF EnsureRead
<1>11. CASE Access(p) \/ IssueRead(p)
  BY <1>11, <1>gone, <1>ended, <1>words DEF Access, IssueRead
<1>12. CASE LoadForCheck(p)
  <2>1. CASE End(p, "success")
    BY <2>1, <1>ended, <1>words
  <2>2. CASE GoOn(p, "fetch", [task[p] EXCEPT !.source = state.config])
    BY <2>2, <1>1 DEF GoOn, IsTask
  <2>. QED BY <1>12, <2>1, <2>2 DEF LoadForCheck
<1>13. CASE Fetch(p)
  BY <1>13, <1>gone, <1>ended, <1>words DEF Fetch
<1>. QED BY <1>2, <1>3, <1>4, <1>5, <1>6, <1>7, <1>8, <1>9, <1>10, <1>11, <1>12, <1>13
        DEF CliStep

\* A command reads .env before it writes it, and writes a key it read there,
\* generated, or was given by Jellyfin.
LEMMA StepKeepsKeysExist ==
  ASSUME Typed, Phases, KeysExist, NEW p \in Procs, CliStep(p) \/ Stop(p)
  PROVE  KeysExist'
<1>1. /\ pc \in [Procs -> Labels] /\ key = [q \in Procs |-> key[q]]
      /\ disk = [q \in Procs |-> disk[q]]
      /\ live \subseteq 1..issued /\ issued \in Nat /\ keysMade \in Nat
      /\ IsFile(env) /\ \A q \in Procs : IsFile(disk[q])
  BY DEF Typed
<1>2. /\ \A q \in Procs \ {p} : pc'[q] = pc[q] /\ task'[q] = task[q]
      /\ task'[p].result \in Results
  BY StepsEnd, StepKeepsPhases
<1>. DEFINE Own == /\ disk'[p].keys \in 0..keysMade' /\ disk'[p].jellyfin \in 0..issued'
                   /\ pc'[p] = "ensuring" => key'[p] \in 0..keysMade'
                   /\ pc'[p] \in {"issue", "issuing"} => key'[p] \in 1..issued'
            File == env'.keys \in 0..keysMade' /\ env'.jellyfin \in 0..issued'
            Others == \A q \in Procs \ {p} : disk'[q] = disk[q] /\ key'[q] = key[q]
            Grown == /\ issued' \in Nat /\ keysMade' \in Nat
                     /\ issued' >= issued /\ keysMade' >= keysMade
<1>sum. ASSUME Own, File, Others, Grown PROVE KeysExist'
  <2>1. Held(p)'
    BY <1>2, <1>sum DEF Held, Results
  <2>2. ASSUME NEW q \in Procs \ {p} PROVE Held(q)'
    <3>1. Held(q) /\ issued \in Nat /\ keysMade \in Nat
      BY <1>1 DEF KeysExist
    <3>2. /\ pc'[q] = pc[q] /\ task'[q] = task[q] /\ disk'[q] = disk[q] /\ key'[q] = key[q]
          /\ Results' = Results
      BY <1>2, <1>sum DEF Results
    <3>. QED BY <1>sum, <3>1, <3>2 DEF Held
  <2>. QED BY <2>1, <2>2, <1>sum DEF KeysExist
<1>quiet. ASSUME UNCHANGED <<env, issued, keysMade, disk, key>>,
                 pc'[p] \notin {"ensuring", "issue", "issuing"}
          PROVE  KeysExist'
  BY <1>quiet, <1>1, <1>sum DEF KeysExist, Held
<1>. HIDE DEF Own, File, Others, Grown
<1>went. ASSUME NEW label, NEW t, GoOn(p, label, t) PROVE pc'[p] = label
  BY <1>went, <1>1 DEF GoOn
<1>3. CASE Stop(p) \/ Decline(p) \/ FetchNothing(p) \/ Store(p)
  BY <1>3, <1>went, <1>quiet
     DEF Stop, Decline, FetchNothing, Store, End, files, jellyfin, history
<1>4. CASE Begin(p)
  <2>1. /\ UNCHANGED <<env, issued, keysMade>> /\ disk' = [disk EXCEPT ![p] = NoEnv]
        /\ key' = [key EXCEPT ![p] = 0] /\ pc'[p] \in {"confirm", "load"}
    BY <1>4, <1>1 DEF Begin, files, jellyfin
  <2>2. NoEnv.keys = 0 /\ NoEnv.jellyfin = 0
    BY DEF NoEnv
  <2>3. Own
    BY <1>1, <2>1, <2>2 DEF Own
  <2>4. File /\ Grown
    BY <1>1, <2>1 DEF File, Grown, KeysExist
  <2>5. Others
    BY <1>1, <2>1 DEF Others
  <2>. QED BY <2>3, <2>4, <2>5, <1>sum
<1>5. CASE LoadState(p) \/ LoadForCheck(p) \/ Fetch(p)
  BY <1>5, <1>went, <1>quiet DEF LoadState, LoadForCheck, Fetch, End, Go, files, jellyfin, history
<1>6. CASE LoadEnv(p)
  <2>1. pc'[p] \in {"resolve", "done", "purge", "persist", "confirm"}
    <3>1. CASE Job(p).kind = "setup"
      BY <1>6, <3>1, <1>went DEF LoadEnv
    <3>2. CASE /\ Job(p).kind # "setup"
               /\ ~env.home \/ \E f \in RequiredSecrets : env.secrets[f] = Undefined
      BY <1>6, <3>2, <1>went DEF LoadEnv, End
    <3>3. CASE /\ Job(p).kind # "setup"
               /\ ~(~env.home \/ \E f \in RequiredSecrets : env.secrets[f] = Undefined)
      <4>1. \E label \in {"purge", "persist", "confirm"} : \E t : GoOn(p, label, t)
        BY <1>6, <3>3 DEF LoadEnv
      <4>. QED BY <4>1, <1>went
    <3>. QED BY <3>1, <3>2, <3>3
  <2>. QED BY <1>6, <2>1, <1>quiet DEF LoadEnv, files, jellyfin, history
<1>7. CASE FirstResolve(p)
  <2>1. \E label \in {"persist", "confirm", "done", "wizard"} : \E t : GoOn(p, label, t)
    BY <1>7 DEF FirstResolve, End
  <2>. QED BY <1>7, <2>1, <1>went, <1>quiet DEF FirstResolve, files, jellyfin, history
<1>8. CASE Answer(p)
  BY <1>8, <1>quiet DEF Answer, files, jellyfin, history
<1>9. CASE SecondResolve(p)
  <2>1. \E label \in {"persist", "confirm", "done"} : \E t : GoOn(p, label, t)
    BY <1>9 DEF SecondResolve, End
  <2>. QED BY <1>9, <2>1, <1>went, <1>quiet DEF SecondResolve, files, jellyfin, history
<1>10. CASE Approve(p) \/ PersistRead(p) \/ PersistWrite(p)
  BY <1>10, <1>went, <1>quiet
     DEF Approve, PersistRead, PersistWrite, AfterPersist, Go, files, jellyfin, history
<1>11. CASE Purge(p)
  BY <1>11, <1>went, <1>quiet DEF Purge, Go, files, history
<1>12. CASE EnsureRead(p)
  <2>1. /\ disk' = [disk EXCEPT ![p] = env] /\ key' = [key EXCEPT ![p] = KeysFor(env)]
        /\ keysMade' = IF KeysFor(env) > keysMade THEN KeysFor(env) ELSE keysMade
        /\ UNCHANGED <<env, issued>> /\ pc'[p] \in {"access", "ensuring"}
    BY <1>12, <1>1 DEF EnsureRead, files
  <2>2. KeysFor(env) \in 0..keysMade + 1
    BY <1>1 DEF KeysFor, KeysExist
  <2>3. Grown /\ KeysFor(env) \in 0..keysMade'
    BY <2>1, <2>2, <1>1 DEF Grown
  <2>4. File
    BY <2>1, <2>3, <1>1 DEF File, Grown, KeysExist
  <2>5. Own
    BY <2>1, <2>3, <2>4, <1>1 DEF Own, File
  <2>6. Others
    BY <2>1, <1>1 DEF Others
  <2>. QED BY <2>3, <2>4, <2>5, <2>6, <1>sum
<1>13. CASE EnsureWrite(p)
  <2>1. /\ env'.keys = key[p] /\ env'.jellyfin = disk[p].jellyfin
        /\ UNCHANGED <<issued, keysMade, disk, key>>
        /\ pc[p] = "ensuring" /\ pc'[p] = "access"
    BY <1>13, <1>went DEF EnsureWrite, NextEnv, Go, jellyfin
  <2>. QED BY <2>1, <1>1, <1>sum DEF Own, File, Others, Grown, KeysExist, Held
<1>14. CASE Access(p)
  <2>1. /\ UNCHANGED <<env, disk, issued, keysMade>> /\ pc'[p] \in {"done", "create", "issue"}
        /\ key' = [key EXCEPT ![p] = IF live = {} THEN @ ELSE FirstKey(live)]
        /\ pc'[p] = "issue" => live # {}
    BY <1>14, <1>went DEF Access, End, Go, files, jellyfin
  <2>2. live # {} => FirstKey(live) \in 1..issued
    <3>1. PICK l : l = live
      OBVIOUS
    <3>2. l \subseteq Nat /\ l \subseteq 1..issued
      BY <3>1, <1>1
    <3>. QED BY <3>1, <3>2, ActiveKey
  <2>3. Own
    BY <2>1, <2>2, <1>1 DEF Own, KeysExist, Held
  <2>4. Others /\ File /\ Grown
    BY <2>1, <1>1 DEF Others, File, Grown, KeysExist
  <2>. QED BY <2>3, <2>4, <1>sum
<1>15. CASE CreateKey(p)
  <2>1. /\ live' = live \cup {issued + 1} /\ issued' = issued + 1
        /\ key' = [key EXCEPT ![p] = FirstKey(live')]
        /\ UNCHANGED <<env, keysMade, disk>> /\ pc'[p] = "issue"
    BY <1>15, <1>went DEF CreateKey, Go, files
  <2>2. PICK l : l = live'
    OBVIOUS
  <2>3. l \subseteq Nat /\ l # {} /\ l \subseteq 1..issued'
    BY <2>1, <2>2, <1>1
  <2>4. FirstKey(l) \in 1..issued'
    BY <2>3, ActiveKey
  <2>5. Grown
    BY <2>1, <1>1 DEF Grown
  <2>6. Own
    BY <2>1, <2>2, <2>4, <1>1 DEF Own, KeysExist, Held
  <2>7. Others /\ File
    BY <2>1, <1>1 DEF Others, File, KeysExist
  <2>. QED BY <2>5, <2>6, <2>7, <1>sum
<1>16. CASE IssueRead(p)
  <2>1. /\ pc[p] = "issue" /\ disk' = [disk EXCEPT ![p] = env]
        /\ UNCHANGED <<env, issued, keysMade, key>> /\ pc'[p] \in {"done", "issuing"}
    BY <1>16, <1>went DEF IssueRead, End, Go, files, jellyfin
  <2>2. Own
    BY <2>1, <1>1 DEF Own, KeysExist, Held
  <2>3. Others /\ File /\ Grown
    BY <2>1, <1>1 DEF Others, File, Grown, KeysExist
  <2>. QED BY <2>2, <2>3, <1>sum
<1>17. CASE IssueWrite(p)
  <2>1. /\ pc[p] = "issuing" /\ env' = [disk[p] EXCEPT !.jellyfin = key[p]]
        /\ UNCHANGED <<issued, keysMade, disk, key>> /\ pc'[p] = "done"
    BY <1>17, <1>went DEF IssueWrite, End, jellyfin
  <2>2. env'.keys = disk[p].keys /\ env'.jellyfin = key[p]
    BY <2>1, <1>1 DEF IsFile, IsEnv
  <2>. QED BY <2>1, <2>2, <1>1, <1>sum DEF Own, File, Others, Grown, KeysExist, Held
<1>. QED BY <1>3, <1>4, <1>5, <1>6, <1>7, <1>8, <1>9, <1>10, <1>11, <1>12, <1>13, <1>14,
            <1>15, <1>16, <1>17 DEF CliStep

\* Types, for any number of terminals; and a key in .env is one that was generated
\* here, or created by Jellyfin, however the writes of the commands overlap
\* (ensureEnvStep, ensureJellyfinAccess, persistIssuedKey).
THEOREM TypeCorrect == Spec => []TypeOK
<1>1. Init => KeysExist
  <2>. SUFFICES ASSUME Init PROVE KeysExist
    OBVIOUS
  <2>1. PICK s \in Scenarios :
          env = s.env /\ issued = s.env.jellyfin /\ keysMade = s.env.keys
    BY DEF Init
  <2>2. env.keys \in 0..keysMade /\ env.jellyfin \in 0..issued
    BY <2>1, ScenariosAssumption
  <2>3. /\ pc = [p \in Procs |-> "idle"] /\ task = [p \in Procs |-> NoTask]
        /\ disk = [p \in Procs |-> NoEnv] /\ keysMade \in Nat /\ issued \in Nat
    BY <2>1, ScenariosAssumption DEF Init
  <2>4. NoTask.result \in Results /\ NoEnv.keys = 0 /\ NoEnv.jellyfin = 0
    BY DEF NoTask, Results, NoEnv
  <2>. QED BY <2>2, <2>3, <2>4 DEF KeysExist, Held
<1>2. CommandInv /\ KeysExist /\ [Next]_vars => KeysExist'
  <2>. SUFFICES ASSUME CommandInv, KeysExist, [Next]_vars PROVE KeysExist'
    OBVIOUS
  <2>1. ASSUME UNCHANGED <<files, jellyfin, pc, task, key, disk>> PROVE KeysExist'
    BY <2>1 DEF KeysExist, Held, files, jellyfin, Results
  <2>2. CASE UNCHANGED vars \/ TimePasses \/ SetClock \/ Publish
    BY <2>1, <2>2 DEF vars, command, TimePasses, SetClock, Publish
  <2>3. ASSUME NEW p \in Procs, CliStep(p) \/ Stop(p) PROVE KeysExist'
    BY <2>3, StepKeepsKeysExist DEF CommandInv
  <2>. QED BY <2>2, <2>3 DEF Next
<1>3. CommandInv /\ KeysExist /\ NewsInv => TypeOK
  <2>. SUFFICES ASSUME CommandInv, KeysExist, NewsInv PROVE TypeOK
    OBVIOUS
  <2>1. state.config.mode \in DeployModes \cup {"none"}
    <3>1. state.config = NoConfig \/ IsConfig(state.config)
      BY DEF CommandInv, Typed, IsState
    <3>2. NoConfig.mode = "none"
      BY DEF NoConfig
    <3>. QED BY <3>1, <3>2 DEF IsConfig
  <2>2. key \in [Procs -> Nat]
    BY DEF CommandInv, Typed
  <2>. QED BY <2>1, <2>2
          DEF CommandInv, Typed, KeysExist, Held, NewsInv, NewsTypes, TypeOK, Tolds
<1>. QED BY <1>1, <1>2, <1>3, CommandsHold, InitIsTrue, StepKeepsNews, PTL DEF Spec
-----------------------------------------------------------------------------
(* update --check                                                           *)

\* With one terminal every command runs alone.
AllAlone == \A p \in Procs : pc[p] # "idle" => alone[p]

LEMMA StepLeavesAlone ==
  ASSUME CommandInv, AllAlone, NEW t, Procs = {t}, [Next]_vars
  PROVE  AllAlone'
<1>1. CASE UNCHANGED <<pc, alone>>
  BY <1>1 DEF AllAlone
<1>2. CASE CliStep(t) \/ Stop(t)
  <2>1. CASE Begin(t)
    <3>1. alone' = [q \in Procs |-> q = t /\ \A r \in Procs : ~Busy(r)] /\ ~Busy(t)
      BY <2>1 DEF Begin
    <3>2. alone'[t]
      BY <3>1
    <3>. QED BY <3>2 DEF AllAlone
  <2>2. CASE ~Begin(t)
    <3>1. alone' = alone /\ pc[t] # "idle"
      BY <1>2, <2>2 DEF CliStep, Stop, Busy, LoadState, LoadEnv, FirstResolve, Answer,
         SecondResolve, Approve, Decline, Purge, PersistRead, PersistWrite, EnsureRead,
         EnsureWrite, Access, CreateKey, IssueRead, IssueWrite, LoadForCheck, Fetch,
         FetchNothing, Store, history
    <3>. QED BY <3>1 DEF AllAlone
  <2>. QED BY <2>1, <2>2
<1>3. CASE UNCHANGED vars \/ TimePasses \/ SetClock \/ Publish
  BY <1>1, <1>3 DEF vars, command, history, TimePasses, SetClock, Publish
<1>. QED BY <1>2, <1>3 DEF Next

LEMMA StoreIsQuiet ==
  ASSUME CommandInv, AllAlone, NEW t, Procs = {t}, [Next]_vars,
         NEW p \in Procs, pc[p] = "storing", pc'[p] = "done"
  PROVE  state'.config = state.config
<1>1. Alone(p)
  BY DEF AllAlone, CommandInv, AloneInv
<1>2. task[p].source = began[p].state.config /\ state = began[p].state
  BY <1>1 DEF Alone, Follows, Sight, Writing, Last
<1>3. CASE UNCHANGED vars \/ TimePasses \/ SetClock \/ Publish
  BY <1>3 DEF vars, files, TimePasses, SetClock, Publish
<1>4. CASE Store(p)
  BY <1>2, <1>4 DEF Store
<1>5. CASE Stop(p)
  BY <1>5 DEF Stop, files
<1>6. (CliStep(p) \/ Stop(p)) => Store(p) \/ Stop(p)
  BY DEF CliStep, Begin, Busy, LoadState, LoadEnv, FirstResolve, Answer, SecondResolve,
     Approve, Decline, Purge, PersistRead, PersistWrite, EnsureRead, EnsureWrite, Access,
     CreateKey, IssueRead, IssueWrite, LoadForCheck, Fetch, FetchNothing
<1>. QED BY <1>3, <1>4, <1>5, <1>6 DEF Next

\* "Only look for a new release, without changing anything" (update.command.ts) is
\* true of the settings as long as there is one terminal.  With two, a check
\* writes the state it has loaded over what the other command has saved
\* meanwhile (storeUpdateCache).
THEOREM LoneCheckChangesNothing ==
  ASSUME NEW t, Procs = {t}
  PROVE  Spec => CheckChangesNothing
<1>1. Init => AllAlone
  BY DEF Init, AllAlone
<1>2. CommandInv /\ AllAlone /\ [Next]_vars => AllAlone'
  BY StepLeavesAlone
<1>. DEFINE Quiet == \A p \in Procs : pc[p] = "storing" /\ pc'[p] = "done"
                                        => state'.config = state.config
<1>3. CommandInv /\ AllAlone /\ [Next]_vars => [Quiet]_vars
  BY StoreIsQuiet
<1>. QED BY <1>1, <1>2, <1>3, CommandsHold, PTL DEF Spec, CheckChangesNothing
-----------------------------------------------------------------------------
(* The order of the releases                                                *)

LEMMA FirstOfCores ==
  ASSUME NEW v \in Semvers, NEW w \in Semvers, NEW i \in 1..3, v.core[i] # w.core[i],
         \A j \in 1..i-1 : v.core[j] = w.core[j]
  PROVE  CompareSemver(v, w) = Sign(v.core[i] - w.core[i])
<1>. DEFINE different == {k \in 1..3 : Sign(v.core[k] - w.core[k]) # 0}
<1>1. /\ DOMAIN v.core = 1..3 /\ DOMAIN w.core = 1..3
      /\ \A k \in 1..3 : v.core[k] \in Nat /\ w.core[k] \in Nat
  BY DEF Semvers
<1>2. i \in different /\ \A k \in different : i <= k
  BY <1>1 DEF Sign
<1>3. (CHOOSE k \in different : \A j \in different : k <= j) = i
  BY <1>2, Earliest
<1>4. FirstDifference(v.core, w.core, LAMBDA a, b : Sign(a - b)) = Sign(v.core[i] - w.core[i])
  BY <1>1, <1>2, <1>3 DEF FirstDifference
<1>. QED BY <1>2, <1>4 DEF CompareSemver

LEMMA SameCores ==
  ASSUME NEW v \in Semvers, NEW w \in Semvers, v.core = w.core
  PROVE  CompareSemver(v, w) = ComparePrerelease(v.pre, w.pre)
<1>1. \A k \in 1..3 : v.core[k] \in Nat
  BY DEF Semvers
<1>2. DOMAIN v.core = 1..3 /\ \A k \in 1..3 : Sign(v.core[k] - w.core[k]) = 0
  BY <1>1 DEF Sign, Semvers
<1>3. FirstDifference(v.core, w.core, LAMBDA a, b : Sign(a - b)) = 0
  BY <1>2 DEF FirstDifference
<1>. QED BY <1>3 DEF CompareSemver

\* Identifiers compare as section 11 orders them.
LEMMA IdentifiersAreOrdered ==
  ASSUME NEW x \in Identifiers, NEW y \in Identifiers
  PROVE  /\ CompareIdentifier(x, x) = 0
         /\ Lower(x, y) => CompareIdentifier(x, y) = -1 /\ CompareIdentifier(y, x) = 1
<1>1. /\ x.numeric \in BOOLEAN /\ y.numeric \in BOOLEAN /\ x.rank \in Int /\ y.rank \in Int
  BY DEF Identifiers
<1>2. CompareIdentifier(x, x) = 0
  BY <1>1 DEF CompareIdentifier, Sign
<1>3. ASSUME Lower(x, y) PROVE CompareIdentifier(x, y) = -1 /\ CompareIdentifier(y, x) = 1
  <2>1. CASE x.numeric = y.numeric
    BY <1>1, <1>3, <2>1 DEF Lower, CompareIdentifier, Sign
  <2>2. CASE x.numeric # y.numeric
    BY <1>1, <1>3, <2>2 DEF Lower, CompareIdentifier
  <2>. QED BY <2>1, <2>2
<1>. QED BY <1>2, <1>3

LEMMA FirstOfPrereleases ==
  ASSUME NEW p \in Seq(Identifiers), NEW q \in Seq(Identifiers),
         NEW i \in DOMAIN p \cap DOMAIN q, CompareIdentifier(p[i], q[i]) # 0,
         \A j \in 1..i-1 : p[j] = q[j]
  PROVE  ComparePrerelease(p, q) = CompareIdentifier(p[i], q[i])
<1>. DEFINE different == {k \in DOMAIN p \cap DOMAIN q : CompareIdentifier(p[k], q[k]) # 0}
<1>1. \A k \in DOMAIN p \cap DOMAIN q : k \in Nat /\ p[k] \in Identifiers /\ q[k] \in Identifiers
  OBVIOUS
<1>2. i \in different /\ \A k \in different : i <= k
  <2>1. \A k \in DOMAIN p \cap DOMAIN q : k < i => CompareIdentifier(p[k], q[k]) = 0
    BY <1>1, IdentifiersAreOrdered
  <2>. QED BY <1>1, <2>1
<1>3. (CHOOSE k \in different : \A j \in different : k <= j) = i
  <2>1. different \in SUBSET Int
    BY <1>1
  <2>. HIDE DEF different
  <2>. QED BY <1>2, <2>1, Earliest
<1>4. FirstDifference(p, q, CompareIdentifier) = CompareIdentifier(p[i], q[i])
  BY <1>2, <1>3 DEF FirstDifference
<1>5. p # <<>> /\ q # <<>>
  OBVIOUS
<1>. QED BY <1>4, <1>5 DEF ComparePrerelease

LEMMA NoDifference ==
  ASSUME NEW p \in Seq(Identifiers), NEW q \in Seq(Identifiers),
         \A k \in DOMAIN p \cap DOMAIN q : p[k] = q[k], p # <<>>, q # <<>>
  PROVE  ComparePrerelease(p, q) = Sign(Len(p) - Len(q))
<1>1. \A k \in DOMAIN p \cap DOMAIN q : CompareIdentifier(p[k], q[k]) = 0
  <2>1. \A k \in DOMAIN p \cap DOMAIN q : q[k] \in Identifiers
    OBVIOUS
  <2>. QED BY <2>1, IdentifiersAreOrdered
<1>2. FirstDifference(p, q, CompareIdentifier) = 0
  BY <1>1 DEF FirstDifference
<1>. QED BY <1>2 DEF ComparePrerelease

LEMMA PrereleasesAreOrdered ==
  ASSUME NEW p \in Seq(Identifiers), NEW q \in Seq(Identifiers), p # <<>>, q # <<>>,
         LowerPre(p, q)
  PROVE  ComparePrerelease(p, q) = -1 /\ ComparePrerelease(q, p) = 1
<1>1. CASE \E i \in DOMAIN p \cap DOMAIN q : Lower(p[i], q[i]) /\ \A j \in 1..i-1 : p[j] = q[j]
  <2>1. PICK i \in DOMAIN p \cap DOMAIN q : Lower(p[i], q[i]) /\ \A j \in 1..i-1 : p[j] = q[j]
    BY <1>1
  <2>2. p[i] \in Identifiers /\ q[i] \in Identifiers
    OBVIOUS
  <2>3. CompareIdentifier(p[i], q[i]) = -1 /\ CompareIdentifier(q[i], p[i]) = 1
    BY <2>1, <2>2, IdentifiersAreOrdered
  <2>4. ComparePrerelease(p, q) = CompareIdentifier(p[i], q[i])
    BY <2>1, <2>3, FirstOfPrereleases
  <2>5. ComparePrerelease(q, p) = CompareIdentifier(q[i], p[i])
    BY <2>1, <2>3, FirstOfPrereleases
  <2>. QED BY <2>3, <2>4, <2>5
<1>2. CASE Len(p) < Len(q) /\ \A j \in DOMAIN p : p[j] = q[j]
  <2>1. ComparePrerelease(p, q) = Sign(Len(p) - Len(q))
    BY <1>2, NoDifference
  <2>2. ComparePrerelease(q, p) = Sign(Len(q) - Len(p))
    BY <1>2, NoDifference
  <2>. QED BY <1>2, <2>1, <2>2 DEF Sign
<1>. QED BY <1>1, <1>2 DEF LowerPre

\* compareSemver orders the versions as section 11 does.
LEMMA CompareFollowsPrecedence ==
  ASSUME NEW v \in Semvers, NEW w \in Semvers
  PROVE  /\ Precedes(v, w) => CompareSemver(v, w) = -1 /\ CompareSemver(w, v) = 1
         /\ CompareSemver(v, v) = 0
<1>1. /\ v.pre \in Seq(Identifiers) /\ w.pre \in Seq(Identifiers)
      /\ \A k \in 1..3 : v.core[k] \in Nat /\ w.core[k] \in Nat
  BY DEF Semvers
<1>2. ASSUME NEW i \in 1..3, v.core[i] < w.core[i], \A j \in 1..i-1 : v.core[j] = w.core[j]
      PROVE  CompareSemver(v, w) = -1 /\ CompareSemver(w, v) = 1
  <2>1. v.core[i] # w.core[i]
    BY <1>1, <1>2
  <2>2. CompareSemver(v, w) = Sign(v.core[i] - w.core[i])
    BY <1>2, <2>1, FirstOfCores
  <2>3. CompareSemver(w, v) = Sign(w.core[i] - v.core[i])
    BY <1>2, <2>1, FirstOfCores
  <2>. QED BY <1>1, <1>2, <2>2, <2>3 DEF Sign
<1>3. ASSUME v.core = w.core, v.pre # <<>>, w.pre = <<>>
      PROVE  CompareSemver(v, w) = -1 /\ CompareSemver(w, v) = 1
  <2>1. /\ CompareSemver(v, w) = ComparePrerelease(v.pre, w.pre)
        /\ CompareSemver(w, v) = ComparePrerelease(w.pre, v.pre)
    BY <1>3, SameCores
  <2>2. /\ ComparePrerelease(v.pre, w.pre) = Sign(Len(w.pre) - Len(v.pre))
        /\ ComparePrerelease(w.pre, v.pre) = Sign(Len(v.pre) - Len(w.pre))
    BY <1>3 DEF ComparePrerelease
  <2>3. Len(w.pre) = 0 /\ Len(v.pre) \in Nat /\ Len(v.pre) # 0
    BY <1>1, <1>3
  <2>. QED BY <2>1, <2>2, <2>3 DEF Sign
<1>4. ASSUME v.core = w.core, v.pre # <<>>, w.pre # <<>>, LowerPre(v.pre, w.pre)
      PROVE  CompareSemver(v, w) = -1 /\ CompareSemver(w, v) = 1
  BY <1>1, <1>4, SameCores, PrereleasesAreOrdered
<1>5. CompareSemver(v, v) = 0
  <2>1. CompareSemver(v, v) = ComparePrerelease(v.pre, v.pre)
    BY SameCores
  <2>2. Len(v.pre) \in Nat /\ Sign(Len(v.pre) - Len(v.pre)) = 0
    BY <1>1 DEF Sign
  <2>3. CASE v.pre = <<>>
    BY <2>1, <2>2, <2>3 DEF ComparePrerelease
  <2>4. CASE v.pre # <<>>
    BY <1>1, <2>1, <2>2, <2>4, NoDifference
  <2>. QED BY <2>3, <2>4
<1>. QED BY <1>2, <1>3, <1>4, <1>5 DEF Precedes

\* Of two different prereleases one is lower, at the first identifier that differs
\* or by its length.
LEMMA PrereleasesDiffer ==
  ASSUME NEW p \in Seq(Identifiers), NEW q \in Seq(Identifiers), p # q
  PROVE  LowerPre(p, q) \/ LowerPre(q, p)
<1>. DEFINE different == {k \in DOMAIN p \cap DOMAIN q : p[k] # q[k]}
<1>1. \A k \in DOMAIN p \cap DOMAIN q :
        k \in Nat /\ k >= 1 /\ k <= Len(p) /\ k <= Len(q)
          /\ p[k] \in Identifiers /\ q[k] \in Identifiers
  OBVIOUS
<1>2. /\ Len(p) \in Nat /\ Len(q) \in Nat
      /\ DOMAIN p = 1..Len(p) /\ DOMAIN q = 1..Len(q)
  OBVIOUS
<1>3. CASE different # {}
  <2>1. different \subseteq Nat
    BY <1>1
  <2>2. PICK i \in different : \A k \in different : i <= k
    BY <1>3, <2>1, SmallestElement
  <2>3. \A j \in 1..i-1 : p[j] = q[j]
    <3> SUFFICES ASSUME NEW j \in 1..i-1 PROVE p[j] = q[j]
      OBVIOUS
    <3>1. j \in DOMAIN p \cap DOMAIN q /\ ~(i <= j)
      BY <1>1, <1>2, <2>2
    <3> QED
      BY <2>2, <3>1
  <2>4. Lower(p[i], q[i]) \/ Lower(q[i], p[i])
    <3>1. PICK x, y : x = p[i] /\ y = q[i]
      OBVIOUS
    <3>2. x \in Identifiers /\ y \in Identifiers /\ x # y
      BY <1>1, <2>2, <3>1
    <3>3. Lower(x, y) \/ Lower(y, x)
      BY <3>2 DEF Identifiers, Lower
    <3> QED
      BY <3>1, <3>3
  <2> QED
    BY <2>2, <2>3, <2>4 DEF LowerPre
<1>4. CASE different = {}
  <2>1. \A k \in DOMAIN p \cap DOMAIN q : p[k] = q[k]
    BY <1>4
  <2>2. Len(p) # Len(q)
    <3> SUFFICES ASSUME Len(p) = Len(q) PROVE FALSE
      OBVIOUS
    <3>1. DOMAIN p = DOMAIN q /\ \A k \in DOMAIN p : p[k] = q[k]
      BY <1>2, <2>1
    <3>2. p = [k \in DOMAIN p |-> p[k]] /\ q = [k \in DOMAIN q |-> q[k]]
      OBVIOUS
    <3>3. p = q
      BY <3>1, <3>2, Zenon
    <3> QED
      BY <3>3
  <2>3. CASE Len(p) < Len(q)
    <3>1. \A j \in DOMAIN p : p[j] = q[j]
      BY <1>2, <2>1, <2>3
    <3> QED
      BY <2>3, <3>1 DEF LowerPre
  <2>4. CASE Len(q) < Len(p)
    <3>1. \A j \in DOMAIN q : q[j] = p[j]
      BY <1>2, <2>1, <2>4
    <3> QED
      BY <2>4, <3>1 DEF LowerPre
  <2>5. PICK m, n : m = Len(p) /\ n = Len(q)
    OBVIOUS
  <2>6. m \in Nat /\ n \in Nat /\ m # n
    BY <1>2, <2>2, <2>5, Zenon
  <2>7. m < n \/ n < m
    BY ONLY <2>6
  <2> QED
    BY <2>3, <2>4, <2>5, <2>7, Zenon
<1> QED
  BY <1>3, <1>4

\* Of two different versions one precedes the other.
LEMMA VersionsDiffer ==
  ASSUME NEW v \in Semvers, NEW w \in Semvers, v # w
  PROVE  Precedes(v, w) \/ Precedes(w, v)
<1>1. /\ v.pre \in Seq(Identifiers) /\ w.pre \in Seq(Identifiers)
      /\ v.core \in [1..3 -> Nat] /\ w.core \in [1..3 -> Nat]
      /\ v.core # w.core \/ v.pre # w.pre
  BY DEF Semvers
<1>2. CASE v.core # w.core
  <2>. DEFINE different == {k \in 1..3 : v.core[k] # w.core[k]}
  <2>1. different # {} /\ different \subseteq Nat
    BY <1>1, <1>2
  <2>2. PICK i \in different : \A k \in different : i <= k
    BY <2>1, SmallestElement
  <2>3. \A j \in 1..i-1 : v.core[j] = w.core[j]
    <3> SUFFICES ASSUME NEW j \in 1..i-1 PROVE v.core[j] = w.core[j]
      OBVIOUS
    <3>1. j \in 1..3 /\ ~(i <= j)
      BY <2>2
    <3> QED
      BY <2>2, <3>1
  <2>4. v.core[i] < w.core[i] \/ w.core[i] < v.core[i]
    BY <1>1, <2>2
  <2> QED
    BY <2>2, <2>3, <2>4 DEF Precedes
<1>3. CASE v.core = w.core
  BY <1>1, <1>3, PrereleasesDiffer DEF Precedes
<1> QED
  BY <1>2, <1>3

\* compareSemver (semver.utils.ts) decides between any two versions, and as
\* section 11 of Semantic Versioning does: before, the same, or after.
THEOREM CompareIsPrecedence ==
  ASSUME NEW v \in Semvers, NEW w \in Semvers
  PROVE  /\ CompareSemver(v, w) = -1 <=> Precedes(v, w)
         /\ CompareSemver(v, w) = 0  <=> v = w
         /\ CompareSemver(v, w) = 1  <=> Precedes(w, v)
<1>1. Precedes(v, w) => CompareSemver(v, w) = -1
  BY CompareFollowsPrecedence
<1>2. Precedes(w, v) => CompareSemver(v, w) = 1
  BY CompareFollowsPrecedence
<1>3. v = w => CompareSemver(v, w) = 0
  BY CompareFollowsPrecedence
<1>4. Precedes(v, w) \/ Precedes(w, v) \/ v = w
  BY VersionsDiffer
<1> QED
  BY <1>1, <1>2, <1>3, <1>4

LEMMA NewerComesLater ==
  ASSUME NEW r \in Releases, NEW c \in Releases
  PROVE  IsNewer(Versions[r], Versions[c]) <=> r > c
<1>1. /\ r \in Nat /\ c \in Nat /\ Versions[r] \in Semvers /\ Versions[c] \in Semvers
  BY VersionsAssumption DEF Releases
<1>2. r < c => Precedes(Versions[r], Versions[c])
  BY VersionsAssumption
<1>3. c < r => Precedes(Versions[c], Versions[r])
  BY VersionsAssumption
<1>. QED BY <1>1, <1>2, <1>3, CompareIsPrecedence DEF IsNewer

\* What a command has told, and of which version it runs.
Announced ==
  /\ cli \in Releases /\ DOMAIN told = Procs
  /\ \A p \in Procs :
       told[p].release # 0 => /\ told[p].release \in Releases
                              /\ told[p].available <=> told[p].release > cli

LEMMA StepKeepsOrder == Announced /\ NewsTypes /\ [Next]_vars => Announced'
<1>. SUFFICES ASSUME Announced, NewsTypes, [Next]_vars PROVE Announced'
  OBVIOUS
<1>0. UNCHANGED cli
  BY DEF Next, vars, news, CliStep, Begin, LoadState, LoadEnv, FirstResolve, Answer,
         SecondResolve, Approve, Decline, Purge, PersistRead, PersistWrite, EnsureRead,
         EnsureWrite, Access, CreateKey, IssueRead, IssueWrite, LoadForCheck, Fetch,
         FetchNothing, Store, Stop, TimePasses, SetClock, Publish
<1>1. CASE UNCHANGED told
  BY <1>0, <1>1 DEF Announced, Releases
<1>2. ASSUME NEW p \in Procs, NEW t, told' = [told EXCEPT ![p] = t],
             t.release # 0 => t.release \in Releases /\ (t.available <=> t.release > cli)
      PROVE  Announced'
  <2>1. told'[p] = t /\ DOMAIN told' = Procs /\ \A q \in Procs \ {p} : told'[q] = told[q]
    BY <1>2 DEF Announced
  <2>. QED BY <1>0, <1>2, <2>1 DEF Announced, Releases
<1>3. ASSUME NEW p \in Procs, NEW r \in Releases, Tell(p, r) PROVE Announced'
  <2>. PICK t : t = [release |-> r, at |-> time,
                     available |-> IsNewer(Versions[r], Versions[cli])]
    OBVIOUS
  <2>1. told' = [told EXCEPT ![p] = t]
    BY <1>3 DEF Tell
  <2>2. t.release = r /\ (t.available <=> t.release > cli)
    BY NewerComesLater DEF Announced, IsNewer
  <2>. QED BY <1>2, <2>1, <2>2
<1>4. ASSUME NEW p \in Procs, CliStep(p) PROVE Announced'
  <2>1. CASE Begin(p)
    <3>1. told' = [told EXCEPT ![p] = NothingTold] /\ NothingTold.release = 0
      BY <2>1 DEF Begin, NothingTold
    <3>. QED BY <1>2, <3>1
  <2>2. CASE LoadForCheck(p)
    <3>1. state.cache.release # 0 => state.cache.release \in Releases
      BY DEF NewsTypes, Caches
    <3>. QED BY <1>1, <1>3, <2>2, <3>1 DEF LoadForCheck
  <2>3. CASE Fetch(p)
    BY <1>3, <2>3 DEF Fetch, NewsTypes
  <2>4. CASE ~Begin(p) /\ ~LoadForCheck(p) /\ ~Fetch(p)
    BY <1>1, <1>4, <2>4
    DEF CliStep, LoadState, LoadEnv, FirstResolve, Answer, SecondResolve, Approve, Decline,
        Purge, PersistRead, PersistWrite, EnsureRead, EnsureWrite, Access, CreateKey,
        IssueRead, IssueWrite, FetchNothing, Store, history
  <2>. QED BY <2>1, <2>2, <2>3, <2>4
<1>5. CASE \/ UNCHANGED vars \/ TimePasses \/ SetClock \/ Publish
           \/ \E p \in Procs : Stop(p)
  BY <1>1, <1>5 DEF vars, history, TimePasses, SetClock, Publish, Stop
<1>. QED BY <1>4, <1>5 DEF Next

\* An update is announced exactly when section 11 of Semantic Versioning puts
\* the release after the version that runs (compareSemver, isNewer).
THEOREM AnnouncementsAreTrue == Spec => []NewerIsNewer
<1>1. Init => Announced
  BY ScenariosAssumption DEF Init, Announced, NothingTold
<1>2. NewsInv => NewsTypes
  BY DEF NewsInv
<1>3. Announced => NewerIsNewer
  BY DEF Announced, NewerIsNewer
<1>. QED BY <1>1, <1>2, <1>3, StepKeepsOrder, InitIsTrue, StepKeepsNews, PTL DEF Spec
=============================================================================
