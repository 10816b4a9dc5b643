---------------------------- MODULE RetryProofs ----------------------------
(***************************************************************************)
(* Proofs about Retry, for every set of episodes, packs and rivals and for  *)
(* every deadline.                                                          *)
(***************************************************************************)
EXTENDS Retry, TLAPS

Unparsed == Packs \ Recognized

\* Whenever a pack is about to be sent, one has been chosen.
PackChosen == pc \in {"before", "grab"} => pack \in Packs

\* Files of unparsed packs are known to Sonarr's history, so that rollBack
\* can see them.
FilesRecorded ==
  \A e \in Episodes :
    lib[e].src \in Unparsed => lib[e].src \in imported /\ lib[e].src \in torrents

\* What ReadUse saw still holds when the torrent is deleted.
DeletesUnused ==
  pc = "delete" => /\ downloadId \notin shared
                   /\ downloadId \in Unparsed => downloadId \notin imported

\* A manual import never runs beside a rollback.
ImportIsFinal ==
  command.state = "running" =>
    pc \in {"importing", "done"} \/ (pc = "concluded" /\ outcome = "failed")

\* Sonarr leaves unparsed packs to the command.
UnparsedNeverPending ==
  \A h \in Hashes : tracked[h] = "importPending" => h \in Recognized \cup Rivals

IInv == /\ TypeOK /\ PackChosen
        /\ FilesRecorded /\ shared \subseteq torrents
        /\ DeletesUnused /\ ImportIsFinal /\ UnparsedNeverPending
-----------------------------------------------------------------------------
\* The inductive invariant holds in every library the command may find.
LEMMA InitIInv == Init => IInv
<1> SUFFICES ASSUME Init PROVE IInv
  OBVIOUS
<1>1. TypeOK
  <2> USE RetryAssumption DEF Init, Hashes
  <2>1. lib \in [Episodes -> [id : Nat, rank : Nat, src : Hashes \cup {NoPack}]]
    <3>1. imported \subseteq Hashes
      OBVIOUS
    <3> DEFINE FileType == [id : Nat, rank : Nat, src : Hashes \cup {NoPack}]
    <3>2. NoFile \in FileType
      BY DEF NoFile
    <3>3. \A h \in imported : [id |-> 1, rank |-> Rank[h], src |-> h] \in FileType
      BY <3>1
    <3>4. \A q \in OldRanks : [id |-> 1, rank |-> q, src |-> NoPack] \in FileType
      OBVIOUS
    <3> DEFINE Kept == {NoFile}
                       \cup {[id |-> 1, rank |-> Rank[h], src |-> h] : h \in imported}
                       \cup {[id |-> 1, rank |-> q, src |-> NoPack] : q \in OldRanks}
    <3>5. Kept \subseteq FileType
      BY <3>2, <3>3, <3>4
    <3>6. lib \in [Episodes -> Kept]
      OBVIOUS
    <3> HIDE DEF Kept, FileType
    <3>7. lib \in [Episodes -> FileType]
      BY ONLY <3>5, <3>6
    <3> QED
      BY <3>7 DEF FileType
  <2>2. grabbed \in [Hashes -> Nat] /\ torrents \subseteq Hashes
    OBVIOUS
  <2>3. command \in [state : CommandStates, files : SUBSET Episodes,
                    src : Hashes \cup {NoPack}]
    BY DEF NoCommand, CommandStates
  <2>4. tracked \in [Hashes -> TrackedStates]
    BY DEF TrackedStates
  <2>5. /\ season \in [Episodes -> Nat]
        /\ files \in [Episodes -> [id : Nat, rank : Nat]]
        /\ before \in [Hashes -> Nat]
    OBVIOUS
  <2>6. pc \in Labels /\ outcome \in Outcomes /\ code \in {-1, 0, 1, 2, 130}
    BY DEF Labels, Outcomes
  <2>7. imported \subseteq Hashes
    OBVIOUS
  <2> QED
    BY <2>1, <2>2, <2>3, <2>4, <2>5, <2>6, <2>7 DEF TypeOK
<1>2. FilesRecorded
  BY RetryAssumption DEF Init, FilesRecorded, Unparsed, Hashes, NoFile
<1> QED
  BY <1>1, <1>2 DEF Init, IInv, PackChosen, DeletesUnused, ImportIsFinal,
     UnparsedNeverPending, NoCommand

\* Counting one more record of any release leaves counters (SonarrGrabs).
LEMMA CountUp ==
  ASSUME NEW S, NEW f \in [S -> Nat], NEW x
  PROVE  [f EXCEPT ![x] = @ + 1] \in [S -> Nat]
<1>1. CASE x \in S
  BY <1>1
<1>2. CASE x \notin S
  BY <1>2
<1> QED
  BY <1>1, <1>2

\* Every step keeps the types, and a pack is chosen before one is sent.
LEMMA TypeStep ==
  ASSUME TypeOK, PackChosen, [Next]_vars
  PROVE  TypeOK' /\ PackChosen'
<1> USE RetryAssumption DEF TypeOK, PackChosen, Hashes, control, planning, attempt,
      library, downloads, settings, world, Goto, Finish, Exit
<1>1. CASE ReadSeasons
  BY <1>1 DEF ReadSeasons, NothingToRetry, Throw, Labels
<1>2. CASE SearchAndReadFiles
  BY <1>2 DEF SearchAndReadFiles, Throw, Labels
<1>3. CASE NextRelease
  BY <1>3 DEF NextRelease, Labels
<1>4. CASE ReadGrabCounts
  <2>1. before' \in [Hashes -> Nat] /\ pc' \in Labels /\ PackChosen'
    BY <1>4 DEF ReadGrabCounts, Labels
  <2>2. outcome' \in Outcomes /\ code' = code /\ aborted' = aborted
    BY <1>4 DEF ReadGrabCounts, Outcomes
  <2>3. /\ downloadId' = NoPack /\ queued' = FALSE /\ polls' = 0 /\ assigned' = {}
        /\ kept' = FALSE /\ incomplete' = FALSE
        /\ UNCHANGED <<planning, world>>
    BY <1>4 DEF ReadGrabCounts
  <2> QED
    BY <2>1, <2>2, <2>3
<1>5. CASE GrabRelease
  <2>1. CASE SonarrGrabsPack
    <3>0. grabbed \in [Hashes -> Nat]
      OBVIOUS
    <3>1. Recorded(pack) \in [Hashes -> Nat]
      BY <3>0, CountUp DEF Recorded
    <3>2. grabbed' \in [Hashes -> Nat]
      BY <2>1, <3>1 DEF SonarrGrabsPack
    <3> QED
      BY <1>5, <2>1, <3>2 DEF GrabRelease, SonarrGrabsPack, SonarrGrabs, Labels,
         Outcomes, TrackedStates
  <2>2. CASE UNCHANGED world
    BY <1>5, <2>2 DEF GrabRelease, Labels, Outcomes
  <2> QED
    BY <1>5, <2>1, <2>2 DEF GrabRelease
<1>6. CASE FindGrab
  BY <1>6 DEF FindGrab, NewGrabs, PollAgain, Tick, Throw, Labels
<1>7. CASE PollDelivery
  <2>1. queued' \in BOOLEAN
    BY <1>7 DEF PollDelivery, Throw, InQueue
  <2>2. pc' \in Labels /\ outcome' \in Outcomes /\ code' \in {code, 1, 130}
    BY <1>7 DEF PollDelivery, PollAgain, Throw, Labels, Outcomes
  <2>3. polls' \in Nat
    BY <1>7 DEF PollDelivery, PollAgain, Tick, Throw
  <2>4. /\ aborted' = aborted
        /\ UNCHANGED <<before, downloadId, assigned, kept, incomplete>>
        /\ UNCHANGED <<planning, world>>
    BY <1>7 DEF PollDelivery, PollAgain, Throw
  <2>5. pc' \notin {"before", "grab"}
    BY <1>7 DEF PollDelivery, PollAgain, Throw
  <2> QED
    BY <2>1, <2>2, <2>3, <2>4, <2>5
<1>8. CASE ListFiles
  BY <1>8 DEF ListFiles, Importable, Labels
<1>9. CASE Probe
  BY <1>9 DEF Probe, Labels
<1>10. CASE CheckHealth
  BY <1>10 DEF CheckHealth, Labels
<1>11. CASE StartImport
  BY <1>11 DEF StartImport, SonarrQueuesImport, CommandStates, Labels, Outcomes
<1>12. CASE PollImport
  BY <1>12 DEF PollImport, Tick, Labels, Outcomes
<1>13. CASE RecheckEpisodes
  BY <1>13 DEF RecheckEpisodes, Labels, Outcomes
<1>14. CASE ReadUse
  <2>1. pc' \in {"unqueue", "delete"}
    BY <1>14 DEF ReadUse
  <2>2. kept' \in BOOLEAN
    <3>1. kept' = kept \/ kept' = UsedByLibrary(downloadId)
      BY <1>14, Zenon DEF ReadUse
    <3>2. UsedByLibrary(downloadId) \in BOOLEAN
      BY SMT DEF UsedByLibrary
    <3> QED
      BY <3>1, <3>2, Zenon
  <2>5. incomplete' \in BOOLEAN
    BY <1>14 DEF ReadUse
  <2>3. UNCHANGED <<control, before, downloadId, queued, polls, assigned>>
    BY <1>14 DEF ReadUse
  <2>4. UNCHANGED <<planning, world>>
    BY <1>14 DEF ReadUse
  <2> QED
    BY <2>1, <2>2, <2>3, <2>4, <2>5 DEF Labels
<1>15. CASE DeleteTorrent
  <2>1. torrents' \subseteq Hashes /\ incomplete' \in BOOLEAN
    BY <1>15 DEF DeleteTorrent
  <2>2. /\ pc' = "unqueue"
        /\ UNCHANGED <<control, before, downloadId, queued, polls, assigned, kept>>
        /\ UNCHANGED <<planning, grabbed, tracked, blocklist, flaky>>
        /\ UNCHANGED <<library, settings>>
    BY <1>15 DEF DeleteTorrent
  <2> QED
    BY <2>1, <2>2 DEF Labels
<1>16. CASE DropFromQueue
  <2>1. tracked' \in [Hashes -> TrackedStates]
    BY <1>16 DEF DropFromQueue, SonarrDrops, TrackedStates
  <2>2. blocklist' \subseteq Hashes
    BY <1>16 DEF DropFromQueue, SonarrDrops
  <2>3. incomplete' \in BOOLEAN
    BY <1>16 DEF DropFromQueue
  <2>4. /\ pc' = "concluded" /\ outcome' = "unverified"
        /\ UNCHANGED <<code, aborted, before, downloadId, queued, polls, assigned>>
        /\ UNCHANGED <<kept, planning>>
    BY <1>16 DEF DropFromQueue
  <2>5. UNCHANGED <<grabbed, torrents, flaky, library, settings>>
    BY <1>16 DEF DropFromQueue, SonarrDrops
  <2> QED
    BY <2>1, <2>2, <2>3, <2>4, <2>5 DEF Labels, Outcomes
<1>17. CASE UserStep
  BY <1>17 DEF UserStep, ChooseSeries, Decline, Choose, Labels, Outcomes
<1>26. CASE SelectSeries
  BY <1>26 DEF SelectSeries, Throw, Labels
<1>18. CASE Interrupt
  BY <1>18 DEF Interrupt, Labels
<1>19. CASE Finished \/ UNCHANGED vars
  BY <1>19 DEF Finished, vars
<1>20. CASE CommandEnds
  BY <1>20 DEF CommandEnds, CommandStates
<1>21. ASSUME NEW h \in Hashes, SonarrTracks(h) \/ DownloadEnds(h) \/ DownloadFails(h)
       PROVE  TypeOK' /\ PackChosen'
  BY <1>21 DEF SonarrTracks, DownloadEnds, DownloadFails, TrackedStates
<1>22. ASSUME NEW h \in Hashes, SonarrImports(h)
       PROVE  TypeOK' /\ PackChosen'
  BY <1>22 DEF SonarrImports, FileFrom, TrackedStates
<1>23. ASSUME NEW h \in Hashes, Reinsert(h)
       PROVE  TypeOK' /\ PackChosen'
  BY <1>23 DEF Reinsert
<1>24. ASSUME NEW e \in Episodes, CommandImports(e)
       PROVE  TypeOK' /\ PackChosen'
  BY <1>24 DEF CommandImports, FileFrom, CommandStates
<1>25. ASSUME NEW r \in Rivals, RivalGrab(r)
       PROVE  TypeOK' /\ PackChosen'
  BY <1>25 DEF RivalGrab, SonarrGrabs, Recorded, TrackedStates
<1> QED
  BY <1>1, <1>2, <1>3, <1>4, <1>5, <1>6, <1>7, <1>8, <1>9, <1>10, <1>11, <1>12,
     <1>13, <1>14, <1>15, <1>16, <1>17, <1>18, <1>19, <1>20, <1>21, <1>22, <1>23,
     <1>24, <1>25, <1>26 DEF Next, CliStep, WorldStep
-----------------------------------------------------------------------------
Safe == /\ FilesRecorded /\ shared \subseteq torrents
        /\ DeletesUnused /\ ImportIsFinal /\ UnparsedNeverPending

\* A step of the command that leaves the library, the torrents and the
\* running command alone, and does not enter the deletion.
LEMMA QuietStep ==
  ASSUME IInv, UNCHANGED <<lib, imported, shared, torrents, command>>,
         \A h \in Hashes : tracked'[h] \in {tracked[h], "absent", "grabbed", "downloading", "failed"},
         pc' # "delete",
         command.state = "running" =>
           pc' \in {"importing", "done"} \/ (pc' = "concluded" /\ outcome' = "failed")
  PROVE  Safe'
<1>1. FilesRecorded' /\ (shared \subseteq torrents)'
  BY DEF IInv, FilesRecorded
<1>2. DeletesUnused' /\ ImportIsFinal'
  BY DEF IInv, DeletesUnused, ImportIsFinal
<1>3. UnparsedNeverPending'
  BY DEF IInv, UnparsedNeverPending
<1> QED
  BY <1>1, <1>2, <1>3 DEF Safe

\* Every step keeps what ties the library, the torrents and the rollback.
LEMMA SafeStep ==
  ASSUME IInv, [Next]_vars
  PROVE  Safe'
<1> USE RetryAssumption DEF Goto, Finish, Exit, control, planning, attempt, library,
      downloads, settings, world
<1>0. command.state = "running" =>
        pc \in {"importing", "done"} \/ (pc = "concluded" /\ outcome = "failed")
  BY DEF IInv, ImportIsFinal
<1>1. CASE ReadSeasons
  BY <1>0, <1>1, QuietStep DEF ReadSeasons, NothingToRetry, Throw
<1>2. CASE SearchAndReadFiles
  BY <1>0, <1>2, QuietStep DEF SearchAndReadFiles, Throw
<1>3. CASE NextRelease
  BY <1>0, <1>3, QuietStep DEF NextRelease
<1>4. CASE ReadGrabCounts
  BY <1>0, <1>4, QuietStep DEF ReadGrabCounts
<1>6. CASE FindGrab
  BY <1>0, <1>6, QuietStep DEF FindGrab, PollAgain, Throw
<1>7. CASE PollDelivery
  BY <1>0, <1>7, QuietStep DEF PollDelivery, PollAgain, Throw
<1>8. CASE ListFiles
  BY <1>0, <1>8, QuietStep DEF ListFiles
<1>9. CASE Probe
  BY <1>0, <1>9, QuietStep DEF Probe
<1>10. CASE CheckHealth
  BY <1>0, <1>10, QuietStep DEF CheckHealth
<1>12. CASE PollImport
  BY <1>0, <1>12, QuietStep DEF PollImport
<1>13. CASE RecheckEpisodes
  BY <1>0, <1>13, QuietStep DEF RecheckEpisodes
<1>17. CASE UserStep
  BY <1>0, <1>17, QuietStep DEF UserStep, ChooseSeries, Decline, Choose
<1>26. CASE SelectSeries
  BY <1>0, <1>26, QuietStep DEF SelectSeries, Throw
<1>19. CASE Finished \/ UNCHANGED vars
  BY <1>0, <1>19 DEF Finished, vars, Safe, IInv, FilesRecorded, DeletesUnused,
     ImportIsFinal, UnparsedNeverPending
<1>5. CASE GrabRelease
  <2>1. CASE SonarrGrabs(pack)
    <3>1. pc' # "delete" /\ command.state # "running"
      BY <1>0, <1>5 DEF GrabRelease
    <3>2. FilesRecorded' /\ (shared \subseteq torrents)'
      BY <2>1 DEF IInv, FilesRecorded, SonarrGrabs
    <3>3. UnparsedNeverPending'
      BY <2>1 DEF IInv, TypeOK, UnparsedNeverPending, SonarrGrabs
    <3> QED
      BY <2>1, <3>1, <3>2, <3>3 DEF Safe, DeletesUnused, ImportIsFinal, SonarrGrabs
  <2>2. CASE UNCHANGED world
    BY <1>0, <1>5, <2>2, QuietStep DEF GrabRelease
  <2> QED
    BY <1>5, <2>1, <2>2 DEF GrabRelease, SonarrGrabsPack
<1>11. CASE StartImport
  <2>1. UNCHANGED <<lib, imported, shared, torrents, tracked>> /\ pc' # "delete"
    BY <1>11 DEF StartImport, SonarrQueuesImport
  <2>2. ImportIsFinal'
    BY <1>0, <1>11 DEF StartImport, SonarrQueuesImport, ImportIsFinal
  <2> QED
    BY <2>1, <2>2 DEF Safe, IInv, FilesRecorded, DeletesUnused, UnparsedNeverPending
<1>14. CASE ReadUse
  <2>1. UNCHANGED <<world, downloadId, outcome>> /\ pc = "rollback"
    BY <1>14 DEF ReadUse
  <2>2. pc' = "delete" => ~UsedByLibrary(downloadId)
    BY <1>14 DEF ReadUse
  <2>3. DeletesUnused'
    BY <2>1, <2>2 DEF DeletesUnused, UsedByLibrary
  <2>4. ImportIsFinal'
    BY <1>0, <2>1 DEF ImportIsFinal
  <2> QED
    BY <2>1, <2>3, <2>4 DEF Safe, IInv, FilesRecorded, UnparsedNeverPending
<1>15. CASE DeleteTorrent
  <2>1. /\ pc = "delete" /\ pc' = "unqueue"
        /\ UNCHANGED <<lib, imported, shared, tracked, command>>
        /\ torrents' \in {torrents, torrents \ {downloadId}}
    BY <1>15 DEF DeleteTorrent
  <2>2. FilesRecorded' /\ (shared \subseteq torrents)'
    BY <2>1 DEF IInv, FilesRecorded, DeletesUnused
  <2> QED
    BY <1>0, <2>1, <2>2 DEF Safe, IInv, DeletesUnused, ImportIsFinal,
       UnparsedNeverPending
<1>16. CASE DropFromQueue
  <2>1. /\ pc = "unqueue" /\ pc' = "concluded"
        /\ UNCHANGED <<lib, imported, shared, torrents, command>>
        /\ tracked' \in {tracked, [tracked EXCEPT ![downloadId] = "absent"]}
    BY <1>16 DEF DropFromQueue, SonarrDrops
  <2>2. \A h \in Hashes : tracked'[h] \in {tracked[h], "absent"}
    BY <2>1 DEF IInv, TypeOK
  <2> QED
    BY <1>0, <2>1, <2>2, QuietStep
<1>18. CASE Interrupt
  BY <1>0, <1>18 DEF Interrupt, Safe, IInv, FilesRecorded, DeletesUnused,
     ImportIsFinal, UnparsedNeverPending
<1>20. CASE CommandEnds
  BY <1>0, <1>20 DEF CommandEnds, Safe, IInv, FilesRecorded, DeletesUnused,
     ImportIsFinal, UnparsedNeverPending
<1>21. ASSUME NEW h \in Hashes, SonarrTracks(h) \/ DownloadEnds(h) \/ DownloadFails(h)
       PROVE  Safe'
  <2>1. UNCHANGED <<pc, outcome, downloadId, lib, imported, shared, torrents, command>>
    BY <1>21 DEF SonarrTracks, DownloadEnds, DownloadFails
  <2>2. UnparsedNeverPending'
    BY <1>21 DEF SonarrTracks, DownloadEnds, DownloadFails, IInv, TypeOK,
       UnparsedNeverPending
  <2> QED
    BY <2>1, <2>2 DEF Safe, IInv, FilesRecorded, DeletesUnused, ImportIsFinal
<1>22. ASSUME NEW h \in Hashes, SonarrImports(h)
       PROVE  Safe'
  <2>1. h \notin Unparsed
    BY <1>22 DEF SonarrImports, IInv, UnparsedNeverPending, Unparsed, Hashes
  <2>2. /\ \A e \in Episodes : lib'[e].src \in {lib[e].src, h}
        /\ imported' = imported \cup {h} /\ UNCHANGED <<torrents, shared>>
    BY <1>22 DEF SonarrImports, FileFrom
  <2>3. FilesRecorded'
    BY <2>1, <2>2 DEF IInv, FilesRecorded
  <2>4. DeletesUnused' /\ ImportIsFinal'
    BY <1>22, <2>1 DEF SonarrImports, IInv, DeletesUnused, ImportIsFinal
  <2>5. UnparsedNeverPending'
    BY <1>22 DEF SonarrImports, IInv, TypeOK, UnparsedNeverPending
  <2> QED
    BY <2>2, <2>3, <2>4, <2>5 DEF Safe, IInv
<1>23. ASSUME NEW h \in Hashes, Reinsert(h)
       PROVE  Safe'
  BY <1>0, <1>23 DEF Reinsert, Safe, IInv, FilesRecorded, DeletesUnused, ImportIsFinal,
     UnparsedNeverPending
<1>24. ASSUME NEW e \in Episodes, CommandImports(e)
       PROVE  Safe'
  <2>1. /\ command.src \in torrents /\ pc # "delete" /\ pc' = pc
        /\ imported' = imported \cup {command.src}
        /\ UNCHANGED <<torrents, shared, tracked, outcome, downloadId>>
    BY <1>0, <1>24 DEF CommandImports
  <2>2. \A f \in Episodes : lib'[f].src \in {lib[f].src, command.src}
    BY <1>24 DEF CommandImports, FileFrom, IInv, TypeOK
  <2>3. FilesRecorded'
    BY <2>1, <2>2 DEF IInv, FilesRecorded
  <2>4. ImportIsFinal'
    BY <1>0, <2>1 , <1>24 DEF ImportIsFinal, CommandImports
  <2> QED
    BY <2>1, <2>3, <2>4 DEF Safe, IInv, DeletesUnused, UnparsedNeverPending
<1>25. ASSUME NEW r \in Rivals, RivalGrab(r)
       PROVE  Safe'
  <2>1. UNCHANGED <<pc, outcome, downloadId, lib, imported, shared, command>>
    BY <1>25 DEF RivalGrab, SonarrGrabs
  <2>2. torrents' = torrents \cup {r}
    BY <1>25 DEF RivalGrab, SonarrGrabs
  <2>3. UnparsedNeverPending'
    BY <1>25 DEF RivalGrab, SonarrGrabs, IInv, TypeOK, UnparsedNeverPending
  <2> QED
    BY <2>1, <2>2, <2>3 DEF Safe, IInv, FilesRecorded, DeletesUnused, ImportIsFinal
<1> QED
  BY <1>1, <1>2, <1>3, <1>4, <1>5, <1>6, <1>7, <1>8, <1>9, <1>10, <1>11, <1>12,
     <1>13, <1>14, <1>15, <1>16, <1>17, <1>18, <1>19, <1>20, <1>21, <1>22, <1>23,
     <1>24, <1>25, <1>26 DEF Next, CliStep, WorldStep
-----------------------------------------------------------------------------
\* IInv is an invariant of the command among its services.
LEMMA Invariance == Spec => []IInv
<1>1. IInv /\ [Next]_vars => IInv'
  BY TypeStep, SafeStep DEF IInv, Safe
<1> QED
  BY InitIInv, <1>1, PTL DEF Spec

\* The variables of the command, Sonarr and Decypharr keep their types.
THEOREM TypeCorrect == Spec => []TypeOK
BY Invariance, PTL DEF IInv

\* No torrent that a pack imported by the command or another series plays
\* from is ever deleted, whatever Sonarr, its rivals and the faults do.
THEOREM RollbackSparesLibrary == Spec => []UnparsedPacksIntact
<1>1. IInv => UnparsedPacksIntact
  BY DEF IInv, FilesRecorded, UnparsedPacksIntact, Unparsed
<1> QED
  BY Invariance, <1>1, PTL
-----------------------------------------------------------------------------
(* The rounds of the command, each with the release it has adopted.          *)

\* From the moment a release is sent, and from the moment its download is known.
Following == {"deliver", "list", "probe", "health", "import", "importing", "recheck"}
Sent      == {"find", "rollback", "delete", "unqueue"} \cup Following

\* A round adopts the pack it sent or a rival: a release that was grabbed since
\* the round began, so neither rolled back nor deleted by an earlier one.
Candidates == (({pack} \cup Rivals) \cap torrents) \ blocklist
Adopted ==
  /\ pc \in {"before", "grab"} \cup Sent => pack \in remaining
  /\ pc \in {"grab", "find"} => NewGrabs \subseteq Candidates /\ downloadId = NoPack
  /\ pc \in Following \cup {"delete"} => downloadId \in Candidates
  /\ pc = "rollback" => downloadId \in Candidates \cup {NoPack}
  /\ pc \in {"grab", "find", "rollback", "delete"} \cup Following => ~kept /\ ~incomplete
  /\ downloadId \in Rivals => grabbed[downloadId] > 0

\* A release that was blocklisted is not sent again.
Spent ==
  \A h \in blocklist :
    \/ h \in Rivals /\ grabbed[h] > 0
    \/ h \in Packs \ remaining
    \/ h = pack /\ pc \in {"concluded", "done"}

\* What a rollback has left behind, before and after the queue.
RolledBack ==
  /\ pc = "unqueue" /\ downloadId # NoPack =>
       /\ downloadId \in {pack} \cup Rivals
       /\ ~incomplete => downloadId \notin blocklist /\ (kept <=> downloadId \in torrents)
  /\ outcome = "unverified" => pc \in {"concluded", "choose", "done"}
  /\ RollbackIsComplete

\* The pack that is verified waits in the queue of Sonarr, and the one that is
\* imported stays there, out of reach of Decypharr.
Waiting ==
  /\ \A h \in Hashes : tracked[h] = "importBlocked" => h \in Unparsed
  /\ pc \in {"list", "probe", "health", "import"} => tracked[downloadId] = "importBlocked"
  /\ pc = "import" => downloadId \notin flaky
  /\ command.state = "none" => command.src = NoPack
  /\ command.state # "none" =>
       /\ command.src \in Hashes \ flaky /\ tracked[command.src] = "importBlocked"
       /\ \/ pc \in {"importing", "recheck", "done"}
          \/ pc = "concluded" /\ outcome \in {"imported", "failed"}

\* What is filed since the seasons were read was imported since.
FiledSince ==
  /\ Earlier = {} => imported \subseteq ownImports
  /\ pc \notin {"series", "which", "seasons", "done"} =>
       \A e \in Episodes : lib[e].id = season[e] \/ lib[e].src \in ownImports
  /\ pc \in {"probe", "health", "import", "importing", "recheck"} => assigned # {}
  /\ outcome = "imported" => pc \in {"concluded", "done"} /\ downloadId \in Hashes
  /\ Earlier = {} => ImportedIsTrue

\* Sonarr grabs nothing for the series on its own, and in the picker loop it can
\* parse every pack or none, so that it imports nothing of an earlier round.
Alone == Rivals = {} /\ (Interactive => Recognized \in {{}, Packs})

\* What Sonarr then imports on its own is the pack of this very round, and the
\* command imports no pack that Sonarr can parse.
Apart ==
  /\ pc \in {"series", "which", "seasons", "search"} \/ (pc = "choose" /\ ~Interactive)
       => pack = NoPack /\ \A h \in Hashes : tracked[h] = "absent"
  /\ \A h \in Recognized : tracked[h] # "absent" => pack \in Recognized
  /\ command.state # "none" => pack \notin Recognized

Matches(e) == lib[e].id = season[e] /\ lib[e].id = files[e].id /\ lib[e].rank = files[e].rank

\* The library of a round that leaves the import to the command is the one that
\* was read, up to what the import was asked for.
AsRead ==
  /\ \A e \in Episodes : lib[e].id = 0 => lib[e].rank = 0
  /\ pc = "search" => \A e \in Episodes : lib[e].id = season[e]
  /\ pc \in {"choose", "before", "grab", "concluded"} \cup Sent =>
       /\ binReady = recycleBin
       /\ command.state = "none" /\ pack \notin Recognized => \A e \in Episodes : Matches(e)
  /\ pc \in {"before", "grab"} \cup Sent => Sendable(pack)
  /\ pc \in {"probe", "health", "import"} =>
       \A e \in assigned : Disposition(pack, e) # "keep"
  /\ command.state # "none" =>
       /\ Sendable(command.src) /\ binReady = recycleBin
       /\ \A e \in command.files : Matches(e) /\ Disposition(command.src, e) # "keep"
  /\ ~unbinned

Rounds == Adopted /\ Spent /\ RolledBack /\ Waiting /\ FiledSince

\* A step that leaves the release of the round and what was done with it alone.
LEMMA AdoptedKept ==
  ASSUME Adopted, UNCHANGED <<pack, remaining, grabbed, before, downloadId, torrents,
                              blocklist, kept, incomplete>>,
         pc' \in {pc, "done", "concluded"}
  PROVE  Adopted'
BY DEF Adopted, Candidates, NewGrabs, Sent, Following

\* A download that was verified does not move until it is imported.
LEMMA WaitingStep ==
  ASSUME IInv, Adopted, Waiting, [Next]_vars
  PROVE  Waiting'
<1> USE RetryAssumption DEF Goto, Finish, Exit, control, planning, attempt, library,
      downloads, settings, world, Waiting, Sent, Following
<1>1. CASE SelectSeries
  BY <1>1 DEF SelectSeries, Throw
<1>2. CASE ReadSeasons
  BY <1>2 DEF ReadSeasons, NothingToRetry, Throw
<1>3. CASE SearchAndReadFiles
  BY <1>3 DEF SearchAndReadFiles, Throw
<1>4. CASE NextRelease
  BY <1>4 DEF NextRelease
<1>5. CASE ReadGrabCounts
  BY <1>5 DEF ReadGrabCounts
<1>6. CASE GrabRelease
  <2>1. command.state = "none" /\ pc' \in {"find", "concluded"} /\ UNCHANGED command
    BY <1>6 DEF GrabRelease, SonarrGrabsPack, SonarrGrabs
  <2>2. \A h \in Hashes : tracked'[h] \in {tracked[h], "grabbed"}
    BY <1>6 DEF GrabRelease, SonarrGrabsPack, SonarrGrabs, IInv, TypeOK
  <2> QED
    BY <2>1, <2>2
<1>7. CASE FindGrab
  BY <1>7 DEF FindGrab, PollAgain, Throw
<1>8. CASE PollDelivery
  BY <1>8 DEF PollDelivery, PollAgain, Throw, InQueue
<1>9. CASE ListFiles
  BY <1>9 DEF ListFiles
<1>10. CASE Probe
  BY <1>10 DEF Probe
<1>11. CASE CheckHealth
  <2>1. pc' = "import" => downloadId \notin flaky
    BY <1>11 DEF CheckHealth, Disturbed
  <2>2. pc = "health" /\ pc' \in {"import", "rollback"}
        /\ UNCHANGED <<control, attempt, planning, world>>
    BY <1>11 DEF CheckHealth
  <2> QED
    BY <2>1, <2>2
<1>12. CASE StartImport
  <2>1. downloadId \in Hashes \ flaky /\ tracked[downloadId] = "importBlocked"
        /\ command.state = "none"
    BY <1>12 DEF StartImport, Adopted, Candidates, IInv, TypeOK
  <2>2. /\ UNCHANGED <<downloadId, tracked, flaky>>
        /\ pc' = "importing" \/ (pc' = "concluded" /\ outcome' = "failed")
        /\ \/ command' = [state |-> "running", files |-> assigned, src |-> downloadId]
           \/ command' = command
    BY <1>12 DEF StartImport, SonarrQueuesImport
  <2> QED
    BY <2>1, <2>2
<1>13. CASE PollImport
  BY <1>13 DEF PollImport
<1>14. CASE RecheckEpisodes
  BY <1>14 DEF RecheckEpisodes
<1>15. CASE ReadUse
  BY <1>15 DEF ReadUse
<1>16. CASE DeleteTorrent
  BY <1>16 DEF DeleteTorrent
<1>17. CASE DropFromQueue
  <2>1. command.state = "none" /\ pc' = "concluded" /\ UNCHANGED command
    BY <1>17 DEF DropFromQueue, SonarrDrops
  <2>2. \A h \in Hashes : tracked'[h] \in {tracked[h], "absent"}
    BY <1>17 DEF DropFromQueue, SonarrDrops, IInv, TypeOK
  <2> QED
    BY <2>1, <2>2
<1>18. CASE UserStep
  BY <1>18 DEF UserStep, ChooseSeries, Decline, Choose
<1>19. CASE Interrupt
  BY <1>19 DEF Interrupt
<1>20. CASE Finished \/ UNCHANGED vars
  BY <1>20 DEF Finished, vars
<1>21. CASE CommandEnds
  BY <1>21 DEF CommandEnds
<1>22. ASSUME NEW h \in Hashes, SonarrTracks(h) \/ DownloadEnds(h) \/ DownloadFails(h)
       PROVE  Waiting'
  <2>1. /\ tracked[h] \notin {"importBlocked", "importPending"}
        /\ UNCHANGED <<pc, outcome, downloadId, flaky, command>>
        /\ \A k \in Hashes \ {h} : tracked'[k] = tracked[k]
    BY <1>22 DEF SonarrTracks, DownloadEnds, DownloadFails, IInv, TypeOK
  <2>2. tracked'[h] = "importBlocked" => h \in Unparsed
    BY <1>22 DEF SonarrTracks, DownloadEnds, DownloadFails, IInv, TypeOK, Unparsed, Hashes
  <2>3. pc \in {"list", "probe", "health", "import"} => downloadId \in Hashes
    BY DEF Adopted, Candidates, IInv, TypeOK
  <2> QED
    BY <2>1, <2>2, <2>3
<1>23. ASSUME NEW h \in Hashes, SonarrImports(h)
       PROVE  Waiting'
  BY <1>23 DEF SonarrImports, FileFrom
<1>24. ASSUME NEW h \in Hashes, Reinsert(h)
       PROVE  Waiting'
  BY <1>24 DEF Reinsert
<1>25. ASSUME NEW e \in Episodes, CommandImports(e)
       PROVE  Waiting'
  BY <1>25 DEF CommandImports, FileFrom
<1>26. ASSUME NEW r \in Rivals, RivalGrab(r)
       PROVE  Waiting'
  <2>1. /\ UNCHANGED <<pc, outcome, downloadId, flaky, command>>
        /\ \A k \in Hashes \ {r} : tracked'[k] = tracked[k]
    BY <1>26 DEF RivalGrab, SonarrGrabs, IInv, TypeOK
  <2>2. tracked'[r] = "grabbed" /\ r \in Hashes /\ r \notin Unparsed
    BY <1>26 DEF RivalGrab, SonarrGrabs, IInv, TypeOK, Hashes, Unparsed
  <2>3. pc \in {"list", "probe", "health", "import"} => downloadId \in Hashes
    BY DEF Adopted, Candidates, IInv, TypeOK
  <2> QED
    BY <2>1, <2>2, <2>3
<1> QED
  BY <1>1, <1>2, <1>3, <1>4, <1>5, <1>6, <1>7, <1>8, <1>9, <1>10, <1>11, <1>12, <1>13,
     <1>14, <1>15, <1>16, <1>17, <1>18, <1>19, <1>20, <1>21, <1>22, <1>23, <1>24, <1>25,
     <1>26 DEF Next, CliStep, WorldStep

\* A file that changes is an import of now, by Sonarr or by the command.
LEMMA FiledSinceStep ==
  ASSUME IInv, Adopted, Waiting, FiledSince, [Next]_vars
  PROVE  FiledSince'
<1> USE RetryAssumption DEF Goto, Finish, Exit, control, planning, attempt, library,
      downloads, settings, world, FiledSince, ImportedIsTrue
<1>1. CASE SelectSeries
  BY <1>1 DEF SelectSeries, Throw
<1>2. CASE ReadSeasons
  BY <1>2 DEF ReadSeasons, NothingToRetry, Throw
<1>3. CASE SearchAndReadFiles
  BY <1>3 DEF SearchAndReadFiles, Throw
<1>4. CASE NextRelease
  BY <1>4 DEF NextRelease
<1>5. CASE ReadGrabCounts
  BY <1>5 DEF ReadGrabCounts
<1>6. CASE GrabRelease
  BY <1>6 DEF GrabRelease, SonarrGrabsPack, SonarrGrabs, Recorded
<1>7. CASE FindGrab
  BY <1>7 DEF FindGrab, PollAgain, Throw
<1>8. CASE PollDelivery
  <2>1. downloadId \in Hashes /\ outcome # "imported" /\ pc = "deliver"
    BY <1>8 DEF PollDelivery, Adopted, Candidates, Following, IInv, TypeOK, FiledSince
  <2>2. /\ UNCHANGED <<lib, imported, ownImports, tracked, season, assigned, downloadId>>
        /\ pc' \in {"deliver", "list", "rollback", "concluded", "done"}
    BY <1>8 DEF PollDelivery, PollAgain, Throw
  <2>3. \/ outcome' \in {outcome, "failed", "unverified"}
        \/ /\ outcome' = "imported" /\ pc' = "concluded"
           /\ tracked[downloadId] = "importPending" \/ downloadId \in imported
    BY <1>8 DEF PollDelivery, PollAgain, Throw
  <2> QED
    BY <2>1, <2>2, <2>3
<1>9. CASE ListFiles
  BY <1>9 DEF ListFiles
<1>10. CASE Probe
  BY <1>10 DEF Probe
<1>11. CASE CheckHealth
  BY <1>11 DEF CheckHealth
<1>12. CASE StartImport
  BY <1>12 DEF StartImport, SonarrQueuesImport
<1>13. CASE PollImport
  BY <1>13 DEF PollImport
<1>14. CASE RecheckEpisodes
  <2>1. /\ downloadId \in Hashes /\ pc = "recheck" /\ assigned # {}
        /\ assigned \subseteq Episodes /\ outcome # "imported"
        /\ \A e \in Episodes : lib[e].id = season[e] \/ lib[e].src \in ownImports
    BY <1>14 DEF RecheckEpisodes, Adopted, Candidates, Following, IInv, TypeOK, FiledSince
  <2>2. /\ UNCHANGED <<lib, imported, ownImports, tracked, season, assigned, downloadId>>
        /\ pc' = "concluded" /\ outcome' \in {"imported", "failed"}
        /\ outcome' = "imported" => NewlyFiled = assigned
    BY <1>14 DEF RecheckEpisodes
  <2>3. outcome' = "imported" => \A e \in assigned : lib[e].src \in ownImports
    BY <2>1, <2>2 DEF NewlyFiled
  <2> QED
    BY <2>1, <2>2, <2>3
<1>15. CASE ReadUse
  BY <1>15 DEF ReadUse
<1>16. CASE DeleteTorrent
  BY <1>16 DEF DeleteTorrent
<1>17. CASE DropFromQueue
  BY <1>17 DEF DropFromQueue, SonarrDrops
<1>18. CASE UserStep
  BY <1>18 DEF UserStep, ChooseSeries, Decline, Choose
<1>19. CASE Interrupt
  BY <1>19 DEF Interrupt
<1>20. CASE Finished \/ UNCHANGED vars
  BY <1>20 DEF Finished, vars
<1>21. CASE CommandEnds
  BY <1>21 DEF CommandEnds
<1>22. ASSUME NEW h \in Hashes, SonarrTracks(h) \/ DownloadEnds(h) \/ DownloadFails(h)
       PROVE  FiledSince'
  <2>1. /\ tracked[h] # "importPending"
        /\ UNCHANGED <<pc, outcome, lib, imported, ownImports, season, assigned, downloadId>>
        /\ \A k \in Hashes \ {h} : tracked'[k] = tracked[k]
    BY <1>22 DEF SonarrTracks, DownloadEnds, DownloadFails, IInv, TypeOK
  <2> QED
    BY <2>1
<1>23. ASSUME NEW h \in Hashes, SonarrImports(h)
       PROVE  FiledSince'
  <2>1. /\ imported' = imported \cup {h} /\ ownImports' = ownImports \cup {h}
        /\ UNCHANGED <<pc, outcome, season, assigned, downloadId>>
        /\ \A k \in Hashes \ {h} : tracked'[k] = tracked[k]
        /\ \A e \in Episodes : lib'[e] = lib[e] \/ lib'[e].src = h
    BY <1>23 DEF SonarrImports, FileFrom, IInv, TypeOK
  <2>2. assigned \subseteq Episodes
    BY DEF IInv, TypeOK
  <2>3. \A e \in Episodes : lib[e].src \in ownImports => lib'[e].src \in ownImports'
    BY <2>1
  <2>4. Earlier = {} => ImportedIsTrue'
    BY <2>1, <2>2, <2>3
  <2> QED
    BY <2>1, <2>3, <2>4
<1>24. ASSUME NEW h \in Hashes, Reinsert(h)
       PROVE  FiledSince'
  BY <1>24 DEF Reinsert
<1>25. ASSUME NEW e \in Episodes, CommandImports(e)
       PROVE  FiledSince'
  BY <1>25 DEF CommandImports, FileFrom
<1>26. ASSUME NEW r \in Rivals, RivalGrab(r)
       PROVE  FiledSince'
  <2>1. /\ UNCHANGED <<pc, outcome, lib, imported, ownImports, season, assigned, downloadId>>
        /\ \A k \in Hashes \ {r} : tracked'[k] = tracked[k]
        /\ downloadId # r
    BY <1>26 DEF RivalGrab, SonarrGrabs, IInv, TypeOK, Adopted
  <2> QED
    BY <2>1
<1> QED
  BY <1>1, <1>2, <1>3, <1>4, <1>5, <1>6, <1>7, <1>8, <1>9, <1>10, <1>11, <1>12, <1>13,
     <1>14, <1>15, <1>16, <1>17, <1>18, <1>19, <1>20, <1>21, <1>22, <1>23, <1>24, <1>25,
     <1>26 DEF Next, CliStep, WorldStep

\* A release can be adopted only while its torrent is there: only the deletion at
\* the end of a round takes torrents away.
LEMMA AdoptedStep ==
  ASSUME IInv, Adopted, Spent, Waiting, [Next]_vars
  PROVE  Adopted'
<1> USE RetryAssumption DEF Goto, Finish, Exit, control, planning, attempt, library,
      downloads, settings, world, Adopted, Sent, Following, Candidates
<1>1. CASE SelectSeries
  BY <1>1 DEF SelectSeries, Throw
<1>2. CASE ReadSeasons
  BY <1>2 DEF ReadSeasons, NothingToRetry, Throw
<1>3. CASE SearchAndReadFiles
  BY <1>3 DEF SearchAndReadFiles, Throw
<1>4. CASE NextRelease
  BY <1>4 DEF NextRelease
<1>5. CASE ReadGrabCounts
  <2>1. /\ UNCHANGED <<pack, remaining, grabbed, torrents, blocklist>>
        /\ pc = "before" /\ downloadId' = NoPack /\ ~kept' /\ ~incomplete'
        /\ \/ pc' = "grab" /\ before' = grabbed
           \/ pc' = "concluded"
    BY <1>5 DEF ReadGrabCounts
  <2>2. pc' = "grab" => NewGrabs' = {}
    BY <2>1 DEF NewGrabs, IInv, TypeOK
  <2> QED
    BY <2>1, <2>2 DEF Hashes
<1>6. CASE GrabRelease
  <2>1. /\ UNCHANGED <<pack, remaining, before, downloadId, blocklist, kept, incomplete>>
        /\ pc = "grab" /\ pc' \in {"find", "concluded"}
        /\ \/ torrents' = torrents \cup {pack} /\ grabbed' \in {grabbed, Recorded(pack)}
           \/ UNCHANGED <<torrents, grabbed>>
    BY <1>6 DEF GrabRelease, SonarrGrabsPack, SonarrGrabs
  <2>2. pack \notin blocklist /\ pack \notin Rivals
    BY <2>1 DEF Spent, IInv, TypeOK
  <2>3. \A h \in Hashes \ {pack} : grabbed'[h] = grabbed[h]
    BY <2>1 DEF Recorded, IInv, TypeOK
  <2>4. NewGrabs' \subseteq NewGrabs \cup {pack}
    BY <2>1, <2>3 DEF NewGrabs
  <2>5. pack \in NewGrabs' => pack \in torrents'
    <3>1. CASE UNCHANGED <<torrents, grabbed>>
      BY <2>1, <3>1 DEF NewGrabs
    <3>2. CASE torrents' = torrents \cup {pack}
      BY <3>2
    <3> QED
      BY <2>1, <3>1, <3>2
  <2>6. NewGrabs' \subseteq Candidates'
    BY <2>1, <2>2, <2>4, <2>5
  <2> QED
    BY <2>1, <2>6 DEF Hashes
<1>7. CASE FindGrab
  <2>1. /\ UNCHANGED <<pack, remaining, grabbed, before, torrents, blocklist, kept, incomplete>>
        /\ pc = "find"
        /\ \/ pc' = "deliver" /\ downloadId' \in NewGrabs
           \/ pc' \in {"find", "rollback", "done"} /\ downloadId' = downloadId
    BY <1>7 DEF FindGrab, PollAgain, Throw
  <2>2. NewGrabs \subseteq Candidates /\ NewGrabs' = NewGrabs
    BY <2>1 DEF NewGrabs
  <2>3. downloadId' \in Rivals => grabbed[downloadId'] > 0
    BY <2>1, <2>2 DEF NewGrabs, IInv, TypeOK
  <2> QED
    BY <2>1, <2>2, <2>3
<1>8. CASE PollDelivery
  BY <1>8 DEF PollDelivery, PollAgain, Throw, InQueue
<1>9. CASE ListFiles
  BY <1>9 DEF ListFiles
<1>10. CASE Probe
  BY <1>10 DEF Probe
<1>11. CASE CheckHealth
  BY <1>11 DEF CheckHealth
<1>12. CASE StartImport
  BY <1>12 DEF StartImport, SonarrQueuesImport
<1>13. CASE PollImport
  BY <1>13 DEF PollImport
<1>14. CASE RecheckEpisodes
  BY <1>14 DEF RecheckEpisodes
<1>15. CASE ReadUse
  BY <1>15 DEF ReadUse
<1>16. CASE DeleteTorrent
  BY <1>16 DEF DeleteTorrent
<1>17. CASE DropFromQueue
  BY <1>17 DEF DropFromQueue, SonarrDrops
<1>18. CASE UserStep
  BY <1>18 DEF UserStep, ChooseSeries, Decline, Choose
<1>19. CASE Interrupt
  BY <1>19, AdoptedKept DEF Interrupt
<1>20. CASE Finished \/ UNCHANGED vars
  BY <1>20, AdoptedKept DEF Finished, vars
<1>21. CASE CommandEnds
  BY <1>21, AdoptedKept DEF CommandEnds
<1>22. ASSUME NEW h \in Hashes, SonarrTracks(h) \/ DownloadEnds(h) \/ DownloadFails(h)
       PROVE  Adopted'
  BY <1>22, AdoptedKept DEF SonarrTracks, DownloadEnds, DownloadFails
<1>23. ASSUME NEW h \in Hashes, SonarrImports(h)
       PROVE  Adopted'
  BY <1>23, AdoptedKept DEF SonarrImports
<1>24. ASSUME NEW h \in Hashes, Reinsert(h)
       PROVE  Adopted'
  BY <1>24, AdoptedKept DEF Reinsert
<1>25. ASSUME NEW e \in Episodes, CommandImports(e)
       PROVE  Adopted'
  BY <1>25, AdoptedKept DEF CommandImports
<1>26. ASSUME NEW r \in Rivals, RivalGrab(r)
       PROVE  Adopted'
  <2>1. /\ UNCHANGED <<pc, pack, remaining, before, downloadId, blocklist, kept, incomplete>>
        /\ torrents' = torrents \cup {r} /\ r \in Hashes
        /\ grabbed[r] = 0 /\ grabbed' = [grabbed EXCEPT ![r] = 1]
    BY <1>26 DEF RivalGrab, SonarrGrabs, Recorded, IInv, TypeOK, Hashes
  <2>2. r \notin blocklist /\ downloadId # r
    BY <2>1 DEF Spent, IInv, TypeOK, Hashes
  <2>3. NewGrabs' \subseteq NewGrabs \cup {r}
    BY <2>1 DEF NewGrabs, IInv, TypeOK
  <2>4. downloadId \in Rivals => grabbed'[downloadId] > 0
    BY <2>1, <2>2 DEF IInv, TypeOK
  <2> QED
    BY <2>1, <2>2, <2>3, <2>4
<1> QED
  BY <1>1, <1>2, <1>3, <1>4, <1>5, <1>6, <1>7, <1>8, <1>9, <1>10, <1>11, <1>12, <1>13,
     <1>14, <1>15, <1>16, <1>17, <1>18, <1>19, <1>20, <1>21, <1>22, <1>23, <1>24, <1>25,
     <1>26 DEF Next, CliStep, WorldStep

\* A round that ends drops its pack, and Sonarr grabs a rival once.
LEMMA SpentStep ==
  ASSUME IInv, Adopted, Spent, RolledBack, [Next]_vars
  PROVE  Spent'
<1> USE RetryAssumption DEF Goto, Finish, Exit, control, planning, attempt, library,
      downloads, settings, world, Spent
<1>1. CASE SelectSeries
  BY <1>1 DEF SelectSeries, Throw
<1>2. CASE ReadSeasons
  BY <1>2 DEF ReadSeasons, NothingToRetry, Throw
<1>3. CASE SearchAndReadFiles
  BY <1>3 DEF SearchAndReadFiles, Throw
<1>4. CASE NextRelease
  <2>1. /\ UNCHANGED <<grabbed, blocklist, pack>> /\ pc = "concluded"
        /\ \/ remaining' = remaining \ {pack}
           \/ remaining' = remaining /\ pc' = "done"
    BY <1>4 DEF NextRelease
  <2> QED
    BY <2>1 DEF IInv, TypeOK, Hashes
<1>5. CASE ReadGrabCounts
  BY <1>5 DEF ReadGrabCounts
<1>6. CASE GrabRelease
  <2>1. /\ UNCHANGED <<pack, remaining, blocklist>> /\ pc = "grab"
        /\ grabbed' \in {grabbed, Recorded(pack)}
    BY <1>6 DEF GrabRelease, SonarrGrabsPack, SonarrGrabs
  <2>2. \A h \in Hashes : grabbed[h] > 0 => grabbed'[h] > 0
    BY <2>1 DEF Recorded, IInv, TypeOK
  <2>3. blocklist \subseteq Hashes
    BY DEF IInv, TypeOK
  <2> QED
    BY <2>1, <2>2, <2>3
<1>7. CASE FindGrab
  BY <1>7 DEF FindGrab, PollAgain, Throw
<1>8. CASE PollDelivery
  BY <1>8 DEF PollDelivery, PollAgain, Throw, InQueue
<1>9. CASE ListFiles
  BY <1>9 DEF ListFiles
<1>10. CASE Probe
  BY <1>10 DEF Probe
<1>11. CASE CheckHealth
  BY <1>11 DEF CheckHealth
<1>12. CASE StartImport
  BY <1>12 DEF StartImport, SonarrQueuesImport
<1>13. CASE PollImport
  BY <1>13 DEF PollImport
<1>14. CASE RecheckEpisodes
  BY <1>14 DEF RecheckEpisodes
<1>15. CASE ReadUse
  BY <1>15 DEF ReadUse
<1>16. CASE DeleteTorrent
  BY <1>16 DEF DeleteTorrent
<1>17. CASE DropFromQueue
  <2>1. /\ UNCHANGED <<pack, remaining, grabbed, downloadId>>
        /\ pc = "unqueue" /\ pc' = "concluded"
        /\ blocklist' \subseteq IF downloadId = NoPack THEN blocklist
                                ELSE blocklist \cup {downloadId}
    BY <1>17 DEF DropFromQueue, SonarrDrops
  <2>2. downloadId # NoPack => downloadId \in {pack} \cup Rivals
    BY <2>1 DEF RolledBack
  <2>3. downloadId \in Rivals => grabbed[downloadId] > 0
    BY DEF Adopted
  <2> QED
    BY <2>1, <2>2, <2>3
<1>18. CASE UserStep
  BY <1>18 DEF UserStep, ChooseSeries, Decline, Choose
<1>19. CASE Interrupt
  BY <1>19 DEF Interrupt
<1>20. CASE Finished \/ UNCHANGED vars
  BY <1>20 DEF Finished, vars
<1>21. CASE CommandEnds
  BY <1>21 DEF CommandEnds
<1>22. ASSUME NEW h \in Hashes, SonarrTracks(h) \/ DownloadEnds(h) \/ DownloadFails(h)
       PROVE  Spent'
  BY <1>22 DEF SonarrTracks, DownloadEnds, DownloadFails
<1>23. ASSUME NEW h \in Hashes, SonarrImports(h)
       PROVE  Spent'
  BY <1>23 DEF SonarrImports, FileFrom
<1>24. ASSUME NEW h \in Hashes, Reinsert(h)
       PROVE  Spent'
  BY <1>24 DEF Reinsert
<1>25. ASSUME NEW e \in Episodes, CommandImports(e)
       PROVE  Spent'
  BY <1>25 DEF CommandImports, FileFrom
<1>26. ASSUME NEW r \in Rivals, RivalGrab(r)
       PROVE  Spent'
  BY <1>26 DEF RivalGrab, SonarrGrabs, Recorded
<1> QED
  BY <1>1, <1>2, <1>3, <1>4, <1>5, <1>6, <1>7, <1>8, <1>9, <1>10, <1>11, <1>12, <1>13,
     <1>14, <1>15, <1>16, <1>17, <1>18, <1>19, <1>20, <1>21, <1>22, <1>23, <1>24, <1>25,
     <1>26 DEF Next, CliStep, WorldStep

\* The rollback, step by step, and whatever Sonarr does afterwards.
LEMMA RolledBackStep ==
  ASSUME IInv, Adopted, Spent, RolledBack, [Next]_vars
  PROVE  RolledBack'
<1> USE RetryAssumption DEF Goto, Finish, Exit, control, planning, attempt, library,
      downloads, settings, world, RolledBack, RollbackIsComplete
<1>1. CASE SelectSeries
  BY <1>1 DEF SelectSeries, Throw
<1>2. CASE ReadSeasons
  BY <1>2 DEF ReadSeasons, NothingToRetry, Throw
<1>3. CASE SearchAndReadFiles
  BY <1>3 DEF SearchAndReadFiles, Throw
<1>4. CASE NextRelease
  BY <1>4 DEF NextRelease
<1>5. CASE ReadGrabCounts
  BY <1>5 DEF ReadGrabCounts
<1>6. CASE GrabRelease
  BY <1>6 DEF GrabRelease, SonarrGrabsPack, SonarrGrabs, Recorded
<1>7. CASE FindGrab
  BY <1>7 DEF FindGrab, PollAgain, Throw
<1>8. CASE PollDelivery
  BY <1>8 DEF PollDelivery, PollAgain, Throw, InQueue
<1>9. CASE ListFiles
  BY <1>9 DEF ListFiles
<1>10. CASE Probe
  BY <1>10 DEF Probe
<1>11. CASE CheckHealth
  BY <1>11 DEF CheckHealth
<1>12. CASE StartImport
  BY <1>12 DEF StartImport, SonarrQueuesImport
<1>13. CASE PollImport
  BY <1>13 DEF PollImport
<1>14. CASE RecheckEpisodes
  BY <1>14 DEF RecheckEpisodes
<1>15. CASE ReadUse
  <2>1. /\ UNCHANGED <<pack, torrents, blocklist, downloadId, outcome, queued, tracked>>
        /\ pc = "rollback" /\ pc' \in {"unqueue", "delete"} /\ outcome # "unverified"
        /\ downloadId \in Candidates \cup {NoPack}
    BY <1>15 DEF ReadUse, RolledBack, Adopted
  <2>2. pc' = "unqueue" /\ downloadId # NoPack =>
          incomplete' \/ (kept' /\ UsedByLibrary(downloadId))
    BY <1>15, Zenon DEF ReadUse
  <2>3. downloadId # NoPack => downloadId \in torrents \ blocklist
                                /\ downloadId \in {pack} \cup Rivals
    BY <2>1 DEF Candidates
  <2> QED
    BY <2>1, <2>2, <2>3
<1>16. CASE DeleteTorrent
  <2>1. /\ UNCHANGED <<pack, blocklist, downloadId, outcome, queued, tracked, kept>>
        /\ pc = "delete" /\ pc' = "unqueue" /\ outcome # "unverified"
        /\ incomplete' \/ torrents' = torrents \ {downloadId}
    BY <1>16 DEF DeleteTorrent, RolledBack
  <2>2. downloadId \in {pack} \cup Rivals /\ downloadId \notin blocklist /\ ~kept
    BY <2>1 DEF Adopted, Candidates
  <2> QED
    BY <2>1, <2>2
<1>17. CASE DropFromQueue
  <2>1. /\ UNCHANGED <<torrents, downloadId, queued, kept>>
        /\ pc = "unqueue" /\ pc' = "concluded" /\ outcome' = "unverified"
        /\ incomplete' \/ downloadId = NoPack
             \/ (SonarrDrops /\ incomplete' = incomplete)
    BY <1>17 DEF DropFromQueue, SonarrDrops
  <2>2. CASE ~incomplete' /\ downloadId # NoPack
    <3>1. /\ tracked' = IF queued THEN [tracked EXCEPT ![downloadId] = "absent"] ELSE tracked
          /\ blocklist' = IF ~kept THEN blocklist \cup {downloadId} ELSE blocklist
      BY <2>1, <2>2 DEF SonarrDrops
    <3>2. downloadId \notin blocklist /\ (kept <=> downloadId \in torrents)
      BY <2>1, <2>2
    <3>3. queued => tracked'[downloadId] = "absent"
      BY <2>2, <3>1 DEF IInv, TypeOK
    <3> QED
      BY <2>1, <2>2, <3>1, <3>2, <3>3
  <2>3. CASE incomplete' \/ downloadId = NoPack
    BY <2>1, <2>3
  <2> QED
    BY <2>2, <2>3
<1>18. CASE UserStep
  BY <1>18 DEF UserStep, ChooseSeries, Decline, Choose
<1>19. CASE Interrupt
  BY <1>19 DEF Interrupt
<1>20. CASE Finished \/ UNCHANGED vars
  BY <1>20 DEF Finished, vars
<1>21. CASE CommandEnds
  BY <1>21 DEF CommandEnds
<1>22. ASSUME NEW h \in Hashes, SonarrTracks(h) \/ DownloadEnds(h) \/ DownloadFails(h)
       PROVE  RolledBack'
  <2>1. /\ tracked[h] # "absent"
        /\ UNCHANGED <<pc, pack, torrents, blocklist, downloadId, outcome, queued, kept,
                       incomplete>>
        /\ \A k \in Hashes \ {h} : tracked'[k] = tracked[k]
    BY <1>22 DEF SonarrTracks, DownloadEnds, DownloadFails, IInv, TypeOK
  <2>2. downloadId # NoPack => downloadId \in Hashes
    BY DEF IInv, TypeOK
  <2> QED
    BY <2>1, <2>2
<1>23. ASSUME NEW h \in Hashes, SonarrImports(h)
       PROVE  RolledBack'
  BY <1>23 DEF SonarrImports, FileFrom
<1>24. ASSUME NEW h \in Hashes, Reinsert(h)
       PROVE  RolledBack'
  BY <1>24 DEF Reinsert
<1>25. ASSUME NEW e \in Episodes, CommandImports(e)
       PROVE  RolledBack'
  BY <1>25 DEF CommandImports, FileFrom
<1>26. ASSUME NEW r \in Rivals, RivalGrab(r)
       PROVE  RolledBack'
  <2>1. /\ UNCHANGED <<pc, pack, blocklist, downloadId, outcome, queued, kept, incomplete>>
        /\ torrents' = torrents \cup {r} /\ downloadId # r
        /\ \A k \in Hashes \ {r} : tracked'[k] = tracked[k]
    BY <1>26 DEF RivalGrab, SonarrGrabs, IInv, TypeOK, Adopted
  <2>2. downloadId # NoPack => downloadId \in Hashes
    BY DEF IInv, TypeOK
  <2> QED
    BY <2>1, <2>2
<1> QED
  BY <1>1, <1>2, <1>3, <1>4, <1>5, <1>6, <1>7, <1>8, <1>9, <1>10, <1>11, <1>12, <1>13,
     <1>14, <1>15, <1>16, <1>17, <1>18, <1>19, <1>20, <1>21, <1>22, <1>23, <1>24, <1>25,
     <1>26 DEF Next, CliStep, WorldStep

\* What is kept and what may be sent depends on what was read before the picker.
LEMMA SendableKept ==
  ASSUME UNCHANGED <<season, files, binReady>>, NEW p
  PROVE  /\ Sendable(p)' <=> Sendable(p)
         /\ \A e \in Episodes : Disposition(p, e)' = Disposition(p, e)
BY DEF Sendable, Dispositions, RecycleProblem, Disposition, KnownRank

\* A step that leaves the library and the plan alone.
LEMMA AsReadKept ==
  ASSUME AsRead, IInv,
         UNCHANGED <<season, files, binReady, pack, recycleBin, lib, command, unbinned>>,
         pc' = "search" => pc = "search",
         LET Chosen == {"choose", "before", "grab", "concluded"} \cup Sent
         IN  pc' \in Chosen => pc \in Chosen,
         pc' \in {"before", "grab"} \cup Sent => pc \in {"before", "grab"} \cup Sent,
         pc' \in {"probe", "health", "import"} =>
           pc \in {"probe", "health", "import"} /\ assigned' = assigned
  PROVE  AsRead'
<1>1. PICK p, s : p = pack /\ s = command.src
  OBVIOUS
<1>2. /\ Sendable(p)' <=> Sendable(p)
      /\ \A e \in Episodes : Disposition(p, e)' = Disposition(p, e)
  BY SendableKept
<1>3. /\ Sendable(s)' <=> Sendable(s)
      /\ \A e \in Episodes : Disposition(s, e)' = Disposition(s, e)
  BY SendableKept
<1>4. assigned \subseteq Episodes /\ command.files \subseteq Episodes
  BY DEF IInv, TypeOK
<1>5. Sendable(pack)' <=> Sendable(pack)
  BY <1>1, <1>2
<1>6. Sendable(command.src)' <=> Sendable(command.src)
  BY <1>1, <1>3
<1>7. \A e \in Episodes : Disposition(pack, e)' = Disposition(pack, e)
  BY <1>1, <1>2
<1>8. \A e \in Episodes : Disposition(command.src, e)' = Disposition(command.src, e)
  BY <1>1, <1>3
<1>9. \A e \in Episodes : Matches(e)' <=> Matches(e)
  BY DEF Matches
<1> QED
  BY <1>4, <1>5, <1>6, <1>7, <1>8, <1>9 DEF AsRead

\* The command imports only what replaces nothing better and nothing for good.
LEMMA AsReadStep ==
  ASSUME Alone, IInv, Adopted, Waiting, Apart, AsRead, [Next]_vars
  PROVE  AsRead'
<1> USE RetryAssumption DEF Goto, Finish, Exit, control, planning, attempt, library,
      downloads, settings, world, Sent, Following
<1>1. CASE SelectSeries
  BY <1>1, AsReadKept DEF SelectSeries, Throw
<1>2. CASE ReadSeasons
  <2>1. CASE pc' = "done"
    BY <1>2, <2>1, AsReadKept DEF ReadSeasons, NothingToRetry, Throw
  <2>2. CASE pc' # "done"
    <3>1. /\ season' = [e \in Episodes |-> lib[e].id] /\ pc = "seasons" /\ pc' = "search"
          /\ UNCHANGED <<lib, command, unbinned>>
      BY <1>2, <2>2 DEF ReadSeasons, NothingToRetry, Throw
    <3>2. command.state = "none"
      BY <3>1 DEF Waiting
    <3> QED
      BY <3>1, <3>2 DEF AsRead
  <2> QED
    BY <2>1, <2>2
<1>3. CASE SearchAndReadFiles
  <2>1. CASE pc' = "done"
    BY <1>3, <2>1, AsReadKept DEF SearchAndReadFiles, Throw
  <2>2. CASE pc' # "done"
    <3>1. /\ files' = [e \in Episodes |-> [id |-> lib[e].id, rank |-> lib[e].rank]]
          /\ binReady' = recycleBin /\ pc = "search" /\ pc' = "choose"
          /\ UNCHANGED <<season, lib, command, unbinned, recycleBin>>
      BY <1>3, <2>2 DEF SearchAndReadFiles, Throw
    <3>2. command.state = "none"
      BY <3>1 DEF Waiting
    <3>3. \A e \in Episodes : Matches(e)'
      BY <3>1 DEF AsRead, Matches
    <3> QED
      BY <3>1, <3>2, <3>3 DEF AsRead
  <2> QED
    BY <2>1, <2>2
<1>4. CASE NextRelease
  BY <1>4, AsReadKept DEF NextRelease
<1>5. CASE ReadGrabCounts
  BY <1>5, AsReadKept DEF ReadGrabCounts
<1>6. CASE GrabRelease
  BY <1>6, AsReadKept DEF GrabRelease, SonarrGrabsPack, SonarrGrabs, Recorded
<1>7. CASE FindGrab
  BY <1>7, AsReadKept DEF FindGrab, PollAgain, Throw
<1>8. CASE PollDelivery
  BY <1>8, AsReadKept DEF PollDelivery, PollAgain, Throw, InQueue
<1>9. CASE ListFiles
  <2>1. CASE pc' = "rollback"
    BY <1>9, <2>1, AsReadKept DEF ListFiles
  <2>2. CASE pc' # "rollback"
    <3>1. PICK claims \in [Episodes -> 0..2] : assigned' = Importable(pack, claims)
      BY <1>9, <2>2 DEF ListFiles
    <3>2. /\ UNCHANGED <<season, files, binReady, pack, recycleBin, lib, command, unbinned>>
          /\ pc = "list" /\ pc' = "probe"
      BY <1>9, <2>2 DEF ListFiles
    <3>3. command.state = "none"
      BY <3>2 DEF Waiting
    <3>4. PICK p : p = pack
      OBVIOUS
    <3>5. /\ Sendable(p)' <=> Sendable(p)
          /\ \A e \in Episodes : Disposition(p, e)' = Disposition(p, e)
      BY <3>2, SendableKept
    <3>6. \A e \in assigned' : Disposition(pack, e)' # "keep"
      BY <3>1, <3>2, <3>4, <3>5 DEF Importable
    <3>7. Sendable(pack)' /\ (pack \notin Recognized => \A e \in Episodes : Matches(e)')
      BY <3>2, <3>3, <3>4, <3>5 DEF AsRead, Matches
    <3> QED
      BY <3>2, <3>3, <3>6, <3>7 DEF AsRead
  <2> QED
    BY <2>1, <2>2
<1>10. CASE Probe
  BY <1>10, AsReadKept DEF Probe
<1>11. CASE CheckHealth
  BY <1>11, AsReadKept DEF CheckHealth
<1>12. CASE StartImport
  <2>1. CASE UNCHANGED command
    BY <1>12, <2>1, AsReadKept DEF StartImport, SonarrQueuesImport
  <2>2. CASE command' # command
    <3>1. /\ command' = [state |-> "running", files |-> assigned, src |-> downloadId]
          /\ UNCHANGED <<season, files, binReady, pack, recycleBin, lib, unbinned>>
          /\ pc = "import" /\ pc' \in {"importing", "concluded"}
      BY <1>12, <2>2 DEF StartImport, SonarrQueuesImport
    <3>2. command.state = "none" /\ downloadId = pack /\ pack \notin Recognized
      BY <3>1 DEF Waiting, Adopted, Candidates, Alone, Unparsed, IInv, TypeOK
    <3>3. PICK p : p = pack
      OBVIOUS
    <3>4. /\ Sendable(p)' <=> Sendable(p)
          /\ \A e \in Episodes : Disposition(p, e)' = Disposition(p, e)
      BY <3>1, SendableKept
    <3>5. assigned \subseteq Episodes
      BY DEF IInv, TypeOK
    <3>6. /\ Sendable(p) /\ \A e \in assigned : Disposition(p, e) # "keep"
          /\ \A e \in Episodes : Matches(e)
          /\ binReady = recycleBin /\ ~unbinned
          /\ \A e \in Episodes : lib[e].id = 0 => lib[e].rank = 0
      BY <3>1, <3>2, <3>3 DEF AsRead
    <3>7. \A e \in Episodes : Matches(e)'
      BY <3>1, <3>6 DEF Matches
    <3>8. command'.src = p /\ command'.files = assigned /\ command'.state # "none"
      BY <3>1, <3>2, <3>3
    <3>9. Sendable(command.src)' /\ Sendable(pack)'
      BY <3>1, <3>3, <3>4, <3>6, <3>8
    <3>10. \A e \in command'.files : Matches(e)' /\ Disposition(command.src, e)' # "keep"
      BY <3>4, <3>5, <3>6, <3>7, <3>8
    <3> QED
      BY <3>1, <3>6, <3>8, <3>9, <3>10 DEF AsRead
  <2> QED
    BY <2>1, <2>2
<1>13. CASE PollImport
  BY <1>13, AsReadKept DEF PollImport
<1>14. CASE RecheckEpisodes
  BY <1>14, AsReadKept DEF RecheckEpisodes
<1>15. CASE ReadUse
  BY <1>15, AsReadKept DEF ReadUse
<1>16. CASE DeleteTorrent
  BY <1>16, AsReadKept DEF DeleteTorrent
<1>17. CASE DropFromQueue
  BY <1>17, AsReadKept DEF DropFromQueue, SonarrDrops
<1>18. CASE UserStep
  <2>1. CASE ChooseSeries \/ Decline
    BY <1>18, <2>1, AsReadKept DEF ChooseSeries, Decline
  <2>2. ASSUME NEW p \in Packs, Choose(p)
        PROVE  AsRead'
    <3>1. CASE pc' = "done"
      BY <2>2, <3>1, AsReadKept DEF Choose
    <3>2. CASE pc' # "done"
      <4>1. /\ UNCHANGED <<season, files, binReady, recycleBin, lib, command, unbinned>>
            /\ pc = "choose" /\ pc' = "before" /\ pack' = p /\ Sendable(p)
        BY <2>2, <3>2 DEF Choose
      <4>2. command.state = "none"
        BY <4>1 DEF Waiting
      <4>3. Sendable(p)'
        BY <4>1, SendableKept
      <4>4. p \notin Recognized => pack \notin Recognized
        BY <4>1, RetryAssumption DEF Alone, Apart, Hashes
      <4>5. p \notin Recognized => \A e \in Episodes : Matches(e)'
        BY <4>1, <4>2, <4>4 DEF AsRead, Matches
      <4> QED
        BY <4>1, <4>2, <4>3, <4>5 DEF AsRead
    <3> QED
      BY <3>1, <3>2
  <2> QED
    BY <1>18, <2>1, <2>2 DEF UserStep
<1>19. CASE Interrupt
  BY <1>19, AsReadKept DEF Interrupt
<1>20. CASE Finished \/ UNCHANGED vars
  BY <1>20, AsReadKept DEF Finished, vars
<1>21. CASE CommandEnds
  <2>1. /\ UNCHANGED <<season, files, binReady, pack, recycleBin, lib, unbinned, pc, assigned>>
        /\ command.state = "running" /\ command'.state \in {"completed", "failed"}
        /\ command'.files = command.files /\ command'.src = command.src
    BY <1>21 DEF CommandEnds
  <2>2. PICK p, s : p = pack /\ s = command.src
    OBVIOUS
  <2>3. /\ Sendable(p)' <=> Sendable(p)
        /\ \A e \in Episodes : Disposition(p, e)' = Disposition(p, e)
    BY <2>1, SendableKept
  <2>4. /\ Sendable(s)' <=> Sendable(s)
        /\ \A e \in Episodes : Disposition(s, e)' = Disposition(s, e)
    BY <2>1, SendableKept
  <2>5. assigned \subseteq Episodes /\ command.files \subseteq Episodes
    BY DEF IInv, TypeOK
  <2>6. Sendable(pack)' <=> Sendable(pack)
    BY <2>1, <2>2, <2>3
  <2>7. Sendable(command.src)' <=> Sendable(command.src)
    BY <2>1, <2>2, <2>4
  <2>8. \A e \in Episodes : Disposition(pack, e)' = Disposition(pack, e)
    BY <2>1, <2>2, <2>3
  <2>9. \A e \in Episodes : Disposition(command.src, e)' = Disposition(command.src, e)
    BY <2>1, <2>2, <2>4
  <2>10. \A e \in Episodes : Matches(e)' <=> Matches(e)
    BY <2>1 DEF Matches
  <2> QED
    BY <2>1, <2>5, <2>6, <2>7, <2>8, <2>9, <2>10 DEF AsRead
<1>22. ASSUME NEW h \in Hashes, SonarrTracks(h) \/ DownloadEnds(h) \/ DownloadFails(h)
       PROVE  AsRead'
  BY <1>22, AsReadKept DEF SonarrTracks, DownloadEnds, DownloadFails
<1>23. ASSUME NEW h \in Hashes, SonarrImports(h)
       PROVE  AsRead'
  <2>1. h \in Recognized /\ tracked[h] = "importPending"
    BY <1>23 DEF SonarrImports, IInv, UnparsedNeverPending, Alone
  <2>2. pack \in Recognized /\ command.state = "none" /\ pc # "search"
    BY <2>1 DEF Apart
  <2>3. /\ UNCHANGED <<season, files, binReady, pack, recycleBin, command, unbinned, pc, assigned>>
        /\ \A e \in Episodes : lib'[e] = lib[e] \/ lib'[e].id = lib[e].id + 1
    BY <1>23 DEF SonarrImports, FileFrom
  <2>4. PICK p : p = pack
    OBVIOUS
  <2>5. /\ Sendable(p)' <=> Sendable(p)
        /\ \A e \in Episodes : Disposition(p, e)' = Disposition(p, e)
    BY <2>3, SendableKept
  <2>6. Sendable(pack)' <=> Sendable(pack)
    BY <2>3, <2>4, <2>5
  <2>7. \A e \in Episodes : Disposition(pack, e)' = Disposition(pack, e)
    BY <2>3, <2>4, <2>5
  <2>8. /\ lib \in [Episodes -> [id : Nat, rank : Nat, src : Hashes \cup {NoPack}]]
        /\ assigned \subseteq Episodes
    BY DEF IInv, TypeOK
  <2>9. \A e \in Episodes : lib'[e].id = 0 => lib'[e].rank = 0
    <3> SUFFICES ASSUME NEW e \in Episodes, lib'[e].id = 0
                 PROVE  lib'[e].rank = 0
      OBVIOUS
    <3>1. lib'[e] = lib[e]
      BY <2>3, <2>8
    <3> QED
      BY <3>1 DEF AsRead
  <2> QED
    BY <2>2, <2>3, <2>6, <2>7, <2>8, <2>9 DEF AsRead
<1>24. ASSUME NEW h \in Hashes, Reinsert(h)
       PROVE  AsRead'
  BY <1>24, AsReadKept DEF Reinsert
<1>25. ASSUME NEW e \in Episodes, CommandImports(e)
       PROVE  AsRead'
  <2>1. /\ UNCHANGED <<season, files, binReady, pack, recycleBin, pc, assigned>>
        /\ command.state = "running" /\ e \in command.files
        /\ lib' = [lib EXCEPT ![e] = FileFrom(command.src, e)]
        /\ command'.state = "running" /\ command'.files = command.files \ {e}
        /\ command'.src = command.src
        /\ unbinned' = (unbinned \/ (lib[e].id # 0 /\ ~recycleBin))
    BY <1>25 DEF CommandImports
  <2>2. PICK p, s : p = pack /\ s = command.src
    OBVIOUS
  <2>3. /\ Sendable(p)' <=> Sendable(p)
        /\ \A f \in Episodes : Disposition(p, f)' = Disposition(p, f)
    BY <2>1, SendableKept
  <2>4. /\ Sendable(s)' <=> Sendable(s)
        /\ \A f \in Episodes : Disposition(s, f)' = Disposition(s, f)
    BY <2>1, SendableKept
  <2>5. /\ assigned \subseteq Episodes /\ command.files \subseteq Episodes
        /\ lib \in [Episodes -> [id : Nat, rank : Nat, src : Hashes \cup {NoPack}]]
    BY DEF IInv, TypeOK
  <2>6. /\ Sendable(s) /\ binReady = recycleBin /\ ~unbinned
        /\ \A f \in command.files : Matches(f) /\ Disposition(s, f) # "keep"
        /\ \A f \in Episodes : lib[f].id = 0 => lib[f].rank = 0
    BY <2>1, <2>2 DEF AsRead
  <2>7. Sendable(command.src)'
    BY <2>1, <2>2, <2>4, <2>6
  <2>8. \A f \in Episodes \ {e} : lib'[f] = lib[f]
    BY <2>1, <2>5
  <2>9. \A f \in command'.files : Matches(f)' /\ Disposition(command.src, f)' # "keep"
    <3> SUFFICES ASSUME NEW f \in command'.files
                 PROVE  Matches(f)' /\ Disposition(command.src, f)' # "keep"
      OBVIOUS
    <3>1. f \in command.files /\ f \in Episodes \ {e} /\ Matches(f) /\ Disposition(s, f) # "keep"
      BY <2>1, <2>5, <2>6
    <3>2. Matches(f)'
      BY <2>1, <2>8, <3>1 DEF Matches
    <3> QED
      BY <2>1, <2>2, <2>4, <3>1, <3>2
  <2>10. ~unbinned'
    <3>1. SUFFICES ASSUME lib[e].id # 0, ~recycleBin
                   PROVE  FALSE
      BY <2>1, <2>6
    <3>2. season[e] # 0 /\ Disposition(s, e) # "keep"
      BY <2>1, <2>6, <3>1 DEF Matches
    <3>3. Disposition(s, e) = "replace"
      BY <3>2 DEF Disposition
    <3> QED
      BY <2>6, <3>1, <3>3 DEF Sendable, RecycleProblem, Dispositions
  <2>11. \A f \in Episodes : lib'[f].id = 0 => lib'[f].rank = 0
    <3>1. lib'[e].id = lib[e].id + 1
      BY <2>1, <2>5 DEF FileFrom
    <3>2. lib'[e].id # 0
      BY <2>5, <3>1
    <3> QED
      BY <2>6, <2>8, <3>2
  <2>12. pc \notin {"before", "grab", "search", "choose", "probe", "health", "import"}
         /\ (pc \in Sent => pc \in {"importing", "recheck"})
    BY <2>1 DEF Waiting
  <2>13. pc \in Sent => Sendable(pack)'
    BY <2>1, <2>2, <2>3 DEF AsRead
  <2> QED
    BY <2>1, <2>6, <2>7, <2>9, <2>10, <2>11, <2>12, <2>13 DEF AsRead
<1>26. ASSUME NEW r \in Rivals, RivalGrab(r)
       PROVE  AsRead'
  BY <1>26, AsReadKept DEF RivalGrab, SonarrGrabs, Recorded
<1> QED
  BY <1>1, <1>2, <1>3, <1>4, <1>5, <1>6, <1>7, <1>8, <1>9, <1>10, <1>11, <1>12, <1>13,
     <1>14, <1>15, <1>16, <1>17, <1>18, <1>19, <1>20, <1>21, <1>22, <1>23, <1>24, <1>25,
     <1>26 DEF Next, CliStep, WorldStep

\* The rounds are as described in every reachable state.
LEMMA RoundsHold == Spec => []Rounds
<1>1. Init => Rounds
  <2> SUFFICES ASSUME Init PROVE Rounds
    OBVIOUS
  <2>1. /\ pc = "series" /\ outcome = "none" /\ downloadId = NoPack /\ blocklist = {}
        /\ command.state = "none" /\ command.src = NoPack /\ NoPack \notin Rivals
        /\ \A h \in Hashes : tracked[h] = "absent"
    BY RetryAssumption DEF Init, NoCommand, Hashes
  <2>2. Earlier = {} => imported \subseteq ownImports
    BY DEF Init
  <2> QED
    BY <2>1, <2>2 DEF Rounds, Adopted, Spent, RolledBack, RollbackIsComplete, Waiting,
       FiledSince, ImportedIsTrue, Sent, Following
<1>2. IInv /\ Rounds /\ [Next]_vars => Rounds'
  BY AdoptedStep, SpentStep, RolledBackStep, WaitingStep, FiledSinceStep DEF Rounds
<1> QED
  BY <1>1, <1>2, Invariance, PTL DEF Spec

\* The rounds of the command and of Sonarr's own imports stay apart.
LEMMA ApartStep ==
  ASSUME Alone, IInv, Adopted, Waiting, Apart, [Next]_vars
  PROVE  Apart'
<1> USE RetryAssumption DEF Goto, Finish, Exit, control, planning, attempt, library,
      downloads, settings, world, Apart, Sent, Following
<1>1. CASE SelectSeries
  BY <1>1 DEF SelectSeries, Throw
<1>2. CASE ReadSeasons
  BY <1>2 DEF ReadSeasons, NothingToRetry, Throw
<1>3. CASE SearchAndReadFiles
  BY <1>3 DEF SearchAndReadFiles, Throw
<1>4. CASE NextRelease
  BY <1>4 DEF NextRelease
<1>5. CASE ReadGrabCounts
  BY <1>5 DEF ReadGrabCounts
<1>6. CASE GrabRelease
  <2>1. /\ UNCHANGED <<pack, command>> /\ pc' \in {"find", "concluded"}
        /\ tracked' \in {tracked, [tracked EXCEPT ![pack] = "grabbed"]}
    BY <1>6 DEF GrabRelease, SonarrGrabsPack, SonarrGrabs
  <2>2. \A h \in Hashes \ {pack} : tracked'[h] = tracked[h]
    BY <2>1 DEF IInv, TypeOK
  <2> QED
    BY <2>1, <2>2 DEF Hashes
<1>7. CASE FindGrab
  BY <1>7 DEF FindGrab, PollAgain, Throw
<1>8. CASE PollDelivery
  BY <1>8 DEF PollDelivery, PollAgain, Throw, InQueue
<1>9. CASE ListFiles
  BY <1>9 DEF ListFiles
<1>10. CASE Probe
  BY <1>10 DEF Probe
<1>11. CASE CheckHealth
  BY <1>11 DEF CheckHealth
<1>12. CASE StartImport
  <2>1. downloadId = pack /\ pack \notin Recognized
    BY <1>12 DEF StartImport, Waiting, Adopted, Candidates, Alone, Unparsed, IInv, TypeOK
  <2>2. UNCHANGED <<pack, tracked>> /\ pc' \in {"importing", "concluded"}
    BY <1>12 DEF StartImport, SonarrQueuesImport
  <2> QED
    BY <2>1, <2>2
<1>13. CASE PollImport
  BY <1>13 DEF PollImport
<1>14. CASE RecheckEpisodes
  BY <1>14 DEF RecheckEpisodes
<1>15. CASE ReadUse
  BY <1>15 DEF ReadUse
<1>16. CASE DeleteTorrent
  BY <1>16 DEF DeleteTorrent
<1>17. CASE DropFromQueue
  <2>1. UNCHANGED <<pack, command>> /\ pc' = "concluded"
    BY <1>17 DEF DropFromQueue, SonarrDrops
  <2>2. \A h \in Hashes : tracked'[h] \in {tracked[h], "absent"}
    BY <1>17 DEF DropFromQueue, SonarrDrops, IInv, TypeOK
  <2> QED
    BY <2>1, <2>2 DEF Hashes
<1>18. CASE UserStep
  <2>1. CASE ChooseSeries \/ Decline
    BY <1>18, <2>1 DEF ChooseSeries, Decline
  <2>2. ASSUME NEW p \in Packs, Choose(p)
        PROVE  Apart'
    <3>1. UNCHANGED <<tracked, command>> /\ pc = "choose" /\ pc' \in {"before", "done"}
          /\ pack' \in {pack, p}
      BY <2>2 DEF Choose
    <3>2. command.state = "none"
      BY <3>1 DEF Waiting
    <3>3. CASE ~Interactive
      BY <3>1, <3>2, <3>3 DEF Hashes
    <3>4. CASE Interactive
      BY <3>1, <3>2, <3>4 DEF Alone
    <3> QED
      BY <3>3, <3>4
  <2> QED
    BY <1>18, <2>1, <2>2 DEF UserStep
<1>19. CASE Interrupt
  BY <1>19 DEF Interrupt
<1>20. CASE Finished \/ UNCHANGED vars
  BY <1>20 DEF Finished, vars
<1>21. CASE CommandEnds
  BY <1>21 DEF CommandEnds
<1>22. ASSUME NEW h \in Hashes, SonarrTracks(h) \/ DownloadEnds(h) \/ DownloadFails(h)
       PROVE  Apart'
  <2>1. /\ UNCHANGED <<pc, pack, command>> /\ tracked[h] # "absent"
        /\ \A k \in Hashes \ {h} : tracked'[k] = tracked[k]
    BY <1>22 DEF SonarrTracks, DownloadEnds, DownloadFails, IInv, TypeOK
  <2> QED
    BY <2>1 DEF Hashes
<1>23. ASSUME NEW h \in Hashes, SonarrImports(h)
       PROVE  Apart'
  <2>1. /\ UNCHANGED <<pc, pack, command>> /\ tracked[h] # "absent"
        /\ \A k \in Hashes \ {h} : tracked'[k] = tracked[k]
    BY <1>23 DEF SonarrImports, IInv, TypeOK
  <2> QED
    BY <2>1 DEF Hashes
<1>24. ASSUME NEW h \in Hashes, Reinsert(h)
       PROVE  Apart'
  BY <1>24 DEF Reinsert
<1>25. ASSUME NEW e \in Episodes, CommandImports(e)
       PROVE  Apart'
  BY <1>25 DEF CommandImports
<1>26. \A r \in Rivals : ~RivalGrab(r)
  BY DEF Alone
<1> QED
  BY <1>1, <1>2, <1>3, <1>4, <1>5, <1>6, <1>7, <1>8, <1>9, <1>10, <1>11, <1>12, <1>13,
     <1>14, <1>15, <1>16, <1>17, <1>18, <1>19, <1>20, <1>21, <1>22, <1>23, <1>24, <1>25,
     <1>26 DEF Next, CliStep, WorldStep

\* The library is as it was read, in a round that leaves the import to the command.
LEMMA AsReadHolds ==
  ASSUME Alone
  PROVE  Spec => [](IInv /\ Rounds /\ Apart /\ AsRead)
<1>1. Init => AsRead
  <2> SUFFICES ASSUME Init PROVE AsRead
    OBVIOUS
  <2>1. pc = "series" /\ command.state = "none" /\ ~unbinned
    BY DEF Init, NoCommand
  <2>2. \A e \in Episodes : lib[e].id = 0 => lib[e].rank = 0
    <3>1. ASSUME NEW e \in Episodes
          PROVE  lib[e] = NoFile \/ lib[e].id = 1
      <4>1. lib[e] \in {NoFile} \cup
                {[id |-> 1, rank |-> Rank[h], src |-> h] : h \in imported} \cup
                {[id |-> 1, rank |-> q, src |-> NoPack] : q \in OldRanks}
        BY DEF Init
      <4> QED
        BY <4>1
    <3> QED
      BY <3>1 DEF NoFile
  <2> QED
    BY <2>1, <2>2 DEF AsRead, Sent, Following
<1>2. Init => Apart
  BY RetryAssumption DEF Init, Apart, NoCommand, Hashes
<1>3. IInv /\ Rounds /\ Apart /\ [Next]_vars => Apart'
  BY ApartStep DEF Rounds
<1>4. IInv /\ Rounds /\ Apart /\ AsRead /\ [Next]_vars => AsRead'
  BY AsReadStep DEF Rounds
<1> QED
  BY <1>1, <1>2, <1>3, <1>4, Invariance, RoundsHold, PTL DEF Spec

-----------------------------------------------------------------------------
\* Whatever Sonarr, its rivals, failing calls and interrupts do: a rollback that
\* reports no failure has taken the download from the queue and either deleted
\* its torrent and blocklisted it, or left both because the library uses it.
THEOREM RollbackLeavesNothing == Spec => []RollbackIsComplete
BY RoundsHold, PTL DEF Rounds, RolledBack

\* The pack Sonarr is asked to import was neither re-inserted nor marked bad by
\* Decypharr, while it was downloaded, probed, or since.
THEOREM ImportedPacksAreSound == Spec => []ImportsOnlySoundPacks
<1>1. Rounds /\ IInv => ImportsOnlySoundPacks
  BY RetryAssumption DEF Rounds, Waiting, ImportsOnlySoundPacks, IInv, TypeOK, Hashes
<1> QED
  BY <1>1, RoundsHold, Invariance, PTL

\* What rollBack reports as "The library was not touched" is true of a series for
\* which Sonarr neither grabs nor imports on its own: every file of the season still
\* has its torrent.  (It is not when Sonarr does either.)
THEOREM LibraryUntouched ==
  ASSUME Rivals = {}, Recognized = {}
  PROVE  Spec => []LibraryIntact
<1>1. IInv => LibraryIntact
  <2> SUFFICES ASSUME IInv, NEW e \in Episodes, lib[e].src # NoPack
               PROVE  lib[e].src \in torrents
    BY DEF LibraryIntact
  <2>1. lib[e].src \in Packs
    BY DEF IInv, TypeOK, Hashes
  <2> QED
    BY <2>1 DEF IInv, FilesRecorded, Unparsed
<1> QED
  BY <1>1, Invariance, PTL

\* Unless a pack of an earlier run is sent again, a run that reports an import is
\* right about it, also when the download it followed was grabbed by Sonarr.
THEOREM ImportsAreTrue ==
  ASSUME Earlier = {}
  PROVE  Spec => []ImportedIsTrue
BY RoundsHold, PTL DEF Rounds, FiledSince

\* Where no rival is grabbed, and the picker loop does not offer packs Sonarr can
\* parse beside packs it cannot, every file the import of the command replaces is
\* in the recycle bin, whatever fails or is interrupted.
THEOREM ReplacedAreRecycled ==
  ASSUME Alone
  PROVE  Spec => []ReplacedFilesAreRecycled
<1>1. AsRead => ReplacedFilesAreRecycled
  BY DEF AsRead, ReplacedFilesAreRecycled
<1> QED
  BY <1>1, AsReadHolds, PTL

\* On the same terms no step gives an episode a file of lower quality than it had.
\* (Without them one can: the plan of the import is then older than the library.)
THEOREM QualityNeverDrops ==
  ASSUME Alone
  PROVE  Spec => RankNeverDrops
<1>1. ASSUME IInv, Rounds, Apart, AsRead, [Next]_vars, lib' # lib
      PROVE  \A e \in Episodes : lib'[e].rank >= lib[e].rank
  <2> USE DEF control, planning, attempt, library, downloads, settings, world
  <2>1. lib \in [Episodes -> [id : Nat, rank : Nat, src : Hashes \cup {NoPack}]]
        /\ Rank \in [Hashes -> Nat \ {0}]
    BY <1>1, RetryAssumption DEF IInv, TypeOK
  <2>2. CASE \E e \in Episodes : CommandImports(e)
    <3>1. PICK e \in Episodes : CommandImports(e)
      BY <2>2
    <3>2. /\ lib' = [lib EXCEPT ![e] = FileFrom(command.src, e)]
          /\ command.state = "running" /\ e \in command.files
      BY <3>1 DEF CommandImports
    <3>3. /\ command.src \in Hashes /\ Matches(e) /\ Disposition(command.src, e) # "keep"
          /\ lib[e].id = 0 => lib[e].rank = 0
      BY <1>1, <3>2 DEF AsRead, Rounds, Waiting
    <3>4. Rank[command.src] > lib[e].rank
      <4>1. CASE season[e] = 0
        <5>1. lib[e].rank = 0
          BY <3>3, <4>1 DEF Matches
        <5>2. Rank[command.src] \in Nat \ {0}
          BY <2>1, <3>3
        <5> QED
          BY <5>1, <5>2
      <4>2. CASE season[e] # 0
        BY <3>3, <4>2 DEF Matches, Disposition, KnownRank
      <4> QED
        BY <4>1, <4>2
    <3>5. lib'[e].rank = Rank[command.src]
      BY <2>1, <3>2 DEF FileFrom
    <3> QED
      BY <2>1, <3>2, <3>3, <3>4, <3>5
  <2>3. CASE \E h \in Hashes : SonarrImports(h)
    <3>1. PICK h \in Hashes : SonarrImports(h)
      BY <2>3
    <3>2. PICK S \in SUBSET {e \in Episodes : lib[e].rank < Rank[h]} :
            lib' = [e \in Episodes |-> IF e \in S THEN FileFrom(h, e) ELSE lib[e]]
      BY <3>1 DEF SonarrImports
    <3>3. \A e \in Episodes : lib'[e] = lib[e] \/ (e \in S /\ lib'[e].rank = Rank[h])
      BY <3>2 DEF FileFrom
    <3> QED
      BY <2>1, <3>2, <3>3
  <2>4. CASE WorldStep
    BY <1>1, <2>2, <2>3, <2>4 DEF WorldStep, SonarrTracks, DownloadEnds, DownloadFails,
       Reinsert, RivalGrab, SonarrGrabs, CommandEnds
  <2>5. CASE CliStep
    BY <1>1, <2>5 DEF CliStep, SelectSeries, ReadSeasons, NothingToRetry, SearchAndReadFiles,
       NextRelease, ReadGrabCounts, GrabRelease, SonarrGrabsPack, SonarrGrabs, FindGrab,
       PollDelivery, PollAgain, ListFiles, Probe, CheckHealth, StartImport,
       SonarrQueuesImport, PollImport, RecheckEpisodes, ReadUse, DeleteTorrent,
       DropFromQueue, SonarrDrops, Throw
  <2>6. CASE UserStep \/ Interrupt \/ Finished \/ UNCHANGED vars
    BY <1>1, <2>6 DEF UserStep, ChooseSeries, Decline, Choose, Interrupt, Finished, vars
  <2> QED
    BY <1>1, <2>4, <2>5, <2>6 DEF Next
<1>2. IInv /\ Rounds /\ Apart /\ AsRead /\ [Next]_vars
        => [\A e \in Episodes : lib'[e].rank >= lib[e].rank]_lib
  BY <1>1
<1> QED
  BY <1>2, AsReadHolds, PTL DEF Spec, RankNeverDrops
=============================================================================
