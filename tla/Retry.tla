------------------------------- MODULE Retry -------------------------------
(***************************************************************************)
(* The `retry` command: one season of one series is retried as a full       *)
(* season pack (commands/retry.command.ts, processSeason; retry.service.ts, *)
(* runRetry).  The command sends a release to Sonarr, waits for Decypharr   *)
(* to deliver it, verifies the files and asks Sonarr to import them; when   *)
(* the verification fails it rolls the release back and, interactively,     *)
(* offers the next one of the same search.                                  *)
(*                                                                          *)
(* Every HTTP call that changes something is a step of its own, and so is a *)
(* read whose answer is used after another call, so Sonarr, Decypharr and   *)
(* the Ctrl-C of the administrator interleave with the command.  A release  *)
(* is named by its infohash, also its download id in Sonarr.  The           *)
(* seasons of a series are processed one after another; this is one.        *)
(*                                                                          *)
(* A definition marked `mutant` is a faulty variant of the next one, used   *)
(* only to check that the properties can fail.                              *)
(***************************************************************************)
EXTENDS Integers, FiniteSets

CONSTANTS
  Episodes,     \* the monitored episodes of the season
  Packs,        \* the candidates of the search (classifyReleases)
  Rivals,       \* releases Sonarr may grab for the series on its own
  Rank,         \* qualityRank of every release
  Earlier,      \* the packs an earlier run may have imported already
  Recognized,   \* the releases Sonarr can parse and imports by itself
  Interactive,  \* TRUE: the picker loop; FALSE: --yes --pick n
  FaultyCalls,  \* TRUE: an HTTP call may fail, executed or not
  OldRanks,     \* the qualities of files the season may have to begin with
  MaxPolls,     \* polls before a deadline passes (DELIVERY_TIMEOUT_MS, ...)
  NoPack        \* `undefined` where a release or download id is expected

Hashes == Packs \cup Rivals

ASSUME RetryAssumption ==
  /\ Packs \cap Rivals = {}
  /\ NoPack \notin Hashes
  /\ Rank \in [Hashes -> Nat \ {0}]
  /\ Recognized \subseteq Packs /\ Earlier \subseteq Packs
  /\ Interactive \in BOOLEAN
  /\ FaultyCalls \in BOOLEAN
  /\ OldRanks \subseteq Nat
  /\ MaxPolls \in Nat

VARIABLES
  \* the command
  pc, outcome, code, aborted,
  season,       \* the file id of each episode when the seasons were read
  files,        \* the files of the series, read after the search
  binReady,     \* recycleBinReady
  remaining,    \* the releases not tried yet
  pack,         \* the release being tried
  before,       \* grabbedCounts before sending it
  downloadId, queued,  \* GrabInfo; queued: the queue id is known
  polls, assigned, kept, incomplete,
  \* Sonarr and Decypharr
  lib,          \* the file of each episode: id (0: none), quality, torrent
  grabbed,      \* grabbed records of the series in Sonarr's history
  imported,     \* releases with a downloadFolderImported record
  shared,       \* releases with a history record of another series
  recycleBin,   \* Sonarr has a recycle bin
  torrents,     \* the torrents Decypharr holds on Real-Debrid
  tracked,      \* trackedDownloadState of each queue item
  blocklist,
  command,      \* the ManualImport command
  flaky,        \* torrents Decypharr re-inserted or marked bad
  \* history variables
  ownImports,   \* releases imported since the command began
  unbinned      \* a manual import replaced a file with no recycle bin

control   == <<outcome, code, aborted>>
planning  == <<season, files, binReady, remaining, pack>>
attempt   == <<before, downloadId, queued, polls, assigned, kept, incomplete>>
library   == <<lib, imported, command, ownImports, unbinned>>
downloads == <<grabbed, torrents, tracked, blocklist, flaky>>
settings  == <<shared, recycleBin>>
world     == <<library, downloads, settings>>
vars      == <<pc, control, planning, attempt, world>>

NoFile == [id |-> 0, rank |-> 0, src |-> NoPack]
NoCommand == [state |-> "none", files |-> {}, src |-> NoPack]

CommandStates == {"none", "running", "completed", "failed"}
\* "grabbed": Sonarr has not put the download in its queue yet.  "importBlocked"
\* has an output path; a blocked item without one counts as "downloading", and
\* "importPending" stands for importing too, "failed" for failedPending.
TrackedStates == {"absent", "grabbed", "downloading", "importBlocked",
                  "importPending", "failed"}
Outcomes == {"none", "imported", "rejected", "unverified", "failed"}
Labels == {"series", "which", "seasons", "search", "choose", "before", "grab", "find", "deliver",
           "list", "probe", "health", "import", "importing", "recheck",
           "rollback", "delete", "unqueue", "concluded", "done"}

TypeOK ==
  /\ pc \in Labels /\ outcome \in Outcomes /\ code \in {-1, 0, 1, 2, 130}
  /\ aborted \in BOOLEAN
  /\ season \in [Episodes -> Nat] /\ binReady \in BOOLEAN
  /\ files \in [Episodes -> [id : Nat, rank : Nat]]
  /\ remaining \subseteq Packs /\ pack \in Packs \cup {NoPack}
  /\ before \in [Hashes -> Nat]
  /\ downloadId \in Hashes \cup {NoPack} /\ queued \in BOOLEAN
  /\ polls \in Nat /\ assigned \subseteq Episodes
  /\ kept \in BOOLEAN /\ incomplete \in BOOLEAN
  /\ lib \in [Episodes -> [id : Nat, rank : Nat, src : Hashes \cup {NoPack}]]
  /\ grabbed \in [Hashes -> Nat] /\ imported \subseteq Hashes
  /\ shared \subseteq Packs /\ recycleBin \in BOOLEAN
  /\ torrents \subseteq Hashes /\ tracked \in [Hashes -> TrackedStates]
  /\ blocklist \subseteq Hashes
  /\ command \in [state : CommandStates, files : SUBSET Episodes,
                  src : Hashes \cup {NoPack}]
  /\ flaky \subseteq Hashes
  /\ ownImports \subseteq Hashes /\ unbinned \in BOOLEAN

\* A library the program may find: some packs were imported by an earlier
\* run (their torrents are live), and the torrent of a pack another series
\* uses is live too.
Init ==
  /\ pc = "series" /\ outcome = "none" /\ code = -1 /\ aborted = FALSE
  /\ season = [e \in Episodes |-> 0] /\ binReady = FALSE
  /\ files = [e \in Episodes |-> [id |-> 0, rank |-> 0]]
  /\ remaining = Packs /\ pack = NoPack
  /\ before = [h \in Hashes |-> 0] /\ downloadId = NoPack /\ queued = FALSE
  /\ polls = 0 /\ assigned = {} /\ kept = FALSE /\ incomplete = FALSE
  /\ shared \in SUBSET Packs /\ recycleBin \in BOOLEAN
  /\ imported \in SUBSET Earlier
  /\ grabbed = [h \in Hashes |-> IF h \in imported THEN 1 ELSE 0]
  /\ lib \in [Episodes -> {NoFile} \cup
                {[id |-> 1, rank |-> Rank[h], src |-> h] : h \in imported} \cup
                {[id |-> 1, rank |-> q, src |-> NoPack] : q \in OldRanks}]
  /\ torrents = imported \cup shared
  /\ tracked = [h \in Hashes |-> "absent"]
  /\ blocklist = {} /\ command = NoCommand /\ flaky = {}
  /\ ownImports = {} /\ unbinned = FALSE
-----------------------------------------------------------------------------
(* Pure parts: retry.plan.ts, grabbedCounts and the polling deadline.       *)

\* The rank dispositionsFor finds for the file of an episode: the file is
\* looked up by the id the episode had when the seasons were read.
KnownRank(e) ==
  IF files[e].id = season[e] THEN files[e].rank ELSE 0

\* mutant
DispositionByPresence(p, e) ==
  IF season[e] = 0 THEN "fill" ELSE "replace"
Disposition(p, e) ==
  CASE season[e] = 0    -> "fill"
    [] KnownRank(e) < Rank[p] -> "replace"
    [] OTHER                  -> "keep"

Dispositions(p) == {Disposition(p, e) : e \in Episodes}

\* matchPackFiles, importableAssignments: episodes with exactly one file of
\* the pack, except those to keep.  claims[e]: how many files carry number e.
Importable(p, claims) ==
  {e \in Episodes : claims[e] = 1 /\ Disposition(p, e) # "keep"}

NewGrabs == {h \in Hashes : grabbed[h] > before[h]}

\* mutant
DeadlinePassedNever == FALSE
DeadlinePassed == polls >= MaxPolls
Tick == polls' = IF polls < MaxPolls THEN polls + 1 ELSE 0

\* A call whose request was executed but whose answer may be lost, a call
\* that fails before it is executed, and the abort signal of every client.
MayFail == FaultyCalls \/ aborted
MaySucceed == ~aborted

Goto(l) == pc' = l
Finish(o) == /\ Goto("concluded") /\ outcome' = o /\ UNCHANGED <<code, aborted>>
Exit(c) == /\ Goto("done") /\ code' = c /\ UNCHANGED <<outcome, aborted>>

\* An exception that reaches run(): 130 after an interrupt, 1 otherwise.
Throw == /\ MayFail
         /\ Exit(IF aborted THEN 130 ELSE 1)
         /\ UNCHANGED <<planning, attempt, world>>
-----------------------------------------------------------------------------
(* run and processSeason                                                    *)

\* What a name or a tvdbId can find in Sonarr (selectCandidates).
Selections == {"one", "several", "none"}

SelectSeries ==
  /\ pc = "series"
  /\ \/ /\ MaySucceed
        /\ \E found \in Selections :
             \/ found = "one" /\ Goto("seasons") /\ UNCHANGED control
             \/ found = "several" /\ Interactive /\ Goto("which") /\ UNCHANGED control
             \/ found # "one" /\ ~(found = "several" /\ Interactive) /\ Exit(1)
        /\ UNCHANGED <<planning, attempt, world>>
     \/ Throw

ChooseSeries ==
  /\ pc = "which" /\ Goto("seasons")
  /\ UNCHANGED <<control, planning, attempt, world>>

\* No season misses an episode, or the season asked for is not monitored, or
\* several seasons miss some and nobody can be asked.
NothingToRetry ==
  /\ MaySucceed
  /\ \/ (\A e \in Episodes : lib[e].id # 0) /\ Exit(0)
     \/ Exit(1)
  /\ UNCHANGED <<planning, attempt, world>>

ReadSeasons ==
  /\ pc = "seasons"
  /\ \/ /\ MaySucceed
        /\ season' = [e \in Episodes |-> lib[e].id]
        /\ Goto("search")
        /\ UNCHANGED <<control, files, binReady, remaining, pack, attempt, world>>
     \/ NothingToRetry
     \/ Throw

\* The search takes up to 15 minutes; files and recycle bin are read after it.
SearchAndReadFiles ==
  /\ pc = "search"
  /\ \/ /\ MaySucceed
        /\ files' = [e \in Episodes |-> [id |-> lib[e].id, rank |-> lib[e].rank]]
        /\ binReady' = recycleBin
        /\ Goto("choose")
        /\ UNCHANGED <<control, season, remaining, pack, attempt, world>>
     \/ \* no usable release
        MaySucceed /\ Exit(1) /\ UNCHANGED <<planning, attempt, world>>
     \/ Throw

\* mutant
RecycleProblemIgnored(p) == FALSE
RecycleProblem(p) == ~binReady /\ "replace" \in Dispositions(p)

Sendable(p) ==
  /\ Dispositions(p) # {"keep"}
  /\ ~RecycleProblem(p)

Choose(p) ==
  /\ pc = "choose" /\ p \in remaining
  /\ \/ /\ Sendable(p)
        /\ Goto("before") /\ pack' = p /\ outcome' = "none"
        /\ UNCHANGED <<code, aborted, season, files, binReady, remaining, attempt, world>>
     \/ /\ ~Sendable(p)
        /\ Exit(1)
        /\ UNCHANGED <<planning, attempt, world>>

\* The confirmation is declined, or --yes is missing.
Decline ==
  /\ pc = "choose"
  /\ Exit(IF Interactive THEN 130 ELSE 1)
  /\ UNCHANGED <<planning, attempt, world>>

\* After a run: stop, or drop the release and offer the others.
NextRelease ==
  /\ pc = "concluded"
  /\ LET left == remaining \ {pack} IN
       \/ /\ outcome = "imported"
          /\ Exit(0) /\ UNCHANGED planning
       \/ /\ outcome # "imported" /\ (~Interactive \/ outcome = "failed")
          /\ Exit(2) /\ UNCHANGED planning
       \/ /\ Interactive /\ outcome \in {"rejected", "unverified"}
          /\ remaining' = left /\ UNCHANGED <<season, files, binReady, pack>>
          /\ IF left = {} THEN Exit(2)
             ELSE Goto("choose") /\ UNCHANGED control
  /\ UNCHANGED <<attempt, world>>

\* Ctrl-C or SIGTERM.  The pickers listen for the signal; everywhere else
\* the next call that carries the signal fails.
Interrupt ==
  /\ pc # "done" /\ ~aborted
  /\ aborted' = TRUE
  /\ IF pc \in {"which", "choose"} THEN Goto("done") /\ code' = 130
                      ELSE UNCHANGED <<pc, code>>
  /\ UNCHANGED <<outcome, planning, attempt, world>>
-----------------------------------------------------------------------------
(* runRetry: sending the release and waiting for it                         *)

ReadGrabCounts ==
  /\ pc = "before"
  /\ downloadId' = NoPack /\ queued' = FALSE /\ polls' = 0 /\ assigned' = {}
  /\ kept' = FALSE /\ incomplete' = FALSE
  /\ \/ MaySucceed /\ before' = grabbed /\ Goto("grab") /\ UNCHANGED control
     \/ MayFail /\ Finish("failed") /\ UNCHANGED before
  /\ UNCHANGED <<planning, world>>

\* Sonarr's side of a grab: the release goes to Decypharr and is tracked.
SonarrGrabs(h) ==
  /\ torrents' = torrents \cup {h}
  /\ tracked' = [tracked EXCEPT ![h] = "grabbed"]
  /\ UNCHANGED <<library, blocklist, flaky, settings>>

Recorded(h) == [grabbed EXCEPT ![h] = @ + 1]

\* findNewGrab polls for the history record, which may not be there yet when
\* the deadline passes; after that it never comes.
SonarrGrabsPack ==
  /\ SonarrGrabs(pack)
  /\ grabbed' \in {grabbed, Recorded(pack)}

GrabRelease ==
  /\ pc = "grab"
  /\ \/ MaySucceed /\ SonarrGrabsPack /\ Goto("find") /\ UNCHANGED control
     \/ MayFail /\ SonarrGrabsPack /\ Finish("failed")
     \/ MayFail /\ Finish("failed") /\ UNCHANGED world
     \/ MaySucceed /\ Finish("rejected") /\ UNCHANGED world
  /\ UNCHANGED <<planning, attempt>>

\* The end of a poll that decided nothing.
PollAgain(l) ==
  /\ UNCHANGED <<before, downloadId, assigned, kept, incomplete>>
  /\ IF DeadlinePassed THEN Goto("rollback") /\ UNCHANGED polls
                       ELSE Goto(l) /\ Tick
  /\ UNCHANGED <<control, planning, world>>

\* findNewGrab: the first record of the history whose count has grown; which
\* one comes first is Sonarr's order, so any of them.
FindGrab ==
  /\ pc = "find"
  /\ \/ \E h \in NewGrabs :
          /\ MaySucceed
          /\ downloadId' = h
          /\ Goto("deliver")
          /\ UNCHANGED <<before, queued, polls, assigned, kept, incomplete>>
          /\ UNCHANGED <<control, planning, world>>
     \/ NewGrabs = {} /\ MaySucceed /\ UNCHANGED queued /\ PollAgain("find")
     \/ Throw

InQueue(h) == tracked[h] \notin {"absent", "grabbed"}

\* One poll of waitForDelivery: the queue, and the history of the download
\* when it is not in the queue.
PollDelivery ==
  /\ pc = "deliver"
  /\ \/ /\ MaySucceed
        /\ queued' = (queued \/ InQueue(downloadId))
        /\ \/ /\ tracked[downloadId] \in {"importBlocked", "failed"}
              /\ Goto(IF tracked[downloadId] = "failed" THEN "rollback" ELSE "list")
              /\ UNCHANGED <<control, before, downloadId, polls, assigned, kept,
                             incomplete, planning, world>>
           \/ /\ \/ tracked[downloadId] = "importPending"
                 \/ ~InQueue(downloadId) /\ downloadId \in imported
              /\ Finish("imported")
              /\ UNCHANGED <<before, downloadId, polls, assigned, kept,
                             incomplete, planning, world>>
           \/ /\ \/ tracked[downloadId] = "downloading"
                 \/ ~InQueue(downloadId) /\ downloadId \notin imported
              /\ PollAgain("deliver")
     \/ Throw
-----------------------------------------------------------------------------
(* runRetry: verifying the pack and importing it                            *)

\* listVideoFiles, matchPackFiles and importableAssignments.  The directory
\* is read from the host, so no signal stops it.
ListFiles ==
  /\ pc = "list"
  /\ \/ \E claims \in [Episodes -> 0..2] :
          /\ assigned' = Importable(pack, claims)
          /\ Goto(IF assigned' = {} THEN "rollback" ELSE "probe")
     \/ FaultyCalls /\ Goto("rollback") /\ UNCHANGED assigned
  /\ UNCHANGED <<control, before, downloadId, queued, polls, kept, incomplete, planning, world>>

\* probeAll: every file is read through the mount.
Probe ==
  /\ pc = "probe"
  /\ \/ MaySucceed /\ Goto("health")
     \/ Goto("rollback")
  /\ UNCHANGED <<control, attempt, planning, world>>

\* mutant
DisturbedIgnored == FALSE
Disturbed == downloadId \in flaky

\* checkHealth: the Decypharr log is read after the probes.
CheckHealth ==
  /\ pc = "health"
  /\ \/ ~Disturbed /\ Goto("import")
     \/ Disturbed /\ Goto("rollback")
     \/ FaultyCalls /\ Goto("rollback")
  /\ UNCHANGED <<control, attempt, planning, world>>

SonarrQueuesImport ==
  /\ command' = [state |-> "running", files |-> assigned, src |-> downloadId]
  /\ UNCHANGED <<lib, imported, ownImports, unbinned, downloads, settings>>

StartImport ==
  /\ pc = "import"
  /\ polls' = 0
  /\ \/ MaySucceed /\ SonarrQueuesImport /\ Goto("importing") /\ UNCHANGED control
     \/ MayFail /\ SonarrQueuesImport /\ Finish("failed")
     \/ MayFail /\ UNCHANGED world /\ Finish("failed")
  /\ UNCHANGED <<before, downloadId, queued, assigned, kept, incomplete, planning>>

PollImport ==
  /\ pc = "importing"
  /\ \/ MayFail /\ Finish("failed") /\ UNCHANGED polls
     \/ /\ MaySucceed /\ command.state = "completed"
        /\ Goto("recheck") /\ UNCHANGED <<polls, control>>
     \/ /\ MaySucceed /\ command.state = "failed"
        /\ Finish("failed") /\ UNCHANGED polls
     \/ /\ MaySucceed /\ command.state = "running"
        /\ IF DeadlinePassed THEN Finish("failed") /\ UNCHANGED polls
           ELSE Goto("importing") /\ Tick /\ UNCHANGED control
  /\ UNCHANGED <<before, downloadId, queued, assigned, kept, incomplete, planning, world>>

\* An assigned episode counts as imported when its file is not the one read
\* before the picker.
\* mutant
FiledAtAll == {e \in assigned : lib[e].id # 0}
NewlyFiled == {e \in assigned : lib[e].id \notin {0, season[e]}}

RecheckEpisodes ==
  /\ pc = "recheck"
  /\ \/ MaySucceed /\ Finish(IF NewlyFiled = assigned THEN "imported" ELSE "failed")
     \/ MayFail /\ Finish("failed")
  /\ UNCHANGED <<planning, attempt, world>>
-----------------------------------------------------------------------------
(* rollBack                                                                 *)

\* mutant
UsedBySeries(h) == h \in imported
UsedByLibrary(h) == h \in imported \cup shared

\* The history of the download decides whether the torrent is kept.  When it
\* cannot be read the torrent is left alone, and `kept` stays FALSE.
ReadUse ==
  /\ pc = "rollback"
  /\ \/ downloadId = NoPack /\ Goto("unqueue") /\ UNCHANGED <<kept, incomplete>>
     \/ /\ downloadId # NoPack /\ MaySucceed
        /\ kept' = UsedByLibrary(downloadId)
        /\ Goto(IF kept' THEN "unqueue" ELSE "delete") /\ UNCHANGED incomplete
     \/ /\ downloadId # NoPack /\ MayFail
        /\ Goto("unqueue") /\ incomplete' = TRUE /\ UNCHANGED kept
  /\ UNCHANGED <<control, before, downloadId, queued, polls, assigned, planning, world>>

DeleteTorrent ==
  /\ pc = "delete" /\ Goto("unqueue")
  /\ \/ MaySucceed /\ torrents' = torrents \ {downloadId} /\ UNCHANGED incomplete
     \/ MayFail /\ incomplete' = TRUE
        /\ torrents' \in {torrents, torrents \ {downloadId}}
  /\ UNCHANGED <<control, before, downloadId, queued, polls, assigned, kept, planning,
                 grabbed, tracked, blocklist, flaky, library, settings>>

\* removeQueueItem, or blocklistHistory when the queue id is not known.
\* mutant
SonarrDropsBlocklisting ==
  /\ tracked' = IF queued THEN [tracked EXCEPT ![downloadId] = "absent"]
                ELSE tracked
  /\ blocklist' = blocklist \cup {downloadId}
  /\ UNCHANGED <<grabbed, torrents, flaky, library, settings>>
SonarrDrops ==
  /\ tracked' = IF queued THEN [tracked EXCEPT ![downloadId] = "absent"]
                ELSE tracked
  /\ blocklist' = IF downloadId # NoPack /\ ~kept THEN blocklist \cup {downloadId}
                  ELSE blocklist
  /\ UNCHANGED <<grabbed, torrents, flaky, library, settings>>

DropFromQueue ==
  /\ pc = "unqueue"
  /\ \/ (MaySucceed \/ downloadId = NoPack) /\ SonarrDrops /\ UNCHANGED incomplete
     \/ MayFail /\ downloadId # NoPack /\ incomplete' = TRUE
        /\ (SonarrDrops \/ UNCHANGED world)
  /\ Finish("unverified")
  /\ UNCHANGED <<before, downloadId, queued, polls, assigned, kept, planning>>
-----------------------------------------------------------------------------
(* Sonarr and Decypharr, as far as the command can observe them.            *)

SonarrTracks(h) ==
  /\ tracked[h] = "grabbed" /\ h \in torrents
  /\ tracked' = [tracked EXCEPT ![h] = "downloading"]
  /\ UNCHANGED <<grabbed, torrents, blocklist, flaky>>
  /\ UNCHANGED <<pc, control, planning, attempt, library, settings>>

DownloadEnds(h) ==
  /\ tracked[h] = "downloading" /\ h \in torrents
  /\ tracked' = [tracked EXCEPT ![h] =
       IF h \in Recognized \cup Rivals THEN "importPending" ELSE "importBlocked"]
  /\ UNCHANGED <<grabbed, torrents, blocklist, flaky>>
  /\ UNCHANGED <<pc, control, planning, attempt, library, settings>>

DownloadFails(h) ==
  /\ tracked[h] = "downloading"
  /\ tracked' = [tracked EXCEPT ![h] = "failed"]
  /\ UNCHANGED <<grabbed, torrents, blocklist, flaky>>
  /\ UNCHANGED <<pc, control, planning, attempt, library, settings>>

FileFrom(h, e) == [id |-> lib[e].id + 1, rank |-> Rank[h], src |-> h]

\* Sonarr's own import takes only files that improve an episode.
SonarrImports(h) ==
  /\ tracked[h] = "importPending" /\ h \in torrents
  /\ \E S \in SUBSET {e \in Episodes : lib[e].rank < Rank[h]} \ {{}} :
       lib' = [e \in Episodes |-> IF e \in S THEN FileFrom(h, e) ELSE lib[e]]
  /\ imported' = imported \cup {h} /\ ownImports' = ownImports \cup {h}
  /\ tracked' = [tracked EXCEPT ![h] = "absent"]
  /\ UNCHANGED <<grabbed, torrents, blocklist, flaky, command, unbinned>>
  /\ UNCHANGED <<pc, control, planning, attempt, settings>>

\* A manual import takes the files it was given, whatever they replace.
CommandImports(e) ==
  /\ command.state = "running" /\ e \in command.files /\ command.src \in torrents
  /\ lib' = [lib EXCEPT ![e] = FileFrom(command.src, e)]
  /\ imported' = imported \cup {command.src}
  /\ ownImports' = ownImports \cup {command.src}
  /\ command' = [state |-> "running", files |-> command.files \ {e},
                 src |-> command.src]
  /\ unbinned' = (unbinned \/ (lib[e].id # 0 /\ ~recycleBin))
  /\ UNCHANGED <<pc, control, planning, attempt, downloads, settings>>

CommandEnds ==
  /\ command.state = "running"
  /\ \E s \in {"completed", "failed"} :
       command' = [state |-> s, files |-> command.files, src |-> command.src]
  /\ UNCHANGED <<lib, imported, ownImports, unbinned>>
  /\ UNCHANGED <<pc, control, planning, attempt, downloads, settings>>

\* A release Sonarr grabs for the series by itself (RSS, a search of the
\* administrator), once per rival.
RivalGrab(r) ==
  /\ grabbed[r] = 0 /\ SonarrGrabs(r) /\ grabbed' = Recorded(r)
  /\ UNCHANGED <<pc, control, planning, attempt>>

\* Decypharr re-inserts a torrent, or marks it bad, while it downloads it or
\* serves the reads of the probes.
Reinsert(h) ==
  /\ h \in torrents \ flaky
  /\ tracked[h] = "downloading" \/ (pc = "probe" /\ downloadId = h)
  /\ flaky' = flaky \cup {h}
  /\ UNCHANGED <<grabbed, torrents, tracked, blocklist>>
  /\ UNCHANGED <<pc, control, planning, attempt, library, settings>>

Finished == pc = "done" /\ UNCHANGED vars

UserStep == ChooseSeries \/ Decline \/ \E p \in Packs : Choose(p)
CliStep ==
  \/ SelectSeries \/ ReadSeasons \/ SearchAndReadFiles \/ NextRelease
  \/ ReadGrabCounts \/ GrabRelease \/ FindGrab \/ PollDelivery
  \/ ListFiles \/ Probe \/ CheckHealth \/ StartImport \/ PollImport \/ RecheckEpisodes
  \/ ReadUse \/ DeleteTorrent \/ DropFromQueue
WorldStep ==
  \/ \E h \in Hashes : \/ SonarrTracks(h) \/ DownloadEnds(h) \/ DownloadFails(h)
                       \/ SonarrImports(h) \/ Reinsert(h)
  \/ \E e \in Episodes : CommandImports(e)
  \/ \E r \in Rivals : RivalGrab(r)
  \/ CommandEnds

Next == CliStep \/ UserStep \/ WorldStep \/ Interrupt \/ Finished

Spec == Init /\ [][Next]_vars

\* The command keeps running: the event loop schedules every pending call, and
\* each call has a timeout, so it ends.  Nothing is assumed of Sonarr,
\* Decypharr or the rivals; the administrator answers the picker.
FairSpec == Spec /\ WF_vars(CliStep) /\ WF_vars(UserStep)
-----------------------------------------------------------------------------
(* Properties.                                                              *)

\* A rollback deletes a torrent only when nothing plays from it: files that
\* came from a pack Sonarr cannot import by itself, and the files of other
\* series, always have their torrent (rollBack, ManualImport).
UnparsedPacksIntact ==
  /\ \A e \in Episodes :
       lib[e].src \in Packs \ Recognized => lib[e].src \in torrents
  /\ shared \subseteq torrents

\* Refuted where Sonarr grabs or imports on its own (LibraryUntouched proves it
\* where it does neither): the same for every file of the season, what rollBack
\* reports as "The library was not touched".
LibraryIntact ==
  outcome = "unverified" /\ ~incomplete =>
    \A e \in Episodes : lib[e].src # NoPack => lib[e].src \in torrents

\* A rollback that reports no failure left nothing behind: the torrent is
\* gone and the release blocklisted, or the library uses it and both stayed.
RollbackIsComplete ==
  outcome = "unverified" /\ ~incomplete /\ downloadId # NoPack =>
    /\ queued => tracked[downloadId] = "absent"
    /\ IF kept THEN downloadId \in torrents \ blocklist
               ELSE downloadId \in blocklist \ torrents

\* No episode ends up with a file of lower quality (dispositionsFor, through
\* the wait, the match and the import).
RankNeverDrops == [][\A e \in Episodes : lib'[e].rank >= lib[e].rank]_lib

\* A file the import replaces can be recovered: replacements are refused
\* without a recycle bin (NO_RECYCLE_BIN), and the result of an import says
\* that "the replaced files are in the recycle bin".
ReplacedFilesAreRecycled == ~unbinned

\* Sonarr is asked to import only a pack that Decypharr did not re-insert or
\* mark bad, neither while downloading it nor under the reads of the probes.
ImportsOnlySoundPacks == command.src \notin flaky

\* A run that reports the release as imported is right: since the command began
\* Sonarr imported it, or has it pending, or the episodes it was to fill got their
\* files from another release.
ImportedIsTrue ==
  outcome = "imported" =>
    \/ downloadId \in ownImports \/ tracked[downloadId] = "importPending"
    \/ assigned # {} /\ \A e \in assigned : lib[e].src \in ownImports

\* The command ends whatever Sonarr and Decypharr do, because every wait has
\* a deadline and every round drops a release.
Terminates == <>(pc = "done")
=============================================================================
