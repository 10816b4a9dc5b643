------------------------------- MODULE Remove -------------------------------
(***************************************************************************)
(* The `remove` command (commands/remove.command.ts, remove.plan.ts,        *)
(* remove.service.ts): it picks a title of Radarr or Sonarr, plans which of *)
(* its torrents nobody else uses, and after the confirmation deletes the    *)
(* title, those torrents and the record in Seerr, and refreshes Jellyfin.   *)
(* Commands run one after another; releases are grabbed, torrents expire    *)
(* and Ctrl-C comes at any moment.                                          *)
(*                                                                          *)
(* A call may fail before or after its server ran it.  The requests that    *)
(* change something are sent once (retry: { attempts: 1 }), but the refresh *)
(* of Jellyfin, so a call is one step here.                                 *)
(*                                                                          *)
(* A definition marked `mutant` is a faulty variant of the next one, used   *)
(* only to check that the properties can fail.                              *)
(***************************************************************************)
EXTENDS Integers

CONSTANTS
  Titles, Movies,       \* what the two services may hold; Movies: Radarr's
  Downloads, Torrents,  \* download ids; Torrents: those that are infohashes
  NoTitle, NoTorrent,   \* `undefined`
  MaxRuns               \* how many commands are run

ASSUME RemoveAssumption ==
  /\ Movies \subseteq Titles /\ Torrents \subseteq Downloads
  /\ NoTitle \notin Titles /\ NoTorrent \notin Downloads
  /\ MaxRuns \in Nat

VARIABLES
  \* the command
  pc, runs, code, aborted, keepDebrid,
  target,
  downloads,       \* extractGrabbedDownloads of the target
  shared,          \* the downloads another title uses (otherTitles)
  plan,            \* plan.torrents
  todo, current,   \* torrents still to look at; the one being checked
  pending,         \* pendingInfohashes
  failed,          \* the later steps that failed
  libraryDeleted,
  \* the services
  library, history, torrents, media,
  \* history variable
  earlier          \* history when the command began

planned  == <<target, downloads, shared, plan>>
progress == <<todo, current, pending, failed, libraryDeleted>>
command  == <<runs, code, aborted, keepDebrid>>
services == <<library, history, torrents, media>>
vars     == <<pc, command, planned, progress, services, earlier>>

Labels == {"idle", "library", "history", "shared", "confirm", "delete",
           "torrents", "check", "clear", "refresh"}

TypeOK ==
  /\ pc \in Labels /\ runs \in 0..MaxRuns /\ code \in {-1, 0, 1, 2, 130}
  /\ aborted \in BOOLEAN /\ keepDebrid \in BOOLEAN
  /\ target \in Titles \cup {NoTitle}
  /\ downloads \subseteq Downloads /\ shared \subseteq Torrents
  /\ plan \subseteq Torrents /\ todo \subseteq Torrents
  /\ current \in Torrents \cup {NoTorrent} /\ pending \subseteq Torrents
  /\ failed \subseteq {"seerr", "jellyfin"} /\ libraryDeleted \in BOOLEAN
  /\ library \subseteq Titles /\ history \in [Titles -> SUBSET Downloads]
  /\ torrents \subseteq Torrents /\ media \subseteq Titles
  /\ earlier \in [Titles -> SUBSET Downloads]

Init ==
  /\ pc = "idle" /\ runs = 0 /\ code = -1 /\ aborted = FALSE /\ keepDebrid = FALSE
  /\ target = NoTitle /\ downloads = {} /\ shared = {} /\ plan = {}
  /\ todo = {} /\ current = NoTorrent /\ pending = {} /\ failed = {}
  /\ libraryDeleted = FALSE
  /\ library = Titles /\ history \in [Titles -> SUBSET Downloads]
  /\ torrents = Torrents /\ media \in SUBSET Titles
  /\ earlier = history
-----------------------------------------------------------------------------
\* An aborted signal fails every call; a call in flight may have been run.
MaySucceed == ~aborted

Goto(l) == pc' = l /\ UNCHANGED command
Exit(c) == pc' = "idle" /\ code' = c /\ UNCHANGED <<runs, aborted, keepDebrid>>

\* An exception that reaches executeRemove.
Throw == Exit(1) /\ UNCHANGED <<planned, progress, services, earlier>>

\* otherTitles: a download is looked up in the history of both services.
TitlesOf(service) == IF service = "radarr" THEN Movies ELSE Titles \ Movies
Owner == IF target \in Movies THEN "radarr" ELSE "sonarr"

\* mutant
UsedByOthersOfItsService(h) ==
  \E t \in TitlesOf(Owner) \ {target} : h \in history[t]
UsedByOthers(h) ==
  \E s \in {"radarr", "sonarr"} : \E t \in TitlesOf(s) \ {target} : h \in history[t]

\* classifyDownloads
Planned == IF keepDebrid THEN {} ELSE (downloads \cap Torrents) \ shared

Begin ==
  /\ pc = "idle" /\ runs < MaxRuns /\ pc' = "library"
  /\ runs' = runs + 1 /\ code' = -1 /\ aborted' = FALSE
  /\ keepDebrid' \in BOOLEAN
  /\ target' = NoTitle /\ downloads' = {} /\ shared' = {} /\ plan' = {}
  /\ todo' = {} /\ current' = NoTorrent /\ pending' = {} /\ failed' = {}
  /\ libraryDeleted' = FALSE
  /\ earlier' = history
  /\ UNCHANGED services

\* readLibrary and the selection of a title; a query that matches none or
\* several is refused, the picker may be cancelled.
SelectTitle ==
  /\ pc = "library"
  /\ \/ /\ MaySucceed
        /\ \E t \in library : target' = t
        /\ Goto("history")
        /\ UNCHANGED <<downloads, shared, plan, progress, services, earlier>>
     \/ Throw
     \/ Exit(130) /\ UNCHANGED <<planned, progress, services, earlier>>

ReadHistory ==
  /\ pc = "history"
  /\ \/ /\ MaySucceed
        /\ downloads' = history[target]
        /\ todo' = history[target] \cap Torrents
        /\ Goto("shared")
        /\ UNCHANGED <<target, shared, plan, current, pending, failed,
                       libraryDeleted, services, earlier>>
     \/ Throw

ReadOtherTitles(h) ==
  /\ pc = "shared" /\ h \in todo
  /\ \/ /\ MaySucceed
        /\ shared' = IF UsedByOthers(h) THEN shared \cup {h} ELSE shared
        /\ todo' = todo \ {h}
        /\ Goto("shared")
        /\ UNCHANGED <<target, downloads, plan, current, pending, failed,
                       libraryDeleted, services, earlier>>
     \/ Throw

MakePlan ==
  /\ pc = "shared" /\ todo = {}
  /\ plan' = Planned
  /\ Goto("confirm")
  /\ UNCHANGED <<target, downloads, shared, progress, services, earlier>>

\* Interactive: the prompt, which an abort cancels, unless it came before the
\* prompt did.  Otherwise --yes is there or not.
Confirm ==
  /\ pc = "confirm"
  /\ Goto("delete") \/ Exit(130) \/ Exit(1)
  /\ UNCHANGED <<planned, progress, services, earlier>>
-----------------------------------------------------------------------------
(* runRemove                                                                *)

DropTitle ==
  /\ library' = library \ {target}
  /\ history' = [history EXCEPT ![target] = {}]
  /\ UNCHANGED <<torrents, media>>

Failure == IF aborted THEN 130 ELSE 1

DeleteTitle ==
  /\ pc = "delete"
  /\ \/ /\ MaySucceed /\ DropTitle
        /\ libraryDeleted' = TRUE /\ todo' = plan
        /\ Goto("torrents")
        /\ UNCHANGED <<planned, current, pending, failed, earlier>>
     \/ /\ DropTitle \/ UNCHANGED services
        /\ Exit(Failure)
        /\ UNCHANGED <<planned, progress, earlier>>

Rest(h) == todo \ {h}

\* One torrent.  An error status is followed by a look at the list of
\* torrents, any other error leaves the torrent pending.
DeleteTorrent(h) ==
  /\ pc = "torrents" /\ h \in todo
  /\ todo' = Rest(h)
  /\ \/ /\ MaySucceed   \* deleted, or 404
        /\ torrents' = torrents \ {h}
        /\ Goto("torrents") /\ UNCHANGED <<current, pending>>
     \/ /\ MaySucceed   \* an error status
        /\ torrents' \in {torrents, torrents \ {h}}
        /\ current' = h /\ Goto("check") /\ UNCHANGED pending
     \/ /\ torrents' \in {torrents, torrents \ {h}}
        /\ pending' = pending \cup {h} /\ Goto("torrents") /\ UNCHANGED current
  /\ UNCHANGED <<planned, failed, libraryDeleted, library, history, media, earlier>>

\* `listed`: the torrent is pending unless a list without it could be read.
CheckTorrent ==
  /\ pc = "check"
  /\ \/ MaySucceed /\ pending' = pending \cup ({current} \cap torrents)
     \/ pending' = pending \cup {current}
  /\ current' = NoTorrent
  /\ Goto("torrents")
  /\ UNCHANGED <<planned, todo, failed, libraryDeleted, services, earlier>>

Fails(step) == failed' = failed \cup {step}

FindMedia ==
  /\ pc = "torrents" /\ todo = {}
  /\ \/ MaySucceed /\ target \in media /\ Goto("clear") /\ UNCHANGED failed
     \/ MaySucceed /\ target \notin media /\ Goto("refresh") /\ UNCHANGED failed
     \/ Fails("seerr") /\ Goto("refresh")
  /\ UNCHANGED <<planned, todo, current, pending, libraryDeleted, services, earlier>>

\* A record that is gone (404) counts as cleared.
DeleteMedia ==
  /\ pc = "clear"
  /\ \/ MaySucceed /\ media' = media \ {target} /\ UNCHANGED failed
     \/ Fails("seerr") /\ media' \in {media, media \ {target}}
  /\ Goto("refresh")
  /\ UNCHANGED <<planned, todo, current, pending, libraryDeleted, library, history,
                 torrents, earlier>>

\* exitCodeFor, after the last step.
\* mutant
ExitCodeOfLaterSteps(steps) == IF aborted THEN 130 ELSE IF steps = {} THEN 0 ELSE 2
ExitCode(steps) ==
  IF aborted THEN 130 ELSE IF steps = {} /\ pending = {} THEN 0 ELSE 2

Refresh ==
  /\ pc = "refresh"
  /\ \/ MaySucceed /\ UNCHANGED failed
     \/ Fails("jellyfin")
  /\ Exit(ExitCode(failed'))
  /\ UNCHANGED <<planned, todo, current, pending, libraryDeleted, services, earlier>>
-----------------------------------------------------------------------------
(* The services and the administrator.                                      *)

\* Sonarr or Radarr grabs a release, whose download id is an infohash since
\* Decypharr is their download client; other ids are older.
Grab(t, h) ==
  /\ t \in library /\ h \notin history[t]
  /\ history' = [history EXCEPT ![t] = @ \cup {h}]
  /\ torrents' = torrents \cup {h}
  /\ UNCHANGED <<pc, command, planned, progress, library, media, earlier>>

Expire(h) ==
  /\ h \in torrents
  /\ torrents' = torrents \ {h}
  /\ UNCHANGED <<pc, command, planned, progress, library, history, media, earlier>>

\* The title is requested again in Seerr, between two commands.
Return(t) ==
  /\ pc = "idle" /\ t \in Titles \ library
  /\ library' = library \cup {t} /\ media' = media \cup {t}
  /\ UNCHANGED <<pc, command, planned, progress, history, torrents, earlier>>

Interrupt ==
  /\ pc # "idle" /\ ~aborted
  /\ aborted' = TRUE
  /\ UNCHANGED <<pc, runs, code, keepDebrid, planned, progress, services, earlier>>

CliStep ==
  \/ SelectTitle \/ ReadHistory \/ MakePlan \/ Confirm
  \/ DeleteTitle \/ CheckTorrent \/ FindMedia \/ DeleteMedia \/ Refresh
  \/ \E h \in Torrents : ReadOtherTitles(h) \/ DeleteTorrent(h)
WorldStep ==
  \/ \E t \in Titles : Return(t) \/ \E h \in Torrents : Grab(t, h)
  \/ \E h \in Torrents : Expire(h)

Next == Begin \/ CliStep \/ WorldStep \/ Interrupt

Spec == Init /\ [][Next]_vars

\* Every call has a timeout (REQUEST_TIMEOUT_MS) and the command awaits them one
\* by one; the administrator answers its prompts.
FairSpec == Spec /\ WF_vars(CliStep)
-----------------------------------------------------------------------------
(* Properties.                                                              *)

\* The command keeps what Removal promises: the title goes first, then only
\* torrents no other title used when the command began, and its own record.
Promise == INSTANCE Removal WITH
  before <- earlier,
  gone <- IF target \in library THEN NoTitle ELSE target,
  mine <- IF target \in library \cup {NoTitle} THEN {} ELSE plan
KeepsPromise == Promise!Spec

\* What is left of a title after its removal is known: every torrent it had
\* when the command began is gone, is used by another title, was kept by
\* --keep-debrid or is listed as pending, and after exit code 0 nothing is left.
NothingLeftUnreported ==
  pc = "idle" /\ libraryDeleted =>
    /\ \A h \in earlier[target] \cap torrents :
         keepDebrid \/ h \in pending \/ \E t \in library : h \in history[t]
    /\ code = 0 => pending = {} /\ (target \in library \/ target \notin media)

\* Refuted: a title the command reports as not deleted is still there
\* (formatRemoveSummary).
UndeletedIsThere ==
  pc = "idle" /\ code \in {1, 130} /\ ~libraryDeleted /\ target # NoTitle =>
    target \in library

\* A command ends, whatever fails and whatever is grabbed meanwhile.
Terminates == (pc # "idle") ~> (pc = "idle")
=============================================================================
