---------------------------- MODULE RemoveProofs ----------------------------
(***************************************************************************)
(* Proofs about Remove, for every set of titles and downloads and any       *)
(* number of commands: its types, what is known of what a removal left, and *)
(* that it implements Removal.                                              *)
(***************************************************************************)
EXTENDS Remove, TLAPS

Clearing == {"torrents", "check", "clear", "refresh"}
Planning == Labels \ (Clearing \cup {"idle"})

\* A title is chosen from the library, and is gone from it once it was deleted.
TargetKnown ==
  /\ pc = "library" => target = NoTitle
  /\ pc \in Planning \ {"library"} => target \in library
  /\ pc \in Planning => ~libraryDeleted
  /\ pc \in Clearing => target \in Titles \ library

\* Only titles of the library have a history, which grows until the deletion.
HistoryKept ==
  /\ \A t \in Titles \ library : history[t] = {}
  /\ pc \in Planning => \A t \in Titles : earlier[t] \subseteq history[t]

UsedElsewhere(h) == \E t \in library \ {target} : h \in history[t]
OnlyTarget(h)    == \A t \in Titles \ {target} : h \notin earlier[t]

DownloadsRead ==
  pc \in {"shared", "confirm", "delete"} =>
    earlier[target] \subseteq downloads /\ downloads \subseteq history[target]

\* What was read of the torrents looked at so far.
SharedRead ==
  /\ pc \in {"library", "history"} => shared = {}
  /\ pc = "shared" => shared \cap todo = {}
  /\ pc = "shared" => \A h \in (downloads \cap Torrents) \ todo :
       IF h \in shared THEN UsedElsewhere(h) ELSE OnlyTarget(h)

PlanSound ==
  pc \in {"confirm", "delete"} =>
    /\ plan \subseteq downloads
    /\ \A h \in plan : OnlyTarget(h)
    /\ \A h \in (downloads \cap Torrents) \ plan : keepDebrid \/ UsedElsewhere(h)

DeletesPlan ==
  /\ pc \in {"torrents", "check"} => todo \subseteq plan
  /\ pc = "check" => current \in Torrents

\* A torrent of the title that is still there is accounted for, or will be.
Accounted(h) ==
  keepDebrid \/ h \in pending \/ \E t \in library : h \in history[t]
LeftKnown ==
  /\ pc \in Clearing => \A h \in earlier[target] \cap torrents :
       \/ Accounted(h)
       \/ pc \in {"torrents", "check"} /\ h \in todo
       \/ pc = "check" /\ h = current
  /\ pc = "refresh" => "seerr" \in failed \/ target \notin media

Known == /\ TargetKnown /\ HistoryKept /\ DownloadsRead /\ SharedRead /\ PlanSound
         /\ DeletesPlan /\ LeftKnown /\ NothingLeftUnreported
IInv == TypeOK /\ Known

\* The groups of variables only name tuples.
USE DEF vars, planned, progress, command, services, Goto, Exit, MaySucceed

-----------------------------------------------------------------------------
(* Types.                                                                   *)

ControlTypes ==
  /\ pc \in Labels /\ runs \in 0..MaxRuns /\ code \in {-1, 0, 1, 2, 130}
  /\ aborted \in BOOLEAN /\ keepDebrid \in BOOLEAN
PlanTypes ==
  /\ target \in Titles \cup {NoTitle}
  /\ downloads \subseteq Downloads /\ shared \subseteq Torrents
  /\ plan \subseteq Torrents /\ todo \subseteq Torrents
  /\ current \in Torrents \cup {NoTorrent} /\ pending \subseteq Torrents
  /\ failed \subseteq {"seerr", "jellyfin"} /\ libraryDeleted \in BOOLEAN
ServiceTypes ==
  /\ library \subseteq Titles /\ history \in [Titles -> SUBSET Downloads]
  /\ torrents \subseteq Torrents /\ media \subseteq Titles
  /\ earlier \in [Titles -> SUBSET Downloads]

LEMMA InitTypes == Init => TypeOK
<1> SUFFICES ASSUME Init PROVE TypeOK
  OBVIOUS
<1>1. ControlTypes
  <2>1. runs \in 0..MaxRuns
    BY RemoveAssumption DEF Init
  <2> QED
    BY <2>1 DEF Init, ControlTypes, Labels
<1>2. PlanTypes /\ ServiceTypes
  BY DEF Init, PlanTypes, ServiceTypes
<1> QED
  BY <1>1, <1>2 DEF TypeOK, ControlTypes, PlanTypes, ServiceTypes

\* The command knows its title when it reads its history, and the torrent it checks.
LEMMA NextTypes ==
  ASSUME TypeOK, pc = "history" => target \in Titles,
         pc = "check" => current \in Torrents, [Next]_vars
  PROVE  TypeOK'
<1>1. CASE Begin
  <2>1. runs' \in 0..MaxRuns
    BY <1>1, RemoveAssumption DEF Begin, TypeOK
  <2>2. ControlTypes'
    BY <1>1, <2>1 DEF Begin, TypeOK, ControlTypes, Labels
  <2>3. PlanTypes' /\ ServiceTypes'
    BY <1>1 DEF Begin, TypeOK, PlanTypes, ServiceTypes
  <2> QED
    BY <2>2, <2>3 DEF TypeOK, ControlTypes, PlanTypes, ServiceTypes
<1>2. CASE CliStep
  <2>1. ControlTypes'
    BY <1>2 DEF CliStep, SelectTitle, ReadHistory, ReadOtherTitles, MakePlan, Confirm,
       DeleteTitle, DeleteTorrent, CheckTorrent, FindMedia, DeleteMedia, Refresh,
       Throw, Failure, ExitCode, TypeOK, ControlTypes, Labels
  <2>2. PlanTypes'
    <3>1. CASE ReadHistory
      <4>1. downloads' \in SUBSET Downloads /\ todo' \in SUBSET Torrents
        BY <3>1 DEF ReadHistory, Throw, TypeOK
      <4>2. UNCHANGED <<target, shared, plan, current, pending, failed, libraryDeleted>>
        BY <3>1 DEF ReadHistory, Throw
      <4> QED
        BY <4>1, <4>2 DEF TypeOK, PlanTypes
    <3>2. CASE CheckTorrent
      <4>1. pending' \in SUBSET Torrents
        BY <3>2 DEF CheckTorrent, TypeOK
      <4>2. current' = NoTorrent /\ UNCHANGED <<planned, todo, failed, libraryDeleted>>
        BY <3>2 DEF CheckTorrent
      <4> QED
        BY <4>1, <4>2 DEF TypeOK, PlanTypes
    <3>3. ASSUME NEW h \in Torrents, ReadOtherTitles(h) \/ DeleteTorrent(h)
          PROVE  PlanTypes'
      BY <3>3 DEF ReadOtherTitles, DeleteTorrent, Rest, Throw, TypeOK, PlanTypes
    <3>4. CASE SelectTitle \/ MakePlan \/ Confirm
      BY <3>4 DEF SelectTitle, MakePlan, Planned, Confirm, Throw, TypeOK, PlanTypes
    <3>5. CASE DeleteTitle \/ FindMedia \/ DeleteMedia \/ Refresh
      BY <3>5 DEF DeleteTitle, FindMedia, DeleteMedia, Refresh, Fails, TypeOK, PlanTypes
    <3> QED
      BY <1>2, <3>1, <3>2, <3>3, <3>4, <3>5 DEF CliStep
  <2>3. ServiceTypes'
    BY <1>2 DEF CliStep, SelectTitle, ReadHistory, ReadOtherTitles, MakePlan, Confirm,
       DeleteTitle, DeleteTorrent, CheckTorrent, FindMedia, DeleteMedia, Refresh,
       Throw, DropTitle, TypeOK, ServiceTypes
  <2> QED
    BY <2>1, <2>2, <2>3 DEF TypeOK, ControlTypes, PlanTypes, ServiceTypes
<1>3. CASE WorldStep \/ Interrupt
  <2>1. ControlTypes' /\ PlanTypes'
    BY <1>3 DEF WorldStep, Grab, Expire, Return, Interrupt, TypeOK, ControlTypes, PlanTypes
  <2>2. ServiceTypes'
    BY <1>3, RemoveAssumption DEF WorldStep, Grab, Expire, Return, Interrupt, TypeOK, ServiceTypes
  <2> QED
    BY <2>1, <2>2 DEF TypeOK, ControlTypes, PlanTypes, ServiceTypes
<1>4. CASE UNCHANGED vars
  BY <1>4 DEF TypeOK
<1> QED
  BY <1>1, <1>2, <1>3, <1>4 DEF Next

-----------------------------------------------------------------------------
(* What is known at each step.                                              *)

LEMMA InitKnown == ASSUME Init PROVE Known
BY DEF Init, Known, TargetKnown, HistoryKept, DownloadsRead, SharedRead, PlanSound,
   DeletesPlan, LeftKnown, NothingLeftUnreported, Labels, Planning, Clearing

LEMMA StopStep ==
  ASSUME IInv, pc \in Planning, NEW c \in {0, 1, 2, 130}, Exit(c),
         UNCHANGED <<planned, progress, services, earlier>>
  PROVE  Known'
BY DEF IInv, TypeOK, Known, TargetKnown, HistoryKept, DownloadsRead, SharedRead, PlanSound,
   DeletesPlan, LeftKnown, NothingLeftUnreported, Labels, Planning, Clearing

LEMMA BeginStep == ASSUME IInv, Begin PROVE Known'
BY DEF IInv, TypeOK, Known, Begin, Throw, Accounted, UsedElsewhere, OnlyTarget,
   TargetKnown, HistoryKept, DownloadsRead, SharedRead, PlanSound,
   DeletesPlan, LeftKnown, NothingLeftUnreported, Labels, Planning, Clearing

LEMMA SelectTitleStep == ASSUME IInv, SelectTitle PROVE Known'
BY DEF IInv, TypeOK, Known, SelectTitle, Throw, Accounted, UsedElsewhere, OnlyTarget,
   TargetKnown, HistoryKept, DownloadsRead, SharedRead, PlanSound,
   DeletesPlan, LeftKnown, NothingLeftUnreported, Labels, Planning, Clearing

LEMMA ReadHistoryStep == ASSUME IInv, ReadHistory PROVE Known'
BY DEF IInv, TypeOK, Known, ReadHistory, Throw, Accounted, UsedElsewhere, OnlyTarget,
   TargetKnown, HistoryKept, DownloadsRead, SharedRead, PlanSound,
   DeletesPlan, LeftKnown, NothingLeftUnreported, Labels, Planning, Clearing

LEMMA MakePlanStep == ASSUME IInv, MakePlan PROVE Known'
BY DEF IInv, TypeOK, Known, MakePlan, Throw, Planned, Accounted, UsedElsewhere, OnlyTarget,
   TargetKnown, HistoryKept, DownloadsRead, SharedRead, PlanSound,
   DeletesPlan, LeftKnown, NothingLeftUnreported, Labels, Planning, Clearing

LEMMA ConfirmStep == ASSUME IInv, Confirm PROVE Known'
BY DEF IInv, TypeOK, Known, Confirm, Throw, Accounted, UsedElsewhere, OnlyTarget,
   TargetKnown, HistoryKept, DownloadsRead, SharedRead, PlanSound,
   DeletesPlan, LeftKnown, NothingLeftUnreported, Labels, Planning, Clearing

LEMMA DeleteTitleStep == ASSUME IInv, DeleteTitle PROVE Known'
BY DEF IInv, TypeOK, Known, DeleteTitle, Throw, DropTitle, Failure, Accounted, UsedElsewhere, OnlyTarget,
   TargetKnown, HistoryKept, DownloadsRead, SharedRead, PlanSound,
   DeletesPlan, LeftKnown, NothingLeftUnreported, Labels, Planning, Clearing

LEMMA CheckTorrentStep == ASSUME IInv, CheckTorrent PROVE Known'
BY DEF IInv, TypeOK, Known, CheckTorrent, Throw, Accounted, UsedElsewhere, OnlyTarget,
   TargetKnown, HistoryKept, DownloadsRead, SharedRead, PlanSound,
   DeletesPlan, LeftKnown, NothingLeftUnreported, Labels, Planning, Clearing

LEMMA FindMediaStep == ASSUME IInv, FindMedia PROVE Known'
BY DEF IInv, TypeOK, Known, FindMedia, Throw, Fails, Accounted, UsedElsewhere, OnlyTarget,
   TargetKnown, HistoryKept, DownloadsRead, SharedRead, PlanSound,
   DeletesPlan, LeftKnown, NothingLeftUnreported, Labels, Planning, Clearing

LEMMA DeleteMediaStep == ASSUME IInv, DeleteMedia PROVE Known'
BY DEF IInv, TypeOK, Known, DeleteMedia, Throw, Fails, Accounted, UsedElsewhere, OnlyTarget,
   TargetKnown, HistoryKept, DownloadsRead, SharedRead, PlanSound,
   DeletesPlan, LeftKnown, NothingLeftUnreported, Labels, Planning, Clearing

LEMMA RefreshStep == ASSUME IInv, Refresh PROVE Known'
BY DEF IInv, TypeOK, Known, Refresh, Throw, Fails, ExitCode, Accounted, UsedElsewhere, OnlyTarget,
   TargetKnown, HistoryKept, DownloadsRead, SharedRead, PlanSound,
   DeletesPlan, LeftKnown, NothingLeftUnreported, Labels, Planning, Clearing

LEMMA InterruptStep == ASSUME IInv, Interrupt PROVE Known'
BY DEF IInv, TypeOK, Known, Interrupt, Throw, Accounted, UsedElsewhere, OnlyTarget,
   TargetKnown, HistoryKept, DownloadsRead, SharedRead, PlanSound,
   DeletesPlan, LeftKnown, NothingLeftUnreported, Labels, Planning, Clearing

\* The two services together have the history of every title.
LEMMA BothServices ==
  ASSUME NEW h \in Torrents
  PROVE  UsedByOthers(h) <=> \E t \in Titles \ {target} : h \in history[t]
BY RemoveAssumption DEF UsedByOthers, TitlesOf

LEMMA ReadOtherTitlesStep ==
  ASSUME IInv, NEW h \in Torrents, ReadOtherTitles(h)
  PROVE  Known'
<1>1. CASE Throw
  BY <1>1, StopStep DEF ReadOtherTitles, Throw, Planning, Labels, Clearing
<1>2. CASE ~Throw
  <2>1. /\ pc = "shared" /\ pc' = "shared"
        /\ shared' = IF UsedByOthers(h) THEN shared \cup {h} ELSE shared
        /\ todo' = todo \ {h}
        /\ UNCHANGED <<command, target, downloads, plan, current, pending, failed,
                       libraryDeleted, services, earlier>>
    BY <1>2 DEF ReadOtherTitles
  <2>0. h \notin shared
    BY DEF ReadOtherTitles, IInv, Known, SharedRead
  <2>2. UsedElsewhere(h) \/ ~UsedByOthers(h)
    BY BothServices DEF UsedElsewhere, IInv, Known, HistoryKept
  <2>3. OnlyTarget(h) \/ UsedByOthers(h)
    BY <2>1, BothServices DEF OnlyTarget, IInv, Known, HistoryKept, Planning, Labels, Clearing
  <2>4. SharedRead'
    <3>1. ASSUME NEW k \in (downloads' \cap Torrents) \ todo'
          PROVE  IF k \in shared' THEN UsedElsewhere(k)' ELSE OnlyTarget(k)'
      <4>1. UsedElsewhere(k)' = UsedElsewhere(k) /\ OnlyTarget(k)' = OnlyTarget(k)
        BY <2>1 DEF UsedElsewhere, OnlyTarget
      <4>2. CASE k = h
        BY <2>1, <2>2, <2>3, <4>1, <4>2, <2>0
      <4>3. CASE k # h
        BY <2>1, <4>1, <4>3, <3>1 DEF IInv, Known, SharedRead
      <4> QED
        BY <4>2, <4>3
    <3>2. shared' \cap todo' = {}
      BY <2>1 DEF SharedRead, IInv, Known
    <3> QED
      BY <2>1, <3>1, <3>2 DEF SharedRead
  <2>5. (/\ TargetKnown /\ HistoryKept /\ DownloadsRead /\ PlanSound
         /\ DeletesPlan /\ LeftKnown /\ NothingLeftUnreported)'
    BY <2>1 DEF IInv, Known, TargetKnown, HistoryKept, DownloadsRead, PlanSound,
       DeletesPlan, LeftKnown, NothingLeftUnreported, Labels, Planning, Clearing
  <2> QED
    BY <2>4, <2>5 DEF Known
<1> QED
  BY <1>1, <1>2

LEMMA DeleteTorrentStep == ASSUME IInv, NEW h \in Torrents, DeleteTorrent(h) PROVE Known'
BY DEF IInv, TypeOK, Known, DeleteTorrent, Rest, Accounted, UsedElsewhere, OnlyTarget,
   TargetKnown, HistoryKept, DownloadsRead, SharedRead, PlanSound,
   DeletesPlan, LeftKnown, NothingLeftUnreported, Labels, Planning, Clearing

LEMMA ExpireStep == ASSUME IInv, NEW h \in Torrents, Expire(h) PROVE Known'
BY DEF IInv, TypeOK, Known, Expire, Accounted, UsedElsewhere, OnlyTarget,
   TargetKnown, HistoryKept, DownloadsRead, SharedRead, PlanSound,
   DeletesPlan, LeftKnown, NothingLeftUnreported, Labels, Planning, Clearing

LEMMA ReturnStep == ASSUME IInv, NEW t \in Titles, Return(t) PROVE Known'
BY DEF IInv, TypeOK, Known, Return, Accounted, UsedElsewhere, OnlyTarget,
   TargetKnown, HistoryKept, DownloadsRead, SharedRead, PlanSound,
   DeletesPlan, LeftKnown, NothingLeftUnreported, Labels, Planning, Clearing

LEMMA GrabStep == ASSUME IInv, NEW t \in Titles, NEW h \in Torrents, Grab(t, h) PROVE Known'
BY DEF IInv, TypeOK, Known, Grab, Accounted, UsedElsewhere, OnlyTarget,
   TargetKnown, HistoryKept, DownloadsRead, SharedRead, PlanSound,
   DeletesPlan, LeftKnown, NothingLeftUnreported, Labels, Planning, Clearing

-----------------------------------------------------------------------------
(* The invariant.                                                           *)

LEMMA NextKnown ==
  ASSUME IInv, [Next]_vars
  PROVE  Known'
<1>1. CASE CliStep
  BY <1>1, SelectTitleStep, ReadHistoryStep, ReadOtherTitlesStep, MakePlanStep,
     ConfirmStep, DeleteTitleStep, DeleteTorrentStep, CheckTorrentStep,
     FindMediaStep, DeleteMediaStep, RefreshStep DEF CliStep
<1>2. CASE WorldStep
  BY <1>2, GrabStep, ReturnStep, ExpireStep DEF WorldStep
<1>3. CASE UNCHANGED vars
  BY <1>3 DEF IInv, Known, TargetKnown, HistoryKept, DownloadsRead, SharedRead,
     PlanSound, DeletesPlan, LeftKnown, NothingLeftUnreported, Accounted,
     UsedElsewhere, OnlyTarget
<1> QED
  BY <1>1, <1>2, <1>3, BeginStep, InterruptStep DEF Next

LEMMA NextIInv == IInv /\ [Next]_vars => IInv'
<1> SUFFICES ASSUME IInv, [Next]_vars
             PROVE  IInv'
  OBVIOUS
<1>1. /\ pc = "history" => target \in Titles
      /\ pc = "check" => current \in Torrents
  BY DEF IInv, TypeOK, Known, TargetKnown, DeletesPlan, Planning, Labels, Clearing
<1>2. TypeOK'
  BY <1>1, NextTypes DEF IInv
<1> QED
  BY <1>2, NextKnown DEF IInv

LEMMA Invariance == Spec => []IInv
<1>1. Init => IInv
  BY InitTypes, InitKnown DEF IInv
<1> QED
  BY <1>1, NextIInv, PTL DEF Spec

\* The variables of the command and of the services keep their types.
THEOREM TypeCorrect == Spec => []TypeOK
<1>1. IInv => TypeOK
  BY DEF IInv
<1> QED
  BY <1>1, Invariance, PTL

\* After a removal every torrent the title had when the command began is gone,
\* used by another title, kept on request or reported as pending; after exit
\* code 0 nothing is pending and Seerr has no record of the title.
THEOREM RemovalIsAccountedFor == Spec => []NothingLeftUnreported
<1>1. IInv => NothingLeftUnreported
  BY DEF IInv, Known
<1> QED
  BY <1>1, Invariance, PTL
-----------------------------------------------------------------------------
(* The refinement.                                                          *)

LEMMA InitRefines == Init => Promise!Init
BY RemoveAssumption DEF Init, Promise!Init

\* Without a deletion, and with the title it had, a command stutters.
LEMMA Stutters ==
  ASSUME UNCHANGED <<library, history, torrents, media, earlier>>,
         \/ UNCHANGED <<target, plan>>
         \/ target \in library \cup {NoTitle} /\ target' \in library \cup {NoTitle}
  PROVE  UNCHANGED Promise!vars
BY DEF Promise!vars

LEMMA DeleteTitleRefines ==
  ASSUME IInv, DeleteTitle, library' # library
  PROVE  Promise!DropTitle(target)
<1>1. /\ target \in library /\ target \in Titles /\ target # NoTitle
  BY RemoveAssumption
     DEF DeleteTitle, IInv, TypeOK, Known, TargetKnown, Planning, Labels, Clearing
<1>2. plan \in SUBSET Promise!OnlyOf(target)
  BY <1>1 DEF DeleteTitle, Promise!OnlyOf, OnlyTarget, IInv, TypeOK, Known,
     DownloadsRead, PlanSound
<1>3. /\ library' = library \ {target}
      /\ history' = [history EXCEPT ![target] = {}]
      /\ UNCHANGED <<target, plan, torrents, media, earlier>>
  BY DEF DeleteTitle, DropTitle
<1> QED
  BY <1>1, <1>2, <1>3 DEF Promise!DropTitle

LEMMA DeleteTorrentRefines ==
  ASSUME IInv, NEW h \in Torrents, DeleteTorrent(h)
  PROVE  Promise!DropTorrent(h) \/ UNCHANGED Promise!vars
<1>1. h \in plan /\ target \notin library \cup {NoTitle}
  BY RemoveAssumption
     DEF DeleteTorrent, IInv, Known, TargetKnown, DeletesPlan, Clearing
<1>2. /\ torrents' = torrents \/ torrents' = torrents \ {h}
      /\ UNCHANGED <<target, plan, library, history, media, earlier>>
  BY DEF DeleteTorrent
<1> QED
  BY <1>1, <1>2 DEF Promise!DropTorrent, Promise!vars

LEMMA DeleteMediaRefines ==
  ASSUME IInv, DeleteMedia
  PROVE  Promise!DropRecord \/ UNCHANGED Promise!vars
<1>1. target \notin library \cup {NoTitle}
  BY RemoveAssumption DEF DeleteMedia, IInv, Known, TargetKnown, Clearing
<1>2. /\ media' = media \/ media' = media \ {target}
      /\ UNCHANGED <<target, plan, library, history, torrents, earlier>>
  BY DEF DeleteMedia
<1> QED
  BY <1>1, <1>2 DEF Promise!DropRecord, Promise!vars

LEMMA ReturnRefines ==
  ASSUME IInv, NEW t \in Titles, Return(t)
  PROVE  Promise!Return(t)
<1>1. t # NoTitle
  BY RemoveAssumption
<1>2. UNCHANGED <<target, plan>>
  BY DEF Return
<1> QED
  BY <1>1, <1>2 DEF Return, Promise!Return

\* Every step of the command is a step of Removal, or changes nothing it tells.
LEMMA NextRefines ==
  ASSUME IInv, [Next]_vars
  PROVE  [Promise!Next]_Promise!vars
<1>1. CASE Begin
  <2>1. Promise!Begin
    BY <1>1 DEF Begin, Promise!Begin
  <2> QED
    BY <2>1 DEF Promise!Next
<1>2. CASE SelectTitle \/ MakePlan
  <2>1. target \in library \cup {NoTitle} /\ target' \in library \cup {NoTitle}
    BY <1>2 DEF SelectTitle, MakePlan, Throw, IInv, Known, TargetKnown,
       Planning, Labels, Clearing
  <2>2. UNCHANGED <<library, history, torrents, media, earlier>>
    BY <1>2 DEF SelectTitle, MakePlan, Throw
  <2> QED
    BY <2>1, <2>2, Stutters
<1>3. CASE \/ ReadHistory \/ Confirm \/ CheckTorrent \/ FindMedia \/ Refresh
           \/ Interrupt \/ UNCHANGED vars
           \/ \E h \in Torrents : ReadOtherTitles(h)
  <2>1. UNCHANGED <<target, plan, library, history, torrents, media, earlier>>
    BY <1>3 DEF ReadHistory, Confirm, CheckTorrent, FindMedia, Refresh, Interrupt,
       ReadOtherTitles, Throw
  <2> QED
    BY <2>1, Stutters
<1>4. CASE DeleteTitle
  <2>1. CASE library' = library
    <3>1. target \in library
      BY <1>4 DEF DeleteTitle, IInv, Known, TargetKnown, Planning, Labels, Clearing
    <3>2. UNCHANGED <<target, plan, library, history, torrents, media, earlier>>
      BY <1>4, <2>1, <3>1 DEF DeleteTitle, DropTitle
    <3> QED
      BY <3>2, Stutters
  <2>2. CASE library' # library
    BY <1>4, <2>2, DeleteTitleRefines DEF Promise!Next, IInv, TypeOK, Known,
       TargetKnown, DeleteTitle, Planning, Labels, Clearing
  <2> QED
    BY <2>1, <2>2
<1>5. ASSUME NEW h \in Torrents, DeleteTorrent(h)
      PROVE  [Promise!Next]_Promise!vars
  BY <1>5, DeleteTorrentRefines DEF Promise!Next
<1>6. CASE DeleteMedia
  BY <1>6, DeleteMediaRefines DEF Promise!Next
<1>7. CASE WorldStep
  <2>1. ASSUME NEW t \in Titles, NEW h \in Torrents, Grab(t, h)
        PROVE  Promise!Next
    BY <2>1 DEF Grab, Promise!Grab, Promise!Next
  <2>2. ASSUME NEW t \in Titles, Return(t)
        PROVE  Promise!Next
    BY <2>2, ReturnRefines DEF Promise!Next
  <2>3. ASSUME NEW h \in Torrents, Expire(h)
        PROVE  Promise!Next
    BY <2>3 DEF Expire, Promise!Expire, Promise!Next
  <2> QED
    BY <1>7, <2>1, <2>2, <2>3 DEF WorldStep
<1> QED
  BY <1>1, <1>2, <1>3, <1>4, <1>5, <1>6, <1>7 DEF Next, CliStep

\* The command keeps what Removal promises, whatever fails and whatever the
\* services do meanwhile: the title goes first, then only torrents that no other
\* title used when the command began, and only the title's own record.
THEOREM RemoveImplementsRemoval == Spec => KeepsPromise
<1> QED
  BY InitRefines, NextRefines, Invariance, PTL DEF Spec, KeepsPromise, Promise!Spec
=============================================================================
