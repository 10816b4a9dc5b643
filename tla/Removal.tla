------------------------------ MODULE Removal ------------------------------
(***************************************************************************)
(* What the `remove` command promises, without how it finds out: a title    *)
(* goes first; after it, only torrents that no other title used when the    *)
(* command began, and only the title's own record in Seerr.  Remove         *)
(* implements this module.                                                  *)
(***************************************************************************)
CONSTANTS Titles, Downloads, Torrents, NoTitle

VARIABLES
  library,    \* the titles of Radarr and Sonarr
  history,    \* the downloads of each title
  torrents,   \* what Real-Debrid holds
  media,      \* the titles with a record in Seerr
  before,     \* the history when the command began
  gone,       \* the title the command deleted
  mine        \* the torrents the command may delete

vars == <<library, history, torrents, media, before, gone, mine>>

Init ==
  /\ library = Titles /\ history \in [Titles -> SUBSET Downloads]
  /\ torrents \in SUBSET Torrents /\ media \in SUBSET Titles
  /\ before = history /\ gone = NoTitle /\ mine = {}

\* The torrents of a title that no other title used when the command began.
OnlyOf(t) == {h \in history[t] \cap Torrents :
                \A u \in Titles \ {t} : h \notin before[u]}

Begin == /\ before' = history /\ gone' = NoTitle /\ mine' = {}
         /\ UNCHANGED <<library, history, torrents, media>>

DropTitle(t) ==
  /\ gone = NoTitle /\ t \in library
  /\ library' = library \ {t} /\ gone' = t
  /\ history' = [history EXCEPT ![t] = {}]
  /\ mine' \in SUBSET OnlyOf(t)
  /\ UNCHANGED <<torrents, media, before>>

DropTorrent(h) ==
  /\ h \in mine
  /\ torrents' = torrents \ {h}
  /\ UNCHANGED <<library, history, media, before, gone, mine>>

DropRecord ==
  /\ gone # NoTitle
  /\ media' = media \ {gone}
  /\ UNCHANGED <<library, history, torrents, before, gone, mine>>

\* Titles grab releases, titles are requested again, Real-Debrid drops torrents.
Grab(t, h) ==
  /\ t \in library
  /\ history' = [history EXCEPT ![t] = @ \cup {h}]
  /\ torrents' = torrents \cup {h}
  /\ UNCHANGED <<library, media, before, gone, mine>>

Return(t) ==
  /\ t \in Titles \ library
  /\ library' = library \cup {t} /\ media' = media \cup {t}
  /\ IF t = gone THEN gone' = NoTitle /\ mine' = {} ELSE UNCHANGED <<gone, mine>>
  /\ UNCHANGED <<history, torrents, before>>

Expire(h) ==
  /\ torrents' = torrents \ {h}
  /\ UNCHANGED <<library, history, media, before, gone, mine>>

Next ==
  \/ Begin \/ DropRecord
  \/ \E t \in Titles : DropTitle(t) \/ Return(t) \/ \E h \in Torrents : Grab(t, h)
  \/ \E h \in Torrents : DropTorrent(h) \/ Expire(h)

Spec == Init /\ [][Next]_vars
=============================================================================
