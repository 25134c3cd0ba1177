------------------------------- MODULE Files -------------------------------
(***************************************************************************)
(* The file manager of one server (Files.tsx): it shows the directory of   *)
(* the last answer that arrived, while others are still being listed, and  *)
(* acts on what it shows.  Loads may overlap: folders and the path can be  *)
(* clicked while one runs.  A confirmation keeps what the page showed when *)
(* it was opened; the dialog that names a file does not.                   *)
(*                                                                         *)
(* The server is external.  Its files change at any time, so a list holds  *)
(* any names.                                                              *)
(***************************************************************************)
EXTENDS Naturals, FiniteSets

CONSTANTS
  Dir, NoDir,   \* directories; none shown yet
  FileName,
  Load,         \* bound: loads under way
  Work          \* bound: uploads, deletions, renames and new folders under way

VARIABLES
  path, entries, listed,  \* shown: the directory, its files, and whether a list is shown
  loading,      \* the spinner; up, home and refresh are disabled
  fsError,      \* the callout in place of the list
  loads,        \* loads under way: the directory asked for and what was answered
  work,         \* what the user asked for
  choosing,     \* the system's file chooser is open
  lastSeen      \* the files each directory had when it was last shown

filesVars == <<path, entries, listed, loading, fsError, loads, work, choosing, lastSeen>>

File == (Dir \cup {NoDir}) \X FileName
\* A load waits for the connection, then for the list, then to be shown.
LoadState == [pc: {"connecting", "listing", "listed"}, dir: Dir, files: SUBSET FileName]
NoLoad == [pc |-> "none", dir |-> NoDir, files |-> {}]
WorkState == [kind: {"upload", "delete", "mkdir", "rename"},
              pc: {"asking", "sending", "reload"}, file: File]
NoWork == [kind |-> "none", pc |-> "none", file |-> NoDir]

FilesTypeOK ==
  /\ path \in Dir \cup {NoDir} /\ entries \subseteq FileName
  /\ {listed, loading, choosing} \subseteq BOOLEAN
  /\ fsError \in {"none", "error", "notConnected"}
  /\ loads \in [Load -> LoadState \cup {NoLoad}]
  /\ work \in [Work -> WorkState \cup {NoWork}]
  /\ lastSeen \in [Dir -> SUBSET FileName]

\* The view is mounted, and its effect starts a load of the home directory.
FilesInit ==
  /\ path = NoDir /\ entries = {} /\ listed = FALSE
  /\ loading = TRUE /\ fsError = "none"
  /\ \E d \in Dir :
       loads = [[x \in Load |-> NoLoad] EXCEPT ![CHOOSE l \in Load : TRUE] =
                  [pc |-> "connecting", dir |-> d, files |-> {}]]
  /\ work = [w \in Work |-> NoWork]
  /\ choosing = FALSE
  /\ lastSeen = [d \in Dir |-> {}]

-----------------------------------------------------------------------------
(* Loads. *)

\* load(p) is entered.
StartLoad(l, d) ==
  /\ loads[l] = NoLoad
  /\ loads' = [loads EXCEPT ![l] = [pc |-> "connecting", dir |-> d, files |-> {}]]
  /\ loading' = TRUE /\ fsError' = "none"

\* Mutated form of Browse: the path changes before the list does.
BrowseAtOnce(l, d) ==
  /\ StartLoad(l, d)
  /\ path' = d
  /\ UNCHANGED <<entries, listed, work, choosing, lastSeen>>

\* A folder, a part of the path, "Retry" or "Connect", at any time; up, home and
\* refresh only while nothing loads.
Browse(l, d) ==
  /\ StartLoad(l, d)
  /\ UNCHANGED <<path, entries, listed, work, choosing, lastSeen>>

LoadConnected(l) ==
  /\ loads[l].pc = "connecting"
  /\ loads' = [loads EXCEPT ![l].pc = "listing"]
  /\ UNCHANGED <<path, entries, listed, loading, fsError, work, choosing, lastSeen>>

ListFiles(l) ==
  /\ loads[l].pc = "listing"
  /\ \E files \in SUBSET FileName :
       loads' = [loads EXCEPT ![l].pc = "listed", ![l].files = files]
  /\ UNCHANGED <<path, entries, listed, loading, fsError, work, choosing, lastSeen>>

LoadShown(l) ==
  /\ loads[l].pc = "listed"
  /\ path' = loads[l].dir /\ entries' = loads[l].files /\ listed' = TRUE
  /\ lastSeen' = [lastSeen EXCEPT ![loads[l].dir] = loads[l].files]
  /\ loading' = FALSE
  /\ loads' = [loads EXCEPT ![l] = NoLoad]
  /\ UNCHANGED <<fsError, work, choosing>>

\* The user gave up a prompt, or the list could not be read: no list is shown, the
\* path stays.
LoadFails(l) ==
  /\ \/ loads[l].pc = "connecting" /\ fsError' = "notConnected"
     \/ loads[l].pc \in {"connecting", "listing"} /\ fsError' = "error"
  /\ entries' = {} /\ listed' = FALSE
  /\ loading' = FALSE
  /\ loads' = [loads EXCEPT ![l] = NoLoad]
  /\ UNCHANGED <<path, work, choosing, lastSeen>>

-----------------------------------------------------------------------------
(* What the page asks the core to do. *)

NewWork(w, kind, pc, file) ==
  /\ work[w] = NoWork
  /\ work' = [work EXCEPT ![w] = [kind |-> kind, pc |-> pc, file |-> file]]

\* upload: a name that is listed is asked about first.
Upload(w, n) ==
  /\ NewWork(w, "upload", IF n \in entries THEN "asking" ELSE "sending", <<path, n>>)
  /\ UNCHANGED <<path, entries, listed, loading, fsError, loads, lastSeen>>

\* The upload button needs a list only when it opens the chooser.
OpenChooser ==
  /\ listed /\ ~choosing
  /\ choosing' = TRUE
  /\ UNCHANGED <<path, entries, listed, loading, fsError, loads, work, lastSeen>>

Choose(w, n) == choosing /\ choosing' = FALSE /\ Upload(w, n)

\* Files are dropped on the list.
Drop(w, n) == listed /\ fsError = "none" /\ UNCHANGED choosing /\ Upload(w, n)

\* doDelete asks.
Delete(w, n) ==
  /\ listed /\ n \in entries
  /\ NewWork(w, "delete", "asking", <<path, n>>)
  /\ UNCHANGED <<path, entries, listed, loading, fsError, loads, choosing, lastSeen>>

\* The dialog for a name: of a file of the list, or of a new folder.
OpenNameModal(w, kind, n) ==
  /\ listed /\ kind \in {"mkdir", "rename"}
  /\ kind = "rename" => n \in entries
  /\ NewWork(w, kind, "asking", <<path, n>>)
  /\ UNCHANGED <<path, entries, listed, loading, fsError, loads, choosing, lastSeen>>

\* A confirmation goes ahead with what it asked about; a name is put behind the path
\* the page shows by now (submitModal).
Confirm(w) ==
  /\ work[w].pc = "asking"
  /\ \/ /\ work[w].kind \in {"upload", "delete"}
        /\ work' = [work EXCEPT ![w].pc = "sending"]
     \/ /\ work[w].kind \in {"mkdir", "rename"}
        /\ work' = [work EXCEPT ![w].pc = "sending", ![w].file = <<path, @[2]>>]
  /\ UNCHANGED <<path, entries, listed, loading, fsError, loads, choosing, lastSeen>>

Decline(w) ==
  /\ work[w].pc = "asking"
  /\ work' = [work EXCEPT ![w] = NoWork]
  /\ UNCHANGED <<path, entries, listed, loading, fsError, loads, choosing, lastSeen>>

\* The core answers; a failure ends the work with a toast (the name dialog stays).
WorkAnswered(w, ok) ==
  /\ work[w].pc = "sending"
  /\ work' = [work EXCEPT ![w] =
                IF ok THEN [@ EXCEPT !.pc = "reload"]
                ELSE IF @.kind \in {"mkdir", "rename"} THEN [@ EXCEPT !.pc = "asking"] ELSE NoWork]
  /\ UNCHANGED <<path, entries, listed, loading, fsError, loads, choosing, lastSeen>>

\* Then the directory the work was done in is loaded.
Reload(w, l) ==
  /\ work[w].pc = "reload"
  /\ StartLoad(l, work[w].file[1])
  /\ work' = [work EXCEPT ![w] = NoWork]
  /\ UNCHANGED <<path, entries, listed, choosing, lastSeen>>

-----------------------------------------------------------------------------
FilesNext ==
  \/ \E l \in Load :
       \/ \E d \in Dir : Browse(l, d)
       \/ LoadConnected(l) \/ ListFiles(l) \/ LoadShown(l) \/ LoadFails(l)
  \/ OpenChooser
  \/ \E w \in Work :
       \/ \E n \in FileName :
            \/ Choose(w, n) \/ Drop(w, n) \/ Delete(w, n)
            \/ \E kind \in {"mkdir", "rename"} : OpenNameModal(w, kind, n)
       \/ Confirm(w) \/ Decline(w)
       \/ \E ok \in BOOLEAN : WorkAnswered(w, ok)
       \/ \E l \in Load : Reload(w, l)

FilesSpec == FilesInit /\ [][FilesNext]_filesVars

-----------------------------------------------------------------------------
(* Properties. *)

\* While a list is shown, an upload that is not asked about goes to a name the
\* directory did not have when it was last shown, whichever of several overlapping
\* loads ended last (load, upload).
NeverOverwritesListed ==
  [][\A w \in Work :
       listed /\ work[w] = NoWork /\ work'[w].kind = "upload" /\ work'[w].pc = "sending" =>
         work'[w].file[2] \notin lastSeen[work'[w].file[1]]]_filesVars

=============================================================================
