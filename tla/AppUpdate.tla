----------------------------- MODULE AppUpdate -----------------------------
(***************************************************************************)
(* Proposing, downloading and installing a new version of the desktop app: *)
(* the main process (electron/update.ts), the messages it sends to the     *)
(* window, and what the window makes of them (store.ts, UpdateBanner).     *)
(*                                                                         *)
(* Versions are numbers; 0 is the running one, or none.  electron-updater  *)
(* is external: calls made while the same operation runs join it, a        *)
(* failure both emits "error" and rejects every call that waits, and a     *)
(* download that failed may have cleared the file of an earlier one.       *)
(***************************************************************************)
EXTENDS Naturals, Sequences

CONSTANTS
  MaxVersion,   \* bound: newest version ever released
  MaxAsked,     \* bound: "update:check" requests under way
  MaxChecks,    \* bound: calls that wait for one check
  MaxDownloads, \* bound: requests and calls that wait for one download
  MaxUnread     \* bound: messages to the window when one more is sent

\* What the constants must satisfy.
UpdAssumption == {MaxVersion, MaxAsked, MaxChecks, MaxDownloads, MaxUnread} \subseteq Nat

VARIABLES
  updKind,      \* "dev" (not packaged), "notify" (link to the page) or "install"
  latest,       \* newest release on GitHub
  startup,      \* the quiet check eight seconds after the start has not fired yet
  asked,        \* "update:check" requests on their way to the main process
  checks,       \* calls of checkForUpdates that wait for an answer
  found,        \* version of the last check that found one
  wants,        \* "update:download" requests on their way
  downloads,    \* calls of downloadUpdate that wait
  fetching,     \* version being downloaded
  onDisk,       \* version downloaded and ready to install
  toUi,         \* messages sent to the window, in order
  banner,       \* the window's update state
  installed     \* version installed by quitting, 0 while the app runs

updVars == <<updKind, latest, startup, asked, checks, found, wants, downloads,
             fetching, onDisk, toUi, banner, installed>>

Version == 1 .. MaxVersion
None == 0
Status == {"idle", "checking", "available", "downloading", "ready"}
Message == [type: {"available", "none", "progress", "ready", "error"}, version: 0 .. MaxVersion]
Msg(t, v) == [type |-> t, version |-> v]
Copies(m, n) == [i \in 1 .. n |-> m]

UpdTypeOK ==
  /\ updKind \in {"dev", "notify", "install"}
  /\ latest \in 0 .. MaxVersion /\ found \in 0 .. latest
  /\ startup \in BOOLEAN
  /\ asked \in 0 .. MaxAsked /\ checks \in 0 .. MaxChecks
  /\ wants \in 0 .. MaxDownloads /\ downloads \in 0 .. MaxDownloads
  /\ fetching \in 0 .. found /\ onDisk \in 0 .. found /\ installed \in 0 .. found
  /\ toUi \in Seq(Message)
  /\ banner \in [status: Status, version: 0 .. MaxVersion, dismissed: 0 .. MaxVersion]

UpdInit ==
  /\ updKind \in {"dev", "notify", "install"}
  /\ latest = 0 /\ found = 0 /\ fetching = 0 /\ onDisk = 0 /\ installed = 0
  /\ startup = TRUE /\ asked = 0 /\ checks = 0 /\ wants = 0 /\ downloads = 0
  /\ toUi = <<>>
  /\ banner = [status |-> "idle", version |-> None, dismissed |-> None]

AppRuns == installed = 0 /\ Len(toUi) <= MaxUnread

-----------------------------------------------------------------------------
(* The main process. *)

\* A version is published.
NewRelease ==
  /\ installed = 0 /\ latest < MaxVersion
  /\ latest' = latest + 1
  /\ UNCHANGED <<updKind, startup, asked, checks, found, wants, downloads,
                 fetching, onDisk, toUi, banner, installed>>

\* checkForUpdates(manual) is entered: a dev build answers at once, and only when asked.
EnterCheck(manual) ==
  /\ AppRuns /\ checks < MaxChecks
  /\ IF updKind = "dev"
     THEN /\ toUi' = IF manual THEN Append(toUi, Msg("none", None)) ELSE toUi
          /\ UNCHANGED checks
     ELSE /\ checks' = checks + 1
          /\ UNCHANGED toUi
  /\ UNCHANGED <<updKind, latest, found, wants, downloads, fetching, onDisk, banner, installed>>

StartupCheck == startup /\ startup' = FALSE /\ UNCHANGED asked /\ EnterCheck(FALSE)

HandleCheck == asked > 0 /\ asked' = asked - 1 /\ UNCHANGED startup /\ EnterCheck(TRUE)

\* Where the app installs by itself all waiting calls share one check; elsewhere
\* each asks GitHub on its own.
CheckAnswered ==
  /\ AppRuns /\ checks > 0
  /\ checks' = IF updKind = "install" THEN 0 ELSE checks - 1
  /\ \/ /\ latest > 0
        /\ found' = latest
        /\ toUi' = Append(toUi, Msg("available", latest))
     \/ /\ latest = 0
        /\ toUi' = Append(toUi, Msg("none", None))
        /\ UNCHANGED found
  /\ UNCHANGED <<updKind, latest, startup, asked, wants, downloads, fetching,
                 onDisk, banner, installed>>

CheckFailed ==
  /\ AppRuns /\ checks > 0
  /\ checks' = IF updKind = "install" THEN 0 ELSE checks - 1
  /\ toUi' = toUi \o Copies(Msg("error", None), IF updKind = "install" THEN 1 + checks ELSE 1)
  /\ UNCHANGED <<updKind, latest, startup, asked, found, wants, downloads,
                 fetching, onDisk, banner, installed>>

\* "update:download": joins the download under way, else fetches what the last check found.
HandleDownload ==
  /\ AppRuns /\ wants > 0 /\ downloads < MaxDownloads
  /\ wants' = wants - 1
  /\ downloads' = downloads + 1
  /\ fetching' = IF downloads = 0 THEN found ELSE fetching
  /\ UNCHANGED <<updKind, latest, startup, asked, checks, found, onDisk, toUi, banner, installed>>

DownloadProgress ==
  /\ AppRuns /\ downloads > 0
  /\ toUi' = Append(toUi, Msg("progress", None))
  /\ UNCHANGED <<updKind, latest, startup, asked, checks, found, wants, downloads,
                 fetching, onDisk, banner, installed>>

Downloaded ==
  /\ AppRuns /\ downloads > 0
  /\ downloads' = 0 /\ fetching' = None /\ onDisk' = fetching
  /\ toUi' = Append(toUi, Msg("ready", fetching))
  /\ UNCHANGED <<updKind, latest, startup, asked, checks, found, wants, banner, installed>>

DownloadFailed ==
  /\ AppRuns /\ downloads > 0
  /\ downloads' = 0 /\ fetching' = None /\ onDisk' \in {onDisk, None}
  /\ toUi' = toUi \o Copies(Msg("error", None), 1 + downloads)
  /\ UNCHANGED <<updKind, latest, startup, asked, checks, found, wants, banner, installed>>

-----------------------------------------------------------------------------
(* The window. *)

\* initUpdates: what each message does to the update state.
OnAvailable(v) ==
  banner' = IF banner.dismissed = v
            THEN [banner EXCEPT !.status = "idle"]
            ELSE [status |-> "available", version |-> v, dismissed |-> None]

\* Mutated form of OnError: a check that failed goes on spinning.
OnErrorOfDownload ==
  banner' = [banner EXCEPT !.status = IF @ = "downloading" THEN "available" ELSE @]

OnError ==
  banner' = [banner EXCEPT !.status = IF @ = "downloading" THEN "available" ELSE "idle"]

\* Mutated form of OnReady: of the version shown last.
OnReadyAsShown(v) == banner' = [banner EXCEPT !.status = "ready"]

OnReady(v) == banner' = [banner EXCEPT !.status = "ready", !.version = v]

OnMessage ==
  /\ installed = 0 /\ toUi # <<>>
  /\ toUi' = Tail(toUi)
  /\ LET m == Head(toUi) IN
       \/ m.type = "available" /\ OnAvailable(m.version)
       \/ m.type = "none" /\ banner' = [banner EXCEPT !.status = "idle"]
       \/ m.type = "progress" /\ banner' = [banner EXCEPT !.status = "downloading"]
       \/ m.type = "ready" /\ OnReady(m.version)
       \/ m.type = "error" /\ OnError
  /\ UNCHANGED <<updKind, latest, startup, asked, checks, found, wants, downloads,
                 fetching, onDisk, installed>>

\* "Check for updates" in the settings, disabled while a check runs.
CheckForUpdatesNow ==
  /\ installed = 0 /\ banner.status # "checking" /\ asked < MaxAsked
  /\ banner' = [banner EXCEPT !.status = "checking", !.dismissed = None]
  /\ asked' = asked + 1
  /\ UNCHANGED <<updKind, latest, startup, checks, found, wants, downloads,
                 fetching, onDisk, toUi, installed>>

\* "Update now"; where the app cannot install itself it only opens the page.
StartUpdateDownload ==
  /\ installed = 0 /\ banner.status = "available" /\ updKind = "install" /\ wants < MaxDownloads
  /\ banner' = [banner EXCEPT !.status = "downloading"]
  /\ wants' = wants + 1
  /\ UNCHANGED <<updKind, latest, startup, asked, checks, found, downloads,
                 fetching, onDisk, toUi, installed>>

\* "Restart now": quitAndInstall installs the file on disk and ends the app; without
\* a file it only emits an error.
InstallUpdate ==
  /\ AppRuns /\ banner.status = "ready" /\ updKind = "install"
  /\ installed' = onDisk
  /\ toUi' = IF onDisk = None THEN Append(toUi, Msg("error", None)) ELSE toUi
  /\ UNCHANGED <<updKind, latest, startup, asked, checks, found, wants, downloads,
                 fetching, onDisk, banner>>

\* "Later", not shown during a download.
DismissUpdate ==
  /\ installed = 0 /\ banner.status \in {"available", "ready"}
  /\ banner' = [status |-> "idle", version |-> None, dismissed |-> banner.version]
  /\ UNCHANGED <<updKind, latest, startup, asked, checks, found, wants, downloads,
                 fetching, onDisk, toUi, installed>>

-----------------------------------------------------------------------------
UpdNext ==
  \/ NewRelease \/ StartupCheck \/ HandleCheck \/ CheckAnswered \/ CheckFailed
  \/ HandleDownload \/ DownloadProgress \/ Downloaded \/ DownloadFailed
  \/ OnMessage
  \/ CheckForUpdatesNow \/ StartUpdateDownload \/ InstallUpdate \/ DismissUpdate

\* Requests end, with an answer or an error, and messages are delivered.
UpdFairness ==
  /\ WF_updVars(HandleCheck)
  /\ WF_updVars(CheckAnswered \/ CheckFailed)
  /\ WF_updVars(Downloaded \/ DownloadFailed)
  /\ WF_updVars(OnMessage)

UpdSpec == UpdInit /\ [][UpdNext]_updVars /\ UpdFairness

-----------------------------------------------------------------------------
(* Properties. *)

\* "Restart now" is offered only for the version that quitting would install,
\* however checks, releases and downloads cross, until the message about a newer
\* download, or about one that failed and took the file with it, arrives
\* (UpdateBanner, update-downloaded).
RestartInstallsIt ==
  banner.status = "ready" =>
    \/ onDisk # None /\ banner.version = onDisk
    \/ \E i \in 1 .. Len(toUi) :
         toUi[i] = IF onDisk = None THEN Msg("error", None) ELSE Msg("ready", onDisk)

\* What store.ts says of the handler of errors, "A failed download drops back to
\* "available" so the user can retry": with no request of the user's under way, a
\* version that was found and not put off is still proposed, or ready.
RetryAfterFailure ==
  /\ found > 0 /\ banner.dismissed = None
  /\ {asked, checks, wants, downloads} = {0} /\ toUi = <<>>
  => banner.status # "idle"

\* The button "Check for updates" does not spin for ever: every check the user
\* asked for ends, also when it joins the check of the start or a download runs.
ManualCheckEnds == banner.status = "checking" ~> banner.status # "checking"

=============================================================================
