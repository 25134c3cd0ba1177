------------------------------- MODULE Shell -------------------------------
(***************************************************************************)
(* The Electron main process: starting and watching the Go core, windows,  *)
(* the tray and quitting (electron/main.ts, electron/core.ts), and the     *)
(* boot of the page in each window as far as it depends on the core        *)
(* (store.ts, boot).  The core itself and Electron's app and window events *)
(* are external.                                                           *)
(***************************************************************************)
EXTENDS Naturals, FiniteSets

CONSTANTS
  Window,       \* bound: windows that may exist at a time
  NoWindow      \* the variable win holds null

\* What the constants must satisfy.
WindowAssumption == NoWindow \notin Window

VARIABLES
  app,          \* "starting" (waiting for the core), "running" or "gone"
  core,         \* the core process: "starting", "ready" or "dead"
  stdinOpen,    \* our end of the core's stdin is open
  coreInfo,     \* the main process knows the core's address
  watched,      \* the listener on the core's exit is registered
  quitting, closeToTray,
  win,          \* the window the main process knows
  shown,        \* windows that exist, with TRUE for those on screen
  page,         \* what the page of each existing window shows
  installing    \* "Restart now" was pressed in this run

shellVars == <<app, core, stdinOpen, coreInfo, watched, quitting, closeToTray,
               win, shown, page, installing>>

Alive == DOMAIN shown
Page == {"loading", "booted", "failed"}
Without(f, w) == [x \in DOMAIN f \ {w} |-> f[x]]
With(f, w, v) == [x \in DOMAIN f \cup {w} |-> IF x = w THEN v ELSE f[x]]

TypeOK ==
  /\ app \in {"starting", "running", "gone"}
  /\ core \in {"starting", "ready", "dead"}
  /\ {stdinOpen, coreInfo, watched, quitting, closeToTray, installing} \subseteq BOOLEAN
  /\ win \in Alive \cup {NoWindow}
  /\ Alive \subseteq Window /\ shown \in [Alive -> BOOLEAN]
  /\ page \in [Alive -> Page]

\* The app has the single-instance lock, has loaded its preferences and spawned the core.
Init ==
  /\ app = "starting" /\ core = "starting"
  /\ stdinOpen = TRUE /\ coreInfo = FALSE /\ watched = FALSE
  /\ quitting = FALSE /\ closeToTray \in BOOLEAN
  /\ win = NoWindow /\ shown = [w \in {} |-> TRUE] /\ page = [w \in {} |-> "loading"]
  /\ installing = FALSE

-----------------------------------------------------------------------------
(* Helpers: effects of functions called from several handlers. *)

CreateWindow(w) ==
  /\ w \in Window \ Alive
  /\ win' = w
  /\ shown' = With(shown, w, TRUE)
  /\ page' = With(page, w, "loading")

\* Mutated form of QuitApp: closing the windows does not end the app.
QuitAppWindowsOnly ==
  /\ quitting' = TRUE /\ stdinOpen' = FALSE /\ UNCHANGED app
  /\ win' = NoWindow
  /\ shown' = [w \in {} |-> TRUE] /\ page' = [w \in {} |-> "loading"]

\* app.quit(): before-quit sets quitting and ends the core's stdin, the close
\* handlers let every window go, and the app ends.
QuitApp ==
  /\ app' = "gone" /\ quitting' = TRUE /\ stdinOpen' = FALSE
  /\ win' = NoWindow
  /\ shown' = [w \in {} |-> TRUE] /\ page' = [w \in {} |-> "loading"]

-----------------------------------------------------------------------------
(* The core process. *)

\* It reports its port (TERMWARD_READY).  The promise of startCore resolves, the
\* listener is registered and the first window is made in the same turn.
CoreReady ==
  /\ app = "starting" /\ core = "starting"
  /\ core' = "ready" /\ coreInfo' = TRUE /\ watched' = TRUE
  /\ app' = "running"
  /\ \E w \in Window : CreateWindow(w)
  /\ UNCHANGED <<stdinOpen, quitting, closeToTray, installing>>

\* Fifteen seconds without an answer, or the process ends while it starts: an error
\* box and app.exit(1), which closes everything without asking.
StartFails ==
  /\ app = "starting"
  /\ core' = "dead"
  /\ app' = "gone" /\ win' = NoWindow
  /\ shown' = [w \in {} |-> TRUE] /\ page' = [w \in {} |-> "loading"]
  /\ UNCHANGED <<stdinOpen, coreInfo, watched, quitting, closeToTray, installing>>

\* The core crashes.
CoreCrashes ==
  /\ app = "running" /\ core = "ready"
  /\ core' = "dead"
  /\ UNCHANGED <<app, stdinOpen, coreInfo, watched, quitting, closeToTray, win, shown, page, installing>>

\* The core ends because its stdin is closed: by stopCore, or because we are gone.
CoreStops ==
  /\ core # "dead"
  /\ ~stdinOpen \/ app = "gone"
  /\ core' = "dead"
  /\ UNCHANGED <<app, stdinOpen, coreInfo, watched, quitting, closeToTray, win, shown, page, installing>>

\* core.once("exit"): an error box, then quit, unless we are quitting already.
OnCoreExit ==
  /\ app = "running" /\ core = "dead" /\ watched
  /\ watched' = FALSE
  /\ IF quitting
     THEN UNCHANGED <<app, quitting, stdinOpen, win, shown, page>>
     ELSE QuitApp
  /\ UNCHANGED <<core, coreInfo, closeToTray, installing>>

-----------------------------------------------------------------------------
(* Windows, tray and quitting. *)

\* Tray click, a second instance, the dock or a notification: showWindow.
ShowWindow ==
  /\ app # "gone"
  /\ IF win = NoWindow
     THEN \E w \in Window : CreateWindow(w)
     ELSE shown' = [shown EXCEPT ![win] = TRUE] /\ UNCHANGED <<win, page>>
  /\ UNCHANGED <<app, core, stdinOpen, coreInfo, watched, quitting, closeToTray, installing>>

\* The page of a window boots, or is reloaded with "Retry" after it failed.
PageBoots(w) ==
  /\ app # "gone" /\ w \in Alive
  /\ \/ /\ page[w] = "loading"
        /\ page' = [page EXCEPT ![w] = IF coreInfo /\ core = "ready" THEN "booted" ELSE "failed"]
     \/ /\ page[w] = "failed" /\ shown[w]
        /\ page' = [page EXCEPT ![w] = "loading"]
  /\ UNCHANGED <<app, core, stdinOpen, coreInfo, watched, quitting, closeToTray, win, shown, installing>>

\* × with "close to tray": the window the main process knows is hidden.
CloseToTray(w) ==
  /\ app # "gone" /\ w \in Alive /\ shown[w]
  /\ ~quitting /\ closeToTray
  /\ shown' = IF win = NoWindow THEN shown ELSE [shown EXCEPT ![win] = FALSE]
  /\ UNCHANGED <<app, core, stdinOpen, coreInfo, watched, quitting, closeToTray, win, page, installing>>

\* × without it quits; while quitting (an install that did not end the app) it closes.
CloseWindow(w) ==
  /\ app # "gone" /\ w \in Alive /\ shown[w]
  /\ quitting \/ ~closeToTray
  /\ IF quitting
     THEN /\ win' = NoWindow
          /\ shown' = Without(shown, w) /\ page' = Without(page, w)
          /\ UNCHANGED <<app, quitting, stdinOpen>>
     ELSE QuitApp
  /\ UNCHANGED <<core, coreInfo, watched, closeToTray, installing>>

\* "Quit" of the tray, which exists once the core runs, or of a booted page.
Quit ==
  /\ app = "running" \/ \E w \in Alive : page[w] = "booted"
  /\ app # "gone"
  /\ QuitApp
  /\ UNCHANGED <<core, coreInfo, watched, closeToTray, installing>>

\* The system ends the main process: our end of the pipe closes with it.
MainCrashes ==
  /\ app # "gone"
  /\ app' = "gone" /\ win' = NoWindow
  /\ shown' = [w \in {} |-> TRUE] /\ page' = [w \in {} |-> "loading"]
  /\ UNCHANGED <<core, stdinOpen, coreInfo, watched, quitting, closeToTray, installing>>

\* The switch in the settings.
SetCloseToTray ==
  /\ \E w \in Alive : page[w] = "booted" /\ shown[w]
  /\ closeToTray' = ~closeToTray
  /\ UNCHANGED <<app, core, stdinOpen, coreInfo, watched, quitting, win, shown, page, installing>>

\* "Restart now" on an update: quitting is set before quitAndInstall, which ends the
\* app unless the installer cannot be started.
Install ==
  /\ \E w \in Alive : page[w] = "booted" /\ shown[w]
  /\ installing' = TRUE
  /\ \/ QuitApp
     \/ quitting' = TRUE /\ UNCHANGED <<app, stdinOpen, win, shown, page>>
  /\ UNCHANGED <<core, coreInfo, watched, closeToTray>>

Next ==
  \/ CoreReady \/ StartFails \/ CoreCrashes \/ CoreStops \/ OnCoreExit
  \/ ShowWindow \/ Quit \/ MainCrashes \/ SetCloseToTray \/ Install
  \/ \E w \in Window : PageBoots(w) \/ CloseToTray(w) \/ CloseWindow(w)

\* The core answers or the timer fires; a closed pipe ends the core; exits are reported.
Fairness ==
  /\ WF_shellVars(CoreReady \/ StartFails)
  /\ WF_shellVars(CoreStops)
  /\ WF_shellVars(OnCoreExit)

Spec == Init /\ [][Next]_shellVars /\ Fairness

-----------------------------------------------------------------------------
(* Properties. *)

\* A core that stops by itself closes the app ("Termward will close"), rather than
\* leaving a window or a tray icon without anything behind it.  An update whose
\* installer did not start is the exception: quitting stays set.
AppEndsWithCore == core = "dead" ~> app = "gone" \/ installing

=============================================================================
