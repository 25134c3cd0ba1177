------------------------------- MODULE Screen ------------------------------
(***************************************************************************)
(* The layers of the window (store.ts, App.tsx, Dialogs.tsx and the        *)
(* navigation components): a view, and over it a drawer, a palette, a      *)
(* context menu, one dialog and one question of ensureConnected.  Dialogs  *)
(* that belong to a view (Files, Pro) are left to its module.              *)
(*                                                                         *)
(* No layer keeps the keyboard to itself but a context menu that has the   *)
(* focus: a Modal has no focus trap, so Tab reaches every button of the    *)
(* page and of the side bar under it.  A click beside a context menu first *)
(* closes it (CloseContextMenu).                                           *)
(*                                                                         *)
(* A dialog is a React component.  When another dialog takes its place its *)
(* state is lost, unless both are of the same kind: then the component     *)
(* stays, with the busy flag it has.  A request a dialog started outlives  *)
(* it and closes the dialog on the screen when it ends, whichever that is. *)
(***************************************************************************)
EXTENDS Naturals, FiniteSets

CONSTANTS
  Server, NoServer, \* hosts of the core, and no host
  Task,         \* dialogs that make, import and deploy keys, and import servers
  Slot          \* bound: requests of dialogs under way

\* What the constants must satisfy.
ScreenAssumption ==
  /\ NoServer \notin Server
  /\ Task \cap {"none", "form", "delete", "remove", "quit", "confirm", "power", "sudo", "paste"} = {}

VARIABLES
  known,        \* hosts of the store's list
  view, drawer, palette,
  menu,         \* the host whose context menu is open
  menuFocused,  \* and the focus is in that menu
  dialog,
  busy,         \* the button of the dialog is disabled
  slot,         \* requests started from dialogs
  question      \* a prompt of ensureConnected is shown (module Connect)

screenVars == <<known, view, drawer, palette, menu, menuFocused, dialog, busy, slot, question>>

\* "part": the hardware, files and deploy views; "page": run, keys and settings.
View == [name: {"overview", "terminals", "page"}, host: {NoServer}]
        \cup [name: {"host", "part"}, host: Server]
Dialog == [kind: {"form"}, host: Server \cup {NoServer}]
          \cup [kind: {"delete", "power", "sudo"}, host: Server]
          \cup [kind: {"quit", "remove", "paste"} \cup Task, host: {NoServer}]
NoDialog == [kind |-> "none", host |-> NoServer]
\* mine: the component that asked is still mounted.
Request == [kind: {"form", "delete", "remove", "power"} \cup Task, host: Server \cup {NoServer},
            mine: BOOLEAN]
Free == [kind |-> "none", host |-> NoServer, mine |-> FALSE]

ScreenTypeOK ==
  /\ known \subseteq Server
  /\ view \in View
  /\ {drawer, palette, menuFocused, busy, question} \subseteq BOOLEAN
  /\ menu \in Server \cup {NoServer}
  /\ dialog \in Dialog \cup {NoDialog}
  /\ slot \in [Slot -> Request \cup {Free}]

ScreenInit ==
  /\ known \in SUBSET Server
  /\ view = [name |-> "overview", host |-> NoServer]
  /\ drawer = FALSE /\ palette = FALSE /\ menu = NoServer /\ menuFocused = FALSE
  /\ dialog = NoDialog /\ busy = FALSE
  /\ slot = [s \in Slot |-> Free]
  /\ question = FALSE

\* All confirmations are one component.
Component(d) == IF d.kind \in {"delete", "remove", "quit"} THEN "confirm" ELSE d.kind

-----------------------------------------------------------------------------
(* Helpers: the dialog component is replaced, kept or taken down. *)

Orphaned(f) == [s \in Slot |-> [f[s] EXCEPT !.mine = FALSE]]

ShowDialog(d, slots) ==
  /\ dialog' = d
  /\ IF Component(d) = Component(dialog)
     THEN slot' = slots /\ UNCHANGED busy
     ELSE slot' = Orphaned(slots) /\ busy' = FALSE

\* navigate, and where it leads from within other actions.
GoTo(v) == view' = v /\ palette' = FALSE /\ drawer' = FALSE

\* A field or a terminal that appears takes the focus out of a menu, which stays.
FocusMayMove == menuFocused' \in {menuFocused, FALSE}

-----------------------------------------------------------------------------
(* Moving around. *)

\* The side bar, the palette, the bar of a phone, Ctrl+",", a toast, a notification.
Navigate(v) ==
  /\ GoTo(v)
  /\ FocusMayMove
  /\ UNCHANGED <<known, menu, dialog, busy, slot, question>>

\* openTerminal has connected.
TerminalOpens ==
  /\ view' = [name |-> "terminals", host |-> NoServer]
  /\ palette' = FALSE
  /\ FocusMayMove
  /\ UNCHANGED <<known, drawer, menu, dialog, busy, slot, question>>

\* Ctrl+K, whatever is shown; the field in the title bar.
TogglePalette ==
  /\ ~menuFocused
  /\ palette' = ~palette
  /\ UNCHANGED <<known, view, drawer, menu, menuFocused, dialog, busy, slot, question>>

OpenDrawer ==
  /\ view.name \notin {"host", "part"} /\ ~menuFocused
  /\ drawer' = TRUE
  /\ UNCHANGED <<known, view, palette, menu, menuFocused, dialog, busy, slot, question>>

\* A tap beside the drawer, which lies over dialogs but under the palette.
CloseDrawer ==
  /\ drawer /\ ~palette /\ menu = NoServer
  /\ drawer' = FALSE
  /\ UNCHANGED <<known, view, palette, menu, menuFocused, dialog, busy, slot, question>>

\* A long press, a right click or the menu key on a row of the side bar or a card.
OpenHostMenu(h) ==
  /\ h \in known /\ ~menuFocused
  /\ menu' = h /\ menuFocused' = TRUE
  /\ UNCHANGED <<known, view, drawer, palette, dialog, busy, slot, question>>

\* A click elsewhere, Escape, scrolling, or the window loses the focus.
CloseContextMenu ==
  /\ menu' = NoServer /\ menuFocused' = FALSE
  /\ UNCHANGED <<known, view, drawer, palette, dialog, busy, slot, question>>

\* Android's back button closes one layer, else goes one view up, else minimizes the app.
\* It looks for layers in this order, whatever lies over what, and not for context menus.
BackTo(v) == GoTo(v) /\ UNCHANGED <<known, menu, menuFocused, dialog, busy, slot, question>>

GoBack ==
  \/ /\ question
     /\ question' = FALSE
     /\ UNCHANGED <<known, view, drawer, palette, menu, menuFocused, dialog, busy, slot>>
  \/ /\ ~question /\ dialog # NoDialog
     /\ ShowDialog(NoDialog, slot)
     /\ UNCHANGED <<known, view, drawer, palette, menu, menuFocused, question>>
  \/ /\ palette /\ ~question /\ dialog = NoDialog
     /\ palette' = FALSE
     /\ UNCHANGED <<known, view, drawer, menu, menuFocused, dialog, busy, slot, question>>
  \/ /\ drawer /\ ~palette /\ ~question /\ dialog = NoDialog
     /\ drawer' = FALSE
     /\ UNCHANGED <<known, view, palette, menu, menuFocused, dialog, busy, slot, question>>
  \/ /\ ~drawer /\ ~palette /\ ~question /\ dialog = NoDialog
     /\ \/ view.name = "part" /\ BackTo([name |-> "host", host |-> view.host])
        \/ /\ view.name \notin {"part", "overview"}
           /\ BackTo([name |-> "overview", host |-> NoServer])

-----------------------------------------------------------------------------
(* Opening and closing dialogs. *)

\* openDialog
OpenDialog(d) ==
  ShowDialog(d, slot) /\ palette' = FALSE /\ UNCHANGED <<known, view, drawer, question>>

\* Ctrl+N, the palette and buttons, over whatever is shown.
OpenByUser(d) ==
  /\ ~menuFocused
  /\ d.host = NoServer /\ d.kind \in {"form", "quit"} \cup Task
  /\ OpenDialog(d)
  /\ UNCHANGED <<menu, menuFocused>>

\* At the end of something else: a check that needs sudo, a clipboard that was read.
OpenByItself(d) ==
  /\ d.kind \in {"sudo", "paste"}
  /\ OpenDialog(d)
  /\ UNCHANGED menu /\ FocusMayMove

\* Buttons of a server's page, also under another dialog (Tab).
OpenFromPage(d) ==
  /\ view.name = "host" /\ view.host = d.host /\ d.host \in known
  /\ ~menuFocused
  /\ d.kind \in {"form", "delete", "power"}
  /\ OpenDialog(d)
  /\ UNCHANGED <<menu, menuFocused>>

\* Buttons of other pages; "remove" confirms that a key, a device, a file, ... is given up.
OpenInPage(d) ==
  /\ view.name \in {"page", "part"} /\ ~menuFocused
  /\ d.kind = "remove" \/ (d.kind \in Task /\ view.name = "page")
  /\ OpenDialog(d)
  /\ UNCHANGED <<menu, menuFocused>>

\* An item of the context menu, for the server it was opened for.
OpenFromMenu(d) ==
  /\ menu # NoServer /\ d.host = menu
  /\ d.kind \in {"form", "delete"}
  /\ OpenDialog(d)
  /\ menu' = NoServer /\ menuFocused' = FALSE

\* Cancel, × or a click beside the dialog.
CloseDialog ==
  /\ dialog # NoDialog /\ ~menuFocused
  /\ ShowDialog(NoDialog, slot)
  /\ UNCHANGED <<known, view, drawer, palette, menu, menuFocused, question>>

\* Every Modal hears Escape, that of a question and that of a dialog under it; the
\* palette does when it has the focus.
Escape ==
  /\ ~menuFocused
  /\ ShowDialog(NoDialog, slot)
  /\ question' = FALSE
  /\ palette' \in {palette, FALSE}
  /\ UNCHANGED <<known, view, drawer, menu, menuFocused>>

-----------------------------------------------------------------------------
(* What dialogs do. *)

\* What the main button of each dialog looks at, also when a key presses it.
FormReady == dialog.kind = "form" /\ ~busy
ConfirmReady == dialog.kind \in {"delete", "remove"} /\ ~busy
TaskReady == dialog.kind \in Task /\ ~busy
\* Enter in the sudo field does not look at busy; without its server nothing is shown.
PowerReady == dialog.kind = "power" /\ dialog.host \in known

Asks(s) ==
  /\ slot[s] = Free /\ ~menuFocused
  /\ busy' = TRUE
  /\ slot' = [slot EXCEPT ![s] = [kind |-> dialog.kind, host |-> dialog.host, mine |-> TRUE]]
  /\ UNCHANGED <<known, view, drawer, palette, menu, menuFocused, dialog, question>>

\* Mutated form of Submit: no key looks at the button.
SubmitByKey(s) == dialog.kind \in {"form", "delete", "remove", "power"} \cup Task /\ Asks(s)

Submit(s) == (FormReady \/ ConfirmReady \/ TaskReady \/ PowerReady) /\ Asks(s)

\* Mutated form of RequestFails: the button stays disabled.
RequestFailsQuietly(s) ==
  /\ slot[s] # Free
  /\ slot' = [slot EXCEPT ![s] = Free]
  /\ UNCHANGED <<known, view, drawer, palette, menu, menuFocused, dialog, busy, question>>

\* It failed, or the connection it needs first was given up (DeployKey, PowerDialog);
\* or a key was imported from ~/.ssh, which leaves the list for another (ImportKey).
RequestFails(s) ==
  /\ slot[s] # Free
  /\ slot' = [slot EXCEPT ![s] = Free]
  /\ busy' = (busy /\ ~slot[s].mine)
  /\ UNCHANGED <<known, view, drawer, palette, menu, menuFocused, dialog, question>>

\* A deleted server's page gives way to the overview, a new server's page is shown.
Deleted(r) ==
  /\ r.kind = "delete"
  /\ known' = known \ {r.host}
  /\ IF view.host = r.host
     THEN GoTo([name |-> "overview", host |-> NoServer])
     ELSE UNCHANGED <<view, palette, drawer>>
Created(r) ==
  /\ r.kind = "form" /\ r.host = NoServer
  /\ \E h \in Server :
       h \notin known /\ known' = known \cup {h} /\ GoTo([name |-> "host", host |-> h])
Changed(r) ==
  /\ r.kind \in {"remove", "power"} \cup Task \/ (r.kind = "form" /\ r.host # NoServer)
  /\ UNCHANGED <<known, view, palette, drawer>>

\* It succeeded: the list is read again and whatever dialog is shown is closed.
RequestDone(s) ==
  /\ slot[s] # Free
  /\ Deleted(slot[s]) \/ Created(slot[s]) \/ Changed(slot[s])
  /\ ShowDialog(NoDialog, [slot EXCEPT ![s] = Free])
  /\ UNCHANGED <<menu, menuFocused, question>>

\* Quitting, the sudo dialog's check and a paste close the dialog in the same turn.
SubmitAtOnce ==
  /\ dialog.kind \in {"quit", "sudo", "paste"} /\ (dialog.kind = "quit" => ~busy)
  /\ ~menuFocused
  /\ dialog.kind = "sudo" => dialog.host \in known
  /\ ShowDialog(NoDialog, slot)
  /\ UNCHANGED <<known, view, drawer, palette, menu, menuFocused, question>>

\* Hosts come and go elsewhere (hosts_changed); ensureConnected asks and is answered.
HostsChange ==
  /\ known' \in SUBSET Server
  /\ UNCHANGED <<view, drawer, palette, menu, menuFocused, dialog, busy, slot, question>>

Question ==
  /\ question' = ~question
  /\ FocusMayMove
  /\ UNCHANGED <<known, view, drawer, palette, menu, dialog, busy, slot>>

-----------------------------------------------------------------------------
ScreenNext ==
  \/ \E v \in View : Navigate(v)
  \/ TerminalOpens \/ TogglePalette \/ OpenDrawer \/ CloseDrawer
  \/ \E h \in Server : OpenHostMenu(h)
  \/ CloseContextMenu \/ GoBack
  \/ \E d \in Dialog : OpenByUser(d) \/ OpenByItself(d) \/ OpenFromPage(d)
                      \/ OpenInPage(d) \/ OpenFromMenu(d)
  \/ CloseDialog \/ Escape \/ SubmitAtOnce
  \/ \E s \in Slot : Submit(s) \/ RequestFails(s) \/ RequestDone(s)
  \/ HostsChange \/ Question

ScreenSpec == ScreenInit /\ [][ScreenNext]_screenVars

-----------------------------------------------------------------------------
(* Properties. *)

\* The button of a dialog is never left disabled: a request of that very component is
\* still under way and will enable it (the busy flags of Dialogs.tsx and HostForm.tsx).
ButtonComesBack == busy => \E s \in Slot : slot[s] # Free /\ slot[s].mine

\* A dialog never has two requests under way, whatever is opened over it and closed
\* meanwhile; the power dialog is the exception (Enter in its sudo field).
OneRequestPerDialog ==
  dialog.kind # "power" =>
    \A s, s2 \in Slot : slot[s].mine /\ slot[s2].mine => s = s2

=============================================================================
