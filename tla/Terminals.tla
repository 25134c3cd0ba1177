----------------------------- MODULE Terminals -----------------------------
(***************************************************************************)
(* Terminal tabs (store.ts, openTerminal to reconnectTab) and the panes    *)
(* that hold their sessions (Terminals.tsx).  A pane lives as long as its  *)
(* tab keeps its nonce, whatever view is shown; it owns one WebSocket to   *)
(* the core.  Opening and reconnecting first wait for ensureConnected      *)
(* (module Connect), during which everything else may change.              *)
(***************************************************************************)
EXTENDS Naturals, Sequences, SequencesExt, FiniteSets

CONSTANTS
  HostId, Name,     \* hosts, and the names they may have
  Gone,             \* the name of a host that was deleted
  Tab, NoTab,       \* ids of tabs; null
  MaxTabs,          \* bound: tabs open at a time
  MaxNonce,         \* bound: reconnections of a tab
  MaxOpening        \* bound: calls of openTerminal, reconnectTab under way, of each kind

\* What the constants must satisfy.
TerminalsAssumption ==
  /\ Gone \notin Name /\ NoTab \notin Tab
  /\ MaxTabs \in Nat /\ MaxNonce \in Nat /\ MaxOpening \in Nat

VARIABLES
  nameOf,       \* the name of each host
  opening,      \* calls of openTerminal that wait: how many for each host and command
  tabs,         \* the open tabs, in order
  activeTab,
  reconnecting, \* calls of reconnectTab that wait: how many for each tab
  session       \* for each mounted pane <<tab, nonce>> the state of its socket

termVars == <<nameOf, opening, tabs, activeTab, reconnecting, session>>

\* runs: how often the command given with openTerminal was typed into the tab.
TermTab == [id: Tab, host: HostId, title: Name \X (1 .. MaxTabs), nonce: 0 .. MaxNonce,
            runOnReady: BOOLEAN, runs: Nat]
Ids(s) == {s[i].id : i \in 1 .. Len(s)}
Pane == Tab \X (0 .. MaxNonce)
PaneOf(t) == <<t.id, t.nonce>>
Panes(s) == {PaneOf(s[i]) : i \in 1 .. Len(s)}
Position(id) == CHOOSE i \in 1 .. Len(tabs) : tabs[i].id = id

TermTypeOK ==
  /\ nameOf \in [HostId -> Name \cup {Gone}]
  /\ opening \in [HostId \X BOOLEAN -> Nat]
  /\ tabs \in Seq(TermTab) /\ Len(tabs) <= MaxTabs
  /\ activeTab \in Tab \cup {NoTab}
  /\ reconnecting \in [Tab -> Nat]
  /\ DOMAIN session \subseteq Pane
  /\ \A p \in DOMAIN session : session[p] \in {"connecting", "open", "closed"}

TermInit ==
  /\ nameOf \in [HostId -> Name]
  /\ opening = [c \in HostId \X BOOLEAN |-> 0]
  /\ tabs = <<>> /\ activeTab = NoTab
  /\ reconnecting = [id \in Tab |-> 0]
  /\ session = [p \in {} |-> "open"]

\* Panes are mounted and unmounted with the tabs: a new one opens its socket, the
\* cleanup of an old one closes it.
Commit(newTabs) ==
  /\ tabs' = newTabs
  /\ session' = [p \in Panes(newTabs) |-> IF p \in DOMAIN session THEN session[p] ELSE "connecting"]

-----------------------------------------------------------------------------
(* Opening, closing and reconnecting (store.ts). *)

\* A button, a menu, the palette, or a deployment with its command.
OpenTerminal(h, withCommand) ==
  /\ nameOf[h] # Gone
  /\ opening[<<h, withCommand>>] < MaxOpening
  /\ opening' = [opening EXCEPT ![<<h, withCommand>>] = @ + 1]
  /\ UNCHANGED <<nameOf, tabs, activeTab, reconnecting, session>>

\* The lowest number no tab of the host uses with its present name.
Taken(h) == {tabs[i].title : i \in {j \in 1 .. Len(tabs) : tabs[j].host = h}}
\* Mutated form of FreeTitle: counts the host's tabs.
FreeTitleByCount(h) ==
  <<nameOf[h], 1 + Cardinality({i \in 1 .. Len(tabs) : tabs[i].host = h})>>
FreeTitle(h) ==
  CHOOSE t \in {nameOf[h]} \X (1 .. MaxTabs) :
    /\ t \notin Taken(h)
    /\ \A n \in 1 .. MaxTabs : <<nameOf[h], n>> \notin Taken(h) => t[2] <= n

\* uid(): an id no tab has, nor a call that still waits for one.
Unused == {id \in Tab \ Ids(tabs) : reconnecting[id] = 0}
FreshId == CHOOSE id \in Tab : id \in Unused

\* ensureConnected returned true.
Opened(h, withCommand) ==
  /\ opening[<<h, withCommand>>] > 0
  /\ opening' = [opening EXCEPT ![<<h, withCommand>>] = @ - 1]
  /\ IF nameOf[h] = Gone
     THEN UNCHANGED <<tabs, activeTab, session>>
     ELSE /\ Len(tabs) < MaxTabs /\ Unused # {}
          /\ LET id == FreshId IN
               /\ Commit(Append(tabs, [id |-> id, host |-> h, title |-> FreeTitle(h), nonce |-> 0,
                                       runOnReady |-> withCommand, runs |-> 0]))
               /\ activeTab' = id
  /\ UNCHANGED <<nameOf, reconnecting>>

\* It returned false: nothing is opened.
NotOpened(h, withCommand) ==
  /\ opening[<<h, withCommand>>] > 0
  /\ opening' = [opening EXCEPT ![<<h, withCommand>>] = @ - 1]
  /\ UNCHANGED <<nameOf, tabs, activeTab, reconnecting, session>>

\* Mutated form of AfterClosing: no neighbour is activated.
AfterClosingNone(id) == IF activeTab # id THEN activeTab ELSE NoTab

\* The neighbour on the left becomes active, or the one that is first now.
AfterClosing(id) ==
  LET rest == RemoveAt(tabs, Position(id))
      left == IF Position(id) > 1 THEN Position(id) - 1 ELSE 1
  IN IF activeTab # id THEN activeTab
     ELSE IF rest = <<>> THEN NoTab ELSE rest[left].id

CloseTab(id) ==
  /\ id \in Ids(tabs)
  /\ Commit(RemoveAt(tabs, Position(id)))
  /\ activeTab' = AfterClosing(id)
  /\ UNCHANGED <<nameOf, opening, reconnecting>>

\* In the tab's menu, which any other click closes; disabled when it is the only tab.
CloseOtherTabs(id) ==
  /\ id \in Ids(tabs) /\ Len(tabs) > 1
  /\ Commit(<<tabs[Position(id)]>>)
  /\ activeTab' = id
  /\ UNCHANGED <<nameOf, opening, reconnecting>>

ReconnectTab(id) ==
  /\ id \in Ids(tabs) /\ reconnecting[id] < MaxOpening
  /\ reconnecting' = [reconnecting EXCEPT ![id] = @ + 1]
  /\ UNCHANGED <<nameOf, opening, tabs, activeTab, session>>

\* The tab may be closed meanwhile; if not, a new nonce mounts a new pane.
Reconnected(id) ==
  /\ reconnecting[id] > 0
  /\ reconnecting' = [reconnecting EXCEPT ![id] = @ - 1]
  /\ IF id \in Ids(tabs)
     THEN /\ tabs[Position(id)].nonce < MaxNonce
          /\ Commit([tabs EXCEPT ![Position(id)].nonce = @ + 1])
     ELSE UNCHANGED <<tabs, session>>
  /\ UNCHANGED <<nameOf, opening, activeTab>>

NotReconnected(id) ==
  /\ reconnecting[id] > 0
  /\ reconnecting' = [reconnecting EXCEPT ![id] = @ - 1]
  /\ UNCHANGED <<nameOf, opening, tabs, activeTab, session>>

\* A click on a tab.
SelectTab(id) ==
  /\ id \in Ids(tabs)
  /\ activeTab' = id
  /\ UNCHANGED <<nameOf, opening, tabs, reconnecting, session>>

\* Hosts are renamed and deleted here or elsewhere; their tabs stay.
EditHost(h, name) ==
  /\ nameOf[h] # Gone
  /\ nameOf' = [nameOf EXCEPT ![h] = name]
  /\ UNCHANGED <<opening, tabs, activeTab, reconnecting, session>>

-----------------------------------------------------------------------------
(* Sessions (TerminalPane). *)

\* Mutated form of CommandTyped: not cleared.
CommandTypedAgain(t) == [t EXCEPT !.runs = @ + 1]
CommandTyped(t) == [t EXCEPT !.runOnReady = FALSE, !.runs = @ + 1]

\* "ready": the tab's command is typed once and cleared in the store, so that a
\* reconnection does not run it again.
Ready(id) ==
  LET i == Position(id) IN
  /\ id \in Ids(tabs) /\ session[PaneOf(tabs[i])] = "connecting"
  /\ session' = [session EXCEPT ![PaneOf(tabs[i])] = "open"]
  /\ IF tabs[i].runOnReady
     THEN tabs' = [tabs EXCEPT ![i] = CommandTyped(@)]
     ELSE UNCHANGED tabs
  /\ UNCHANGED <<nameOf, opening, activeTab, reconnecting>>

\* "exit", "error", or the socket closes.
SessionEnds(id) ==
  /\ id \in Ids(tabs) /\ session[PaneOf(tabs[Position(id)])] # "closed"
  /\ session' = [session EXCEPT ![PaneOf(tabs[Position(id)])] = "closed"]
  /\ UNCHANGED <<nameOf, opening, tabs, activeTab, reconnecting>>

-----------------------------------------------------------------------------
TermNext ==
  \/ \E h \in HostId, c \in BOOLEAN : OpenTerminal(h, c) \/ Opened(h, c) \/ NotOpened(h, c)
  \/ \E id \in Tab :
       \/ CloseTab(id) \/ CloseOtherTabs(id) \/ SelectTab(id)
       \/ ReconnectTab(id) \/ Reconnected(id) \/ NotReconnected(id)
       \/ Ready(id) \/ SessionEnds(id)
  \/ \E h \in HostId, n \in Name \cup {Gone} : EditHost(h, n)

TermSpec == TermInit /\ [][TermNext]_termVars

-----------------------------------------------------------------------------
(* Properties. *)

\* The active tab is one of the open tabs, and there is one whenever a tab is open:
\* closing tabs in any order never leaves the view without a terminal (closeTab,
\* closeOtherTabs).
ActiveIsOpen == activeTab \in Ids(tabs) \/ (tabs = <<>> /\ activeTab = NoTab)

\* Two tabs of one host never have the same title, also when several are being
\* opened at once or the host is renamed while a prompt is open (openTerminal).
TitlesDiffer ==
  \A i, j \in 1 .. Len(tabs) :
    i # j /\ tabs[i].host = tabs[j].host => tabs[i].title # tabs[j].title

\* A deployment's command is typed into its tab at most once, however often the
\* session is lost and reconnected (runOnReady).
CommandRunsOnce == \A i \in 1 .. Len(tabs) : tabs[i].runs + (IF tabs[i].runOnReady THEN 1 ELSE 0) <= 1

=============================================================================
