------------------------------ MODULE MCClient ------------------------------
(***************************************************************************)
(* The parts of the client checked together, and the pending order of the  *)
(* core they buy with.  They do not share state with one another, so one   *)
(* of them, chosen in the initial state, moves while the others rest: the  *)
(* states are the sum of theirs, not the product.  A run says which parts  *)
(* may be chosen.  A liveness property is about the behaviours its part    *)
(* moves in, under the fairness of its module.                             *)
(***************************************************************************)
EXTENDS Naturals, Sequences, TLC,
  AppUpdate, CloudOrder, Connect, ExecJobs, Files, HwSync, Imports, LiveFeed, Screen, SignIn, Terminals

CONSTANTS
  Moving,   \* the parts that may be chosen
  Window, NoWindow,
  Req, MaxOps, MaxFaults, MaxTold,
  a, b

VARIABLES
  part,
  app, core, stdinOpen, coreInfo, watched, quitting, closeToTray, win, shown, page, installing,
  account, paid, stored, net, cloud, reqs, accountOnline, accountEvents, ops, faults

Shell == INSTANCE Shell
ProAccount == INSTANCE ProAccount WITH core <- account, online <- accountOnline, events <- accountEvents

ASSUME ClientAssumption ==
  /\ Shell!WindowAssumption /\ ConnectAssumption /\ TerminalsAssumption
  /\ HwSyncAssumption /\ ScreenAssumption /\ ExecAssumption
  /\ SignInAssumption /\ ImportsAssumption /\ FeedAssumption /\ UpdAssumption
  /\ ProAccount!ProAssumption

\* A host reached through another, and one reached directly.
MCVia == (a :> {b}) @@ (b :> {})

Part == {"update", "shell", "connect", "terminals", "hardware", "screen",
         "exec", "files", "signin", "account", "order", "imports", "feed"}

\* For runs without liveness: no part tells its requests of dialogs, or the names of
\* its hosts, apart.
Symmetry == Permutations(Slot) \cup Permutations(Name)

\* A part at rest starts in one of its initial states only: the choice is not seen.
AtRest ==
  /\ part # "update" => updKind = "install"
  /\ part # "shell" => closeToTray
  /\ part # "terminals" => nameOf = [h \in HostId |-> CHOOSE n \in Name : TRUE]
  /\ part # "screen" => known = {}
  /\ part # "files" => loads[CHOOSE l \in Load : TRUE].dir = CHOOSE d \in Dir : TRUE
  /\ part # "account" => ~paid
  /\ part # "order" => ~hasDevice

Init ==
  /\ part \in Part \cap Moving
  /\ UpdInit
  /\ Shell!Init
  /\ ConnInit
  /\ TermInit
  /\ HwInit
  /\ ScreenInit
  /\ ExecInit
  /\ FilesInit
  /\ SignInInit
  /\ ProAccount!ProInit
  /\ OrdInit
  /\ ImportsInit
  /\ FeedInit
  /\ AtRest

shellVars == <<app, core, stdinOpen, coreInfo, watched, quitting, closeToTray, win, shown, page,
    installing>>
accountVars == <<account, paid, stored, net, cloud, reqs, accountOnline, accountEvents, ops, faults>>

\* The other parts rest.
Rest(p) ==
  /\ UNCHANGED part
  /\ IF p = "update" THEN TRUE ELSE UNCHANGED updVars
  /\ IF p = "shell" THEN TRUE ELSE UNCHANGED shellVars
  /\ IF p = "connect" THEN TRUE ELSE UNCHANGED connVars
  /\ IF p = "terminals" THEN TRUE ELSE UNCHANGED termVars
  /\ IF p = "hardware" THEN TRUE ELSE UNCHANGED hwSyncVars
  /\ IF p = "screen" THEN TRUE ELSE UNCHANGED screenVars
  /\ IF p = "exec" THEN TRUE ELSE UNCHANGED execVars
  /\ IF p = "files" THEN TRUE ELSE UNCHANGED filesVars
  /\ IF p = "signin" THEN TRUE ELSE UNCHANGED signVars
  /\ IF p = "account" THEN TRUE ELSE UNCHANGED accountVars
  /\ IF p = "order" THEN TRUE ELSE UNCHANGED orderVars
  /\ IF p = "imports" THEN TRUE ELSE UNCHANGED impVars
  /\ IF p = "feed" THEN TRUE ELSE UNCHANGED feedVars

AppUpdateMoves ==
  \/ part = "update" /\ NewRelease /\ Rest("update")
  \/ part = "update" /\ StartupCheck /\ Rest("update")
  \/ part = "update" /\ HandleCheck /\ Rest("update")
  \/ part = "update" /\ CheckAnswered /\ Rest("update")
  \/ part = "update" /\ CheckFailed /\ Rest("update")
  \/ part = "update" /\ HandleDownload /\ Rest("update")
  \/ part = "update" /\ DownloadProgress /\ Rest("update")
  \/ part = "update" /\ Downloaded /\ Rest("update")
  \/ part = "update" /\ DownloadFailed /\ Rest("update")
  \/ part = "update" /\ OnMessage /\ Rest("update")
  \/ part = "update" /\ CheckForUpdatesNow /\ Rest("update")
  \/ part = "update" /\ StartUpdateDownload /\ Rest("update")
  \/ part = "update" /\ InstallUpdate /\ Rest("update")
  \/ part = "update" /\ DismissUpdate /\ Rest("update")

ShellMoves ==
  \/ part = "shell" /\ Shell!CoreReady /\ Rest("shell")
  \/ part = "shell" /\ Shell!StartFails /\ Rest("shell")
  \/ part = "shell" /\ Shell!CoreCrashes /\ Rest("shell")
  \/ part = "shell" /\ Shell!CoreStops /\ Rest("shell")
  \/ part = "shell" /\ Shell!OnCoreExit /\ Rest("shell")
  \/ part = "shell" /\ Shell!ShowWindow /\ Rest("shell")
  \/ part = "shell" /\ Shell!Quit /\ Rest("shell")
  \/ part = "shell" /\ Shell!MainCrashes /\ Rest("shell")
  \/ part = "shell" /\ Shell!SetCloseToTray /\ Rest("shell")
  \/ part = "shell" /\ Shell!Install /\ Rest("shell")
  \/ \E w \in Window :
       \/ part = "shell" /\ Shell!PageBoots(w) /\ Rest("shell")
       \/ part = "shell" /\ Shell!CloseToTray(w) /\ Rest("shell")
       \/ part = "shell" /\ Shell!CloseWindow(w) /\ Rest("shell")

ConnectMoves ==
  \/ \E f \in Flow, h \in Host :
       \/ part = "connect" /\ Start(f, h) /\ Rest("connect")
       \/ part = "connect" /\ CoreAsksTrust(f, h) /\ Rest("connect")
       \/ part = "connect" /\ CoreAsksSecret(f, h) /\ Rest("connect")
  \/ \E f \in Flow :
       \/ part = "connect" /\ GiveUp(f) /\ Rest("connect")
       \/ part = "connect" /\ CoreConnects(f) /\ Rest("connect")
       \/ part = "connect" /\ CoreRefuses(f) /\ Rest("connect")
       \/ part = "connect" /\ Trusted(f) /\ Rest("connect")
       \/ part = "connect" /\ TrustFails(f) /\ Rest("connect")
       \/ part = "connect" /\ Accept(f) /\ Rest("connect")
       \/ part = "connect" /\ Answer(f) /\ Rest("connect")
       \/ part = "connect" /\ Cancel(f) /\ Rest("connect")

TerminalsMoves ==
  \/ \E h \in HostId, c \in BOOLEAN :
       \/ part = "terminals" /\ OpenTerminal(h, c) /\ Rest("terminals")
       \/ part = "terminals" /\ Opened(h, c) /\ Rest("terminals")
       \/ part = "terminals" /\ NotOpened(h, c) /\ Rest("terminals")
  \/ \E id \in Tab :
       \/ part = "terminals" /\ CloseTab(id) /\ Rest("terminals")
       \/ part = "terminals" /\ CloseOtherTabs(id) /\ Rest("terminals")
       \/ part = "terminals" /\ SelectTab(id) /\ Rest("terminals")
       \/ part = "terminals" /\ ReconnectTab(id) /\ Rest("terminals")
       \/ part = "terminals" /\ Reconnected(id) /\ Rest("terminals")
       \/ part = "terminals" /\ NotReconnected(id) /\ Rest("terminals")
       \/ part = "terminals" /\ Ready(id) /\ Rest("terminals")
       \/ part = "terminals" /\ SessionEnds(id) /\ Rest("terminals")
  \/ \E h \in HostId, n \in Name \cup {Gone} : part = "terminals" /\ EditHost(h, n) /\ Rest("terminals")

HwSyncMoves ==
  \/ \E r \in HwCall :
       \/ part = "hardware" /\ TakeRequest(r) /\ Rest("hardware")
       \/ part = "hardware" /\ StartHardwareCheck(r) /\ Rest("hardware")
       \/ part = "hardware" /\ Connected(r) /\ Rest("hardware")
       \/ part = "hardware" /\ NotConnected(r) /\ Rest("hardware")
       \/ part = "hardware" /\ HwAnswered(r) /\ Rest("hardware")
  \/ \E s \in Snapshot :
       \/ part = "hardware" /\ AnswerSnapshot(s) /\ Rest("hardware")
       \/ part = "hardware" /\ ApplySnapshot(s) /\ Rest("hardware")
  \/ part = "hardware" /\ StartElsewhere /\ Rest("hardware")
  \/ part = "hardware" /\ PublishProgress /\ Rest("hardware")
  \/ part = "hardware" /\ PublishDone /\ Rest("hardware")
  \/ part = "hardware" /\ ReleaseHost /\ Rest("hardware")
  \/ part = "hardware" /\ OnEvent /\ Rest("hardware")
  \/ part = "hardware" /\ Disconnect /\ Rest("hardware")
  \/ part = "hardware" /\ Reconnect /\ Rest("hardware")
  \/ part = "hardware" /\ SettingsSaved /\ Rest("hardware")

ScreenMoves ==
  \/ \E v \in View : part = "screen" /\ Navigate(v) /\ Rest("screen")
  \/ part = "screen" /\ TerminalOpens /\ Rest("screen")
  \/ part = "screen" /\ TogglePalette /\ Rest("screen")
  \/ part = "screen" /\ OpenDrawer /\ Rest("screen")
  \/ part = "screen" /\ CloseDrawer /\ Rest("screen")
  \/ \E h \in Server : part = "screen" /\ OpenHostMenu(h) /\ Rest("screen")
  \/ part = "screen" /\ CloseContextMenu /\ Rest("screen")
  \/ part = "screen" /\ GoBack /\ Rest("screen")
  \/ \E d \in Dialog :
       \/ part = "screen" /\ OpenByUser(d) /\ Rest("screen")
       \/ part = "screen" /\ OpenByItself(d) /\ Rest("screen")
       \/ part = "screen" /\ OpenFromPage(d) /\ Rest("screen")
       \/ part = "screen" /\ OpenInPage(d) /\ Rest("screen")
       \/ part = "screen" /\ OpenFromMenu(d) /\ Rest("screen")
  \/ part = "screen" /\ CloseDialog /\ Rest("screen")
  \/ part = "screen" /\ Escape /\ Rest("screen")
  \/ part = "screen" /\ SubmitAtOnce /\ Rest("screen")
  \/ \E s \in Slot :
       \/ part = "screen" /\ Submit(s) /\ Rest("screen")
       \/ part = "screen" /\ RequestFails(s) /\ Rest("screen")
       \/ part = "screen" /\ RequestDone(s) /\ Rest("screen")
  \/ part = "screen" /\ HostsChange /\ Rest("screen")
  \/ part = "screen" /\ Question /\ Rest("screen")

ExecJobsMoves ==
  \/ \E j \in Job :
       \/ part = "exec" /\ RunExec(j) /\ Rest("exec")
       \/ part = "exec" /\ StartExec(j) /\ Rest("exec")
       \/ part = "exec" /\ Accepted(j) /\ Rest("exec")
       \/ part = "exec" /\ ExecRefused(j) /\ Rest("exec")
       \/ part = "exec" /\ JobFinishes(j) /\ Rest("exec")
  \/ \E j \in Job, h \in ExecHost :
       \/ part = "exec" /\ HostRuns(j, h) /\ Rest("exec")
       \/ part = "exec" /\ HostEnds(j, h) /\ Rest("exec")
  \/ part = "exec" /\ OnExecEvent /\ Rest("exec")
  \/ part = "exec" /\ WireBreaks /\ Rest("exec")
  \/ part = "exec" /\ WireConnects /\ Rest("exec")

FilesMoves ==
  \/ \E l \in Load, d \in Dir : part = "files" /\ Browse(l, d) /\ Rest("files")
  \/ \E l \in Load :
       \/ part = "files" /\ LoadConnected(l) /\ Rest("files")
       \/ part = "files" /\ ListFiles(l) /\ Rest("files")
       \/ part = "files" /\ LoadShown(l) /\ Rest("files")
       \/ part = "files" /\ LoadFails(l) /\ Rest("files")
  \/ part = "files" /\ OpenChooser /\ Rest("files")
  \/ \E w \in Work, n \in FileName :
       \/ part = "files" /\ Choose(w, n) /\ Rest("files")
       \/ part = "files" /\ Drop(w, n) /\ Rest("files")
       \/ part = "files" /\ Delete(w, n) /\ Rest("files")
       \/ part = "files" /\ OpenNameModal(w, "mkdir", n) /\ Rest("files")
       \/ part = "files" /\ OpenNameModal(w, "rename", n) /\ Rest("files")
  \/ \E w \in Work :
       \/ part = "files" /\ Confirm(w) /\ Rest("files")
       \/ part = "files" /\ Decline(w) /\ Rest("files")
       \/ part = "files" /\ WorkAnswered(w, TRUE) /\ Rest("files")
       \/ part = "files" /\ WorkAnswered(w, FALSE) /\ Rest("files")
  \/ \E w \in Work, l \in Load : part = "files" /\ Reload(w, l) /\ Rest("files")

SignInMoves ==
  \/ \E e \in Email :
       \/ part = "signin" /\ TypeEmail(e) /\ Rest("signin")
       \/ part = "signin" /\ Replaced(e) /\ Rest("signin")
  \/ \E full \in BOOLEAN : part = "signin" /\ TypeCode(full) /\ Rest("signin")
  \/ part = "signin" /\ SendCode /\ Rest("signin")
  \/ part = "signin" /\ Resend /\ Rest("signin")
  \/ part = "signin" /\ Verify /\ Rest("signin")
  \/ part = "signin" /\ OpenLimit /\ Rest("signin")
  \/ part = "signin" /\ OtherEmail /\ Rest("signin")
  \/ part = "signin" /\ CloseLimit /\ Rest("signin")
  \/ part = "signin" /\ Replace /\ Rest("signin")
  \/ part = "signin" /\ CodeSent /\ Rest("signin")
  \/ part = "signin" /\ Verified /\ Rest("signin")
  \/ part = "signin" /\ TooManyDevices /\ Rest("signin")
  \/ part = "signin" /\ Refused /\ Rest("signin")
  \/ part = "signin" /\ TokenRefused /\ Rest("signin")
  \/ part = "signin" /\ ReplaceFails /\ Rest("signin")
  \/ part = "signin" /\ CooldownEnds /\ Rest("signin")
  \/ part = "signin" /\ NineMinutes /\ Rest("signin")
  \/ part = "signin" /\ SignedOutAgain /\ Rest("signin")

ProAccountMoves ==
  \/ \E r \in Req :
       \/ part = "account" /\ ProAccount!RefreshAccount(r) /\ Rest("account")
       \/ part = "account" /\ ProAccount!SignOut(r) /\ Rest("account")
       \/ part = "account" /\ ProAccount!Buy(r) /\ Rest("account")
       \/ part = "account" /\ ProAccount!CheckOrder(r) /\ Rest("account")
       \/ part = "account" /\ ProAccount!StopWaiting(r) /\ Rest("account")
       \/ part = "account" /\ ProAccount!AddChannel(r) /\ Rest("account")
       \/ part = "account" /\ ProAccount!TestChannel(r) /\ Rest("account")
       \/ part = "account" /\ ProAccount!DeleteChannel(r) /\ Rest("account")
       \/ part = "account" /\ ProAccount!RevokeDevice(r) /\ Rest("account")
       \/ part = "account" /\ ProAccount!SaveForwarding(r) /\ Rest("account")
       \/ part = "account" /\ ProAccount!DismissNotice(r) /\ Rest("account")
       \/ part = "account" /\ ProAccount!Handle(r) /\ Rest("account")
       \/ part = "account" /\ ProAccount!Granted(r) /\ Rest("account")
       \/ part = "account" /\ ProAccount!StoreOrder(r) /\ Rest("account")
       \/ part = "account" /\ ProAccount!PaymentRequired(r) /\ Rest("account")
       \/ part = "account" /\ ProAccount!Refuse(r) /\ Rest("account")
       \/ part = "account" /\ ProAccount!Lose(r) /\ Rest("account")
       \/ part = "account" /\ ProAccount!Answered(r) /\ Rest("account")
       \/ part = "account" /\ ProAccount!Failed(r) /\ Rest("account")
       \/ part = "account" /\ ProAccount!SocketOpens(r) /\ Rest("account")
  \/ part = "account" /\ ProAccount!PeriodicRefresh /\ Rest("account")
  \/ part = "account" /\ ProAccount!OrderEnds /\ Rest("account")
  \/ part = "account" /\ ProAccount!SignedOutByCloud /\ Rest("account")
  \/ part = "account" /\ ProAccount!PlanRunsOut /\ Rest("account")
  \/ part = "account" /\ ProAccount!CloudComesAndGoes /\ Rest("account")
  \/ part = "account" /\ ProAccount!OnCloudEvent /\ Rest("account")
  \/ part = "account" /\ ProAccount!SocketBreaks /\ Rest("account")

OrderMoves ==
  \/ part = "order" /\ SignOut /\ Rest("order")
  \/ part = "order" /\ SignIn /\ Rest("order")
  \/ part = "order" /\ StopWaiting /\ Rest("order")
  \/ part = "order" /\ Restart /\ Rest("order")
  \/ \E c \in Caller :
       \/ part = "order" /\ CheckoutAsk(c) /\ Rest("order")
       \/ part = "order" /\ CheckoutFails(c) /\ Rest("order")
       \/ part = "order" /\ CheckoutWatch(c) /\ Rest("order")
  \/ \E c \in Caller, x \in Code : part = "order" /\ CheckoutStore(c, x) /\ Rest("order")
  \/ \E p \in Poller :
       \/ part = "order" /\ PollStopped(p) /\ Rest("order")
       \/ part = "order" /\ PollLate(p) /\ Rest("order")
       \/ part = "order" /\ PollAsk(p) /\ Rest("order")
       \/ part = "order" /\ PollAnswer(p) /\ Rest("order")
       \/ part = "order" /\ PollFails(p) /\ Rest("order")
       \/ part = "order" /\ PollGivesUp(p) /\ Rest("order")
  \/ \E x \in Code :
       \/ part = "order" /\ AskStatus(x) /\ Rest("order")
       \/ part = "order" /\ Elapse(x) /\ Rest("order")

ImportsMoves ==
  \/ \E s \in Source : part = "imports" /\ ShowSource(s) /\ Rest("imports")
  \/ \E p \in Path : part = "imports" /\ ChooseFile(p) /\ Rest("imports")
  \/ \E q \in Fetch : part = "imports" /\ ReadFails(q) /\ Rest("imports")
  \/ \E q \in Fetch, new \in SUBSET Entry : part = "imports" /\ ReadAnswers(q, new) /\ Rest("imports")
  \/ \E e \in Entry : part = "imports" /\ Tick(e) /\ Rest("imports")
  \/ part = "imports" /\ TickAll /\ Rest("imports")
  \/ part = "imports" /\ SubmitImport /\ Rest("imports")
  \/ part = "imports" /\ ImportFails /\ Rest("imports")

LiveFeedMoves ==
  \/ part = "feed" /\ Poll /\ Rest("feed")
  \/ part = "feed" /\ StreamTick /\ Rest("feed")
  \/ part = "feed" /\ Raise /\ Rest("feed")
  \/ part = "feed" /\ Unmonitor /\ Rest("feed")
  \/ part = "feed" /\ OnStatus /\ Rest("feed")
  \/ part = "feed" /\ OnRemoved /\ Rest("feed")
  \/ part = "feed" /\ OnMetric /\ Rest("feed")
  \/ part = "feed" /\ FlushMetrics /\ Rest("feed")
  \/ part = "feed" /\ OnAlert /\ Rest("feed")
  \/ part = "feed" /\ FlushNotifications /\ Rest("feed")
  \/ part = "feed" /\ FeedBreaks /\ Rest("feed")
  \/ part = "feed" /\ FeedOpens /\ Rest("feed")
  \/ \E x \in StatusAnswer : part = "feed" /\ StatusLoaded(x) /\ Rest("feed")

Next ==
  \/ AppUpdateMoves \/ ShellMoves \/ ConnectMoves \/ TerminalsMoves
  \/ HwSyncMoves \/ ScreenMoves \/ ExecJobsMoves \/ FilesMoves
  \/ SignInMoves \/ ProAccountMoves \/ OrderMoves \/ ImportsMoves \/ LiveFeedMoves

vars == <<part, updVars, shellVars, connVars, termVars, hwSyncVars, screenVars,
          execVars, filesVars, signVars, accountVars, orderVars, impVars, feedVars>>

UpdateFairness ==
  /\ WF_updVars(part = "update" /\ HandleCheck)
  /\ WF_updVars(part = "update" /\ (CheckAnswered \/ CheckFailed))
  /\ WF_updVars(part = "update" /\ (Downloaded \/ DownloadFailed))
  /\ WF_updVars(part = "update" /\ OnMessage)

ShellFairness ==
  /\ WF_shellVars(part = "shell" /\ (Shell!CoreReady \/ Shell!StartFails))
  /\ WF_shellVars(part = "shell" /\ Shell!CoreStops)
  /\ WF_shellVars(part = "shell" /\ Shell!OnCoreExit)

ConnectFairness ==
  \A f \in Flow :
    /\ WF_connVars(part = "connect" /\ GiveUp(f))
    /\ WF_connVars(part = "connect" /\ CoreAnswers(f))
    /\ WF_connVars(part = "connect" /\ UserAnswers(f))

HardwareFairness ==
  /\ \A r \in HwCall :
       /\ WF_hwSyncVars(part = "hardware" /\ TakeRequest(r))
       /\ SF_hwSyncVars(part = "hardware" /\ HwAnswered(r))
       /\ WF_hwSyncVars(part = "hardware" /\ (Connected(r) \/ NotConnected(r)))
  /\ \A s \in Snapshot :
       /\ WF_hwSyncVars(part = "hardware" /\ AnswerSnapshot(s))
       /\ WF_hwSyncVars(part = "hardware" /\ ApplySnapshot(s))
  /\ SF_hwSyncVars(part = "hardware" /\ PublishDone)
  /\ WF_hwSyncVars(part = "hardware" /\ ReleaseHost)
  /\ WF_hwSyncVars(part = "hardware" /\ OnEvent)
  /\ WF_hwSyncVars(part = "hardware" /\ Reconnect)

AccountFairness ==
  /\ \A r \in Req :
       /\ WF_accountVars(part = "account" /\ ProAccount!Core(r))
       /\ WF_accountVars(part = "account" /\ (ProAccount!Answered(r) \/ ProAccount!Failed(r)))
  /\ WF_accountVars(part = "account" /\ \E r \in Req : ProAccount!SocketOpens(r))
  /\ WF_accountVars(part = "account" /\ ProAccount!PeriodicRefresh)
  /\ WF_accountVars(part = "account" /\ ProAccount!OnCloudEvent)

OrderFairness ==
  /\ \A p \in Poller : WF_orderVars(part = "order" /\ PollStep(p))
  /\ WF_orderVars(part = "order" /\ \E p \in Poller : PollLate(p))
  /\ \A c \in Caller : WF_orderVars(part = "order" /\ CheckoutWatch(c))
  /\ \A x \in Code : WF_orderVars(part = "order" /\ Elapse(x))

FeedFairness ==
  /\ SF_feedVars(part = "feed" /\ PollAgain)
  /\ WF_feedVars(part = "feed" /\ EventArrives)
  /\ WF_feedVars(part = "feed" /\ FeedOpens)
  /\ WF_feedVars(part = "feed" /\ \E x \in StatusAnswer : StatusLoaded(x))

Spec == Init /\ [][Next]_vars

-----------------------------------------------------------------------------

\* Every part keeps its types.
ClientTypeOK ==
  /\ part = "update" => UpdTypeOK
  /\ part = "shell" => Shell!TypeOK
  /\ part = "connect" => ConnTypeOK
  /\ part = "terminals" => TermTypeOK
  /\ part = "hardware" => HwTypeOK
  /\ part = "screen" => ScreenTypeOK
  /\ part = "exec" => ExecTypeOK
  /\ part = "files" => FilesTypeOK
  /\ part = "signin" => SignInTypeOK
  /\ part = "account" => ProAccount!ProTypeOK
  /\ part = "imports" => ImportsTypeOK
  /\ part = "feed" => FeedTypeOK

\* The button "Check for updates" does not spin for ever: every check the user
\* asked for ends, also when it joins the check of the start or a download runs.
CheckEnds == part = "update" /\ UpdateFairness => ManualCheckEnds

\* A core that stops by itself closes the app ("Termward will close"), rather than
\* leaving a window or a tray icon without anything behind it.  An update whose
\* installer did not start is the exception: quitting stays set.
AppEndsWithCore == part = "shell" /\ ShellFairness => Shell!AppEndsWithCore

\* Every flow ends, whatever the core answers and the user does, unless the question
\* of another flow took its place: that is the only way to be left waiting.
OnlyOvertakenWait == part = "connect" /\ ConnectFairness => OvertakenOnly

\* A request of this window ends, also when another check is in its way.
OwnCheckEnds == part = "hardware" /\ HardwareFairness => OwnRequestEnds

\* Whatever order answers and events come in, a window that shows something else than
\* the core's account shows it again before long and keeps showing it, as long as the
\* account stays signed in: refreshLoop tells it anew (setCloud, the "cloud" event).
WindowCatchesUp == part = "account" /\ AccountFairness => ProAccount!WindowCatchesUp

\* No goroutine polls the order for ever: it ends after thirty minutes at the latest.
PollersEnd == part = "order" /\ OrderFairness => \A p \in Poller : []<>(poller[p].pc = "idle")

\* As long as a host is monitored, the window ends up showing its last result, whatever
\* events were dropped and answers came late: the next poll puts it right.
StatusCatchesUp == part = "feed" /\ FeedFairness => StatusSettles

=============================================================================
