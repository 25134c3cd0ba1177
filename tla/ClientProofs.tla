---------------------------- MODULE ClientProofs ----------------------------
(***************************************************************************)
(* Proofs about MCClient: what holds of each part of the client holds of   *)
(* the specification its runs check, for any values of the constants; and  *)
(* the proofs about the two parts that MCClient instantiates, Shell and    *)
(* ProAccount.                                                             *)
(***************************************************************************)
EXTENDS MCClient, WindowProofs, ConnectProofs, TerminalsProofs,
  ExecJobsProofs, CloudOrderProofs

-----------------------------------------------------------------------------
(* A move of the client is a step of the part that moves and leaves the     *)
(* others alone.                                                            *)

LEMMA AppUpdateMovesOnly == AppUpdateMoves => UpdNext /\ part = "update" /\ Rest("update")
BY DEF AppUpdateMoves, UpdNext

LEMMA ShellMovesOnly == ShellMoves => Shell!Next /\ part = "shell" /\ Rest("shell")
BY DEF ShellMoves, Shell!Next

LEMMA ConnectMovesOnly == ConnectMoves => ConnNext /\ part = "connect" /\ Rest("connect")
BY DEF ConnectMoves, ConnNext, CoreAnswers, UserAnswers

LEMMA TerminalsMovesOnly == TerminalsMoves => TermNext /\ part = "terminals" /\ Rest("terminals")
BY DEF TerminalsMoves, TermNext

LEMMA HwSyncMovesOnly == HwSyncMoves => HwNext /\ part = "hardware" /\ Rest("hardware")
BY DEF HwSyncMoves, HwNext

LEMMA ScreenMovesOnly == ScreenMoves => ScreenNext /\ part = "screen" /\ Rest("screen")
BY DEF ScreenMoves, ScreenNext

LEMMA ExecJobsMovesOnly == ExecJobsMoves => ExecNext /\ part = "exec" /\ Rest("exec")
BY DEF ExecJobsMoves, ExecNext

LEMMA FilesMovesOnly == FilesMoves => FilesNext /\ part = "files" /\ Rest("files")
BY DEF FilesMoves, FilesNext

LEMMA SignInMovesOnly == SignInMoves => SignInNext /\ part = "signin" /\ Rest("signin")
BY DEF SignInMoves, SignInNext

LEMMA ProAccountMovesOnly == ProAccountMoves => ProAccount!ProNext /\ part = "account" /\ Rest("account")
BY DEF ProAccountMoves, ProAccount!ProNext, ProAccount!User, ProAccount!Core

LEMMA OrderMovesOnly == OrderMoves => OrdNext /\ part = "order" /\ Rest("order")
BY DEF OrderMoves, OrdNext, PollStep

LEMMA ImportsMovesOnly == ImportsMoves => ImportsNext /\ part = "imports" /\ Rest("imports")
BY DEF ImportsMoves, ImportsNext

LEMMA LiveFeedMovesOnly == LiveFeedMoves => FeedNext /\ part = "feed" /\ Rest("feed")
BY DEF LiveFeedMoves, FeedNext

LEMMA OneMoves ==
  ASSUME Next
  PROVE  /\ part \in Part /\ Rest(part)
         /\ part = "update" => UpdNext
         /\ part = "shell" => Shell!Next
         /\ part = "connect" => ConnNext
         /\ part = "terminals" => TermNext
         /\ part = "hardware" => HwNext
         /\ part = "screen" => ScreenNext
         /\ part = "exec" => ExecNext
         /\ part = "files" => FilesNext
         /\ part = "signin" => SignInNext
         /\ part = "account" => ProAccount!ProNext
         /\ part = "order" => OrdNext
         /\ part = "imports" => ImportsNext
         /\ part = "feed" => FeedNext
BY AppUpdateMovesOnly, ShellMovesOnly, ConnectMovesOnly, TerminalsMovesOnly, HwSyncMovesOnly,
  ScreenMovesOnly, ExecJobsMovesOnly, FilesMovesOnly, SignInMovesOnly, ProAccountMovesOnly,
  OrderMovesOnly, ImportsMovesOnly, LiveFeedMovesOnly DEF Next, Part

\* What rests stays as it is.
LEMMA Rests ==
  ASSUME NEW p \in Part, Rest(p)
  PROVE  /\ part' = part
         /\ p # "update" => UNCHANGED updVars
         /\ p # "shell" => UNCHANGED shellVars
         /\ p # "connect" => UNCHANGED connVars
         /\ p # "terminals" => UNCHANGED termVars
         /\ p # "hardware" => UNCHANGED hwSyncVars
         /\ p # "screen" => UNCHANGED screenVars
         /\ p # "exec" => UNCHANGED execVars
         /\ p # "files" => UNCHANGED filesVars
         /\ p # "signin" => UNCHANGED signVars
         /\ p # "account" => UNCHANGED accountVars
         /\ p # "order" => UNCHANGED orderVars
         /\ p # "imports" => UNCHANGED impVars
         /\ p # "feed" => UNCHANGED feedVars
BY DEF Rest

\* So every part makes its own steps only.
LEMMA PartsStep ==
  ASSUME [Next]_vars
  PROVE  /\ [UpdNext]_updVars
         /\ [Shell!Next]_shellVars
         /\ [ConnNext]_connVars
         /\ [TermNext]_termVars
         /\ [HwNext]_hwSyncVars
         /\ [ScreenNext]_screenVars
         /\ [ExecNext]_execVars
         /\ [FilesNext]_filesVars
         /\ [SignInNext]_signVars
         /\ [ProAccount!ProNext]_accountVars
         /\ [OrdNext]_orderVars
         /\ [ImportsNext]_impVars
         /\ [FeedNext]_feedVars
<1>1. CASE UNCHANGED vars
  BY <1>1 DEF vars
<1>2. CASE Next
  BY <1>2, OneMoves, Rests
<1> QED
  BY <1>1, <1>2

-----------------------------------------------------------------------------
(***************************************************************************)
(* Shell: what is left of the app when the core ends.                      *)
(***************************************************************************)

\* A core that has ended is noticed: the app is gone, or the listener on its exit still
\* waits to close it, unless an update whose installer did not start set quitting.
DeadCoreIsNoticed ==
  core = "dead" => app = "gone" \/ installing \/ (app = "running" /\ watched)

\* Only quitting closes the core's stdin and sets quitting; the listener is registered
\* with the first window; a page that booted had its core.
Watching ==
  /\ app # "gone" => stdinOpen /\ (quitting => installing)
  /\ app = "starting" => core = "starting"
  /\ app = "running" /\ core # "dead" => core = "ready" /\ watched

Windows ==
  /\ DOMAIN shown \subseteq Window /\ shown \in [DOMAIN shown -> BOOLEAN]
  /\ page \in [DOMAIN shown -> {"loading", "booted", "failed"}]
  /\ win \in DOMAIN shown \cup {NoWindow}
Flags ==
  /\ app \in {"starting", "running", "gone"} /\ core \in {"starting", "ready", "dead"}
  /\ {stdinOpen, coreInfo, watched, quitting, closeToTray, installing} \subseteq BOOLEAN
ShellInv == Windows /\ Flags /\ Watching /\ DeadCoreIsNoticed

LEMMA ShellTypes == ShellInv => Shell!TypeOK
BY DEF ShellInv, Windows, Flags, Shell!TypeOK, Shell!Alive, Shell!Page

LEMMA InitShell == Shell!Init => ShellInv
BY DEF Shell!Init, ShellInv, Windows, Flags, Watching, DeadCoreIsNoticed

\* No window is left; a new one is the one known; one is closed.
NoneLeft == win' = NoWindow /\ shown' = [w \in {} |-> TRUE] /\ page' = [w \in {} |-> "loading"]

LEMMA NoWindows == NoneLeft => Windows'
BY DEF NoneLeft, Windows

LEMMA NewWindow ==
  ASSUME Windows, NEW w \in Window, Shell!CreateWindow(w)
  PROVE  Windows'
<1>1. /\ DOMAIN shown' = DOMAIN shown \cup {w} /\ win' = w
      /\ \A x \in DOMAIN shown' : shown'[x] = IF x = w THEN TRUE ELSE shown[x]
      /\ DOMAIN page' = DOMAIN page \cup {w}
      /\ \A x \in DOMAIN page' : page'[x] = IF x = w THEN "loading" ELSE page[x]
      /\ shown' = [x \in DOMAIN shown' |-> shown'[x]]
      /\ page' = [x \in DOMAIN page' |-> page'[x]]
  BY DEF Shell!CreateWindow, Shell!With
<1>2. DOMAIN page = DOMAIN shown
  BY DEF Windows
<1>3. DOMAIN shown' \subseteq Window /\ win' \in DOMAIN shown'
  BY <1>1 DEF Windows
<1>4. \A x \in DOMAIN shown' : shown'[x] \in BOOLEAN /\ page'[x] \in {"loading", "booted", "failed"}
  BY <1>1, <1>2 DEF Windows
<1> QED
  BY <1>1, <1>2, <1>3, <1>4 DEF Windows

LEMMA WindowClosed ==
  ASSUME Windows, NEW w, win' = NoWindow, shown' = Shell!Without(shown, w),
         page' = Shell!Without(page, w)
  PROVE  Windows'
BY DEF Windows, Shell!Without

LEMMA NextShell ==
  ASSUME ShellInv, [Shell!Next]_shellVars
  PROVE  ShellInv'
<1> USE DEF ShellInv
<1>1. CASE UNCHANGED shellVars
  BY <1>1 DEF shellVars, Windows, Flags, Watching, DeadCoreIsNoticed
<1>2. CASE Shell!CoreReady
  <2>1. Windows'
    BY <1>2, NewWindow DEF Shell!CoreReady
  <2> QED
    BY <1>2, <2>1 DEF Shell!CoreReady, Flags, Watching, DeadCoreIsNoticed
<1>3. CASE Shell!StartFails \/ Shell!MainCrashes
  <2>1. NoneLeft
    BY <1>3 DEF Shell!StartFails, Shell!MainCrashes, NoneLeft
  <2> QED
    BY <1>3, <2>1, NoWindows DEF Shell!StartFails, Shell!MainCrashes, Flags, Watching, DeadCoreIsNoticed
<1>4. CASE Shell!CoreCrashes \/ Shell!CoreStops
  BY <1>4 DEF Shell!CoreCrashes, Shell!CoreStops, Windows, Flags, Watching, DeadCoreIsNoticed
<1>5. CASE Shell!OnCoreExit
  <2>1. CASE quitting
    BY <1>5, <2>1 DEF Shell!OnCoreExit, Windows, Flags, Watching, DeadCoreIsNoticed
  <2>2. CASE ~quitting
    <3>1. NoneLeft
      BY <1>5, <2>2 DEF Shell!OnCoreExit, Shell!QuitApp, NoneLeft
    <3> QED
      BY <1>5, <2>2, <3>1, NoWindows
        DEF Shell!OnCoreExit, Shell!QuitApp, Flags, Watching, DeadCoreIsNoticed
  <2> QED
    BY <2>1, <2>2
<1>6. CASE Shell!ShowWindow
  <2>1. Windows'
    <3>1. CASE win = NoWindow
      BY <1>6, <3>1, NewWindow DEF Shell!ShowWindow
    <3>2. CASE win # NoWindow
      BY <1>6, <3>2 DEF Shell!ShowWindow, Windows
    <3> QED
      BY <3>1, <3>2
  <2> QED
    BY <1>6, <2>1 DEF Shell!ShowWindow, Flags, Watching, DeadCoreIsNoticed
<1>7. CASE Shell!Quit
  <2>1. NoneLeft
    BY <1>7 DEF Shell!Quit, Shell!QuitApp, NoneLeft
  <2> QED
    BY <1>7, <2>1, NoWindows DEF Shell!Quit, Shell!QuitApp, Flags, Watching, DeadCoreIsNoticed
<1>8. CASE Shell!SetCloseToTray
  BY <1>8 DEF Shell!SetCloseToTray, Windows, Flags, Watching, DeadCoreIsNoticed
<1>9. CASE Shell!Install
  <2>1. CASE Shell!QuitApp
    <3>1. NoneLeft
      BY <2>1 DEF Shell!QuitApp, NoneLeft
    <3> QED
      BY <1>9, <2>1, <3>1, NoWindows
        DEF Shell!Install, Shell!QuitApp, Flags, Watching, DeadCoreIsNoticed
  <2>2. CASE quitting' = TRUE /\ UNCHANGED <<app, stdinOpen, win, shown, page>>
    BY <1>9, <2>2 DEF Shell!Install, Windows, Flags, Watching, DeadCoreIsNoticed
  <2> QED
    BY <1>9, <2>1, <2>2 DEF Shell!Install
<1>10. ASSUME NEW w \in Window, Shell!PageBoots(w)
       PROVE  ShellInv'
  <2>1. Windows'
    BY <1>10 DEF Shell!PageBoots, Shell!Alive, Windows
  <2> QED
    BY <1>10, <2>1 DEF Shell!PageBoots, Flags, Watching, DeadCoreIsNoticed
<1>11. ASSUME NEW w \in Window, Shell!CloseToTray(w)
       PROVE  ShellInv'
  <2>1. Windows'
    BY <1>11 DEF Shell!CloseToTray, Shell!Alive, Windows
  <2> QED
    BY <1>11, <2>1 DEF Shell!CloseToTray, Flags, Watching, DeadCoreIsNoticed
<1>12. ASSUME NEW w \in Window, Shell!CloseWindow(w)
       PROVE  ShellInv'
  <2>1. CASE quitting
    BY <1>12, <2>1, WindowClosed DEF Shell!CloseWindow, Flags, Watching, DeadCoreIsNoticed
  <2>2. CASE ~quitting
    <3>1. NoneLeft
      BY <1>12, <2>2 DEF Shell!CloseWindow, Shell!QuitApp, NoneLeft
    <3> QED
      BY <1>12, <2>2, <3>1, NoWindows
        DEF Shell!CloseWindow, Shell!QuitApp, Flags, Watching, DeadCoreIsNoticed
  <2> QED
    BY <2>1, <2>2
<1> QED
  BY <1>1, <1>2, <1>3, <1>4, <1>5, <1>6, <1>7, <1>8, <1>9, <1>10, <1>11, <1>12 DEF Shell!Next

-----------------------------------------------------------------------------
(***************************************************************************)
(* ProAccount: what a window without an account shows.                     *)
(***************************************************************************)

\* Nobody who is signed out has a plan or a channel; an order may be left.
Consistent == {s \in ProAccount!Status : ~s.signedIn => ~s.plan /\ ~s.channel}

AccountRequest ==
  [op: ProAccount!Op, pc: {"asked", "granted", "answered", "failed"},
   status: Consistent, saved: BOOLEAN, back: Consistent]

\* Wherever a status is: in the core, in the window, on the way to it, and kept to be
\* shown again.
AccountInv ==
  /\ account \in Consistent /\ cloud \in Consistent
  /\ accountEvents \in Seq(Consistent)
  /\ reqs \in [Req -> AccountRequest \cup {ProAccount!Free}]
AccountRest ==
  /\ paid \in BOOLEAN /\ stored \in BOOLEAN /\ net \in BOOLEAN /\ accountOnline \in BOOLEAN
  /\ ops \in 0 .. MaxOps /\ faults \in 0 .. MaxFaults

LEMMA AccountTypes == AccountInv /\ AccountRest => ProAccount!ProTypeOK
<1> SUFFICES ASSUME AccountInv, AccountRest PROVE ProAccount!ProTypeOK
  OBVIOUS
<1>1. Consistent \subseteq ProAccount!Status
  BY DEF Consistent
<1>2. AccountRequest \subseteq ProAccount!Request
  BY <1>1 DEF AccountRequest, ProAccount!Request
<1>3. accountEvents \in Seq(ProAccount!Status)
  BY <1>1 DEF AccountInv
<1>4. reqs \in [Req -> ProAccount!Request \cup {ProAccount!Free}]
  BY <1>2 DEF AccountInv
<1> QED
  BY <1>1, <1>3, <1>4 DEF AccountInv, AccountRest, ProAccount!ProTypeOK

LEMMA SignedOutStatus ==
  /\ ProAccount!Nothing \in Consistent
  /\ \A fw, notice \in BOOLEAN : ProAccount!SignedOut(fw, notice) \in Consistent
<1>1. \A fw, notice \in BOOLEAN : ProAccount!SignedOut(fw, notice) \in Consistent
  BY DEF ProAccount!SignedOut, Consistent, ProAccount!Status
<1> QED
  BY <1>1 DEF ProAccount!Nothing

LEMMA StatusChanged ==
  ASSUME NEW s \in Consistent
  PROVE  /\ s.fw \in BOOLEAN /\ s.signedIn \in BOOLEAN
         /\ [s EXCEPT !.notice = FALSE] \in Consistent
         /\ [s EXCEPT !.plan = FALSE] \in Consistent
         /\ \A fw \in BOOLEAN : [s EXCEPT !.fw = fw] \in Consistent
         /\ \A o \in {"none", "waiting", "timedOut", "ended"} :
              /\ [s EXCEPT !.order = o] \in Consistent
              /\ [s EXCEPT !.order = o].signedIn = s.signedIn
         /\ s.signedIn => \A p, c \in BOOLEAN :
                            [s EXCEPT !.plan = p, !.channel = c] \in Consistent
<1> USE DEF Consistent, ProAccount!Status
<1>1. s.fw \in BOOLEAN /\ s.signedIn \in BOOLEAN
  OBVIOUS
<1>2. [s EXCEPT !.notice = FALSE] \in Consistent
  OBVIOUS
<1>3. [s EXCEPT !.plan = FALSE] \in Consistent
  OBVIOUS
<1>4. \A fw \in BOOLEAN : [s EXCEPT !.fw = fw] \in Consistent
  OBVIOUS
<1>5. \A o \in {"none", "waiting", "timedOut", "ended"} :
        /\ [s EXCEPT !.order = o] \in Consistent
        /\ [s EXCEPT !.order = o].signedIn = s.signedIn
  OBVIOUS
<1>6. s.signedIn => \A p, c \in BOOLEAN : [s EXCEPT !.plan = p, !.channel = c] \in Consistent
  OBVIOUS
<1> QED
  BY <1>1, <1>2, <1>3, <1>4, <1>5, <1>6

LEMMA FreeIsFree == \A q \in AccountRequest : q # ProAccount!Free
BY DEF AccountRequest, ProAccount!Free

LEMMA InitAccount == ASSUME ProAccount!ProInit PROVE AccountInv /\ AccountRest
<1>1. account \in Consistent
  BY DEF ProAccount!ProInit, ProAccount!SignedOut, Consistent, ProAccount!Status
<1>2. accountEvents \in Seq(Consistent) /\ reqs \in [Req -> AccountRequest \cup {ProAccount!Free}]
  BY DEF ProAccount!ProInit
<1>3. AccountRest
  <2>1. 0 \in 0 .. MaxOps /\ 0 \in 0 .. MaxFaults
    BY ClientAssumption DEF ProAccount!ProAssumption
  <2> QED
    BY <2>1 DEF ProAccount!ProInit, AccountRest
<1> QED
  BY <1>1, <1>2, <1>3 DEF ProAccount!ProInit, AccountInv

-----------------------------------------------------------------------------
(* What the core makes of its status, and tells. *)

LEMMA RefreshedStatus ==
  ASSUME NEW s \in Consistent, paid' \in BOOLEAN, stored' \in BOOLEAN
  PROVE  ProAccount!Refreshed(s) \in Consistent
<1>1. CASE s.signedIn /\ net
  BY <1>1, StatusChanged DEF ProAccount!Refreshed
<1>2. CASE ~(s.signedIn /\ net)
  BY <1>2 DEF ProAccount!Refreshed
<1> QED
  BY <1>1, <1>2

\* Only of an account that is signed in: the cloud answers nobody else.
LEMMA AppliedStatus ==
  ASSUME account \in Consistent, account.signedIn, paid' \in BOOLEAN, stored' \in BOOLEAN, NEW how
  PROVE  ProAccount!Applied(how) \in Consistent
<1> DEFINE o == IF account.order \in ProAccount!Open /\ how # "pending" THEN "ended" ELSE account.order
           s == [account EXCEPT !.plan = paid', !.order = o]
<1>1. o \in {"none", "waiting", "timedOut", "ended"}
  BY DEF Consistent, ProAccount!Status
<1> HIDE DEF o
<1>2. s \in Consistent
  BY <1>1 DEF Consistent, ProAccount!Status
<1>3. ProAccount!Applied(how) \in {account, s, ProAccount!Refreshed(s)}
  BY DEF ProAccount!Applied, o
<1> HIDE DEF s
<1> QED
  BY <1>2, <1>3, RefreshedStatus

LEMMA ResultStatus ==
  ASSUME account \in Consistent, paid' \in BOOLEAN, stored' \in BOOLEAN,
         NEW op \in ProAccount!Op, ~ProAccount!Refuses(op), NEW saved \in BOOLEAN, NEW how
  PROVE  ProAccount!Result(op, saved, how) \in Consistent
<1>1. op = "order" => account.signedIn
  BY DEF ProAccount!Refuses, ProAccount!Signed
<1>2. CASE op \in {"signOut", "revokeSelf"}
  BY <1>2, StatusChanged, SignedOutStatus DEF ProAccount!Result
<1>3. CASE op = "order"
  BY <1>1, <1>3, AppliedStatus DEF ProAccount!Result
<1>4. CASE op \in {"stopWaiting", "forwarding", "dismissNotice", "status"}
  BY <1>4, StatusChanged DEF ProAccount!Result
<1>5. CASE op \notin {"signOut", "revokeSelf", "order", "stopWaiting", "forwarding",
                      "dismissNotice", "status"}
  BY <1>5, RefreshedStatus DEF ProAccount!Result
<1> QED
  BY <1>2, <1>3, <1>4, <1>5

LEMMA TellsStatus ==
  ASSUME AccountInv, NEW s \in Consistent, ProAccount!Tell(s) \/ UNCHANGED accountEvents
  PROVE  accountEvents' \in Seq(Consistent)
BY DEF AccountInv, ProAccount!Tell

LEMMA Requests ==
  ASSUME AccountInv, NEW r \in Req, NEW q \in AccountRequest \cup {ProAccount!Free},
         reqs' = [reqs EXCEPT ![r] = q]
  PROVE  reqs' \in [Req -> AccountRequest \cup {ProAccount!Free}]
BY DEF AccountInv

LEMMA AsksStatus ==
  ASSUME AccountInv, NEW r \in Req, NEW op \in ProAccount!Op, NEW saved \in BOOLEAN,
         NEW back \in Consistent, ProAccount!Ask(r, op, saved, back)
  PROVE  reqs' \in [Req -> AccountRequest \cup {ProAccount!Free}]
<1> DEFINE q == [op |-> op, pc |-> "asked", status |-> ProAccount!Nothing, saved |-> saved,
                 back |-> back]
<1>1. q \in AccountRequest
  BY SignedOutStatus DEF AccountRequest
<1>2. reqs' = [reqs EXCEPT ![r] = q]
  BY DEF ProAccount!Ask
<1> HIDE DEF q
<1> QED
  BY <1>1, <1>2, Requests

-----------------------------------------------------------------------------
(* Steps. *)

LEMMA UserAccount ==
  ASSUME AccountInv, AccountRest, NEW r \in Req, ProAccount!User(r)
  PROVE  AccountInv' /\ AccountRest'
<1>1. ASSUME ops < MaxOps, ops' = ops + 1, UNCHANGED <<paid, stored, net, accountOnline, faults>>
      PROVE  AccountRest'
  <2>1. ops' \in 0 .. MaxOps
    BY <1>1, ClientAssumption DEF AccountRest, ProAccount!ProAssumption
  <2> QED
    BY <1>1, <2>1 DEF AccountRest
<1>2. ASSUME NEW op \in ProAccount!Op, ProAccount!UserAsks(r, op)
      PROVE  AccountInv' /\ AccountRest'
  <2>1. reqs' \in [Req -> AccountRequest \cup {ProAccount!Free}]
    BY <1>2, AsksStatus, SignedOutStatus DEF ProAccount!UserAsks
  <2> QED
    BY <1>1, <1>2, <2>1 DEF ProAccount!UserAsks, AccountInv
<1>3. CASE ProAccount!SaveForwarding(r)
  <2>1. cloud' \in Consistent /\ (~cloud.fw) \in BOOLEAN
    BY <1>3, StatusChanged DEF ProAccount!SaveForwarding, AccountInv
  <2>2. reqs' \in [Req -> AccountRequest \cup {ProAccount!Free}]
    BY <1>3, <2>1, AsksStatus DEF ProAccount!SaveForwarding, AccountInv, ProAccount!Op
  <2> QED
    BY <1>1, <1>3, <2>1, <2>2 DEF ProAccount!SaveForwarding, AccountInv
<1>4. (\E op \in ProAccount!Op : ProAccount!UserAsks(r, op)) \/ ProAccount!SaveForwarding(r)
  BY DEF ProAccount!User, ProAccount!RefreshAccount, ProAccount!SignOut, ProAccount!Buy,
    ProAccount!CheckOrder, ProAccount!StopWaiting, ProAccount!AddChannel, ProAccount!TestChannel,
    ProAccount!DeleteChannel, ProAccount!RevokeDevice, ProAccount!DismissNotice, ProAccount!Op
<1> QED
  BY <1>2, <1>3, <1>4

LEMMA HandleAccount ==
  ASSUME AccountInv, AccountRest, NEW r \in Req, ProAccount!Handle(r)
  PROVE  AccountInv' /\ AccountRest'
<1> DEFINE q == reqs[r]
<1>1. q \in AccountRequest /\ q.op \in ProAccount!Op /\ q.saved \in BOOLEAN
  BY DEF ProAccount!Handle, AccountInv, AccountRequest
<1>2. PICK how : /\ paid' = (paid \/ how = "paid")
                 /\ account' = ProAccount!Result(q.op, q.saved, how)
  BY DEF ProAccount!Handle
<1>3. paid' \in BOOLEAN
  BY <1>2
<1>4. stored' \in BOOLEAN
  BY DEF ProAccount!Handle, AccountRest
<1>5. account' \in Consistent
  BY <1>1, <1>2, <1>3, <1>4, ResultStatus DEF ProAccount!Handle, AccountInv
<1>6. accountEvents' \in Seq(Consistent)
  BY <1>5, TellsStatus DEF ProAccount!Handle
<1>7. reqs' \in [Req -> AccountRequest \cup {ProAccount!Free}]
  <2>1. PICK s \in Consistent : reqs' = [reqs EXCEPT ![r] = [[@ EXCEPT !.pc = "answered"] EXCEPT !.status = s]]
    BY <1>1, <1>5, SignedOutStatus DEF ProAccount!Handle, AccountInv
  <2>2. [[q EXCEPT !.pc = "answered"] EXCEPT !.status = s] \in AccountRequest
    BY <1>1, <2>1 DEF AccountRequest
  <2> QED
    BY <2>1, <2>2, Requests
<1> QED
  BY <1>3, <1>4, <1>5, <1>6, <1>7 DEF ProAccount!Handle, AccountInv, AccountRest

\* The two steps of a checkout, and a payment that is required.
LEMMA CheckoutAccount ==
  ASSUME AccountInv, AccountRest, NEW r \in Req,
         ProAccount!Granted(r) \/ ProAccount!StoreOrder(r) \/ ProAccount!PaymentRequired(r)
  PROVE  AccountInv' /\ AccountRest'
<1> DEFINE q == reqs[r]
<1>1. q \in AccountRequest
  BY DEF ProAccount!Granted, ProAccount!StoreOrder, ProAccount!PaymentRequired, AccountInv
<1>2. CASE ProAccount!Granted(r)
  <2> DEFINE g == [q EXCEPT !.pc = "granted"]
  <2>1. g \in AccountRequest /\ reqs' = [reqs EXCEPT ![r] = g]
    BY <1>1, <1>2 DEF AccountRequest, ProAccount!Granted
  <2> HIDE DEF g
  <2>2. reqs' \in [Req -> AccountRequest \cup {ProAccount!Free}]
    BY <2>1, Requests
  <2> QED
    BY <1>2, <2>2 DEF ProAccount!Granted, AccountInv, AccountRest
<1>3. CASE ProAccount!StoreOrder(r)
  <2>1. account' \in Consistent
    BY <1>3, StatusChanged DEF ProAccount!StoreOrder, AccountInv
  <2>2. accountEvents' \in Seq(Consistent)
    BY <1>3, <2>1, TellsStatus DEF ProAccount!StoreOrder
  <2> DEFINE g == [[q EXCEPT !.pc = "answered"] EXCEPT !.status = account']
  <2>3. g \in AccountRequest
    BY <1>1, <2>1 DEF AccountRequest
  <2>4. reqs' = [reqs EXCEPT ![r] = g]
    BY <1>3 DEF ProAccount!StoreOrder, AccountInv
  <2> HIDE DEF g
  <2>5. reqs' \in [Req -> AccountRequest \cup {ProAccount!Free}]
    BY <2>3, <2>4, Requests
  <2> QED
    BY <1>3, <2>1, <2>2, <2>5 DEF ProAccount!StoreOrder, AccountInv, AccountRest
<1>4. CASE ProAccount!PaymentRequired(r)
  <2>1. account' \in Consistent
    BY <1>4, StatusChanged DEF ProAccount!PaymentRequired, AccountInv
  <2>2. accountEvents' \in Seq(Consistent)
    BY <1>4, <2>1, TellsStatus DEF ProAccount!PaymentRequired
  <2> DEFINE g == [[q EXCEPT !.pc = "failed"] EXCEPT !.status = ProAccount!Nothing]
  <2>3. g \in AccountRequest
    BY <1>1, SignedOutStatus DEF AccountRequest
  <2>4. reqs' = [reqs EXCEPT ![r] = g]
    BY <1>4 DEF ProAccount!PaymentRequired, AccountInv
  <2> HIDE DEF g
  <2>5. reqs' \in [Req -> AccountRequest \cup {ProAccount!Free}]
    BY <2>3, <2>4, Requests
  <2> QED
    BY <1>4, <2>1, <2>2, <2>5 DEF ProAccount!PaymentRequired, AccountInv, AccountRest
<1> QED
  BY <1>2, <1>3, <1>4

LEMMA FailsAccount ==
  ASSUME AccountInv, NEW r \in Req, reqs[r] # ProAccount!Free, ProAccount!Fails(r)
  PROVE  AccountInv'
<1> DEFINE q == [[reqs[r] EXCEPT !.pc = "failed"] EXCEPT !.status = ProAccount!Nothing]
<1>1. reqs[r] \in AccountRequest
  BY DEF AccountInv
<1>2. q \in AccountRequest
  BY <1>1, SignedOutStatus DEF AccountRequest
<1>3. reqs' = [reqs EXCEPT ![r] = q]
  BY DEF ProAccount!Fails, AccountInv
<1> HIDE DEF q
<1> QED
  BY <1>2, <1>3, Requests DEF ProAccount!Fails, AccountInv

LEMMA OneFault ==
  ASSUME AccountRest, faults < MaxFaults, faults' = faults + 1,
         paid' \in BOOLEAN, stored' \in BOOLEAN, net' \in BOOLEAN, accountOnline' \in BOOLEAN,
         UNCHANGED ops
  PROVE  AccountRest'
<1>1. faults' \in 0 .. MaxFaults
  BY ClientAssumption DEF AccountRest, ProAccount!ProAssumption
<1> QED
  BY <1>1 DEF AccountRest

LEMMA WindowAccount ==
  ASSUME AccountInv, AccountRest, NEW r \in Req,
         ProAccount!Answered(r) \/ ProAccount!Failed(r) \/ ProAccount!SocketOpens(r)
  PROVE  AccountInv' /\ AccountRest'
<1> DEFINE q == reqs[r]
<1>1. CASE ProAccount!Answered(r)
  <2>1. q \in AccountRequest /\ q.status \in Consistent
    BY <1>1 DEF ProAccount!Answered, AccountInv, AccountRequest
  <2>2. reqs' \in [Req -> AccountRequest \cup {ProAccount!Free}]
    BY <1>1, Requests DEF ProAccount!Answered
  <2> QED
    BY <1>1, <2>1, <2>2 DEF ProAccount!Answered, AccountInv, AccountRest
<1>2. CASE ProAccount!Failed(r)
  <2> DEFINE again == [[q EXCEPT !.op = "status"] EXCEPT !.pc = "asked"]
  <2>1. q \in AccountRequest /\ q.back \in Consistent
    BY <1>2 DEF ProAccount!Failed, AccountInv, AccountRequest
  <2>2. again \in AccountRequest
    BY <2>1 DEF AccountRequest, ProAccount!Op
  <2>3. \/ reqs' = [reqs EXCEPT ![r] = again]
        \/ reqs' = [reqs EXCEPT ![r] = ProAccount!Free]
    BY <1>2 DEF ProAccount!Failed, AccountInv
  <2> HIDE DEF again
  <2>4. reqs' \in [Req -> AccountRequest \cup {ProAccount!Free}]
    BY <2>2, <2>3, Requests
  <2> QED
    BY <1>2, <2>1, <2>4 DEF ProAccount!Failed, AccountInv, AccountRest
<1>3. CASE ProAccount!SocketOpens(r)
  <2>1. reqs' \in [Req -> AccountRequest \cup {ProAccount!Free}]
    BY <1>3, AsksStatus, SignedOutStatus DEF ProAccount!SocketOpens, ProAccount!Op
  <2> QED
    BY <1>3, <2>1 DEF ProAccount!SocketOpens, AccountInv, AccountRest
<1> QED
  BY <1>1, <1>2, <1>3

LEMMA NextAccount ==
  ASSUME AccountInv, AccountRest, [ProAccount!ProNext]_accountVars
  PROVE  AccountInv' /\ AccountRest'
<1>1. CASE UNCHANGED accountVars
  BY <1>1 DEF accountVars, AccountInv, AccountRest
<1>2. ASSUME NEW r \in Req,
             \/ ProAccount!User(r) \/ ProAccount!Handle(r) \/ ProAccount!Granted(r)
             \/ ProAccount!StoreOrder(r) \/ ProAccount!PaymentRequired(r)
      PROVE  AccountInv' /\ AccountRest'
  BY <1>2, UserAccount, HandleAccount, CheckoutAccount
<1>3. ASSUME NEW r \in Req, ProAccount!Refuse(r)
      PROVE  AccountInv' /\ AccountRest'
  BY <1>3, FailsAccount DEF ProAccount!Refuse, ProAccount!Fails, AccountRest
<1>4. ASSUME NEW r \in Req, ProAccount!Lose(r)
      PROVE  AccountInv' /\ AccountRest'
  BY <1>4, FailsAccount, OneFault DEF ProAccount!Lose, ProAccount!Fails, AccountRest
<1>5. ASSUME NEW r \in Req,
             ProAccount!Answered(r) \/ ProAccount!Failed(r) \/ ProAccount!SocketOpens(r)
      PROVE  AccountInv' /\ AccountRest'
  BY <1>5, WindowAccount
<1>6. CASE ProAccount!PeriodicRefresh
  <2>1. account' \in Consistent
    BY <1>6, RefreshedStatus DEF ProAccount!PeriodicRefresh, AccountInv, AccountRest
  <2>2. accountEvents' \in Seq(Consistent)
    BY <1>6, <2>1, TellsStatus DEF ProAccount!PeriodicRefresh
  <2> QED
    BY <1>6, <2>1, <2>2 DEF ProAccount!PeriodicRefresh, AccountInv, AccountRest
<1>7. CASE ProAccount!OrderEnds
  <2>1. stored' \in BOOLEAN /\ paid' \in BOOLEAN
    BY <1>7 DEF ProAccount!OrderEnds, AccountRest
  <2>2. (account.signedIn /\ \E how : account' = ProAccount!Applied(how))
          => account' \in Consistent
    BY <2>1, AppliedStatus DEF AccountInv
  <2>3. account' \in Consistent
    BY <1>7, <2>2, StatusChanged DEF ProAccount!OrderEnds, AccountInv
  <2>4. accountEvents' \in Seq(Consistent)
    BY <1>7, <2>3, TellsStatus DEF ProAccount!OrderEnds
  <2> QED
    BY <1>7, <2>1, <2>3, <2>4 DEF ProAccount!OrderEnds, AccountInv, AccountRest
<1>8. CASE ProAccount!SignedOutByCloud
  <2>1. account' \in Consistent
    BY <1>8, StatusChanged, SignedOutStatus DEF ProAccount!SignedOutByCloud, AccountInv
  <2>2. accountEvents' \in Seq(Consistent)
    BY <1>8, <2>1, TellsStatus DEF ProAccount!SignedOutByCloud
  <2>3. AccountRest'
    BY <1>8, OneFault DEF ProAccount!SignedOutByCloud, AccountRest
  <2> QED
    BY <1>8, <2>1, <2>2, <2>3 DEF ProAccount!SignedOutByCloud, AccountInv
<1>9. CASE ProAccount!PlanRunsOut \/ ProAccount!CloudComesAndGoes
  <2>1. AccountRest'
    BY <1>9, OneFault DEF ProAccount!PlanRunsOut, ProAccount!CloudComesAndGoes, AccountRest
  <2> QED
    BY <1>9, <2>1 DEF ProAccount!PlanRunsOut, ProAccount!CloudComesAndGoes, AccountInv
<1>10. CASE ProAccount!OnCloudEvent
  <2>1. cloud' \in Consistent /\ accountEvents' \in Seq(Consistent)
    BY <1>10 DEF ProAccount!OnCloudEvent, AccountInv
  <2> QED
    BY <1>10, <2>1 DEF ProAccount!OnCloudEvent, AccountInv, AccountRest
<1>11. CASE ProAccount!SocketBreaks
  <2>1. AccountRest'
    BY <1>11, OneFault DEF ProAccount!SocketBreaks, AccountRest
  <2> QED
    BY <1>11, <2>1 DEF ProAccount!SocketBreaks, AccountInv
<1> QED
  BY <1>1, <1>2, <1>3, <1>4, <1>5, <1>6, <1>7, <1>8, <1>9, <1>10, <1>11 DEF ProAccount!ProNext, ProAccount!Core

-----------------------------------------------------------------------------
(***************************************************************************)
(* The client: every part keeps its invariant while the others rest.       *)
(***************************************************************************)

ClientInv ==
  /\ UpdInv /\ ShellInv /\ ConnectInv /\ TermInv /\ HwSyncInv
  /\ ScreenInv /\ Navigated /\ ExecInv /\ FilesInv /\ SignInInv /\ SignInTypeOK
  /\ AccountInv /\ AccountRest /\ OrderInv /\ ImportsInv /\ FeedInv

LEMMA InitClient == Init => ClientInv
<1> SUFFICES ASSUME Init PROVE ClientInv
  OBVIOUS
<1>1. UpdInv /\ ShellInv /\ ConnectInv /\ TermInv /\ HwSyncInv
  BY ClientAssumption, InitUpd, InitShell, InitConnectInv, InitTerm, InitHwSync
    DEF Init, ClientAssumption
<1>2. ScreenInv /\ Navigated /\ ExecInv /\ FilesInv /\ SignInInv /\ SignInTypeOK
  BY ClientAssumption, InitScreenInv, InitNavigated, InitExecInv, InitFiles, InitSignIn,
    InitSignInTypes DEF Init, ClientAssumption
<1>3. AccountInv /\ AccountRest /\ OrderInv /\ ImportsInv /\ FeedInv
  BY ClientAssumption, InitAccount, InitOrderInv, InitImports, InitFeed DEF Init, ClientAssumption
<1> QED
  BY <1>1, <1>2, <1>3 DEF ClientInv

LEMMA NextClient == ASSUME ClientInv, [Next]_vars PROVE ClientInv'
<1>1. UpdInv' /\ ShellInv' /\ ConnectInv' /\ TermInv' /\ HwSyncInv'
  BY ClientAssumption, PartsStep, NextUpd, NextShell, NextConnectInv, NextTerm, NextHwSync
    DEF ClientInv, ClientAssumption
<1>2. ScreenInv' /\ Navigated' /\ ExecInv' /\ FilesInv' /\ SignInInv' /\ SignInTypeOK'
  BY ClientAssumption, PartsStep, NextScreenInv, NextNavigated, NextExecInv, NextFiles,
    NextSignIn, NextSignInTypes DEF ClientInv, ClientAssumption
<1>3. AccountInv' /\ AccountRest' /\ OrderInv' /\ ImportsInv' /\ FeedInv'
  BY ClientAssumption, PartsStep, NextAccount, NextOrderInv, NextImports, NextFeed
    DEF ClientInv, ClientAssumption
<1> QED
  BY <1>1, <1>2, <1>3 DEF ClientInv

\* Each part keeps its inductive invariant in the specification the run checks.
THEOREM ClientSafe == Spec => []ClientInv
<1>1. ClientInv /\ [Next]_vars => ClientInv'
  BY NextClient
<1> QED
  BY <1>1, InitClient, PTL DEF Spec

\* The state of every part keeps its types: the main process never knows a window that
\* is gone, and the account's requests, answers and events carry statuses.
THEOREM ClientTypeCorrect == Spec => []ClientTypeOK
<1>1. ClientInv => ClientTypeOK
  <2> SUFFICES ASSUME ClientInv PROVE ClientTypeOK
    OBVIOUS
  <2>1. UpdTypeOK /\ Shell!TypeOK /\ ConnTypeOK /\ TermTypeOK /\ HwTypeOK
    BY UpdTypes, ShellTypes DEF ClientInv, ConnectInv, TermInv, HwSyncInv, Spins
  <2>2. ScreenTypeOK /\ ExecTypeOK /\ FilesTypeOK /\ SignInTypeOK
    BY ScreenTypes DEF ClientInv, ExecInv, FilesInv
  <2>3. ProAccount!ProTypeOK /\ ImportsTypeOK /\ FeedTypeOK
    BY AccountTypes DEF ClientInv, ImportsInv, FeedInv
  <2> QED
    BY <2>1, <2>2, <2>3 DEF ClientTypeOK
<1> QED
  BY <1>1, ClientSafe, PTL

\* What a part's theorem says of its own specification holds where it is checked too.
THEOREM ClientKeepsInvariants ==
  Spec => []( /\ RestartInstallsIt /\ SecretStaysWithHost /\ PromptHasWaiter
              /\ ActiveIsOpen /\ TitlesDiffer /\ CommandRunsOnce /\ SpinnerWhileAsked
              /\ ButtonComesBack /\ OneRequestPerDialog
              /\ DoneShowsAll /\ LimitOfShownEmail /\ ImportsWhatWasShown /\ NotifiedOnce
              /\ OnePoller )
<1>1. ClientInv =>
        /\ RestartInstallsIt /\ SecretStaysWithHost /\ PromptHasWaiter
        /\ ActiveIsOpen /\ TitlesDiffer /\ CommandRunsOnce /\ SpinnerWhileAsked
        /\ ButtonComesBack /\ OneRequestPerDialog
        /\ DoneShowsAll /\ LimitOfShownEmail /\ ImportsWhatWasShown /\ NotifiedOnce
        /\ OnePoller
  BY DoneFollows DEF ClientInv, UpdInv, ConnectInv, TermInv, HwSyncInv, Spins, ScreenInv, SignInInv,
    ImportsInv, FeedInv, OrderInv
<1> QED
  BY <1>1, ClientSafe, PTL

\* So does the action property: an upload that is not asked about never takes a name
\* that was listed.
THEOREM ClientKeepsSteps == Spec => NeverOverwritesListed
<1>1. ClientInv /\ [Next]_vars =>
        [\A w \in Work :
           listed /\ work[w] = NoWork /\ work'[w].kind = "upload" /\ work'[w].pc = "sending" =>
             work'[w].file[2] \notin lastSeen[work'[w].file[1]]]_filesVars
  BY PartsStep, NewUpload DEF ClientInv
<1> QED
  BY <1>1, ClientSafe, PTL DEF Spec, NeverOverwritesListed

\* The core's end is noticed in every state: the app is gone, or the listener that ends
\* it is still registered (core.once("exit") of main.ts), or an update is installing.
THEOREM DeadCoresAreNoticed == Spec => []DeadCoreIsNoticed
<1>1. ClientInv => DeadCoreIsNoticed
  BY DEF ClientInv, ShellInv
<1> QED
  BY <1>1, ClientSafe, PTL

\* A plan or a channel is of somebody who is signed in, in the core, in the window and in
\* all that travels between them, whatever order it arrives in and whatever a refused
\* switch puts back (setCloud, saveForwarding, signOut, react).  An order is not: one
\* that was created while the account was signed out is stored all the same (Checkout).
THEOREM SignedOutHasNothing == Spec => [](account \in Consistent /\ cloud \in Consistent)
<1>1. ClientInv => account \in Consistent /\ cloud \in Consistent
  BY DEF ClientInv, AccountInv
<1> QED
  BY <1>1, ClientSafe, PTL

=============================================================================
