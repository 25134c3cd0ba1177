# Termward in TLA+

A verification project for Termward, its Go core (`core/`) and its window and
shell (`app/`): TLA+ modules of the concurrent parts, TLC configurations that
check them on small instances, and theorems that TLAPS proves for every instance.
`PROJECT.json` lists the components, the runs, the mutants that show each property
can fail, which source lines every definition stands for, and the hazards the
properties are for.

## 1. The system

Termward keeps SSH connections to a set of servers. One Go process, the core
(`core/internal`), holds all state; the UI (Electron or Capacitor, `app/`) calls
its HTTP API and follows its events over a web socket. A paid plan forwards
alerts to channels through a server, Termward Cloud, which is not in the
repository.

| Component | State | Operations | Hard behaviour |
| --- | --- | --- | --- |
| Hardware checks, `api/hwsched.go`, `runCheck` in `api/hardware.go` | plans (on disk), `queued`, `running`, the last run, `hwBusy`, four slots | `tick`, `job`, `startRun`, `cancelRun`, `runCheck`, `forget` | goroutines cancelled and queued again, checks by hand at the same time, hosts deleted during a check, quitting |
| Hardware results, `api/hardware.go`, `api/hwalerts.go` | one result file per host | save, load, `diffHardware`, alert | a partial result as the next baseline, a file written after deletion |
| Pro client, forwarding, `cloud/service.go`, `cloud/queue.go` | session, plan, inbox channel, queue (on disk), `retryAt`, kicks | `Enqueue`, `accept`, `sendLoop`, `Refresh`, sign-in, sign-out | the session changes between two critical sections; late answers; lost wake-ups; restarts |
| Pro client, pending order, `cloud/service.go` | the order (on disk), `stopOrder`, one goroutine per poll | `Checkout`, `OrderStatus`, `StopWaiting`, `pollOrder` | two pollers, answers for older orders, a timer against an answer |
| Pro client, key and requests, `cloud/client.go`, `sign.go`, `machine.go` | device key, clock offset | sign, send, `creds` | the key is reloaded outside the lock |
| Health monitor, `health/monitor.go`, `eval.go` | a state per host, alerts | `Poll`, `apply`, `prune`, `Mute` | overlapping polls, confirmation, mutes, hosts unmonitored during a poll |
| Live metrics, `health/metrics.go` | a stream per host, a count | `ensure`, `stop`, `run` | stopping and ensuring at once, the cap |
| SSH pool, `sshx/pool.go` | clients, dials under way | `client`, `dial`, `Drop`, `watch`, `CloseAll` | shared dials, jump hosts, `Drop` during a dial |
| Known hosts, `sshx/known.go` | file, pending keys | `Callback`, `Trust` | the pending key changes before it is trusted |
| Store, `store/store.go` | one JSON document | save and delete hosts, keys, snippets, settings | jump loops, keys in use, saving fails |
| Keys, `keys/keys.go`, `api/keys.go` | key files | generate, import, delete, deploy | a switch of the login that is undone |
| Secrets, `secret/` | session copy, keychain | `Get`, `Put`, `Forget` | `Get` against `Forget` |
| API, hub, exec, power, files, import, `api/` | subscribers, jobs | handlers | dropped events, two jobs with one id |
| Wiring, `app/app.go`, `mobile/`, `cmd/` | - | `Start`, `Stop` | order of shutdown |
| Window: connecting, `store.ts` `ensureConnected` | nested calls per flow, one prompt | `ensureConnected`, the two prompts | flows that run at once, jump hosts that ask, retries |
| Window: terminals, `store.ts`, `Terminals.tsx` | tabs, panes, sockets | open, close, reconnect, select | everything changes while a prompt is open |
| Window: layers, `App.tsx`, `Dialogs.tsx`, `HostForm.tsx`, navigation | view, drawer, palette, menu, dialog, its draft and busy flag | navigate, open, submit, Escape, back | requests that outlive their dialog, a component that is kept |
| Window: checks, `store.ts` | `hardware`, `hwPending` | `startHardwareCheck`, `onEvent`, `syncHwRunning` | answers, events and snapshots that are not ordered |
| Window: commands, `Run.tsx`, `store.ts` with `api/exec.go` | jobs | `runExec`, `exec`, `exec_done` | events that are dropped |
| Window: files, `Files.tsx` | path, list, work | `load`, `upload`, rename, delete | overlapping loads |
| Window: Termward Pro, `Pro.tsx` | the form, the account | sign-in, device list, operations of the account | late answers, optimistic switches, lost events |
| Window: import, `Dialogs.tsx` | two sources, ticks | read, tick, import | a read of the file before |
| Window: live feed, `store.ts` | results, points, alerts | `onEvent`, `refreshStatus`, `flushNotifications` | older answers after newer events |
| Electron, `main.ts`, `core.ts`, `update.ts` | windows, tray, the core's process, updates | start, close, quit, check, download | the core dies, several calls wait for one answer |

How they interact: handlers change the store, then tell the pool (`Drop`), the
scheduler (`Wake`, `forget`) and the monitor (`Poll`, `Wake`). Checks of the
scheduler and of people meet in `runCheck`. Monitor and hardware checks raise
alerts, which `app.go` publishes on the hub and gives to the Pro client
(`Enqueue`). Everything the core does is published on the hub. A window has
three channels to the core that are not ordered among each other: the answers to
its requests, the events of one WebSocket, and what it asks for when that socket
opens. The Electron process starts the core, makes windows and ends with either.

What makes the parts correct: one check per host; a run that ends with one
verdict per host; a schedule that forgets nobody; alerts that go to the account
they were raised under, or nowhere; a queue that drains and a sender that does
not oversleep; one poller for the pending order; (planned) alerts on confirmed
changes only; connections that use the present settings; references between
hosts and keys that stay valid. In the window: a secret goes to the host it was
typed for; a dialog is never left with its button disabled and never asks twice;
what is shown catches up with the core; an action is about what the user saw.

## 2. The modules

### HwScheduler, FleetRun (hardware checks)

`HwScheduler.tla` models `hwsched.go` and `runCheck`. An action is one critical
section of `hs.mu`, or one access to `hwBusy` or to the store between two.

| State | Code |
| --- | --- |
| `plan[h]` | `plans[h].NextRun`: unset, due, later (inside a daily period), far (beyond it) |
| `queued[h]`, `running` | the maps of that name; a goroutine stands for its job number |
| `job[p]` | a goroutine of `job` (waiting for a slot, with a slot, in `check`, in `runCheck`, before its last section) or a request by hand |
| `run`, `busy`, `tick` | `hs.run`; `Server.hwBusy`; what `tick` read before its lock |

`TickRead`/`TickPlan` are `tick`; `StartRun`, `CancelRun`; `AcquireSlot`,
`Abandon`, `DropCancelled`, `DropNotDue`, `StartJob`, `Finish` are `job`;
`FindBusy` to `LeaveHost` are `runCheck`, shared by both kinds of callers;
`DeleteHost` and `Forget` are the two ends of `deleteHost`, with any step
between them. `Quit` ends the core's context, `Restart` is a crash or the end of
quitting together with `loadLocked`.

`FleetRun.tla` is the abstract specification: a run is a set of open hosts, each
of which gets one verdict that stays, no other run starts meanwhile, and while
the core is up no host stays open for ever. `HwScheduler` implements it by
`Verdict(h)`: pending, or the list of the run the host is in.

### CloudForward (alerts to the cloud)

Actions are the critical sections of `s.mu`: `accept` is three
(`AcceptCheck`, `AcceptPush`, `AcceptKick`), a send is `Look` (what `sendOnce`
does under the lock), `Send` (reading the credentials and the request) and the
handling of the answer (`SendResults`, `SendGone`, `SendUnpaid`, `SendRefused`,
`SendLater`), a refresh is `RefreshAsk`, then `RefreshApply` or `RefreshGone`,
then `RefreshKick`; `SignIn` and `OrderPaid` oblige a refresh to follow
(`owed`). A sign-in that saw nobody signed in is answered later (`verifying`), also
over a sign-in that came first. Time is what the code compares: an event is resting
(`NextAt` ahead) and old (`queueTTL` over), sending is on hold (`retryAt` ahead). The
server is external: it knows registrations and plans, may change both at any moment,
and answers or fails; a request and its answer are one step, which loses nothing
since whatever the server changes before it answers may also change before the
request. `owner` is a ghost: the session an alert was accepted under.

### CloudOrder (the pending order)

`Checkout` is four steps (ask, fail or store, watch); a poller waits for its
timer or is stopped (`PollStopped`), gives up after thirty minutes (`PollLate`),
or asks (`PollAsk`) and handles the answer. `late` is the thirty minutes. It is
checked as one of the parts of `MCClient`.

### The window and its shell

Each module below is a part of `app/` with what it needs of the core. Actions are
the synchronous stretches of JavaScript between two `await`s (an event handler, or
what follows an answer); an `await` is a place where every other action may come.
The core's answers and, where the module is not about them, the times at which
things change are left open.

* `Connect`: `ensureConnected`. A flow is a stack of calls, since unlocking a jump
  host is a call of its own; `pc` says what its running call waits for.
  `CoreConnects` to `CoreAsksSecret` are the answers to one attempt, `Accept`,
  `Answer` and `Cancel` the user's, `Return` and `Continue` what the code does then.
* `Terminals`: `tabs`, `activeTab` and, for every mounted pane (`<<tab, nonce>>`),
  its socket. `OpenTerminal` and `Opened` are the two halves of `openTerminal`
  around its `await`; likewise `ReconnectTab` and `Reconnected`, which nothing stops
  from being called twice for one tab: `reconnecting` counts the calls. A pane is
  `<<tab, nonce>>`, and another nonce is another component.
* `Screen`: the layers of the window. No layer keeps the keyboard from what is under
  it: `Modal` has no focus trap, so the buttons of the page and of the side bar work
  under a dialog, and Ctrl+N and the others work unless the focus is in the context
  menu (`menuFocused`; an opening dialog or prompt may take it, `FocusMayMove`).
  `ShowDialog` is what React does when the dialog in the store changes: another
  component has fresh state, the same one keeps its busy flag. A request of a dialog
  is a `slot`, with `mine` while the component that asked is mounted.
* `HwSync`: `checking` is the core, reduced to one host; `hwPending` and `running`
  the window. `HwAnswered`, `OnEvent` and `ApplySnapshot` are the three ways in.
  `uncovered` is a history: the calls whose spinner the answer to another took down.
* `ExecJobs`: `startExec` and the hub on one side, `runExec` and `onEvent` on the
  other, `wire` between them; `missed` is a ghost, the jobs with a lost event.
* `Files`: `loads` are the calls of `load` under way, `work` what was asked for;
  `lastSeen` is a ghost, the files each directory had when it was last shown.
* `SignIn`: the form, its request (`asking`), the list of devices (`limit`) and the
  dialog with it. `ProAccount`: the core's status of the account, the window's
  copy, requests and events on their way; all operations of `cloudApi` but the
  sign-in. A checkout is two steps, the signed request (`Granted`) and the storing of
  the order (`StoreOrder`), between which the account may be signed out; a 402 ends
  the plan (`PaymentRequired`), and so does time (`PlanRunsOut`).
* `Imports`: `reads` are the effects of `useImportSource`, `Stale` their cleanup.
* `LiveFeed`: results and ticks are numbered; `buffered` is the tick that waits for
  an animation frame, `waiting` the alerts that wait for the notification timer.
* `AppUpdate`: `electron/update.ts`, the messages to the window, `store.ts` and the
  banner; electron-updater is external, but calls made while it works join it, a
  failure is told once by its event and once for each call, and one of a download may
  take the file that was there before with it. `Shell`: `main.ts`
  and `core.ts`; `page` is `boot` as far as it depends on the core.
* `MCClient` puts these twelve parts and `CloudOrder` together: it extends eleven of
  the modules and instantiates the two whose names would clash (`Shell`,
  `ProAccount`). They share no state in the model, so one part, chosen in the initial
  state, moves while the others rest: the states are the sum of theirs and not the
  product. `Moving` says which parts a run chooses from. What one part does to another
  is in the other's module as something that may happen at any time (`Question` in
  `Screen`, `Opened` and `NotOpened` in `Terminals`, the connection of `Files` and
  `HwSync` are `Connect` from outside).

### The proof modules

`HwSchedulerProofs`, `CloudForwardProofs`, `CloudOrderProofs`, `ConnectProofs`,
`TerminalsProofs`, `ExecJobsProofs`; `WindowProofs`, with a section for each of
`SignIn`, `Imports`, `Files`, `HwSync`, `LiveFeed`, `AppUpdate` and `Screen`; and
`ClientProofs`, about `Shell`, `ProAccount` and the composition. See section 4.

## 3. The runs

| Run | Question | Instance | Result |
| --- | --- | --- | --- |
| `hw_fleet` | queue, running set and run accounts; `HwScheduler` implements `FleetRun`, with its liveness | 2 hosts, 3 goroutines, 1 slot, no schedule | holds, 154,206 states |
| `hw_schedule` | a due host is tried; exclusion; the inductive invariant with schedule and runs together | 1 host, 2 goroutines, 1 request by hand, daily and weekly | holds, 430,800 states |
| `cloud_queue` | queued alerts belong to the account of now | 2 alerts, 2 registrations, queue and batch of 2, one attempt, orders are paid | holds, 2,144,693 states |
| `cloud_leaves` | no lost wake-up without orders; alerts leave the queue | 1 alert, 2 registrations, 2 attempts | holds, 619,806 states |
| `client_ends` | what must end or catch up: updates, shell, connecting, checks, account, order, feed | see below | holds, 276,048 states |
| `client_screen` | what a person works with: terminals, layers, commands, files, sign-in, import | see below | holds, 351,573 states up to symmetry |
| `cloud_next_account` | no alert goes out under the next account | 1 alert, 2 registrations | violated |
| `cloud_wakeup` | no lost wake-up after a payment | 1 alert, 1 registration | violated |
| `cloud_order_waits` | an order does not wait for ever | 1 order, 1 checkout, 2 pollers | violated |
| `client_spinner` | no spinner stays up for good | 1 request, 2 snapshots, 1 check elsewhere | violated |
| `client_job` | a job of the window ends | 1 job, 2 hosts, a channel of 2 | violated |
| `update_retry` | after a failed download the user can retry | 1 version, the check of the start, 1 download | violated |

Why the bounds are enough. Two hosts with one slot make goroutines wait, and
three goroutines let one host have an old, cancelled goroutine and a new one
while another host is being checked. In `hw_schedule` the schedule, a run and a
check by hand compete for one host, and the run takes over a check the schedule had
queued. The failures distinguished are those `finishRunLocked` and `retryDelay` tell
apart: `hw_fleet` has the three that a run counts, `hw_schedule` the one after which a
host is due again soon. Two registrations are an account and the next one, in
whatever time a batch, an answer or a refresh of the first takes; two alerts with a
queue of two give batches answered in part. With one attempt an event no channel
accepts is dropped at once, so retries (`resting`) are in `cloud_leaves`, which has
two attempts. `OrdersPaid` is a bound of the instances: with orders paid the sender
can oversleep (the run `cloud_wakeup` is that behaviour), so the run that shows it
never does otherwise has none. Symmetry is used where no liveness is checked, in
`cloud_queue` (alerts, registrations, refreshes) and in `client_screen` (requests of
dialogs, names of hosts).

The instances of `client_ends` and `client_screen`, which differ in what moves and is asked only.
`Connect`: two flows and two hosts, one the other's jump host, two attempts and one
typed secret, so that flows meet at the prompt and a jump host's call lies over its
caller's. `HwSync`: two requests, one check elsewhere, one snapshot, two events; the
two requests are two presses which may both have passed the check of `hwPending`.
`ProAccount`: two requests, two acts of the user, one fault. `CloudOrder`: two codes
and two checkouts are an order and the one that replaces it; a stopped poller, its
successor and the poller a late answer starts are three. `LiveFeed`: two results, two
alerts, one tick, one break of the socket. `AppUpdate`: two versions, one download,
one check asked for that may join the check of the start (`MaxChecks` is two) and so
share its answer or its failure. `Shell`: two windows.
`Terminals`: two tabs of one host that is renamed between two names, one
reconnection, calls with and without a command: titles are reused after a tab is
closed or its host renamed. `Screen`: one host that may be deleted and made, one kind
of task, two requests: a request of one dialog ends while another is shown.
`ExecJobs`: one job on two hosts with a channel of two places, so that events are
dropped. `Files`: two directories, one name, two loads, one piece of work. `SignIn`:
two addresses, two replacements. `Imports`: two files, one entry. A third of any of
these adds no new kind of meeting: the properties relate at most two of them; the
proofs of section 4 drop the bounds for the safety of every part.

What the properties of these two runs say is in the comments of the modules. Some name
their exceptions, which are behaviours of the code: in the power dialog Enter in the
sudo field starts a second request (`OneRequestPerDialog`); after an installer that
did not start, the app stays although the core is gone (`AppEndsWithCore`); two
presses of "Run check" before the connection is there are both posted, and the answer
to one of them, mostly `hardware_busy`, takes down the spinner of the other
(`SpinnerWhileAsked`, store.ts:913-946); a version that is ready may have lost its
file to a later download that failed, until the message about that arrives
(`RestartInstallsIt`). `WindowCatchesUp` needs the periodic refresh: without it a
refused switch (`setCloud(cloud)`, Pro.tsx:1124) or an old answer would stay.

The violated properties are what the repository's own comments say:

* `NeverUnderNextAccount`. `accept` compares the session again before it queues
  an alert, because it "must not go out under the next" account (service.go:977).
  `sendOnce` does not: between taking the batch (1092) and reading the
  credentials (1102) the account may change.
* `NoLostWakeup` with orders. `sendFailed` says "wait for a payment" (1166);
  `applyOrder` marks the plan active, but only a refresh that succeeds kicks the
  send loop.
* `WaitingEnds`. "Waiting is true while the app polls the order (at most 30
  minutes)" (82); a poll that ends on 404, `not_signed_in` or a revoked device
  leaves it true (884).
* `SpinnerEnds`. A missed `hardware_done` must not leave the spinner up "for good"
  (store.ts:395); a snapshot taken after it is published and before the core
  releases the host does.
* `JobEnds`. A client that loses events "resyncs via REST" (hub.go:30); a job of
  commands cannot be asked for.
* `RetryAfterFailure`. "A failed download drops back to "available" so the user can
  retry" (store.ts:339); but a failed download is told twice (update.ts:96 and
  104-108), and the second error, which finds nothing downloading any more, makes the
  banner idle (store.ts:340), that is, hides it (UpdateBanner.tsx:14).

Fairness. `HwScheduler`: goroutines and `tick` go on; a check ends because its
context has a timeout; taking a slot is strongly fair because Go serves senders
blocked on a channel in their order. `CloudForward`: the goroutines of `Run` go
on, requests end by their timeouts, a kick follows its critical section, time
passes. `CloudOrder`: pollers and checkouts go on, time passes, and restarts do
not for ever come just before the timer of a late poll. The window: the core
answers requests and polls on, checks and commands end by their timeouts, events
are delivered while the socket is up, the socket reconnects (`subscribeEvents`
tries for ever), the user answers a prompt that stays on the screen. Strong
fairness is used where a bound of the instance (a place in a queue) may disable a
step again and again. Nothing else is assumed of
people, of the server's answers, of the network, or that the core is restarted.
`DueIsTried` and `QueuedLeaves` name the circumstances in which they promise
nothing: the core quits, runs are started again and again (each may take the
scheduled check with it when it is cancelled), the plan lapses or the account is
left.

## 4. The proofs

Each proof module proves its theorems for every value of the constants that
satisfies the named assumption of the modelled module. The pattern is the same: an
inductive invariant, one lemma or step per action, under it one step per conjunct
that the action can disturb, and theorems that follow from the invariant. Every
safety invariant and every action property of a passing run is a theorem.

`HwSchedulerProofs` (`HwAssumption`): `TypeCorrect` (`TypeOK`), `Safety`
(`SafetyInv`, the inductive invariant, also checked in `hw_schedule`), and from it
`ChecksExclusive` (`OneCheckPerHost`), `QueuedHostsLive`, `RunningHostsOwned` and
`PendingHostsQueued` (`QueuedIsLive`, `RunningIsOwned`, `PendingIsQueued`),
`AccountsBalance` (`RunAccounting`) and `ConcurrencyBounded`
(`AtMostMaxConcurrent`). Hosts and goroutines are finite sets, goroutines are not
requests, there is at least one slot, settings and failures are those of the
code. That a goroutine which finishes deletes its own entries needs
`RunningIsOwned` (it owns them from `StartJob` on, since `StartJob` compares the
number and nobody takes an entry over while it exists), which in turn needs that
a cancelled run leaves the entries of running hosts alone, hence that `running`
has no stale member. Exclusion needs `CheckHoldsHost`: a check under way holds
its host in `hwBusy`. `AtMostMaxConcurrent` follows from `SlotsBounded`: every
running host is owned by a goroutine that holds a slot, and different hosts by
different goroutines.

`ImplementsRun` is the refinement: `Spec => Fleet!Spec`, under the mapping
`Verdict`, which reads a host's verdict off the list of the run it is in. Since
`RunAccounting` keeps the lists apart, settling a set of hosts changes their
verdicts and nobody else's (`SettledVerdict`); a step that touches `run` then starts
a run, settles a set, quits or restarts, and every other step shows nothing of it.
The run `hw_fleet` checks `Fleet!FairSpec`, the same with its fairness.

`CloudForwardProofs`: `ForwardTypeCorrect` (`TypeOK`: the queue never holds more than
its limit nor a batch more than its own, attempts stay below the maximum); `OwnSafe`
(`OwnInv`), `QueuedAreOwn` (`QueueIsOwn`) and, assuming `~OrdersPaid`,
`NoWakeupIsLost` (`NoLostWakeup`). `OwnInv` says that an alert is in one place
(inbox, `accept`, queue or nowhere) and that what is queued or accepted belongs to
the session `accept` compares with. `NoLostWakeup` is then inductive when
strengthened to `Awake`: a loop that sleeps without a kick on its way has nothing to
send, even while a refresh is owed, because a sign-in starts with an empty queue.
That a full queue has an oldest event to drop, and a new one a place after all
others, is the lemma `Extremes`, by a minimal counterexample (`WFMin`).

`CloudOrderProofs`: `OrderSafe` (`OrderInv`), `OrderTypeCorrect` (`OrderTypeOK`),
`OnePollerAtMost` (`OnePoller`): at most one goroutine is `current`, and every one
not told to stop is.

`ConnectProofs` (`ConnectAssumption`): `ConnectSafe` (`ConnectInv`),
`SecretsStay` (`SecretStaysWithHost`), `PromptsHaveWaiters` (`PromptHasWaiter`).
Only the running call of a flow waits for a prompt, and every call under it waits
for the one above. `CallsNest` makes this precise (`Nested`): each call but the last
is `jumping`, and the next one unlocks the host it was asked about.
`NobodyWaitsForNothing`: a flow that has not returned waits for the core, for its own
prompt on the screen, or was overtaken by another flow's prompt, the exception
`OnlyOvertakenWait` names.

`TerminalsProofs` (`TerminalsAssumption`): `TermSafe` (`TermInv`),
`ActiveStaysOpen` (`ActiveIsOpen`), `TitlesStayDifferent` (`TitlesDiffer`),
`CommandsRunOnce` (`CommandRunsOnce`). That there is a lowest free title is the
pigeonhole principle: fewer tabs than numbers.

`ExecJobsProofs` (`ExecAssumption`): `ExecSafe` (`ExecInv`), `DoneShowsOutcomes`
(`DoneShowsAll`). For a job with no lost event, the last event of a host on the
wire, or else what the window has, is what the core has, and nothing of the job
comes after `exec_done`.

`WindowProofs`, by section:

* `SignIn` (`SignInAssumption`): `LimitIsOfShown` (`LimitOfShownEmail`) from
  `VerifiesShown`: a code being verified is of the address shown, while the code step
  is shown. `SignInTypeCorrect`.
* `Imports` (`ImportsAssumption`): `ImportsSafe`, `ImportsAreShown`
  (`ImportsWhatWasShown`). What is ticked is shown and of the file chosen
  (`ShowsChosen`), because a read that is not stale is (`ReadsChosen`).
* `Files`: `FilesSafe`; `UploadsAskFirst` is the action property
  `NeverOverwritesListed`. The list on the page is the one last seen of its directory
  (`ListIsLastSeen`), and work is begun in a directory that was shown (`WorkIsInDir`).
* `HwSync` (`HwSyncAssumption`): `HwSyncSafe`, `SpinnersStay`
  (`SpinnerWhileAsked`), with the types and `UncoveredAsked`: a call whose spinner was
  taken down is under way still. `RequestsAreTaken`: while the window's last request
  is pending, some request is with the core or answered (`PendingIsAsked`), and the
  host is held for a request only until that is answered (`HostIsHeldFor`).
* `LiveFeed` (`FeedAssumption`): `FeedSafe`, `AlertsAreToldOnce` (`NotifiedOnce`):
  what was told, then what waits for the timer, is the list, in its order.
* `AppUpdate` (`UpdAssumption`): `UpdateSafe`, `UpdTypeCorrect`, `RestartIsOffered`
  (`RestartInstallsIt`). A "ready" message whose version is not on the disk any more
  is followed by that of the version which is, or by the error of the download that
  took it (`Messages`), and no version is shown, asked for or fetched before a check
  found one (`Counts`). `ChecksAreAnswered`: the banner says "checking" only while the
  request, the check or the message that ends it is on its way.
* `Screen` (`ScreenAssumption`): `ScreenSafe` (`ScreenInv`), `ScreenTypeCorrect`,
  `ButtonsComeBack` (`ButtonComesBack`), `RequestsAreSingle` (`OneRequestPerDialog`).
  What carries the invariant: a request of the shown component keeps its button
  disabled, but for the power dialog's (`MineIsBusy`), and where no dialog is shown
  nothing is left of one (`NothingLeft`). Nothing is assumed of which layer the
  keyboard reaches.

`ClientProofs` (`ClientAssumption`, the conjunction of the parts' assumptions) has two
parts of its own. `Shell`: the core's end is noticed in every state, because its
listener is registered with the first window and only quitting closes the core's
input (`Watching`, `DeadCoresAreNoticed`). `ProAccount`: no status of a signed-out
account has a plan or a channel, wherever it is: in the core, the window, on the wire
or kept to be shown again (`Consistent`, `SignedOutHasNothing`); it may have an order,
which a checkout stores whoever is signed in by then. Then the
composition: a move of the client is a step of its part's next-state relation and
leaves the variables of the others unchanged (`PartsStep`), so every part keeps its
invariant (`ClientSafe`), the state its types (`ClientTypeCorrect`, `ClientTypeOK`),
and the invariants and action properties of the runs `client_ends` and `client_screen`
hold of the very specification they check (`ClientKeepsInvariants`, `ClientKeepsSteps`).

Only model-checked are the liveness properties (`DueIsTried`, `QueuedLeaves` and
those of `client_ends`) and the fairness of `FleetRun`: they need
ENABLED, which the prover has no rules for.
Of four of them the safety that makes them possible is proved: whoever waits, waits
for something that is still on its way (`RequestsAreTaken` for `OwnCheckEnds`,
`ChecksAreAnswered` for `CheckEnds`, `NobodyWaitsForNothing` for
`OnlyOvertakenWait`, `DeadCoresAreNoticed` for `AppEndsWithCore`). The violated
properties of the other six runs have no theorem.

## 5. Not modelled, and simplifications

* Failures of writing plans, queue and state to disk: a critical section and its
  save are one step. A crash between the two saves of one section (queue, then
  state) is left out.
* Two results of one send are handled in one step though `react` and
  `sendFailed` each take the lock; the second changes nothing modelled here.
* Hosts are not added in `HwScheduler`: a new one is in the state of one that
  was never monitored.
* What a user chooses to forward is left open in `AcceptCheck`.
* Bounds stand for what has none: identifiers are not used up in the code, queues
  of `HwSync`, `ProAccount` and `LiveFeed` are longer.
* In the window, not modelled: the settings (one draft, saved with one request);
  the banner of a fleet run in the overview, with `startFleetCheck` and
  `hardware_run` (an answer applied after the run's last event can show it as
  active); the badge of the fleet (the last `hardware_host` event of a check by
  hand is published before the host is released, hardware.go:172-174, so it says
  "manual" until the next refresh); the reports, charts, texts, formats and deploy
  scripts; the fields of forms and their validation.
* `WindowCatchesUp` and `StatusCatchesUp` are about an account that stays signed in
  and a host that stays monitored; a window that missed the sign-out is told
  nothing more before its socket reconnects. Alerts raised while it is offline are
  not asked for again.
* Known and not covered in the window: a host form that was edited stays, with what
  was typed, when the form of another server is opened over it, and would be saved
  over that server (HostForm.tsx:72-73; drafts are not modelled); `goBack` looks for
  layers in a fixed order, so it closes a dialog under a palette, and knows neither
  context menus nor the dialogs of a view (store.ts:669-690; modelled but for the
  latter, without a property); an order created while the account was signed out is
  stored and shown (service.go:771; modelled); choosing another file to import from
  and the effect that clears the old list are one step, though a render lies between
  (Dialogs.tsx:632-720).
* Known and not covered in the core: a result file written after its host was
  deleted (hardware.go:189); a late 401 or refresh of an older session applied to
  the present one (service.go:474, 697, modelled, without a property); the device
  key reloaded outside the lock (service.go:432); a level set while alerts are
  muted (monitor.go:389); a stream told to stop that still holds its place
  (metrics.go:118); dials joined under a cancelled context or waiting for each
  other (pool.go:93, 216); a switch of the login undone over an edit
  (keys.go:135); memory changed though saving failed (store.go:235); two jobs with
  one id chosen by callers (exec.go:59).
* Parsing, wording and what happens on remote hosts: no state other parts depend
  on, or I/O.

## 6. Plan

1. Done: `HwScheduler`, `FleetRun`; `CloudForward`, `CloudOrder`; the twelve parts
   of the window and its shell; the proofs of section 4.
2. `Monitor`: polls, `apply`, confirmation, mutes, `prune`, with an abstract
   specification of an alerting level.
3. `Pool`: shared dials with versions of the settings, jump hosts, `Drop`,
   `watch`; `KnownHosts` with it. The instance is two hosts of which one is the
   other's jump host, and two versions of settings.
4. `Store` (references between hosts and keys), `Secret`, `Streamer`, `HwResult`,
   `CloudSession` (the device key).
5. Theorems about the modules of 2 to 4, the refinement of the level first.
