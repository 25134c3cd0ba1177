------------------------------ MODULE LiveFeed ------------------------------
(***************************************************************************)
(* What the window shows of a monitored host while it runs (store.ts:      *)
(* refreshStatus, pushMetric to seedLive, the "status", "status_removed",  *)
(* "metric" and "alert" events, queueNotification; metrics.ts;             *)
(* subscribeEvents of api.ts).  The core polls the host, streams ticks of  *)
(* its metrics and raises alerts; each is an event on one socket.  When    *)
(* the socket opens, the state is also asked for, on another connection.   *)
(***************************************************************************)
EXTENDS Naturals, Sequences

CONSTANTS
  MaxPolls, MaxTicks, MaxAlerts,  \* bounds: results that differ, ticks, alerts
  Cap,                            \* points kept in the window (LIVE_CAP)
  MaxFeed,                        \* events the hub holds for a window; more are dropped
  MaxDrops                        \* bound: times the socket breaks

\* What the constants must satisfy: boot has a result, and the ring has room.
FeedAssumption ==
  /\ {MaxPolls, Cap} \subseteq Nat \ {0}
  /\ {MaxTicks, MaxAlerts, MaxFeed, MaxDrops} \subseteq Nat

VARIABLES
  polled,     \* the core's last result; 0 when the host is not monitored any more
  tick,       \* the stream's last tick
  raised,     \* alerts raised
  feed,       \* events on their way
  answers,    \* answers to refreshStatus on their way
  feedOnline, \* the socket is open
  shownStatus, \* the result the window shows; 0 without one
  points,     \* the ring of the sparkline; its last element is live.at
  buffered,   \* the tick waiting for the next animation frame, 0 without one
  listedAlerts, \* alerts in the list, in the order received
  waiting,    \*   ... of them those waiting for the notification timer
  notified,   \*   ... and those notified
  drops

feedVars == <<polled, tick, raised, feed, answers, feedOnline, shownStatus, points, buffered,
              listedAlerts, waiting, notified, drops>>

Event == [kind: {"status", "metric", "alert", "removed"}, n: Nat, last: Nat]
\* A result, with the tick its live points end with.
StatusAnswer == [result: 0 .. MaxPolls, last: 0 .. MaxTicks]

FeedTypeOK ==
  /\ polled \in 0 .. MaxPolls /\ tick \in 0 .. MaxTicks /\ raised \in 0 .. MaxAlerts
  /\ feed \in Seq(Event) /\ Len(feed) <= MaxFeed
  /\ answers \subseteq StatusAnswer /\ feedOnline \in BOOLEAN
  /\ shownStatus \in 0 .. MaxPolls
  /\ points \in Seq(1 .. MaxTicks) /\ Len(points) <= Cap
  /\ buffered \in 0 .. MaxTicks
  /\ listedAlerts \in Seq(1 .. MaxAlerts) /\ waiting \in Seq(1 .. MaxAlerts)
  /\ notified \in Seq(1 .. MaxAlerts) /\ drops \in 0 .. MaxDrops

Present == [result |-> polled, last |-> tick]

\* boot: the state is loaded, then the socket opened.
FeedInit ==
  /\ polled = 1 /\ tick = 0 /\ raised = 0
  /\ feed = <<>> /\ answers = {} /\ feedOnline = FALSE
  /\ shownStatus = 1 /\ points = <<>> /\ buffered = 0
  /\ listedAlerts = <<>> /\ waiting = <<>> /\ notified = <<>> /\ drops = 0

windowVars == <<shownStatus, points, buffered, listedAlerts, waiting, notified>>

-----------------------------------------------------------------------------
(* The core (health/monitor.go, health/metrics.go, api/hub.go). *)

\* A window that does not keep up, or is not connected, misses the event.
PublishFeed(kind, n, last) ==
  feed' = IF feedOnline /\ Len(feed) < MaxFeed
          THEN Append(feed, [kind |-> kind, n |-> n, last |-> last]) ELSE feed

\* Every poll publishes its result, also one like the last.
Poll ==
  /\ polled # 0
  /\ polled' \in {polled, polled + 1} /\ polled' <= MaxPolls
  /\ PublishFeed("status", polled', tick)
  /\ UNCHANGED <<tick, raised, answers, feedOnline, windowVars, drops>>

StreamTick ==
  /\ polled # 0 /\ tick < MaxTicks /\ tick' = tick + 1
  /\ PublishFeed("metric", tick', tick')
  /\ UNCHANGED <<polled, raised, answers, feedOnline, windowVars, drops>>

Raise ==
  /\ raised < MaxAlerts /\ raised' = raised + 1
  /\ PublishFeed("alert", raised', 0)
  /\ UNCHANGED <<polled, tick, answers, feedOnline, windowVars, drops>>

\* The host is deleted, or monitored no more.
Unmonitor ==
  /\ polled # 0 /\ polled' = 0
  /\ PublishFeed("removed", 0, 0)
  /\ UNCHANGED <<tick, raised, answers, feedOnline, windowVars, drops>>

-----------------------------------------------------------------------------
(* The window. *)

\* A result's live points replace the ring unless it is as fresh.
Seeded(last) ==
  IF last = 0 \/ (points # <<>> /\ points[Len(points)] >= last) THEN points
  ELSE LET from == IF last > Cap THEN last - Cap ELSE 0
       IN [i \in 1 .. last - from |-> from + i]

Arrives(kind) == feed # <<>> /\ Head(feed).kind = kind /\ feed' = Tail(feed)
coreVars == <<polled, tick, raised>>

\* Mutated form of OnStatus: the result is not taken over.
OnStatusLiveOnly ==
  /\ Arrives("status")
  /\ points' = Seeded(Head(feed).last)
  /\ UNCHANGED <<coreVars, answers, feedOnline, shownStatus, buffered, listedAlerts, waiting, notified, drops>>

OnStatus ==
  /\ Arrives("status")
  /\ shownStatus' = Head(feed).n /\ points' = Seeded(Head(feed).last)
  /\ UNCHANGED <<coreVars, answers, feedOnline, buffered, listedAlerts, waiting, notified, drops>>

OnRemoved ==
  /\ Arrives("removed")
  /\ shownStatus' = 0 /\ points' = <<>>
  /\ UNCHANGED <<coreVars, answers, feedOnline, buffered, listedAlerts, waiting, notified, drops>>

\* Ticks of one animation frame are one update: the last wins.
OnMetric ==
  /\ Arrives("metric")
  /\ buffered' = Head(feed).n
  /\ UNCHANGED <<coreVars, answers, feedOnline, shownStatus, points, listedAlerts, waiting, notified, drops>>

\* A point goes to the end of the ring.
\* Mutated form of Pushed: without the cap.
PushedUncapped(n) == Append(points, n)
Pushed(n) == Append(IF Len(points) < Cap THEN points ELSE Tail(points), n)

FlushMetrics ==
  /\ buffered # 0 /\ buffered' = 0
  /\ points' = Pushed(buffered)
  /\ UNCHANGED <<coreVars, feed, answers, feedOnline, shownStatus, listedAlerts, waiting, notified, drops>>

\* Alerts that come together are one notification; each starts the timer anew.
OnAlert ==
  /\ Arrives("alert")
  /\ listedAlerts' = Append(listedAlerts, Head(feed).n) /\ waiting' = Append(waiting, Head(feed).n)
  /\ UNCHANGED <<coreVars, answers, feedOnline, shownStatus, points, buffered, notified, drops>>

\* Mutated form of FlushNotifications: the batch is kept.
FlushNotificationsAgain ==
  /\ waiting # <<>>
  /\ notified' = notified \o waiting
  /\ UNCHANGED <<coreVars, feed, answers, feedOnline, shownStatus, points, buffered, listedAlerts, waiting, drops>>

FlushNotifications ==
  /\ waiting # <<>>
  /\ notified' = notified \o waiting /\ waiting' = <<>>
  /\ UNCHANGED <<coreVars, feed, answers, feedOnline, shownStatus, points, buffered, listedAlerts, drops>>

\* What the hub held for the window is gone.
FeedBreaks ==
  /\ feedOnline /\ drops < MaxDrops /\ drops' = drops + 1
  /\ feedOnline' = FALSE /\ feed' = <<>>
  /\ UNCHANGED <<coreVars, answers, windowVars>>

\* The status is asked for; the core's answer is what it knows by then.
FeedOpens ==
  /\ ~feedOnline /\ feedOnline' = TRUE
  /\ answers' = answers \cup {Present}
  /\ UNCHANGED <<coreVars, feed, windowVars, drops>>

\* The answer takes the place of what is shown, whatever came since.
StatusLoaded(a) ==
  /\ a \in answers /\ answers' = answers \ {a}
  /\ shownStatus' = a.result /\ points' = IF a.result = 0 THEN points ELSE Seeded(a.last)
  /\ UNCHANGED <<coreVars, feed, feedOnline, buffered, listedAlerts, waiting, notified, drops>>

FeedNext ==
  \/ Poll \/ StreamTick \/ Raise \/ Unmonitor
  \/ OnStatus \/ OnRemoved \/ OnMetric \/ FlushMetrics \/ OnAlert \/ FlushNotifications
  \/ FeedBreaks \/ FeedOpens \/ \E a \in StatusAnswer : StatusLoaded(a)

PollAgain == Poll /\ polled' = polled /\ feed' # feed
EventArrives == OnStatus \/ OnRemoved \/ OnMetric \/ OnAlert

\* The core polls as long as it runs, and now and then the hub has room; events and
\* answers arrive.
LiveFairness ==
  /\ SF_feedVars(PollAgain)
  /\ WF_feedVars(EventArrives)
  /\ WF_feedVars(FeedOpens) /\ WF_feedVars(\E a \in StatusAnswer : StatusLoaded(a))

FeedSpec == FeedInit /\ [][FeedNext]_feedVars /\ LiveFairness

-----------------------------------------------------------------------------
(* Properties. *)

\* Every alert in the list is notified once, in order, however alerts, batches and
\* timers interleave: none is lost with a batch or told twice (queueNotification).
NotifiedOnce == notified \o waiting = listedAlerts

\* As long as a host is monitored, the window ends up showing its last result, whatever
\* events were dropped and answers came late: the next poll puts it right.
StatusSettles == <>(polled = 0) \/ <>[](shownStatus = polled)

=============================================================================
