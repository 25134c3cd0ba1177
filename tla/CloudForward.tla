---------------------------- MODULE CloudForward ----------------------------
(***************************************************************************)
(* Forwarding of alerts by the Termward Pro client: the inbox and accept,  *)
(* the queue on disk, the send loop, refreshes of the account, signing in  *)
(* and out, and the answers of the server (external).  Source:             *)
(* core/internal/cloud/service.go and queue.go.                            *)
(*                                                                         *)
(* s.mu makes one action of what the code does under it.  The queue maps   *)
(* its events to their entries, whose at orders them as they were pushed.  *)
(* A session is one registration of this device: a device id and its       *)
(* account.  Times are abstracted to what is compared with now: NextAt is  *)
(* ahead (resting), queueTTL has passed (old), retryAt is ahead (hold).    *)
(* The pending order itself is in CloudOrder; here it is paid at any time.  *)
(***************************************************************************)
EXTENDS Naturals, FiniteSets, Functions

CONSTANTS Alert,        \* alerts that can ever be raised
          Session,      \* registrations of this device that can ever happen
          NoSession, NoAlert,
          Refresher,    \* calls of Refresh in flight at once
          InboxMax,     \* alertInbox
          QueueMax,     \* queueMax
          BatchMax,     \* batchMax
          MaxAttempts,  \* maxAttempts
  OrdersPaid    \* whether a pending order is ever paid (a bound of the instances)

ASSUME CloudAssumption ==
  /\ IsFiniteSet(Alert) /\ IsFiniteSet(Session)
  /\ NoSession \notin Session /\ NoAlert \notin Alert
  /\ OrdersPaid \in BOOLEAN
  /\ {InboxMax, QueueMax, BatchMax, MaxAttempts} \subseteq Nat \ {0}

VARIABLES
  session,    \* st.DeviceID
  inactive,   \* st.PlanInactive
  inbox,      \* the channel s.in
  accepting,  \* accept: where it is, its alert and the session it saw
  queue,      \* s.q: event -> its order, its Attempts, resting, old
  hold,       \* retryAt is ahead
  kick,       \* the channel kickSend
  sender,     \* sendLoop: where it is, its batch, its request
  refresh,    \* the calls of Refresh, and whether signedIn is their caller
  owed,       \* who has yet to call Refresh: signedIn or applyOrder (one at a time)
  leaving,    \* the session SignOut told the server about
  verifying,  \* calls that saw nobody signed in have yet to be answered
  registered, \* external: devices the server knows
  used,       \* external: registrations made so far
  paid,       \* external: devices whose account has an active plan
  raised,     \* alerts raised so far
  owner       \* the session an alert was accepted under

client == <<session, inactive, inbox, accepting, queue, hold,
            kick, sender, refresh, owed, leaving, verifying>>
server == <<registered, used, paid>>
history == <<raised, owner>>
vars == <<client, server, history>>

-----------------------------------------------------------------------------

Entry == [at : Nat \ {0}, tries : 0 .. MaxAttempts - 1, resting : BOOLEAN, old : BOOLEAN]
Queued == DOMAIN queue
Keep(S) == Restrict(queue, S)
EmptyQueue == [a \in {} |-> 0]

NoResult == [kind |-> "none", done |-> {}]
Asleep == [pc |-> "asleep", batch |-> {}, dev |-> NoSession, res |-> NoResult]
NotAccepting == [pc |-> "idle", alert |-> NoAlert, dev |-> NoSession]
NotRefreshing == [pc |-> "idle", active |-> FALSE, signIn |-> FALSE]

Sessions == Session \cup {NoSession}
\* Answers to POST /v1/alerts, and "gone" also to a refresh.
Answer == {"none", "results", "gone", "unpaid", "refused", "later"}

TypeOK ==
  /\ session \in Sessions /\ leaving \in Sessions
  /\ owed \in {"none", "signIn", "order"}
  /\ verifying \in BOOLEAN
  /\ inactive \in BOOLEAN /\ hold \in BOOLEAN /\ kick \in BOOLEAN
  /\ inbox \in SUBSET Alert /\ Cardinality(inbox) <= InboxMax
  /\ accepting \in [pc : {"idle", "push", "kick"}, alert : Alert \cup {NoAlert}, dev : Sessions]
  /\ Queued \in SUBSET Alert /\ Cardinality(Queued) <= QueueMax
  /\ queue \in [Queued -> Entry]
  /\ sender \in [pc : {"asleep", "timed", "look", "sign", "answered"},
                 batch : SUBSET Alert, dev : Sessions,
                 res : [kind : Answer, done : SUBSET Alert]]
  /\ refresh \in [Refresher -> [pc : {"idle", "answered", "gone", "kick"},
                                active : BOOLEAN, signIn : BOOLEAN]]
  /\ registered \in SUBSET Session /\ used \in SUBSET Session /\ paid \in SUBSET Session
  /\ raised \in SUBSET Alert
  /\ owner \in [Alert -> Sessions]

Init ==
  /\ session = NoSession /\ leaving = NoSession /\ verifying = FALSE
  /\ inactive = FALSE /\ hold = FALSE /\ kick = FALSE /\ owed = "none"
  /\ inbox = {} /\ queue = EmptyQueue
  /\ accepting = NotAccepting
  /\ sender = [Asleep EXCEPT !.pc = "look"]
  /\ refresh = [f \in Refresher |-> NotRefreshing]
  /\ registered = {} /\ used = {} /\ paid = {}
  /\ raised = {}
  /\ owner = [a \in Alert |-> NoSession]

-----------------------------------------------------------------------------
(* Signing in and out *)

\* The account's part of the state, and the queue, start anew.  Calls that saw nobody
\* signed in may be under way when somebody is.
Fresh(s) ==
  /\ session' = s
  /\ inactive' = FALSE
  /\ queue' = EmptyQueue
  /\ hold' = FALSE
  /\ verifying' \in IF s = NoSession \/ used' = Session THEN {FALSE} ELSE BOOLEAN

\* SignInVerify or SignInReplace, answered, and signedIn, which goes on with a
\* refresh and a kick.  That nobody was signed in was checked before the server was
\* asked: calls that overlap sign in one after the other.  The server gives the
\* device a new id: the key of the one before was deleted.
SignIn(s) ==
  /\ session = NoSession \/ verifying
  /\ s \in Session \ used
  /\ owed = "none" /\ owed' = "signIn"
  /\ registered' = registered \cup {s}
  /\ used' = used \cup {s}
  /\ Fresh(s)
  /\ UNCHANGED <<inbox, accepting, kick, sender, refresh, leaving, paid, history>>

\* SignOut tells the server, which may not hear it ...
SignOut ==
  /\ session # NoSession /\ leaving = NoSession
  /\ leaving' = session /\ UNCHANGED verifying
  /\ \E R \in {registered, registered \ {session}} : registered' = R /\ paid' = paid \cap R
  /\ UNCHANGED <<owed, session, verifying, inactive, inbox, accepting, queue, hold,
                 kick, sender, refresh, used, history>>

\* ... and forgets the account here (localSignOut), whatever it is by now.
SignedOut ==
  /\ leaving # NoSession
  /\ leaving' = NoSession
  /\ Fresh(NoSession)
  /\ UNCHANGED <<owed, inbox, accepting, kick, sender, refresh, server, history>>

-----------------------------------------------------------------------------
(* From an alert to the queue *)

\* Enqueue: dropped when the inbox is full.
Enqueue(a) ==
  /\ a \notin raised
  /\ raised' = raised \cup {a}
  /\ inbox' = IF Cardinality(inbox) < InboxMax THEN inbox \cup {a} ELSE inbox
  /\ UNCHANGED <<session, verifying, inactive, accepting, queue, hold, kick, sender,
                 refresh, owed, leaving, server, owner>>

\* accept's first critical section: is the alert to be forwarded? What the
\* user chose to forward and whether there is a channel are left open.
AcceptCheck(a) ==
  /\ accepting.pc = "idle"
  /\ a \in inbox
  /\ inbox' = inbox \ {a}
  /\ \/ /\ session # NoSession /\ ~inactive
        /\ accepting' = [pc |-> "push", alert |-> a, dev |-> session]
        /\ owner' = [owner EXCEPT ![a] = session]
     \/ UNCHANGED <<accepting, owner>>
  /\ UNCHANGED <<session, verifying, inactive, queue, hold, kick, sender, refresh,
                 owed, leaving, server, raised>>

Oldest == CHOOSE a \in Queued : \A b \in Queued : queue[a].at <= queue[b].at
After == IF Queued = {} THEN 1
         ELSE 1 + CHOOSE n \in {queue[b].at : b \in Queued} : \A b \in Queued : n >= queue[b].at

\* queue.push, which drops the oldest event beyond queueMax.
Push(a) ==
  LET kept == IF Cardinality(Queued) < QueueMax THEN Queued ELSE Queued \ {Oldest}
  IN queue' = [b \in kept \cup {a} |->
                 IF b = a THEN [at |-> After, tries |-> 0, resting |-> FALSE, old |-> FALSE]
                 ELSE queue[b]]

\* Mutated forms of AcceptPush: without comparing the session; without a kick.
AcceptPushForAny ==
  /\ accepting.pc = "push"
  /\ Push(accepting.alert)
  /\ accepting' = [NotAccepting EXCEPT !.pc = "kick"]
  /\ UNCHANGED <<session, verifying, inactive, inbox, hold, kick, sender, refresh,
                 owed, leaving, server, history>>
AcceptPushQuietly ==
  /\ accepting.pc = "push"
  /\ session = accepting.dev
  /\ Push(accepting.alert)
  /\ accepting' = NotAccepting
  /\ UNCHANGED <<session, verifying, inactive, inbox, hold, kick, sender, refresh,
                 owed, leaving, server, history>>

\* accept's second one: signed out, or in again, meanwhile?
AcceptPush ==
  /\ accepting.pc = "push"
  /\ \/ /\ session = accepting.dev
        /\ Push(accepting.alert)
        /\ accepting' = [NotAccepting EXCEPT !.pc = "kick"]
     \/ /\ session # accepting.dev
        /\ accepting' = NotAccepting
        /\ UNCHANGED queue
  /\ UNCHANGED <<session, verifying, inactive, inbox, hold, kick, sender, refresh,
                 owed, leaving, server, history>>

AcceptKick ==
  /\ accepting.pc = "kick"
  /\ accepting' = NotAccepting
  /\ kick' = TRUE
  /\ UNCHANGED <<session, verifying, inactive, inbox, queue, hold, sender, refresh,
                 owed, leaving, server, history>>

-----------------------------------------------------------------------------
(* sendLoop and sendOnce *)

Wake ==
  /\ \/ sender.pc \in {"asleep", "timed"} /\ kick /\ kick' = FALSE
     \/ sender.pc = "timed" /\ UNCHANGED kick
  /\ sender' = [sender EXCEPT !.pc = "look"]
  /\ UNCHANGED <<session, verifying, inactive, inbox, accepting, queue, hold,
                 refresh, owed, leaving, server, history>>

\* queue.ready: up to batchMax events that are due, oldest first.
Ready(Q) ==
  LET due == {a \in Q : ~queue[a].resting}
  IN {a \in due : Cardinality({b \in due : queue[b].at < queue[a].at}) < BatchMax}

\* What sendOnce decides under the lock, the expired events dropped.
Decide(Q) ==
  IF session = NoSession \/ inactive \/ Q = {} THEN Asleep
  ELSE IF hold \/ Ready(Q) = {} THEN [Asleep EXCEPT !.pc = "timed"]
  ELSE [Asleep EXCEPT !.pc = "sign", !.batch = Ready(Q)]

\* Mutated form of Look: nothing expires.
LookWithoutPrune ==
  /\ sender.pc = "look"
  /\ sender' = Decide(Queued)
  /\ UNCHANGED <<session, verifying, inactive, inbox, accepting, queue, hold, kick,
                 refresh, owed, leaving, server, history>>

Look ==
  /\ sender.pc = "look"
  /\ LET fresh == {a \in Queued : ~queue[a].old}
     IN queue' = Keep(fresh) /\ sender' = Decide(fresh)
  /\ UNCHANGED <<session, verifying, inactive, inbox, accepting, hold, kick,
                 refresh, owed, leaving, server, history>>

\* signed: the credentials are read in a critical section of their own. Not
\* signed in any more: sendFailed waits for a sign-in. Otherwise (external) the
\* server handles the request, or the network fails before or after it did.
\* Done are the events some channel accepted. What changes at the server
\* before it answers may as well change before.
Send ==
  /\ sender.pc = "sign"
  /\ \/ session = NoSession /\ sender' = Asleep
     \/ \E kind \in Answer \ {"none"}, done \in SUBSET sender.batch :
          /\ session # NoSession
          /\ kind = "gone" => session \notin registered
          /\ kind = "unpaid" => session \in registered \ paid
          /\ kind = "results" \/ done # {} => session \in registered \cap paid
          /\ done # {} => kind \in {"results", "later"}
          /\ sender' = [pc |-> "answered", batch |-> sender.batch, dev |-> session,
                        res |-> [kind |-> kind, done |-> done]]
  /\ UNCHANGED <<session, verifying, inactive, inbox, accepting, queue, hold, kick,
                 refresh, owed, leaving, server, history>>

Answered(kind) == sender.pc = "answered" /\ sender.res.kind = kind
LoopAt(pc) == sender' = [Asleep EXCEPT !.pc = pc]

\* Mutated form of SendResults: attempts are not limited.
SendResultsForever ==
  /\ Answered("results")
  /\ queue' = [a \in Queued \ sender.res.done |->
                IF a \in sender.batch
                THEN [queue[a] EXCEPT !.tries = @ + 1, !.resting = TRUE] ELSE queue[a]]
  /\ hold' = FALSE
  /\ LoopAt("look")
  /\ UNCHANGED <<session, verifying, inactive, inbox, accepting, kick, refresh,
                 owed, leaving, server, history>>

\* Every event is answered for, or tried again later: queue.retry drops the
\* ones that used up their attempts.
SendResults ==
  LET again == (sender.batch \ sender.res.done) \cap Queued
      spent == {a \in again : queue[a].tries + 1 >= MaxAttempts}
  IN /\ Answered("results")
     /\ queue' = [a \in Queued \ (sender.res.done \cup spent) |->
                   IF a \in again
                   THEN [queue[a] EXCEPT !.tries = @ + 1, !.resting = TRUE] ELSE queue[a]]
     /\ hold' = FALSE
     /\ LoopAt("look")
     /\ UNCHANGED <<session, verifying, inactive, inbox, accepting, kick, refresh,
                    owed, leaving, server, history>>

\* react, then sendFailed: the device is gone, whichever session that was.
SendGone ==
  /\ Answered("gone")
  /\ Fresh(NoSession)
  /\ LoopAt("asleep")
  /\ UNCHANGED <<inbox, accepting, kick, refresh, owed, leaving, server, history>>

SendUnpaid ==
  /\ Answered("unpaid")
  /\ inactive' = TRUE
  /\ LoopAt("asleep")
  /\ UNCHANGED <<session, verifying, inbox, accepting, queue, hold, kick, refresh,
                 owed, leaving, server, history>>

\* The server refuses one event it names, or all of them.
SendRefused ==
  /\ Answered("refused")
  /\ \E drop \in {{a} : a \in sender.batch} \cup {sender.batch} : queue' = Keep(Queued \ drop)
  /\ LoopAt("look")
  /\ UNCHANGED <<session, verifying, inactive, inbox, accepting, hold, kick,
                 refresh, owed, leaving, server, history>>

\* Rate limits, the network, server errors: everything waits until retryAt.
SendLater ==
  /\ Answered("later")
  /\ hold' = TRUE
  /\ LoopAt("timed")
  /\ UNCHANGED <<session, verifying, inactive, inbox, accepting, queue, kick,
                 refresh, owed, leaving, server, history>>

-----------------------------------------------------------------------------
(* Refresh *)

\* signedIn kicks the send loop after its refresh, however that ended.
Refreshed(call) ==
  IF call.signIn THEN [NotRefreshing EXCEPT !.pc = "kick"] ELSE NotRefreshing

\* Called by refreshLoop, the API, signedIn or applyOrder: the credentials are
\* read, then (external) GET /v1/me has its answer or fails. What changes at
\* the server before it answers may as well change before.
RefreshAsk(f, caller) ==
  /\ refresh[f].pc = "idle"
  /\ caller \in {"none", owed}
  /\ owed' = IF caller = "none" THEN owed ELSE "none"
  /\ LET call == [NotRefreshing EXCEPT !.signIn = caller = "signIn"]
     IN \/ refresh' = [refresh EXCEPT ![f] = Refreshed(call)]
        \/ /\ session # NoSession
           /\ refresh' = [refresh EXCEPT ![f] =
                [call EXCEPT !.pc = IF session \in registered THEN "answered" ELSE "gone",
                             !.active = session \in paid]]
  /\ UNCHANGED <<session, verifying, inactive, inbox, accepting, queue, hold, kick,
                 sender, leaving, server, history>>

RefreshGone(f) ==
  /\ refresh[f].pc = "gone"
  /\ refresh' = [refresh EXCEPT ![f] = Refreshed(refresh[f])]
  /\ Fresh(NoSession)
  /\ UNCHANGED <<inbox, accepting, kick, sender, owed, leaving, server, history>>

\* The answer is applied to the session of now, if there is one.
RefreshApply(f) ==
  /\ refresh[f].pc = "answered"
  /\ IF session = NoSession
     THEN /\ refresh' = [refresh EXCEPT ![f] = Refreshed(refresh[f])]
          /\ UNCHANGED inactive
     ELSE /\ inactive' = ~refresh[f].active
          /\ refresh' = [refresh EXCEPT ![f] =
               IF refresh[f].active THEN [NotRefreshing EXCEPT !.pc = "kick"] ELSE Refreshed(refresh[f])]
  /\ UNCHANGED <<session, verifying, inbox, accepting, queue, hold, kick, sender,
                 owed, leaving, server, history>>

RefreshKick(f) ==
  /\ refresh[f].pc = "kick"
  /\ refresh' = [refresh EXCEPT ![f] = NotRefreshing]
  /\ kick' = TRUE
  /\ UNCHANGED <<session, verifying, inactive, inbox, accepting, queue, hold,
                 sender, owed, leaving, server, history>>

-----------------------------------------------------------------------------
(* Payments, the account elsewhere, time, and restarts *)

\* applyOrder: the pending order was paid and its plan is active; a refresh
\* follows, which may fail. (Pending orders end with their session.)
OrderPaid ==
  /\ OrdersPaid
  /\ session \in paid
  /\ owed = "none" /\ owed' = "order"
  /\ inactive' = FALSE
  /\ UNCHANGED <<session, verifying, inbox, accepting, queue, hold, kick, sender,
                 refresh, leaving, server, history>>

Elapse ==
  /\ \/ hold /\ hold' = FALSE /\ UNCHANGED queue
     \/ /\ \E a \in Queued : queue[a].resting /\ queue' = [queue EXCEPT ![a].resting = FALSE]
        /\ UNCHANGED hold
  /\ UNCHANGED <<session, verifying, inactive, inbox, accepting, kick, sender,
                 refresh, owed, leaving, server, history>>

Expire(a) ==
  /\ a \in Queued /\ ~queue[a].old
  /\ queue' = [queue EXCEPT ![a].old = TRUE]
  /\ UNCHANGED <<session, verifying, inactive, inbox, accepting, hold, kick, sender,
                 refresh, owed, leaving, server, history>>

\* External: paid for, lapsed, or revoked from another device.
AccountChanges(s) ==
  /\ s \in used
  /\ \/ s \in registered /\ paid' \in {paid \cup {s}, paid \ {s}} /\ UNCHANGED registered
     \/ registered' = registered \ {s} /\ paid' = paid \ {s}
  /\ UNCHANGED <<client, used, history>>

\* A crash, or quitting, and the next start: New loads state and queue as the
\* last critical section saved them, and the send loop begins with a look. The
\* first request reads the device key: it may be lost, and creds signs out.
Restart ==
  /\ inbox' = {} /\ accepting' = NotAccepting
  /\ hold' = FALSE /\ kick' = FALSE
  /\ sender' = [Asleep EXCEPT !.pc = "look"]
  /\ refresh' = [f \in Refresher |-> NotRefreshing]
  /\ leaving' = NoSession /\ owed' = "none"
  /\ \/ UNCHANGED <<session, inactive, queue>>
     \/ Fresh(NoSession)
  /\ verifying' = FALSE
  /\ UNCHANGED <<server, history>>

-----------------------------------------------------------------------------

SendStep ==
  \/ Wake \/ Look \/ Send
  \/ SendResults \/ SendGone \/ SendUnpaid \/ SendRefused \/ SendLater

RefreshStep(f) ==
  RefreshGone(f) \/ RefreshApply(f) \/ RefreshKick(f)

Next ==
  \/ \E s \in Session : SignIn(s) \/ AccountChanges(s)
  \/ SignOut \/ SignedOut
  \/ \E a \in Alert : Enqueue(a) \/ AcceptCheck(a) \/ Expire(a)
  \/ AcceptPush \/ AcceptKick
  \/ SendStep
  \/ \E f \in Refresher : RefreshStep(f) \/ \E c \in {"none", owed} : RefreshAsk(f, c)
  \/ OrderPaid \/ Elapse \/ Restart

Spec == Init /\ [][Next]_vars

(***************************************************************************)
(* Fairness.  The goroutines of Run go on, requests end (by their          *)
(* timeouts), kicks follow their critical sections, and time passes.       *)
(* Nothing is assumed of the server's answers, of refreshes being asked    *)
(* for, of people, or of restarts.                                         *)
(***************************************************************************)
Fairness ==
  /\ WF_vars(SendStep) /\ WF_vars(AcceptKick) /\ WF_vars(Elapse)
  /\ \A a \in Alert : WF_vars(Expire(a))
  /\ \A f \in Refresher : WF_vars(RefreshStep(f))

FairSpec == Spec /\ Fairness

-----------------------------------------------------------------------------
(* Properties *)

\* "Nothing queued before this sign-in belongs to this account" (signedIn):
\* what waits in the queue was accepted in the session of now, however often
\* people sign out and in between the two critical sections of accept.
QueueIsOwn == \A a \in Queued : session # NoSession /\ owner[a] = session

\* "until something changes" (sendOnce), "wait for a payment" (sendFailed): when
\* the send loop sleeps without a timer and nobody is about to wake it, there
\* is nothing it could send.
NoLostWakeup ==
  sender.pc = "asleep" /\ ~kick /\ accepting.pc # "kick" /\ owed = "none"
    /\ (\A f \in Refresher : refresh[f].pc # "kick")
  => session = NoSession \/ inactive \/ Queued = {}

\* "nothing is kept forever": an event leaves the queue, sent, given up or
\* expired, whatever the server does, unless the plan lapses or the account
\* is left.
QueuedLeaves ==
  \A a \in Alert : []<>(a \notin Queued \/ inactive \/ session = NoSession)

\* "the alert belongs to that account and must not go out under the next one"
\* (accept): no account's channels get an alert accepted under another.
NeverUnderNextAccount ==
  sender.pc = "answered" => \A a \in sender.res.done : owner[a] = sender.dev

=============================================================================
