----------------------------- MODULE CloudOrder -----------------------------
(***************************************************************************)
(* The pending order of the Termward Pro client: checkout, the goroutine   *)
(* that polls the order, and what cancels it.  Source: Checkout,           *)
(* OrderStatus, StopWaiting, applyOrder, watchOrder and pollOrder in       *)
(* core/internal/cloud/service.go.                                         *)
(*                                                                         *)
(* s.mu makes one action of what the code does under it.  The thirty       *)
(* minutes of orderPollFor are one flag of an order, late.                 *)
(***************************************************************************)
EXTENDS Naturals, FiniteSets

CONSTANTS Code,      \* order codes the server can ever give out
          NoCode,
          Caller,    \* calls of Checkout in flight at once
          Poller     \* goroutines of pollOrder alive at once

ASSUME OrderAssumption == NoCode \notin Code /\ IsFiniteSet(Poller)

VARIABLES
  hasDevice,  \* st.DeviceID is set
  order,     \* st.Order
  checkout,  \* the calls of Checkout
  poller,    \* the goroutines of pollOrder
  current,   \* the pollers s.stopOrder still cancels (at most one)
  issued,    \* external: codes given out
  late       \* codes ordered more than orderPollFor ago

orderVars == <<hasDevice, order, checkout, poller, current, issued, late>>

NoOrder == [code |-> NoCode, status |-> "none", waiting |-> FALSE]
NoPoll == [pc |-> "idle", code |-> NoCode, stop |-> FALSE]
CodeStatus == {"pending", "paid", "closed"}  \* closed: cancelled or expired

OrderTypeOK ==
  /\ hasDevice \in BOOLEAN
  /\ order \in [code : Code, status : CodeStatus, waiting : BOOLEAN] \cup {NoOrder}
  /\ checkout \in [Caller -> {"idle", "asked", "stored"}]
  /\ poller \in [Poller -> [pc : {"idle", "wait", "ask"}, code : Code \cup {NoCode}, stop : BOOLEAN]]
  /\ current \in SUBSET Poller
  /\ issued \in SUBSET Code /\ late \in SUBSET Code

OrdInit ==
  /\ hasDevice \in BOOLEAN
  /\ order = NoOrder
  /\ checkout = [c \in Caller |-> "idle"]
  /\ poller = [p \in Poller |-> NoPoll]
  /\ current = {}
  /\ issued = {} /\ late = {}

-----------------------------------------------------------------------------

\* stopOrder: the context of the current poller ends.
Stopped == [p \in Poller |-> IF p \in current THEN [poller[p] EXCEPT !.stop = TRUE] ELSE poller[p]]

\* localSignOut, by a person or because the device is gone.
SignOut ==
  /\ hasDevice
  /\ hasDevice' = FALSE
  /\ order' = NoOrder
  /\ poller' = Stopped
  /\ current' = {}
  /\ UNCHANGED <<checkout, issued, late>>

SignIn ==
  /\ ~hasDevice
  /\ hasDevice' = TRUE
  /\ order' = NoOrder
  /\ UNCHANGED <<checkout, poller, current, issued, late>>

StopWaiting ==
  /\ order' = NoOrder
  /\ poller' = Stopped
  /\ current' = {}
  /\ UNCHANGED <<hasDevice, checkout, issued, late>>

CheckoutAsk(c) ==
  /\ checkout[c] = "idle"
  /\ hasDevice
  /\ checkout' = [checkout EXCEPT ![c] = "asked"]
  /\ UNCHANGED <<hasDevice, order, poller, current, issued, late>>

CheckoutFails(c) ==
  /\ checkout[c] = "asked"
  /\ checkout' = [checkout EXCEPT ![c] = "idle"]
  /\ UNCHANGED <<hasDevice, order, poller, current, issued, late>>

\* The answer, stored whoever is signed in by now.
CheckoutStore(c, code) ==
  /\ checkout[c] = "asked"
  /\ code \notin issued
  /\ issued' = issued \cup {code}
  /\ order' = [code |-> code, status |-> "pending", waiting |-> TRUE]
  /\ checkout' = [checkout EXCEPT ![c] = "stored"]
  /\ UNCHANGED <<hasDevice, poller, current, late>>

\* Mutated form of Watch: the poller of the order before is not stopped.
WatchWithoutStop ==
  IF order.waiting
  THEN \E p \in Poller :
         /\ poller[p].pc = "idle"
         /\ poller' = [poller EXCEPT ![p] = [pc |-> "wait", code |-> order.code, stop |-> FALSE]]
         /\ current' = {p}
  ELSE UNCHANGED poller /\ current' = {}

\* watchOrder: a poller for the order of now, if it is waited for.
Watch ==
  IF order.waiting
  THEN \E p \in Poller :
         /\ poller[p].pc = "idle"
         /\ poller' = [Stopped EXCEPT ![p] = [pc |-> "wait", code |-> order.code, stop |-> FALSE]]
         /\ current' = {p}
  ELSE poller' = Stopped /\ current' = {}

CheckoutWatch(c) ==
  /\ checkout[c] = "stored"
  /\ checkout' = [checkout EXCEPT ![c] = "idle"]
  /\ Watch
  /\ UNCHANGED <<hasDevice, order, issued, late>>

-----------------------------------------------------------------------------
(* pollOrder *)

End(p) == poller' = [poller EXCEPT ![p] = NoPoll]

\* Cancelled while it waits for the timer.
PollStopped(p) ==
  /\ poller[p].pc = "wait"
  /\ poller[p].stop
  /\ End(p)
  /\ UNCHANGED <<hasDevice, order, checkout, current, issued, late>>

\* The thirty minutes are over.
PollLate(p) ==
  /\ poller[p].pc = "wait"
  /\ poller[p].code \in late
  /\ order' = IF order.code = poller[p].code THEN [order EXCEPT !.waiting = FALSE] ELSE order
  /\ End(p)
  /\ UNCHANGED <<hasDevice, checkout, current, issued, late>>

\* Mutated form of PollAsk: whatever the time.
PollAskForever(p) ==
  /\ poller[p].pc = "wait"
  /\ poller' = [poller EXCEPT ![p].pc = "ask"]
  /\ UNCHANGED <<hasDevice, order, checkout, current, issued, late>>

PollAsk(p) ==
  /\ poller[p].pc = "wait"
  /\ poller[p].code \notin late
  /\ poller' = [poller EXCEPT ![p].pc = "ask"]
  /\ UNCHANGED <<hasDevice, order, checkout, current, issued, late>>

\* Mutated form of Applied: to whatever order is pending now.
AppliedToAny(code, status) ==
  [order EXCEPT !.status = status, !.waiting = @ /\ status = "pending"]

\* applyOrder, of an order that is still the pending one.
Applied(code, status) ==
  IF order.code = code
  THEN [order EXCEPT !.status = status, !.waiting = @ /\ status = "pending"]
  ELSE order

\* An answer: the poll goes on while the order is pending.
PollAnswer(p) ==
  /\ poller[p].pc = "ask"
  /\ \E status \in CodeStatus :
       /\ order' = Applied(poller[p].code, status)
       /\ IF status = "pending" THEN poller' = [poller EXCEPT ![p].pc = "wait"] ELSE End(p)
  /\ UNCHANGED <<hasDevice, checkout, current, issued, late>>

\* No answer, or one that can be hoped to change: it goes on too.
PollFails(p) ==
  /\ poller[p].pc = "ask"
  /\ poller' = [poller EXCEPT ![p].pc = "wait"]
  /\ UNCHANGED <<hasDevice, order, checkout, current, issued, late>>

\* not_found, not_signed_in, or the device is gone (and SignOut happened): it
\* ends, and leaves the order as it is.
PollGivesUp(p) ==
  /\ poller[p].pc = "ask"
  /\ End(p)
  /\ UNCHANGED <<hasDevice, order, checkout, current, issued, late>>

\* OrderStatus asked for by the UI.
AskStatus(code) ==
  /\ hasDevice
  /\ code \in issued
  /\ \E status \in CodeStatus : order' = Applied(code, status)
  /\ UNCHANGED <<hasDevice, checkout, poller, current, issued, late>>

-----------------------------------------------------------------------------

Elapse(code) ==
  /\ code \in issued \ late
  /\ late' = late \cup {code}
  /\ UNCHANGED <<hasDevice, order, checkout, poller, current, issued>>

\* A crash, or quitting, and the next start: the order was saved with every
\* change, and Run watches it again.
Restart ==
  /\ checkout' = [c \in Caller |-> "idle"]
  /\ \E p \in Poller :
       /\ poller' = [q \in Poller |->
            IF q = p /\ order.waiting
            THEN [pc |-> "wait", code |-> order.code, stop |-> FALSE] ELSE NoPoll]
       /\ current' = IF order.waiting THEN {p} ELSE {}
  /\ UNCHANGED <<hasDevice, order, issued, late>>

PollStep(p) ==
  \/ PollStopped(p) \/ PollLate(p) \/ PollAsk(p)
  \/ PollAnswer(p) \/ PollFails(p) \/ PollGivesUp(p)

OrdNext ==
  \/ SignOut \/ SignIn \/ StopWaiting \/ Restart
  \/ \E c \in Caller :
       \/ CheckoutAsk(c) \/ CheckoutFails(c) \/ CheckoutWatch(c)
       \/ \E code \in Code : CheckoutStore(c, code)
  \/ \E p \in Poller : PollStep(p)
  \/ \E code \in Code : AskStatus(code) \/ Elapse(code)

OrdSpec == OrdInit /\ [][OrdNext]_orderVars

(***************************************************************************)
(* Fairness: pollers and calls of Checkout go on (their timers fire, their *)
(* requests end), time passes, and the core is not for ever restarted      *)
(* before the timer of a late poll fires.                                  *)
(***************************************************************************)
OrdFairness ==
  /\ \A p \in Poller : WF_orderVars(PollStep(p))
  /\ WF_orderVars(\E p \in Poller : PollLate(p))
  /\ \A c \in Caller : WF_orderVars(CheckoutWatch(c))
  /\ \A code \in Code : WF_orderVars(Elapse(code))

OrdFairSpec == OrdSpec /\ OrdFairness

-----------------------------------------------------------------------------
(* Properties *)

Live(p) == poller[p].pc # "idle" /\ ~poller[p].stop

\* However checkouts, sign-outs, StopWaiting and answers cross, at most one
\* goroutine polls without having been told to stop, and once every Checkout
\* has called watchOrder it polls no other order than the pending one.
OnePoller ==
  /\ \A p, q \in Poller : Live(p) /\ Live(q) => p = q
  /\ (\A c \in Caller : checkout[c] # "stored") =>
       \A p \in Poller : Live(p) => order = NoOrder \/ poller[p].code = order.code

\* "Waiting is true while the app polls the order (at most 30 minutes)"
\* (PendingOrder).
WaitingEnds == []<>~order.waiting

=============================================================================
