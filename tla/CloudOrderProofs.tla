-------------------------- MODULE CloudOrderProofs --------------------------
(***************************************************************************)
(* Proofs about CloudOrder, for any codes, calls of Checkout and           *)
(* goroutines: its type correctness, and that one goroutine polls.         *)
(***************************************************************************)
EXTENDS CloudOrder, TLAPS

\* A goroutine that polls has an order to poll.
PollersHaveCodes == \A p \in Poller : poller[p].pc # "idle" => poller[p].code \in Code

\* stopOrder still cancels the only one that was not told to stop.
CurrentIsLive ==
  /\ \A p, q \in current : p = q
  /\ \A p \in Poller : Live(p) => p \in current

OrderInv == OrderTypeOK /\ PollersHaveCodes /\ CurrentIsLive /\ OnePoller

PollState == [pc : {"idle", "wait", "ask"}, code : Code \cup {NoCode}, stop : BOOLEAN]
OrderState == [code : Code, status : CodeStatus, waiting : BOOLEAN]

LEMMA NoPollIdle == NoPoll \in PollState /\ NoPoll.pc = "idle"
BY DEF NoPoll, PollState

LEMMA WaitingOrder == ASSUME OrderTypeOK, order.waiting PROVE order.code \in Code /\ order # NoOrder
BY DEF OrderTypeOK, NoOrder

\* What the goroutines look like after stopOrder.
LEMMA StoppedFacts ==
  ASSUME OrderInv
  PROVE  /\ Stopped \in [Poller -> PollState]
         /\ \A p \in Poller : Stopped[p].pc = poller[p].pc /\ Stopped[p].code = poller[p].code
         /\ \A p \in Poller : Stopped[p].pc # "idle" => Stopped[p].stop
<1>1. poller \in [Poller -> PollState]
  BY DEF OrderInv, OrderTypeOK, PollState
<1>2. ASSUME NEW p \in Poller
      PROVE  /\ Stopped[p] \in PollState
             /\ Stopped[p].pc = poller[p].pc /\ Stopped[p].code = poller[p].code
             /\ Stopped[p].pc # "idle" => Stopped[p].stop
  <2>1. CASE p \in current
    <3>1. Stopped[p] = [poller[p] EXCEPT !.stop = TRUE]
      BY <2>1 DEF Stopped
    <3> QED
      BY <1>1, <3>1 DEF PollState
  <2>2. CASE p \notin current
    <3>1. Stopped[p] = poller[p] /\ ~Live(p)
      BY <2>2 DEF Stopped, OrderInv, CurrentIsLive
    <3> QED
      BY <1>1, <3>1 DEF PollState, Live
  <2> QED
    BY <2>1, <2>2
<1>3. DOMAIN Stopped = Poller /\ Stopped = [p \in Poller |-> Stopped[p]]
  BY DEF Stopped
<1> QED
  BY <1>2, <1>3

-----------------------------------------------------------------------------

LEMMA InitOrderInv == OrdInit => OrderInv
BY NoPollIdle DEF OrdInit, OrderInv, OrderTypeOK, PollersHaveCodes, CurrentIsLive, OnePoller, Live,
  PollState, NoOrder

\* All goroutines are told to stop.
LEMMA StopInv ==
  ASSUME OrderInv, poller' = Stopped, current' = {}, hasDevice' \in BOOLEAN,
         order' \in OrderState \cup {NoOrder}, checkout' \in [Caller -> {"idle", "asked", "stored"}],
         UNCHANGED <<issued, late>>
  PROVE  OrderInv'
BY StoppedFacts DEF OrderInv, OrderTypeOK, PollersHaveCodes, CurrentIsLive, OnePoller, Live,
  PollState, OrderState

\* One goroutine starts and the others are told to stop, or are gone.
LEMMA WatchInv ==
  ASSUME OrderInv, order.waiting, NEW p \in Poller, NEW f \in [Poller -> PollState],
         \A q \in Poller : f[q].pc # "idle" => f[q].stop /\ f[q].code \in Code,
         poller' = [f EXCEPT ![p] = [pc |-> "wait", code |-> order.code, stop |-> FALSE]],
         current' = {p}, checkout' \in [Caller -> {"idle", "asked", "stored"}],
         UNCHANGED <<hasDevice, order, issued, late>>
  PROVE  OrderInv'
<1>1. order.code \in Code
  BY WaitingOrder DEF OrderInv
<1>2. /\ poller' \in [Poller -> PollState] /\ Live(p)' /\ poller'[p].code = order.code
      /\ \A q \in Poller : q # p => ~Live(q)' /\ poller'[q] = f[q]
  BY <1>1 DEF PollState, Live
<1>3. OrderTypeOK'
  BY <1>2 DEF OrderInv, OrderTypeOK, PollState
<1>4. PollersHaveCodes'
  BY <1>1, <1>2 DEF PollersHaveCodes
<1>5. CurrentIsLive' /\ OnePoller'
  BY <1>2 DEF CurrentIsLive, OnePoller
<1> QED
  BY <1>3, <1>4, <1>5 DEF OrderInv

\* A goroutine goes on or ends, and the order keeps its code.
LEMMA PollInv ==
  ASSUME OrderInv, NEW p \in Poller, NEW s \in PollState, poller' = [poller EXCEPT ![p] = s],
         s.pc = "idle" \/ (poller[p].pc # "idle" /\ s.code = poller[p].code /\ s.stop = poller[p].stop),
         order' \in OrderState \cup {NoOrder},
         order = NoOrder => order' = NoOrder, order # NoOrder => order'.code = order.code,
         UNCHANGED <<hasDevice, checkout, current, issued, late>>
  PROVE  OrderInv'
<1>1. poller \in [Poller -> PollState]
  BY DEF OrderInv, OrderTypeOK, PollState
<1>2. poller' \in [Poller -> PollState] /\ \A q \in Poller : q # p => poller'[q] = poller[q]
  BY <1>1
<1>3. \A q \in Poller : poller'[q].pc # "idle" =>
        poller[q].pc # "idle" /\ poller'[q].code = poller[q].code /\ poller'[q].stop = poller[q].stop
  BY <1>1, <1>2
<1>4. \A q \in Poller : Live(q)' => Live(q)
  BY <1>3 DEF Live
<1>5. OrderTypeOK'
  BY <1>2 DEF OrderInv, OrderTypeOK, PollState, OrderState
<1>6. PollersHaveCodes'
  BY <1>3 DEF OrderInv, PollersHaveCodes
<1>7. CurrentIsLive' /\ OnePoller'
  BY <1>3, <1>4 DEF OrderInv, CurrentIsLive, OnePoller, Live
<1> QED
  BY <1>5, <1>6, <1>7 DEF OrderInv

\* The order an answer is for keeps its code; another stays as it is.
LEMMA AppliedFacts ==
  ASSUME OrderInv, NEW code \in Code, NEW status \in CodeStatus
  PROVE  /\ Applied(code, status) \in OrderState \cup {NoOrder}
         /\ order = NoOrder => Applied(code, status) = NoOrder
         /\ order # NoOrder => Applied(code, status).code = order.code
<1>1. CASE order = NoOrder
  BY <1>1, OrderAssumption DEF Applied, NoOrder
<1>0. NoOrder \notin OrderState
  BY OrderAssumption DEF NoOrder, OrderState
<1>2. CASE order \in OrderState
  <2>1. CASE order.code = code
    <3>1. PICK w \in BOOLEAN : w = (order.waiting /\ status = "pending")
      BY Zenon
    <3>2. Applied(code, status) = [order EXCEPT !.status = status, !.waiting = w]
      BY <2>1, <3>1, Zenon DEF Applied
    <3>3. [order EXCEPT !.status = status, !.waiting = w] \in OrderState
      BY <1>2 DEF OrderState
    <3>4. [order EXCEPT !.status = status, !.waiting = w].code = order.code
      BY <1>2 DEF OrderState
    <3> QED
      BY <1>0, <1>2, <3>2, <3>3, <3>4
  <2>2. CASE order.code # code
    BY <1>2, <2>2 DEF Applied
  <2> QED
    BY <2>1, <2>2
<1> QED
  BY <1>1, <1>2 DEF OrderInv, OrderTypeOK, OrderState

LEMMA PollStepInv ==
  ASSUME OrderInv, NEW p \in Poller, PollStep(p)
  PROVE  OrderInv'
<1>1. poller[p] \in PollState /\ order \in OrderState \cup {NoOrder}
  BY DEF OrderInv, OrderTypeOK, PollState, OrderState
<1>2. poller[p].pc # "idle" /\ poller[p].code \in Code
  BY DEF OrderInv, PollersHaveCodes, PollStep, PollStopped, PollLate, PollAsk, PollAnswer,
    PollFails, PollGivesUp
<1> DEFINE To(pc) == [poller[p] EXCEPT !.pc = pc]
<1>3. \A pc \in {"wait", "ask"} :
        To(pc) \in PollState /\ To(pc).code = poller[p].code /\ To(pc).stop = poller[p].stop
  BY <1>1 DEF PollState
<1> HIDE DEF To
<1>4. ASSUME End(p), UNCHANGED <<hasDevice, order, checkout, current, issued, late>>
      PROVE  OrderInv'
  BY <1>1, <1>4, NoPollIdle, PollInv DEF End
<1>5. CASE PollStopped(p) \/ PollGivesUp(p)
  BY <1>4, <1>5 DEF PollStopped, PollGivesUp
<1>6. CASE PollLate(p)
  <2>1. /\ order' \in OrderState \cup {NoOrder}
        /\ order = NoOrder => order' = NoOrder
        /\ order # NoOrder => order'.code = order.code
    <3>1. CASE order = NoOrder
      BY <1>2, <1>6, <3>1, OrderAssumption DEF PollLate, NoOrder
    <3>2. CASE order \in OrderState /\ order # NoOrder
      BY <1>6, <3>2 DEF PollLate, OrderState
    <3> QED
      BY <1>1, <3>1, <3>2
  <2> QED
    BY <1>6, <2>1, NoPollIdle, PollInv DEF PollLate, End
<1>7. CASE PollAsk(p) \/ PollFails(p)
  <2>1. PICK pc \in {"wait", "ask"} : poller' = [poller EXCEPT ![p] = To(pc)]
    BY <1>7 DEF PollAsk, PollFails, To
  <2> QED
    BY <1>1, <1>2, <1>3, <1>7, <2>1, PollInv DEF PollAsk, PollFails
<1>8. CASE PollAnswer(p)
  <2>1. PICK status \in CodeStatus :
          /\ order' = Applied(poller[p].code, status)
          /\ IF status = "pending" THEN poller' = [poller EXCEPT ![p].pc = "wait"] ELSE End(p)
    BY <1>8 DEF PollAnswer
  <2>2. PICK s \in {To("wait"), NoPoll} : poller' = [poller EXCEPT ![p] = s]
    BY <2>1 DEF End, To
  <2>3. s \in PollState /\ (s.pc = "idle" \/ (s.code = poller[p].code /\ s.stop = poller[p].stop))
    BY <1>3, <2>2, NoPollIdle
  <2> QED
    BY <1>2, <1>8, <2>1, <2>2, <2>3, AppliedFacts, PollInv DEF PollAnswer
<1> QED
  BY <1>5, <1>6, <1>7, <1>8 DEF PollStep

-----------------------------------------------------------------------------

LEMMA CheckoutInv ==
  ASSUME OrderInv, NEW c \in Caller,
         CheckoutAsk(c) \/ CheckoutFails(c) \/ (\E code \in Code : CheckoutStore(c, code))
  PROVE  OrderInv'
<1>1. CASE CheckoutAsk(c) \/ CheckoutFails(c)
  <2>1. \A d \in Caller : checkout[d] = "stored" => checkout'[d] = "stored"
    BY <1>1 DEF OrderInv, OrderTypeOK, CheckoutAsk, CheckoutFails
  <2> QED
    BY <1>1, <2>1 DEF OrderInv, OrderTypeOK, PollersHaveCodes, CurrentIsLive, OnePoller, Live,
      CheckoutAsk, CheckoutFails
<1>2. ASSUME NEW code \in Code, CheckoutStore(c, code)
      PROVE  OrderInv'
  <2>1. checkout' \in [Caller -> {"idle", "asked", "stored"}] /\ checkout'[c] = "stored"
    BY <1>2 DEF OrderInv, OrderTypeOK, CheckoutStore
  <2>2. order' \in OrderState /\ issued' \in SUBSET Code
    BY <1>2 DEF OrderInv, OrderTypeOK, CheckoutStore, OrderState, CodeStatus
  <2> QED
    BY <1>2, <2>1, <2>2 DEF OrderInv, OrderTypeOK, PollersHaveCodes, CurrentIsLive, OnePoller, Live,
      CheckoutStore, OrderState
<1> QED
  BY <1>1, <1>2

LEMMA CheckoutWatchInv == ASSUME OrderInv, NEW c \in Caller, CheckoutWatch(c) PROVE OrderInv'
<1>1. /\ checkout' \in [Caller -> {"idle", "asked", "stored"}]
      /\ order \in OrderState \cup {NoOrder} /\ hasDevice \in BOOLEAN
  BY DEF CheckoutWatch, OrderInv, OrderTypeOK, OrderState
<1>2. UNCHANGED <<hasDevice, order, issued, late>>
  BY DEF CheckoutWatch
<1>3. CASE order.waiting
  <2>1. PICK p \in Poller :
          /\ poller' = [Stopped EXCEPT ![p] = [pc |-> "wait", code |-> order.code, stop |-> FALSE]]
          /\ current' = {p}
    BY <1>3 DEF CheckoutWatch, Watch
  <2>2. \A q \in Poller : Stopped[q].pc # "idle" => Stopped[q].stop /\ Stopped[q].code \in Code
    BY StoppedFacts DEF OrderInv, PollersHaveCodes
  <2> QED
    BY <1>1, <1>2, <1>3, <2>1, <2>2, StoppedFacts, WatchInv
<1>4. CASE ~order.waiting
  BY <1>1, <1>2, <1>4, StopInv DEF CheckoutWatch, Watch
<1> QED
  BY <1>3, <1>4

LEMMA RestartInv == ASSUME OrderInv, Restart PROVE OrderInv'
<1> DEFINE idle == [q \in Poller |-> NoPoll]
<1>1. /\ idle \in [Poller -> PollState] /\ \A q \in Poller : idle[q].pc = "idle"
      /\ checkout' \in [Caller -> {"idle", "asked", "stored"}]
      /\ UNCHANGED <<hasDevice, order, issued, late>>
  BY NoPollIdle DEF Restart
<1>2. CASE order.waiting
  <2>1. PICK p \in Poller :
          /\ poller' = [idle EXCEPT ![p] = [pc |-> "wait", code |-> order.code, stop |-> FALSE]]
          /\ current' = {p}
    BY <1>2 DEF Restart
  <2> HIDE DEF idle
  <2> QED
    BY <1>1, <1>2, <2>1, WatchInv
<1>3. CASE ~order.waiting
  <2>1. poller' = idle /\ current' = {}
    BY <1>3 DEF Restart
  <2> QED
    BY <1>1, <2>1, NoPollIdle DEF OrderInv, OrderTypeOK, PollersHaveCodes, CurrentIsLive, OnePoller,
      Live, PollState
<1> QED
  BY <1>2, <1>3

LEMMA NextOrderInv == OrderInv /\ [OrdNext]_orderVars => OrderInv'
<1> SUFFICES ASSUME OrderInv, [OrdNext]_orderVars PROVE OrderInv'
  OBVIOUS
<1>1. CASE UNCHANGED orderVars
  BY <1>1 DEF orderVars, OrderInv, OrderTypeOK, PollersHaveCodes, CurrentIsLive, OnePoller, Live
<1>2. CASE SignOut \/ StopWaiting
  BY <1>2, StopInv DEF SignOut, StopWaiting, OrderInv, OrderTypeOK
<1>3. CASE SignIn
  BY <1>3 DEF SignIn, OrderInv, OrderTypeOK, PollersHaveCodes, CurrentIsLive, OnePoller, Live
<1>4. ASSUME NEW code \in Code, AskStatus(code)
      PROVE  OrderInv'
  <2>1. PICK status \in CodeStatus : order' = Applied(code, status)
    BY <1>4 DEF AskStatus
  <2>2. /\ order' \in OrderState \cup {NoOrder}
        /\ order = NoOrder => order' = NoOrder
        /\ order # NoOrder => order'.code = order.code
    BY <2>1, AppliedFacts
  <2> QED
    BY <1>4, <2>2 DEF AskStatus, OrderInv, OrderTypeOK, PollersHaveCodes, CurrentIsLive, OnePoller,
      Live, OrderState
<1>5. ASSUME NEW code \in Code, Elapse(code)
      PROVE  OrderInv'
  BY <1>5 DEF Elapse, OrderInv, OrderTypeOK, PollersHaveCodes, CurrentIsLive, OnePoller, Live
<1> QED
  BY <1>1, <1>2, <1>3, <1>4, <1>5, CheckoutInv, CheckoutWatchInv, RestartInv, PollStepInv DEF OrdNext

\* The variables keep their types, and one goroutine polls.
THEOREM OrderSafe == OrdSpec => []OrderInv
BY InitOrderInv, NextOrderInv, PTL DEF OrdSpec

\* The order, its pollers and checkouts keep their types.
THEOREM OrderTypeCorrect == OrdSpec => []OrderTypeOK
BY OrderSafe, PTL DEF OrderInv

\* At most one goroutine polls without having been told to stop, and then the pending
\* order.
THEOREM OnePollerAtMost == OrdSpec => []OnePoller
BY OrderSafe, PTL DEF OrderInv

=============================================================================
