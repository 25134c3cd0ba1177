------------------------- MODULE CloudForwardProofs -------------------------
(***************************************************************************)
(* Proofs about CloudForward, for any alerts, sessions and bounds: what is *)
(* queued belongs to the account signed in; the queue keeps its bounds;    *)
(* and, as long as no pending order is paid, the send loop sleeps only     *)
(* when there is nothing to do.                                            *)
(***************************************************************************)
EXTENDS CloudForward, FiniteSetTheorems, WellFoundedInduction, TLAPS

\* The shape of the state: what the steps below update by component.
Shape ==
  /\ accepting \in [pc : {"idle", "push", "kick"}, alert : Alert \cup {NoAlert}, dev : Sessions]
  /\ sender \in [pc : {"asleep", "timed", "look", "sign", "answered"},
                 batch : SUBSET Alert, dev : Sessions,
                 res : [kind : Answer, done : SUBSET Alert]]
  /\ refresh \in [Refresher -> [pc : {"idle", "answered", "gone", "kick"},
                                active : BOOLEAN, signIn : BOOLEAN]]
  /\ owner \in [Alert -> Sessions]
  /\ session \in Sessions

\* An alert is at one place: raised, then in the inbox, in accept's hands, in the queue.
OnePlace ==
  /\ inbox \subseteq raised /\ Queued \subseteq raised /\ raised \subseteq Alert
  /\ inbox \cap Queued = {}
  /\ accepting.pc = "push" => accepting.alert \in raised \ (inbox \cup Queued)

\* What accept is about to push was accepted in the session it saw.
AcceptedHere ==
  accepting.pc = "push" =>
    /\ accepting.dev # NoSession
    /\ owner[accepting.alert] = accepting.dev

OwnInv == Shape /\ OnePlace /\ AcceptedHere /\ QueueIsOwn

-----------------------------------------------------------------------------

LEMMA InitOwn == Init => OwnInv
<1> SUFFICES ASSUME Init PROVE OwnInv
  OBVIOUS
<1>1. Shape
  BY DEF Init, Shape, NotAccepting, Asleep, NoResult, NotRefreshing, Sessions, Answer
<1>2. Queued = {}
  BY DEF Init, Queued, EmptyQueue
<1> QED
  BY <1>1, <1>2 DEF Init, OwnInv, OnePlace, AcceptedHere, QueueIsOwn, NotAccepting

\* What a step of anyone but accept does: the queue only loses events, and is empty
\* when the session changes.
LEMMA OthersKeepOwn ==
  ASSUME OwnInv, Shape', Queued' \subseteq Queued,
         session' = session \/ Queued' = {},
         inbox' \subseteq inbox, raised' = raised, owner' = owner,
         accepting'.pc = "push" => accepting' = accepting
  PROVE  OwnInv'
<1>1. OnePlace'
  BY DEF OwnInv, OnePlace
<1>2. AcceptedHere'
  BY DEF OwnInv, AcceptedHere
<1>3. QueueIsOwn'
  BY DEF OwnInv, QueueIsOwn
<1> QED
  BY <1>1, <1>2, <1>3 DEF OwnInv

LEMMA FreshFacts ==
  ASSUME NEW s \in Sessions, Fresh(s)
  PROVE  session' = s /\ Queued' = {} /\ session' \in Sessions
BY DEF Fresh, Queued, EmptyQueue

LEMMA KeepFacts == ASSUME NEW S PROVE DOMAIN Keep(S) = S
BY DEF Keep, Restrict

LEMMA SessionsOwn ==
  ASSUME OwnInv, \/ \E s \in Session : SignIn(s) \/ AccountChanges(s)
                 \/ SignOut \/ SignedOut \/ OrderPaid
  PROVE  OwnInv'
<1>1. CASE \E s \in Session : SignIn(s)
  BY <1>1, FreshFacts, OthersKeepOwn DEF SignIn, OwnInv, Shape, Sessions, history
<1>2. CASE \E s \in Session : AccountChanges(s)
  BY <1>2, OthersKeepOwn DEF AccountChanges, OwnInv, Shape, Queued, client, history
<1>3. CASE SignOut
  BY <1>3, OthersKeepOwn DEF SignOut, OwnInv, Shape, Queued, history
<1>4. CASE SignedOut
  BY <1>4, FreshFacts, OthersKeepOwn DEF SignedOut, OwnInv, Shape, Sessions, history
<1>5. CASE OrderPaid
  BY <1>5, OthersKeepOwn DEF OrderPaid, OwnInv, Shape, Queued, server, history
<1> QED
  BY <1>1, <1>2, <1>3, <1>4, <1>5

LEMMA EnqueueOwn == ASSUME OwnInv, NEW a \in Alert, Enqueue(a) PROVE OwnInv'
<1>1. Shape' /\ Queued' = Queued
  BY DEF Enqueue, OwnInv, Shape, Queued
<1>2. OnePlace'
  BY <1>1 DEF Enqueue, OwnInv, OnePlace
<1> QED
  BY <1>1, <1>2 DEF Enqueue, OwnInv, AcceptedHere, QueueIsOwn

LEMMA AcceptOwn ==
  ASSUME OwnInv, (\E a \in Alert : AcceptCheck(a)) \/ AcceptPush \/ AcceptKick
  PROVE  OwnInv'
<1>1. ASSUME NEW a \in Alert, AcceptCheck(a) PROVE OwnInv'
  <2>1. CASE UNCHANGED <<accepting, owner>>
    BY <1>1, <2>1, OthersKeepOwn DEF AcceptCheck, OwnInv, Shape, Queued, server
  <2>2. CASE ~UNCHANGED <<accepting, owner>>
    <3>1. /\ session # NoSession /\ session' = session
          /\ accepting' = [pc |-> "push", alert |-> a, dev |-> session]
          /\ owner' = [owner EXCEPT ![a] = session]
          /\ a \in inbox /\ inbox' = inbox \ {a} /\ raised' = raised
          /\ queue' = queue /\ sender' = sender /\ refresh' = refresh
      BY <1>1, <2>2 DEF AcceptCheck
    <3>2. Queued' = Queued /\ a \notin Queued /\ a \in raised
      BY <3>1 DEF Queued, OwnInv, OnePlace
    <3>3. Shape'
      BY <3>1 DEF OwnInv, Shape, Sessions
    <3>4. OnePlace'
      BY <3>1, <3>2 DEF OwnInv, OnePlace
    <3>5. AcceptedHere'
      BY <3>1 DEF OwnInv, Shape, AcceptedHere
    <3>6. QueueIsOwn'
      BY <3>1, <3>2 DEF OwnInv, Shape, OnePlace, QueueIsOwn
    <3> QED
      BY <3>3, <3>4, <3>5, <3>6 DEF OwnInv
  <2> QED
    BY <2>1, <2>2
<1>2. CASE AcceptPush
  <2>1. CASE session # accepting.dev
    BY <1>2, <2>1, OthersKeepOwn DEF AcceptPush, OwnInv, Shape, Queued, server, history,
                                     NotAccepting, Sessions
  <2>2. CASE session = accepting.dev
    <3>1. /\ accepting.pc = "push" /\ Push(accepting.alert)
          /\ accepting' = [NotAccepting EXCEPT !.pc = "kick"]
          /\ UNCHANGED <<session, inbox, sender, refresh, raised, owner>>
      BY <1>2, <2>2 DEF AcceptPush, history
    <3>2. Queued' \subseteq Queued \cup {accepting.alert}
      BY <3>1 DEF Push, Queued
    <3>3. Shape' /\ accepting'.pc = "kick"
      BY <3>1 DEF OwnInv, Shape, NotAccepting, Sessions
    <3>4. OnePlace'
      BY <3>1, <3>2, <3>3 DEF OwnInv, OnePlace
    <3>5. QueueIsOwn'
      BY <2>2, <3>1, <3>2 DEF OwnInv, QueueIsOwn, AcceptedHere
    <3> QED
      BY <3>3, <3>4, <3>5 DEF OwnInv, AcceptedHere
  <2> QED
    BY <2>1, <2>2
<1>3. CASE AcceptKick
  BY <1>3, OthersKeepOwn DEF AcceptKick, OwnInv, Shape, Queued, server, history,
                             NotAccepting, Sessions
<1> QED
  BY <1>1, <1>2, <1>3

\* A batch is of alerts, whatever its size.
LEMMA DecideType ==
  ASSUME OwnInv, NEW Q \in SUBSET Queued
  PROVE  Decide(Q) \in [pc : {"asleep", "timed", "look", "sign", "answered"},
                        batch : SUBSET Alert, dev : Sessions,
                        res : [kind : Answer, done : SUBSET Alert]]
<1>1. Ready(Q) \in SUBSET Alert
  BY DEF Ready, OwnInv, OnePlace
<1>2. Asleep \in [pc : {"asleep", "timed", "look", "sign", "answered"},
                  batch : SUBSET Alert, dev : Sessions,
                  res : [kind : Answer, done : SUBSET Alert]]
  BY DEF Asleep, NoResult, Sessions, Answer
<1> QED
  BY <1>1, <1>2 DEF Decide

LEMMA LoopType ==
  ASSUME NEW pc \in {"asleep", "timed", "look"}, LoopAt(pc)
  PROVE  sender' \in [pc : {"asleep", "timed", "look", "sign", "answered"},
                      batch : SUBSET Alert, dev : Sessions,
                      res : [kind : Answer, done : SUBSET Alert]]
BY DEF LoopAt, Asleep, NoResult, Sessions, Answer

LEMMA SendOwn == ASSUME OwnInv, SendStep PROVE OwnInv'
<1>1. UNCHANGED <<accepting, refresh, inbox, raised, owner>>
  BY DEF SendStep, Wake, Look, Send, SendResults, SendGone, SendUnpaid, SendRefused,
         SendLater, history
<1>2. sender' \in [pc : {"asleep", "timed", "look", "sign", "answered"},
                   batch : SUBSET Alert, dev : Sessions,
                   res : [kind : Answer, done : SUBSET Alert]]
  <2>1. CASE Wake
    BY <2>1 DEF Wake, OwnInv, Shape
  <2>2. CASE Look
    BY <2>2, DecideType DEF Look, OwnInv, Shape, Queued
  <2>3. CASE Send
    <3>1. CASE sender' = Asleep
      BY <3>1 DEF Asleep, NoResult, Sessions, Answer
    <3>2. CASE sender' # Asleep
      <4>1. PICK kind \in Answer, done \in SUBSET sender.batch :
              sender' = [pc |-> "answered", batch |-> sender.batch, dev |-> session,
                         res |-> [kind |-> kind, done |-> done]]
        BY <2>3, <3>2 DEF Send
      <4> QED
        BY <4>1 DEF OwnInv, Shape
    <3> QED
      BY <3>1, <3>2
  <2>4. CASE SendResults \/ SendGone \/ SendUnpaid \/ SendRefused \/ SendLater
    BY <2>4, LoopType DEF SendResults, SendGone, SendUnpaid, SendRefused, SendLater
  <2> QED
    BY <2>1, <2>2, <2>3, <2>4 DEF SendStep
<1>3. Queued' \subseteq Queued /\ (session' = session \/ Queued' = {}) /\ session' \in Sessions
  <2>1. CASE Look
    BY <2>1, KeepFacts DEF Look, Queued, OwnInv, Shape
  <2>2. CASE SendResults
    BY <2>2 DEF SendResults, Queued, OwnInv, Shape
  <2>3. CASE SendRefused
    BY <2>3, KeepFacts DEF SendRefused, Queued, OwnInv, Shape
  <2>4. CASE SendGone
    BY <2>4, FreshFacts DEF SendGone, Sessions
  <2>5. CASE Wake \/ Send \/ SendUnpaid \/ SendLater
    BY <2>5 DEF Wake, Send, SendUnpaid, SendLater, Queued, OwnInv, Shape
  <2> QED
    BY <2>1, <2>2, <2>3, <2>4, <2>5 DEF SendStep
<1>4. Shape'
  BY <1>1, <1>2, <1>3 DEF OwnInv, Shape
<1> QED
  BY <1>1, <1>3, <1>4, OthersKeepOwn

LEMMA RefreshedType ==
  ASSUME NEW call \in [pc : {"idle", "answered", "gone", "kick"},
                       active : BOOLEAN, signIn : BOOLEAN]
  PROVE  Refreshed(call) \in [pc : {"idle", "answered", "gone", "kick"},
                              active : BOOLEAN, signIn : BOOLEAN]
BY DEF Refreshed, NotRefreshing

LEMMA CallType ==
  ASSUME NEW s \in BOOLEAN, NEW a \in BOOLEAN, NEW pc \in {"answered", "gone"}
  PROVE  LET asked == [NotRefreshing EXCEPT !.signIn = s]
         IN  /\ asked \in [pc : {"idle", "answered", "gone", "kick"},
                           active : BOOLEAN, signIn : BOOLEAN]
             /\ [asked EXCEPT !.pc = pc, !.active = a]
                  \in [pc : {"idle", "answered", "gone", "kick"},
                       active : BOOLEAN, signIn : BOOLEAN]
BY DEF NotRefreshing

LEMMA RefreshType ==
  ASSUME OwnInv, NEW f \in Refresher,
         RefreshStep(f) \/ \E c \in {"none", owed} : RefreshAsk(f, c)
  PROVE  refresh' \in [Refresher -> [pc : {"idle", "answered", "gone", "kick"},
                                     active : BOOLEAN, signIn : BOOLEAN]]
<1> DEFINE Call == [pc : {"idle", "answered", "gone", "kick"},
                    active : BOOLEAN, signIn : BOOLEAN]
<1>1. NotRefreshing \in Call /\ refresh[f] \in Call /\ refresh \in [Refresher -> Call]
  BY DEF NotRefreshing, OwnInv, Shape
<1>2. \E call \in Call : refresh' = [refresh EXCEPT ![f] = call]
  <2>1. Refreshed(refresh[f]) \in Call
    BY <1>1, RefreshedType
  <2>2. [NotRefreshing EXCEPT !.pc = "kick"] \in Call
    BY DEF NotRefreshing
  <2>3. CASE RefreshGone(f)
    BY <2>1, <2>3 DEF RefreshGone
  <2>4. CASE RefreshApply(f)
    BY <2>1, <2>2, <2>4 DEF RefreshApply
  <2>5. CASE RefreshKick(f)
    BY <1>1, <2>5 DEF RefreshKick
  <2>6. ASSUME NEW c \in {"none", owed}, RefreshAsk(f, c)
        PROVE  \E call \in Call : refresh' = [refresh EXCEPT ![f] = call]
    <3> DEFINE asked == [NotRefreshing EXCEPT !.signIn = c = "signIn"]
               answer == [asked EXCEPT !.pc = IF session \in registered THEN "answered" ELSE "gone",
                                       !.active = session \in paid]
    <3>1. (c = "signIn") \in BOOLEAN /\ (session \in paid) \in BOOLEAN
      OBVIOUS
    <3>2. (IF session \in registered THEN "answered" ELSE "gone") \in {"answered", "gone"}
      OBVIOUS
    <3>3. asked \in Call /\ answer \in Call
      BY <3>1, <3>2, CallType
    <3>4. Refreshed(asked) \in Call
      BY <3>3, RefreshedType
    <3>5. \/ refresh' = [refresh EXCEPT ![f] = Refreshed(asked)]
          \/ refresh' = [refresh EXCEPT ![f] = answer]
      BY <2>6 DEF RefreshAsk
    <3> HIDE DEF asked, answer
    <3> QED
      BY <3>3, <3>4, <3>5
  <2> QED
    BY <2>3, <2>4, <2>5, <2>6 DEF RefreshStep
<1> HIDE DEF Call
<1>3. refresh' \in [Refresher -> Call]
  BY <1>1, <1>2
<1> QED
  BY <1>3 DEF Call

LEMMA RefreshOwn ==
  ASSUME OwnInv, NEW f \in Refresher,
         RefreshStep(f) \/ \E c \in {"none", owed} : RefreshAsk(f, c)
  PROVE  OwnInv'
<1>1. UNCHANGED <<accepting, sender, inbox, raised, owner>>
  BY DEF RefreshStep, RefreshGone, RefreshApply, RefreshKick, RefreshAsk, history
<1>2. Queued' \subseteq Queued /\ (session' = session \/ Queued' = {}) /\ session' \in Sessions
  <2>1. CASE RefreshGone(f)
    BY <2>1, FreshFacts DEF RefreshGone, Sessions
  <2>2. CASE ~RefreshGone(f)
    BY <2>2 DEF RefreshStep, RefreshApply, RefreshKick, RefreshAsk, Queued, OwnInv, Shape
  <2> QED
    BY <2>1, <2>2
<1>3. Shape'
  BY <1>1, <1>2, RefreshType DEF OwnInv, Shape
<1> QED
  BY <1>1, <1>2, <1>3, OthersKeepOwn

LEMMA TimeOwn ==
  ASSUME OwnInv, Elapse \/ (\E a \in Alert : Expire(a)) \/ Restart \/ UNCHANGED vars
  PROVE  OwnInv'
<1>1. CASE Elapse
  BY <1>1, OthersKeepOwn DEF Elapse, OwnInv, Shape, Queued, server, history
<1>2. CASE \E a \in Alert : Expire(a)
  BY <1>2, OthersKeepOwn DEF Expire, OwnInv, Shape, Queued, server, history
<1>3. CASE Restart
  <2>1. /\ accepting' = NotAccepting /\ inbox' = {} /\ raised' = raised /\ owner' = owner
        /\ sender' = [Asleep EXCEPT !.pc = "look"]
        /\ refresh' = [f \in Refresher |-> NotRefreshing]
    BY <1>3 DEF Restart, history
  <2>2. Queued' \subseteq Queued /\ (session' = session \/ Queued' = {}) /\ session' \in Sessions
    BY <1>3, FreshFacts DEF Restart, Queued, OwnInv, Shape, Sessions
  <2>3. Shape'
    BY <2>1, <2>2 DEF OwnInv, Shape, NotAccepting, Asleep, NoResult, NotRefreshing, Sessions, Answer
  <2> QED
    BY <2>1, <2>2, <2>3, OthersKeepOwn DEF NotAccepting
<1>4. CASE UNCHANGED vars
  BY <1>4, OthersKeepOwn DEF vars, client, server, history, OwnInv, Shape, Queued
<1> QED
  BY <1>1, <1>2, <1>3, <1>4

LEMMA NextOwn == ASSUME OwnInv, [Next]_vars PROVE OwnInv'
BY SessionsOwn, EnqueueOwn, AcceptOwn, SendOwn, RefreshOwn, TimeOwn DEF Next

\* The inductive invariant of the way of an alert from the inbox to the queue.
THEOREM OwnSafe == Spec => []OwnInv
<1>1. Init => OwnInv
  BY InitOwn
<1>2. OwnInv /\ [Next]_vars => OwnInv'
  BY NextOwn
<1> QED
  BY <1>1, <1>2, PTL DEF Spec

\* For any alerts and sessions: what waits in the queue was accepted in the session of
\* now, however sign-outs and sign-ins fall between accept's two critical sections.
THEOREM QueuedAreOwn == Spec => []QueueIsOwn
<1>1. OwnInv => QueueIsOwn
  BY DEF OwnInv
<1> QED
  BY <1>1, OwnSafe, PTL

-----------------------------------------------------------------------------
(* While no pending order is paid. *)

\* NoLostWakeup needs no exception for a refresh that is owed: a sign-in starts with an
\* empty queue.
Awake ==
  sender.pc = "asleep" /\ ~kick /\ accepting.pc # "kick"
    /\ (\A f \in Refresher : refresh[f].pc # "kick")
  => session = NoSession \/ inactive \/ Queued = {}

WakeInv == OwnInv /\ Awake

\* Nobody stops being about to wake the send loop, and nothing appears to be sent.
LEMMA StillAwake ==
  ASSUME WakeInv, OwnInv', sender' = sender,
         kick => kick',
         accepting.pc = "kick" => accepting'.pc = "kick" \/ kick',
         \A f \in Refresher : refresh[f].pc = "kick" => refresh'[f].pc = "kick" \/ kick',
         \/ session' = NoSession \/ Queued' = {}
         \/ Queued' \subseteq Queued /\ session' = session /\ inactive' = inactive
  PROVE  WakeInv'
BY DEF WakeInv, Awake

LEMMA InitWake == Init => WakeInv
BY InitOwn DEF Init, WakeInv, Awake, Asleep

LEMMA SessionsWake ==
  ASSUME WakeInv, ~OrdersPaid, \/ \E s \in Session : SignIn(s) \/ AccountChanges(s)
                               \/ SignOut \/ SignedOut \/ OrderPaid
  PROVE  WakeInv'
<1>1. OwnInv'
  BY SessionsOwn DEF WakeInv
<1>2. CASE \E s \in Session : SignIn(s)
  BY <1>1, <1>2, FreshFacts DEF SignIn, WakeInv, Awake, Sessions
<1>3. CASE \E s \in Session : AccountChanges(s)
  BY <1>1, <1>3, StillAwake DEF AccountChanges, WakeInv, Queued, client
<1>4. CASE SignOut
  BY <1>1, <1>4, StillAwake DEF SignOut, WakeInv, Queued
<1>5. CASE SignedOut
  BY <1>1, <1>5, StillAwake, FreshFacts DEF SignedOut, WakeInv, Sessions
<1>6. CASE OrderPaid
  BY <1>6 DEF OrderPaid
<1> QED
  BY <1>2, <1>3, <1>4, <1>5, <1>6

LEMMA AcceptWake ==
  ASSUME WakeInv, \/ \E a \in Alert : Enqueue(a) \/ AcceptCheck(a)
                  \/ AcceptPush \/ AcceptKick
  PROVE  WakeInv'
<1>1. OwnInv'
  BY EnqueueOwn, AcceptOwn DEF WakeInv
<1>2. CASE \E a \in Alert : Enqueue(a)
  BY <1>1, <1>2, StillAwake DEF Enqueue, WakeInv, Queued, server
<1>3. CASE \E a \in Alert : AcceptCheck(a)
  BY <1>1, <1>3, StillAwake DEF AcceptCheck, WakeInv, Queued, server
<1>4. CASE AcceptPush /\ session = accepting.dev
  BY <1>1, <1>4 DEF AcceptPush, WakeInv, Awake, NotAccepting
<1>5. CASE AcceptPush /\ session # accepting.dev
  BY <1>1, <1>5, StillAwake DEF AcceptPush, WakeInv, Queued, server
<1>6. CASE AcceptKick
  BY <1>1, <1>6 DEF AcceptKick, WakeInv, Awake
<1> QED
  BY <1>2, <1>3, <1>4, <1>5, <1>6

\* The send loop falls asleep for want of a session, a plan or an event only.
LEMMA SendWake == ASSUME WakeInv, SendStep PROVE WakeInv'
<1>1. OwnInv'
  BY SendOwn DEF WakeInv, SendStep, Wake, Look, Send, SendResults, SendGone, SendUnpaid,
                 SendRefused, SendLater
<1>2. sender'.pc = "asleep" => session' = NoSession \/ inactive' \/ Queued' = {}
  <2>1. CASE Wake
    BY <2>1 DEF Wake, WakeInv, OwnInv, Shape
  <2>2. CASE Look
    BY <2>2, KeepFacts DEF Look, Decide, Asleep, Queued
  <2>3. CASE Send
    BY <2>3 DEF Send
  <2>4. CASE SendGone
    BY <2>4, FreshFacts DEF SendGone, Sessions
  <2>5. CASE SendUnpaid
    BY <2>5 DEF SendUnpaid
  <2>6. CASE SendResults \/ SendRefused \/ SendLater
    BY <2>6 DEF SendResults, SendRefused, SendLater, LoopAt, Asleep
  <2> QED
    BY <2>1, <2>2, <2>3, <2>4, <2>5, <2>6 DEF SendStep
<1> QED
  BY <1>1, <1>2 DEF WakeInv, Awake

LEMMA RefreshWake ==
  ASSUME WakeInv, NEW f \in Refresher,
         RefreshStep(f) \/ \E c \in {"none", owed} : RefreshAsk(f, c)
  PROVE  WakeInv'
<1>1. OwnInv'
  BY RefreshOwn DEF WakeInv
<1>2. \A g \in Refresher : g # f => refresh'[g] = refresh[g]
  BY DEF RefreshStep, RefreshGone, RefreshApply, RefreshKick, RefreshAsk, WakeInv, OwnInv, Shape
<1>3. CASE RefreshGone(f)
  BY <1>1, <1>2, <1>3, StillAwake, FreshFacts DEF RefreshGone, WakeInv, Sessions
<1>4. CASE RefreshApply(f)
  <2>1. CASE session = NoSession
    BY <1>1, <1>4, <2>1 DEF RefreshApply, WakeInv, Awake
  <2>2. CASE session # NoSession /\ refresh[f].active
    BY <1>1, <1>4, <2>2 DEF RefreshApply, WakeInv, OwnInv, Shape, Awake, NotRefreshing
  <2>3. CASE session # NoSession /\ ~refresh[f].active
    BY <1>1, <1>4, <2>3 DEF RefreshApply, WakeInv, Awake
  <2> QED
    BY <2>1, <2>2, <2>3
<1>5. CASE RefreshKick(f)
  BY <1>1, <1>5 DEF RefreshKick, WakeInv, Awake
<1>6. CASE \E c \in {"none", owed} : RefreshAsk(f, c)
  <2>1. refresh[f].pc # "kick" /\ UNCHANGED <<session, inactive, queue, sender, accepting, kick>>
    BY <1>6 DEF RefreshAsk
  <2> QED
    BY <1>1, <1>2, <2>1, StillAwake DEF WakeInv, Queued
<1> QED
  BY <1>3, <1>4, <1>5, <1>6 DEF RefreshStep

LEMMA TimeWake ==
  ASSUME WakeInv, Elapse \/ (\E a \in Alert : Expire(a)) \/ Restart \/ UNCHANGED vars
  PROVE  WakeInv'
<1>1. OwnInv'
  BY TimeOwn DEF WakeInv
<1>2. CASE Elapse
  BY <1>1, <1>2, StillAwake DEF Elapse, WakeInv, Queued, server
<1>3. CASE \E a \in Alert : Expire(a)
  BY <1>1, <1>3, StillAwake DEF Expire, WakeInv, Queued, server
<1>4. CASE Restart
  BY <1>1, <1>4 DEF Restart, WakeInv, Awake, Asleep
<1>5. CASE UNCHANGED vars
  BY <1>1, <1>5, StillAwake DEF vars, client, WakeInv, Queued
<1> QED
  BY <1>2, <1>3, <1>4, <1>5

LEMMA NextWake == ASSUME WakeInv, ~OrdersPaid, [Next]_vars PROVE WakeInv'
BY SessionsWake, AcceptWake, SendWake, RefreshWake, TimeWake DEF Next

\* Without pending orders, for any alerts, sessions and calls of Refresh: the send loop
\* sleeps without a timer only when there is nothing to send, or somebody about to wake it.
THEOREM NoWakeupIsLost == ASSUME ~OrdersPaid PROVE Spec => []NoLostWakeup
<1>1. Init => WakeInv
  BY InitWake
<1>2. WakeInv /\ [Next]_vars => WakeInv'
  BY NextWake
<1>3. WakeInv => NoLostWakeup
  BY DEF WakeInv, Awake, NoLostWakeup
<1> QED
  BY <1>1, <1>2, <1>3, PTL DEF Spec

-----------------------------------------------------------------------------
(***************************************************************************)
(* Types, with the bounds of the queue and of the attempts.                *)
(***************************************************************************)

\* Numbers given to the members of a finite set have a smallest and a largest: a
\* smallest subset for which they had not would have one when a member is taken out.
LEMMA Extremes ==
  ASSUME NEW S, IsFiniteSet(S), S # {}, NEW f, \A s \in S : f[s] \in Nat
  PROVE  /\ \E s \in S : \A t \in S : f[s] <= f[t]
         /\ \E s \in S : \A t \in S : f[s] >= f[t]
<1> DEFINE Good(T) == /\ \E s \in T : \A t \in T : f[s] <= f[t]
                      /\ \E s \in T : \A t \in T : f[s] >= f[t]
           Bad == {T \in SUBSET S : T # {} /\ ~Good(T)}
<1> SUFFICES ASSUME Bad # {} PROVE FALSE
  OBVIOUS
<1>1. IsWellFoundedOn(StrictSubsetOrdering(S), FiniteSubsetsOf(S)) /\ FiniteSubsetsOf(S) = SUBSET S
  BY FS_StrictSubsetOrderingWellFounded, FS_FiniteSubsetsOfFinite
<1>2. PICK T \in Bad : \A U \in Bad : <<U, T>> \notin StrictSubsetOrdering(S)
  <2> HIDE DEF Bad
  <2>1. Bad \subseteq FiniteSubsetsOf(S)
    BY <1>1 DEF Bad
  <2> QED
    BY <1>1, <2>1, WFMin
<1>3. PICK x : x \in T
  OBVIOUS
<1> DEFINE U == T \ {x}
<1>4. U \notin Bad
  <2>1. U \in SUBSET S /\ T \in SUBSET S /\ U \subseteq T /\ U # T
    BY <1>3
  <2> QED
    BY <1>2, <2>1 DEF StrictSubsetOrdering
<1>5. CASE U = {}
  <2>1. T = {x} /\ f[x] \in Nat
    BY <1>3, <1>5
  <2> QED
    BY <1>2, <2>1
<1>6. CASE U # {}
  <2>1. PICK lo \in U, hi \in U : \A t \in U : f[lo] <= f[t] /\ f[hi] >= f[t]
    BY <1>4, <1>6
  <2>2. \A t \in T : f[t] \in Nat /\ (t = x \/ t \in U)
    OBVIOUS
  <2>3. \E s \in T : \A t \in T : f[s] <= f[t]
    <3>1. CASE f[lo] <= f[x]
      BY <2>1, <2>2, <3>1
    <3>2. CASE ~(f[lo] <= f[x])
      <4>1. \A t \in T : f[x] <= f[t]
        BY <1>3, <2>1, <2>2, <3>2
      <4> QED
        BY <1>3, <4>1
    <3> QED
      BY <3>1, <3>2
  <2>4. \E s \in T : \A t \in T : f[s] >= f[t]
    <3>1. CASE f[hi] >= f[x]
      BY <2>1, <2>2, <3>1
    <3>2. CASE ~(f[hi] >= f[x])
      <4>1. \A t \in T : f[x] >= f[t]
        BY <1>3, <2>1, <2>2, <3>2
      <4> QED
        BY <1>3, <4>1
    <3> QED
      BY <3>1, <3>2
  <2> QED
    BY <1>2, <2>3, <2>4
<1> QED
  BY <1>5, <1>6

\* The queue's part of the types: no more events than queueMax, none with all its
\* attempts behind it.
QueueOK ==
  /\ Queued \in SUBSET Alert /\ Cardinality(Queued) <= QueueMax
  /\ queue \in [Queued -> Entry]

\* A queue that keeps some of its events, changed or not, stays one.
LEMMA QueueShrinks ==
  ASSUME QueueOK, NEW S \in SUBSET Queued, queue' \in [S -> Entry]
  PROVE  QueueOK'
<1>1. Queued' = S
  BY DEF Queued
<1>2. IsFiniteSet(Queued)
  BY FS_Subset, CloudAssumption DEF QueueOK
<1>3. Cardinality(S) <= Cardinality(Queued) /\ Cardinality(S) \in Nat /\ Cardinality(Queued) \in Nat
  BY <1>2, FS_Subset, FS_CardinalityType
<1>4. QueueMax \in Nat
  BY CloudAssumption
<1> QED
  BY <1>1, <1>3, <1>4 DEF QueueOK

LEMMA QueueEmptied ==
  ASSUME QueueOK, queue' = EmptyQueue
  PROVE  QueueOK'
<1>1. {} \in SUBSET Queued /\ queue' \in [{} -> Entry]
  BY DEF EmptyQueue
<1> QED
  BY <1>1, QueueShrinks

LEMMA QueueKept ==
  ASSUME QueueOK, NEW S \in SUBSET Queued, queue' = Keep(S)
  PROVE  QueueOK'
<1>1. Keep(S) \in [S -> Entry]
  BY DEF QueueOK, Keep, Restrict
<1> QED
  BY <1>1, QueueShrinks

\* A pushed event has a place after all others; beyond queueMax the oldest leaves.
LEMMA QueuePushed ==
  ASSUME QueueOK, NEW a \in Alert, a \notin Queued, Push(a)
  PROVE  QueueOK'
<1>f. IsFiniteSet(Queued) /\ Cardinality(Queued) \in Nat /\ QueueMax \in Nat \ {0}
  BY FS_Subset, FS_CardinalityType, CloudAssumption DEF QueueOK
<1> DEFINE at == [b \in Queued |-> queue[b].at]
           kept == IF Cardinality(Queued) < QueueMax THEN Queued ELSE Queued \ {Oldest}
<1>1. \A b \in Queued : queue[b] \in Entry /\ queue[b].at \in Nat \ {0} /\ at[b] = queue[b].at
  BY DEF QueueOK, Entry
<1>2. After \in Nat \ {0}
  <2>1. CASE Queued = {}
    BY <2>1 DEF After
  <2>2. CASE Queued # {}
    <3>1. \E n \in {queue[b].at : b \in Queued} : \A b \in Queued : n >= queue[b].at
      <4>1. \A b \in Queued : at[b] \in Nat
        BY <1>1
      <4> HIDE DEF at
      <4>2. \E s \in Queued : \A t \in Queued : at[s] >= at[t]
        BY <1>f, <2>2, <4>1, Extremes
      <4> QED
        BY <1>1, <4>2
    <3>2. (CHOOSE n \in {queue[b].at : b \in Queued} : \A b \in Queued : n >= queue[b].at)
            \in {queue[b].at : b \in Queued}
      BY <3>1
    <3> DEFINE m == CHOOSE n \in {queue[b].at : b \in Queued} : \A b \in Queued : n >= queue[b].at
    <3>3. m \in Nat
      BY <1>1, <3>2
    <3>4. After = 1 + m
      BY <2>2 DEF After
    <3> HIDE DEF m
    <3> QED
      BY <3>3, <3>4
  <2> QED
    BY <2>1, <2>2
<1>3. kept \subseteq Queued /\ IsFiniteSet(kept) /\ Cardinality(kept) + 1 <= QueueMax
  <2>1. CASE Cardinality(Queued) < QueueMax
    BY <1>f, <2>1
  <2>2. CASE ~(Cardinality(Queued) < QueueMax)
    <3>1. Cardinality(Queued) = QueueMax
      BY <1>f, <2>2 DEF QueueOK
    <3>2. Queued # {}
      BY <1>f, <3>1, FS_EmptySet
    <3>3. \E s \in Queued : \A t \in Queued : at[s] <= at[t]
      <4>1. \A b \in Queued : at[b] \in Nat
        BY <1>1
      <4> HIDE DEF at
      <4> QED
        BY <1>f, <3>2, <4>1, Extremes
    <3>4. Oldest \in Queued
      BY <1>1, <3>3 DEF Oldest
    <3>5. Cardinality(Queued \ {Oldest}) = Cardinality(Queued) - 1 /\ IsFiniteSet(Queued \ {Oldest})
      BY <1>f, <3>4, FS_RemoveElement
    <3> QED
      BY <1>f, <2>2, <3>1, <3>5
  <2> QED
    BY <2>1, <2>2
<1>4. queue' = [b \in kept \cup {a} |->
                  IF b = a THEN [at |-> After, tries |-> 0, resting |-> FALSE, old |-> FALSE]
                  ELSE queue[b]]
  BY DEF Push
<1> HIDE DEF kept
<1>5. [at |-> After, tries |-> 0, resting |-> FALSE, old |-> FALSE] \in Entry
  BY <1>2, CloudAssumption DEF Entry
<1>6. Queued' = kept \cup {a} /\ queue' \in [kept \cup {a} -> Entry]
  BY <1>1, <1>3, <1>4, <1>5 DEF Queued
<1>7. Cardinality(kept \cup {a}) <= QueueMax
  <2>1. Cardinality(kept) \in Nat
    BY <1>3, FS_CardinalityType
  <2>2. Cardinality(kept \cup {a}) \in {Cardinality(kept), Cardinality(kept) + 1}
    BY <1>3, FS_AddElement
  <2>3. Cardinality(kept \cup {a}) \in Nat
    BY <1>3, FS_AddElement, FS_CardinalityType
  <2> QED
    BY <1>3, <1>f, <2>1, <2>2, <2>3
<1>8. kept \cup {a} \in SUBSET Alert
  BY <1>3 DEF QueueOK
<1> QED
  BY <1>6, <1>7, <1>8 DEF QueueOK

ForwardInv == OwnInv /\ TypeOK

LEMMA InitForward == Init => ForwardInv
<1> SUFFICES ASSUME Init PROVE TypeOK
  BY InitOwn DEF ForwardInv
<1>1. Shape
  BY InitOwn DEF OwnInv
<1>2. Queued = {} /\ Cardinality({}) = 0 /\ QueueMax \in Nat /\ InboxMax \in Nat
  BY FS_EmptySet, CloudAssumption DEF Init, Queued, EmptyQueue
<1>3. queue \in [Queued -> Entry]
  BY <1>2 DEF Init, EmptyQueue
<1>4. Cardinality(Queued) <= QueueMax /\ Cardinality(inbox) <= InboxMax
  BY <1>2 DEF Init
<1>5. inbox \in SUBSET Alert /\ Queued \in SUBSET Alert
  BY <1>2 DEF Init
<1>6. /\ leaving \in Sessions /\ owed \in {"none", "signIn", "order"}
      /\ verifying \in BOOLEAN /\ inactive \in BOOLEAN /\ hold \in BOOLEAN /\ kick \in BOOLEAN
      /\ registered \in SUBSET Session /\ used \in SUBSET Session /\ paid \in SUBSET Session
      /\ raised \in SUBSET Alert
  BY DEF Init, Sessions
<1> QED
  BY <1>1, <1>3, <1>4, <1>5, <1>6 DEF TypeOK, Shape

\* What the types are besides the shape (which OwnInv holds) and the queue.
Rest ==
  /\ leaving \in Sessions /\ owed \in {"none", "signIn", "order"}
  /\ verifying \in BOOLEAN
  /\ inactive \in BOOLEAN /\ hold \in BOOLEAN /\ kick \in BOOLEAN
  /\ inbox \in SUBSET Alert /\ Cardinality(inbox) <= InboxMax
  /\ registered \in SUBSET Session /\ used \in SUBSET Session /\ paid \in SUBSET Session
  /\ raised \in SUBSET Alert

LEMMA Types == TypeOK <=> Shape /\ QueueOK /\ Rest
BY DEF TypeOK, Shape, QueueOK, Rest

\* The inbox only gets an alert when it has room.
LEMMA InboxRest ==
  ASSUME Rest, NEW a \in Alert, Enqueue(a) \/ AcceptCheck(a)
  PROVE  Rest'
<1>f. IsFiniteSet(inbox) /\ Cardinality(inbox) \in Nat /\ InboxMax \in Nat
  BY FS_Subset, FS_CardinalityType, CloudAssumption DEF Rest
<1>1. CASE Enqueue(a)
  <2>1. Cardinality(inbox \cup {a}) \in {Cardinality(inbox), Cardinality(inbox) + 1}
    BY <1>f, FS_AddElement
  <2>2. Cardinality(inbox') <= InboxMax
    BY <1>1, <1>f, <2>1 DEF Enqueue, Rest
  <2> QED
    BY <1>1, <2>2 DEF Enqueue, Rest, server
<1>2. CASE AcceptCheck(a)
  <2>1. Cardinality(inbox \ {a}) \in {Cardinality(inbox), Cardinality(inbox) - 1}
    BY <1>f, FS_RemoveElement
  <2>2. Cardinality(inbox') <= InboxMax
    BY <1>2, <1>f, <2>1 DEF AcceptCheck, Rest
  <2> QED
    BY <1>2, <2>2 DEF AcceptCheck, Rest, server
<1> QED
  BY <1>1, <1>2

LEMMA OthersRest ==
  ASSUME ForwardInv, Rest, [Next]_vars, ~\E a \in Alert : Enqueue(a) \/ AcceptCheck(a)
  PROVE  Rest'
<1>0. session \in Sessions
  BY DEF ForwardInv, OwnInv, Shape
<1>1. CASE \E s \in Session : SignIn(s) \/ AccountChanges(s)
  BY <1>1 DEF SignIn, AccountChanges, Rest, client, history, Fresh
<1>2. CASE SignOut
  BY <1>0, <1>2 DEF SignOut, Rest, history
<1>3. CASE SignedOut \/ OrderPaid
  BY <1>3 DEF SignedOut, OrderPaid, Rest, Fresh, Sessions, server, history
<1>4. CASE (\E a \in Alert : Expire(a)) \/ AcceptPush \/ AcceptKick \/ Elapse \/ UNCHANGED vars
  BY <1>4 DEF Expire, AcceptPush, AcceptKick, Elapse, Rest, server, history, vars, client
<1>5. CASE Restart
  <2>1. Cardinality(inbox') <= InboxMax
    BY <1>5, FS_EmptySet, CloudAssumption DEF Restart
  <2>2. inbox' = {} /\ leaving' = NoSession /\ verifying' = FALSE /\ owed' = "none" /\ hold' = FALSE /\ kick' = FALSE
    BY <1>5 DEF Restart
  <2>3. inactive' \in {inactive, FALSE} /\ UNCHANGED <<registered, used, paid, raised>>
    BY <1>5 DEF Restart, Fresh, server, history
  <2> QED
    BY <2>1, <2>2, <2>3 DEF Rest, Sessions
<1>6. CASE SendStep
  BY <1>6 DEF SendStep, Wake, Look, Send, SendResults, SendGone, SendUnpaid, SendRefused,
    SendLater, Rest, Fresh, server, history
<1>7. ASSUME NEW f \in Refresher, RefreshStep(f) \/ \E c \in {"none", owed} : RefreshAsk(f, c)
      PROVE  Rest'
  <2>1. refresh[f].active \in BOOLEAN
    BY DEF ForwardInv, OwnInv, Shape
  <2> QED
    BY <1>7, <2>1 DEF RefreshStep, RefreshAsk, RefreshGone, RefreshApply, RefreshKick, Rest,
      Fresh, server, history
<1> QED
  BY <1>1, <1>2, <1>3, <1>4, <1>5, <1>6, <1>7 DEF Next

\* An answer in part: what is tried again has an attempt left.
LEMMA ResultsQueue ==
  ASSUME QueueOK, SendResults
  PROVE  QueueOK'
<1> DEFINE again == (sender.batch \ sender.res.done) \cap Queued
           spent == {a \in again : queue[a].tries + 1 >= MaxAttempts}
           S == Queued \ (sender.res.done \cup spent)
<1>1. queue' = [a \in S |-> IF a \in again
                             THEN [queue[a] EXCEPT !.tries = @ + 1, !.resting = TRUE] ELSE queue[a]]
  BY DEF SendResults
<1>2. MaxAttempts \in Nat \ {0}
  BY CloudAssumption
<1>3. \A a \in Queued : queue[a] \in Entry
  BY DEF QueueOK
<1>4. ASSUME NEW a \in S, a \in again
      PROVE  [queue[a] EXCEPT !.tries = @ + 1, !.resting = TRUE] \in Entry
  <2>1. a \notin spent /\ a \in Queued
    OBVIOUS
  <2>2. ~(queue[a].tries + 1 >= MaxAttempts)
    BY <1>4, <2>1
  <2> HIDE DEF again, spent, S
  <2>3. queue[a].tries + 1 \in 0 .. MaxAttempts - 1
    BY <1>2, <1>3, <2>1, <2>2 DEF Entry
  <2> QED
    BY <1>3, <2>1, <2>3 DEF Entry
<1>5. S \in SUBSET Queued
  OBVIOUS
<1> HIDE DEF S, again
<1>6. queue' \in [S -> Entry]
  BY <1>1, <1>3, <1>4, <1>5
<1> QED
  BY <1>5, <1>6, QueueShrinks

LEMMA NextQueue ==
  ASSUME ForwardInv, QueueOK, [Next]_vars
  PROVE  QueueOK'
<1>q. \A a \in Queued : queue[a] \in Entry
  BY DEF QueueOK
<1>1. CASE UNCHANGED queue
  BY <1>1 DEF QueueOK, Queued
<1>2. CASE queue' = EmptyQueue
  BY <1>2, QueueEmptied
<1>3. CASE AcceptPush
  <2>1. CASE session = accepting.dev
    <3>1. accepting.alert \in Alert /\ accepting.alert \notin Queued /\ Push(accepting.alert)
      BY <1>3, <2>1 DEF AcceptPush, ForwardInv, OwnInv, OnePlace
    <3> QED
      BY <3>1, QueuePushed
  <2>2. CASE session # accepting.dev
    BY <1>1, <1>3, <2>2 DEF AcceptPush
  <2> QED
    BY <2>1, <2>2
<1>4. CASE Look
  BY <1>4, QueueKept DEF Look
<1>5. CASE SendResults
  BY <1>5, ResultsQueue
<1>6. CASE SendRefused
  BY <1>6, QueueKept DEF SendRefused
<1>7. CASE Elapse
  <2>1. CASE \E a \in Queued : queue' = [queue EXCEPT ![a].resting = FALSE]
    <3>1. queue' \in [Queued -> Entry]
      BY <1>q, <2>1 DEF QueueOK, Entry
    <3> QED
      BY <3>1, QueueShrinks
  <2> QED
    BY <1>1, <1>7, <2>1 DEF Elapse
<1>8. CASE \E a \in Alert : Expire(a)
  <2>a. PICK a \in Queued : queue' = [queue EXCEPT ![a].old = TRUE]
    BY <1>8 DEF Expire
  <2>b. [queue[a] EXCEPT !.old = TRUE] \in Entry
    BY <1>q DEF Entry
  <2>1. queue' \in [Queued -> Entry]
    BY <2>a, <2>b DEF QueueOK
  <2> QED
    BY <2>1, QueueShrinks
<1>9. CASE \/ \E s \in Session : SignIn(s) \/ AccountChanges(s)
           \/ SignOut \/ SignedOut \/ OrderPaid \/ Restart \/ UNCHANGED vars
  BY <1>1, <1>2, <1>9 DEF SignIn, AccountChanges, SignOut, SignedOut, OrderPaid, Restart,
    Fresh, client, vars
<1>10. CASE \E a \in Alert : Enqueue(a) \/ AcceptCheck(a)
  BY <1>1, <1>10 DEF Enqueue, AcceptCheck
<1>11. CASE AcceptKick \/ Wake \/ Send \/ SendGone \/ SendUnpaid \/ SendLater
  BY <1>1, <1>2, <1>11 DEF AcceptKick, Wake, Send, SendGone, SendUnpaid, SendLater, Fresh
<1>12. CASE \E f \in Refresher : RefreshStep(f) \/ \E c \in {"none", owed} : RefreshAsk(f, c)
  BY <1>1, <1>2, <1>12 DEF RefreshStep, RefreshAsk, RefreshGone, RefreshApply, RefreshKick, Fresh
<1> QED
  BY <1>3, <1>4, <1>5, <1>6, <1>7, <1>8, <1>9, <1>10, <1>11, <1>12 DEF Next, SendStep

\* The state of the client keeps its types, and its bounds: alertInbox, queueMax (the
\* oldest event makes room) and maxAttempts, for any alerts, sessions and bounds.
THEOREM ForwardTypeCorrect == Spec => []TypeOK
<1>1. Init => ForwardInv
  BY InitForward
<1>2. ForwardInv /\ [Next]_vars => ForwardInv'
  <2> SUFFICES ASSUME ForwardInv, [Next]_vars PROVE ForwardInv'
    OBVIOUS
  <2>1. OwnInv' /\ Shape'
    BY NextOwn DEF ForwardInv, OwnInv
  <2>2. QueueOK /\ Rest
    BY Types DEF ForwardInv
  <2>3. QueueOK' /\ Rest'
    BY <2>2, NextQueue, InboxRest, OthersRest
  <2>4. TypeOK'
    BY <2>1, <2>3 DEF TypeOK, Shape, QueueOK, Rest
  <2> QED
    BY <2>1, <2>4 DEF ForwardInv
<1>3. ForwardInv => TypeOK
  BY DEF ForwardInv
<1> QED
  BY <1>1, <1>2, <1>3, PTL DEF Spec

=============================================================================
