---------------------------- MODULE ConnectProofs ---------------------------
(***************************************************************************)
(* Proofs about Connect, for any flows, hosts and ways through other       *)
(* hosts: a secret stays with the host it was typed for, and the prompt on *)
(* the screen is the one its flow waits for.                               *)
(***************************************************************************)
EXTENDS Connect, TLAPS

\* A call waits only before its last attempt is spent, and one that called another
\* waits for it.
Waits ==
  \A f \in Flow : \A i \in 1 .. Len(stack[f]) :
    /\ stack[f][i].pc # "connect" => stack[f][i].attempt < Attempts
    /\ i # Len(stack[f]) => stack[f][i].pc # "connect"

ConnectInv == ConnTypeOK /\ Waits /\ SecretStaysWithHost /\ PromptHasWaiter

\* What holds of a call, and of all but the last of a flow.
Good(c) ==
  /\ c \in Call
  /\ c.pc # "connect" => c.attempt < Attempts
  /\ c.creds \in {NoHost, c.host}
GoodStack(s) ==
  /\ s \in Seq(Call)
  /\ \A i \in 1 .. Len(s) : Good(s[i]) /\ (i # Len(s) => s[i].pc # "connect")

LEMMA StacksGood ==
  ASSUME ConnTypeOK
  PROVE  Waits /\ SecretStaysWithHost <=> \A f \in Flow : GoodStack(stack[f])
<1>1. \A f \in Flow : stack[f] \in Seq(Call) /\ \A i \in 1 .. Len(stack[f]) : stack[f][i] \in Call
  BY DEF ConnTypeOK
<1> QED
  BY <1>1 DEF Waits, SecretStaysWithHost, GoodStack, Good

\* The stack below the running call, and another call in its place.
LEMMA BelowGood ==
  ASSUME NEW f \in Flow, GoodStack(stack[f]), Active(f)
  PROVE  /\ Top(f) \in Call /\ Good(Top(f))
         /\ GoodStack(Below(f))
         /\ \A i \in 1 .. Len(Below(f)) : Below(f)[i].pc # "connect"
<1>1. stack[f] \in Seq(Call) /\ Len(stack[f]) \in Nat /\ Len(stack[f]) >= 1
  BY DEF GoodStack, Active
<1>2. Top(f) \in Call /\ Good(Top(f))
  BY <1>1 DEF GoodStack, Good, Top
<1>3. /\ Below(f) \in Seq(Call) /\ Len(Below(f)) = Len(stack[f]) - 1
      /\ \A i \in 1 .. Len(Below(f)) : Below(f)[i] = stack[f][i]
  BY <1>1 DEF Below
<1> QED
  BY <1>1, <1>2, <1>3 DEF GoodStack

LEMMA AppendGood ==
  ASSUME NEW s, GoodStack(s), \A i \in 1 .. Len(s) : s[i].pc # "connect", NEW c, Good(c)
  PROVE  /\ GoodStack(Append(s, c)) /\ Append(s, c) # <<>>
         /\ Append(s, c)[Len(Append(s, c))] = c
         /\ c.pc # "connect" => \A i \in 1 .. Len(Append(s, c)) : Append(s, c)[i].pc # "connect"
<1>1. c \in Call /\ s \in Seq(Call) /\ Len(s) \in Nat
  BY DEF Good, GoodStack
<1>2. /\ Append(s, c) \in Seq(Call) /\ Len(Append(s, c)) = Len(s) + 1
      /\ Append(s, c)[Len(s) + 1] = c
      /\ \A i \in 1 .. Len(s) : Append(s, c)[i] = s[i]
  BY <1>1
<1> DEFINE t == Append(s, c)
<1>3. Len(t) = Len(s) + 1 /\ \A i \in 1 .. Len(t) : t[i] = IF i = Len(t) THEN c ELSE s[i]
  BY <1>1, <1>2
<1>4. t # <<>>
  BY <1>1, <1>3
<1> HIDE DEF t
<1>5. \A i \in 1 .. Len(t) : Good(t[i])
  BY <1>1, <1>3 DEF GoodStack
<1>6. \A i \in 1 .. Len(t) : i # Len(t) => t[i].pc # "connect"
  BY <1>1, <1>3
<1>7. GoodStack(t)
  BY <1>2, <1>5, <1>6 DEF GoodStack, t
<1>8. t[Len(t)] = c
  BY <1>1, <1>3
<1>9. c.pc # "connect" => \A i \in 1 .. Len(t) : t[i].pc # "connect"
  BY <1>3, <1>6, <1>8
<1> QED
  BY <1>4, <1>7, <1>8, <1>9 DEF t

-----------------------------------------------------------------------------

LEMMA InitConnectInv == ASSUME ConnectAssumption, ConnInit PROVE ConnectInv
<1>1. ConnTypeOK
  BY DEF ConnInit, ConnTypeOK, ConnectAssumption
<1>2. \A f \in Flow : Len(stack[f]) = 0
  BY DEF ConnInit
<1> QED
  BY <1>1, <1>2 DEF ConnInit, ConnectInv, Waits, SecretStaysWithHost, PromptHasWaiter

\* A step of a flow keeps the invariant if it keeps that flow's stack good and the
\* prompt, unless it is taken down, with its waiter.
LEMMA FlowStep ==
  ASSUME ConnectInv, NEW f \in Flow, NEW s, GoodStack(s), stack' = [stack EXCEPT ![f] = s],
         typed' \in [Flow -> 0 .. MaxTyped], connected' \subseteq Host,
         outcome' \in [Flow -> {"none", "connected", "failed"}],
         \/ prompt' = NoPrompt
         \/ prompt' = prompt /\ prompt.flow # f
         \/ /\ prompt' \in Prompt /\ prompt'.flow = f /\ s # <<>>
            /\ s[Len(s)].pc = prompt'.kind /\ s[Len(s)].about = prompt'.about
  PROVE  ConnectInv'
<1>1. stack \in [Flow -> Seq(Call)] /\ s \in Seq(Call)
  BY DEF ConnectInv, ConnTypeOK, GoodStack
<1>2. stack' \in [Flow -> Seq(Call)] /\ prompt' \in Prompt \cup {NoPrompt}
  BY <1>1 DEF ConnectInv, ConnTypeOK
<1>3. ConnTypeOK'
  BY <1>2 DEF ConnTypeOK
<1>4. \A g \in Flow : GoodStack(stack'[g])
  BY <1>1, StacksGood DEF ConnectInv
<1>5. (Waits /\ SecretStaysWithHost)'
  <2>1. \A g \in Flow : stack'[g] \in Seq(Call) /\ \A i \in 1 .. Len(stack'[g]) : stack'[g][i] \in Call
    BY <1>2
  <2> QED
    BY <1>4, <2>1 DEF Waits, SecretStaysWithHost, GoodStack, Good
<1>6. PromptHasWaiter'
  <2>1. CASE prompt' = NoPrompt
    BY <2>1 DEF PromptHasWaiter, NoPrompt
  <2>2. CASE prompt' = prompt /\ prompt.flow # f /\ prompt # NoPrompt
    <3>1. prompt.flow \in Flow
      BY <2>2 DEF ConnectInv, ConnTypeOK, Prompt
    <3>2. stack'[prompt.flow] = stack[prompt.flow]
      BY <1>1, <2>2, <3>1
    <3> QED
      BY <2>2, <3>1, <3>2 DEF ConnectInv, PromptHasWaiter, Active, Top
  <2>3. CASE /\ prompt' \in Prompt /\ prompt'.flow = f /\ s # <<>>
             /\ s[Len(s)].pc = prompt'.kind /\ s[Len(s)].about = prompt'.about
    BY <1>1, <2>3 DEF PromptHasWaiter, Active, Top
  <2> QED
    BY <2>1, <2>2, <2>3
<1> QED
  BY <1>3, <1>5, <1>6 DEF ConnectInv

\* Returning from a call.
LEMMA ReturnStack ==
  ASSUME ConnectAssumption, ConnectInv, NEW f \in Flow, Active(f), NEW ok \in BOOLEAN,
         Return(f, ok)
  PROVE  /\ outcome' \in [Flow -> {"none", "connected", "failed"}]
         /\ \E s : GoodStack(s) /\ stack' = [stack EXCEPT ![f] = s]
<1> DEFINE under == Below(f)
<1>1. GoodStack(stack[f])
  BY StacksGood DEF ConnectInv
<1>2. GoodStack(under) /\ \A i \in 1 .. Len(under) : under[i].pc # "connect"
  BY <1>1, BelowGood
<1>3. outcome' \in [Flow -> {"none", "connected", "failed"}]
  BY DEF Return, ConnectInv, ConnTypeOK
<1>4. CASE ok /\ under # <<>>
  <2> DEFINE n == Len(under)
             c == NextAttempt(under[n])
             s == [under EXCEPT ![n] = c]
  <2>1. under \in Seq(Call) /\ n \in Nat /\ n >= 1
    BY <1>2, <1>4 DEF GoodStack
  <2>2. under[n] \in Call /\ Good(under[n]) /\ under[n].pc # "connect"
    BY <1>2, <2>1 DEF GoodStack, Good
  <2>3. under[n].attempt + 1 \in 0 .. Attempts
    BY <2>2 DEF Good, Call, ConnectAssumption
  <2>4. c \in Call /\ c.pc = "connect" /\ c.creds = under[n].creds /\ c.host = under[n].host
    BY <2>2, <2>3 DEF Call, Where, NextAttempt
  <2>5. Good(c)
    BY <2>2, <2>4 DEF Good
  <2>6. /\ s \in Seq(Call) /\ Len(s) = n
        /\ \A i \in 1 .. n : s[i] = IF i = n THEN c ELSE under[i]
    <3> HIDE DEF c
    <3> QED
      BY <2>1, <2>4
  <2>7. GoodStack(s)
    <3> HIDE DEF c, s
    <3> QED
      BY <1>2, <2>1, <2>5, <2>6 DEF GoodStack
  <2>8. stack' = [stack EXCEPT ![f] = s]
    BY <1>4 DEF Return
  <2> QED
    <3> HIDE DEF s
    <3> QED
      BY <1>3, <2>7, <2>8
<1>5. CASE ~(ok /\ under # <<>>)
  <2>1. GoodStack(<<>>)
    BY DEF GoodStack
  <2> QED
    BY <1>3, <1>5, <2>1 DEF Return
<1> QED
  BY <1>4, <1>5

\* Replacing the running call by another.
LEMMA TopStack ==
  ASSUME ConnectInv, NEW f \in Flow, Active(f), NEW c, Good(c), WithTop(f, c)
  PROVE  \E s : /\ GoodStack(s) /\ stack' = [stack EXCEPT ![f] = s]
                /\ s # <<>> /\ s[Len(s)] = c
<1>1. GoodStack(stack[f])
  BY StacksGood DEF ConnectInv
<1>2. GoodStack(Below(f)) /\ \A i \in 1 .. Len(Below(f)) : Below(f)[i].pc # "connect"
  BY <1>1, BelowGood
<1> DEFINE s == Append(Below(f), c)
<1>3. GoodStack(s) /\ s # <<>> /\ s[Len(s)] = c
  BY <1>2, AppendGood
<1>4. stack' = [stack EXCEPT ![f] = s]
  BY DEF WithTop
<1> QED
  <2> HIDE DEF s
  <2> QED
    BY <1>3, <1>4

\* A flow at a place the core or the loop acts from is not the one that is asked, and
\* one with the prompt on the screen waits for it.
LEMMA Asked ==
  ASSUME ConnectAssumption, ConnectInv, NEW f \in Flow, prompt.flow = f
  PROVE  /\ Active(f) /\ prompt \in Prompt /\ Top(f).pc = prompt.kind
         /\ Top(f).about = prompt.about /\ Top(f).about \in Host
         /\ Top(f) \in Call /\ Good(Top(f)) /\ Top(f).attempt < Attempts
<1>1. prompt \in Prompt
  BY DEF ConnectInv, ConnTypeOK, NoPrompt, ConnectAssumption
<1>2. prompt # NoPrompt
  BY DEF NoPrompt, ConnectAssumption
<1>3. Active(f) /\ Top(f).pc = prompt.kind /\ Top(f).about = prompt.about
  BY <1>2 DEF ConnectInv, PromptHasWaiter
<1>4. Top(f) \in Call /\ Good(Top(f))
  BY <1>3, StacksGood, BelowGood DEF ConnectInv
<1> QED
  BY <1>1, <1>3, <1>4 DEF Prompt, Good

LEMMA NotAsked ==
  ASSUME ConnectAssumption, ConnectInv, NEW f \in Flow,
         ~Active(f) \/ Top(f).pc \in {"connect", "trusting", "jumping"}
  PROVE  prompt.flow # f
<1> SUFFICES ASSUME prompt.flow = f PROVE FALSE
  OBVIOUS
<1> QED
  BY Asked DEF Prompt

-----------------------------------------------------------------------------

LEMMA StartInv ==
  ASSUME ConnectAssumption, ConnectInv, NEW f \in Flow, NEW h \in Host, Start(f, h)
  PROVE  ConnectInv'
<1> DEFINE c == NewCall(h, NoHost)
<1>1. Good(c)
  BY DEF NewCall, Good, Call, Where, ConnectAssumption
<1>2. c \in Call
  BY <1>1 DEF Good
<1> HIDE DEF c
<1>3. GoodStack(<<c>>)
  BY <1>1, <1>2 DEF GoodStack
<1>4. prompt.flow # f
  BY NotAsked DEF Start
<1> QED
  BY <1>3, <1>4, FlowStep DEF Start, ConnectInv, ConnTypeOK, c

\* The running call returns, and its prompt, if it had one, is taken down.
LEMMA ReturnInv ==
  ASSUME ConnectAssumption, ConnectInv, NEW f \in Flow, Active(f), NEW ok \in BOOLEAN,
         Return(f, ok), typed' = typed, connected' \subseteq Host,
         prompt' = NoPrompt \/ (prompt' = prompt /\ prompt.flow # f)
  PROVE  ConnectInv'
BY ReturnStack, FlowStep DEF ConnectInv, ConnTypeOK

LEMMA AskInv ==
  ASSUME ConnectAssumption, ConnectInv, NEW f \in Flow, At(f, "connect"),
         Top(f).attempt < Attempts, NEW kind \in {"trust", "credential"}, NEW h \in Host,
         AskUser(f, kind, h), UNCHANGED <<typed, connected, outcome>>
  PROVE  ConnectInv'
<1> DEFINE c == [Top(f) EXCEPT !.pc = kind, !.about = h]
<1>1. Top(f) \in Call /\ Good(Top(f)) /\ Active(f)
  BY StacksGood, BelowGood DEF ConnectInv, At
<1>2. /\ c \in Call /\ c.pc = kind /\ c.about = h /\ c.attempt = Top(f).attempt
      /\ c.creds = Top(f).creds /\ c.host = Top(f).host
  BY <1>1 DEF Call, Where
<1>3. Good(c)
  BY <1>1, <1>2 DEF Good
<1>4. /\ WithTop(f, c)
      /\ prompt' \in Prompt /\ prompt'.flow = f /\ prompt'.kind = kind /\ prompt'.about = h
  BY DEF AskUser, Prompt
<1> HIDE DEF c
<1>5. PICK s : /\ GoodStack(s) /\ stack' = [stack EXCEPT ![f] = s]
               /\ s # <<>> /\ s[Len(s)] = c
  BY <1>1, <1>3, <1>4, TopStack
<1>6. s[Len(s)].pc = prompt'.kind /\ s[Len(s)].about = prompt'.about
  BY <1>2, <1>4, <1>5
<1>7. /\ typed' \in [Flow -> 0 .. MaxTyped] /\ connected' \subseteq Host
      /\ outcome' \in [Flow -> {"none", "connected", "failed"}]
  BY DEF ConnectInv, ConnTypeOK
<1> QED
  BY <1>4, <1>5, <1>6, <1>7, FlowStep

LEMMA AcceptInv ==
  ASSUME ConnectAssumption, ConnectInv, NEW f \in Flow, Accept(f)
  PROVE  ConnectInv'
<1> DEFINE c == [Top(f) EXCEPT !.pc = "trusting"]
<1>1. prompt.flow = f /\ prompt' = NoPrompt /\ WithTop(f, c) /\ UNCHANGED <<typed, connected, outcome>>
  BY DEF Accept
<1>2. Active(f) /\ Top(f) \in Call /\ Good(Top(f)) /\ Top(f).attempt < Attempts
  BY <1>1, Asked
<1>3. c \in Call /\ c.attempt = Top(f).attempt /\ c.creds = Top(f).creds /\ c.host = Top(f).host
  BY <1>2 DEF Call, Where
<1>4. Good(c)
  BY <1>2, <1>3 DEF Good
<1> HIDE DEF c
<1> QED
  BY <1>1, <1>2, <1>4, TopStack, FlowStep DEF ConnectInv, ConnTypeOK

LEMMA AnswerInv ==
  ASSUME ConnectAssumption, ConnectInv, NEW f \in Flow, Answer(f)
  PROVE  ConnectInv'
<1> DEFINE c == Top(f)
<1>1. /\ prompt.flow = f /\ prompt' = NoPrompt /\ UNCHANGED <<connected, outcome>>
      /\ typed[f] < MaxTyped /\ typed' = [typed EXCEPT ![f] = @ + 1]
  BY DEF Answer
<1>2. Active(f) /\ c \in Call /\ Good(c) /\ c.attempt < Attempts /\ c.about \in Host
  BY <1>1, Asked
<1>3. typed' \in [Flow -> 0 .. MaxTyped]
  BY <1>1 DEF ConnectInv, ConnTypeOK, ConnectAssumption
<1>4. \A h \in Host : Good(NewCall(h, h))
  BY DEF NewCall, Good, Call, Where, ConnectAssumption
<1>5. CASE c.about # c.host
  <2> DEFINE j == [c EXCEPT !.pc = "jumping"]
             s == Append(Below(f), j)
             t == Append(s, NewCall(c.about, c.about))
  <2>1. /\ j \in Call /\ j.pc = "jumping" /\ j.attempt = c.attempt
        /\ j.creds = c.creds /\ j.host = c.host
    BY <1>2 DEF Call, Where
  <2>2. Good(j)
    BY <1>2, <2>1 DEF Good
  <2>3. GoodStack(Below(f)) /\ \A i \in 1 .. Len(Below(f)) : Below(f)[i].pc # "connect"
    BY <1>2, StacksGood, BelowGood DEF ConnectInv
  <2>4. GoodStack(s) /\ \A i \in 1 .. Len(s) : s[i].pc # "connect"
    <3> HIDE DEF j
    <3> QED
      BY <2>1, <2>2, <2>3, AppendGood
  <2>5. GoodStack(t)
    <3> HIDE DEF s
    <3> QED
      BY <1>2, <1>4, <2>4, AppendGood
  <2>6. stack' = [stack EXCEPT ![f] = t]
    BY <1>5 DEF Answer
  <2> HIDE DEF t
  <2> QED
    BY <1>1, <1>3, <2>5, <2>6, FlowStep DEF ConnectInv, ConnTypeOK
<1>6. CASE c.about = c.host
  <2>1. WithTop(f, NewCall(c.host, c.host)) /\ Good(NewCall(c.host, c.host))
    BY <1>2, <1>4, <1>6 DEF Answer, Call
  <2> QED
    BY <1>1, <1>2, <1>3, <2>1, TopStack, FlowStep DEF ConnectInv, ConnTypeOK
<1> QED
  BY <1>5, <1>6

LEMMA TrustedInv ==
  ASSUME ConnectAssumption, ConnectInv, NEW f \in Flow, Trusted(f)
  PROVE  ConnectInv'
<1> DEFINE c == NextAttempt(Top(f))
<1>1. Active(f) /\ Top(f).pc = "trusting" /\ WithTop(f, c)
      /\ UNCHANGED <<prompt, typed, connected, outcome>>
  BY DEF Trusted, At, Continue
<1>2. Top(f) \in Call /\ Good(Top(f))
  BY <1>1, StacksGood, BelowGood DEF ConnectInv
<1>3. Top(f).attempt + 1 \in 0 .. Attempts
  BY <1>1, <1>2 DEF Good, Call, ConnectAssumption
<1>4. c \in Call /\ c.pc = "connect" /\ c.creds = Top(f).creds /\ c.host = Top(f).host
  BY <1>2, <1>3 DEF Call, Where, NextAttempt
<1>5. Good(c)
  BY <1>2, <1>4 DEF Good
<1>6. prompt.flow # f
  BY <1>1, NotAsked
<1> HIDE DEF c
<1> QED
  BY <1>1, <1>5, <1>6, TopStack, FlowStep DEF ConnectInv, ConnTypeOK

-----------------------------------------------------------------------------

LEMMA NextConnectInv ==
  ASSUME ConnectAssumption, ConnectInv, [ConnNext]_connVars
  PROVE  ConnectInv'
<1>1. CASE UNCHANGED connVars
  BY <1>1 DEF connVars, ConnectInv, ConnTypeOK, Waits, SecretStaysWithHost, PromptHasWaiter,
    Active, Top
<1>2. ASSUME NEW f \in Flow, NEW h \in Host, Start(f, h)
      PROVE  ConnectInv'
  BY <1>2, StartInv
<1>3. ASSUME NEW f \in Flow, GiveUp(f) \/ CoreRefuses(f) \/ TrustFails(f)
      PROVE  ConnectInv'
  <2>1. Active(f) /\ prompt.flow # f
    BY <1>3, NotAsked DEF GiveUp, CoreRefuses, TrustFails, At
  <2>2. Return(f, FALSE) /\ UNCHANGED <<prompt, typed, connected>>
    BY <1>3 DEF GiveUp, CoreRefuses, TrustFails
  <2> QED
    BY <2>1, <2>2, ReturnInv DEF ConnectInv, ConnTypeOK
<1>4. ASSUME NEW f \in Flow, CoreConnects(f)
      PROVE  ConnectInv'
  <2>1. Active(f) /\ prompt.flow # f
    BY <1>4, NotAsked DEF CoreConnects, At
  <2>2. Top(f).host \in Host
    BY <2>1, StacksGood, BelowGood DEF ConnectInv, Call
  <2>3. Return(f, TRUE) /\ UNCHANGED <<prompt, typed>> /\ connected' \subseteq Host
    BY <1>4, <2>2 DEF CoreConnects, ConnectInv, ConnTypeOK
  <2> QED
    BY <2>1, <2>3, ReturnInv
<1>5. ASSUME NEW f \in Flow, NEW h \in Host, CoreAsksTrust(f, h) \/ CoreAsksSecret(f, h)
      PROVE  ConnectInv'
  BY <1>5, AskInv DEF CoreAsksTrust, CoreAsksSecret
<1>6. ASSUME NEW f \in Flow, Cancel(f)
      PROVE  ConnectInv'
  <2>1. Active(f) /\ Return(f, FALSE) /\ prompt' = NoPrompt /\ UNCHANGED <<typed, connected>>
    BY <1>6, Asked DEF Cancel
  <2> QED
    BY <2>1, ReturnInv DEF ConnectInv, ConnTypeOK
<1> QED
  BY <1>1, <1>2, <1>3, <1>4, <1>5, <1>6, AcceptInv, AnswerInv, TrustedInv
    DEF ConnNext, CoreAnswers, UserAnswers

\* The inductive invariant of nested calls and the one prompt.
THEOREM ConnectSafe == ASSUME ConnectAssumption PROVE ConnSpec => []ConnectInv
<1>1. ConnInit => ConnectInv
  BY InitConnectInv
<1>2. ConnectInv /\ [ConnNext]_connVars => ConnectInv'
  BY NextConnectInv
<1> QED
  BY <1>1, <1>2, PTL DEF ConnSpec

\* A secret is never sent to another host than the one it was typed for.
THEOREM SecretsStay == ASSUME ConnectAssumption PROVE ConnSpec => []SecretStaysWithHost
BY ConnectSafe, PTL DEF ConnectInv

\* The prompt on the screen is the one its flow waits for.
THEOREM PromptsHaveWaiters == ASSUME ConnectAssumption PROVE ConnSpec => []PromptHasWaiter
BY ConnectSafe, PTL DEF ConnectInv

-----------------------------------------------------------------------------
(* Who waits for whom: every call but the running one waits for the call    *)
(* over it, which is for the host it has to unlock; the running one never   *)
(* waits for a call that has returned.                                      *)

NestedStack(s) ==
  \A i \in 1 .. Len(s) :
    IF i = Len(s) THEN s[i].pc # "jumping"
    ELSE s[i].pc = "jumping" /\ s[i + 1].host = s[i].about

Nested == \A f \in Flow : NestedStack(stack[f])

\* A flow that has not ended waits for the core, for the user at the prompt on the
\* screen, or was overtaken by another flow's question.
WaitsForSomeone ==
  \A f \in Flow : Active(f) =>
    At(f, "connect") \/ At(f, "trusting") \/ prompt.flow = f \/ Overtaken(f)

\* b: the calls under the running one.
Under(b, s) == /\ b \in Seq(Call) /\ Len(b) = Len(s) - 1
               /\ \A i \in 1 .. Len(b) : b[i] = s[i]

LEMMA BelowUnder ==
  ASSUME NEW f \in Flow, stack[f] \in Seq(Call), Active(f)
  PROVE  Len(stack[f]) >= 1 /\ Under(Below(f), stack[f])
<1>1. stack[f] \in Seq(Call) /\ Len(stack[f]) \in Nat /\ Len(stack[f]) >= 1
  BY DEF Active
<1> QED
  BY <1>1 DEF Below, Under

\* The running call goes on, for the same host.
LEMMA TopNested ==
  ASSUME NEW s \in Seq(Call), Len(s) >= 1, NestedStack(s), NEW b, Under(b, s),
         NEW c \in Call, c.pc # "jumping", c.host = s[Len(s)].host
  PROVE  NestedStack(Append(b, c))
<1> DEFINE t == Append(b, c)
<1>1. Len(s) \in Nat /\ Len(s) >= 1
  OBVIOUS
<1>2. b \in Seq(Call) /\ Len(b) = Len(s) - 1 /\ \A i \in 1 .. Len(b) : b[i] = s[i]
  BY DEF Under
<1>3. Len(t) = Len(s) /\ t[Len(s)] = c /\ \A i \in 1 .. Len(s) - 1 : t[i] = s[i]
  BY <1>1, <1>2
<1> HIDE DEF t
<1> SUFFICES ASSUME NEW i \in 1 .. Len(t)
             PROVE  IF i = Len(t) THEN t[i].pc # "jumping"
                    ELSE t[i].pc = "jumping" /\ t[i + 1].host = t[i].about
  BY DEF NestedStack, t
<1>4. CASE i = Len(t)
  BY <1>3, <1>4
<1>5. CASE i # Len(t)
  <2>1. i \in 1 .. Len(s) - 1 /\ i \in 1 .. Len(s) /\ i # Len(s)
    BY <1>1, <1>3, <1>5
  <2>2. t[i] = s[i] /\ s[i].pc = "jumping" /\ s[i + 1].host = s[i].about
    BY <1>3, <2>1 DEF NestedStack
  <2>3. t[i + 1].host = s[i + 1].host
    <3>1. CASE i + 1 = Len(s)
      BY <1>3, <3>1
    <3>2. CASE i + 1 # Len(s)
      <4>1. i + 1 \in 1 .. Len(s) - 1
        BY <1>1, <2>1, <3>2
      <4> QED
        BY <1>3, <4>1
    <3> QED
      BY <3>1, <3>2
  <2> QED
    BY <1>5, <2>2, <2>3
<1> QED
  BY <1>4, <1>5

\* It calls another, for the host it then waits for.
LEMMA CallNested ==
  ASSUME NEW s \in Seq(Call), Len(s) >= 1, NestedStack(s), NEW b, Under(b, s),
         NEW j \in Call, j.pc = "jumping", j.host = s[Len(s)].host,
         NEW c \in Call, c.pc # "jumping", c.host = j.about
  PROVE  NestedStack(Append(Append(b, j), c))
<1> DEFINE u == Append(b, j)
           t == Append(u, c)
<1>1. Len(s) \in Nat /\ Len(s) >= 1
  OBVIOUS
<1>2. b \in Seq(Call) /\ Len(b) = Len(s) - 1 /\ \A i \in 1 .. Len(b) : b[i] = s[i]
  BY DEF Under
<1>3. u \in Seq(Call) /\ Len(u) = Len(s) /\ u[Len(s)] = j /\ \A i \in 1 .. Len(s) - 1 : u[i] = s[i]
  BY <1>1, <1>2
<1>4. /\ Len(t) = Len(s) + 1 /\ t[Len(s) + 1] = c
      /\ \A i \in 1 .. Len(s) : t[i] = u[i]
  <2> HIDE DEF u
  <2> QED
    BY <1>1, <1>3
<1> HIDE DEF t, u
<1> SUFFICES ASSUME NEW i \in 1 .. Len(t)
             PROVE  IF i = Len(t) THEN t[i].pc # "jumping"
                    ELSE t[i].pc = "jumping" /\ t[i + 1].host = t[i].about
  BY DEF NestedStack, t, u
<1>5. CASE i = Len(t)
  BY <1>4, <1>5
<1>6. CASE i = Len(s)
  BY <1>1, <1>3, <1>4, <1>6
<1>7. CASE i \in 1 .. Len(s) - 1
  <2>1. t[i] = s[i] /\ s[i].pc = "jumping" /\ s[i + 1].host = s[i].about
    BY <1>1, <1>3, <1>4, <1>7 DEF NestedStack
  <2>2. i + 1 \in 1 .. Len(s) /\ t[i + 1] = u[i + 1]
    BY <1>1, <1>4, <1>7
  <2>3. u[i + 1].host = s[i + 1].host
    <3>1. CASE i + 1 = Len(s)
      BY <1>3, <3>1
    <3>2. CASE i + 1 # Len(s)
      <4>1. i + 1 \in 1 .. Len(s) - 1
        BY <1>1, <1>7, <3>2
      <4> QED
        BY <1>3, <4>1
    <3> QED
      BY <3>1, <3>2
  <2>4. i # Len(t)
    BY <1>1, <1>4, <1>7
  <2> QED
    BY <2>1, <2>2, <2>3, <2>4
<1>8. i = Len(t) \/ i = Len(s) \/ i \in 1 .. Len(s) - 1
  BY <1>1, <1>4
<1> QED
  BY <1>5, <1>6, <1>7, <1>8

\* The call under it goes on when it returns.
LEMMA UnderNested ==
  ASSUME NEW s \in Seq(Call), Len(s) >= 1, NestedStack(s), NEW b, Under(b, s),
         Len(b) >= 1,
         NEW c \in Call, c.pc # "jumping", c.host = b[Len(b)].host
  PROVE  NestedStack([b EXCEPT ![Len(b)] = c])
<1>1. Len(s) \in Nat /\ Len(s) >= 1
  OBVIOUS
<1>2. b \in Seq(Call) /\ Len(b) = Len(s) - 1 /\ \A i \in 1 .. Len(b) : b[i] = s[i]
  BY DEF Under
<1>3. Len(b) \in Nat /\ Len(b) >= 1
  BY <1>2
<1> DEFINE t == [b EXCEPT ![Len(b)] = c]
<1>4. Len(t) = Len(b) /\ t[Len(b)] = c /\ \A i \in 1 .. Len(b) - 1 : t[i] = b[i]
  BY <1>2, <1>3
<1> HIDE DEF t
<1> SUFFICES ASSUME NEW i \in 1 .. Len(t)
             PROVE  IF i = Len(t) THEN t[i].pc # "jumping"
                    ELSE t[i].pc = "jumping" /\ t[i + 1].host = t[i].about
  BY DEF NestedStack, t
<1>5. CASE i = Len(t)
  BY <1>4, <1>5
<1>6. CASE i # Len(t)
  <2>1. i \in 1 .. Len(b) - 1 /\ i \in 1 .. Len(s) /\ i # Len(s) /\ i + 1 \in 1 .. Len(b)
    BY <1>2, <1>3, <1>4, <1>6
  <2>2. t[i] = s[i] /\ s[i].pc = "jumping" /\ s[i + 1].host = s[i].about
    <3>1. i \in 1 .. Len(b)
      BY <1>3, <2>1
    <3> QED
      BY <1>2, <1>4, <2>1, <3>1 DEF NestedStack
  <2>3. t[i + 1].host = b[i + 1].host
    <3>1. CASE i + 1 = Len(b)
      BY <1>4, <3>1
    <3>2. CASE i + 1 # Len(b)
      <4>1. i + 1 \in 1 .. Len(b) - 1
        BY <1>3, <2>1, <3>2
      <4> QED
        BY <1>4, <4>1
    <3> QED
      BY <3>1, <3>2
  <2>4. b[i + 1] = s[i + 1]
    BY <1>2, <2>1
  <2> QED
    BY <1>6, <2>2, <2>3, <2>4
<1> QED
  BY <1>5, <1>6

LEMMA NestStep ==
  ASSUME ConnTypeOK, Nested, NEW f \in Flow, NEW s, NestedStack(s),
         stack' = [stack EXCEPT ![f] = s]
  PROVE  Nested'
<1>1. \A g \in Flow : stack'[g] = IF g = f THEN s ELSE stack[g]
  BY DEF ConnTypeOK
<1> QED
  BY <1>1 DEF Nested

\* What the lemmas above need of a flow that runs.
LEMMA RunningCall ==
  ASSUME ConnectInv, Nested, NEW f \in Flow, Active(f)
  PROVE  /\ stack[f] \in Seq(Call) /\ Len(stack[f]) >= 1 /\ NestedStack(stack[f])
         /\ Under(Below(f), stack[f])
         /\ Top(f) = stack[f][Len(stack[f])] /\ Top(f) \in Call /\ Good(Top(f))
         /\ GoodStack(Below(f)) /\ \A i \in 1 .. Len(Below(f)) : Below(f)[i].pc # "connect"
<1>1. stack[f] \in Seq(Call)
  BY DEF ConnectInv, ConnTypeOK
<1>2. GoodStack(stack[f])
  BY StacksGood DEF ConnectInv
<1> QED
  BY <1>1, <1>2, BelowUnder, BelowGood DEF Nested, Top

LEMMA ReturnNested ==
  ASSUME ConnectAssumption, ConnectInv, Nested, NEW f \in Flow, Active(f), NEW ok \in BOOLEAN,
         Return(f, ok)
  PROVE  Nested'
<1> DEFINE b == Below(f)
           n == Len(b)
           c == NextAttempt(b[n])
<1>1. CASE ok /\ b # <<>>
  <2>1. n \in Nat /\ n >= 1 /\ b[n] \in Call /\ Good(b[n]) /\ b[n].pc # "connect"
    BY <1>1, RunningCall DEF GoodStack, Good
  <2>2. b[n].attempt + 1 \in 0 .. Attempts
    BY <2>1 DEF Good, Call, ConnectAssumption
  <2>3. c \in Call /\ c.pc = "connect" /\ c.host = b[n].host
    BY <2>1, <2>2 DEF Call, Where, NextAttempt
  <2>4. stack' = [stack EXCEPT ![f] = [b EXCEPT ![n] = c]]
    BY <1>1 DEF Return
  <2> HIDE DEF c, b
  <2>5. NestedStack([b EXCEPT ![n] = c])
    BY <2>1, <2>3, RunningCall, UnderNested DEF b
  <2> QED
    BY <2>4, <2>5, NestStep DEF ConnectInv
<1>2. CASE ~(ok /\ b # <<>>)
  <2>1. NestedStack(<<>>)
    BY DEF NestedStack
  <2>2. stack' = [stack EXCEPT ![f] = <<>>]
    BY <1>2 DEF Return
  <2> QED
    BY <2>1, <2>2, NestStep DEF ConnectInv
<1> QED
  BY <1>1, <1>2

\* The running call asks, goes on, or starts anew.
LEMMA WithTopNested ==
  ASSUME ConnectInv, Nested, NEW f \in Flow, Active(f),
         NEW c \in Call, c.pc # "jumping", c.host = Top(f).host, WithTop(f, c)
  PROVE  Nested'
<1>1. NestedStack(Append(Below(f), c))
  BY RunningCall, TopNested
<1> QED
  BY <1>1, NestStep DEF ConnectInv, WithTop

LEMMA AnswerNested ==
  ASSUME ConnectAssumption, ConnectInv, Nested, NEW f \in Flow, Answer(f)
  PROVE  Nested'
<1> DEFINE c == Top(f)
           j == [c EXCEPT !.pc = "jumping"]
<1>1. Active(f) /\ c \in Call /\ Good(c) /\ c.about \in Host
  BY Asked DEF Answer
<1>2. \A h \in Host : /\ NewCall(h, h) \in Call /\ NewCall(h, h).pc = "connect"
                       /\ NewCall(h, h).host = h
  BY DEF NewCall, Call, Where, ConnectAssumption
<1>3. CASE c.about # c.host
  <2>1. j \in Call /\ j.pc = "jumping" /\ j.host = c.host /\ j.about = c.about
    BY <1>1 DEF Call, Where
  <2>2. stack' = [stack EXCEPT ![f] = Append(Append(Below(f), j), NewCall(c.about, c.about))]
    BY <1>3 DEF Answer
  <2> HIDE DEF j
  <2>3. NestedStack(Append(Append(Below(f), j), NewCall(c.about, c.about)))
    BY <1>1, <1>2, <2>1, RunningCall, CallNested
  <2> QED
    BY <2>2, <2>3, NestStep DEF ConnectInv
<1>4. CASE c.about = c.host
  BY <1>1, <1>2, <1>4, WithTopNested DEF Answer
<1> QED
  BY <1>3, <1>4

LEMMA NextNested ==
  ASSUME ConnectAssumption, ConnectInv, Nested, [ConnNext]_connVars
  PROVE  Nested'
<1>1. CASE UNCHANGED connVars
  BY <1>1 DEF connVars, Nested
<1>2. ASSUME NEW f \in Flow, NEW h \in Host, Start(f, h)
      PROVE  Nested'
  <2>1. NestedStack(<<NewCall(h, NoHost)>>)
    BY DEF NestedStack, NewCall
  <2> QED
    BY <1>2, <2>1, NestStep DEF Start, ConnectInv
<1>3. ASSUME NEW f \in Flow, GiveUp(f) \/ CoreRefuses(f) \/ TrustFails(f) \/ Cancel(f)
      PROVE  Nested'
  <2>1. Active(f) /\ Return(f, FALSE)
    BY <1>3, Asked DEF GiveUp, CoreRefuses, TrustFails, Cancel, At
  <2> QED
    BY <2>1, ReturnNested
<1>4. ASSUME NEW f \in Flow, CoreConnects(f)
      PROVE  Nested'
  BY <1>4, ReturnNested DEF CoreConnects, At
<1>5. ASSUME NEW f \in Flow, NEW h \in Host, CoreAsksTrust(f, h) \/ CoreAsksSecret(f, h)
      PROVE  Nested'
  <2>1. PICK kind \in {"trust", "credential"} : AskUser(f, kind, h)
    BY <1>5 DEF CoreAsksTrust, CoreAsksSecret
  <2>2. Active(f) /\ Top(f) \in Call
    BY <1>5, RunningCall DEF CoreAsksTrust, CoreAsksSecret, At
  <2> DEFINE c == [Top(f) EXCEPT !.pc = kind, !.about = h]
  <2>3. c \in Call /\ c.pc # "jumping" /\ c.host = Top(f).host
    BY <2>2 DEF Call, Where
  <2>4. WithTop(f, c)
    BY <2>1 DEF AskUser
  <2> HIDE DEF c
  <2> QED
    BY <2>2, <2>3, <2>4, WithTopNested
<1>6. ASSUME NEW f \in Flow, Accept(f)
      PROVE  Nested'
  <2> DEFINE c == [Top(f) EXCEPT !.pc = "trusting"]
  <2>1. Active(f) /\ Top(f) \in Call
    BY <1>6, Asked DEF Accept
  <2>2. c \in Call /\ c.pc # "jumping" /\ c.host = Top(f).host
    BY <2>1 DEF Call, Where
  <2>3. WithTop(f, c)
    BY <1>6 DEF Accept
  <2> HIDE DEF c
  <2> QED
    BY <2>1, <2>2, <2>3, WithTopNested
<1>7. ASSUME NEW f \in Flow, Answer(f)
      PROVE  Nested'
  BY <1>7, AnswerNested
<1>8. ASSUME NEW f \in Flow, Trusted(f)
      PROVE  Nested'
  <2> DEFINE c == NextAttempt(Top(f))
  <2>1. Active(f) /\ Top(f) \in Call /\ Good(Top(f)) /\ Top(f).pc = "trusting" /\ WithTop(f, c)
    BY <1>8, RunningCall DEF Trusted, At, Continue
  <2>2. Top(f).attempt + 1 \in 0 .. Attempts
    BY <2>1 DEF Good, Call, ConnectAssumption
  <2>3. c \in Call /\ c.pc # "jumping" /\ c.host = Top(f).host
    BY <2>1, <2>2 DEF Call, Where, NextAttempt
  <2> HIDE DEF c
  <2> QED
    BY <2>1, <2>3, WithTopNested
<1> QED
  BY <1>1, <1>2, <1>3, <1>4, <1>5, <1>6, <1>7, <1>8 DEF ConnNext, CoreAnswers, UserAnswers

\* The calls of a flow form one chain: each of them but the last waits for the next,
\* which unlocks the host it was asked about (ensureConnected calls itself for a host
\* it jumps through and awaits it).
THEOREM CallsNest == ASSUME ConnectAssumption PROVE ConnSpec => [](ConnectInv /\ Nested)
<1>1. ConnInit => ConnectInv /\ Nested
  BY InitConnectInv DEF ConnInit, Nested, NestedStack
<1>2. ConnectInv /\ Nested /\ [ConnNext]_connVars => (ConnectInv /\ Nested)'
  BY NextConnectInv, NextNested
<1> QED
  BY <1>1, <1>2, PTL DEF ConnSpec

\* Whatever the core answers and the user does, a flow of ensureConnected that has not
\* returned is waiting for an answer of the core, for the prompt on the screen, which
\* is its own, or had its prompt replaced by another flow's: nothing else can leave the
\* view that called it waiting.
THEOREM NobodyWaitsForNothing == ASSUME ConnectAssumption PROVE ConnSpec => []WaitsForSomeone
<1>1. ConnectInv /\ Nested => WaitsForSomeone
  <2> SUFFICES ASSUME ConnectInv, Nested, NEW f \in Flow, Active(f)
               PROVE  At(f, "connect") \/ At(f, "trusting") \/ prompt.flow = f \/ Overtaken(f)
    BY DEF WaitsForSomeone
  <2>1. Top(f).pc \in Where \ {"jumping"}
    <3>1. Len(stack[f]) \in 1 .. Len(stack[f])
      BY RunningCall
    <3> QED
      BY <3>1, RunningCall DEF NestedStack, Call
  <2> QED
    BY <2>1 DEF Where, At, Overtaken
<1> QED
  BY <1>1, CallsNest, PTL

=============================================================================
