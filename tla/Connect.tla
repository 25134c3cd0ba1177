------------------------------ MODULE Connect ------------------------------
(***************************************************************************)
(* Connecting to a host from the window (store.ts, ensureConnected): the   *)
(* core is asked, and as it answers the user verifies host keys and types  *)
(* passwords, for the host itself or for a host it jumps through.  Several *)
(* flows may run at a time (a terminal, a file list, a check); they share  *)
(* one place on the screen for a prompt (Dialogs.tsx, PromptSwitch).       *)
(*                                                                         *)
(* A flow is a stack of calls of ensureConnected: unlocking a jump host is *)
(* a call of its own.  The core is external: any of its answers may come.  *)
(***************************************************************************)
EXTENDS Naturals, Sequences, FiniteSets

CONSTANTS
  Flow,         \* calls made by the views and dialogs
  Host,
  NoHost, NoFlow,
  Via,          \* for each host the hosts it is reached through
  Attempts,     \* tries of one call without a password typed in between
  MaxTyped      \* bound: secrets the user types before giving up

\* What the constants must satisfy.
ConnectAssumption ==
  /\ Attempts \in Nat \ {0} /\ MaxTyped \in Nat
  /\ NoHost \notin Host /\ NoFlow \notin Flow
  /\ Via \in [Host -> SUBSET Host]

VARIABLES
  stack,        \* for each flow its calls, the running one last
  prompt,       \* the prompt on the screen
  typed,        \* secrets typed so far in each flow
  connected,    \* hosts the window shows as connected
  outcome       \* how the last call of each flow ended

connVars == <<stack, prompt, typed, connected, outcome>>

Where == {"connect", "trust", "trusting", "credential", "jumping"}
\* pc: what the call waits for; about: the host the prompt or the nested call is
\* about; creds: the host whose secret the call was given, NoHost without one.
Call == [host: Host, attempt: 0 .. Attempts, pc: Where,
         about: Host \cup {NoHost}, creds: Host \cup {NoHost}]
Prompt == [flow: Flow, kind: {"trust", "credential"}, about: Host]
NoPrompt == [flow |-> NoFlow, kind |-> "trust", about |-> NoHost]

ConnTypeOK ==
  /\ stack \in [Flow -> Seq(Call)]
  /\ prompt \in Prompt \cup {NoPrompt}
  /\ typed \in [Flow -> 0 .. MaxTyped]
  /\ connected \subseteq Host
  /\ outcome \in [Flow -> {"none", "connected", "failed"}]

ConnInit ==
  /\ stack = [f \in Flow |-> <<>>]
  /\ prompt = NoPrompt
  /\ typed = [f \in Flow |-> 0]
  /\ connected = {}
  /\ outcome = [f \in Flow |-> "none"]

NewCall(h, c) == [host |-> h, attempt |-> 0, pc |-> "connect", about |-> NoHost, creds |-> c]
Active(f) == stack[f] # <<>>
Top(f) == stack[f][Len(stack[f])]
Below(f) == SubSeq(stack[f], 1, Len(stack[f]) - 1)
WithTop(f, c) == stack' = [stack EXCEPT ![f] = Append(Below(f), c)]
At(f, pc) == Active(f) /\ Top(f).pc = pc

\* The hosts a connection to h passes through, h last: the core may ask about any.
Hops(h) == {h} \cup Via[h]

-----------------------------------------------------------------------------
(* How a call goes on. *)

NextAttempt(c) == [c EXCEPT !.attempt = @ + 1, !.pc = "connect", !.about = NoHost]

\* The running call returns ok; a call that waited for it goes on or gives up.
\* Giving up returns false through every call of the flow.
Return(f, ok) ==
  LET under == Below(f) IN
  IF ok /\ under # <<>>
  THEN /\ stack' = [stack EXCEPT ![f] = [under EXCEPT ![Len(under)] = NextAttempt(@)]]
       /\ UNCHANGED outcome
  ELSE /\ stack' = [stack EXCEPT ![f] = <<>>]
       /\ outcome' = [outcome EXCEPT ![f] = IF ok THEN "connected" ELSE "failed"]

\* Mutated form of Continue: the attempt does not count.
ContinueUncounted(f) == WithTop(f, [Top(f) EXCEPT !.pc = "connect", !.about = NoHost])

\* "continue": the next attempt.
Continue(f) == WithTop(f, NextAttempt(Top(f)))

\* A prompt takes the one place there is, whether or not it is free.
AskUser(f, kind, about) ==
  /\ prompt' = [flow |-> f, kind |-> kind, about |-> about]
  /\ WithTop(f, [Top(f) EXCEPT !.pc = kind, !.about = about])

-----------------------------------------------------------------------------
(* Steps of a flow. *)

\* A view or a dialog calls ensureConnected.
Start(f, h) ==
  /\ ~Active(f) /\ outcome[f] = "none"
  /\ stack' = [stack EXCEPT ![f] = <<NewCall(h, NoHost)>>]
  /\ UNCHANGED <<prompt, typed, connected, outcome>>

\* The loop is left after the last attempt.
GiveUp(f) ==
  /\ At(f, "connect") /\ Top(f).attempt = Attempts
  /\ Return(f, FALSE)
  /\ UNCHANGED <<prompt, typed, connected>>

CoreConnects(f) ==
  /\ At(f, "connect") /\ Top(f).attempt < Attempts
  /\ Return(f, TRUE)
  /\ connected' = connected \cup {Top(f).host}
  /\ UNCHANGED <<prompt, typed>>

\* Any other error, or no core: a toast.
CoreRefuses(f) ==
  /\ At(f, "connect") /\ Top(f).attempt < Attempts
  /\ Return(f, FALSE)
  /\ UNCHANGED <<prompt, typed, connected>>

\* unknown_host, host_key_changed
CoreAsksTrust(f, h) ==
  /\ At(f, "connect") /\ Top(f).attempt < Attempts
  /\ h \in Hops(Top(f).host)
  /\ AskUser(f, "trust", h)
  /\ UNCHANGED <<typed, connected, outcome>>

\* auth_required
CoreAsksSecret(f, h) ==
  /\ At(f, "connect") /\ Top(f).attempt < Attempts
  /\ h \in Hops(Top(f).host)
  /\ AskUser(f, "credential", h)
  /\ UNCHANGED <<typed, connected, outcome>>

\* The user answers the prompt on the screen: its flow goes on and takes it down.
Accept(f) ==
  /\ prompt.flow = f /\ prompt.kind = "trust"
  /\ prompt' = NoPrompt
  /\ WithTop(f, [Top(f) EXCEPT !.pc = "trusting"])
  /\ UNCHANGED <<typed, connected, outcome>>

\* Mutated form of Cancel: the prompt stays on the screen.
CancelBehindPrompt(f) ==
  /\ prompt.flow = f
  /\ Return(f, FALSE)
  /\ UNCHANGED <<prompt, typed, connected>>

\* Cancel, × or the back button.
Cancel(f) ==
  /\ prompt.flow = f
  /\ prompt' = NoPrompt
  /\ Return(f, FALSE)
  /\ UNCHANGED <<typed, connected>>

\* Mutated form of Answer: what was typed for a jump host goes with the next attempt.
AnswerWithoutJump(f) ==
  /\ prompt.flow = f /\ prompt.kind = "credential" /\ typed[f] < MaxTyped
  /\ prompt' = NoPrompt
  /\ typed' = [typed EXCEPT ![f] = @ + 1]
  /\ WithTop(f, NewCall(Top(f).host, Top(f).about))
  /\ UNCHANGED <<connected, outcome>>

\* A secret for another host unlocks that host first, in a call of its own; one for
\* this host is sent with the next attempt, counted anew.
Answer(f) ==
  /\ prompt.flow = f /\ prompt.kind = "credential" /\ typed[f] < MaxTyped
  /\ prompt' = NoPrompt
  /\ typed' = [typed EXCEPT ![f] = @ + 1]
  /\ LET c == Top(f) IN
       IF c.about # c.host
       THEN stack' = [stack EXCEPT ![f] =
              Append(Append(Below(f), [c EXCEPT !.pc = "jumping"]), NewCall(c.about, c.about))]
       ELSE WithTop(f, NewCall(c.host, c.host))
  /\ UNCHANGED <<connected, outcome>>

\* api.trust answers.
Trusted(f) ==
  /\ At(f, "trusting")
  /\ Continue(f)
  /\ UNCHANGED <<prompt, typed, connected, outcome>>

TrustFails(f) ==
  /\ At(f, "trusting")
  /\ Return(f, FALSE)
  /\ UNCHANGED <<prompt, typed, connected>>

CoreAnswers(f) ==
  \/ CoreConnects(f) \/ CoreRefuses(f) \/ Trusted(f) \/ TrustFails(f)
  \/ \E h \in Host : CoreAsksTrust(f, h) \/ CoreAsksSecret(f, h)

UserAnswers(f) == Accept(f) \/ Answer(f) \/ Cancel(f)

ConnNext ==
  \E f \in Flow :
    \/ \E h \in Host : Start(f, h)
    \/ GiveUp(f) \/ CoreAnswers(f) \/ UserAnswers(f)

\* The core answers each request; the user answers a prompt that stays on the screen.
ConnFairness ==
  \A f \in Flow :
    /\ WF_connVars(GiveUp(f)) /\ WF_connVars(CoreAnswers(f))
    /\ WF_connVars(UserAnswers(f))

ConnSpec == ConnInit /\ [][ConnNext]_connVars /\ ConnFairness

-----------------------------------------------------------------------------
(* Properties. *)

\* What the user typed for one host is never sent to another: a call holds no secret,
\* or one asked for its own host (the jump branch of ensureConnected).
SecretStaysWithHost ==
  \A f \in Flow : \A i \in 1 .. Len(stack[f]) :
    stack[f][i].creds \in {NoHost, stack[f][i].host}

\* A prompt on the screen is the one its flow waits for: answering it never
\* resolves a question of another kind, about another host or of a finished flow.
PromptHasWaiter ==
  prompt # NoPrompt =>
    /\ Active(prompt.flow)
    /\ Top(prompt.flow).pc = prompt.kind
    /\ Top(prompt.flow).about = prompt.about

\* ensureConnected returns: true or false, also when the user cancels or the
\* connection fails (its doc comment).
FlowEnds == \A f \in Flow : Active(f) ~> ~Active(f)

\* A flow whose question was taken off the screen by another flow's.
Overtaken(f) ==
  Active(f) /\ Top(f).pc \in {"trust", "credential"} /\ prompt.flow # f

\* Every flow ends, whatever the core answers and the user does, unless the question
\* of another flow took its place: that is the only way to be left waiting.
OvertakenOnly == \A f \in Flow : Active(f) ~> (~Active(f) \/ Overtaken(f))

=============================================================================
