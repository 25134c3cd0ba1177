------------------------------- MODULE SignIn -------------------------------
(***************************************************************************)
(* Signing in to Termward Pro (Pro.tsx, SignIn and DeviceLimitDialog): a   *)
(* code is mailed and typed; an account with too many devices answers with *)
(* a list and a token, valid for ten minutes, to sign one of them out.     *)
(* The form keeps its state while its requests run, and most of it can be  *)
(* used meanwhile: the address edited, another one chosen, the dialog      *)
(* closed and opened again.  The cloud's answers are external.             *)
(***************************************************************************)
EXTENDS Naturals

CONSTANTS
  Email, NoEmail,   \* addresses; none
  MaxReplacing      \* bound: device replacements under way

\* What the constants must satisfy.
SignInAssumption == NoEmail \notin Email /\ MaxReplacing \in Nat

VARIABLES
  step,       \* what the form asks for
  email,      \* the address in the form
  code,       \* six digits are typed
  asking,     \* the request that keeps the form busy
  sentEmail,  \*   ... and the address it was sent with
  needNew,    \* the code can no longer work
  limit,      \* the account whose devices are listed; NoEmail without a list
  oldLimit,   \*   ... and whether the list is older than nine minutes
  limitOpen,  \* the dialog with the list is open
  picking,    \*   ... and waits for its own request
  replacing,  \* replacements under way
  cooldown,   \* a code was sent less than 30 s ago
  signedIn    \* the window shows the account, and no form

signVars == <<step, email, code, asking, sentEmail, needNew, limit, oldLimit, limitOpen,
              picking, replacing, cooldown, signedIn>>

SignInTypeOK ==
  /\ step \in {"email", "code"} /\ email \in Email \cup {NoEmail} /\ code \in BOOLEAN
  /\ asking \in {"nothing", "send", "resend", "verify"}
  /\ sentEmail \in Email \cup {NoEmail}
  /\ needNew \in BOOLEAN /\ limit \in Email \cup {NoEmail} /\ oldLimit \in BOOLEAN
  /\ limitOpen \in BOOLEAN /\ picking \in BOOLEAN /\ replacing \in 0 .. MaxReplacing
  /\ cooldown \in BOOLEAN /\ signedIn \in BOOLEAN

\* A form that was just opened; the address signed in with last is filled in.
Fresh(remembered) ==
  /\ step' = "email" /\ email' = remembered /\ code' = FALSE
  /\ asking' = "nothing" /\ sentEmail' = NoEmail
  /\ needNew' = FALSE /\ limit' = NoEmail /\ oldLimit' = FALSE
  /\ limitOpen' = FALSE /\ picking' = FALSE /\ replacing' = 0 /\ cooldown' = FALSE

SignInInit ==
  /\ step = "email" /\ email = NoEmail /\ code = FALSE
  /\ asking = "nothing" /\ sentEmail = NoEmail
  /\ needNew = FALSE /\ limit = NoEmail /\ oldLimit = FALSE
  /\ limitOpen = FALSE /\ picking = FALSE /\ replacing = 0 /\ cooldown = FALSE
  /\ signedIn = FALSE

formVars == <<step, email, code>>
limitVars == <<limit, oldLimit, limitOpen, picking, replacing>>

\* limitExpired
LimitExpired ==
  /\ limit' = NoEmail /\ limitOpen' = FALSE /\ needNew' = TRUE /\ UNCHANGED oldLimit

-----------------------------------------------------------------------------
(* The user. *)

Shown(s) == ~signedIn /\ step = s
\* The dialog covers the form.
AtForm(s) == Shown(s) /\ ~(limitOpen /\ limit # NoEmail /\ step = "code")

\* Also while a code is being sent.
TypeEmail(e) ==
  /\ AtForm("email") /\ e # email /\ email' = e
  /\ UNCHANGED <<step, code, asking, sentEmail, needNew, limitVars, cooldown, signedIn>>

Ask(what) == asking = "nothing" /\ asking' = what /\ sentEmail' = email

SendCode ==
  /\ AtForm("email") /\ email # NoEmail
  /\ Ask("send")
  /\ UNCHANGED <<formVars, needNew, limitVars, cooldown, signedIn>>

TypeCode(full) ==
  /\ AtForm("code") /\ <<code, needNew>> # <<full, FALSE>>
  /\ code' = full /\ needNew' = FALSE
  /\ UNCHANGED <<step, email, asking, sentEmail, limitVars, cooldown, signedIn>>

\* The link, or the main button once the code cannot work any more.
Resend ==
  /\ AtForm("code") /\ ~cooldown
  /\ Ask("resend")
  /\ UNCHANGED <<formVars, needNew, limitVars, cooldown, signedIn>>

\* The main button with a list to pick from; not disabled by a request.
OpenLimit ==
  /\ AtForm("code") /\ ~needNew /\ limit # NoEmail
  /\ IF oldLimit THEN LimitExpired ELSE limitOpen' = TRUE /\ UNCHANGED <<limit, oldLimit, needNew>>
  /\ picking' = FALSE
  /\ UNCHANGED <<formVars, asking, sentEmail, replacing, cooldown, signedIn>>

Verify ==
  /\ AtForm("code") /\ ~needNew /\ limit = NoEmail /\ code
  /\ Ask("verify")
  /\ UNCHANGED <<formVars, needNew, limitVars, cooldown, signedIn>>

\* "Another e-mail", whatever request runs.
OtherEmail ==
  /\ AtForm("code")
  /\ step' = "email" /\ code' = FALSE /\ needNew' = FALSE /\ limit' = NoEmail /\ cooldown' = FALSE
  /\ UNCHANGED <<email, asking, sentEmail, oldLimit, limitOpen, picking, replacing, signedIn>>

DialogOpen == Shown("code") /\ limit # NoEmail /\ limitOpen
CloseLimit ==
  /\ DialogOpen
  /\ limitOpen' = FALSE /\ picking' = FALSE
  /\ UNCHANGED <<formVars, asking, sentEmail, needNew, limit, oldLimit, replacing, cooldown, signedIn>>

Replace ==
  /\ DialogOpen /\ ~picking /\ replacing < MaxReplacing
  /\ picking' = TRUE /\ replacing' = replacing + 1
  /\ UNCHANGED <<formVars, asking, sentEmail, needNew, limit, oldLimit, limitOpen, cooldown, signedIn>>

-----------------------------------------------------------------------------
(* Answers. *)

Done == asking' = "nothing" /\ sentEmail' = NoEmail

\* Mutated form of CodeSent: the list of devices stays.
CodeSentKeepingList ==
  /\ ~signedIn /\ asking \in {"send", "resend"} /\ Done
  /\ step' = "code" /\ cooldown' = TRUE /\ needNew' = FALSE
  /\ code' = (code /\ asking = "send")
  /\ UNCHANGED <<email, limit, oldLimit, limitOpen, picking, replacing, signedIn>>

\* The code step is shown, for the address the form holds by now.
CodeSent ==
  /\ ~signedIn /\ asking \in {"send", "resend"} /\ Done
  /\ step' = "code" /\ cooldown' = TRUE /\ needNew' = FALSE /\ limit' = NoEmail
  /\ code' = (code /\ asking = "send")
  /\ UNCHANGED <<email, oldLimit, limitOpen, picking, replacing, signedIn>>

\* setCloud: the form gives way to the account.
SignedInAs(e) == signedIn' = TRUE /\ Fresh(e)
Verified == ~signedIn /\ asking = "verify" /\ SignedInAs(sentEmail)

TooManyDevices ==
  /\ ~signedIn /\ asking = "verify" /\ Done
  /\ limit' = sentEmail /\ oldLimit' = FALSE /\ limitOpen' = TRUE /\ picking' = FALSE
  /\ UNCHANGED <<formVars, needNew, replacing, cooldown, signedIn>>

\* code_expired and too_many_attempts ask for a new code, other errors do not.
Refused ==
  /\ ~signedIn /\ asking # "nothing" /\ Done
  /\ needNew' \in {needNew, needNew \/ asking = "verify"}
  /\ UNCHANGED <<formVars, limitVars, cooldown, signedIn>>

\* The answer comes back to the form also when its dialog was closed.
Replaced(e) ==
  /\ ~signedIn /\ replacing > 0 /\ SignedInAs(e)

TokenRefused ==
  /\ ~signedIn /\ replacing > 0 /\ replacing' = replacing - 1
  /\ picking' = FALSE /\ LimitExpired
  /\ UNCHANGED <<formVars, asking, sentEmail, cooldown, signedIn>>

ReplaceFails ==
  /\ ~signedIn /\ replacing > 0 /\ replacing' = replacing - 1
  /\ picking' \in {FALSE, picking}
  /\ UNCHANGED <<formVars, asking, sentEmail, needNew, limit, oldLimit, limitOpen, cooldown, signedIn>>

-----------------------------------------------------------------------------
(* Time, and the account. *)

CooldownEnds ==
  /\ ~signedIn /\ cooldown /\ cooldown' = FALSE
  /\ UNCHANGED <<formVars, asking, sentEmail, needNew, limitVars, signedIn>>

NineMinutes ==
  /\ ~signedIn /\ limit # NoEmail /\ ~oldLimit /\ oldLimit' = TRUE
  /\ UNCHANGED <<formVars, asking, sentEmail, needNew, limit, limitOpen, picking, replacing,
                 cooldown, signedIn>>

SignedOutAgain ==
  /\ signedIn /\ signedIn' = FALSE
  /\ Fresh(email)

SignInNext ==
  \/ \E e \in Email : TypeEmail(e) \/ Replaced(e)
  \/ \E full \in BOOLEAN : TypeCode(full)
  \/ SendCode \/ Resend \/ Verify \/ OpenLimit \/ OtherEmail \/ CloseLimit \/ Replace
  \/ CodeSent \/ Verified \/ TooManyDevices \/ Refused
  \/ TokenRefused \/ ReplaceFails
  \/ CooldownEnds \/ NineMinutes \/ SignedOutAgain

SignInSpec == SignInInit /\ [][SignInNext]_signVars

-----------------------------------------------------------------------------
(* Properties. *)

\* The devices offered for signing out belong to the account whose address the form
\* shows: no answer that comes late, for an address given up meanwhile, puts another
\* account's devices in front of the user (SignIn, DeviceLimitDialog).
LimitOfShownEmail == step = "code" /\ limit # NoEmail => limit = email

=============================================================================
