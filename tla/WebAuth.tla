------------------------------- MODULE WebAuth -------------------------------
(***************************************************************************)
(* Who may use the web panel: the first password, the enrolment of the     *)
(* authenticator and the log-in (src/src/web.js), sessions and form tokens *)
(* in the memory of the panel (src/src/webAuth.js), the password, the      *)
(* TOTP secret and the recovery codes in the vault (src/src/secureStore.js)*)
(*                                                                         *)
(* Every handler runs to its end before the next one, but the pages that   *)
(* it has rendered stay open in the tabs of several browsers, across other *)
(* requests, the end of a session and a restart of the panel.  A session   *)
(* or a form may expire at any time.  All browsers come from one address,  *)
(* the record of which is LoginLock.                                       *)
(***************************************************************************)
EXTENDS LoginLock

CONSTANTS
  Browser,
  Tab, Owner,        \* the tabs, and the browser of each
  MaxSecrets, MaxCodes, MaxRestarts   \* bounds of the model

ASSUME TabAssumption == Owner \in [Tab -> Browser]
ASSUME PanelBoundAssumption == {MaxSecrets, MaxCodes, MaxRestarts} \subseteq Nat

VARIABLES
  mfaRequired,   \* WEB_MFA_REQUIRED, as the running panel has read it
  password,      \* vault: there is an admin password
  pending,       \* vault: the secret of an enrolment that is not confirmed; 0: none
  totp,          \* vault: the secret of the enrolled authenticator; 0: none
  codes,         \* vault: how many recovery codes are left
  secrets,       \* how many secrets were made so far
  sessions,      \* the browsers with a live session
  tokens,        \* the tabs whose form token is live
  cookie,        \* of each browser: the tab whose form token its cookie has
  page,          \* of each tab: what it shows
  restarts

vault == <<password, pending, totp, codes, secrets>>
memory == <<mfaRequired, sessions, tokens>>
browsers == <<cookie, page>>
authVars == <<vault, memory, browsers, restarts>>

\* "panel": a page that holds the CSRF token of the session; "stale": of one
\* that has ended.
Kind == {"none", "setup", "enrol", "login", "codes", "panel", "stale"}
Secret == 0 .. MaxSecrets
Page == [kind : Kind, secret : Secret]
Shows(kind) == [kind |-> kind, secret |-> 0]

AuthTypeOK ==
  /\ LockTypeOK
  /\ mfaRequired \in BOOLEAN /\ password \in BOOLEAN
  /\ {pending, totp, secrets} \subseteq Secret /\ codes \in 0 .. MaxCodes
  /\ sessions \subseteq Browser /\ tokens \subseteq Tab
  /\ cookie \in [Browser -> Tab \cup {"none"}]
  /\ page \in [Tab -> Page]
  /\ restarts \in 0 .. MaxRestarts

AuthInit ==
  /\ LockInit
  /\ mfaRequired \in BOOLEAN
  /\ password = FALSE /\ pending = 0 /\ totp = 0 /\ codes = 0 /\ secrets = 0
  /\ sessions = {} /\ tokens = {}
  /\ cookie = [b \in Browser |-> "none"]
  /\ page = [t \in Tab |-> Shows("none")]
  /\ restarts = 0

-----------------------------------------------------------------------------
\* createFormToken: the cookie of the browser follows the newest form.
CreateFormToken(t) ==
  /\ tokens' = tokens \cup {t}
  /\ cookie' = [cookie EXCEPT ![Owner[t]] = t]

\* verifyFormToken: the cookie and the form name one live token, which ends.
FormTokenOk(t) == cookie[Owner[t]] = t /\ t \in tokens
TakeFormToken(t) == tokens' = IF FormTokenOk(t) THEN tokens \ {t} ELSE tokens

\* The pages of a session that has ended, or been replaced, go stale.
Unbound(bs, pages) ==
  [t \in Tab |-> IF Owner[t] \in bs /\ pages[t].kind = "panel" THEN Shows("stale") ELSE pages[t]]

Leave(t, kind) == page' = [page EXCEPT ![t] = Shows(kind)]

\* createSession, and the page that the browser goes to.
Enter(t, kind) ==
  /\ sessions' = sessions \cup {Owner[t]}
  /\ page' = [Unbound({Owner[t]}, page) EXCEPT ![t] = Shows(kind)]

\* Mutant: an enrolled authenticator is not looked for.
MfaIsRequired == mfaRequired

ShouldRequireMfaSetup == mfaRequired /\ totp = 0

-----------------------------------------------------------------------------
(* The pages, which the redirects of the handlers lead to.                 *)

\* Mutant: an enrolment is begun each time that the page is shown.
VisitEnrolmentAfresh(t) ==
  /\ password /\ ShouldRequireMfaSetup
  /\ secrets < MaxSecrets
  /\ secrets' = secrets + 1
  /\ pending' = secrets'
  /\ CreateFormToken(t)
  /\ page' = [page EXCEPT ![t] = [kind |-> "enrol", secret |-> pending']]
  /\ UNCHANGED <<password, totp, codes, mfaRequired, sessions, restarts, lockVars>>

VisitSetup(t) ==
  /\ ~password
  /\ CreateFormToken(t)
  /\ Leave(t, "setup")
  /\ UNCHANGED <<vault, mfaRequired, sessions, restarts, lockVars>>

VisitEnrolment(t) ==
  /\ password /\ ShouldRequireMfaSetup
  /\ IF pending # 0 THEN UNCHANGED <<pending, secrets>>
     ELSE secrets < MaxSecrets /\ secrets' = secrets + 1 /\ pending' = secrets'
  /\ CreateFormToken(t)
  /\ page' = [page EXCEPT ![t] = [kind |-> "enrol", secret |-> pending']]
  /\ UNCHANGED <<password, totp, codes, mfaRequired, sessions, restarts, lockVars>>

VisitLogin(t) ==
  /\ password /\ ~ShouldRequireMfaSetup
  /\ CreateFormToken(t)
  /\ Leave(t, "login")
  /\ UNCHANGED <<vault, mfaRequired, sessions, restarts, lockVars>>

\* requireAuth.
VisitPanel(t) ==
  /\ password /\ Owner[t] \in sessions
  /\ Leave(t, "panel")
  /\ UNCHANGED <<vault, memory, cookie, restarts, lockVars>>

-----------------------------------------------------------------------------
(* POST /setup.                                                            *)

\* There is a password by now, the form is not good, or the password is weak.
SetupRefused(t) ==
  /\ page[t].kind = "setup"
  /\ IF password THEN UNCHANGED tokens ELSE TakeFormToken(t)
  /\ Leave(t, "none")
  /\ UNCHANGED <<vault, mfaRequired, sessions, cookie, restarts, lockVars>>

\* Mutant: the password opens a session also where MFA is required.
SetupLogsIn(t) ==
  /\ page[t].kind = "setup" /\ ~password /\ FormTokenOk(t)
  /\ password' = TRUE
  /\ TakeFormToken(t)
  /\ Enter(t, "panel")
  /\ LoginSucceeds
  /\ UNCHANGED <<pending, totp, codes, secrets, mfaRequired, cookie, restarts>>

\* The response of the first password is the enrolment page, or the panel.
Setup(t) ==
  /\ page[t].kind = "setup" /\ ~password /\ FormTokenOk(t)
  /\ password' = TRUE
  /\ IF mfaRequired
     THEN /\ secrets < MaxSecrets
          /\ secrets' = secrets + 1 /\ pending' = secrets'
          /\ CreateFormToken(t)
          /\ page' = [page EXCEPT ![t] = [kind |-> "enrol", secret |-> pending']]
          /\ UNCHANGED <<sessions, lockVars>>
     ELSE /\ TakeFormToken(t)
          /\ Enter(t, "panel")
          /\ LoginSucceeds
          /\ UNCHANGED <<pending, secrets, cookie>>
  /\ UNCHANGED <<totp, codes, mfaRequired, restarts>>

-----------------------------------------------------------------------------
(* POST /mfa/setup.                                                        *)

\* It is over, the form is not good, the password or the code is wrong: the
\* code comes from the secret that the page shows.
EnrolmentRefused(t) ==
  /\ page[t].kind = "enrol"
  /\ IF ShouldRequireMfaSetup THEN TakeFormToken(t) ELSE UNCHANGED tokens
  /\ Leave(t, "none")
  /\ UNCHANGED <<vault, mfaRequired, sessions, cookie, restarts, lockVars>>

CanConfirm(t) ==
  /\ page[t].kind = "enrol" /\ password /\ ShouldRequireMfaSetup
  /\ FormTokenOk(t)
  /\ pending # 0 /\ page[t].secret = pending

\* confirmAdminTotpEnrollment: two writes.
Confirm == totp' = pending /\ codes' = MaxCodes

\* The same code is verified again by the log-in, later: its time may be over
\* then, and the recovery codes are shown to nobody.
ConfirmEnrolment(t) ==
  /\ CanConfirm(t)
  /\ Confirm /\ pending' = 0
  /\ TakeFormToken(t)
  /\ \/ Enter(t, "codes") /\ LoginSucceeds
     \/ Leave(t, "none") /\ (LoginFails \/ LoginRefused) /\ UNCHANGED sessions
  /\ UNCHANGED <<password, secrets, mfaRequired, cookie, restarts>>

-----------------------------------------------------------------------------
(* POST /login.                                                            *)

LoginFormRefused(t) ==
  /\ page[t].kind = "login"
  /\ ShouldRequireMfaSetup \/ ~FormTokenOk(t)
  /\ UNCHANGED tokens
  /\ Leave(t, "none")
  /\ UNCHANGED <<vault, mfaRequired, sessions, cookie, restarts, lockVars>>

\* The address is locked, or the password or the second factor is wrong.
WrongLogin(t) ==
  /\ page[t].kind = "login" /\ ~ShouldRequireMfaSetup /\ FormTokenOk(t)
  /\ TakeFormToken(t)
  /\ LoginFails \/ LoginRefused
  /\ Leave(t, "none")
  /\ UNCHANGED <<vault, mfaRequired, sessions, cookie, restarts>>

\* A recovery code, where one is used, is gone with it.
CodesLeft == {codes} \cup {n \in {codes - 1} : mfaRequired /\ codes > 0}

Login(t) ==
  /\ page[t].kind = "login" /\ ~ShouldRequireMfaSetup /\ FormTokenOk(t)
  /\ TakeFormToken(t)
  /\ LoginSucceeds
  /\ codes' \in CodesLeft
  /\ Enter(t, "panel")
  /\ UNCHANGED <<password, pending, totp, secrets, mfaRequired, cookie, restarts>>

-----------------------------------------------------------------------------
\* requireAuth and requireCsrf: what a POST of the panel passes first.
Authorized(t) == Owner[t] \in sessions /\ page[t].kind = "panel"

End(bs) ==
  /\ sessions' = sessions \ bs
  /\ page' = Unbound(bs, page)
  /\ UNCHANGED <<vault, mfaRequired, tokens, cookie, restarts, lockVars>>

Logout(t) == Authorized(t) /\ End({Owner[t]})

RevokeAllSessions(t) == Authorized(t) /\ End(Browser)

\* It was idle for too long or has lived for too long, or its token comes from
\* another address.
SessionEnds(b) == b \in sessions /\ End({b})

FormExpires(t) ==
  /\ t \in tokens
  /\ tokens' = tokens \ {t}
  /\ UNCHANGED <<vault, mfaRequired, sessions, browsers, restarts, lockVars>>

\* Sessions, form tokens and failures are in memory; the setting may change.
Restarted ==
  /\ restarts < MaxRestarts /\ restarts' = restarts + 1
  /\ mfaRequired' \in BOOLEAN
  /\ sessions' = {} /\ tokens' = {}
  /\ page' = Unbound(Browser, page)
  /\ count' = 0 /\ age' = 0 /\ lockLeft' = 0 /\ recent' = [a \in Ages |-> 0]
  /\ UNCHANGED cookie

Restart == Restarted /\ UNCHANGED vault

\* The panel dies between two writes of the vault: after the first password,
\* or with the secret enrolled and still pending.
DieInSetup(t) ==
  /\ page[t].kind = "setup" /\ ~password /\ FormTokenOk(t)
  /\ password' = TRUE
  /\ UNCHANGED <<pending, totp, codes, secrets>>
  /\ Restarted

DieInConfirm(t) ==
  /\ CanConfirm(t)
  /\ Confirm
  /\ UNCHANGED <<password, pending, secrets>>
  /\ Restarted

AuthTick == LockTick /\ UNCHANGED authVars

AuthNext ==
  \/ \E t \in Tab :
       \/ VisitSetup(t) \/ VisitEnrolment(t) \/ VisitLogin(t) \/ VisitPanel(t)
       \/ SetupRefused(t) \/ Setup(t)
       \/ EnrolmentRefused(t) \/ ConfirmEnrolment(t)
       \/ LoginFormRefused(t) \/ WrongLogin(t) \/ Login(t)
       \/ Logout(t) \/ RevokeAllSessions(t) \/ FormExpires(t)
       \/ DieInSetup(t) \/ DieInConfirm(t)
  \/ \E b \in Browser : SessionEnds(b)
  \/ Restart \/ AuthTick

AuthSpec == AuthInit /\ [][AuthNext]_<<authVars, lockVars>>
AuthFairSpec == AuthSpec /\ WF_<<authVars, lockVars>>(AuthTick)
-----------------------------------------------------------------------------
(***************************************************************************)
(* "First-run local MFA enrollment": where the panel requires MFA, nobody  *)
(* has a session before an authenticator is enrolled, whichever of setup,  *)
(* enrolment and log-in come from which open page in which order, and      *)
(* wherever the panel died in between.                                     *)
(***************************************************************************)
NoSessionBeforeMfa == mfaRequired /\ sessions # {} => password /\ totp # 0

(***************************************************************************)
(* As long as no authenticator is enrolled, every enrolment page that is   *)
(* open anywhere shows the secret that its code will be checked against:   *)
(* reloading it, or opening it again elsewhere, outdates no page.          *)
(***************************************************************************)
EnrolmentPagesAgree ==
  totp = 0 => \A t \in Tab : page[t].kind = "enrol" => page[t].secret = pending

(***************************************************************************)
(* Once enrolled, the authenticator stays the one that is enrolled, and    *)
(* its recovery codes only become fewer: no page of an earlier enrolment,  *)
(* and no pending secret that a crash left behind, enrols again.           *)
(***************************************************************************)
EnrolledOnce ==
  [][totp # 0 => totp' = totp /\ codes' <= codes]_authVars
=============================================================================
