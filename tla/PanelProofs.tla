---------------------------- MODULE PanelProofs ----------------------------
(***************************************************************************)
(* Proofs about the web panel.  WebAuth, for any number of browsers, tabs, *)
(* secrets and restarts: what is behind its three properties is that pages *)
(* only ever lag behind the vault in harmless ways: a page of the log-in   *)
(* was not rendered before there was a password, and an enrolment page     *)
(* shows the pending secret for as long as that could still be enrolled.   *)
(* UpdateJob, for any number of jobs and calls: a record never says more   *)
(* than its own child has shown.  AppSettings, for any settings and        *)
(* administrators: a page that nothing has outdated posts what is stored.  *)
(* LoginLock, for any limit and window: at the end of a window only what   *)
(* that window has counted is still recent.  SmtpVault, for any accounts   *)
(* and processes: what is up has the key of the stored salt.  UpdatePage,  *)
(* for any requests under way: who has no button waits for an answer.      *)
(***************************************************************************)
EXTENDS WebAuth, UpdateJob, AppSettings, SmtpVault, UpdatePage,
        FiniteSetTheorems, SequenceTheorems, TLAPS

-----------------------------------------------------------------------------
(* What all the parts use.                                                 *)

\* A set of naturals has a least member: otherwise the intervals up to its
\* members would have no smallest.
LEMMA LeastExists ==
  ASSUME NEW S \in SUBSET Nat, S # {}
  PROVE  Min(S) \in S /\ \A y \in S : Min(S) <= y
<1>. DEFINE R == StrictSubsetOrdering(Nat)
            T == {0 .. k : k \in S}
<1>1. IsWellFoundedOn(R, FiniteSubsetsOf(Nat))
  BY FS_StrictSubsetOrderingWellFounded
<1>2. T \subseteq FiniteSubsetsOf(Nat) /\ T # {}
  <2>1. \A k \in S : 0 .. k \in SUBSET Nat /\ IsFiniteSet(0 .. k)
    BY FS_Interval
  <2>. QED  BY <2>1 DEF FiniteSubsetsOf
<1>. HIDE DEF R, T
<1>3. \E t \in T : \A u \in T : ~ (<<u, t>> \in R)
  BY <1>1, <1>2, WFMin
<1>4. PICK x \in S : \A y \in S : ~ (<<0 .. y, 0 .. x>> \in R)
  BY <1>3 DEF T
<1>5. ASSUME NEW y \in S PROVE x <= y
  <2>. SUFFICES ASSUME y < x PROVE FALSE
    OBVIOUS
  <2>1. 0 .. y \subseteq 0 .. x /\ 0 .. y # 0 .. x /\ 0 .. y \subseteq Nat /\ 0 .. x \subseteq Nat
    <3>1. x \in 0 .. x /\ x \notin 0 .. y
      OBVIOUS
    <3>. QED  BY <3>1
  <2>2. <<0 .. y, 0 .. x>> \in R
    BY <2>1 DEF R, StrictSubsetOrdering
  <2>. QED  BY <2>2, <1>4
<1>6. \E z \in S : \A y \in S : z <= y
  BY <1>5
<1>. QED  BY <1>6 DEF Min

-----------------------------------------------------------------------------
(* The invariant.                                                          *)

Typed ==
  /\ mfaRequired \in BOOLEAN /\ password \in BOOLEAN
  /\ pending \in Nat /\ totp \in Nat /\ secrets \in Nat
  /\ sessions \subseteq Browser
  /\ page \in [Tab -> [kind : Kind, secret : Nat]]

\* What a page says of the vault.
PageFits(pg) ==
  /\ pg.kind = "login" => password
  /\ pg.kind = "enrol" /\ totp = 0 => password /\ pending # 0 /\ pg.secret = pending

PagesFit == \A t \in Tab : PageFits(page[t])

AuthInv == Typed /\ NoSessionBeforeMfa /\ PagesFit

-----------------------------------------------------------------------------
(* Pages.                                                                  *)

LEMMA ShowsType ==
  ASSUME NEW kind \in Kind
  PROVE  /\ Shows(kind) \in [kind : Kind, secret : Nat] /\ Shows(kind).kind = kind
BY DEF Shows

LEMMA OwnerType ==
  ASSUME NEW t \in Tab
  PROVE  Owner[t] \in Browser
BY TabAssumption

\* A page of the enrolment.
LEMMA EnrolType ==
  ASSUME NEW secret \in Nat
  PROVE  LET pg == [kind |-> "enrol", secret |-> secret]
         IN  pg \in [kind : Kind, secret : Nat] /\ pg.kind = "enrol" /\ pg.secret = secret
BY DEF Kind

\* Pages that go stale fit as before: a stale page says nothing.
LEMMA UnboundFits ==
  ASSUME Typed, NEW bs \in SUBSET Browser
  PROVE  /\ Unbound(bs, page) \in [Tab -> [kind : Kind, secret : Nat]]
         /\ \A t \in Tab : \/ Unbound(bs, page)[t] = page[t]
                           \/ Unbound(bs, page)[t].kind = "stale"
BY ShowsType DEF Typed, Unbound, Kind

\* The vault is unchanged, and every page is one of before, or says nothing.
LEMMA SameVault ==
  ASSUME PagesFit, UNCHANGED <<password, pending, totp>>,
         \A t \in Tab : page'[t] = page[t] \/ page'[t].kind \notin {"login", "enrol"}
  PROVE  PagesFit'
BY DEF PagesFit, PageFits

-----------------------------------------------------------------------------
(* Steps that leave the vault alone and open no session.                   *)

\* A page is left, for one that says nothing.
LEMMA LeaveStep ==
  ASSUME AuthInv, NEW t \in Tab, NEW kind \in Kind \ {"login", "enrol"}, Leave(t, kind),
         UNCHANGED <<password, pending, totp, secrets, mfaRequired, sessions>>
  PROVE  AuthInv'
<1>1. \A u \in Tab : page'[u] = page[u] \/ page'[u].kind \notin {"login", "enrol"}
  BY ShowsType DEF Leave, AuthInv, Typed
<1>2. page' \in [Tab -> [kind : Kind, secret : Nat]]
  BY ShowsType DEF Leave, AuthInv, Typed
<1>3. Typed'
  BY <1>2 DEF AuthInv, Typed
<1>4. NoSessionBeforeMfa'
  BY DEF AuthInv, NoSessionBeforeMfa
<1>. QED  BY <1>1, <1>3, <1>4, SameVault DEF AuthInv

\* Sessions end, and their pages go stale.
LEMMA EndStep ==
  ASSUME AuthInv, NEW bs \in SUBSET Browser, End(bs)
  PROVE  AuthInv'
<1>1. /\ page' \in [Tab -> [kind : Kind, secret : Nat]]
      /\ \A t \in Tab : page'[t] = page[t] \/ page'[t].kind = "stale"
  BY UnboundFits DEF End, AuthInv
<1>2. Typed'
  BY <1>1 DEF End, AuthInv, Typed, vault
<1>3. NoSessionBeforeMfa'
  BY DEF End, AuthInv, NoSessionBeforeMfa, vault
<1>. QED  BY <1>1, <1>2, <1>3, SameVault DEF AuthInv, End, vault

\* A session begins, on a page that says nothing.
LEMMA EnterPages ==
  ASSUME AuthInv, NEW t \in Tab, NEW kind \in {"panel", "codes"}, Enter(t, kind)
  PROVE  /\ page' \in [Tab -> [kind : Kind, secret : Nat]]
         /\ \A u \in Tab : page'[u] = page[u] \/ page'[u].kind \in {"stale", "panel", "codes"}
         /\ sessions' \subseteq Browser
<1>1. {Owner[t]} \subseteq Browser
  BY OwnerType
<1> DEFINE pages == Unbound({Owner[t]}, page)
<1>2. /\ pages \in [Tab -> [kind : Kind, secret : Nat]]
      /\ \A u \in Tab : pages[u] = page[u] \/ pages[u].kind = "stale"
  BY <1>1, UnboundFits DEF AuthInv
<1>3. page' = [pages EXCEPT ![t] = Shows(kind)]
  BY DEF Enter
<1>4. Shows(kind) \in [kind : Kind, secret : Nat] /\ Shows(kind).kind = kind
  BY ShowsType DEF Kind
<1> HIDE DEF pages
<1>5. sessions' \subseteq Browser
  BY <1>1 DEF Enter, AuthInv, Typed
<1>. QED  BY <1>2, <1>3, <1>4, <1>5

\* Everything in memory is gone: no session is left.
LEMMA RestartedStep ==
  ASSUME AuthInv, Restarted, password \in BOOLEAN, password' \in BOOLEAN, pending' = pending,
         totp' \in Nat, secrets' = secrets, password => password',
         totp' = 0 => totp = 0
  PROVE  AuthInv'
<1>1. /\ page' \in [Tab -> [kind : Kind, secret : Nat]]
      /\ \A t \in Tab : page'[t] = page[t] \/ page'[t].kind = "stale"
  BY UnboundFits DEF Restarted, AuthInv
<1>2. Typed'
  BY <1>1 DEF Restarted, AuthInv, Typed
<1>3. NoSessionBeforeMfa'
  BY DEF Restarted, NoSessionBeforeMfa
<1>4. PagesFit'
  BY <1>1 DEF AuthInv, PagesFit, PageFits
<1>. QED  BY <1>2, <1>3, <1>4 DEF AuthInv

-----------------------------------------------------------------------------
(* Steps that render the pages of enrolment and log-in, or change the vault. *)

\* An enrolment page is rendered, with the pending secret.
LEMMA EnrolPages ==
  ASSUME AuthInv, NEW t \in Tab, pending' \in Nat, pending' # 0, password', totp = 0, totp' = totp,
         \A u \in Tab : page[u].kind = "enrol" => pending' = pending,
         page' = [page EXCEPT ![t] = [kind |-> "enrol", secret |-> pending']]
  PROVE  page' \in [Tab -> [kind : Kind, secret : Nat]] /\ PagesFit'
<1> DEFINE pg == [kind |-> "enrol", secret |-> pending']
<1>1. pg \in [kind : Kind, secret : Nat] /\ pg.kind = "enrol" /\ pg.secret = pending'
  BY EnrolType
<1>2. page' = [page EXCEPT ![t] = pg]
  OBVIOUS
<1> HIDE DEF pg
<1>3. page' \in [Tab -> [kind : Kind, secret : Nat]]
  BY <1>1, <1>2 DEF AuthInv, Typed
<1>4. ASSUME NEW u \in Tab
      PROVE  PageFits(page[u])'
  <2>1. CASE u = t
    <3>1. page'[u] = pg
      BY <1>2, <2>1 DEF AuthInv, Typed
    <3>. QED  BY <1>1, <3>1 DEF PageFits
  <2>2. CASE u # t
    <3>1. page'[u] = page[u] /\ PageFits(page[u])
      BY <1>2, <2>2 DEF AuthInv, Typed, PagesFit
    <3>. QED  BY <3>1 DEF PageFits
  <2>. QED  BY <2>1, <2>2
<1>. QED  BY <1>3, <1>4 DEF PagesFit

LEMMA VisitEnrolmentStep ==
  ASSUME AuthInv, NEW t \in Tab, VisitEnrolment(t)
  PROVE  AuthInv'
<1>1. password /\ totp = 0 /\ UNCHANGED <<password, totp, mfaRequired, sessions>>
  BY DEF VisitEnrolment, ShouldRequireMfaSetup, AuthInv, Typed
<1>2. secrets' \in Nat /\ pending' \in Nat /\ pending' # 0 /\ (pending # 0 => pending' = pending)
  BY DEF VisitEnrolment, AuthInv, Typed
<1>3. \A u \in Tab : page[u].kind = "enrol" => pending' = pending
  BY <1>1, <1>2 DEF AuthInv, PagesFit, PageFits
<1>4. page' \in [Tab -> [kind : Kind, secret : Nat]] /\ PagesFit'
  <2>1. password' /\ totp' = totp
    BY <1>1
  <2>2. page' = [page EXCEPT ![t] = [kind |-> "enrol", secret |-> pending']]
    BY DEF VisitEnrolment
  <2>. QED  BY <1>1, <1>2, <1>3, <2>1, <2>2, EnrolPages
<1>5. Typed'
  BY <1>1, <1>2, <1>4 DEF AuthInv, Typed
<1>6. NoSessionBeforeMfa'
  BY <1>1 DEF AuthInv, NoSessionBeforeMfa
<1>. QED  BY <1>4, <1>5, <1>6 DEF AuthInv

LEMMA VisitLoginStep ==
  ASSUME AuthInv, NEW t \in Tab, VisitLogin(t)
  PROVE  AuthInv'
<1>1. password /\ UNCHANGED <<password, pending, totp, secrets, mfaRequired, sessions>>
  BY DEF VisitLogin, vault
<1>2. Shows("login") \in [kind : Kind, secret : Nat] /\ Shows("login").kind = "login"
  BY ShowsType DEF Kind
<1>3. page' = [page EXCEPT ![t] = Shows("login")]
  BY DEF VisitLogin, Leave
<1>4. page' \in [Tab -> [kind : Kind, secret : Nat]]
  BY <1>2, <1>3 DEF AuthInv, Typed
<1>5. PagesFit'
  BY <1>1, <1>2, <1>3 DEF AuthInv, Typed, PagesFit, PageFits
<1>6. NoSessionBeforeMfa'
  BY <1>1 DEF AuthInv, NoSessionBeforeMfa
<1>. QED  BY <1>1, <1>4, <1>5, <1>6 DEF AuthInv, Typed

LEMMA SetupStep ==
  ASSUME AuthInv, NEW t \in Tab, Setup(t)
  PROVE  AuthInv'
<1>1. ~password /\ password' = TRUE /\ UNCHANGED <<totp, mfaRequired>>
  BY DEF Setup
<1>2. \A u \in Tab : page[u].kind = "enrol" => totp # 0
  BY <1>1 DEF AuthInv, PagesFit, PageFits
<1>3. CASE mfaRequired
  <2>1. secrets' \in Nat /\ pending' \in Nat /\ pending' # 0 /\ sessions' = sessions
    BY <1>3 DEF Setup, AuthInv, Typed
  <2>2. page' = [page EXCEPT ![t] = [kind |-> "enrol", secret |-> pending']]
    BY <1>3 DEF Setup
  <2>3. sessions' = {}
    BY <1>1, <1>3, <2>1 DEF AuthInv, NoSessionBeforeMfa
  <2>4. CASE totp = 0
    <3>1. page' \in [Tab -> [kind : Kind, secret : Nat]] /\ PagesFit'
      BY <1>1, <1>2, <2>1, <2>2, <2>4, EnrolPages
    <3>. QED  BY <1>1, <2>1, <2>3, <3>1 DEF AuthInv, Typed, NoSessionBeforeMfa
  <2>5. CASE totp # 0
    <3> DEFINE pg == [kind |-> "enrol", secret |-> pending']
    <3>1. pg \in [kind : Kind, secret : Nat] /\ pg.kind = "enrol"
      BY <2>1, EnrolType
    <3> HIDE DEF pg
    <3>2. page' \in [Tab -> [kind : Kind, secret : Nat]]
      BY <2>2, <3>1 DEF AuthInv, Typed, pg
    <3>3. PagesFit'
      BY <1>1, <2>5 DEF PagesFit, PageFits
    <3>. QED  BY <1>1, <2>1, <2>3, <3>2, <3>3 DEF AuthInv, Typed, NoSessionBeforeMfa
  <2>. QED  BY <2>4, <2>5
<1>4. CASE ~mfaRequired
  <2>1. Enter(t, "panel") /\ UNCHANGED <<pending, secrets>>
    BY <1>4 DEF Setup
  <2>2. /\ page' \in [Tab -> [kind : Kind, secret : Nat]]
        /\ \A u \in Tab : page'[u] = page[u] \/ page'[u].kind \in {"stale", "panel", "codes"}
        /\ sessions' \subseteq Browser
    BY <2>1, EnterPages
  <2>3. PagesFit'
    BY <1>1, <1>2, <2>1, <2>2 DEF AuthInv, PagesFit, PageFits
  <2>. QED  BY <1>1, <1>4, <2>1, <2>2, <2>3 DEF AuthInv, Typed, NoSessionBeforeMfa
<1>. QED  BY <1>3, <1>4

LEMMA ConfirmEnrolmentStep ==
  ASSUME AuthInv, NEW t \in Tab, ConfirmEnrolment(t)
  PROVE  AuthInv'
<1>1. /\ password /\ totp' = pending /\ pending # 0 /\ pending' = 0
      /\ UNCHANGED <<password, secrets, mfaRequired>>
  BY DEF ConfirmEnrolment, CanConfirm, Confirm
<1>2. Enter(t, "codes") \/ (Leave(t, "none") /\ sessions' = sessions)
  BY DEF ConfirmEnrolment
<1>3. /\ page' \in [Tab -> [kind : Kind, secret : Nat]]
      /\ \A u \in Tab : page'[u] = page[u] \/ page'[u].kind \notin {"login", "enrol"}
      /\ sessions' \subseteq Browser
  <2>1. CASE Enter(t, "codes")
    BY <2>1, EnterPages
  <2>2. CASE Leave(t, "none") /\ sessions' = sessions
    BY <2>2, ShowsType DEF Leave, Kind, AuthInv, Typed
  <2>. QED  BY <1>2, <2>1, <2>2
<1>4. Typed'
  BY <1>1, <1>3 DEF AuthInv, Typed
<1>5. NoSessionBeforeMfa'
  BY <1>1 DEF NoSessionBeforeMfa
<1>6. PagesFit'
  BY <1>1, <1>3 DEF AuthInv, PagesFit, PageFits
<1>. QED  BY <1>4, <1>5, <1>6 DEF AuthInv

LEMMA LoginStep ==
  ASSUME AuthInv, NEW t \in Tab, Login(t)
  PROVE  AuthInv'
<1>1. /\ page[t].kind = "login" /\ ~(mfaRequired /\ totp = 0) /\ Enter(t, "panel")
      /\ UNCHANGED <<password, pending, totp, secrets, mfaRequired>>
  BY DEF Login, ShouldRequireMfaSetup
<1>2. password
  BY <1>1 DEF AuthInv, PagesFit, PageFits
<1>3. /\ page' \in [Tab -> [kind : Kind, secret : Nat]]
      /\ \A u \in Tab : page'[u] = page[u] \/ page'[u].kind \in {"stale", "panel", "codes"}
      /\ sessions' \subseteq Browser
  BY <1>1, EnterPages
<1>4. NoSessionBeforeMfa'
  BY <1>1, <1>2 DEF NoSessionBeforeMfa
<1>5. PagesFit'
  BY <1>1, <1>3, SameVault DEF AuthInv
<1>. QED  BY <1>1, <1>3, <1>4, <1>5 DEF AuthInv, Typed

-----------------------------------------------------------------------------
(* Every action.                                                           *)

LEMMA TabStep ==
  ASSUME AuthInv, NEW t \in Tab,
         \/ VisitSetup(t) \/ VisitEnrolment(t) \/ VisitLogin(t) \/ VisitPanel(t)
         \/ SetupRefused(t) \/ Setup(t)
         \/ EnrolmentRefused(t) \/ ConfirmEnrolment(t)
         \/ LoginFormRefused(t) \/ WrongLogin(t) \/ Login(t)
         \/ Logout(t) \/ RevokeAllSessions(t) \/ FormExpires(t)
         \/ DieInSetup(t) \/ DieInConfirm(t)
  PROVE  AuthInv'
<1>1. CASE VisitSetup(t)
  BY <1>1, LeaveStep DEF VisitSetup, vault, Kind
<1>2. CASE VisitPanel(t)
  BY <1>2, LeaveStep DEF VisitPanel, vault, memory, Kind
<1>3. CASE SetupRefused(t) \/ EnrolmentRefused(t) \/ LoginFormRefused(t) \/ WrongLogin(t)
  BY <1>3, LeaveStep DEF SetupRefused, EnrolmentRefused, LoginFormRefused, WrongLogin, vault, Kind
<1>4. CASE VisitEnrolment(t) \/ VisitLogin(t) \/ Setup(t) \/ ConfirmEnrolment(t) \/ Login(t)
  BY <1>4, VisitEnrolmentStep, VisitLoginStep, SetupStep, ConfirmEnrolmentStep, LoginStep
<1>5. CASE Logout(t) \/ RevokeAllSessions(t)
  BY <1>5, EndStep, OwnerType DEF Logout, RevokeAllSessions
<1>6. CASE FormExpires(t)
  <2>1. UNCHANGED <<password, pending, totp, secrets, mfaRequired, sessions, page>>
    BY <1>6 DEF FormExpires, vault, browsers
  <2>. QED  BY <2>1 DEF AuthInv, Typed, NoSessionBeforeMfa, PagesFit, PageFits
<1>7. CASE DieInSetup(t)
  BY <1>7, RestartedStep DEF DieInSetup, AuthInv, Typed
<1>8. CASE DieInConfirm(t)
  BY <1>8, RestartedStep DEF DieInConfirm, CanConfirm, Confirm, AuthInv, Typed
<1>. QED  BY <1>1, <1>2, <1>3, <1>4, <1>5, <1>6, <1>7, <1>8

LEMMA AuthStep == AuthInv /\ [AuthNext]_<<authVars, lockVars>> => AuthInv'
<1> SUFFICES ASSUME AuthInv, [AuthNext]_<<authVars, lockVars>>
             PROVE  AuthInv'
  OBVIOUS
<1>1. ASSUME NEW t \in Tab,
             \/ VisitSetup(t) \/ VisitEnrolment(t) \/ VisitLogin(t) \/ VisitPanel(t)
             \/ SetupRefused(t) \/ Setup(t)
             \/ EnrolmentRefused(t) \/ ConfirmEnrolment(t)
             \/ LoginFormRefused(t) \/ WrongLogin(t) \/ Login(t)
             \/ Logout(t) \/ RevokeAllSessions(t) \/ FormExpires(t)
             \/ DieInSetup(t) \/ DieInConfirm(t)
      PROVE  AuthInv'
  BY <1>1, TabStep
<1>2. ASSUME NEW b \in Browser, SessionEnds(b)
      PROVE  AuthInv'
  BY <1>2, EndStep DEF SessionEnds
<1>3. CASE Restart
  BY <1>3, RestartedStep DEF Restart, vault, AuthInv, Typed
<1>4. CASE UNCHANGED authVars
  <2>1. UNCHANGED <<password, pending, totp, secrets, mfaRequired, sessions, page>>
    BY <1>4 DEF authVars, vault, memory, browsers
  <2>. QED  BY <2>1 DEF AuthInv, Typed, NoSessionBeforeMfa, PagesFit, PageFits
<1>5. CASE AuthTick
  BY <1>4, <1>5 DEF AuthTick
<1>. QED  BY <1>1, <1>2, <1>3, <1>4, <1>5 DEF AuthNext

(***************************************************************************)
(* The inductive invariant of the panel's log-in: sessions only where the  *)
(* authenticator is enrolled if it has to be, and no open page that says   *)
(* of the vault what could do harm.                                        *)
(***************************************************************************)
THEOREM AuthInvariant == AuthSpec => []AuthInv
<1>1. AuthInit => AuthInv
  <2> SUFFICES ASSUME AuthInit PROVE AuthInv
    OBVIOUS
  <2>1. Shows("none") \in [kind : Kind, secret : Nat] /\ Shows("none").kind = "none"
    BY ShowsType DEF Kind
  <2>2. page = [t \in Tab |-> Shows("none")] /\ sessions = {}
    BY DEF AuthInit
  <2>3. Typed
    BY <2>1, <2>2 DEF AuthInit, Typed
  <2>4. PagesFit
    BY <2>1, <2>2 DEF PagesFit, PageFits
  <2>. QED  BY <2>2, <2>3, <2>4 DEF AuthInv, NoSessionBeforeMfa
<1>. QED  BY <1>1, AuthStep, PTL DEF AuthSpec

(***************************************************************************)
(* For any number of browsers and open pages: where MFA is required,       *)
(* nobody has a session before an authenticator is enrolled.               *)
(***************************************************************************)
THEOREM MfaComesFirst == AuthSpec => []NoSessionBeforeMfa
<1>1. AuthInv => NoSessionBeforeMfa
  BY DEF AuthInv
<1>. QED  BY <1>1, AuthInvariant, PTL

(***************************************************************************)
(* For any number of enrolment pages: until one is confirmed, all of them  *)
(* show the secret that is pending.                                        *)
(***************************************************************************)
THEOREM PagesAgree == AuthSpec => []EnrolmentPagesAgree
<1>1. AuthInv => EnrolmentPagesAgree
  BY DEF AuthInv, PagesFit, PageFits, EnrolmentPagesAgree
<1>. QED  BY <1>1, AuthInvariant, PTL

-----------------------------------------------------------------------------
(* The authenticator that is enrolled.                                     *)

LEMMA CodesOfLogin ==
  ASSUME codes \in Nat, NEW n \in CodesLeft
  PROVE  n \in Nat /\ n <= codes
BY DEF CodesLeft

LEMMA EnrolledStep ==
  ASSUME codes \in Nat, [AuthNext]_<<authVars, lockVars>>
  PROVE  codes' \in Nat /\ (totp # 0 => totp' = totp /\ codes' <= codes)
<1>1. ASSUME UNCHANGED <<totp, codes>>
      PROVE  codes' \in Nat /\ (totp # 0 => totp' = totp /\ codes' <= codes)
  BY <1>1
<1>2. ASSUME NEW t \in Tab,
             \/ VisitSetup(t) \/ VisitEnrolment(t) \/ VisitLogin(t) \/ VisitPanel(t)
             \/ SetupRefused(t) \/ Setup(t)
             \/ EnrolmentRefused(t) \/ LoginFormRefused(t) \/ WrongLogin(t)
             \/ Logout(t) \/ RevokeAllSessions(t) \/ FormExpires(t) \/ DieInSetup(t)
      PROVE  UNCHANGED <<totp, codes>>
  BY <1>2 DEF VisitSetup, VisitEnrolment, VisitLogin, VisitPanel, SetupRefused, Setup,
              EnrolmentRefused, LoginFormRefused, WrongLogin, Logout, RevokeAllSessions, End,
              FormExpires, DieInSetup, vault
<1>3. ASSUME NEW t \in Tab, ConfirmEnrolment(t) \/ DieInConfirm(t)
      PROVE  totp = 0 /\ codes' \in Nat
  BY <1>3, PanelBoundAssumption
     DEF ConfirmEnrolment, DieInConfirm, CanConfirm, Confirm, ShouldRequireMfaSetup
<1>4. ASSUME NEW t \in Tab, Login(t)
      PROVE  totp' = totp /\ codes' \in Nat /\ codes' <= codes
  BY <1>4, CodesOfLogin DEF Login
<1>5. ASSUME \/ \E b \in Browser : SessionEnds(b)
             \/ Restart \/ AuthTick \/ UNCHANGED <<authVars, lockVars>>
      PROVE  UNCHANGED <<totp, codes>>
  BY <1>5 DEF SessionEnds, End, Restart, AuthTick, authVars, vault
<1>. QED  BY <1>1, <1>2, <1>3, <1>4, <1>5 DEF AuthNext

(***************************************************************************)
(* For any number of pages and restarts: an authenticator that is enrolled *)
(* stays so, and its recovery codes only become fewer.                     *)
(***************************************************************************)
THEOREM EnrolledForGood == AuthSpec => EnrolledOnce
<1>1. AuthInit => codes \in Nat
  BY DEF AuthInit
<1>2. codes \in Nat /\ [AuthNext]_<<authVars, lockVars>> => (codes \in Nat)'
  BY EnrolledStep
<1>3. codes \in Nat /\ [AuthNext]_<<authVars, lockVars>> =>
        [totp # 0 => totp' = totp /\ codes' <= codes]_authVars
  BY EnrolledStep
<1>. QED  BY <1>1, <1>2, <1>3, PTL DEF AuthSpec, EnrolledOnce

-----------------------------------------------------------------------------
(* The update jobs.                                                        *)

\* What the record of a job says of its child, and of what that has written.
JobFits(c) ==
  /\ c.status = "failed" => c.wrote # "ok"
  /\ c.status = "succeeded" => c.wrote = "ok" \/ (c.wrote = "none" /\ c.child = "signal")
  /\ c.child \in {"alive", "never"} => c.status = "running"
  /\ c.child = "unborn" => c.wrote = "none" /\ c.status # "succeeded"
  /\ c.child = "zero" => c.wrote = "ok"
  /\ c.child = "nonzero" => c.wrote # "ok"

CallFits(c) ==
  /\ c.answer = "failed" => c.wrote # "ok"
  /\ c.answer = "ok" => c.wrote = "ok" \/ (c.wrote = "none" /\ c.child = "signal")
  /\ c.code = "200" => c.answer = "ok" \/ c.child = "signal"
  /\ c.child = "unborn" => c.closed /\ c.answer = "failed"
  /\ c.child = "zero" => c.wrote = "ok"
  /\ c.child = "nonzero" => c.wrote # "ok"
  /\ c.child = "alive" => c.answer = "none" /\ c.code = "none"

\* Only the last job may be running, so that no other has a child at work; and so
\* every panel but the present one has left at most one child behind.
JobInv ==
  /\ JobTypeOK /\ outlived < panels
  /\ \A i \in 1 .. Len(jobs) : JobFits(jobs[i]) /\ (jobs[i].status = "running" => i = Len(jobs))
  /\ \A k \in 1 .. Len(calls) : CallFits(calls[k])

\* One record of a job, or of a call, is replaced.
LEMMA JobReplaced ==
  ASSUME JobInv, NEW i \in 1 .. Len(jobs), NEW c \in Job, JobFits(c),
         c.status = "running" => jobs[i].status = "running",
         jobs' = [jobs EXCEPT ![i] = c], UNCHANGED <<calls, outlived, panels>>
  PROVE  JobInv'
<1>1. jobs \in Seq(Job) /\ Len(jobs) \in Nat
  BY LenProperties DEF JobInv, JobTypeOK
<1>2. /\ jobs' \in Seq(Job) /\ Len(jobs') = Len(jobs)
      /\ jobs'[i] = c /\ \A k \in (1 .. Len(jobs)) \ {i} : jobs'[k] = jobs[k]
  BY <1>1, ExceptSeq
<1>3. JobTypeOK'
  BY <1>2 DEF JobInv, JobTypeOK
<1>. QED  BY <1>1, <1>2, <1>3 DEF JobInv

LEMMA CallReplaced ==
  ASSUME JobInv, NEW i \in 1 .. Len(calls), NEW c \in Call, CallFits(c),
         calls' = [calls EXCEPT ![i] = c], UNCHANGED <<jobs, outlived, panels>>
  PROVE  JobInv'
<1>1. calls \in Seq(Call) /\ Len(calls) \in Nat
  BY LenProperties DEF JobInv, JobTypeOK
<1>2. /\ calls' \in Seq(Call) /\ Len(calls') = Len(calls)
      /\ calls'[i] = c /\ \A k \in (1 .. Len(calls)) \ {i} : calls'[k] = calls[k]
  BY <1>1, ExceptSeq
<1>3. JobTypeOK'
  BY <1>2 DEF JobInv, JobTypeOK
<1>. QED  BY <1>1, <1>2, <1>3 DEF JobInv

LEMMA StartStep ==
  ASSUME JobInv, StartUpdateJob
  PROVE  JobInv'
<1>1. PICK child \in {"alive", "unborn", "never"} : jobs' = Fresh(child)
  BY DEF StartUpdateJob
<1> DEFINE new == [status |-> "running", child |-> child, closed |-> child = "never",
                   wrote |-> "none", read |-> "none"]
<1>2. new \in Job /\ JobFits(new)
  BY DEF Job, Child, Ending, Result, JobFits
<1>3. jobs \in Seq(Job) /\ Len(jobs) \in Nat /\ Len(jobs) < MaxJobs
      /\ UNCHANGED <<calls, outlived, panels>>
  BY LenProperties DEF JobInv, JobTypeOK, StartUpdateJob
<1>4. jobs' = Append(jobs, new)
  BY <1>1 DEF Fresh
<1> HIDE DEF new
<1>5. /\ jobs' \in Seq(Job) /\ Len(jobs') = Len(jobs) + 1
      /\ \A i \in 1 .. Len(jobs) : jobs'[i] = jobs[i]
      /\ jobs'[Len(jobs) + 1] = new
  BY <1>2, <1>3, <1>4, AppendProperties
<1>6. \A i \in 1 .. Len(jobs) : jobs[i].status # "running"
  <2>1. jobs # <<>> => Len(jobs) > 0
    BY <1>3, EmptySeq
  <2>2. jobs = <<>> => Len(jobs) = 0
    BY EmptySeq
  <2>. QED  BY <1>3, <2>1, <2>2 DEF StartUpdateJob, Running, JobInv
<1>7. JobTypeOK'
  BY <1>3, <1>5, JobBoundAssumption DEF JobInv, JobTypeOK
<1>. QED  BY <1>2, <1>3, <1>5, <1>6, <1>7 DEF JobInv

\* A child that exits has written what its code says.
LEMMA ExitFits ==
  ASSUME NEW c, c.child = "alive", NEW e \in Exits(c)
  PROVE  \E child \in Ending, wrote \in Result :
           /\ e = [c EXCEPT !.child = child, !.wrote = wrote]
           /\ child = "zero" => wrote = "ok"
           /\ child = "nonzero" => wrote # "ok"
<1>1. PICK o \in Outcome : e = [c EXCEPT !.child = o[1], !.wrote = o[2]]
  BY DEF Exits
<1>2. /\ o[1] \in Ending /\ o[2] \in Result
      /\ o[1] = "zero" => o[2] = "ok"
      /\ o[1] = "nonzero" => o[2] # "ok"
  BY DEF Outcome, Ending, Result
<1>. QED  BY <1>1, <1>2

LEMMA ChildStep ==
  ASSUME JobInv, NEW i \in 1 .. Len(jobs),
         \/ ChildError(i) \/ ResultWritten(i) \/ HandleProgressLine(i)
         \/ ChildExits(i) \/ ChildCloses(i)
  PROVE  JobInv'
<1>1. jobs[i] \in Job /\ JobFits(jobs[i])
  BY ElementOfSeq DEF JobInv, JobTypeOK
<1>2. CASE ChildError(i)
  <2> DEFINE c == [jobs[i] EXCEPT !.status = "failed"]
  <2>1. c \in Job /\ JobFits(c) /\ c.status # "running"
    BY <1>1, <1>2 DEF ChildError, Job, JobFits
  <2>2. jobs' = [jobs EXCEPT ![i] = c] /\ UNCHANGED <<calls, outlived, panels>>
    BY <1>2 DEF ChildError
  <2> HIDE DEF c
  <2>. QED  BY <2>1, <2>2, JobReplaced
<1>3. CASE ResultWritten(i)
  <2>1. PICK result \in {"ok", "bad"} : jobs' = [jobs EXCEPT ![i].wrote = result]
    BY <1>3 DEF ResultWritten
  <2> DEFINE c == [jobs[i] EXCEPT !.wrote = result]
  <2>2. c \in Job /\ JobFits(c) /\ c.status = jobs[i].status
    BY <1>1, <1>3 DEF ResultWritten, Job, Result, JobFits
  <2>3. jobs' = [jobs EXCEPT ![i] = c] /\ UNCHANGED <<calls, outlived, panels>>
    BY <1>3, <2>1 DEF ResultWritten
  <2> HIDE DEF c
  <2>. QED  BY <2>2, <2>3, JobReplaced
<1>4. CASE HandleProgressLine(i)
  <2> DEFINE c == [jobs[i] EXCEPT !.read = jobs[i].wrote]
  <2>1. c \in Job /\ JobFits(c) /\ c.status = jobs[i].status
    BY <1>1 DEF Job, JobFits
  <2>2. jobs' = [jobs EXCEPT ![i] = c] /\ UNCHANGED <<calls, outlived, panels>>
    BY <1>4 DEF HandleProgressLine
  <2> HIDE DEF c
  <2>. QED  BY <2>1, <2>2, JobReplaced
<1>5. CASE ChildExits(i)
  <2>1. jobs[i].child = "alive" /\ UNCHANGED <<calls, outlived, panels>>
    BY <1>5 DEF ChildExits
  <2>2. PICK c \in Exits(jobs[i]) : jobs' = [jobs EXCEPT ![i] = c]
    BY <1>5 DEF ChildExits
  <2>3. PICK child \in Ending, wrote \in Result :
           /\ c = [jobs[i] EXCEPT !.child = child, !.wrote = wrote]
           /\ child = "zero" => wrote = "ok"
           /\ child = "nonzero" => wrote # "ok"
    BY <2>1, ExitFits
  <2>4. jobs[i].status = "running"
    BY <1>1, <2>1 DEF JobFits
  <2>5. c \in Job
    BY <1>1, <2>3 DEF Job, Child
  <2>6. c.status = "running" /\ c.child = child /\ c.wrote = wrote
    BY <1>1, <2>3, <2>4 DEF Job
  <2>7. JobFits(c)
    BY <2>3, <2>6 DEF Ending, JobFits
  <2>. QED  BY <2>1, <2>2, <2>4, <2>5, <2>6, <2>7, JobReplaced
<1>6. CASE ChildCloses(i)
  <2> DEFINE c == [jobs[i] EXCEPT !.closed = TRUE, !.status = Verdict(i), !.read = jobs[i].wrote]
  <2>1. /\ jobs[i].child \in Ending \cup {"unborn"}
        /\ jobs' = [jobs EXCEPT ![i].closed = TRUE, ![i].status = Verdict(i), ![i].read = jobs[i].wrote]
        /\ UNCHANGED <<calls, outlived, panels>>
    BY <1>6 DEF ChildCloses, Closes, Closable
  <2>2. jobs' = [jobs EXCEPT ![i] = c]
    BY <2>1
  <2>3. /\ Verdict(i) \in {"succeeded", "failed"}
        /\ Verdict(i) = "failed" => jobs[i].wrote # "ok"
        /\ Verdict(i) = "succeeded" =>
             jobs[i].wrote = "ok" \/ (jobs[i].wrote = "none" /\ jobs[i].child = "signal")
        /\ jobs[i].child = "unborn" => Verdict(i) = "failed"
    BY <1>1, <2>1 DEF Verdict, Code, JobFits, Ending, Job, Result
  <2>4. c \in Job /\ JobFits(c) /\ c.status # "running"
    BY <1>1, <2>1, <2>3 DEF Job, JobFits, Ending
  <2> HIDE DEF c
  <2>. QED  BY <2>1, <2>2, <2>4, JobReplaced
<1>. QED  BY <1>2, <1>3, <1>4, <1>5, <1>6

LEMMA ApplyStep ==
  ASSUME JobInv, Apply
  PROVE  JobInv'
<1>1. PICK child \in {"alive", "unborn"} :
        calls' = Append(calls, [answer |-> IF child = "alive" THEN "none" ELSE "failed",
                                code |-> IF child = "alive" THEN "none" ELSE "500",
                                child |-> child, closed |-> child = "unborn", wrote |-> "none"])
  BY DEF Apply
<1> DEFINE new == [answer |-> IF child = "alive" THEN "none" ELSE "failed",
                   code |-> IF child = "alive" THEN "none" ELSE "500",
                   child |-> child, closed |-> child = "unborn", wrote |-> "none"]
<1>2. new \in Call /\ CallFits(new)
  BY DEF Call, Child, Ending, Result, CallFits
<1>3. calls \in Seq(Call) /\ Len(calls) \in Nat /\ Len(calls) < MaxCalls
      /\ UNCHANGED <<jobs, outlived, panels>>
  BY LenProperties DEF JobInv, JobTypeOK, Apply
<1>4. calls' = Append(calls, new)
  BY <1>1
<1> HIDE DEF new
<1>5. /\ calls' \in Seq(Call) /\ Len(calls') = Len(calls) + 1
      /\ \A i \in 1 .. Len(calls) : calls'[i] = calls[i]
      /\ calls'[Len(calls) + 1] = new
  BY <1>2, <1>3, <1>4, AppendProperties
<1>6. JobTypeOK'
  BY <1>3, <1>5, JobBoundAssumption DEF JobInv, JobTypeOK
<1>. QED  BY <1>2, <1>3, <1>5, <1>6 DEF JobInv

LEMMA CallStep ==
  ASSUME JobInv, NEW k \in 1 .. Len(calls), CallExits(k) \/ CallCloses(k)
  PROVE  JobInv'
<1>1. calls[k] \in Call /\ CallFits(calls[k])
  BY ElementOfSeq DEF JobInv, JobTypeOK
<1>2. CASE CallExits(k)
  <2>1. calls[k].child = "alive" /\ UNCHANGED <<jobs, outlived, panels>>
    BY <1>2 DEF CallExits
  <2>2. PICK c \in Exits(calls[k]) : calls' = [calls EXCEPT ![k] = c]
    BY <1>2 DEF CallExits
  <2>3. PICK child \in Ending, wrote \in Result :
           /\ c = [calls[k] EXCEPT !.child = child, !.wrote = wrote]
           /\ child = "zero" => wrote = "ok"
           /\ child = "nonzero" => wrote # "ok"
    BY <2>1, ExitFits
  <2>4. c \in Call
    BY <1>1, <2>3 DEF Call, Child
  <2>5. c.answer = "none" /\ c.code = "none" /\ c.child = child /\ c.wrote = wrote
    BY <1>1, <2>1, <2>3 DEF Call, CallFits
  <2>6. CallFits(c)
    BY <2>3, <2>5 DEF Ending, CallFits
  <2>. QED  BY <2>1, <2>2, <2>4, <2>6, CallReplaced
<1>3. CASE CallCloses(k)
  <2>1. /\ calls[k].child \in Ending \cup {"unborn"} /\ ~calls[k].closed
        /\ calls' = [calls EXCEPT ![k].closed = TRUE, ![k].answer = AnswerOf(calls[k]),
                                  ![k].code = IF Code(calls[k]) = 0 THEN "200" ELSE "500"]
        /\ UNCHANGED <<jobs, outlived, panels>>
    BY <1>3 DEF CallCloses, Closable
  <2>2. calls[k].child \in Ending
    BY <1>1, <2>1 DEF CallFits
  <2>3. PICK answer \in {"ok", "failed"}, code \in {"200", "500"} :
           /\ answer = AnswerOf(calls[k]) /\ code = IF Code(calls[k]) = 0 THEN "200" ELSE "500"
           /\ answer = "failed" => calls[k].wrote # "ok"
           /\ answer = "ok" =>
                calls[k].wrote = "ok" \/ (calls[k].wrote = "none" /\ calls[k].child = "signal")
           /\ code = "200" => answer = "ok" \/ calls[k].child = "signal"
    BY <1>1, <2>2 DEF AnswerOf, Code, CallFits, Ending, Call, Result
  <2> DEFINE c == [calls[k] EXCEPT !.closed = TRUE, !.answer = answer, !.code = code]
  <2>4. calls' = [calls EXCEPT ![k] = c]
    BY <2>1, <2>3
  <2>5. c.child = calls[k].child /\ c.wrote = calls[k].wrote /\ c.answer = answer /\ c.code = code
    BY <1>1 DEF Call
  <2>6. c \in Call
    BY <1>1, <2>3 DEF Call
  <2> HIDE DEF c
  <2>7. CallFits(c)
    BY <1>1, <2>2, <2>3, <2>5 DEF CallFits, Ending
  <2>. QED  BY <2>1, <2>4, <2>6, <2>7, CallReplaced
<1>. QED  BY <1>2, <1>3

\* At most one child is at work that this panel has started: that of the last job.
LEMMA OneLives ==
  ASSUME JobInv
  PROVE  Cardinality(Living) \in {0, 1} /\ \A i, k \in Living : i = k
<1>1. \A i \in Living : i = Len(jobs)
  BY DEF Living, JobInv, JobFits
<1>2. Living = {} \/ Living = {Len(jobs)}
  BY <1>1
<1>3. Cardinality({}) = 0 /\ Cardinality({Len(jobs)}) = 1
  BY FS_EmptySet, FS_Singleton
<1>. QED  BY <1>1, <1>2, <1>3

\* The inductive invariant of the jobs and calls.
THEOREM JobInvariant == JobSpec => []JobInv
<1>1. Len(<<>>) = 0 /\ \A S : <<>> \in Seq(S)
  BY EmptySeq
<1>2. JobInit => JobInv
  BY <1>1, JobBoundAssumption DEF JobInit, JobInv, JobTypeOK
<1>3. JobInv /\ [JobNext]_jobVars => JobInv'
  <2> SUFFICES ASSUME JobInv, [JobNext]_jobVars
               PROVE  JobInv'
    OBVIOUS
  <2>1. CASE UNCHANGED jobVars
    BY <2>1 DEF jobVars, JobInv, JobTypeOK
  <2>2. CASE StartRefused
    BY <2>2 DEF StartRefused, jobVars, JobInv, JobTypeOK
  <2>3. CASE PanelRestarts
    <3>1. /\ jobs' = <<>> /\ calls' = <<>> /\ panels' = panels + 1 /\ panels < MaxPanels
          /\ outlived' = outlived + Cardinality(Living)
      BY <2>3 DEF PanelRestarts
    <3>2. /\ outlived \in Nat /\ panels \in 1 .. MaxPanels /\ outlived < panels
          /\ Cardinality(Living) \in {0, 1}
      BY OneLives DEF JobInv, JobTypeOK
    <3>3. outlived' \in Nat /\ panels' \in 1 .. MaxPanels /\ outlived' < panels'
      BY <3>1, <3>2, JobBoundAssumption
    <3>. QED  BY <1>1, <3>1, <3>3, JobBoundAssumption DEF JobInv, JobTypeOK
  <2>4. CASE OutlivedExits
    <3>1. /\ outlived > 0 /\ outlived' = outlived - 1 /\ UNCHANGED <<jobs, calls, panels>>
      BY <2>4 DEF OutlivedExits
    <3>2. outlived \in Nat /\ panels \in 1 .. MaxPanels /\ outlived < panels
      BY DEF JobInv, JobTypeOK
    <3>3. outlived' \in Nat /\ outlived' < panels'
      BY <3>1, <3>2, JobBoundAssumption
    <3>. QED  BY <3>1, <3>3 DEF JobInv, JobTypeOK
  <2>. QED  BY <2>1, <2>2, <2>3, <2>4, StartStep, ApplyStep, ChildStep, CallStep DEF JobNext
<1>. QED  BY <1>2, <1>3, PTL DEF JobSpec

(***************************************************************************)
(* The panel tells the truth of its updates, however many there are and    *)
(* whichever events of their children come in late; no two children of its *)
(* jobs are ever at work at once, and each panel before it has left one at *)
(* most to run on.                                                         *)
(***************************************************************************)
THEOREM PanelTellsTheTruth == JobSpec => []JobTruth
<1>1. ASSUME JobInv PROVE JobTruth
  <2>1. /\ Cardinality(Living) \in {0, 1} /\ \A i, k \in Living : i = k
        /\ outlived \in Nat /\ panels \in 1 .. MaxPanels /\ outlived < panels
    BY <1>1, OneLives DEF JobInv, JobTypeOK
  <2>2. Cardinality(Living) + outlived <= panels
    BY <2>1, JobBoundAssumption
  <2>. QED  BY <1>1, <2>1, <2>2 DEF JobInv, JobFits, CallFits, JobTruth
<1>. QED  BY <1>1, JobInvariant, PTL

-----------------------------------------------------------------------------
(* The settings.                                                           *)

\* A value that its input brings back as it is.
Keeps(k, value) == GivenBack(k, value) = value

\* A page that nothing has outdated shows what is stored; what is not stored is what
\* the panel runs with, unless it was cleared since the panel started; and only a
\* value of .env may be one that its input does not bring back.
SettingsInv ==
  /\ SettingsTypeOK
  /\ \A a \in fresh : form[a] = Inputs(stored)
  /\ \A k \in Key : stored[k] = Unset /\ env[k] # Dot[k] => k \in cleared
  /\ \A k \in Key : stored[k] # Unset => Keeps(k, stored[k])
  /\ \A k \in Key : Keeps(k, env[k]) \/ env[k] = Dot[k]
  /\ SavedIsNext

\* What is made of a value, and what comes of that when it is shown and posted again.
LEMMA NormalizedKeeps ==
  ASSUME NEW k \in Key, NEW value \in Value \cup {Unset}, Normalized(k, value) # Unfit
  PROVE  /\ value = Unset => Normalized(k, value) = Unset
         /\ value # Unset => Normalized(k, value) \in Value /\ Keeps(k, Normalized(k, value))
<1>1. CASE value = Unset
  BY <1>1 DEF Normalized
<1>2. CASE value # Unset /\ k \in Select
  <2>1. value \in Option[k] /\ Normalized(k, value) = value
    BY <1>2 DEF Normalized
  <2>. QED  BY <1>2, <2>1 DEF Keeps, GivenBack, Held
<1>3. CASE value # Unset /\ k \notin Select
  <2>1. value \in Value /\ Neat[k][value] # Unfit /\ Normalized(k, value) = Neat[k][value]
    BY <1>3 DEF Normalized
  <2>2. Neat[k][value] \in Value /\ Neat[k][Neat[k][value]] = Neat[k][value]
    BY <1>3, <2>1, SettingAssumption
  <2>3. GivenBack(k, Neat[k][value]) = Neat[k][Neat[k][value]]
    BY <1>3, <2>2, SettingAssumption DEF GivenBack, Held, Normalized
  <2>. QED  BY <1>3, <2>1, <2>2, <2>3 DEF Keeps
<1>. QED  BY <1>1, <1>2, <1>3

\* An input holds a value, from which as much is made as from the one it shows.
LEMMA HeldType ==
  ASSUME NEW k \in Key, NEW value \in Value
  PROVE  Held(k, value) \in Value /\ Held(k, value) # Unset
BY SettingAssumption DEF Held

LEMMA InputsType ==
  ASSUME SettingsTypeOK, NEW values \in Override
  PROVE  /\ Inputs(values) \in Override
         /\ Overlay(values, Dot) \in [Key -> Value]
         /\ \A k \in Key \ Masked :
              Inputs(values)[k] = Held(k, IF values[k] = Unset THEN env[k] ELSE values[k])
         /\ \A k \in Masked : Inputs(values)[k] = Unset
<1>1. Overlay(values, Dot) \in [Key -> Value] /\ Overlay(values, env) \in [Key -> Value]
  BY SettingAssumption DEF SettingsTypeOK, Override, Overlay
<1>2. \A k \in Key : Held(k, Overlay(values, env)[k]) \in Value
  BY <1>1, HeldType
<1>3. Inputs(values) \in Override
  BY <1>2 DEF Inputs, Override
<1>4. \A k \in Key : Overlay(values, env)[k] = IF values[k] = Unset THEN env[k] ELSE values[k]
  BY DEF Overlay
<1>5. \A k \in Key \ Masked : Inputs(values)[k] = Held(k, Overlay(values, env)[k])
  BY DEF Inputs
<1>6. \A k \in Masked : Inputs(values)[k] = Unset
  BY SettingAssumption DEF Inputs
<1>. QED  BY <1>1, <1>3, <1>4, <1>5, <1>6

LEMMA SettingsStart == SettingsInit => SettingsInv
<1> SUFFICES ASSUME SettingsInit
             PROVE  SettingsInv
  OBVIOUS
<1>1. Blank \in Override
  BY DEF Blank, Override
<1>2. SettingsTypeOK
  <2>1. Dot \in [Key -> Value] /\ MaxPosts \in Nat
    BY SettingAssumption
  <2>2. form \in [Admin -> Override]
    BY <1>1 DEF SettingsInit
  <2>3. posts \in 0 .. MaxPosts
    BY <2>1 DEF SettingsInit
  <2>. QED  BY <1>1, <2>1, <2>2, <2>3 DEF SettingsInit, SettingsTypeOK
<1>3. \A k \in Key : Overlay(stored, Dot)[k] = wanted[k]
  BY DEF SettingsInit, Blank, Overlay
<1>4. \A k \in Key : stored[k] = Unset /\ env[k] = Dot[k]
  BY DEF SettingsInit, Blank
<1>. QED  BY <1>2, <1>3, <1>4 DEF SettingsInit, SettingsInv, SavedIsNext

LEMMA BootStep ==
  ASSUME SettingsInv, Boot
  PROVE  SettingsInv'
<1>1. SettingsTypeOK /\ Overlay(stored, Dot) \in [Key -> Value]
  BY InputsType DEF SettingsInv, SettingsTypeOK
<1>2. SettingsTypeOK'
  BY <1>1, SettingAssumption DEF Boot, SettingsTypeOK, Override, Blank
<1>3. \A k \in Key : stored'[k] = Unset => env'[k] = Dot[k]
  BY SettingAssumption DEF Boot, Overlay
<1>4. SavedIsNext'
  BY <1>2 DEF Boot, SettingsInv, SavedIsNext, Overlay
<1>5. \A k \in Key : Keeps(k, env'[k]) \/ env'[k] = Dot[k]
  BY DEF Boot, SettingsInv, Overlay
<1>6. \A k \in Key : stored'[k] # Unset => Keeps(k, stored'[k])
  BY DEF Boot, SettingsInv
<1>. QED  BY <1>2, <1>3, <1>4, <1>5, <1>6 DEF Boot, SettingsInv, Keeps, GivenBack, Normalized, Held

LEMMA PageStep ==
  ASSUME SettingsInv, NEW a \in Admin, OpenPage(a) \/ SaveRefused(a)
  PROVE  SettingsInv'
<1>1. /\ form' = [form EXCEPT ![a] = Inputs(stored)] /\ fresh' = fresh \cup {a}
      /\ UNCHANGED <<stored, env, posts, wanted, cleared, regiven, crossed>>
  BY DEF OpenPage, SaveRefused
<1>2. SettingsTypeOK /\ Inputs(stored) \in Override
  BY InputsType DEF SettingsInv, SettingsTypeOK
<1>3. SettingsTypeOK'
  BY <1>1, <1>2 DEF SettingsTypeOK
<1>4. Inputs(stored)' = Inputs(stored)
  BY <1>1 DEF Inputs, Overlay
<1>5. \A b \in fresh' : form'[b] = Inputs(stored)'
  BY <1>1, <1>2, <1>4 DEF SettingsInv, SettingsTypeOK
<1>6. SavedIsNext'
  BY <1>1, <1>3 DEF SettingsInv, SavedIsNext, Overlay
<1>7. \A k \in Key : /\ stored'[k] # Unset => Keeps(k, stored'[k])
                     /\ Keeps(k, env'[k]) \/ env'[k] = Dot[k]
  BY <1>1 DEF SettingsInv
<1>. QED  BY <1>1, <1>3, <1>5, <1>6, <1>7
          DEF SettingsInv, Keeps, GivenBack, Normalized, Held

\* A form changes what was touched, and nothing else, if its page was not outdated
\* and its inputs bring back what they show.
LEMMA SaveStep ==
  ASSUME SettingsInv, NEW a \in Admin, SaveSettings(a)
  PROVE  SettingsInv'
<1>1. PICK edits \in Entry(a), clears \in SUBSET Key :
        LET edited == Key \ Left(edits)
            next == Parsed(Posted(a, edits), clears)
        IN  /\ clears \subseteq Left(edits) /\ ~Refused(Posted(a, edits), clears)
            /\ stored' = next
            /\ wanted' = [k \in Key |-> IF k \in clears THEN Dot[k]
                                        ELSE IF k \in edited THEN Normalized(k, edits[k])
                                        ELSE wanted[k]]
            /\ cleared' = cleared \cup clears
            /\ regiven' = regiven \cup (edited \cap cleared)
            /\ form' = [form EXCEPT ![a] = Inputs(next)]
            /\ fresh' = IF next = stored THEN fresh \cup {a} ELSE {a}
  BY DEF SaveSettings, Left
<1> DEFINE posted == Posted(a, edits)
           edited == Key \ Left(edits)
           next == Parsed(posted, clears)
<1>2. /\ posts' \in 0 .. MaxPosts /\ crossed' = (crossed \/ a \notin fresh) /\ env' = env
  BY SettingAssumption DEF SaveSettings, SettingsInv, SettingsTypeOK
<1>3. SettingsTypeOK /\ edits \in Override /\ clears \subseteq Key /\ edited \cap clears = {}
  BY <1>1 DEF SettingsInv, Entry, Left
<1>4. /\ posted \in Override
      /\ \A k \in Key : posted[k] = IF k \in edited THEN edits[k] ELSE form[a][k]
      /\ \A k \in edited : edits[k] \in Value
  BY <1>3 DEF SettingsTypeOK, Override, Posted, Left
<1> DEFINE made == [k \in Key |-> Normalized(k, posted[k])]
<1>5. ASSUME NEW k \in Key \ clears
      PROVE  /\ posted[k] = Unset => made[k] = Unset
             /\ posted[k] # Unset => made[k] \in Value /\ Keeps(k, made[k])
  <2>1. posted[k] \in Value \cup {Unset} /\ Normalized(k, posted[k]) # Unfit
    BY <1>1, <1>4 DEF Refused, Override
  <2>. QED  BY <2>1, NormalizedKeeps
<1>6. \A k \in Key :
        next[k] = IF k \in clears THEN Unset
                  ELSE IF made[k] = Unset \/ (stored[k] = Unset /\ made[k] = env[k]) THEN stored[k]
                  ELSE made[k]
  BY DEF Parsed
<1>7. stored' = next /\ next \in Override
  <2>1. \A k \in Key : next[k] \in Value \cup {Unset}
    BY <1>3, <1>5, <1>6, SettingAssumption DEF SettingsTypeOK, Override
  <2>2. next = [k \in Key |-> next[k]]
    BY DEF Parsed
  <2> HIDE DEF next
  <2>3. next \in Override
    BY <2>1, <2>2 DEF Override
  <2>. QED  BY <1>1, <2>3 DEF next
<1>8. /\ \A k \in clears : wanted'[k] = Dot[k]
      /\ \A k \in edited : wanted'[k] = made[k] /\ made[k] \in Value
      /\ \A k \in Key \ (clears \cup edited) : wanted'[k] = wanted[k]
      /\ wanted' \in [Key -> Value]
  <2>1. \A k \in edited : Normalized(k, edits[k]) = made[k] /\ made[k] \in Value
    BY <1>3, <1>4, <1>5, SettingAssumption
  <2>2. wanted' = [k \in Key |-> IF k \in clears THEN Dot[k]
                                 ELSE IF k \in edited THEN made[k] ELSE wanted[k]]
    BY <1>1, <2>1
  <2> HIDE DEF made, edited
  <2>3. edited \cap clears = {} /\ clears \subseteq Key /\ edited \subseteq Key
    BY <1>3 DEF edited
  <2>. QED  BY <1>3, <2>1, <2>2, <2>3, SettingAssumption DEF SettingsTypeOK
<1>9. /\ cleared' = cleared \cup clears /\ regiven' = regiven \cup (edited \cap cleared)
      /\ form' = [form EXCEPT ![a] = Inputs(next)]
      /\ fresh' = IF next = stored THEN fresh \cup {a} ELSE {a}
  BY <1>1
<1> HIDE DEF next, made, edited
<1>10. Inputs(next) \in Override
  BY <1>3, <1>7, InputsType
<1>11. SettingsTypeOK'
  <2>1. stored' \in Override /\ env' \in [Key -> Value] /\ posts' \in 0 .. MaxPosts
    BY <1>2, <1>3, <1>7 DEF SettingsTypeOK
  <2>2. form' \in [Admin -> Override] /\ fresh' \subseteq Admin
    BY <1>3, <1>9, <1>10 DEF SettingsTypeOK
  <2>3. cleared' \subseteq Key /\ regiven' \subseteq Key /\ crossed' \in BOOLEAN
    BY <1>2, <1>3, <1>9 DEF SettingsTypeOK, edited
  <2>. QED  BY <1>8, <2>1, <2>2, <2>3 DEF SettingsTypeOK
<1>12. \A b \in fresh' : form'[b] = Inputs(stored)'
  <2>1. Inputs(stored)' = Inputs(next)
    BY <1>2, <1>7 DEF Inputs, Overlay, Held
  <2>2. form'[a] = Inputs(next) /\ \A b \in Admin \ {a} : form'[b] = form[b]
    BY <1>3, <1>9 DEF SettingsTypeOK
  <2>3. CASE next = stored
    BY <1>3, <1>9, <2>1, <2>2, <2>3 DEF SettingsInv, SettingsTypeOK
  <2>4. CASE next # stored
    BY <1>9, <2>1, <2>2, <2>4
  <2>. QED  BY <2>3, <2>4
<1>13. \A k \in Key : stored'[k] = Unset /\ env'[k] # Dot[k] => k \in cleared'
  <2>1. \A k \in Key \ clears : next[k] = Unset => stored[k] = Unset
    BY <1>6, SettingAssumption
  <2>. QED  BY <1>2, <1>7, <1>9, <2>1 DEF SettingsInv
<1>14. \A k \in Key : stored'[k] # Unset => Keeps(k, stored'[k])
  BY <1>5, <1>6, <1>7 DEF SettingsInv
<1>15. ASSUME ~crossed', NEW k \in Key
       PROVE  \/ Overlay(stored, Dot)'[k] = wanted'[k]
              \/ k \in regiven'
              \/ (wanted'[k] = Dot[k] /\ Overlay(stored, Dot)'[k] = GivenBack(k, Dot[k]))
  <2>1. ~crossed /\ a \in fresh /\ form[a] = Inputs(stored)
    BY <1>2, <1>15 DEF SettingsInv
  <2>2. \/ Overlay(stored, Dot)[k] = wanted[k]
        \/ k \in regiven
        \/ (wanted[k] = Dot[k] /\ Overlay(stored, Dot)[k] = GivenBack(k, Dot[k]))
    BY <2>1 DEF SettingsInv, SavedIsNext
  <2>3. /\ Overlay(stored, Dot)'[k] = IF next[k] = Unset THEN Dot[k] ELSE next[k]
        /\ Overlay(stored, Dot)[k] = IF stored[k] = Unset THEN Dot[k] ELSE stored[k]
    BY <1>7 DEF Overlay
  <2>4. CASE k \in clears
    BY <1>6, <1>8, <2>3, <2>4
  <2>5. CASE k \in edited
    <3>1. wanted'[k] = made[k] /\ made[k] \in Value /\ k \notin clears
      BY <1>3, <1>8, <2>5
    <3>2. CASE stored[k] = Unset /\ made[k] = env[k]
      BY <1>6, <1>9, <2>3, <2>5, <3>1, <3>2 DEF SettingsInv
    <3>3. CASE ~(stored[k] = Unset /\ made[k] = env[k])
      BY <1>6, <2>3, <3>1, <3>3, SettingAssumption
    <3>. QED  BY <3>2, <3>3
  <2>6. CASE k \notin clears /\ k \notin edited
    <3>1. posted[k] = Inputs(stored)[k] /\ wanted'[k] = wanted[k] /\ regiven \subseteq regiven'
      BY <1>4, <1>8, <1>9, <2>1, <2>6
    <3>2. CASE k \in Masked
      <4>1. made[k] = Unset
        BY <1>3, <1>5, <2>6, <3>1, <3>2, InputsType DEF SettingsTypeOK
      <4>2. next[k] = stored[k]
        BY <1>6, <2>6, <4>1
      <4>. QED  BY <2>2, <2>3, <3>1, <4>2
    <3>3. CASE k \notin Masked
      <4> DEFINE shown == IF stored[k] = Unset THEN env[k] ELSE stored[k]
      <4>1. posted[k] = Held(k, shown) /\ shown \in Value
        BY <1>3, <3>1, <3>3, InputsType DEF SettingsTypeOK, Override
      <4>2. made[k] = GivenBack(k, shown) /\ made[k] \in Value
        BY <1>5, <2>6, <4>1, HeldType DEF made, GivenBack
      <4>3. CASE Keeps(k, shown)
        <5>1. next[k] = stored[k]
          BY <1>6, <2>6, <4>2, <4>3 DEF Keeps
        <5>. QED  BY <2>2, <2>3, <3>1, <5>1
      <4>4. CASE ~Keeps(k, shown)
        <5>1. stored[k] = Unset /\ shown = Dot[k] /\ env[k] = Dot[k]
          BY <4>4 DEF SettingsInv
        <5>2. next[k] = GivenBack(k, Dot[k]) /\ next[k] \in Value /\ GivenBack(k, Dot[k]) # Dot[k]
          BY <1>6, <2>6, <4>2, <4>4, <5>1, SettingAssumption DEF Keeps
        <5>3. Overlay(stored, Dot)'[k] = GivenBack(k, Dot[k]) /\ Overlay(stored, Dot)[k] = Dot[k]
          BY <2>3, <5>1, <5>2, SettingAssumption
        <5>. QED  BY <2>2, <3>1, <5>3
      <4>. QED  BY <4>3, <4>4
    <3>. QED  BY <3>2, <3>3
  <2>. QED  BY <2>4, <2>5, <2>6
<1>16. SavedIsNext'
  BY <1>11, <1>15 DEF SavedIsNext, GivenBack, Normalized, Held
<1>17. \A k \in Key : Keeps(k, env'[k]) \/ env'[k] = Dot[k]
  BY <1>2 DEF SettingsInv
<1>. QED  BY <1>11, <1>12, <1>13, <1>14, <1>16, <1>17
          DEF SettingsInv, Keeps, GivenBack, Normalized, Held

\* The inductive invariant of the settings.
THEOREM SettingsInvariant == SettingsSpec => []SettingsInv
<1>1. SettingsInv /\ [SettingsNext]_settingsVars => SettingsInv'
  <2> SUFFICES ASSUME SettingsInv, [SettingsNext]_settingsVars
               PROVE  SettingsInv'
    OBVIOUS
  <2>1. CASE UNCHANGED settingsVars
    <3>1. UNCHANGED <<stored, env, form, posts, fresh, wanted, cleared, regiven, crossed>>
      BY <2>1 DEF settingsVars
    <3>2. SettingsTypeOK' /\ \A a \in fresh' : form'[a] = Inputs(stored)'
      BY <3>1 DEF SettingsInv, SettingsTypeOK, Inputs, Overlay, Held
    <3>3. SavedIsNext'
      BY <3>1, <3>2 DEF SettingsInv, SavedIsNext, Overlay, GivenBack, Normalized, Held
    <3>. QED  BY <3>1, <3>2, <3>3 DEF SettingsInv, Keeps, GivenBack, Normalized, Held
  <2>. QED  BY <2>1, BootStep, PageStep, SaveStep DEF SettingsNext
<1>. QED  BY <1>1, SettingsStart, PTL DEF SettingsSpec

\* Whatever was entered last for a key is what the next start gives it, for any
\* settings, values and administrators, but for the three causes.
THEOREM SettingsAreKept == SettingsSpec => []SavedIsNext
<1>1. SettingsInv => SavedIsNext
  BY DEF SettingsInv
<1>. QED  BY <1>1, SettingsInvariant, PTL

-----------------------------------------------------------------------------
(* The failures of an address: sums over ages.                             *)

LockConstants == MaxFailures \in Nat /\ MaxFailures >= 2 /\ Window \in Nat /\ Window >= 1

LEMMA LockTypes == LockConstants /\ Ages = 0 .. Window
BY LockAssumption DEF LockConstants, Ages

\* What Failed(f) is: by the least age up to which there would be no such sum.
LEMMA SumExists ==
  ASSUME NEW f \in [Ages -> Nat]
  PROVE  \E g \in [Ages -> Nat] : g = [a \in Ages |-> f[a] + (IF a = 0 THEN 0 ELSE g[a - 1])]
<1>. DEFINE Sums(n) == \E g \in [0 .. n -> Nat] :
                         \A a \in 0 .. n : g[a] = f[a] + (IF a = 0 THEN 0 ELSE g[a - 1])
            Bad == {n \in Ages : ~Sums(n)}
<1>1. Sums(0)
  <2>. DEFINE g == [a \in 0 .. 0 |-> f[a]]
  <2>1. 0 \in Ages
    BY LockTypes DEF LockConstants
  <2>2. g \in [0 .. 0 -> Nat] /\ \A a \in 0 .. 0 : a = 0 /\ g[a] = f[a] /\ f[a] + 0 = f[a]
    BY <2>1
  <2>. HIDE DEF g
  <2>3. \A a \in 0 .. 0 : g[a] = f[a] + (IF a = 0 THEN 0 ELSE g[a - 1])
    BY <2>2
  <2>. QED  BY <2>2, <2>3
<1>2. ASSUME NEW n \in Ages, n # 0, Sums(n - 1) PROVE Sums(n)
  <2>1. n \in Nat /\ n - 1 \in Nat /\ f[n] \in Nat /\ \A a \in 0 .. n - 1 : a \in Ages
    BY <1>2, LockTypes DEF LockConstants
  <2>2. PICK g \in [0 .. n - 1 -> Nat] :
          \A a \in 0 .. n - 1 : g[a] = f[a] + (IF a = 0 THEN 0 ELSE g[a - 1])
    BY <1>2
  <2>. DEFINE h == [a \in 0 .. n |-> IF a = n THEN f[n] + g[n - 1] ELSE g[a]]
  <2>3. n - 1 \in 0 .. n - 1 /\ g[n - 1] \in Nat /\ f[n] + g[n - 1] \in Nat
    BY <2>1, <2>2
  <2>4. h \in [0 .. n -> Nat]
    BY <2>1, <2>2, <2>3
  <2>5. h[n] = f[n] + g[n - 1] /\ \A a \in 0 .. n - 1 : h[a] = g[a]
    BY <2>1
  <2>. HIDE DEF h
  <2>6. ASSUME NEW a \in 0 .. n PROVE h[a] = f[a] + (IF a = 0 THEN 0 ELSE h[a - 1])
    <3>1. CASE a = n
      BY <1>2, <2>1, <2>3, <2>5, <3>1
    <3>2. CASE a # n
      <4>1. a \in 0 .. n - 1 /\ (a # 0 => a - 1 \in 0 .. n - 1)
        BY <2>1, <3>2
      <4>. QED  BY <2>2, <2>5, <4>1
    <3>. QED  BY <3>1, <3>2
  <2>. QED  BY <2>4, <2>6
<1>. HIDE DEF Sums
<1>3. Bad = {}
  <2>. SUFFICES ASSUME Bad # {} PROVE FALSE
    OBVIOUS
  <2>1. Bad \in SUBSET Nat
    BY LockTypes DEF LockConstants
  <2>2. PICK m \in Bad : \A y \in Bad : m <= y
    BY <2>1, LeastExists
  <2>3. m \in Ages /\ ~Sums(m) /\ m # 0
    BY <1>1, <2>2
  <2>4. m - 1 \in Ages /\ ~(m <= m - 1)
    BY <2>3, LockTypes DEF LockConstants
  <2>5. Sums(m - 1)
    BY <2>2, <2>4
  <2>. QED  BY <1>2, <2>3, <2>5
<1>4. Sums(Window)
  BY <1>3, LockTypes DEF LockConstants
<1>5. PICK g \in [Ages -> Nat] :
        \A a \in Ages : g[a] = f[a] + (IF a = 0 THEN 0 ELSE g[a - 1])
  BY <1>4, LockTypes DEF Sums
<1>6. g = [a \in Ages |-> f[a] + (IF a = 0 THEN 0 ELSE g[a - 1])]
  BY <1>5
<1>. QED  BY <1>6

LEMMA SumIs ==
  ASSUME NEW f \in [Ages -> Nat]
  PROVE  /\ DOMAIN Failed(f) = Ages
         /\ \A a \in Ages : Failed(f)[a] = f[a] + (IF a = 0 THEN 0 ELSE Failed(f)[a - 1])
<1>1. \E g : g = [a \in Ages |-> f[a] + (IF a = 0 THEN 0 ELSE g[a - 1])]
  BY SumExists
<1>2. Failed(f) = [a \in Ages |-> f[a] + (IF a = 0 THEN 0 ELSE Failed(f)[a - 1])]
  BY <1>1 DEF Failed
<1>. HIDE DEF Failed
<1>. QED  BY <1>2

\* There is only one such sum.
LEMMA SumUnique ==
  ASSUME NEW f, NEW g, NEW h,
         \A a \in Ages : g[a] = f[a] + (IF a = 0 THEN 0 ELSE g[a - 1]),
         \A a \in Ages : h[a] = f[a] + (IF a = 0 THEN 0 ELSE h[a - 1])
  PROVE  \A a \in Ages : g[a] = h[a]
<1>. DEFINE Bad == {n \in Ages : g[n] # h[n]}
<1>. SUFFICES ASSUME Bad # {} PROVE FALSE
  OBVIOUS
<1>1. Bad \in SUBSET Nat
  BY LockTypes DEF LockConstants
<1>2. PICK m \in Bad : \A y \in Bad : m <= y
  BY <1>1, LeastExists
<1>3. m \in Ages /\ g[m] # h[m]
  BY <1>2
<1>4. m # 0
  BY <1>3
<1>5. m - 1 \in Ages /\ ~(m <= m - 1)
  BY <1>3, <1>4, LockTypes DEF LockConstants
<1>6. g[m - 1] = h[m - 1]
  BY <1>2, <1>5
<1>. QED  BY <1>3, <1>4, <1>6

LEMMA SumDetermined ==
  ASSUME NEW f \in [Ages -> Nat], NEW h,
         \A a \in Ages : h[a] = f[a] + (IF a = 0 THEN 0 ELSE h[a - 1])
  PROVE  \A a \in Ages : Failed(f)[a] = h[a]
<1>1. \A a \in Ages : Failed(f)[a] = f[a] + (IF a = 0 THEN 0 ELSE Failed(f)[a - 1])
  BY SumIs
<1>. QED  BY <1>1, SumUnique

LEMMA SumType ==
  ASSUME NEW f \in [Ages -> Nat]
  PROVE  /\ \A a \in Ages : Failed(f)[a] \in Nat
         /\ Failed(f)[0] = f[0]
         /\ \A a \in Ages : a # 0 => Failed(f)[a] = f[a] + Failed(f)[a - 1]
<1>1. PICK g \in [Ages -> Nat] : g = [a \in Ages |-> f[a] + (IF a = 0 THEN 0 ELSE g[a - 1])]
  BY SumExists
<1>2. \A a \in Ages : g[a] = f[a] + (IF a = 0 THEN 0 ELSE g[a - 1])
  BY <1>1
<1>3. \A a \in Ages : Failed(f)[a] = f[a] + (IF a = 0 THEN 0 ELSE Failed(f)[a - 1])
  BY SumIs
<1>4. \A a \in Ages : Failed(f)[a] = g[a]
  BY <1>2, <1>3, SumUnique
<1>5. 0 \in Ages /\ f[0] \in Nat
  BY LockTypes DEF LockConstants
<1>. QED  BY <1>3, <1>4, <1>5

\* One failure more now.
LEMMA SumFails ==
  ASSUME NEW f \in [Ages -> Nat], NEW g, g = [f EXCEPT ![0] = @ + 1]
  PROVE  g \in [Ages -> Nat] /\ \A a \in Ages : Failed(g)[a] = Failed(f)[a] + 1
<1>1. 0 \in Ages /\ g \in [Ages -> Nat] /\ g[0] = f[0] + 1
      /\ \A a \in Ages : a # 0 => g[a] = f[a]
  BY LockTypes DEF LockConstants
<1>. DEFINE h == [a \in Ages |-> Failed(f)[a] + 1]
<1>2. \A a \in Ages : h[a] = g[a] + (IF a = 0 THEN 0 ELSE h[a - 1])
  <2>. SUFFICES ASSUME NEW a \in Ages PROVE h[a] = g[a] + (IF a = 0 THEN 0 ELSE h[a - 1])
    OBVIOUS
  <2>1. CASE a = 0
    BY <1>1, <2>1, SumType
  <2>2. CASE a # 0
    <3>1. a - 1 \in Ages
      BY <2>2, LockTypes DEF LockConstants
    <3>2. Failed(f)[a] = f[a] + Failed(f)[a - 1] /\ Failed(f)[a - 1] \in Nat /\ f[a] \in Nat
      BY <2>2, <3>1, SumType
    <3>. QED  BY <1>1, <2>2, <3>1, <3>2
  <2>. QED  BY <2>1, <2>2
<1>3. g \in [Ages -> Nat]
  BY <1>1
<1>4. \A a \in Ages : Failed(g)[a] = h[a]
  <2>. HIDE DEF h
  <2>1. \A a \in Ages : h[a] = g[a] + (IF a = 0 THEN 0 ELSE h[a - 1])
    BY <1>2
  <2>. QED  BY <2>1, <1>3, SumDetermined
<1>. QED  BY <1>1, <1>4

\* Every failure is one tick older.
LEMMA SumAges ==
  ASSUME NEW f \in [Ages -> Nat], NEW g, g = [a \in Ages |-> IF a = 0 THEN 0 ELSE f[a - 1]]
  PROVE  /\ g \in [Ages -> Nat] /\ Failed(g)[0] = 0
         /\ \A a \in Ages : a # 0 => Failed(g)[a] = Failed(f)[a - 1]
<1>1. /\ g \in [Ages -> Nat] /\ g[0] = 0 /\ \A a \in Ages : a # 0 => g[a] = f[a - 1]
      /\ \A a \in Ages : a # 0 => a - 1 \in Ages
  BY LockTypes DEF LockConstants
<1>. DEFINE h == [a \in Ages |-> IF a = 0 THEN 0 ELSE Failed(f)[a - 1]]
<1>2. ASSUME NEW a \in Ages PROVE h[a] = g[a] + (IF a = 0 THEN 0 ELSE h[a - 1])
  <2>1. CASE a = 0
    BY <1>1, <2>1
  <2>2. CASE a = 1
    <3>1. 0 \in Ages /\ h[1] = Failed(f)[0] /\ h[0] = 0 /\ g[1] = f[0] /\ f[0] \in Nat
      BY <1>1, <2>2, LockTypes DEF LockConstants
    <3>. QED  BY <2>2, <3>1, SumType
  <2>3. CASE a # 0 /\ a # 1
    <3>1. a - 1 \in Ages /\ a - 1 # 0 /\ a - 1 - 1 \in Ages
      BY <2>3, LockTypes DEF LockConstants
    <3>2. Failed(f)[a - 1] = f[a - 1] + Failed(f)[a - 1 - 1]
      BY <3>1, SumType
    <3>. QED  BY <1>1, <2>3, <3>1, <3>2
  <2>. QED  BY <2>1, <2>2, <2>3
<1>3. g \in [Ages -> Nat]
  BY <1>1
<1>4. \A a \in Ages : Failed(g)[a] = h[a]
  <2>. HIDE DEF h
  <2>1. \A a \in Ages : h[a] = g[a] + (IF a = 0 THEN 0 ELSE h[a - 1])
    BY <1>2
  <2>. QED  BY <2>1, <1>3, SumDetermined
<1>5. 0 \in Ages
  BY LockTypes DEF LockConstants
<1>. QED  BY <1>1, <1>4, <1>5

LEMMA SumOfNone ==
  ASSUME NEW f, f = [a \in Ages |-> 0]
  PROVE  f \in [Ages -> Nat] /\ \A a \in Ages : Failed(f)[a] = 0
<1>1. f \in [Ages -> Nat] /\ \A a \in Ages : f[a] = 0
  OBVIOUS
<1>2. \A a \in Ages : a # 0 => a - 1 \in Ages
  BY LockTypes DEF LockConstants
<1>3. \A a \in Ages : f[a] = f[a] + (IF a = 0 THEN 0 ELSE f[a - 1])
  BY <1>1, <1>2
<1>4. \A a \in Ages : Failed(f)[a] = f[a] + (IF a = 0 THEN 0 ELSE Failed(f)[a - 1])
  BY <1>1, SumIs
<1>. QED  BY <1>1, <1>3, <1>4, SumUnique

-----------------------------------------------------------------------------
(* The lock: its invariant.                                                *)

LockShape ==
  /\ count \in 0 .. MaxFailures /\ age \in Ages /\ lockLeft \in 0 .. Window + 1
  /\ recent \in [Ages -> Nat]

\* A record that counts: it has all failures since its window was opened, of
\* which the first is still there to be seen, and what is older is less than
\* what a window without a lock can hold, its first failure being gone.
Counting ==
  ~Locked /\ count > 0 =>
    /\ count <= MaxFailures - 1
    /\ Failed(recent)[age] = count /\ recent[age] >= 1
    /\ Failed(recent)[Window] <= count + MaxFailures - 2

NoRecord ==
  ~Locked /\ count = 0 =>
    /\ age = 0 /\ recent[0] = 0
    /\ Failed(recent)[Window] <= MaxFailures - 2

\* A lock lasts until everything before it is too old to be seen.
LockOutlasts ==
  Locked =>
    /\ count = MaxFailures
    /\ age < Window => age >= Window + 1 - lockLeft
    /\ \A a \in Ages : a < Window + 1 - lockLeft => recent[a] = 0

LockInv == LockShape /\ Counting /\ NoRecord /\ LockOutlasts /\ FailureBudget

-----------------------------------------------------------------------------
(* The lock, step by step.                                                 *)

LEMMA LaterAge ==
  ASSUME NEW a \in Ages
  PROVE  /\ a < Window => Min({a + 1, Window}) = a + 1
         /\ a = Window => Min({a + 1, Window}) = Window
<1>1. {a + 1, Window} \in SUBSET Nat /\ {a + 1, Window} # {} /\ a \in Nat /\ Window \in Nat
  BY LockTypes DEF LockConstants
<1>. DEFINE m == Min({a + 1, Window})
<1>2. m \in {a + 1, Window} /\ \A y \in {a + 1, Window} : m <= y
  BY <1>1, LeastExists
<1>. HIDE DEF m
<1>3. m = a + 1 \/ m = Window
  BY <1>2
<1>4. m <= a + 1 /\ m <= Window
  BY <1>2
<1>5. (a < Window => m = a + 1) /\ (a = Window => m = Window)
  BY <1>1, <1>3, <1>4
<1>. QED  BY <1>5 DEF m

\* No record, and nothing that would still count: what a log-in leaves.
LEMMA CleanStep ==
  ASSUME count' = 0, age' = 0, lockLeft' = 0, recent' = [a \in Ages |-> 0]
  PROVE  LockInv'
<1>1. LockConstants /\ Ages = 0 .. Window /\ 0 \in Ages /\ Window \in Ages
  BY LockTypes DEF LockConstants
<1>2. recent' \in [Ages -> Nat] /\ recent'[0] = 0 /\ Failed(recent')[Window] = 0
  BY <1>1, SumOfNone
<1>3. LockShape'
  BY <1>1, <1>2 DEF LockShape, LockConstants
<1>4. Counting' /\ NoRecord' /\ LockOutlasts' /\ FailureBudget'
  BY <1>1, <1>2 DEF Counting, NoRecord, LockOutlasts, FailureBudget, Locked, LockConstants
<1>. QED  BY <1>3, <1>4 DEF LockInv

LEMMA FailsStep ==
  ASSUME LockInv, LoginFails
  PROVE  LockInv'
<1>1. LockConstants /\ Ages = 0 .. Window /\ 0 \in Ages /\ Window \in Ages
  BY LockTypes DEF LockConstants
<1>2. /\ count \in 0 .. MaxFailures /\ age \in Ages /\ recent \in [Ages -> Nat]
      /\ ~Locked /\ lockLeft' \in {0, Window + 1}
      /\ count' = count + 1 /\ age' = IF count = 0 THEN 0 ELSE age
      /\ lockLeft' = IF count' >= MaxFailures THEN Window + 1 ELSE 0
      /\ recent' = [recent EXCEPT ![0] = recent[0] + 1]
  BY DEF LockInv, LockShape, LoginFails, RecordLoginFailure, Count
<1>3. recent' \in [Ages -> Nat] /\ \A a \in Ages : Failed(recent')[a] = Failed(recent)[a] + 1
  BY <1>2, SumFails
<1>4. recent'[0] = recent[0] + 1 /\ \A a \in Ages : recent'[a] >= recent[a]
  BY <1>1, <1>2
<1>5. \A a \in Ages : recent[a] \in Nat /\ Failed(recent)[a] \in Nat
  BY <1>2, SumType
<1>6. Failed(recent')[0] = recent'[0]
  BY <1>3, SumType
<1>7. CASE count = 0
  <2>1. age' = 0 /\ count' = 1 /\ lockLeft' = 0
    BY <1>1, <1>2, <1>7 DEF LockConstants
  <2>2. recent[0] = 0 /\ Failed(recent)[Window] <= MaxFailures - 2
    BY <1>2, <1>7 DEF LockInv, NoRecord
  <2>3. recent'[0] = 1 /\ Failed(recent')[0] = 1 /\ Failed(recent')[Window] <= MaxFailures - 1
    BY <1>1, <1>3, <1>4, <1>5, <1>6, <2>2 DEF LockConstants
  <2>4. LockShape'
    BY <1>1, <1>3, <2>1 DEF LockShape, LockConstants
  <2>5. Failed(recent')[Window] \in Nat
    BY <1>1, <1>3, <1>5
  <2>6. Counting' /\ NoRecord' /\ LockOutlasts' /\ FailureBudget'
    BY <1>1, <2>1, <2>3, <2>5
    DEF Counting, NoRecord, LockOutlasts, FailureBudget, Locked, LockConstants
  <2>. QED  BY <2>4, <2>6 DEF LockInv
<1>8. CASE count # 0
  <2>1. age' = age /\ count' = count + 1 /\ count \in Nat /\ count > 0
    BY <1>1, <1>2, <1>8 DEF LockConstants
  <2>2. /\ count <= MaxFailures - 1
        /\ Failed(recent)[age] = count /\ recent[age] >= 1
        /\ Failed(recent)[Window] <= count + MaxFailures - 2
    BY <1>2, <2>1 DEF LockInv, Counting
  <2>3. /\ Failed(recent')[age] = count' /\ recent'[age] >= 1
        /\ Failed(recent')[Window] <= count' + MaxFailures - 2
        /\ recent'[age] \in Nat /\ Failed(recent')[Window] \in Nat
    <3>1. age \in Ages /\ Window \in Ages
      BY <1>1, <1>2
    <3>2. Failed(recent')[age] = count' /\ Failed(recent')[Window] = Failed(recent)[Window] + 1
      BY <1>3, <2>1, <2>2, <3>1
    <3>3. Failed(recent)[Window] \in Nat /\ recent[age] \in Nat /\ recent'[age] \in Nat
      BY <1>3, <1>5, <3>1
    <3>4. recent'[age] >= recent[age]
      BY <1>4, <3>1
    <3>5. recent'[age] >= 1
      BY <2>2, <3>3, <3>4
    <3>6. Failed(recent')[Window] <= count' + MaxFailures - 2
      BY <1>1, <2>1, <2>2, <3>2, <3>3 DEF LockConstants
    <3>. QED  BY <3>2, <3>3, <3>5, <3>6
  <2>4. LockShape'
    BY <1>1, <1>2, <1>3, <2>1, <2>2 DEF LockShape, LockConstants
  <2>5. CASE count' >= MaxFailures
    <3>1. count' = MaxFailures /\ lockLeft' = Window + 1
      BY <1>1, <1>2, <2>1, <2>2, <2>5 DEF LockConstants
    <3>2. LockOutlasts' /\ FailureBudget'
      BY <1>1, <1>2, <2>1, <2>3, <3>1 DEF LockOutlasts, FailureBudget, LockConstants
    <3>3. Counting' /\ NoRecord'
      BY <1>1, <3>1 DEF Counting, NoRecord, Locked, LockConstants
    <3>. QED  BY <2>4, <3>2, <3>3 DEF LockInv
  <2>6. CASE ~(count' >= MaxFailures)
    <3>1. lockLeft' = 0 /\ count' <= MaxFailures - 1 /\ count' # 0
      BY <1>1, <1>2, <2>1, <2>6 DEF LockConstants
    <3>2. LockOutlasts' /\ NoRecord'
      BY <3>1 DEF LockOutlasts, NoRecord, Locked
    <3>3. Counting' /\ FailureBudget'
      BY <1>1, <2>1, <2>3, <3>1 DEF Counting, FailureBudget, LockConstants
    <3>. QED  BY <2>4, <3>2, <3>3 DEF LockInv
  <2>. QED  BY <2>5, <2>6
<1>. QED  BY <1>7, <1>8

\* Time passes: what all the cases below share.
LEMMA TickFacts ==
  ASSUME LockInv, LockTick
  PROVE  /\ recent' \in [Ages -> Nat] /\ recent'[0] = 0
         /\ \A a \in Ages : a # 0 => recent'[a] = recent[a - 1]
         /\ \A a \in Ages : a # 0 => Failed(recent')[a] = Failed(recent)[a - 1]
         /\ \A a \in Ages : Failed(recent)[a] \in Nat
         /\ Failed(recent)[Window] = recent[Window] + Failed(recent)[Window - 1]
         /\ Failed(recent')[Window] = Failed(recent)[Window - 1]
         /\ Failed(recent')[Window] \in Nat /\ recent[Window] \in Nat
<1>1. LockConstants /\ Ages = 0 .. Window /\ 0 \in Ages /\ Window \in Ages
      /\ Window # 0 /\ Window - 1 \in Ages /\ \A a \in Ages : a # 0 => a - 1 \in Ages
  BY LockTypes DEF LockConstants
<1>2. /\ recent \in [Ages -> Nat]
      /\ recent' = [a \in Ages |-> IF a = 0 THEN 0 ELSE recent[a - 1]]
  BY DEF LockInv, LockShape, LockTick
<1>3. /\ recent' \in [Ages -> Nat]
      /\ \A a \in Ages : a # 0 => Failed(recent')[a] = Failed(recent)[a - 1]
  BY <1>2, SumAges
<1>4. /\ \A a \in Ages : Failed(recent)[a] \in Nat
      /\ Failed(recent)[Window] = recent[Window] + Failed(recent)[Window - 1]
  BY <1>1, <1>2, SumType
<1>5. recent'[0] = 0 /\ \A a \in Ages : a # 0 => recent'[a] = recent[a - 1]
  BY <1>1, <1>2
<1>6. Failed(recent')[Window] = Failed(recent)[Window - 1] /\ recent[Window] \in Nat
  BY <1>1, <1>2, <1>3
<1>7. Failed(recent')[Window] \in Nat
  BY <1>1, <1>4, <1>6
<1>. QED  BY <1>3, <1>4, <1>5, <1>6, <1>7

LEMMA LockedTickStep ==
  ASSUME LockInv, LockTick, Locked
  PROVE  LockInv'
<1>1. LockConstants /\ Ages = 0 .. Window /\ 0 \in Ages /\ Window \in Ages /\ Window - 1 \in Ages
      /\ \A a \in Ages : a # 0 => a - 1 \in Ages
  BY LockTypes DEF LockConstants
<1>2. /\ lockLeft \in 0 .. Window + 1 /\ lockLeft > 0 /\ lockLeft' = lockLeft - 1
      /\ age \in 0 .. Window /\ count = MaxFailures
      /\ age < Window => age >= Window + 1 - lockLeft
      /\ \A a \in Ages : a < Window + 1 - lockLeft => recent[a] = 0
      /\ Failed(recent)[Window] <= 2 * MaxFailures - 2
  BY <1>1 DEF LockInv, LockShape, LockOutlasts, FailureBudget, LockTick, Locked
<1>3. /\ recent' \in [Ages -> Nat] /\ recent'[0] = 0
      /\ \A a \in Ages : a # 0 => recent'[a] = recent[a - 1]
      /\ Failed(recent)[Window] = recent[Window] + Failed(recent)[Window - 1]
      /\ Failed(recent')[Window] = Failed(recent)[Window - 1]
      /\ Failed(recent')[Window] \in Nat /\ recent[Window] \in Nat
  BY TickFacts
<1>4. CASE lockLeft = 1
  <2>1. age = Window /\ lockLeft' = 0
    BY <1>1, <1>2, <1>4 DEF LockConstants
  <2>2. count' = 0 /\ age' = 0
    BY <1>1, <1>2, <1>4, <2>1 DEF LockTick, Locked, LockConstants
  <2>3. ASSUME NEW a \in Ages PROVE recent'[a] = 0
    <3>1. CASE a = 0
      BY <1>3, <3>1
    <3>2. CASE a # 0
      <4>1. a - 1 \in Ages /\ a - 1 < Window + 1 - lockLeft
        BY <1>1, <1>4, <3>2 DEF LockConstants
      <4>. QED  BY <1>2, <1>3, <3>2, <4>1
    <3>. QED  BY <3>1, <3>2
  <2>4. recent' = [a \in Ages |-> 0]
    BY <1>3, <2>3
  <2>. QED  BY <2>1, <2>2, <2>4, CleanStep
<1>5. CASE lockLeft # 1
  <2>1. lockLeft' \in 0 .. Window + 1 /\ lockLeft' > 0 /\ lockLeft' # 0
    BY <1>1, <1>2, <1>5 DEF LockConstants
  <2>2. count' = count /\ age' = Min({age + 1, Window})
    BY <1>1, <1>2, <2>1 DEF LockTick, Locked, LockConstants
  <2>3. /\ age' \in Ages
        /\ age' < Window => age' = age + 1 /\ age < Window
    <3>1. CASE age < Window
      BY <1>1, <1>2, <2>2, <3>1, LaterAge DEF LockConstants
    <3>2. CASE age = Window
      BY <1>1, <1>2, <2>2, <3>2, LaterAge DEF LockConstants
    <3>. QED  BY <1>1, <1>2, <3>1, <3>2 DEF LockConstants
  <2>4. LockShape'
    BY <1>1, <1>2, <1>3, <2>1, <2>2, <2>3 DEF LockShape, LockConstants
  <2>5. age' < Window => age' >= Window + 1 - lockLeft'
    BY <1>1, <1>2, <2>3 DEF LockConstants
  <2>6. ASSUME NEW a \in Ages, a < Window + 1 - lockLeft' PROVE recent'[a] = 0
    <3>1. CASE a = 0
      BY <1>3, <3>1
    <3>2. CASE a # 0
      <4>1. a - 1 \in Ages /\ a - 1 < Window + 1 - lockLeft
        BY <1>1, <1>2, <2>6, <3>2 DEF LockConstants
      <4>. QED  BY <1>2, <1>3, <3>2, <4>1
    <3>. QED  BY <3>1, <3>2
  <2>7. LockOutlasts'
    BY <1>2, <2>2, <2>5, <2>6 DEF LockOutlasts
  <2>8. Failed(recent)[Window - 1] \in Nat
    BY <1>1, TickFacts
  <2>9. FailureBudget'
    BY <1>1, <1>2, <1>3, <2>8 DEF FailureBudget, LockConstants
  <2>10. Counting' /\ NoRecord'
    BY <2>1 DEF Counting, NoRecord, Locked
  <2>. QED  BY <2>4, <2>7, <2>9, <2>10 DEF LockInv
<1>. QED  BY <1>4, <1>5

LEMMA OpenTickStep ==
  ASSUME LockInv, LockTick, ~Locked
  PROVE  LockInv'
<1>1. LockConstants /\ Ages = 0 .. Window /\ 0 \in Ages /\ Window \in Ages /\ Window - 1 \in Ages
  BY LockTypes DEF LockConstants
<1>2. /\ lockLeft' = 0 /\ age \in 0 .. Window /\ count \in 0 .. MaxFailures
      /\ count' = IF age >= Window THEN 0 ELSE count
      /\ age' = IF age >= Window \/ count = 0 THEN 0 ELSE Min({age + 1, Window})
  BY <1>1 DEF LockInv, LockShape, LockTick
<1>3. /\ recent' \in [Ages -> Nat] /\ recent'[0] = 0
      /\ \A a \in Ages : a # 0 => recent'[a] = recent[a - 1]
      /\ \A a \in Ages : a # 0 => Failed(recent')[a] = Failed(recent)[a - 1]
      /\ Failed(recent)[Window] = recent[Window] + Failed(recent)[Window - 1]
      /\ Failed(recent')[Window] = Failed(recent)[Window - 1]
      /\ Failed(recent')[Window] \in Nat /\ recent[Window] \in Nat
  BY TickFacts
<1>4. Failed(recent)[Window - 1] \in Nat
  BY <1>1, TickFacts
<1>5. ASSUME count' = 0, age' = 0, Failed(recent')[Window] <= MaxFailures - 2
      PROVE  LockInv'
  <2>1. LockShape'
    BY <1>1, <1>2, <1>3, <1>5 DEF LockShape, LockConstants
  <2>2. Counting' /\ NoRecord' /\ LockOutlasts' /\ FailureBudget'
    BY <1>1, <1>2, <1>3, <1>5
    DEF Counting, NoRecord, LockOutlasts, FailureBudget, Locked, LockConstants
  <2>. QED  BY <2>1, <2>2 DEF LockInv
<1>6. CASE count = 0
  <2>1. count' = 0 /\ age' = 0
    BY <1>2, <1>6
  <2>2. Failed(recent)[Window] <= MaxFailures - 2
    BY <1>6 DEF LockInv, NoRecord
  <2>3. Failed(recent')[Window] <= MaxFailures - 2
    BY <1>1, <1>3, <1>4, <2>2 DEF LockConstants
  <2>. QED  BY <1>5, <2>1, <2>3
<1>7. CASE count # 0
  <2>1. /\ count \in Nat /\ count <= MaxFailures - 1 /\ count > 0
        /\ Failed(recent)[age] = count /\ recent[age] >= 1
        /\ Failed(recent)[Window] <= count + MaxFailures - 2
    <3>1. count \in Nat /\ count > 0
      BY <1>1, <1>2, <1>7 DEF LockConstants
    <3>. QED  BY <3>1 DEF LockInv, Counting
  <2>2. CASE age >= Window
    <3>1. age = Window /\ count' = 0 /\ age' = 0
      BY <1>1, <1>2, <2>2 DEF LockConstants
    <3>2. Failed(recent')[Window] <= MaxFailures - 2
      BY <1>1, <1>3, <1>4, <2>1, <3>1 DEF LockConstants
    <3>. QED  BY <1>5, <3>1, <3>2
  <2>3. CASE ~(age >= Window)
    <3>1. age < Window /\ age \in Ages /\ count' = count
      BY <1>1, <1>2, <2>3 DEF LockConstants
    <3>2. age' = age + 1
      BY <1>2, <1>7, <2>3, <3>1, LaterAge
    <3>3. age' \in Ages /\ age' # 0 /\ age' - 1 = age
      BY <1>1, <3>1, <3>2 DEF LockConstants
    <3>4. Failed(recent')[age'] = count' /\ recent'[age'] >= 1
      BY <1>3, <2>1, <3>1, <3>3
    <3>5. Failed(recent')[Window] <= count' + MaxFailures - 2
      BY <1>1, <1>3, <1>4, <2>1, <3>1 DEF LockConstants
    <3>6. LockShape'
      BY <1>1, <1>2, <1>3, <3>1, <3>3 DEF LockShape, LockConstants
    <3>7. Counting' /\ NoRecord' /\ LockOutlasts' /\ FailureBudget'
      BY <1>1, <1>2, <1>3, <2>1, <3>1, <3>4, <3>5
      DEF Counting, NoRecord, LockOutlasts, FailureBudget, Locked, LockConstants
    <3>. QED  BY <3>6, <3>7 DEF LockInv
  <2>. QED  BY <2>2, <2>3
<1>. QED  BY <1>6, <1>7

LEMMA LockStutter ==
  ASSUME LockInv, UNCHANGED lockVars
  PROVE  LockInv'
<1>1. count' = count /\ age' = age /\ lockLeft' = lockLeft /\ recent' = recent
  BY DEF lockVars
<1>. QED  BY <1>1 DEF LockInv, LockShape, Counting, NoRecord, LockOutlasts, FailureBudget, Locked

LEMMA LockStep ==
  ASSUME LockInv, LockNext \/ UNCHANGED lockVars
  PROVE  LockInv'
<1>1. CASE LoginFails
  BY <1>1, FailsStep
<1>2. CASE LoginSucceeds
  BY <1>2, CleanStep DEF LoginSucceeds
<1>3. CASE LoginRefused
  BY <1>3, LockStutter DEF LoginRefused
<1>4. CASE LockTick
  BY <1>4, LockedTickStep, OpenTickStep
<1>5. CASE UNCHANGED lockVars
  BY <1>5, LockStutter
<1>. QED  BY <1>1, <1>2, <1>3, <1>4, <1>5 DEF LockNext

LEMMA RestartClears ==
  ASSUME Restarted
  PROVE  LockInv'
BY CleanStep DEF Restarted

\* What the panel does with the record of an address is one of the lock's own
\* steps, or the restart that clears it.
LEMMA PanelKeepsLock ==
  ASSUME LockInv, AuthNext \/ UNCHANGED <<authVars, lockVars>>
  PROVE  LockInv'
<1>1. ASSUME NEW t \in Tab,
             \/ VisitSetup(t) \/ VisitEnrolment(t) \/ VisitLogin(t) \/ VisitPanel(t)
             \/ SetupRefused(t) \/ EnrolmentRefused(t) \/ LoginFormRefused(t)
             \/ Logout(t) \/ RevokeAllSessions(t) \/ FormExpires(t)
      PROVE  LockInv'
  <2>1. UNCHANGED lockVars
    BY <1>1 DEF VisitSetup, VisitEnrolment, VisitLogin, VisitPanel, SetupRefused,
      EnrolmentRefused, LoginFormRefused, Logout, RevokeAllSessions, End, FormExpires, lockVars
  <2>. QED  BY <2>1, LockStutter
<1>2. ASSUME NEW t \in Tab, Setup(t) PROVE LockInv'
  <2>1. LoginSucceeds \/ UNCHANGED lockVars
    BY <1>2 DEF Setup, lockVars
  <2>. QED  BY <2>1, LockStep DEF LockNext
<1>3. ASSUME NEW t \in Tab, ConfirmEnrolment(t) PROVE LockInv'
  <2>1. LoginSucceeds \/ LoginFails \/ LoginRefused
    BY <1>3 DEF ConfirmEnrolment
  <2>. QED  BY <2>1, LockStep DEF LockNext
<1>4. ASSUME NEW t \in Tab, WrongLogin(t) \/ Login(t) PROVE LockInv'
  <2>1. LoginSucceeds \/ LoginFails \/ LoginRefused
    BY <1>4 DEF WrongLogin, Login
  <2>. QED  BY <2>1, LockStep DEF LockNext
<1>5. ASSUME NEW t \in Tab, DieInSetup(t) \/ DieInConfirm(t) PROVE LockInv'
  BY <1>5, RestartClears DEF DieInSetup, DieInConfirm
<1>6. ASSUME NEW b \in Browser, SessionEnds(b) PROVE LockInv'
  <2>1. UNCHANGED lockVars
    BY <1>6 DEF SessionEnds, End, lockVars
  <2>. QED  BY <2>1, LockStutter
<1>7. CASE Restart
  BY <1>7, RestartClears DEF Restart
<1>8. CASE AuthTick
  BY <1>8, LockStep DEF AuthTick, LockNext
<1>9. CASE UNCHANGED <<authVars, lockVars>>
  BY <1>9, LockStutter
<1>. QED  BY <1>1, <1>2, <1>3, <1>4, <1>5, <1>6, <1>7, <1>8, <1>9 DEF AuthNext

LEMMA LockInitially == LockInit => LockInv
<1>. SUFFICES ASSUME LockInit PROVE LockInv
  OBVIOUS
<1>1. LockConstants /\ Ages = 0 .. Window /\ 0 \in Ages /\ Window \in Ages
  BY LockTypes DEF LockConstants
<1>2. count = 0 /\ age = 0 /\ lockLeft = 0 /\ recent = [a \in Ages |-> 0]
  BY DEF LockInit
<1>3. recent \in [Ages -> Nat] /\ recent[0] = 0 /\ Failed(recent)[Window] = 0
  BY <1>1, <1>2, SumOfNone
<1>4. LockShape
  BY <1>1, <1>2, <1>3 DEF LockShape, LockConstants
<1>5. Counting /\ NoRecord /\ LockOutlasts /\ FailureBudget
  BY <1>1, <1>2, <1>3 DEF Counting, NoRecord, LockOutlasts, FailureBudget, Locked, LockConstants
<1>. QED  BY <1>4, <1>5 DEF LockInv

\* The invariant of the record of failed log-ins, whatever the panel does with
\* it between two of them.
THEOREM LockInvariant == AuthSpec => []LockInv
<1>1. AuthInit => LockInv
  BY LockInitially DEF AuthInit
<1>2. LockInv /\ [AuthNext]_<<authVars, lockVars>> => LockInv'
  BY PanelKeepsLock
<1>. QED  BY <1>1, <1>2, PTL DEF AuthSpec

\* However the failures fall into the windows of the record, at most
\* 2 * MaxFailures - 2 of them are within any one Window: recordLoginFailure
\* counts in a window that its first failure opens.
THEOREM FailuresAreFew == AuthSpec => []FailureBudget
<1>1. LockInv => FailureBudget
  BY DEF LockInv
<1>. QED  BY <1>1, LockInvariant, PTL

-----------------------------------------------------------------------------
(* The vault: its invariant.                                               *)

\* All that is up has the key of the salt in the file, and so has all that
\* was written.
KeysAgree ==
  ~raced =>
    /\ \A p \in Process : phase[p] = "creating" => salt = 0
    /\ \A p \in Process : phase[p] = "up" => key[p] = salt /\ salt # 0
    /\ \A a \in Account : rows[a].key \in {0, salt}
    /\ chosen.key \in {0, salt}

\* No save is newer than the last.
SavesNumbered ==
  /\ \A a \in Account : rows[a].save <= saves
  /\ mail.atleast <= saves

\* A mail on its way, and the account that it was given.
MailFits ==
  /\ mail.step = "listed" /\ mail.match # 0 => mail.match \in mail.seen
  /\ mail.step = "accepted" =>
       /\ mail.account \in Account
       /\ rows[mail.account].save # 0 => rows[mail.account].save >= mail.atleast

VaultInv ==
  /\ VaultTypeOK /\ MailServed /\ KeysAgree /\ SavesNumbered /\ MailFits
  /\ will # 0 => will # deleting

LEMMA VaultBounds ==
  MaxAccount \in Nat /\ MaxSaves \in Nat /\ MaxSalts \in Nat /\ MaxDeaths \in Nat
BY VaultBoundAssumption

LEMMA FirstIsOne ==
  ASSUME NEW S \in SUBSET Account
  PROVE  /\ First(S) \in 0 .. MaxAccount
         /\ S = {} => First(S) = 0
         /\ S # {} => First(S) \in S
<1>1. Account \subseteq Nat /\ Account \subseteq 0 .. MaxAccount /\ 0 \in 0 .. MaxAccount
  BY VaultBounds DEF Account
<1>2. S # {} => Min(S) \in S
  BY <1>1, LeastExists
<1>. QED  BY <1>1, <1>2 DEF First

LEMMA DefaultType ==
  ASSUME VaultTypeOK
  PROVE  /\ DefaultName \in 0 .. MaxAccount /\ First(Listed) \in 0 .. MaxAccount
         /\ Listed \subseteq Account
<1>1. Listed \subseteq Account
  BY DEF Listed
<1>. QED  BY <1>1, FirstIsOne DEF DefaultName, VaultTypeOK

-----------------------------------------------------------------------------
(* Salts and keys.                                                         *)

LEMMA ReadSaltStep ==
  ASSUME VaultInv, NEW p \in Process, ReadSalt(p)
  PROVE  VaultInv'
<1>1. VaultTypeOK /\ KeysAgree
  BY DEF VaultInv
<1>2. UNCHANGED <<salt, rows, chosen, salts, raced, deleting, cache, mail, saves, deaths, will>>
  BY DEF ReadSalt, file
<1>3. VaultTypeOK'
  BY <1>1, <1>2 DEF VaultTypeOK, ReadSalt
<1>4. KeysAgree'
  BY <1>1, <1>2 DEF VaultTypeOK, KeysAgree, ReadSalt
<1>5. MailServed' /\ SavesNumbered' /\ MailFits' /\ (will' # 0 => will' # deleting')
  BY <1>2 DEF VaultInv, MailServed, SavesNumbered, MailFits
<1>. QED  BY <1>3, <1>4, <1>5 DEF VaultInv

\* The first salt is made when nothing is written yet and nobody else is up.
LEMMA WriteSaltStep ==
  ASSUME VaultInv, NEW p \in Process, WriteSalt(p)
  PROVE  VaultInv'
<1>1. VaultTypeOK /\ KeysAgree
  BY DEF VaultInv
<1>2. /\ phase[p] = "creating" /\ salts < MaxSalts /\ salts' = salts + 1 /\ salt' = salts'
      /\ phase' = [phase EXCEPT ![p] = "up"] /\ key' = [key EXCEPT ![p] = salts']
      /\ raced' = (raced \/ \E q \in Process \ {p} : phase[q] = "creating")
      /\ UNCHANGED <<rows, chosen, deleting, cache, mail, saves, deaths, will>>
  BY DEF WriteSalt
<1>3. salts' \in Salt /\ salts' # 0
  BY <1>1, <1>2, VaultBounds DEF VaultTypeOK, Salt
<1>4. VaultTypeOK'
  BY <1>1, <1>2, <1>3 DEF VaultTypeOK
<1>5. KeysAgree'
  <2>. SUFFICES ASSUME ~raced' PROVE KeysAgree'
    BY DEF KeysAgree
  <2>1. ~raced /\ \A q \in Process \ {p} : phase[q] # "creating"
    BY <1>2
  <2>2. salt = 0 /\ \A q \in Process \ {p} : phase[q] = "down"
    BY <1>1, <1>2, <2>1 DEF KeysAgree, VaultTypeOK
  <2>3. \A q \in Process : phase'[q] # "creating" /\ (phase'[q] = "up" => q = p)
    BY <1>1, <1>2, <2>2 DEF VaultTypeOK
  <2>4. key'[p] = salt'
    BY <1>1, <1>2 DEF VaultTypeOK
  <2>. QED  BY <1>1, <1>2, <1>3, <2>1, <2>2, <2>3, <2>4 DEF KeysAgree
<1>6. MailServed' /\ SavesNumbered' /\ MailFits' /\ (will' # 0 => will' # deleting')
  BY <1>2 DEF VaultInv, MailServed, SavesNumbered, MailFits
<1>. QED  BY <1>4, <1>5, <1>6 DEF VaultInv

LEMMA NoMailFits ==
  /\ NoMail \in Mail /\ NoMail.step = "none" /\ NoMail.atleast = 0
BY VaultBounds DEF NoMail, Mail, Account

LEMMA DieStep ==
  ASSUME VaultInv, NEW p \in Process, Die(p)
  PROVE  VaultInv'
<1>1. VaultTypeOK /\ KeysAgree
  BY DEF VaultInv
<1>2. /\ deaths < MaxDeaths /\ deaths' = deaths + 1
      /\ phase' = [phase EXCEPT ![p] = "down"] /\ key' = [key EXCEPT ![p] = 0]
      /\ UNCHANGED <<salt, rows, chosen, salts, raced, saves, will>>
      /\ deleting' \in {0, deleting}
      /\ \/ UNCHANGED <<cache, mail>>
         \/ cache' = [a \in Account |-> 0] /\ mail' = NoMail
  BY DEF Die, file
<1>3. VaultTypeOK'
  <2>1. deaths' \in 0 .. MaxDeaths /\ deleting' \in 0 .. MaxAccount
    BY <1>1, <1>2, VaultBounds DEF VaultTypeOK
  <2>2. mail' \in Mail /\ cache' \in [Account -> 0 .. MaxSaves]
    BY <1>1, <1>2, NoMailFits, VaultBounds DEF VaultTypeOK
  <2>3. 0 \in Salt
    BY VaultBounds DEF Salt
  <2>. QED  BY <1>1, <1>2, <2>1, <2>2, <2>3 DEF VaultTypeOK
<1>4. KeysAgree'
  BY <1>1, <1>2 DEF VaultTypeOK, KeysAgree
<1>5. SavesNumbered'
  BY <1>1, <1>2, NoMailFits DEF VaultInv, SavesNumbered, VaultTypeOK
<1>6. MailServed' /\ MailFits' /\ (will' # 0 => will' # deleting')
  BY <1>2, NoMailFits DEF VaultInv, MailServed, MailFits
<1>. QED  BY <1>3, <1>4, <1>5, <1>6 DEF VaultInv

-----------------------------------------------------------------------------
(* What the panel writes.                                                  *)

\* A row that the panel replaces: with a newer save, or with none.
LEMMA RowStep ==
  ASSUME VaultInv, NEW a \in Account, phase["web"] = "up",
         rows' \in [Account -> [save : 0 .. MaxSaves, key : Salt]],
         \A b \in Account : b # a => rows'[b] = rows[b],
         rows'[a].save \in {0, saves + 1}, rows'[a].key \in {0, key["web"]},
         saves' \in 0 .. MaxSaves, saves <= saves', rows'[a].save <= saves',
         deleting' \in 0 .. MaxAccount, will' \in {0, will}, will' # 0 => will' # deleting',
         will' = a => rows'[a].save # 0,
         UNCHANGED <<salt, chosen, opening, cache, mail, deaths>>
  PROVE  VaultInv'
<1>1. VaultTypeOK /\ KeysAgree
  BY DEF VaultInv
<1>2. UNCHANGED <<phase, key, salts, raced>>
  BY DEF opening
<1>3. ~raced => rows'[a].key \in {0, salt}
  <2>1. "web" \in Process
    BY DEF Process
  <2>. QED  BY <1>1, <2>1 DEF KeysAgree
<1>4. VaultTypeOK'
  <2>1. will' \in 0 .. MaxAccount
    BY <1>1, VaultBounds DEF VaultTypeOK
  <2>. QED  BY <1>1, <1>2, <2>1 DEF VaultTypeOK
<1>5. KeysAgree'
  BY <1>1, <1>2, <1>3 DEF KeysAgree
<1>6. \A b \in Account : rows'[b].save = rows[b].save \/ b = a
  OBVIOUS
<1>7. \A b \in Account : rows[b].save \in Nat
  BY <1>1, VaultBounds DEF VaultTypeOK
<1>8. /\ mail.atleast \in Nat /\ saves \in Nat /\ saves' \in Nat /\ rows'[a].save \in Nat
      /\ will \in 0 .. MaxAccount
  BY <1>1, VaultBounds DEF VaultTypeOK, Mail
<1>9. SavesNumbered'
  <2>1. mail.atleast <= saves /\ \A b \in Account : rows[b].save <= saves
    BY DEF VaultInv, SavesNumbered
  <2>. QED  BY <1>6, <1>7, <1>8, <2>1 DEF SavesNumbered
<1>10. MailFits'
  <2>1. mail.atleast <= saves /\ MailFits
    BY DEF VaultInv, SavesNumbered
  <2>. QED  BY <1>6, <1>7, <1>8, <2>1 DEF MailFits
<1>11. MailServed'
  <2>1. MailServed
    BY DEF VaultInv
  <2>2. will # 0 => will \in Account
    BY <1>8 DEF Account
  <2>3. will' # 0 => rows'[will'].save # 0
    BY <1>6, <2>1, <2>2 DEF MailServed
  <2>. QED  BY <2>1, <2>3 DEF MailServed
<1>. QED  BY <1>4, <1>5, <1>9, <1>10, <1>11 DEF VaultInv

LEMMA VaultSaveStep ==
  ASSUME VaultInv, NEW a \in Account, Save(a)
  PROVE  VaultInv'
<1>1. /\ phase["web"] = "up" /\ saves < MaxSaves /\ saves' = saves + 1
      /\ rows' = [rows EXCEPT ![a] = [save |-> saves', key |-> key["web"]]]
      /\ UNCHANGED <<salt, chosen, opening, deleting, cache, mail, deaths, will>>
  BY DEF Save, Written
<1>2. /\ saves \in 0 .. MaxSaves /\ deleting \in 0 .. MaxAccount /\ will \in 0 .. MaxAccount
      /\ will # 0 => will # deleting
  BY DEF VaultInv, VaultTypeOK
<1>3. saves' \in 0 .. MaxSaves /\ saves' # 0 /\ saves <= saves'
  BY <1>1, <1>2, VaultBounds
<1>4. /\ rows' \in [Account -> [save : 0 .. MaxSaves, key : Salt]]
      /\ \A b \in Account : b # a => rows'[b] = rows[b]
      /\ rows'[a].save = saves' /\ rows'[a].key = key["web"]
  BY <1>1, <1>3 DEF VaultInv, VaultTypeOK, Process
<1>. QED  BY <1>1, <1>2, <1>3, <1>4, RowStep

LEMMA DeleteRowStep ==
  ASSUME VaultInv, NEW a \in Account, DeleteRow(a)
  PROVE  VaultInv'
<1>1. /\ phase["web"] = "up" /\ rows' = [rows EXCEPT ![a] = [save |-> 0, key |-> 0]]
      /\ deleting' = a /\ will' = IF will = a THEN 0 ELSE will
      /\ UNCHANGED <<salt, chosen, opening, cache, mail, saves, deaths>>
  BY DEF DeleteRow, NoRow
<1>2. saves \in 0 .. MaxSaves /\ will \in 0 .. MaxAccount
  BY DEF VaultInv, VaultTypeOK
<1>3. a \in 0 .. MaxAccount /\ a # 0 /\ 0 \in 0 .. MaxAccount /\ 0 \in 0 .. MaxSaves
  BY VaultBounds DEF Account
<1>4. /\ rows' \in [Account -> [save : 0 .. MaxSaves, key : Salt]]
      /\ \A b \in Account : b # a => rows'[b] = rows[b]
      /\ rows'[a].save = 0 /\ rows'[a].key = 0
  <2>1. 0 \in Salt
    BY VaultBounds DEF Salt
  <2>. QED  BY <1>1, <1>3, <2>1 DEF VaultInv, VaultTypeOK
<1>. QED  BY <1>1, <1>2, <1>3, <1>4, RowStep

LEMMA ChosenStep ==
  ASSUME VaultInv, NEW a \in 0 .. MaxAccount,
         \/ chosen' = chosen
         \/ phase["web"] = "up" /\ chosen' = [name |-> a, key |-> key["web"]],
         will' \in 0 .. MaxAccount, deleting' \in 0 .. MaxAccount,
         will' # 0 => chosen'.name = will' /\ rows[will'].save # 0 /\ will' # deleting',
         UNCHANGED <<salt, rows, opening, cache, mail, saves, deaths>>
  PROVE  VaultInv'
<1>1. VaultTypeOK /\ KeysAgree
  BY DEF VaultInv
<1>2. UNCHANGED <<phase, key, salts, raced>>
  BY DEF opening
<1>3. /\ chosen' \in [name : 0 .. MaxAccount, key : Salt]
      /\ ~raced => chosen'.key \in {0, salt}
  <2>1. "web" \in Process
    BY DEF Process
  <2>. QED  BY <1>1, <2>1 DEF VaultTypeOK, KeysAgree
<1>4. VaultTypeOK'
  BY <1>1, <1>2, <1>3 DEF VaultTypeOK
<1>5. KeysAgree'
  BY <1>1, <1>2, <1>3 DEF KeysAgree
<1>6. MailServed' /\ SavesNumbered' /\ MailFits'
  BY DEF VaultInv, MailServed, SavesNumbered, MailFits
<1>. QED  BY <1>4, <1>5, <1>6 DEF VaultInv

LEMMA SetDefaultStep ==
  ASSUME VaultInv, NEW a \in Account, SetDefault(a)
  PROVE  VaultInv'
<1>1. /\ Idle /\ phase["web"] = "up" /\ rows[a].save # 0
      /\ chosen' = [name |-> a, key |-> key["web"]] /\ will' = a
      /\ UNCHANGED <<salt, rows, opening, deleting, cache, mail, saves, deaths>>
  BY DEF SetDefault
<1>2. a \in 0 .. MaxAccount /\ a # 0 /\ deleting = 0 /\ 0 \in 0 .. MaxAccount
  BY <1>1, VaultBounds DEF Account, Idle
<1>3. chosen'.name = a
  BY <1>1
<1>. QED  BY <1>1, <1>2, <1>3, ChosenStep

\* The default that was set is not the account of the deletion.
LEMMA DeleteDefaultStep ==
  ASSUME VaultInv, DeleteDefault
  PROVE  VaultInv'
<1>1. /\ deleting # 0 /\ deleting' = 0
      /\ chosen' = IF CanReadDefault("web") /\ CanList("web") /\ DefaultName = deleting
                   THEN [name |-> First(Listed), key |-> key["web"]] ELSE chosen
      /\ UNCHANGED <<salt, rows, opening, cache, mail, saves, deaths, will>>
  BY DEF DeleteDefault
<1>2. /\ will \in 0 .. MaxAccount /\ 0 \in 0 .. MaxAccount
      /\ will # 0 => will # deleting /\ chosen.name = will /\ rows[will].save # 0
  BY VaultBounds DEF VaultInv, VaultTypeOK, MailServed
<1>3. First(Listed) \in 0 .. MaxAccount
  BY DefaultType DEF VaultInv
<1>4. \/ chosen' = chosen
      \/ phase["web"] = "up" /\ chosen' = [name |-> First(Listed), key |-> key["web"]]
  BY <1>1 DEF CanList
<1>5. will # 0 => chosen' = chosen
  BY <1>1, <1>2 DEF DefaultName
<1>. QED  BY <1>1, <1>2, <1>3, <1>4, <1>5, ChosenStep

-----------------------------------------------------------------------------
(* Mails.                                                                  *)

LEMMA MailStep ==
  ASSUME VaultInv, mail' \in Mail, cache' \in [Account -> 0 .. MaxSaves],
         mail'.step = "refused" /\ mail'.asked = 0 => mail'.seen = {},
         mail'.step = "sent" => mail'.used >= mail'.atleast,
         mail'.atleast <= saves, MailFits',
         UNCHANGED <<file, opening, deleting, saves, deaths, will>>
  PROVE  VaultInv'
<1>1. VaultTypeOK /\ KeysAgree /\ MailServed
  BY DEF VaultInv
<1>2. UNCHANGED <<salt, rows, chosen, phase, key, salts, raced, deleting, saves, deaths, will>>
  BY DEF file, opening
<1>3. VaultTypeOK'
  BY <1>1, <1>2 DEF VaultTypeOK
<1>4. KeysAgree' /\ MailServed'
  BY <1>1, <1>2 DEF KeysAgree, MailServed
<1>5. SavesNumbered' /\ (will' # 0 => will' # deleting')
  BY <1>2 DEF VaultInv, SavesNumbered
<1>. QED  BY <1>3, <1>4, <1>5 DEF VaultInv

LEMMA ListStep ==
  ASSUME VaultInv, ListAccounts
  PROVE  VaultInv'
<1>1. PICK asked \in 0 .. MaxAccount, match \in {0} \cup Listed :
        mail' = [NoMail EXCEPT !.step = "listed", !.asked = asked, !.match = match,
                               !.seen = Listed]
  BY DEF ListAccounts
<1>2. Listed \in SUBSET Account /\ match \in 0 .. MaxAccount
  BY VaultBounds DEF Listed, Account
<1>3. /\ mail' \in Mail /\ mail'.step = "listed" /\ mail'.match = match
      /\ mail'.seen = Listed /\ mail'.atleast = 0
  <2>1. mail' = [step |-> "listed", asked |-> asked, match |-> match, seen |-> Listed,
                 account |-> 0, atleast |-> 0, used |-> 0]
    BY <1>1 DEF NoMail
  <2>2. 0 \in 0 .. MaxAccount /\ 0 \in 0 .. MaxSaves
    BY VaultBounds
  <2>. QED  BY <1>2, <2>1, <2>2 DEF Mail
<1>4. 0 <= saves /\ cache \in [Account -> 0 .. MaxSaves]
  BY VaultBounds DEF VaultInv, VaultTypeOK
<1>5. MailFits'
  BY <1>3 DEF MailFits
<1>. QED  BY <1>3, <1>4, <1>5, MailStep DEF ListAccounts

\* Who names no account is refused only when none was listed.
LEMMA ResolveStep ==
  ASSUME VaultInv, Resolve
  PROVE  VaultInv'
<1>1. /\ VaultTypeOK /\ mail \in Mail /\ mail.step = "listed"
      /\ mail.seen \subseteq Account /\ (mail.match # 0 => mail.match \in mail.seen)
      /\ UNCHANGED <<file, opening, deleting, cache, saves, deaths, will>>
  BY DEF Resolve, VaultInv, VaultTypeOK, Mail, MailFits
<1>2. /\ UNCHANGED rows /\ saves \in Nat /\ cache \in [Account -> 0 .. MaxSaves]
      /\ \A a \in Account : rows[a].save \in 0 .. MaxSaves /\ rows[a].save <= saves
      /\ mail.atleast <= saves
  BY <1>1, VaultBounds DEF VaultInv, VaultTypeOK, SavesNumbered, file
<1>3. CASE mail' = NoMail
  <2>1. MailFits'
    BY <1>3, NoMailFits DEF MailFits
  <2>. QED  BY <1>1, <1>2, <1>3, <2>1, NoMailFits, MailStep
<1>4. CASE /\ Resolved \in mail.seen
           /\ mail' = [mail EXCEPT !.step = "accepted", !.account = Resolved,
                                   !.atleast = rows[Resolved].save]
  <2>1. Resolved \in Account /\ Resolved \in 0 .. MaxAccount
    BY <1>1, <1>4, VaultBounds DEF Account
  <2>2. /\ mail' \in Mail /\ mail'.step = "accepted" /\ mail'.account = Resolved
        /\ mail'.atleast = rows[Resolved].save
    BY <1>1, <1>2, <1>4, <2>1 DEF Mail
  <2>3. rows'[Resolved].save >= mail'.atleast
    BY <1>2, <2>1, <2>2, VaultBounds
  <2>4. MailFits'
    BY <2>1, <2>2, <2>3 DEF MailFits
  <2>. QED  BY <1>1, <1>2, <2>1, <2>2, <2>4, MailStep
<1>5. CASE Resolved \notin mail.seen /\ mail' = [mail EXCEPT !.step = "refused"]
  <2>1. /\ mail' \in Mail /\ mail'.step = "refused" /\ mail'.asked = mail.asked
        /\ mail'.seen = mail.seen /\ mail'.atleast = mail.atleast
    BY <1>1, <1>5 DEF Mail
  <2>2. mail.asked = 0 => mail.seen = {}
    <3>. SUFFICES ASSUME mail.asked = 0, mail.seen # {} PROVE FALSE
      OBVIOUS
    <3>1. mail.match = 0
      BY <1>1, <1>5 DEF Resolved
    <3>2. Resolved = IF DefaultName \in mail.seen THEN DefaultName ELSE First(mail.seen)
      BY <3>1 DEF Resolved
    <3>. QED  BY <1>1, <1>5, <3>2, FirstIsOne
  <2>3. MailFits'
    BY <2>1 DEF MailFits
  <2>. QED  BY <1>1, <1>2, <2>1, <2>2, <2>3, MailStep
<1>. QED  BY <1>3, <1>4, <1>5 DEF Resolve

\* A transporter is never older than the row it is checked against.
LEMMA SendStep ==
  ASSUME VaultInv, Send
  PROVE  VaultInv'
<1>. DEFINE a == mail.account
<1>1. /\ VaultTypeOK /\ mail \in Mail /\ mail.step = "accepted" /\ a \in Account
      /\ (rows[a].save # 0 => rows[a].save >= mail.atleast)
      /\ UNCHANGED <<file, opening, deleting, saves, deaths, will>>
  BY DEF Send, VaultInv, VaultTypeOK, MailFits
<1>2. /\ rows[a].save \in 0 .. MaxSaves /\ cache \in [Account -> 0 .. MaxSaves]
      /\ mail.atleast <= saves
  BY <1>1 DEF VaultInv, VaultTypeOK, SavesNumbered
<1>3. Transporter(a) = rows[a].save
  BY DEF Transporter
<1>4. CASE /\ rows[a].save # 0
           /\ cache' = [cache EXCEPT ![a] = Transporter(a)]
           /\ mail' = [mail EXCEPT !.step = "sent", !.used = Transporter(a)]
  <2>1. cache' \in [Account -> 0 .. MaxSaves]
    BY <1>2, <1>3, <1>4
  <2>2. /\ mail' \in Mail /\ mail'.step = "sent" /\ mail'.used = rows[a].save
        /\ mail'.atleast = mail.atleast
    BY <1>1, <1>2, <1>3, <1>4 DEF Mail
  <2>3. MailFits'
    BY <2>2 DEF MailFits
  <2>. QED  BY <1>1, <1>2, <1>4, <2>1, <2>2, <2>3, MailStep
<1>5. CASE mail' = [mail EXCEPT !.step = "failed"] /\ UNCHANGED cache
  <2>1. mail' \in Mail /\ mail'.step = "failed" /\ mail'.atleast = mail.atleast
    BY <1>1, <1>5 DEF Mail
  <2>2. MailFits'
    BY <2>1 DEF MailFits
  <2>. QED  BY <1>1, <1>2, <1>5, <2>1, <2>2, MailStep
<1>. QED  BY <1>4, <1>5 DEF Send

LEMMA NextMailStep ==
  ASSUME VaultInv, NextMail
  PROVE  VaultInv'
<1>1. /\ mail' = NoMail /\ UNCHANGED <<file, opening, deleting, cache, saves, deaths, will>>
      /\ 0 <= saves /\ cache \in [Account -> 0 .. MaxSaves]
  BY VaultBounds DEF NextMail, VaultInv, VaultTypeOK
<1>2. MailFits'
  BY <1>1, NoMailFits DEF MailFits
<1>. QED  BY <1>1, <1>2, NoMailFits, MailStep

-----------------------------------------------------------------------------
LEMMA VaultStart == VaultInit => VaultInv
<1>. SUFFICES ASSUME VaultInit PROVE VaultInv
  OBVIOUS
<1>1. 0 \in Salt /\ 0 \in 0 .. MaxAccount /\ 0 \in 0 .. MaxSaves /\ 0 \in 0 .. MaxDeaths
  BY VaultBounds DEF Salt
<1>2. VaultTypeOK
  BY <1>1, NoMailFits DEF VaultInit, VaultTypeOK, NoRow, NotChosen
<1>3. KeysAgree
  BY DEF VaultInit, KeysAgree, NoRow, NotChosen
<1>4. MailServed /\ SavesNumbered /\ MailFits
  BY NoMailFits DEF VaultInit, MailServed, SavesNumbered, MailFits, NoRow
<1>. QED  BY <1>2, <1>3, <1>4 DEF VaultInit, VaultInv

LEMMA VaultStep == VaultInv /\ [VaultNext]_vaultVars => VaultInv'
<1>. SUFFICES ASSUME VaultInv, [VaultNext]_vaultVars PROVE VaultInv'
  OBVIOUS
<1>1. CASE VaultNext
  BY <1>1, ReadSaltStep, WriteSaltStep, DieStep, VaultSaveStep, SetDefaultStep, DeleteRowStep,
     DeleteDefaultStep, ListStep, ResolveStep, SendStep, NextMailStep DEF VaultNext
<1>2. CASE UNCHANGED vaultVars
  BY <1>2 DEF vaultVars, file, opening, VaultInv, VaultTypeOK, MailServed, KeysAgree,
     SavesNumbered, MailFits
<1>. QED  BY <1>1, <1>2

(***************************************************************************)
(* The inductive invariant of the vault: unless two processes opened an    *)
(* empty one at once, all that is up has the key of the salt in the file   *)
(* and all that is written was written with it; no account of a mail on    *)
(* its way has gone back to an older save; and a deletion that is half     *)
(* done is not of the account that the operator has as the default.        *)
(***************************************************************************)
THEOREM VaultInvariant == VaultSpec => []VaultInv
<1>. QED  BY VaultStart, VaultStep, PTL DEF VaultSpec

(***************************************************************************)
(* For any accounts, saves and deaths of either process: a mail that names *)
(* no account finds one if there is any, the default of the operator       *)
(* stands through every half deletion, and no mail goes out with a cached  *)
(* transporter that is older than what it was accepted with.               *)
(***************************************************************************)
THEOREM MailsAreServed == VaultSpec => []MailServed
<1>1. VaultInv => MailServed
  BY DEF VaultInv
<1>. QED  BY <1>1, VaultInvariant, PTL

(***************************************************************************)
(* For any number of salts and deaths: a process that is up can read every *)
(* row, unless two of them made a salt at once.                            *)
(***************************************************************************)
THEOREM VaultStaysReadable == VaultSpec => []VaultReadable
<1>1. VaultInv => VaultReadable
  BY DEF VaultInv, KeysAgree, VaultReadable, Opens
<1>. QED  BY <1>1, VaultInvariant, PTL

-----------------------------------------------------------------------------
(* The update page: its invariant.                                         *)

UnderWay(kind, bag) == \E r \in BagToSet(bag) : r.kind = kind

\* Every answer is one that its request can have.
AnswersFit(bag) ==
  \A r \in BagToSet(bag) :
    /\ r.kind = "check" => r.answer \in {"none", "error", "update", "current"}
    /\ r.kind = "start" => r.answer \in {"none", "error", "running"}
    /\ r.kind \in {"boot", "status"} => r.answer \in {"none", "error"} \cup JobStatus

\* One request about the job at most is under way.
OneAboutJob(bag) ==
  \A r, s \in BagToSet(bag) : r.kind # "check" /\ s.kind # "check" => r = s /\ bag[r] = 1

\* What the page says is under way is under way.
SaysFits ==
  /\ says = "checking" => UnderWay("check", underWay)
  /\ says = "starting" => UnderWay("start", underWay)
  /\ says = "running" => following

\* Who cannot check can wait for something that lets him.
ButtonsFit ==
  /\ UnderWay("status", underWay) => following
  /\ UnderWay("boot", underWay) => "check" \in buttons
  /\ "check" \notin buttons => following \/ UnderWay("start", underWay)

\* Neither of the two excuses has come up.
InStep == ~overlapped /\ ~interrupted

PageInv ==
  /\ PageTypeOK /\ AnswersFit(underWay)
  /\ InStep => OneAboutJob(underWay) /\ SaysFits /\ ButtonsFit

-----------------------------------------------------------------------------
(* Requests under way.                                                     *)

Kinds == {"boot", "check", "start", "status"}

LEMMA RequestSent ==
  ASSUME NEW B, IsABag(B), NEW x
  PROVE  /\ IsABag(Bag!BagAdd(B, x)) /\ BagToSet(Bag!BagAdd(B, x)) = BagToSet(B) \cup {x}
         /\ \A e \in BagToSet(B) : e # x => Bag!BagAdd(B, x)[e] = B[e]
         /\ x \notin BagToSet(B) => Bag!BagAdd(B, x)[x] = 1
BY DEF IsABag, Bag!BagAdd, BagToSet

LEMMA RequestGone ==
  ASSUME NEW B, IsABag(B), NEW x \in BagToSet(B)
  PROVE  /\ IsABag(Bag!BagRemove(B, x))
         /\ BagToSet(Bag!BagRemove(B, x)) \subseteq BagToSet(B)
         /\ BagToSet(B) \ {x} \subseteq BagToSet(Bag!BagRemove(B, x))
         /\ \A e \in BagToSet(B) : e # x => Bag!BagRemove(B, x)[e] = B[e]
         /\ B[x] = 1 => x \notin BagToSet(Bag!BagRemove(B, x))
BY DEF IsABag, Bag!BagRemove, BagToSet

Checks(bag) == \A r \in BagToSet(bag) : r.kind = "check"

\* A bag from which one request was taken.
LEMMA WithoutOne ==
  ASSUME NEW B, IsABag(B), BagToSet(B) \subseteq Request, AnswersFit(B),
         NEW r \in BagToSet(B), NEW C, C = Bag!BagRemove(B, r)
  PROVE  /\ IsABag(C) /\ BagToSet(C) \subseteq Request /\ AnswersFit(C)
         /\ \A kind \in Kinds : UnderWay(kind, C) => UnderWay(kind, B)
         /\ \A kind \in Kinds : kind # r.kind /\ UnderWay(kind, B) => UnderWay(kind, C)
         /\ OneAboutJob(B) => OneAboutJob(C)
         /\ OneAboutJob(B) /\ r.kind # "check" => Checks(C)
<1>1. /\ IsABag(C) /\ BagToSet(C) \subseteq BagToSet(B) /\ BagToSet(B) \ {r} \subseteq BagToSet(C)
      /\ \A e \in BagToSet(B) : e # r => C[e] = B[e]
      /\ B[r] = 1 => r \notin BagToSet(C)
  BY RequestGone
<1>2. BagToSet(C) \subseteq Request /\ AnswersFit(C)
  BY <1>1 DEF AnswersFit
<1>3. /\ \A kind \in Kinds : UnderWay(kind, C) => UnderWay(kind, B)
      /\ \A kind \in Kinds : kind # r.kind /\ UnderWay(kind, B) => UnderWay(kind, C)
  BY <1>1 DEF UnderWay
<1>4. OneAboutJob(B) => OneAboutJob(C)
  BY <1>1 DEF OneAboutJob
<1>5. OneAboutJob(B) /\ r.kind # "check" => Checks(C)
  BY <1>1 DEF OneAboutJob, Checks
<1>. QED  BY <1>1, <1>2, <1>3, <1>4, <1>5

\* The page sends a request beside others.
LEMMA WithOneMore ==
  ASSUME NEW C, IsABag(C), BagToSet(C) \subseteq Request, AnswersFit(C),
         NEW kind \in Kinds, Ask(kind, C),
         overlapped \in BOOLEAN, interrupted \in BOOLEAN
  PROVE  /\ IsABag(underWay') /\ BagToSet(underWay') \subseteq Request /\ AnswersFit(underWay')
         /\ overlapped' \in BOOLEAN /\ interrupted' \in BOOLEAN
         /\ UnderWay(kind, underWay')
         /\ \A other \in Kinds : UnderWay(other, C) => UnderWay(other, underWay')
         /\ \A other \in Kinds : other # kind /\ UnderWay(other, underWay') => UnderWay(other, C)
         /\ InStep' => InStep /\ (kind # "check" => Checks(C))
         /\ InStep' /\ kind = "check" => ~UnderWay("status", C)
         /\ InStep' /\ (kind = "check" => OneAboutJob(C)) => OneAboutJob(underWay')
<1>. DEFINE r == Unanswered(kind)
<1>1. r \in Request /\ r.kind = kind /\ r.answer = "none"
  BY DEF Unanswered, Request, Kinds
<1>. HIDE DEF r
<1>2. /\ underWay' = Bag!BagAdd(C, r)
      /\ overlapped' = (overlapped \/ (kind # "check" /\ AboutJob(C)))
      /\ interrupted' = (interrupted \/ (kind = "check" /\ Polled(C)))
  BY DEF Ask, r
<1>3. /\ IsABag(underWay') /\ BagToSet(underWay') = BagToSet(C) \cup {r}
      /\ \A e \in BagToSet(C) : e # r => underWay'[e] = C[e]
      /\ r \notin BagToSet(C) => underWay'[r] = 1
  BY <1>2, RequestSent
<1>4. BagToSet(underWay') \subseteq Request /\ AnswersFit(underWay')
  BY <1>1, <1>3 DEF AnswersFit
<1>5. /\ UnderWay(kind, underWay')
      /\ \A other \in Kinds : UnderWay(other, C) => UnderWay(other, underWay')
      /\ \A other \in Kinds : other # kind /\ UnderWay(other, underWay') => UnderWay(other, C)
  BY <1>1, <1>3 DEF UnderWay
<1>6. /\ InStep' => InStep /\ (kind # "check" => Checks(C))
      /\ InStep' /\ kind = "check" => ~UnderWay("status", C)
  BY <1>2 DEF InStep, AboutJob, Polled, Checks, UnderWay
<1>7. ASSUME InStep', kind = "check" => OneAboutJob(C) PROVE OneAboutJob(underWay')
  <2>1. CASE kind = "check"
    BY <1>1, <1>3, <1>7, <2>1 DEF OneAboutJob
  <2>2. CASE kind # "check"
    BY <1>1, <1>3, <1>6, <1>7, <2>2 DEF OneAboutJob, Checks
  <2>. QED  BY <2>1, <2>2
<1>8. overlapped' \in BOOLEAN /\ interrupted' \in BOOLEAN
  BY <1>2 DEF AboutJob, Polled
<1>. QED  BY <1>3, <1>4, <1>5, <1>6, <1>7, <1>8

LEMMA PageTypes ==
  ASSUME PageInv
  PROVE  /\ PageTypeOK /\ IsABag(underWay) /\ BagToSet(underWay) \subseteq Request
         /\ AnswersFit(underWay) /\ overlapped \in BOOLEAN /\ interrupted \in BOOLEAN
BY DEF PageInv, PageTypeOK

-----------------------------------------------------------------------------
(* The panel's steps.                                                      *)

LEMMA PanelStep ==
  ASSUME PageInv, JobChanges \/ PanelStarts \/ SignIn
  PROVE  PageInv'
<1>1. UNCHANGED <<underWay, following, available, buttons, says, overlapped, interrupted>>
  BY DEF JobChanges, PanelStarts, SignIn
<1>2. /\ job' \in JobStatus /\ session' \in {"page", "none", "later"}
      /\ panelStarts' \in 0 .. MaxPanelStarts
  BY PageBoundAssumption DEF PageInv, PageTypeOK, JobChanges, PanelStarts, SignIn,
     JobStatus, Settled
<1>3. PageTypeOK'
  BY <1>1, <1>2 DEF PageInv, PageTypeOK
<1>. QED  BY <1>1, <1>3 DEF PageInv, InStep, SaysFits, ButtonsFit

\* The answer takes the place of the request.
LEMMA ServeStep ==
  ASSUME PageInv, NEW r \in BagToSet(underWay), ServeRequest(r)
  PROVE  PageInv'
<1>. DEFINE C == Bag!BagRemove(underWay, r)
<1>1. PICK answer \in Answers(r.kind) \cup {"error"} :
        /\ r.answer = "none" /\ underWay' = Bag!BagAdd(C, [r EXCEPT !.answer = answer])
        /\ job' \in {"running", job}
        /\ UNCHANGED <<session, following, available, buttons, says, overlapped,
                     interrupted, panelStarts>>
  BY DEF ServeRequest
<1>2. /\ IsABag(C) /\ BagToSet(C) \subseteq Request /\ AnswersFit(C)
      /\ \A kind \in Kinds : UnderWay(kind, C) => UnderWay(kind, underWay)
      /\ \A kind \in Kinds : kind # r.kind /\ UnderWay(kind, underWay) => UnderWay(kind, C)
      /\ OneAboutJob(underWay) => OneAboutJob(C)
      /\ OneAboutJob(underWay) /\ r.kind # "check" => Checks(C)
  BY PageTypes, WithoutOne
<1>. HIDE DEF C
<1>3. r \in Request /\ r.kind \in Kinds /\ job \in JobStatus
  BY PageTypes DEF PageTypeOK, Request, Kinds
<1>4. PICK a : a = [r EXCEPT !.answer = answer]
  OBVIOUS
<1>5. /\ r.kind = "check" => answer \in {"error", "update", "current"}
      /\ r.kind = "start" => answer \in {"error", "running"}
      /\ r.kind \in {"boot", "status"} => answer \in {"error"} \cup JobStatus
  <2>1. CASE answer = "error"
    BY <2>1
  <2>2. CASE answer # "error"
    <3>1. answer \in Answers(r.kind)
      BY <1>1, <2>2
    <3>2. CASE r.kind = "check"
      BY <3>1, <3>2 DEF Answers
    <3>3. CASE r.kind = "start"
      BY <3>1, <3>3 DEF Answers
    <3>4. CASE r.kind \in {"boot", "status"}
      BY <1>3, <3>1, <3>4 DEF Answers
    <3>. QED  BY <1>3, <3>2, <3>3, <3>4 DEF Kinds
  <2>. QED  BY <2>1, <2>2
<1>6. a \in Request /\ a.kind = r.kind /\ a.answer = answer
  BY <1>3, <1>4, <1>5 DEF Request, Kinds, JobStatus
<1>7. /\ IsABag(underWay') /\ BagToSet(underWay') = BagToSet(C) \cup {a}
      /\ \A e \in BagToSet(C) : e # a => underWay'[e] = C[e]
      /\ a \notin BagToSet(C) => underWay'[a] = 1
  BY <1>1, <1>2, <1>4, RequestSent
<1>8. BagToSet(underWay') \subseteq Request /\ AnswersFit(underWay')
  BY <1>2, <1>5, <1>6, <1>7 DEF AnswersFit
<1>9. \A kind \in Kinds : UnderWay(kind, underWay') <=> UnderWay(kind, underWay)
  BY <1>2, <1>6, <1>7 DEF UnderWay
<1>10. OneAboutJob(underWay) => OneAboutJob(underWay')
  <2>1. CASE r.kind = "check"
    BY <1>2, <1>6, <1>7, <2>1 DEF OneAboutJob
  <2>2. CASE r.kind # "check"
    BY <1>2, <1>6, <1>7, <2>2 DEF OneAboutJob, Checks
  <2>. QED  BY <2>1, <2>2
<1>11. PageTypeOK'
  BY <1>1, <1>7, <1>8 DEF PageInv, PageTypeOK, JobStatus
<1>12. SaysFits /\ ButtonsFit => SaysFits' /\ ButtonsFit'
  BY <1>1, <1>9 DEF SaysFits, ButtonsFit, Kinds
<1>. QED  BY <1>1, <1>8, <1>10, <1>11, <1>12 DEF PageInv, InStep

-----------------------------------------------------------------------------
(* The page's steps.                                                       *)

LEMMA CheckSent ==
  ASSUME PageInv, NEW C, IsABag(C), BagToSet(C) \subseteq Request, AnswersFit(C),
         CheckForUpdate(C), InStep => OneAboutJob(C) /\ "check" \in buttons
  PROVE  PageInv'
<1>1. /\ Ask("check", C) /\ following' = FALSE /\ available' = FALSE
      /\ buttons' = buttons \ {"start"} /\ says' = "checking" /\ UNCHANGED panel
  BY DEF CheckForUpdate
<1>2. /\ IsABag(underWay') /\ BagToSet(underWay') \subseteq Request /\ AnswersFit(underWay')
      /\ overlapped' \in BOOLEAN /\ interrupted' \in BOOLEAN /\ UnderWay("check", underWay')
      /\ UnderWay("status", underWay') => UnderWay("status", C)
      /\ InStep' => InStep /\ ~UnderWay("status", C)
      /\ InStep' /\ OneAboutJob(C) => OneAboutJob(underWay')
  BY <1>1, PageTypes, WithOneMore DEF Kinds
<1>3. PageTypeOK'
  BY <1>1, <1>2 DEF PageInv, PageTypeOK, panel
<1>4. ASSUME InStep' PROVE OneAboutJob(underWay') /\ SaysFits' /\ ButtonsFit'
  <2>1. OneAboutJob(underWay') /\ ~UnderWay("status", underWay')
    BY <1>2, <1>4
  <2>2. "check" \in buttons'
    BY <1>1, <1>2, <1>4
  <2>. QED  BY <1>1, <1>2, <2>1, <2>2 DEF SaysFits, ButtonsFit
<1>. QED  BY <1>2, <1>3, <1>4 DEF PageInv

LEMMA StartStepOfPage ==
  ASSUME PageInv, StartUpdate
  PROVE  PageInv'
<1>1. /\ Ask("start", underWay) /\ buttons' = {} /\ says' = "starting"
      /\ UNCHANGED <<following, available, panel>>
  BY DEF StartUpdate
<1>2. /\ IsABag(underWay') /\ BagToSet(underWay') \subseteq Request /\ AnswersFit(underWay')
      /\ overlapped' \in BOOLEAN /\ interrupted' \in BOOLEAN /\ UnderWay("start", underWay')
      /\ \A other \in Kinds :
           other # "start" /\ UnderWay(other, underWay') => UnderWay(other, underWay)
      /\ InStep' => InStep /\ Checks(underWay) /\ OneAboutJob(underWay')
  BY <1>1, PageTypes, WithOneMore DEF Kinds
<1>3. PageTypeOK'
  BY <1>1, <1>2 DEF PageInv, PageTypeOK, panel
<1>4. ASSUME InStep' PROVE SaysFits' /\ ButtonsFit'
  <2>1. ~UnderWay("status", underWay') /\ ~UnderWay("boot", underWay')
    BY <1>2, <1>4 DEF Kinds, UnderWay, Checks
  <2>. QED  BY <1>1, <1>2, <2>1 DEF SaysFits, ButtonsFit
<1>. QED  BY <1>2, <1>3, <1>4 DEF PageInv

LEMMA PollStep ==
  ASSUME PageInv, PollStatus
  PROVE  PageInv'
<1>1. /\ following /\ Ask("status", underWay)
      /\ UNCHANGED <<following, available, buttons, says, panel>>
  BY DEF PollStatus
<1>2. /\ IsABag(underWay') /\ BagToSet(underWay') \subseteq Request /\ AnswersFit(underWay')
      /\ overlapped' \in BOOLEAN /\ interrupted' \in BOOLEAN
      /\ \A other \in Kinds : UnderWay(other, underWay) => UnderWay(other, underWay')
      /\ \A other \in Kinds :
           other # "status" /\ UnderWay(other, underWay') => UnderWay(other, underWay)
      /\ InStep' => InStep /\ Checks(underWay) /\ OneAboutJob(underWay')
  BY <1>1, PageTypes, WithOneMore DEF Kinds
<1>3. PageTypeOK'
  BY <1>1, <1>2 DEF PageInv, PageTypeOK, panel
<1>4. ASSUME InStep' PROVE SaysFits' /\ ButtonsFit'
  BY <1>1, <1>2, <1>4 DEF PageInv, SaysFits, ButtonsFit, Kinds
<1>. QED  BY <1>2, <1>3, <1>4 DEF PageInv

\* An answer is taken: the request is under way no more.
LEMMA TakenFacts ==
  ASSUME PageInv, NEW r \in BagToSet(underWay), Taken(r)
  PROVE  /\ IsABag(underWay') /\ BagToSet(underWay') \subseteq Request /\ AnswersFit(underWay')
         /\ UNCHANGED <<overlapped, interrupted, job, session, panelStarts>>
         /\ \A kind \in Kinds : UnderWay(kind, underWay') => UnderWay(kind, underWay)
         /\ \A kind \in Kinds :
              kind # r.kind /\ UnderWay(kind, underWay) => UnderWay(kind, underWay')
         /\ OneAboutJob(underWay) => OneAboutJob(underWay')
         /\ OneAboutJob(underWay) /\ r.kind # "check" => Checks(underWay')
<1>1. underWay' = Bag!BagRemove(underWay, r) /\ UNCHANGED <<overlapped, interrupted, job, session, panelStarts>>
  BY DEF Taken, panel
<1>. QED  BY <1>1, PageTypes, WithoutOne

LEMMA BootedStep ==
  ASSUME PageInv, NEW r \in BagToSet(underWay), Booted(r)
  PROVE  PageInv'
<1>1. r.kind = "boot" /\ UnderWay("boot", underWay)
  BY DEF Booted, CameIn, UnderWay
<1>2. CASE Taken(r) /\ following' = TRUE /\ says' = "running" /\ UNCHANGED <<available, buttons>>
  <2>1. PageTypeOK'
    BY <1>2, TakenFacts DEF PageInv, PageTypeOK, JobStatus
  <2>2. ASSUME InStep' PROVE OneAboutJob(underWay') /\ SaysFits' /\ ButtonsFit'
    <3>1. InStep /\ OneAboutJob(underWay')
      BY <2>2, <1>2, TakenFacts DEF PageInv, InStep
    <3>2. "check" \in buttons
      BY <1>1, <3>1 DEF PageInv, ButtonsFit
    <3>. QED  BY <1>2, <3>1, <3>2 DEF SaysFits, ButtonsFit
  <2>. QED  BY <1>2, <2>1, <2>2, TakenFacts DEF PageInv
<1>3. CASE CheckForUpdate(Bag!BagRemove(underWay, r))
  <2>1. InStep => OneAboutJob(Bag!BagRemove(underWay, r)) /\ "check" \in buttons
    BY <1>1, PageTypes, WithoutOne DEF PageInv, ButtonsFit
  <2>2. /\ IsABag(Bag!BagRemove(underWay, r)) /\ BagToSet(Bag!BagRemove(underWay, r)) \subseteq Request
        /\ AnswersFit(Bag!BagRemove(underWay, r))
    BY PageTypes, WithoutOne
  <2>. QED  BY <1>3, <2>1, <2>2, CheckSent
<1>. QED  BY <1>2, <1>3 DEF Booted

LEMMA CheckedStep ==
  ASSUME PageInv, NEW r \in BagToSet(underWay), Checked(r)
  PROVE  PageInv'
<1>1. /\ r.kind = "check" /\ r.answer \in {"update", "current", "error"} /\ Taken(r)
      /\ UNCHANGED following
  BY PageTypes DEF Checked, CameIn, AnswersFit
<1>2. /\ says' \in {"ready", "current", "error"} /\ buttons' \in {buttons, buttons \cup {"start"}}
      /\ available' \in {TRUE, FALSE, available}
  BY <1>1 DEF Checked
<1>3. PageTypeOK'
  BY <1>1, <1>2, TakenFacts DEF PageInv, PageTypeOK
<1>4. ASSUME InStep' PROVE OneAboutJob(underWay') /\ SaysFits' /\ ButtonsFit'
  BY <1>1, <1>2, <1>4, TakenFacts DEF PageInv, InStep, SaysFits, ButtonsFit, Kinds
<1>. QED  BY <1>1, <1>3, <1>4, TakenFacts DEF PageInv

LEMMA StartedStep ==
  ASSUME PageInv, NEW r \in BagToSet(underWay), Started(r)
  PROVE  PageInv'
<1>1. /\ r.kind = "start" /\ r.answer \in {"running", "error"} /\ Taken(r)
      /\ UNCHANGED available
      /\ \/ buttons' = {"check", "start"} /\ says' = "error" /\ UNCHANGED following
         \/ following' = TRUE /\ says' = "running" /\ UNCHANGED buttons
  BY PageTypes DEF Started, CameIn, AnswersFit
<1>2. PageTypeOK'
  BY <1>1, TakenFacts DEF PageInv, PageTypeOK, JobStatus
<1>3. ASSUME InStep' PROVE OneAboutJob(underWay') /\ SaysFits' /\ ButtonsFit'
  BY <1>1, <1>3, TakenFacts DEF PageInv, InStep, SaysFits, ButtonsFit, Kinds
<1>. QED  BY <1>1, <1>2, <1>3, TakenFacts DEF PageInv

\* The only answer about the job: its verdict ends the polling.
LEMMA StatusReadStep ==
  ASSUME PageInv, NEW r \in BagToSet(underWay), StatusRead(r)
  PROVE  PageInv'
<1>1. /\ r.kind = "status" /\ r.answer \in {"error"} \cup JobStatus /\ Taken(r)
      /\ UNCHANGED available
      /\ says' = IF r.answer = "error" THEN says ELSE r.answer
      /\ IF r.answer \in Settled THEN following' = FALSE /\ buttons' = {"check"}
         ELSE UNCHANGED <<following, buttons>>
  BY PageTypes DEF StatusRead, CameIn, AnswersFit
<1>2. PageTypeOK'
  <2>1. /\ says' \in {"nothing", "checking", "ready", "current", "starting", "error"} \cup JobStatus
        /\ following' \in BOOLEAN /\ buttons' \subseteq {"check", "start"}
    BY <1>1 DEF PageInv, PageTypeOK
  <2>. QED  BY <1>1, <2>1, TakenFacts DEF PageInv, PageTypeOK
<1>3. ASSUME InStep' PROVE OneAboutJob(underWay') /\ SaysFits' /\ ButtonsFit'
  <2>1. InStep /\ OneAboutJob(underWay) /\ SaysFits /\ ButtonsFit
    BY <1>1, <1>3, TakenFacts DEF PageInv, InStep
  <2>2. OneAboutJob(underWay') /\ Checks(underWay')
    BY <1>1, <2>1, TakenFacts
  <2>3. /\ ~UnderWay("status", underWay') /\ ~UnderWay("boot", underWay')
        /\ UnderWay("check", underWay) => UnderWay("check", underWay')
        /\ UnderWay("start", underWay) => UnderWay("start", underWay')
    BY <1>1, <2>2, TakenFacts DEF UnderWay, Checks, Kinds
  <2>4. following
    BY <1>1, <2>1 DEF UnderWay, ButtonsFit
  <2>5. CASE r.answer \in Settled
    BY <1>1, <2>2, <2>3, <2>5 DEF SaysFits, ButtonsFit, Settled
  <2>6. CASE r.answer \notin Settled
    BY <1>1, <2>1, <2>2, <2>3, <2>4, <2>6 DEF SaysFits, ButtonsFit, JobStatus
  <2>. QED  BY <2>2, <2>5, <2>6
<1>. QED  BY <1>1, <1>2, <1>3, TakenFacts DEF PageInv

\* A page as it is opened.
LEMMA OpenedFits ==
  ASSUME NEW B, B = SetToBag({Unanswered("boot")})
  PROVE  /\ IsABag(B) /\ BagToSet(B) \subseteq Request /\ AnswersFit(B) /\ OneAboutJob(B)
         /\ ~UnderWay("status", B) /\ ~UnderWay("check", B) /\ ~UnderWay("start", B)
<1>. DEFINE r == Unanswered("boot")
<1>1. r \in Request /\ r.kind = "boot" /\ r.answer = "none"
  BY DEF Unanswered, Request
<1>. HIDE DEF r
<1>2. IsABag(B) /\ BagToSet(B) = {r} /\ B[r] = 1
  BY DEF r, IsABag, SetToBag, BagToSet
<1>. QED  BY <1>1, <1>2 DEF AnswersFit, OneAboutJob, UnderWay

LEMMA PageStarts == PageInit => PageInv
<1>. SUFFICES ASSUME PageInit PROVE PageInv
  OBVIOUS
<1>1. PageTypeOK
  <2>1. IsABag(underWay) /\ BagToSet(underWay) \subseteq Request
    BY OpenedFits DEF PageInit, Opened
  <2>2. 0 \in 0 .. MaxPanelStarts
    BY PageBoundAssumption
  <2>. QED  BY <2>1, <2>2 DEF PageInit, Opened, PageTypeOK, JobStatus
<1>. QED  BY <1>1, OpenedFits DEF PageInit, Opened, PageInv, SaysFits, ButtonsFit

LEMMA ReloadStep ==
  ASSUME PageInv, Reload
  PROVE  PageInv'
<1>1. /\ underWay' = SetToBag({Unanswered("boot")}) /\ session' = "page"
      /\ following' = FALSE /\ available' = FALSE /\ buttons' = {"check"} /\ says' = "nothing"
      /\ overlapped' = FALSE /\ interrupted' = FALSE /\ UNCHANGED <<job, panelStarts>>
  BY DEF Reload
<1>2. PageTypeOK'
  BY <1>1, OpenedFits DEF PageInv, PageTypeOK
<1>. QED  BY <1>1, <1>2, OpenedFits DEF PageInv, SaysFits, ButtonsFit

LEMMA UpdatePageStep == PageInv /\ [PageNext]_pageVars => PageInv'
<1>. SUFFICES ASSUME PageInv, [PageNext]_pageVars PROVE PageInv'
  OBVIOUS
<1>1. CASE ClickCheck
  BY <1>1, PageTypes, CheckSent DEF ClickCheck, PageInv
<1>2. CASE UNCHANGED pageVars
  BY <1>2 DEF pageVars, PageInv, InStep, PageTypeOK, SaysFits, ButtonsFit
<1>. QED  BY <1>1, <1>2, PanelStep, StartStepOfPage, PollStep, ReloadStep, ServeStep, BootedStep,
             CheckedStep, StartedStep, StatusReadStep DEF PageNext

(***************************************************************************)
(* The inductive invariant of the update page: unless two requests about   *)
(* the job were under way at once, or a check was sent while a poll was    *)
(* out, there is one request about the job at most; what the page says is  *)
(* under way is so, or it polls; and a button that is off is switched on   *)
(* again by an answer still to come.                                       *)
(***************************************************************************)
THEOREM PageInvariant == PageSpec => []PageInv
<1>. QED  BY PageStarts, UpdatePageStep, PTL DEF PageSpec

(***************************************************************************)
(* For any number of requests under way and of restarts of the panel: a    *)
(* page on which nothing more will happen does not claim that something    *)
(* still does, and lets its user check, unless two of its requests about   *)
(* the job overlapped or a check of its user overtook a poll.              *)
(***************************************************************************)
THEOREM PageIsNotLeft == PageSpec => []PageFollows
<1>1. PageInv => PageFollows
  <2>. SUFFICES ASSUME PageInv, Quiet, InStep
                PROVE  says \notin {"checking", "starting", "running"} /\ "check" \in buttons
    BY DEF PageInv, PageFollows, InStep
  <2>1. BagToSet(underWay) = {}
    BY DEF Quiet, EmptyBag, SetToBag, BagToSet
  <2>2. ~UnderWay("check", underWay) /\ ~UnderWay("start", underWay)
    BY <2>1 DEF UnderWay
  <2>. QED  BY <2>2 DEF Quiet, PageInv, SaysFits, ButtonsFit
<1>. QED  BY <1>1, PageInvariant, PTL
=============================================================================
