--------------------------- MODULE DeliveryPolicy ---------------------------
(***************************************************************************)
(* The quotas of one tenant and SMTP account at one domain of recipients   *)
(* (src/src/deliveryPolicy.js).  A runner of the worker asks before each   *)
(* attempt (src/src/worker.js), which is counted by the rows that it       *)
(* writes once it is over (src/src/operationalStore.js): the attempts that *)
(* are under way are in no count.  The runners may be of several processes *)
(* that share the store.                                                   *)
(***************************************************************************)
EXTENDS Naturals, FiniteSets

CONSTANTS
  Runner,
  DomainLimit,     \* perMinute, perHour, perDay of the domain's policy; 0: no limit
  AccountLimit,    \* those that the policy of the account has
  MaxRecipients,   \* how many recipients of the domain one mail has at most
  MaxHooks         \* bound of the model

Window == {"minute", "hour", "day"}

ASSUME PolicyAssumption ==
  /\ IsFiniteSet(Runner) /\ {MaxRecipients, MaxHooks} \subseteq Nat
  /\ DomainLimit \in [Window -> Nat]
  /\ \E own \in SUBSET Window : AccountLimit \in [own -> Nat]

VARIABLES
  runner,    \* what each runner is at
  tried,     \* in each window: the rows of attempts, one for each recipient
  again,     \* the rows of attempts that are recorded a second time
  hooked,    \* the rows that the bounce webhook has added
  hooks      \* how many bounces came by webhook, for the bound

quotaVars == <<runner, tried, again, hooked, hooks>>

Counts == [Window -> Nat]
QuotaTypeOK ==
  /\ runner \in [Runner -> {"idle", "sending", "recorded"}]
  /\ tried \in Counts /\ again \in Counts /\ hooked \in Counts
  /\ hooks \in Nat

QuotaInit ==
  /\ runner = [r \in Runner |-> "idle"]
  /\ tried = [w \in Window |-> 0] /\ again = [w \in Window |-> 0] /\ hooked = [w \in Window |-> 0]
  /\ hooks = 0

-----------------------------------------------------------------------------
\* The policy of the domain, with what the account says instead.
Limit ==
  [w \in Window |-> IF w \in DOMAIN AccountLimit THEN AccountLimit[w] ELSE DomainLimit[w]]

\* countDeliveryEvents: what is sent, failed, bounced and retrying in a window.
Count(w) == tried[w] + again[w] + hooked[w]

\* Mutant: the limit itself is still below the limit.
PermittedUpTo == \A w \in Window : Limit[w] = 0 \/ Count(w) <= Limit[w]

\* checkSendPermission.
Permitted == \A w \in Window : Limit[w] = 0 \/ Count(w) < Limit[w]

\* recordDeliveryEvent: a row for each recipient, which is in all windows.
Recorded(f, n) == [w \in Window |-> f[w] + n]

Goto(r, step) == runner' = [runner EXCEPT ![r] = step]

Attempt(r) ==
  /\ runner[r] = "idle" /\ Permitted
  /\ Goto(r, "sending")
  /\ UNCHANGED <<tried, again, hooked, hooks>>

\* The row of a deferral does not count.
Deferred(r) ==
  /\ runner[r] = "idle" /\ ~Permitted
  /\ UNCHANGED quotaVars

\* The mail is sent, has failed for good, or is tried again, later, after
\* another check.
Over(r) ==
  /\ runner[r] = "sending"
  /\ \E n \in 0 .. MaxRecipients : tried' = Recorded(tried, n)
  /\ Goto(r, "idle")
  /\ UNCHANGED <<again, hooked, hooks>>

\* A hard bounce is recorded as bounced and, the dead letter written, as failed;
\* a mail that was sent, but whose rows could not all be written, goes on as
\* one that failed, and is recorded as retrying or failed, too.
RecordedOnce(r) ==
  /\ runner[r] = "sending"
  /\ \E n \in 0 .. MaxRecipients : tried' = Recorded(tried, n)
  /\ Goto(r, "recorded")
  /\ UNCHANGED <<again, hooked, hooks>>

RecordedAgain(r) ==
  /\ runner[r] = "recorded"
  /\ \E n \in 0 .. MaxRecipients : again' = Recorded(again, n)
  /\ Goto(r, "idle")
  /\ UNCHANGED <<tried, hooked, hooks>>

\* The process dies, or a row cannot be written.
Lost(r) ==
  /\ runner[r] # "idle"
  /\ Goto(r, "idle")
  /\ UNCHANGED <<tried, again, hooked, hooks>>

\* handleBounceWebhook, for a hard bounce that names the account.
BounceWebhook ==
  /\ hooks < MaxHooks /\ hooks' = hooks + 1
  /\ hooked' = Recorded(hooked, 1)
  /\ UNCHANGED <<runner, tried, again>>

\* The oldest row of a window leaves it, and the shorter windows before.
Shorter(w) == CASE w = "minute" -> {} [] w = "hour" -> {"minute"} [] w = "day" -> {"hour"}
Oldest(f, w) == f[w] > 0 /\ \A v \in Shorter(w) : f[w] > f[v]
Expired(f, w) == [f EXCEPT ![w] = @ - 1]

TriedExpires(w) == Oldest(tried, w) /\ tried' = Expired(tried, w) /\ UNCHANGED <<runner, again, hooked, hooks>>
AgainExpires(w) == Oldest(again, w) /\ again' = Expired(again, w) /\ UNCHANGED <<runner, tried, hooked, hooks>>
HookedExpires(w) == Oldest(hooked, w) /\ hooked' = Expired(hooked, w) /\ UNCHANGED <<runner, tried, again, hooks>>

QuotaNext ==
  \/ \E r \in Runner :
       Attempt(r) \/ Deferred(r) \/ Over(r) \/ RecordedOnce(r) \/ RecordedAgain(r) \/ Lost(r)
  \/ \E w \in Window : TriedExpires(w) \/ AgainExpires(w) \/ HookedExpires(w)
  \/ BounceWebhook

QuotaSpec == QuotaInit /\ [][QuotaNext]_quotaVars
-----------------------------------------------------------------------------
Sending == {r \in Runner : runner[r] = "sending"}

(***************************************************************************)
(* A quota is checked before an attempt and counted after it, so runners   *)
(* that check at the same moment overshoot it, but by no more than what    *)
(* all of them can have under way: in each window that is limited, however *)
(* attempts, bounces, deaths and the ends of the windows interleave, the   *)
(* recipients tried, with those that the attempts under way may add, are   *)
(* fewer than the limit and the recipients of one mail for every runner.   *)
(***************************************************************************)
QuotaOvershoot ==
  \A w \in Window :
    Limit[w] # 0 =>
      tried[w] + MaxRecipients * Cardinality(Sending)
        < Limit[w] + MaxRecipients * Cardinality(Runner)
=============================================================================
