----------------------------- MODULE MCWebPanel -----------------------------
(***************************************************************************)
(* The parts of the web panel, side by side: they share no state, so each  *)
(* behaviour is one of one part, which the initial state picks, and the    *)
(* run has the sum of their states instead of the product.                 *)
(***************************************************************************)
EXTENDS WebAuth, UpdateJob, SmtpVault, AppSettings, UpdatePage, TLC

VARIABLE part

MCOwner == [t \in Tab |-> IF t = "t3" THEN "b2" ELSE "b1"]
MCDot == [k \in Key |-> IF k = "secret" THEN 1 ELSE 3]
\* The list does not offer 3; of a text, 3 is another spelling of 1, and 2 is unfit.
MCOption == [k \in Select |-> {1, 2}]
MCFirst == [k \in Select |-> 1]
MCNeat ==
  [k \in Key \ Select |->
     [v \in Value |-> IF k \in Masked \/ v = 1 THEN v ELSE IF v = 3 THEN 1 ELSE Unfit]]

panelVars == <<authVars, lockVars, jobVars, vaultVars, settingsVars, pageVars, part>>

Init ==
  /\ part \in {"auth", "job", "vault", "settings", "page"}
  /\ AuthInit /\ JobInit /\ VaultInit /\ SettingsInit /\ PageInit

Next ==
  /\ \/ part = "auth" /\ AuthNext /\ UNCHANGED <<jobVars, vaultVars, settingsVars, pageVars>>
     \/ part = "job" /\ JobNext
        /\ UNCHANGED <<authVars, lockVars, vaultVars, settingsVars, pageVars>>
     \/ part = "vault" /\ VaultNext
        /\ UNCHANGED <<authVars, lockVars, jobVars, settingsVars, pageVars>>
     \/ part = "settings" /\ SettingsNext
        /\ UNCHANGED <<authVars, lockVars, jobVars, vaultVars, pageVars>>
     \/ part = "page" /\ PageNext
        /\ UNCHANGED <<authVars, lockVars, jobVars, vaultVars, settingsVars>>
  /\ UNCHANGED part

Tick ==
  part = "auth" /\ AuthTick /\ UNCHANGED <<jobVars, vaultVars, settingsVars, pageVars, part>>

Spec == Init /\ [][Next]_panelVars /\ WF_panelVars(Tick)
=============================================================================
