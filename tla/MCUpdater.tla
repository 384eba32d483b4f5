------------------------------ MODULE MCUpdater ------------------------------
(* Model-checking instances of Updater.                                    *)
EXTENDS Updater, TLC
=============================================================================
