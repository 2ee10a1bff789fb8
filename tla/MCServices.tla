----------------------------- MODULE MCServices -----------------------------
(***************************************************************************)
(* Small instances of the services around an agent, checked together.      *)
(* They share no variable, so any behaviour of all of them is a behaviour  *)
(* of each: `focus`, chosen at the start, is the one that moves, and TLC   *)
(* explores the sum of the four state spaces instead of their product.     *)
(***************************************************************************)
EXTENDS ProcessMonitor, Vault, RateLimit, Connection

CONSTANTS h1, h2, t1, u1, u2, g1, g2

VARIABLE focus

MCChecks == {h1, h2}
MCTabs == {t1}
MCUnlocks == {u1, u2}
MCGets == {g1, g2}
\* A day that rolls with four instants and a burst window of two.
MCWindows == {[size |-> 4, limit |-> 3], [size |-> 2, limit |-> 2]}
MCCosts == {1, 2}

servicesVars == <<focus, monVars, vaultVars, limitVars, connVars>>

ServicesTypeOK == MonTypeOK /\ VaultTypeOK /\ LimitTypeOK /\ ConnTypeOK

ServicesInit ==
  /\ focus \in {"monitor", "vault", "limit", "connection"}
  /\ MonInit /\ VaultInit /\ LimitInit /\ ConnInit

ServicesNext ==
  /\ UNCHANGED focus
  /\ \/ focus = "monitor" /\ MonNext /\ UNCHANGED <<vaultVars, limitVars, connVars>>
     \/ focus = "vault" /\ VaultNext /\ UNCHANGED <<monVars, limitVars, connVars>>
     \/ focus = "limit" /\ LimitNext /\ UNCHANGED <<monVars, vaultVars, connVars>>
     \/ focus = "connection" /\ ConnNext /\ UNCHANGED <<monVars, vaultVars, limitVars>>

ServicesSpec ==
  /\ ServicesInit /\ [][ServicesNext]_servicesVars
  /\ MonFairness /\ VaultFairness /\ ConnFairness
=============================================================================
