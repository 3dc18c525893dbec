-------------------------- MODULE MCManagerFactory -------------------------
(***************************************************************************)
(* An instance of ManagerFactory for TLC: two accounts, so that one call   *)
(* can hit and another miss, and three threads.                            *)
(***************************************************************************)
EXTENDS ManagerFactory

CONSTANTS w1, w2, w3, i1, i2

MCThreads == {w1, w2, w3}
MCRmIds == {i1, i2}
=============================================================================
