---------------------------- MODULE MCDashboard ----------------------------
(***************************************************************************)
(* Dashboard for TLC: the statistics change twice, and up to three         *)
(* fetches are in flight, enough for the answers of three polls to be      *)
(* served and delivered in every order.                                    *)
(***************************************************************************)
EXTENDS Dashboard
=============================================================================
