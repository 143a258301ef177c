----------------------------- MODULE MCTeamAccess -----------------------------
(* Two roles, one of them on all legal entities, and two tabs.             *)
EXTENDS TeamAccess
==============================================================================
