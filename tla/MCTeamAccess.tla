---------------------------- MODULE MCTeamAccess ----------------------------
(* Two teams, one user, one or two providers, an edit that races a check.     *)
EXTENDS TeamAccess, TLC

CONSTANTS s, t, u, p, q, e1, e2, c
=============================================================================
