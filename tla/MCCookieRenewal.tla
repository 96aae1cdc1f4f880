-------------------------- MODULE MCCookieRenewal --------------------------
(* The instance of CookieRenewal for TLC.                                  *)
EXTENDS CookieRenewal

\* The scheduler by itself, with a crash; a login or an edit against renewals
\* and merges; the session's refresh against restarts and failed calls.
MCScenarios ==
    {{"scan", "crash"}, {"login", "manual"}, {"update", "manual", "merge"},
     {"restart", "refresh", "report"}, {"login", "refresh", "merge", "restart"},
     {"manual", "report"}}
=============================================================================
