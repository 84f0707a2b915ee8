--------------------------- MODULE MCHubLifecycle ---------------------------
(* Values for model checking HubLifecycle: an autostart list of one row.     *)
EXTENDS HubLifecycle

CONSTANTS h1, h2, m1, p1, p2

OneEager == <<m1>>
=============================================================================
