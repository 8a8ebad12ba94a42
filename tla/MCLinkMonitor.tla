---------------------------- MODULE MCLinkMonitor ---------------------------
(* No interval is configured, so the default applies.  With a unit of 5 s   *)
(* these are the defaults (10 s, 25 s) and answers within 5 s: the tightest *)
(* Rtt for which one lost exchange is survived.                             *)
EXTENDS LinkMonitor

NotSet == -1
=============================================================================
