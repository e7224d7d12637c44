-------------------------- MODULE MCFeedConnection --------------------------
(* The instance of FeedConnection that TLC checks.                         *)
EXTENDS FeedConnection

\* The number of a socket or timer is its age; only the ends of calls remain.
MCBaseDelay == 1
MCMaxDelay == 4
=============================================================================
