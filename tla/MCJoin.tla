------------------------------- MODULE MCJoin -------------------------------
EXTENDS Join

\* The waits for tg_joinsem.
LockWaits == {"joinwait", "retakewait", "detachwait"}
=============================================================================
