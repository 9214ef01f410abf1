------------------------------- MODULE MCWDog -------------------------------
(***************************************************************************)
(* Instances of WDog for TLC: the pool holds two watchdogs, one of them    *)
(* for handlers, and one timer has a static watchdog.                      *)
(***************************************************************************)
EXTENDS WDog, TLC

CONSTANTS poll, posix, s1

OneStatic == (poll :> s1 @@ posix :> NoDog)
=============================================================================
