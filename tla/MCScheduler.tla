---------------------------- MODULE MCScheduler ----------------------------
(***************************************************************************)
(* Instances of Scheduler for TLC.  The jobs of a wheel share nothing but  *)
(* their idempotency keys, so the runs take the jobs two at a time: one    *)
(* job of each policy without a key (MCScheduler.cfg), then two jobs that  *)
(* share a key (MCSchedulerKeys.cfg).                                      *)
(***************************************************************************)
EXTENDS Scheduler

CONSTANTS
  replay,     \* cron, backfill, no key
  reminder,   \* one-shot, once, no key
  digest,     \* cron, once, key k1
  nudge,      \* one-shot, once, key k1
  k1

MCMatches == [j \in Jobs |-> IF j = replay THEN {1, 2, 3}
                            ELSE IF j = digest THEN {1, 2} ELSE {}]
MCRunAt   == [j \in Jobs |-> 1]
MCKey     == [j \in Jobs |-> IF j \in {digest, nudge} THEN k1 ELSE NoKey]
MCPolicy  == [j \in Jobs |-> IF j = replay THEN "backfill" ELSE "once"]

=============================================================================
