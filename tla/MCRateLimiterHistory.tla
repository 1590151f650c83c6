------------------------ MODULE MCRateLimiterHistory ------------------------
(* Instances of RateLimiterHistory for TLC.                                *)
EXTENDS RateLimiterHistory

(* One account calls the API, the others do so in bulk: they share the     *)
(* bucket of the address.                                                  *)
SharedJobs ==
    LET first == CHOOSE a \in Accounts : TRUE
    IN {[account |-> a, class |-> "api", priority |-> IF a = first THEN "normal" ELSE "low"] :
          a \in Accounts}
=============================================================================
