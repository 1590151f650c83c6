---------------------------- MODULE RateContract ----------------------------
(***************************************************************************)
(* What the rate limiter promises (net/rate-limiter.ts): however the calls *)
(* of several accounts interleave, in every window of t milliseconds a     *)
(* ceiling lets through at most its burst plus t times its rate.           *)
(*                                                                         *)
(* The promise is a meter per ceiling.  It rises by one request's worth    *)
(* when a request leaves, drains at the ceiling's rate, and may never      *)
(* exceed the ceiling's burst.  The meter is the maximum, over all windows *)
(* that end now, of what left in the window less what the window allows at *)
(* the sustained rate: that it stays below the burst is the bound above.   *)
(***************************************************************************)
EXTENDS Naturals

CONSTANTS
    Ceilings,      \* one per account, one for the address, one for files
    Charges,       \* the sets of ceilings one request may be charged to
    One,           \* what one request costs
    Rates,         \* what each ceiling drains in a millisecond
    Caps           \* what each ceiling holds

VARIABLE load

Init == load = [b \in Ceilings |-> 0]

Depart(B) ==
    /\ \A b \in B : load[b] + One <= Caps[b]
    /\ load' = [b \in Ceilings |-> IF b \in B THEN load[b] + One ELSE load[b]]

Drain ==
    load' = [b \in Ceilings |->
                IF load[b] > Rates[b] THEN load[b] - Rates[b] ELSE 0]

Next == Drain \/ \E B \in Charges : Depart(B)

Spec == Init /\ [][Next]_load
=============================================================================
