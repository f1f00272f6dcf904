--------------------------- MODULE RechargePromise --------------------------
(***************************************************************************)
(* Recharge against the promise it makes (PaymentPromise).  Calls that     *)
(* follow one another keep it, however often they are repeated and however *)
(* many of them die half-way; calls that overlap do not.                   *)
(***************************************************************************)
EXTENDS Recharge

Stage(i) ==
    CASE order[i].status = "none"                      -> "new"
      [] order[i].status = "PENDING" /\ ~order[i].paid -> "open"
      [] order[i].status = "PENDING" /\ order[i].paid  ->
             IF InFlight(i) = {} THEN "paid" ELSE "quoted"
      [] order[i].status = "SUCCESS"                   -> "settled"

\* What the transaction running for an order has read of its package.
Quoted(i) == IF InFlight(i) = {} THEN 0 ELSE call[CHOOSE c \in InFlight(i) : TRUE].credits

Promise == INSTANCE PaymentPromise WITH
    stage    <- [i \in Orders |-> Stage(i)],
    buyer    <- [i \in Orders |-> order[i].org],
    item     <- [i \in Orders |-> order[i].package],
    offer    <- [p \in Packages |-> Worth(p)],
    quote    <- [i \in Orders |-> Quoted(i)],
    received <- [o \in Orgs |-> journal[o].credit],
    Amounts  <- Offers \cup {0}

\* Every step of Recharge is a step of the promise or none: an order is
\* credited when, and only when, it becomes settled, and then with what its
\* own package was worth when the transaction that settles it read the order,
\* whatever the administration makes of the package meanwhile (an unlimited
\* plan is worth nothing).  This is about verifyPayment and the webhook for
\* the same order.
KeepsPromise == Promise!Spec
=============================================================================
