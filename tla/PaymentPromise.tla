--------------------------- MODULE PaymentPromise ---------------------------
(***************************************************************************)
(* What recharging promises a customer, without calls, locks or webhooks:  *)
(* an order for a package is opened and paid.  Once it is paid the credits *)
(* the package offers at that moment are put down for it, and settling it, *)
(* once, adds exactly those to the wallet of the organization.  Packages   *)
(* may be edited at any time; a quote may be given up and made again.      *)
(***************************************************************************)
EXTENDS Integers

CONSTANTS Orders, Orgs, Packages, Amounts

VARIABLES
    stage,      \* how far each order has come
    buyer,      \* the organization that opened it
    item,       \* the package it is for
    offer,      \* the credits each package is worth now
    quote,      \* the credits put down for an order being settled
    received    \* credits each organization has received for its orders

promiseVars == <<stage, buyer, item, offer, quote, received>>

Stages == {"new", "open", "paid", "quoted", "settled"}

Init ==
    /\ stage = [i \in Orders |-> "new"]
    /\ buyer \in [Orders -> Orgs]
    /\ item \in [Orders -> Packages]
    /\ offer \in [Packages -> Amounts]
    /\ quote = [i \in Orders |-> 0]
    /\ received = [o \in Orgs |-> 0]

Edit(p, n) ==
    /\ offer' = [offer EXCEPT ![p] = n]
    /\ UNCHANGED <<stage, buyer, item, quote, received>>

Open(i, o, p) ==
    /\ stage[i] = "new"
    /\ stage' = [stage EXCEPT ![i] = "open"]
    /\ buyer' = [buyer EXCEPT ![i] = o]
    /\ item' = [item EXCEPT ![i] = p]
    /\ UNCHANGED <<offer, quote, received>>

Pay(i) ==
    /\ stage[i] = "open"
    /\ stage' = [stage EXCEPT ![i] = "paid"]
    /\ UNCHANGED <<buyer, item, offer, quote, received>>

Quote(i) ==
    /\ stage[i] = "paid"
    /\ stage' = [stage EXCEPT ![i] = "quoted"]
    /\ quote' = [quote EXCEPT ![i] = offer[item[i]]]
    /\ UNCHANGED <<buyer, item, offer, received>>

GiveUp(i) ==
    /\ stage[i] = "quoted"
    /\ stage' = [stage EXCEPT ![i] = "paid"]
    /\ quote' = [quote EXCEPT ![i] = 0]
    /\ UNCHANGED <<buyer, item, offer, received>>

Settle(i) ==
    /\ stage[i] = "quoted"
    /\ stage' = [stage EXCEPT ![i] = "settled"]
    /\ quote' = [quote EXCEPT ![i] = 0]
    /\ received' = [received EXCEPT ![buyer[i]] = @ + quote[i]]
    /\ UNCHANGED <<buyer, item, offer>>

Next ==
    \/ \E p \in Packages, n \in Amounts : Edit(p, n)
    \/ \E i \in Orders :
          \/ \E o \in Orgs, p \in Packages : Open(i, o, p)
          \/ Pay(i)
          \/ Quote(i)
          \/ GiveUp(i)
          \/ Settle(i)

Spec == Init /\ [][Next]_promiseVars
=============================================================================
