---------------------------- MODULE P2PExchange ----------------------------
(***************************************************************************)
(* The exchange between users: a sell offer puts VITCoin into escrow, an   *)
(* order takes a part of an offer and goes pending, payment_sent, and      *)
(* completed or disputed.  These are the handlers of p2p_routes.py, which  *)
(* the application mounts instead of the older ones of the wallet's routes.*)
(***************************************************************************)
EXTENDS WalletOps

Own(s) == Copy(session[s], Row(s))

(* A handler that loads the row of the request first.                      *)
LoadRow(s) ==
    /\ session[s].pc = "start"
    /\ Args(s).op \in {"cancel_offer", "create_order", "confirm", "release",
                       "dispute"}
    /\ IF table[Row(s)] = Absent
       THEN Refuse(s)
       ELSE Query(s, Load(session[s], Row(s)), "row")

(* A sell offer escrows its amount, a buy offer nothing.                   *)
CreateOffer(s) ==
    /\ At(s, "create_offer", "loaded")
    /\ LET a == Args(s)
           offer == [user |-> a.user, type |-> a.type, status |-> "active",
                     total |-> a.amount, available |-> a.amount,
                     escrowed |-> IF a.type = "sell" THEN a.amount ELSE 0]
       IN IF a.type = "buy"
          THEN Commit(s, Insert(session[s], a.row, offer))
          ELSE IF Balance(s, "vit") < a.amount
          THEN Refuse(s)
          ELSE Commit(s, Insert(Add(session[s], W(a.user), "vit", -a.amount),
                                a.row, offer))

(* The status is flushed by the query for the wallet.                      *)
CancelOffer(s) ==
    /\ At(s, "cancel_offer", "row")
    /\ LET k == Set(session[s], Row(s), [status |-> "cancelled"]) IN
       IF Own(s).status \notin {"active", "paused"}
       THEN Refuse(s)
       ELSE IF Own(s).type = "sell" /\ Own(s).escrowed > 0
            THEN Query(s, Load(k, W(Own(s).user)), "wallet")
            ELSE Commit(s, k)

\* Mutant: the amounts of the offer are left as they are.
RefundTwice(s) ==
    /\ At(s, "cancel_offer", "wallet")
    /\ Commit(s, Pay(Add(session[s], W(Own(s).user), "vit", Own(s).escrowed), Row(s)))

(* The whole escrow is given back, also what open orders were promised.    *)
RefundEscrow(s) ==
    /\ At(s, "cancel_offer", "wallet")
    /\ Commit(s, Pay(Set(Add(session[s], W(Own(s).user), "vit", Own(s).escrowed),
                         Row(s), [escrowed |-> 0]), Row(s)))

(* The two sides of an order of n by the session's user.                   *)
NewOrder(s, n) ==
    LET sell == Own(s).type = "sell" IN
    [offer |-> Row(s), amount |-> n, status |-> "pending",
     escrowed |-> IF sell THEN 0 ELSE n,
     buyer |-> IF sell THEN Args(s).user ELSE Own(s).user,
     seller |-> IF sell THEN Own(s).user ELSE Args(s).user]

\* Mutant: the availability is not reduced.
OrderedFree(s, k) == Commit(s, Insert(k, Args(s).order, NewOrder(s, Args(s).amount)))

Ordered(s, k) ==
    LET n == Args(s).amount IN
    Commit(s, Insert(Add(k, Row(s), "available", -n), Args(s).order, NewOrder(s, n)))

(* Who sells to a buy offer puts the amount into escrow with the order.    *)
CreateOrder(s) ==
    \/ /\ At(s, "create_order", "row")
       /\ LET a == Args(s) offer == Own(s) IN
          IF offer.status # "active" \/ offer.user = a.user \/ a.amount > offer.available
          THEN Refuse(s)
          ELSE IF offer.type = "sell"
          THEN Ordered(s, session[s])
          ELSE Query(s, Load(session[s], Wallet(s)), "taker")
    \/ /\ At(s, "create_order", "taker")
       /\ IF Balance(s, "vit") < Args(s).amount
          THEN Refuse(s)
          ELSE Ordered(s, Add(session[s], Wallet(s), "vit", -Args(s).amount))

ConfirmPayment(s) ==
    /\ At(s, "confirm", "row")
    /\ IF Own(s).status # "pending"
       THEN Refuse(s)
       ELSE Commit(s, Set(session[s], Row(s), [status |-> "payment_sent"]))

(* The buyer is paid; the escrow of a sell offer is not touched.           *)
ReleaseLoad(s) ==
    /\ At(s, "release", "row")
    /\ IF Own(s).status # "payment_sent"
       THEN Refuse(s)
       ELSE Query(s, Load(session[s], W(Own(s).buyer)), "wallet")

Release(s) ==
    /\ At(s, "release", "wallet")
    /\ Commit(s, Pay(Set(Add(session[s], W(Own(s).buyer), "vit", Own(s).amount),
                         Row(s), [status |-> "completed"]), Row(s)))

\* Mutant: a completed order may still be disputed.
DisputeClosed(s) ==
    /\ At(s, "dispute", "row")
    /\ IF Own(s).status = "cancelled"
       THEN Refuse(s)
       ELSE Commit(s, Set(session[s], Row(s), [status |-> "disputed"]))

Dispute(s) ==
    /\ At(s, "dispute", "row")
    /\ IF Own(s).status \in {"completed", "cancelled"}
       THEN Refuse(s)
       ELSE Commit(s, Set(session[s], Row(s), [status |-> "disputed"]))

ExchangeRequests ==
    {"create_offer", "cancel_offer", "create_order", "confirm",
     "release", "dispute"}

ExchangeStep(s) ==
    /\ Args(s).op \in ExchangeRequests
    /\ \/ LoadRow(s) \/ CreateOffer(s) \/ CancelOffer(s) \/ RefundEscrow(s)
       \/ CreateOrder(s) \/ ConfirmPayment(s) \/ ReleaseLoad(s) \/ Release(s)
       \/ Dispute(s)
=============================================================================
