----------------------------- MODULE Settlement -----------------------------
(***************************************************************************)
(* What the escrow promises the two parties of a sale, without contracts,  *)
(* calls or claims: the token and the principal change hands together, or  *)
(* both go back, each of them once, and the pot holds exactly the          *)
(* principals that nobody has collected yet.                               *)
(***************************************************************************)
EXTENDS Naturals

CONSTANTS Deals, Prices

VARIABLES
    deals,  \* where the token and the principal of every deal are
    pot     \* principals not yet collected

NoDeal == [token |-> "none", money |-> "none", price |-> 0]

Init == deals = [d \in Deals |-> NoDeal] /\ pot = 0

Move(d, token, money) ==
    deals' = [deals EXCEPT ![d].token = token, ![d].money = money]

Offer(d, p) ==
    /\ deals[d] = NoDeal
    /\ deals' = [deals EXCEPT ![d] = [token |-> "held", money |-> "none", price |-> p]]
    /\ UNCHANGED pot

Pay(d) ==
    /\ deals[d].token = "held" /\ deals[d].money = "none"
    /\ Move(d, "held", "held")
    /\ pot' = pot + deals[d].price

Exchange(d) ==
    /\ deals[d].money = "held"
    /\ Move(d, "delivered", "dueToSeller")
    /\ UNCHANGED pot

CallOff(d) ==
    /\ deals[d].token = "held" /\ deals[d].money = "none"
    /\ Move(d, "dueToSeller", "none")
    /\ UNCHANGED pot

GiveUp(d) ==
    /\ deals[d].money = "held"
    /\ Move(d, "dueToSeller", "dueToBuyer")
    /\ UNCHANGED pot

Collect(d) ==
    /\ \/ deals[d].money = "dueToSeller" /\ Move(d, deals[d].token, "paidToSeller")
       \/ deals[d].money = "dueToBuyer" /\ Move(d, deals[d].token, "paidToBuyer")
    /\ pot' = pot - deals[d].price

TakeBack(d) ==
    /\ deals[d].token = "dueToSeller"
    /\ Move(d, "returned", deals[d].money)
    /\ UNCHANGED pot

Next == \E d \in Deals :
    \/ \E p \in Prices : Offer(d, p)
    \/ Pay(d) \/ Exchange(d) \/ CallOff(d) \/ GiveUp(d) \/ Collect(d) \/ TakeBack(d)

Spec == Init /\ [][Next]_<<deals, pot>>
=============================================================================
