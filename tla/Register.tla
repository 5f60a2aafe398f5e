------------------------------- MODULE Register -------------------------------
(***************************************************************************)
(* What a till promises, whatever it is made of: the cart changes one line *)
(* at a time or is cleared, a ticket is the cart as it was submitted, one  *)
(* ticket is out at a time, and a ticket that is recorded is recorded      *)
(* once and takes the cart with it.  PointOfSale is shown to implement it. *)
(***************************************************************************)
EXTENDS Naturals

CONSTANT Products   \* the products on sale

VARIABLES
    cart,           \* how many units of each product are in the cart
    ticket,         \* the cart that was submitted, or EmptyCart
    recorded        \* how many units of each product have been recorded as sold

vars == <<cart, ticket, recorded>>

EmptyCart == [p \in Products |-> 0]

Init == cart = EmptyCart /\ ticket = EmptyCart /\ recorded = EmptyCart

\* One line of the cart gains a unit, loses a unit, or goes.
Edit(p) ==
    /\ \E q \in {cart[p] + 1, 0} \cup {n \in {cart[p] - 1} : cart[p] > 0} :
          cart' = [cart EXCEPT ![p] = q]
    /\ UNCHANGED <<ticket, recorded>>

Clear == cart' = EmptyCart /\ UNCHANGED <<ticket, recorded>>

\* Only a cart that is not empty is submitted, and only one at a time.
Submit == /\ ticket = EmptyCart
          /\ cart # EmptyCart
          /\ ticket' = cart
          /\ UNCHANGED <<cart, recorded>>

\* The cart is gone with the ticket, and with it what was added meanwhile.
Record == /\ ticket # EmptyCart
          /\ recorded' = [p \in Products |-> recorded[p] + ticket[p]]
          /\ cart' = EmptyCart
          /\ ticket' = EmptyCart

Refuse == /\ ticket # EmptyCart
          /\ ticket' = EmptyCart
          /\ UNCHANGED <<cart, recorded>>

Next == (\E p \in Products : Edit(p)) \/ Clear \/ Submit \/ Record \/ Refuse

Spec == Init /\ [][Next]_vars
=============================================================================
