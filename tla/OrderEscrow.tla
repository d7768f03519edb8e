---------------------------- MODULE OrderEscrow ----------------------------
(***************************************************************************)
(* What the order engine promises about funds.  Opening an order moves an   *)
(* amount out of its owner's free balance into an escrow of its own.  The   *)
(* escrow never changes while the order is open and ends exactly once: its  *)
(* whole amount goes back to the owner, or it is given up and the owner     *)
(* receives some amount of another asset.  An order that fills at once does *)
(* both in one step.  Nobody else's balance is touched.                     *)
(***************************************************************************)
EXTENDS Integers

CONSTANTS
    Users, Assets, OrderIds, InitialBalance, Nil,
    Amounts   \* the amounts an order may hold or bring in

VARIABLES
    free,    \* what each user can spend of each asset
    escrow,  \* what each open order holds
    ended    \* the orders that were opened and are over

vars == <<free, escrow, ended>>

\* An order that was never opened.
New(id) == escrow[id] = Nil /\ id \notin ended

Init ==
    /\ free = [u \in Users |-> [a \in Assets |-> InitialBalance]]
    /\ escrow = [id \in OrderIds |-> Nil]
    /\ ended = {}

Open(id, u, a, amount) ==
    /\ New(id)
    /\ free[u][a] >= amount
    /\ free' = [free EXCEPT ![u][a] = @ - amount]
    /\ escrow' = [escrow EXCEPT ![id] = [owner |-> u, asset |-> a, amount |-> amount]]
    /\ UNCHANGED ended

Release(id) ==
    /\ escrow[id] # Nil
    /\ free' = [free EXCEPT ![escrow[id].owner][escrow[id].asset] = @ + escrow[id].amount]
    /\ escrow' = [escrow EXCEPT ![id] = Nil]
    /\ ended' = ended \cup {id}

Exchange(id, received, gain) ==
    /\ escrow[id] # Nil
    /\ received # escrow[id].asset
    /\ free' = [free EXCEPT ![escrow[id].owner][received] = @ + gain]
    /\ escrow' = [escrow EXCEPT ![id] = Nil]
    /\ ended' = ended \cup {id}

\* Open and Exchange in one transaction: a MARKET order.
ExchangeNow(id, u, a, amount, received, gain) ==
    /\ New(id)
    /\ received # a
    /\ free[u][a] >= amount
    /\ free' = [free EXCEPT ![u][a] = @ - amount, ![u][received] = @ + gain]
    /\ ended' = ended \cup {id}
    /\ UNCHANGED escrow

Next ==
    \E id \in OrderIds :
        \/ Release(id)
        \/ \E r \in Assets, gain \in Amounts : Exchange(id, r, gain)
        \/ \E u \in Users, a \in Assets, amount \in Amounts :
              \/ Open(id, u, a, amount)
              \/ \E r \in Assets, gain \in Amounts : ExchangeNow(id, u, a, amount, r, gain)

Spec == Init /\ [][Next]_vars
=============================================================================
