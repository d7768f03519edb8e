--------------------------- MODULE AddressPoller ---------------------------
(***************************************************************************)
(* The BTC and TRON deposit pollers (src/services/btcDepositPoller.js,      *)
(* src/services/tronDepositPoller.js): every interval, ask an API for the   *)
(* latest transactions of each stored address and credit the new ones.      *)
(*                                                                          *)
(* setInterval starts a poll whether or not the last one is over, so polls  *)
(* overlap.  A poll works on answers: by the time it credits, the chain and *)
(* the table may have moved on.                                             *)
(***************************************************************************)
EXTENDS Deposits, Sequences

CONSTANTS
    Polls,          \* polls under way at once
    PageSize,       \* transactions an answer lists
    WaitsForConfirmation, \* BTC looks at a transaction's status, TRON does not
    MaxTxs,         \* transactions ever sent (bounds the runs)
    MaxRecipients   \* users one transaction pays

ASSUME AddressPollerAssumption ==
    /\ PageSize \in Nat \ {0} /\ MaxRecipients \in Nat
    /\ WaitsForConfirmation \in BOOLEAN
    /\ MaxTxs \in Nat /\ Txs = 1..MaxTxs

VARIABLES
    txs,    \* the chain: transactions, oldest first
    poll    \* what each poll has to do

pollerVars == <<depositVars, txs, poll>>

Idle == [on |-> FALSE, todo |-> {}, user |-> {}, list |-> {}]

PollerTypeOK ==
    /\ DepositsTypeOK
    /\ txs \in Seq([to : SUBSET Users, state : {"unconfirmed", "confirmed", "gone"}])
    /\ poll \in [Polls -> [on : BOOLEAN, todo : SUBSET Users, user : SUBSET Users, list : SUBSET Txs]]

Init == DepositsInit /\ txs = <<>> /\ poll = [p \in Polls |-> Idle]

-----------------------------------------------------------------------------
(* The chain.  Every transaction pays one unit to each of its recipients.   *)

SendTo(users) ==
    /\ Len(txs) < MaxTxs
    /\ users # {} /\ Cardinality(users) <= MaxRecipients
    /\ txs' = Append(txs, [to |-> users, state |-> "unconfirmed"])
    /\ UNCHANGED <<depositVars, poll>>

\* A transaction is mined, or another one takes its inputs.
Settles(i, state) ==
    /\ txs[i].state = "unconfirmed"
    /\ txs' = [txs EXCEPT ![i].state = state]
    /\ UNCHANGED <<depositVars, poll>>

-----------------------------------------------------------------------------
(* A poll.                                                                  *)

\* SELECT ... FROM deposit_addresses.
StartPoll(p) ==
    /\ ~poll[p].on
    /\ poll' = [poll EXCEPT ![p] = [Idle EXCEPT !.on = TRUE, !.todo = addresses]]
    /\ UNCHANGED <<depositVars, txs>>

\* What an answer lists for u: the newest of his transactions.
Listed(u) ==
    LET his == {i \in DOMAIN txs : u \in txs[i].to /\ txs[i].state # "gone"}
    IN  {i \in his : Cardinality({j \in his : j > i}) < PageSize}

\* Wait for confirmation before crediting.  (Mutant: whatever is listed counts.)
CreditableAtSight(i) == TRUE
Creditable(i)        == WaitsForConfirmation => txs[i].state = "confirmed"

Fetch(p, u) ==
    /\ poll[p].user = {}
    /\ u \in poll[p].todo
    /\ poll' = [poll EXCEPT ![p].todo = @ \ {u}, ![p].user = {u},
                            ![p].list = {i \in Listed(u) : Creditable(i)}]
    /\ UNCHANGED <<depositVars, txs>>

\* The request failed: on to the next address.
FetchFails(p, u) ==
    /\ poll[p].user = {}
    /\ u \in poll[p].todo
    /\ poll' = [poll EXCEPT ![p].todo = @ \ {u}]
    /\ UNCHANGED <<depositVars, txs>>

Credit(p, i) ==
    /\ i \in poll[p].list
    /\ \E u \in poll[p].user : CreditDeposit(u, i, 1)
    /\ poll' = [poll EXCEPT ![p].list = @ \ {i}]
    /\ UNCHANGED txs

\* creditDeposit threw: the rest of this address waits for a later poll.
CreditFails(p) ==
    /\ poll[p].list # {}
    /\ poll' = [poll EXCEPT ![p].list = {}, ![p].user = {}]
    /\ UNCHANGED <<depositVars, txs>>

NextAddress(p) ==
    /\ poll[p].user # {} /\ poll[p].list = {}
    /\ poll' = [poll EXCEPT ![p].user = {}]
    /\ UNCHANGED <<depositVars, txs>>

EndPoll(p) ==
    /\ poll[p].on
    /\ poll[p].todo = {} /\ poll[p].user = {}
    /\ poll' = [poll EXCEPT ![p] = Idle]
    /\ UNCHANGED <<depositVars, txs>>

\* The process dies in the middle of its polls and comes back.
Restart ==
    /\ \E p \in Polls : poll[p].on
    /\ poll' = [p \in Polls |-> Idle]
    /\ UNCHANGED <<depositVars, txs>>

PollGoesOn(p) ==
    \/ StartPoll(p) \/ NextAddress(p) \/ EndPoll(p)
    \/ \E u \in Users : Fetch(p, u)
    \/ \E i \in Txs : Credit(p, i)

PollFails(p) == CreditFails(p) \/ \E u \in Users : FetchFails(p, u)

Next ==
    \/ \E u \in Users : CreateAddress(u) /\ UNCHANGED <<txs, poll>>
    \/ \E users \in SUBSET addresses : SendTo(users)
    \/ \E i \in DOMAIN txs, state \in {"confirmed", "gone"} : Settles(i, state)
    \/ \E p \in Polls : PollGoesOn(p) \/ PollFails(p)
    \/ Restart

Spec == Init /\ [][Next]_pollerVars

\* The interval keeps starting polls, and a poll goes on to its end.
FairSpec == Spec /\ \A p \in Polls : WF_pollerVars(PollGoesOn(p))

-----------------------------------------------------------------------------
(* Properties.                                                              *)

\* Nobody is credited more than the chain has given him, however polls overlap,
\* fail and restart (migrate-wallets.sql:15: "a crashed/restarted poller can't
\* double-credit"), and nothing is credited that never confirmed.  (With
\* WaitsForConfirmation: for TRON it rests with the API what is listed.)
NoUnbackedCredit ==
    \A u \in Users :
        balance[u] <= Cardinality({i \in DOMAIN txs : u \in txs[i].to /\ txs[i].state = "confirmed"})

\* A step in which a poll loses work.  (The end of the last poll under way looks
\* like a restart.)
Interruption ==
    \/ \E p \in Polls : PollFails(p)
    \/ Restart /\ ~ \E p \in Polls : EndPoll(p)

\* Every stored address is watched for deposits, which are credited automatically
\* (index.js:29): once failures are over, whatever has confirmed is credited, if the
\* transaction pays nobody else (the table credits its first recipient only) and the
\* page lists it until a poll comes.
DepositsGetCredited ==
    <>[][~Interruption]_pollerVars =>
        \A i \in Txs, u \in Users :
            (/\ i \in DOMAIN txs /\ txs[i].to = {u} /\ txs[i].state = "confirmed"
             /\ i \in Listed(u))
                ~> (Credited(u, i) \/ i \notin Listed(u))
=============================================================================
