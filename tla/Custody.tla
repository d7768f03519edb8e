------------------------------ MODULE Custody ------------------------------
(***************************************************************************)
(* A BTC wallet row and the coins behind it: deposits, credited by the      *)
(* poller (src/services/btcDepositPoller.js), and withdrawals, paid from    *)
(* the outputs at the user's own deposit address                            *)
(* (src/services/btcWithdrawalService.js) to any address, a deposit address *)
(* of this or another user included.  Change goes back to the sender's      *)
(* deposit address.  The poller finds both there.                           *)
(*                                                                          *)
(* The chain counts satoshi, a wallet counts PerSat-ths of one.  The poller *)
(* credits what it has seen confirmed, at any later time: how its polls     *)
(* overlap and fail is AddressPoller's matter.  A withdrawal whose broadcast *)
(* is answered by an error is refunded, also if the node took it; what else *)
(* a withdrawal may die of is OnchainWithdrawal's matter.                   *)
(***************************************************************************)
EXTENDS Deposits, CoinSelection, SequencesExt

CONSTANTS
    Withdrawals,  \* requests ever made (bounds the runs)
    Values,       \* what a deposit may bring, in satoshi
    Amounts,      \* what a request may name, in PerSat-ths of a satoshi
    FeeRates,     \* what fetchFeeRate may answer
    Listings(_),  \* the orders an API may list a set of outputs in
    PerSat,       \* how finely the wallet's column divides a satoshi
    MaxChain,     \* transactions ever sent (bounds the runs)
    Outside,      \* an address that is nobody's deposit address
    None          \* no request, or no transaction

\* A transaction's outputs, in the order of psbt.addOutput: 0 goes to the payee, 1 is the
\* change.  An output is named by its transaction and its place there, as an input does.
Places == {0, 1}

ASSUME CustodyAssumption ==
    /\ Values \subseteq Nat \ {0} /\ Amounts \subseteq Nat \ {0} /\ FeeRates \subseteq Nat
    /\ PerSat \in Nat \ {0} /\ MaxChain \in Nat /\ Txs = 1..MaxChain
    /\ IsFiniteSet(Withdrawals) /\ None \notin Txs /\ Outside \notin Users
    /\ \A outputs \in SUBSET (Txs \X Places) : Listings(outputs) \subseteq SetToSeqs(outputs)

VARIABLES
    chain,      \* the chain: transactions that concern the addresses, oldest first
    withdrawal  \* the handler of each request

custodyVars == <<depositVars, chain, withdrawal>>

\* A transaction pays what its outputs say (0: there is no such output) out of those it
\* spends, and the miner gets the fee.  No withdrawal sent those that spend nothing here.
Transactions ==
    [out : [Places -> [to : Users \cup {Outside}, value : Nat]], fee : Nat,
     ins : SUBSET (Txs \X Places), state : {"unconfirmed", "confirmed", "gone"}]

\* held: taken from the wallet and not given back.  listed: what the address had
\* when the handler asked.  tx: the transaction it sent.
Handlers ==
    [user : Users, dest : Users \cup {Outside}, amount : Amounts, held : BOOLEAN,
     listed : Seq(Txs \X Places), feeRate : FeeRates \cup {0}, tx : Txs \cup {None},
     pc : {"list", "broadcast", "refund", "done", "failed"}]

ASSUME HandlersAssumption == None \notin Handlers

CustodyTypeOK ==
    /\ balance \in [Users -> Int]
    /\ chain \in Seq(Transactions)
    /\ withdrawal \in [Withdrawals -> Handlers \cup {None}]

CustodyInit ==
    /\ balance = [u \in Users |-> 0] /\ credits = {} /\ addresses = Users
    /\ chain = <<>>
    /\ withdrawal = [w \in Withdrawals |-> None]

-----------------------------------------------------------------------------
(* The chain.                                                               *)

Outputs  == (DOMAIN chain) \X Places
Payee(o) == chain[o[1]].out[o[2]].to
Value(o) == chain[o[1]].out[o[2]].value
Worth(outputs) == SumFunctionOnSet([o \in Outputs |-> Value(o)], outputs)

Valid(i)   == chain[i].state # "gone"
Spent(o)   == \E j \in DOMAIN chain : Valid(j) /\ o \in chain[j].ins
Unspent(u) == {o \in Outputs : Payee(o) = u /\ Value(o) > 0 /\ Valid(o[1]) /\ ~Spent(o)}

\* The outputs of a payment of `value` to `to` whose `change` goes back to `from`.
Outs(to, value, from, change) ==
    [place \in Places |-> IF place = 0 THEN [to |-> to, value |-> value]
                                       ELSE [to |-> from, value |-> change]]

\* Somebody outside pays u.
PayTo(u, value) ==
    /\ Len(chain) < MaxChain
    /\ chain' = Append(chain, [out |-> Outs(u, value, Outside, 0), fee |-> 0, ins |-> {},
                               state |-> "unconfirmed"])
    /\ UNCHANGED <<depositVars, withdrawal>>

\* A transaction is mined once those it spends are.
Confirm(i) ==
    /\ chain[i].state = "unconfirmed"
    /\ \A o \in chain[i].ins : chain[o[1]].state = "confirmed"
    /\ chain' = [chain EXCEPT ![i].state = "confirmed"]
    /\ UNCHANGED <<depositVars, withdrawal>>

\* A deposit is replaced by another transaction of its sender, and whatever spends
\* it goes with it, and so on: one set `gone` does, as only older outputs are spent.
Vanish(i) ==
    /\ chain[i].state = "unconfirmed" /\ chain[i].ins = {}
    /\ \E gone \in SUBSET DOMAIN chain :
          /\ gone = {j \in DOMAIN chain : j = i \/ \E o \in chain[j].ins : o[1] \in gone}
          /\ chain' = [j \in DOMAIN chain |->
                          IF j \in gone THEN [chain[j] EXCEPT !.state = "gone"] ELSE chain[j]]
    /\ UNCHANGED <<depositVars, withdrawal>>

-----------------------------------------------------------------------------
(* The poller.                                                              *)

\* What a confirmed transaction pays u's address, whoever sent it: in one row, of which
\* there is one for each transaction.
Received(u, i) == {o \in Outputs : o[1] = i /\ Payee(o) = u}

CreditReceived(u, i) ==
    /\ chain[i].state = "confirmed" /\ Worth(Received(u, i)) > 0
    /\ CreditDeposit(u, i, PerSat * Worth(Received(u, i)))
    /\ UNCHANGED <<chain, withdrawal>>

-----------------------------------------------------------------------------
(* withdrawBtc.                                                             *)

At(w, pc) == withdrawal[w] # None /\ withdrawal[w].pc = pc

\* Math.round(numericAmount * 1e8).  (Mutant: the fraction is cut off.)
SatsCutOff(amount) == amount \div PerSat
Sats(amount)       == (2 * amount + PerSat) \div (2 * PerSat)

Deduct(w, u, dest, amount) ==
    /\ withdrawal[w] = None
    /\ balance[u] >= amount
    /\ balance' = [balance EXCEPT ![u] = @ - amount]
    /\ withdrawal' = [withdrawal EXCEPT ![w] =
            [user |-> u, dest |-> dest, amount |-> amount, held |-> TRUE,
             listed |-> <<>>, feeRate |-> 0, tx |-> None, pc |-> "list"]]
    /\ UNCHANGED <<credits, addresses, chain>>

\* What the handler makes of the outputs listed.
Plan(w) ==
    Withdrawal([k \in DOMAIN withdrawal[w].listed |-> Value(withdrawal[w].listed[k])],
              Sats(withdrawal[w].amount), withdrawal[w].feeRate)

Inputs(w) == {withdrawal[w].listed[k] : k \in 1..Plan(w).inputs}

\* The address's outputs, confirmed or not, and the fee rate.
ListOutputs(w, feeRate) ==
    /\ At(w, "list")
    /\ \E listed \in Listings(Unspent(withdrawal[w].user)) :
          withdrawal' = [withdrawal EXCEPT ![w].listed = listed, ![w].feeRate = feeRate,
                                           ![w].pc = "broadcast"]
    /\ UNCHANGED <<depositVars, chain>>

\* The selection covers amount and fee, it is not empty (finalizeAllInputs), and the
\* node takes the transaction: nothing else has spent its inputs meanwhile.  The handler
\* is done, or goes on to the refund when the answer is lost.
Broadcast(w, next) ==
    /\ At(w, "broadcast")
    /\ Plan(w).ok
    /\ Inputs(w) # {} /\ Inputs(w) \subseteq Unspent(withdrawal[w].user)
    /\ Len(chain) < MaxChain
    /\ chain' = Append(chain,
            [out |-> Outs(withdrawal[w].dest, Sats(withdrawal[w].amount),
                          withdrawal[w].user, Plan(w).change),
             fee |-> Plan(w).paid, ins |-> Inputs(w), state |-> "unconfirmed"])
    /\ withdrawal' = [withdrawal EXCEPT ![w].tx = Len(chain) + 1, ![w].pc = next]
    /\ UNCHANGED depositVars

\* An API does not answer, the outputs do not suffice, or the node refuses.
Fails(w) ==
    /\ At(w, "list") \/ At(w, "broadcast")
    /\ withdrawal' = [withdrawal EXCEPT ![w].listed = <<>>, ![w].feeRate = 0, ![w].pc = "refund"]
    /\ UNCHANGED <<depositVars, chain>>

Refund(w) ==
    /\ At(w, "refund")
    /\ balance' = [balance EXCEPT ![withdrawal[w].user] = @ + withdrawal[w].amount]
    /\ withdrawal' = [withdrawal EXCEPT ![w].held = FALSE, ![w].pc = "failed"]
    /\ UNCHANGED <<credits, addresses, chain>>

CustodyNext ==
    \/ \E u \in Users, value \in Values : PayTo(u, value)
    \/ \E i \in DOMAIN chain : Confirm(i) \/ Vanish(i) \/ \E u \in Users : CreditReceived(u, i)
    \/ \E w \in Withdrawals :
          \/ \E u \in Users, dest \in Users \cup {Outside}, amount \in Amounts : Deduct(w, u, dest, amount)
          \/ \E feeRate \in FeeRates : ListOutputs(w, feeRate)
          \/ \E next \in {"done", "refund"} : Broadcast(w, next)
          \/ Fails(w) \/ Refund(w)

CustodySpec == CustodyInit /\ [][CustodyNext]_custodyVars

-----------------------------------------------------------------------------
(* Properties.                                                              *)

Sent(w) == withdrawal[w] # None /\ withdrawal[w].tx # None

\* A withdrawal spends what it pays out, keeps and gives the miner, and the miner
\* gets what a transaction of that many inputs needs and less than a dust output
\* more: no change is lost or made up, whatever was listed.
GoesAheadSoundly ==
    \A w \in Withdrawals : Sent(w) =>
        LET tx     == chain[withdrawal[w].tx]
            needed == Fee(Cardinality(tx.ins), withdrawal[w].feeRate)
        IN  /\ Worth(tx.ins) = tx.out[0].value + tx.out[1].value + tx.fee
            /\ needed <= tx.fee /\ tx.fee <= needed + Dust

\* No input is spent needlessly: the outputs listed before the last one taken do
\* not cover amount and fee.
NoNeedlessInput ==
    \A w \in Withdrawals : Sent(w) =>
        LET tx     == chain[withdrawal[w].tx]
            listed == withdrawal[w].listed
        IN  \A n \in 1..(Cardinality(tx.ins) - 1) :
                Worth({listed[k] : k \in 1..n}) < tx.out[0].value + Fee(n, withdrawal[w].feeRate)

\* What the wallets say is what the addresses hold, but for: payments that await their
\* credit, for good if their transaction was credited to another user before (a withdrawal
\* to a user's address pays that user and, its change, the sender: one row for two);
\* withdrawals that have no transaction (yet, or because a deposit they spent has
\* vanished) and are not refunded; fees, which no wallet is charged; change, which the
\* poller credits as if it were a deposit; refunds of what was sent, its answer having
\* been lost; and half a satoshi at most for each withdrawal.
BooksMatchChain ==
    \A u \in Users :
        LET his         == {w \in Withdrawals : withdrawal[w] # None /\ withdrawal[w].user = u}
            paying      == {w \in his : Sent(w) /\ Valid(withdrawal[w].tx)}
            holding     == {w \in his \ paying : withdrawal[w].held}
            returned    == {w \in paying : ~withdrawal[w].held}
            held        == SumFunction([w \in holding |-> withdrawal[w].amount])
            givenBack   == SumFunction([w \in returned |-> withdrawal[w].amount])
            payments    == {o \in Outputs : Payee(o) = u /\ o[2] = 0 /\ Valid(o[1])}
            change      == {o \in Outputs : Payee(o) = u /\ o[2] = 1}
            awaited     == Worth({o \in payments : ~Credited(u, o[1])})
            changeTwice == Worth({o \in change : Credited(u, o[1])})
            fees        == SumFunction([w \in paying |-> chain[withdrawal[w].tx].fee])
            off         == balance[u] + held - givenBack
                             - PerSat * (Worth(Unspent(u)) - awaited + changeTwice + fees)
        IN  /\ -(PerSat * Cardinality(paying)) <= 2 * off
            /\ 2 * off <= PerSat * Cardinality(paying)
=============================================================================
