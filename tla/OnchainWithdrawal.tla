------------------------- MODULE OnchainWithdrawal -------------------------
(***************************************************************************)
(* Withdrawals to a blockchain (src/services/{tron,eth,btc}Withdrawal-      *)
(* Service.js, dispatched by src/routes/deposit.js).                        *)
(*                                                                          *)
(* A withdrawal touches two ledgers that no transaction spans: it takes the *)
(* amount from the wallet and commits, builds and broadcasts a transaction, *)
(* for ETH waits until it is mined, and gives the amount back if any of     *)
(* that throws.  The blockchain goes its own way: what it has accepted it   *)
(* mines or drops later, whether or not its answer reached the service.     *)
(***************************************************************************)
EXTENDS Integers, FiniteSets, Functions

CONSTANTS
    Users,
    Withdrawals,      \* requests ever made (bounds the runs)
    Chains,           \* chains withdrawals go to
    Amounts,          \* amounts a request may name
    InitialBalance,   \* what every wallet holds at the start
    Faults,           \* what may go wrong: see AllFaults
    Nil               \* a request not made yet

SupportedChains == {"ETH", "TRON", "BTC"}

AllFaults == {"answer",     \* an answer of the chain's node is lost
              "commit",     \* the answer to the deduction's COMMIT is lost
              "refund",     \* the refund's query fails
              "crash"}      \* the process dies

ASSUME WithdrawalAssumption ==
    /\ Chains \subseteq SupportedChains /\ Faults \subseteq AllFaults
    /\ Amounts \subseteq Nat \ {0} /\ InitialBalance \in Nat
    /\ IsFiniteSet(Withdrawals)

VARIABLES
    balance,      \* wallets.balance of the asset each chain pays out
    withdrawal    \* the handler of each request, and its transaction on the chain

withdrawalVars == <<balance, withdrawal>>

\* pc: where the handler is; "unpaid" when its refund failed.  held: taken from the
\* wallet and not given back.  tx: the transaction, as the chain sees it.
\* unheard: the handler went on without the chain's answer (for the properties).
Requests == [user : Users, chain : Chains, amount : Amounts,
             held : BOOLEAN, unheard : BOOLEAN,
             pc : {"send", "wait", "refund", "done", "failed", "unpaid", "dead"},
             tx : {"none", "accepted", "mined", "reverted", "dropped"}]

ASSUME NilAssumption == Nil \notin Requests

WithdrawalTypeOK ==
    /\ balance \in [Users -> [Chains -> Nat]]
    /\ withdrawal \in [Withdrawals -> Requests \cup {Nil}]

Init ==
    /\ balance = [u \in Users |-> [c \in Chains |-> InitialBalance]]
    /\ withdrawal = [w \in Withdrawals |-> Nil]

At(w, pc) == withdrawal[w] # Nil /\ withdrawal[w].pc = pc

\* The balance under FOR UPDATE.  (Mutant: read before the lock was taken.)
CoversUnlocked(u, c, amount) == TRUE
Covers(u, c, amount)         == balance[u][c] >= amount

\* The deduction's transaction, after which the handler goes on at `pc`.
Take(w, pc) ==
    /\ withdrawal[w] = Nil
    /\ \E u \in Users, c \in Chains, amount \in Amounts :
          /\ Covers(u, c, amount)
          /\ balance' = [balance EXCEPT ![u][c] = @ - amount]
          /\ withdrawal' = [withdrawal EXCEPT ![w] =
               [user |-> u, chain |-> c, amount |-> amount,
                held |-> TRUE, unheard |-> FALSE, pc |-> pc, tx |-> "none"]]

Deduct(w) == Take(w, "send")

\* COMMIT took effect, but its answer is lost: `deducted` stays false and the
\* error goes to the caller.
DeductUnanswered(w) == "commit" \in Faults /\ Take(w, "failed")

GoTo(w, pc, tx) ==
    /\ withdrawal' = [withdrawal EXCEPT ![w].pc = pc, ![w].tx = tx]
    /\ UNCHANGED balance

\* Nothing left the address: no funds or fee there, no UTXOs, the node refused.
\* (Mutant: an error while building the transaction is only reported.)
AfterRefusalReported == "failed"
AfterRefusal         == "refund"

SendRefused(w) == At(w, "send") /\ GoTo(w, AfterRefusal, "none")

\* Mutant: the ETH transfer counts as sent before it is mined.
AfterSendAtOnce(chain) == "done"

\* TRON and BTC return once the node has the transaction; ETH waits.
AfterSend(chain) == IF chain = "ETH" THEN "wait" ELSE "done"

SendAccepted(w) ==
    At(w, "send") /\ GoTo(w, AfterSend(withdrawal[w].chain), "accepted")

\* The chain's answer does not arrive; the service takes that for a failure.
GoesUnheard(w, tx) ==
    /\ withdrawal' = [withdrawal EXCEPT ![w].pc = "refund", ![w].tx = tx, ![w].unheard = TRUE]
    /\ UNCHANGED balance

\* The node has the transaction, the service gets an error.
SendUnanswered(w) ==
    "answer" \in Faults /\ At(w, "send") /\ GoesUnheard(w, "accepted")

\* tx.wait(1): mined; mined but reverted; or the connection fails meanwhile.  It
\* waits for ever for a transaction that is dropped.
WaitConfirmed(w) == At(w, "wait") /\ withdrawal[w].tx = "mined" /\ GoTo(w, "done", "mined")
WaitReverted(w)  == At(w, "wait") /\ withdrawal[w].tx = "reverted" /\ GoTo(w, "refund", "reverted")
WaitUnanswered(w) ==
    "answer" \in Faults /\ At(w, "wait") /\ GoesUnheard(w, withdrawal[w].tx)

\* The catch block's UPDATE, for the amount the request named.  (Mutant: the
\* wallet is paid back, and the handler tries the transfer again.)
AfterRefundRetry == "send"
AfterRefund      == "failed"

Refund(w) ==
    /\ At(w, "refund")
    /\ balance' = [balance EXCEPT ![withdrawal[w].user][withdrawal[w].chain] = @ + withdrawal[w].amount]
    /\ withdrawal' = [withdrawal EXCEPT ![w].pc = AfterRefund, ![w].held = FALSE]

RefundFails(w) == "refund" \in Faults /\ At(w, "refund") /\ GoTo(w, "unpaid", withdrawal[w].tx)

\* The chain mines what it has accepted, with or without effect, or drops it.
ChainDecides(w) ==
    /\ withdrawal[w] # Nil
    /\ withdrawal[w].tx = "accepted"
    /\ \E tx \in {"mined", "reverted", "dropped"} : GoTo(w, withdrawal[w].pc, tx)

InFlight(w) == \E pc \in {"send", "wait", "refund"} : At(w, pc)

\* The process is gone, and handlers in flight with it; nothing looks for what they
\* left.
HandlersDie ==
    /\ withdrawal' = [w \in Withdrawals |->
         IF InFlight(w) THEN [withdrawal[w] EXCEPT !.pc = "dead"] ELSE withdrawal[w]]
    /\ UNCHANGED balance

Crash == "crash" \in Faults /\ HandlersDie

Handle(w) ==
    \/ SendRefused(w) \/ SendAccepted(w) \/ SendUnanswered(w)
    \/ WaitConfirmed(w) \/ WaitReverted(w) \/ WaitUnanswered(w)
    \/ Refund(w) \/ RefundFails(w)

Next ==
    \/ \E w \in Withdrawals :
          Deduct(w) \/ DeductUnanswered(w) \/ Handle(w) \/ ChainDecides(w)
    \/ Crash

Spec == Init /\ [][Next]_withdrawalVars

\* A handler runs on as long as the process does, and the chain decides in the
\* end about what it has accepted.
FairSpec == Spec /\ \A w \in Withdrawals : /\ WF_withdrawalVars(Handle(w))
                                           /\ WF_withdrawalVars(ChainDecides(w))

-----------------------------------------------------------------------------
(* Properties.                                                              *)

Made(w) == withdrawal[w] # Nil

GivenBackUnsent(w) == ~withdrawal[w].held => withdrawal[w].tx \in {"none", "reverted", "dropped"}

\* Money is not paid out twice: what was given back to the wallet has not left for
\* the chain and cannot leave any more (the catch blocks' premise: "On-chain send
\* failed after the ledger was already deducted", tronWithdrawalService.js:89).
RefundMeansNotSent == \A w \in Withdrawals : Made(w) => GivenBackUnsent(w)

\* The one way to it: as long as the chain's answers arrive, nothing is given back
\* that is out, whatever else fails in whatever order.
HeardRefundsAreUnsent ==
    \A w \in Withdrawals : Made(w) /\ ~withdrawal[w].unheard => GivenBackUnsent(w)

\* What withdrawal w holds of u's wallet for chain c.
HeldBy(w, u, c) ==
    IF Made(w) /\ withdrawal[w].user = u /\ withdrawal[w].chain = c /\ withdrawal[w].held
    THEN withdrawal[w].amount ELSE 0

\* The wallets are short of exactly what withdrawals hold, with every fault, in
\* every interleaving of concurrent withdrawals and refunds.
WalletsMatchWithdrawals ==
    \A u \in Users, c \in Chains :
        balance[u][c] = InitialBalance - SumFunction([w \in Withdrawals |-> HeldBy(w, u, c)])

\* A withdrawal answered with success was paid for and handed to the chain; an ETH
\* withdrawal was even mined.
SuccessMeansSent ==
    \A w \in Withdrawals : At(w, "done") =>
        /\ withdrawal[w].held /\ withdrawal[w].tx # "none"
        /\ withdrawal[w].chain = "ETH" => withdrawal[w].tx = "mined"

\* A deduction ends: the transfer is out, or the amount is back.  Only a process that
\* dies, a refund whose query fails, and the wait for an ETH transaction that the
\* chain dropped leave a user without either.
WithdrawalsSettle ==
    \A w \in Withdrawals :
        At(w, "send") ~> \/ At(w, "done")
                         \/ Made(w) /\ ~withdrawal[w].held
                         \/ At(w, "dead") \/ At(w, "unpaid")
                         \/ At(w, "wait") /\ withdrawal[w].tx = "dropped"
=============================================================================
