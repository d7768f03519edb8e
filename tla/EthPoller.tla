----------------------------- MODULE EthPoller -----------------------------
(***************************************************************************)
(* The ETH deposit poller (src/services/ethDepositPoller.js): every         *)
(* interval, ask the node for the transfers to each stored address in the   *)
(* blocks that are new since lastCheckedBlock, and credit them.             *)
(*                                                                          *)
(* lastCheckedBlock lives in memory and is shared by polls that overlap:    *)
(* each reads it before it asks the node and sets it when it is through.    *)
(* (The names are other than AddressPoller's: DepositsProofs extends both.) *)
(***************************************************************************)
EXTENDS Deposits

CONSTANTS
    EthPolls,   \* polls under way at once
    Lookback,   \* how far behind the tip a first run starts
    MaxTip,     \* the chain's length (bounds the runs)
    Failures,   \* whether requests to the node and credits may fail
    Restarts,   \* whether the process may die
    Nil         \* lastCheckedBlock before the first run

ASSUME EthPollerAssumption ==
    /\ Lookback \in Nat /\ MaxTip \in Nat /\ Nil \notin Nat
    /\ Failures \in BOOLEAN /\ Restarts \in BOOLEAN

VARIABLES
    tip,          \* number of the latest block
    block,        \* the block and the receiver of each transaction, Nil before
    lastChecked,  \* lastCheckedBlock
    watched,      \* the first block the running process is to look at
    lost,         \* transfers whose turn ended in an error (for the properties)
    ethPoll       \* what each poll has to do

ethVars == <<depositVars, tip, block, lastChecked, watched, lost, ethPoll>>

EthIdle == [pc |-> "idle", from |-> 0, to |-> 0, todo |-> {}, user |-> {}, list |-> {}]

EthTypeOK ==
    /\ DepositsTypeOK
    /\ tip \in 0..MaxTip
    /\ block \in [Txs -> [at : 1..MaxTip, user : Users] \cup {Nil}]
    /\ lastChecked \in 0..MaxTip \cup {Nil}
    /\ watched \in 1..(MaxTip + 1) \cup {Nil}
    /\ lost \subseteq Txs
    /\ ethPoll \in [EthPolls -> [pc : {"idle", "tip", "addresses", "fetch", "credit"},
                                 from : 0..(MaxTip + 1), to : 0..MaxTip,
                                 todo : SUBSET Users, user : SUBSET Users, list : SUBSET Txs]]

EthInit ==
    /\ DepositsInit
    /\ tip = 0
    /\ block = [t \in Txs |-> Nil]
    /\ lastChecked = Nil /\ watched = Nil /\ lost = {}
    /\ ethPoll = [p \in EthPolls |-> EthIdle]

-----------------------------------------------------------------------------
(* The chain: a block holds any of the transfers not yet in one.            *)

Mine ==
    /\ tip < MaxTip
    /\ tip' = tip + 1
    /\ \E new \in SUBSET {t \in Txs : block[t] = Nil} :
          \E to \in [new -> addresses] :
             block' = [t \in Txs |-> IF t \in new THEN [at |-> tip', user |-> to[t]] ELSE block[t]]
    /\ UNCHANGED <<depositVars, lastChecked, watched, lost, ethPoll>>

-----------------------------------------------------------------------------
(* A poll.                                                                  *)

\* provider.getBlockNumber(), asked by a poll that starts.
ReadTip(p) ==
    /\ ethPoll[p].pc = "idle"
    /\ ethPoll' = [ethPoll EXCEPT ![p] = [EthIdle EXCEPT !.pc = "tip", !.to = tip]]
    /\ UNCHANGED <<depositVars, tip, block, lastChecked, watched, lost>>

\* Where a first run starts.
FirstChecked(to) == IF to > Lookback THEN to - Lookback ELSE 0

\* From the answer to the SELECT of the addresses: the window of this poll.
ChooseWindow(p) ==
    /\ ethPoll[p].pc = "tip"
    /\ LET checked == IF lastChecked = Nil THEN FirstChecked(ethPoll[p].to) ELSE lastChecked
       IN  /\ lastChecked' = checked
           /\ watched' = IF lastChecked = Nil THEN checked + 1 ELSE watched
           /\ ethPoll' = [ethPoll EXCEPT ![p] = IF ethPoll[p].to <= checked THEN EthIdle
                               ELSE [@ EXCEPT !.pc = "addresses", !.from = checked + 1]]
    /\ UNCHANGED <<depositVars, tip, block, lost>>

ReadAddresses(p) ==
    /\ ethPoll[p].pc = "addresses"
    /\ ethPoll' = [ethPoll EXCEPT ![p].pc = "fetch", ![p].todo = addresses]
    /\ UNCHANGED <<depositVars, tip, block, lastChecked, watched, lost>>

InWindow(p, u) ==
    {t \in Txs : /\ block[t] # Nil
                 /\ block[t].user = u
                 /\ ethPoll[p].from <= block[t].at /\ block[t].at <= ethPoll[p].to}

FetchTransfers(p, u) ==
    /\ ethPoll[p].pc = "fetch"
    /\ u \in ethPoll[p].todo
    /\ ethPoll' = [ethPoll EXCEPT ![p].pc = "credit", ![p].todo = @ \ {u},
                                  ![p].user = {u}, ![p].list = InWindow(p, u)]
    /\ UNCHANGED <<depositVars, tip, block, lastChecked, watched, lost>>

\* The request failed: the error is logged, and the next address is asked for.
FetchTransfersFails(p, u) ==
    /\ Failures
    /\ ethPoll[p].pc = "fetch"
    /\ u \in ethPoll[p].todo
    /\ ethPoll' = [ethPoll EXCEPT ![p].todo = @ \ {u}]
    /\ lost' = lost \cup InWindow(p, u)
    /\ UNCHANGED <<depositVars, tip, block, lastChecked, watched>>

CreditTransfer(p, t) ==
    /\ ethPoll[p].pc = "credit"
    /\ t \in ethPoll[p].list
    /\ \E u \in ethPoll[p].user : CreditDeposit(u, t, 1)
    /\ ethPoll' = [ethPoll EXCEPT ![p].list = @ \ {t}]
    /\ UNCHANGED <<tip, block, lastChecked, watched, lost>>

\* A credit failed, or all are done: on to the next address.
NextEthAddress(p) ==
    /\ ethPoll[p].pc = "credit"
    /\ ethPoll[p].list = {} \/ Failures
    /\ lost' = lost \cup ethPoll[p].list
    /\ ethPoll' = [ethPoll EXCEPT ![p] = [@ EXCEPT !.pc = "fetch", !.user = {}, !.list = {}]]
    /\ UNCHANGED <<depositVars, tip, block, lastChecked, watched>>

\* Where the cursor goes.  (Mutant: to the chain's tip by now.)
CursorAtTip(p) == tip
Cursor(p)      == ethPoll[p].to

EndEthPoll(p) ==
    /\ ethPoll[p].pc = "fetch" /\ ethPoll[p].todo = {}
    /\ lastChecked' = Cursor(p)
    /\ ethPoll' = [ethPoll EXCEPT ![p] = EthIdle]
    /\ UNCHANGED <<depositVars, tip, block, watched, lost>>

\* getBlockNumber or the SELECT failed: the poll ends and leaves the cursor alone.
EthPollFails(p) ==
    /\ Failures
    /\ ethPoll[p].pc \in {"tip", "addresses"}
    /\ ethPoll' = [ethPoll EXCEPT ![p] = EthIdle]
    /\ UNCHANGED <<depositVars, tip, block, lastChecked, watched, lost>>

\* The process dies and comes back; its cursor is gone with it.
EthRestart ==
    /\ Restarts
    /\ lastChecked' = Nil /\ watched' = Nil
    /\ ethPoll' = [p \in EthPolls |-> EthIdle]
    /\ UNCHANGED <<depositVars, tip, block, lost>>

EthNext ==
    \/ \E u \in Users : CreateAddress(u) /\ UNCHANGED <<tip, block, lastChecked, watched, lost, ethPoll>>
    \/ Mine
    \/ \E p \in EthPolls :
          \/ ReadTip(p) \/ ChooseWindow(p) \/ ReadAddresses(p) \/ NextEthAddress(p)
          \/ EndEthPoll(p) \/ EthPollFails(p)
          \/ \E u \in Users : FetchTransfers(p, u) \/ FetchTransfersFails(p, u)
          \/ \E t \in Txs : CreditTransfer(p, t)
    \/ EthRestart

EthSpec == EthInit /\ [][EthNext]_ethVars

-----------------------------------------------------------------------------
(* Properties.                                                              *)

InChain(t) == block[t] # Nil

\* Nobody is credited more than the chain has paid him, though windows overlap
\* whenever polls do and after every restart.
NoUnbackedEthCredit ==
    \A u \in Users : balance[u] <= Cardinality({t \in Txs : InChain(t) /\ block[t].user = u})

\* Behind the cursor, since the process started to watch, and not credited.
Passed ==
    {t \in Txs : /\ lastChecked # Nil /\ InChain(t)
                 /\ watched <= block[t].at /\ block[t].at <= lastChecked
                 /\ ~Credited(block[t].user, t)}

\* The cursor never passes a transfer: every transfer in the blocks behind it is
\* credited (index.js:33, "Same idea": deposits are credited automatically).
CursorPassesNothing == Passed = {}

\* The one way past: an error ended the turn of an address.  Addresses created and
\* blocks mined in the middle of polls that overlap, the cursor of a slow poll that
\* moves back behind that of a fast one, polls that end early and restarts lose
\* nothing the process has begun to watch.
OnlyErrorsPass == Passed \subseteq lost
=============================================================================
