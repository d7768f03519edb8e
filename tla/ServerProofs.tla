---------------------------- MODULE ServerProofs ----------------------------
(***************************************************************************)
(* Proofs about on-chain withdrawals and the process that runs them.  The   *)
(* process only does to a withdrawal what OnchainWithdrawal allows, so that *)
(* what is proved of OnchainWithdrawal holds of the server.                 *)
(***************************************************************************)
EXTENDS Server, TLAPS

\* Whole amounts: the sums of a ledger that rounds nothing.
INSTANCE LedgerProofs WITH Scale <- 1, Grid <- 1

-----------------------------------------------------------------------------
(* Withdrawals: how far the handler is determines what the wallet is owed    *)
(* and what the chain may know.                                             *)

Refundable == {"none", "reverted", "dropped"}

PcSays(w) ==
    LET r == withdrawal[w]
    IN  /\ r.pc = "send" => r.held /\ ~r.unheard /\ r.tx = "none"
        /\ r.pc = "wait" => r.held /\ ~r.unheard /\ r.tx # "none"
        /\ r.pc = "refund" => r.held /\ (~r.unheard => r.tx \in {"none", "reverted"})
        /\ r.pc = "done" => r.held /\ r.tx # "none" /\ (r.chain = "ETH" => r.tx = "mined")
        /\ ~r.held /\ ~r.unheard => r.tx \in Refundable

WithdrawalInv == WithdrawalTypeOK /\ \A w \in Withdrawals : Made(w) => PcSays(w)

\* Every handler and every transaction starts where the invariant has it.
LEMMA WithdrawalInvInit == Init => WithdrawalInv
BY WithdrawalAssumption DEF Init, WithdrawalInv, WithdrawalTypeOK, Made

\* A step that replaces one withdrawal by a record of its type and leaves balances
\* in their type keeps the invariant, if the record fits.
LEMMA OneWithdrawalStep ==
    ASSUME WithdrawalInv, NEW w \in Withdrawals, NEW r \in Requests,
           withdrawal' = [withdrawal EXCEPT ![w] = r],
           balance' \in [Users -> [Chains -> Nat]],
           withdrawal'[w] = r => PcSays(w)'
    PROVE  WithdrawalInv'
BY DEF WithdrawalInv, WithdrawalTypeOK, Made, PcSays

\* Handlers that go on.
LEMMA GoToStep ==
    ASSUME WithdrawalInv, NEW w \in Withdrawals, Made(w),
           NEW pc \in {"send", "wait", "refund", "done", "failed", "unpaid", "dead"},
           NEW tx \in {"none", "accepted", "mined", "reverted", "dropped"},
           GoTo(w, pc, tx),
           PcSays(w)'
    PROVE  WithdrawalInv'
<1>1. withdrawal[w] \in Requests
  BY DEF WithdrawalInv, WithdrawalTypeOK, Made
<1> DEFINE r == [withdrawal[w] EXCEPT !.pc = pc, !.tx = tx]
<1>2. r \in Requests
  BY <1>1 DEF Requests
<1>3. withdrawal' = [withdrawal EXCEPT ![w] = r]
  BY DEF GoTo, WithdrawalInv, WithdrawalTypeOK
<1>4. balance' \in [Users -> [Chains -> Nat]]
  BY DEF GoTo, WithdrawalInv, WithdrawalTypeOK
<1> QED BY <1>2, <1>3, <1>4, OneWithdrawalStep

LEMMA TakeStep ==
    ASSUME WithdrawalInv, NEW w \in Withdrawals, NEW pc \in {"send", "failed"}, Take(w, pc)
    PROVE  WithdrawalInv'
<1>1. PICK u \in Users, c \in Chains, amount \in Amounts :
          /\ Covers(u, c, amount)
          /\ balance' = [balance EXCEPT ![u][c] = @ - amount]
          /\ withdrawal' = [withdrawal EXCEPT ![w] =
               [user |-> u, chain |-> c, amount |-> amount,
                held |-> TRUE, unheard |-> FALSE, pc |-> pc, tx |-> "none"]]
  BY DEF Take
<1> DEFINE r == [user |-> u, chain |-> c, amount |-> amount,
                 held |-> TRUE, unheard |-> FALSE, pc |-> pc, tx |-> "none"]
<1>2. r \in Requests
  BY DEF Requests
<1>3. balance' \in [Users -> [Chains -> Nat]]
  BY <1>1, WithdrawalAssumption DEF WithdrawalInv, WithdrawalTypeOK, Covers
<1>4. withdrawal'[w] = r => PcSays(w)'
  BY DEF PcSays
<1> QED BY <1>1, <1>2, <1>3, <1>4, OneWithdrawalStep

LEMMA GoesUnheardStep ==
    ASSUME WithdrawalInv, NEW w \in Withdrawals, Made(w), withdrawal[w].held,
           NEW tx \in {"none", "accepted", "mined", "reverted", "dropped"},
           GoesUnheard(w, tx)
    PROVE  WithdrawalInv'
<1> DEFINE r == [withdrawal[w] EXCEPT !.pc = "refund", !.tx = tx, !.unheard = TRUE]
<1>1. withdrawal[w] \in Requests
  BY DEF WithdrawalInv, WithdrawalTypeOK, Made
<1>2. r \in Requests
  BY <1>1 DEF Requests
<1>3. withdrawal' = [withdrawal EXCEPT ![w] = r] /\ balance' = balance
  BY DEF GoesUnheard, WithdrawalInv, WithdrawalTypeOK
<1>4. r.pc = "refund" /\ r.held /\ r.unheard
  BY <1>1 DEF Requests
<1>5. withdrawal'[w] = r => PcSays(w)'
  BY <1>4 DEF PcSays
<1> QED BY <1>2, <1>3, <1>5, OneWithdrawalStep DEF WithdrawalInv, WithdrawalTypeOK

LEMMA RefundStep ==
    ASSUME WithdrawalInv, NEW w \in Withdrawals, Refund(w)
    PROVE  WithdrawalInv'
<1> DEFINE r == [withdrawal[w] EXCEPT !.pc = "failed", !.held = FALSE]
<1>1. withdrawal[w] \in Requests /\ withdrawal[w].pc = "refund"
  BY DEF WithdrawalInv, WithdrawalTypeOK, Refund, At
<1>2. PcSays(w)
  BY DEF WithdrawalInv, Made, Refund, At
<1>3. r \in Requests
  BY <1>1 DEF Requests
<1>4. withdrawal' = [withdrawal EXCEPT ![w] = r]
  BY DEF Refund, AfterRefund, WithdrawalInv, WithdrawalTypeOK
<1>5. balance' \in [Users -> [Chains -> Nat]]
  BY <1>1, WithdrawalAssumption DEF Refund, WithdrawalInv, WithdrawalTypeOK, Requests
<1>6. r.pc = "failed" /\ ~r.held /\ r.tx = withdrawal[w].tx /\ r.unheard = withdrawal[w].unheard
  BY <1>1 DEF Requests
<1>7. withdrawal'[w] = r => PcSays(w)'
  BY <1>1, <1>2, <1>6 DEF PcSays, Refundable
<1> QED BY <1>3, <1>4, <1>5, <1>7, OneWithdrawalStep

\* What GoTo leaves in a withdrawal's record.
LEMMA GoToRecord ==
    ASSUME WithdrawalInv, NEW w \in Withdrawals, Made(w), NEW pc, NEW tx, GoTo(w, pc, tx)
    PROVE  /\ withdrawal'[w].pc = pc /\ withdrawal'[w].tx = tx
           /\ withdrawal'[w].held = withdrawal[w].held
           /\ withdrawal'[w].unheard = withdrawal[w].unheard
           /\ withdrawal'[w].chain = withdrawal[w].chain
BY DEF GoTo, WithdrawalInv, WithdrawalTypeOK, Made, Requests

LEMMA HandleStep ==
    ASSUME WithdrawalInv, NEW w \in Withdrawals, Handle(w)
    PROVE  WithdrawalInv'
<1>1. Made(w) /\ withdrawal[w] \in Requests
  BY DEF Handle, SendRefused, SendAccepted, SendUnanswered, WaitConfirmed, WaitReverted,
         WaitUnanswered, Refund, RefundFails, At, Made, WithdrawalInv, WithdrawalTypeOK
<1>2. PcSays(w)
  BY <1>1 DEF WithdrawalInv
<1>3. CASE SendRefused(w)
  <2>1. GoTo(w, "refund", "none") /\ withdrawal[w].pc = "send"
    BY <1>3 DEF SendRefused, AfterRefusal, At
  <2>2. PcSays(w)'
    BY <1>1, <1>2, <2>1, GoToRecord DEF PcSays, Refundable
  <2> QED BY <1>1, <2>1, <2>2, GoToStep
<1>4. CASE SendAccepted(w)
  <2> DEFINE pc == AfterSend(withdrawal[w].chain)
  <2>1. GoTo(w, pc, "accepted") /\ withdrawal[w].pc = "send" /\ pc \in {"wait", "done"}
    BY <1>4 DEF SendAccepted, AfterSend, At
  <2>2. pc = "done" => withdrawal[w].chain # "ETH"
    BY DEF AfterSend
  <2> HIDE DEF pc
  <2>3. PcSays(w)'
    BY <1>1, <1>2, <2>1, <2>2, GoToRecord DEF PcSays, Refundable
  <2> QED BY <1>1, <2>1, <2>3, GoToStep
<1>5. CASE SendUnanswered(w)
  BY <1>1, <1>2, <1>5, GoesUnheardStep DEF SendUnanswered, At, PcSays
<1>6. CASE WaitConfirmed(w)
  <2>1. GoTo(w, "done", "mined") /\ withdrawal[w].pc = "wait"
    BY <1>6 DEF WaitConfirmed, At
  <2>2. PcSays(w)'
    BY <1>1, <1>2, <2>1, GoToRecord DEF PcSays, Refundable
  <2> QED BY <1>1, <2>1, <2>2, GoToStep
<1>7. CASE WaitReverted(w)
  <2>1. GoTo(w, "refund", "reverted") /\ withdrawal[w].pc = "wait"
    BY <1>7 DEF WaitReverted, At
  <2>2. PcSays(w)'
    BY <1>1, <1>2, <2>1, GoToRecord DEF PcSays, Refundable
  <2> QED BY <1>1, <2>1, <2>2, GoToStep
<1>8. CASE WaitUnanswered(w)
  BY <1>1, <1>2, <1>8, GoesUnheardStep DEF WaitUnanswered, At, PcSays, Requests
<1>9. CASE Refund(w)
  BY <1>9, RefundStep
<1>10. CASE RefundFails(w)
  <2>1. GoTo(w, "unpaid", withdrawal[w].tx) /\ withdrawal[w].pc = "refund"
    BY <1>10 DEF RefundFails, At
  <2>2. PcSays(w)'
    BY <1>1, <1>2, <2>1, GoToRecord DEF PcSays, Refundable
  <2> QED BY <1>1, <2>1, <2>2, GoToStep DEF Requests
<1> QED BY <1>3, <1>4, <1>5, <1>6, <1>7, <1>8, <1>9, <1>10 DEF Handle

LEMMA ChainStep ==
    ASSUME WithdrawalInv, NEW w \in Withdrawals, ChainDecides(w)
    PROVE  WithdrawalInv'
<1>1. Made(w) /\ withdrawal[w] \in Requests /\ withdrawal[w].tx = "accepted"
  BY DEF ChainDecides, Made, WithdrawalInv, WithdrawalTypeOK
<1>2. PICK tx \in {"mined", "reverted", "dropped"} : GoTo(w, withdrawal[w].pc, tx)
  BY DEF ChainDecides
<1>3. PcSays(w)
  BY <1>1 DEF WithdrawalInv
<1>4. PcSays(w)'
  BY <1>1, <1>2, <1>3, GoToRecord DEF PcSays, Refundable
<1> QED BY <1>1, <1>2, <1>4, GoToStep DEF Requests

LEMMA HandlersDieStep ==
    ASSUME WithdrawalInv, HandlersDie
    PROVE  WithdrawalInv'
<1>1. WithdrawalTypeOK'
  <2>1. \A w \in Withdrawals : InFlight(w) =>
            [withdrawal[w] EXCEPT !.pc = "dead"] \in Requests
    BY DEF InFlight, At, WithdrawalInv, WithdrawalTypeOK, Requests
  <2> QED BY <2>1 DEF HandlersDie, WithdrawalInv, WithdrawalTypeOK
<1>2. ASSUME NEW w \in Withdrawals, Made(w)'
      PROVE  PcSays(w)'
  <2>1. CASE InFlight(w)
    <3>1. Made(w) /\ PcSays(w) /\ withdrawal[w] \in Requests
      BY <2>1 DEF InFlight, At, Made, WithdrawalInv, WithdrawalTypeOK
    <3>2. withdrawal'[w] = [withdrawal[w] EXCEPT !.pc = "dead"]
      BY <2>1 DEF HandlersDie
    <3>3. withdrawal'[w].pc = "dead" /\ withdrawal'[w].held
      BY <2>1, <3>1, <3>2 DEF InFlight, At, PcSays, Requests
    <3> QED BY <3>3 DEF PcSays
  <2>2. CASE ~InFlight(w)
    <3>1. withdrawal'[w] = withdrawal[w]
      BY <2>2 DEF HandlersDie
    <3> QED BY <1>2, <3>1 DEF WithdrawalInv, Made, PcSays
  <2> QED BY <2>1, <2>2
<1> QED BY <1>1, <1>2 DEF WithdrawalInv

LEMMA WithdrawalInvNext == WithdrawalInv /\ [Next]_withdrawalVars => WithdrawalInv'
<1> SUFFICES ASSUME WithdrawalInv, [Next]_withdrawalVars PROVE WithdrawalInv'
  OBVIOUS
<1>1. ASSUME NEW w \in Withdrawals, Deduct(w) \/ DeductUnanswered(w) PROVE WithdrawalInv'
  BY <1>1, TakeStep DEF Deduct, DeductUnanswered
<1>2. ASSUME NEW w \in Withdrawals, Handle(w) PROVE WithdrawalInv'
  BY <1>2, HandleStep
<1>3. ASSUME NEW w \in Withdrawals, ChainDecides(w) PROVE WithdrawalInv'
  BY <1>3, ChainStep
<1>4. CASE Crash
  BY <1>4, HandlersDieStep DEF Crash
<1>5. CASE UNCHANGED withdrawalVars
  BY <1>5 DEF withdrawalVars, WithdrawalInv, WithdrawalTypeOK, Made, PcSays
<1> QED BY <1>1, <1>2, <1>3, <1>4, <1>5 DEF Next

LEMMA WithdrawalInvImplies ==
    WithdrawalInv => WithdrawalTypeOK /\ SuccessMeansSent /\ HeardRefundsAreUnsent
<1> SUFFICES ASSUME WithdrawalInv PROVE SuccessMeansSent /\ HeardRefundsAreUnsent
  BY DEF WithdrawalInv
<1>1. SuccessMeansSent
  BY DEF WithdrawalInv, SuccessMeansSent, At, Made, PcSays
<1>2. HeardRefundsAreUnsent
  BY DEF WithdrawalInv, HeardRefundsAreUnsent, GivenBackUnsent, Made, PcSays, Refundable
<1> QED BY <1>1, <1>2

-----------------------------------------------------------------------------
(* The server does to withdrawals what OnchainWithdrawal allows.            *)

Faulty == {"crash", "refund"} \subseteq Faults

\* Exits kill handlers, and the ended pool refuses refunds: both are faults there.
LEMMA ServerStep ==
    ASSUME ServerNext
    PROVE  \/ [Next]_withdrawalVars
           \/ HandlersDie
           \/ \E w \in Withdrawals : At(w, "refund") /\ GoTo(w, "unpaid", withdrawal[w].tx)
<1>1. ASSUME NEW w \in Withdrawals, TakeRequest(w) \/ ChainGoesOn(w) PROVE Next
  BY <1>1 DEF TakeRequest, ChainGoesOn, Next
<1>2. ASSUME NEW w \in Withdrawals, HandlerGoesOn(w)
      PROVE  Next \/ (At(w, "refund") /\ GoTo(w, "unpaid", withdrawal[w].tx))
  BY <1>2 DEF HandlerGoesOn, Next
<1>3. ASSUME NEW w \in Withdrawals, HangUp(w) PROVE UNCHANGED withdrawalVars
  BY <1>3 DEF HangUp
<1>4. ASSUME TickStarts \/ TickWants \/ TickGoesOn PROVE UNCHANGED withdrawalVars
  BY <1>4 DEF TickStarts, TickWants, TickGoesOn, TickGets, TickFilled, TickEnds, TickTimesOut, Move
<1>5. ASSUME SocketOpens \/ SocketLeaves \/ SocketCloses PROVE UNCHANGED withdrawalVars
  BY <1>5 DEF SocketOpens, SocketLeaves, SocketCloses, SocketBecomes
<1>6. ASSUME Shutdown PROVE UNCHANGED withdrawalVars \/ HandlersDie
  BY <1>6 DEF Shutdown, Signal, HttpCloses, PoolEnds, ForceExit, Kill, Start, Exit
<1> QED BY <1>1, <1>2, <1>3, <1>4, <1>5, <1>6, ServerNext DEF ServerNext

\* The server implements the withdrawals' specification: whatever the process, its
\* shutdown, the pool and the feed do, the wallets and the chain see the handlers of
\* OnchainWithdrawal, with crashes and refunds that fail.
THEOREM ServerImplementsWithdrawals ==
    ASSUME Faulty
    PROVE  ServerSpec => Spec
<1>1. ServerInit => Init
  BY DEF ServerInit
<1>2. [ServerNext]_serverVars => [Next]_withdrawalVars
  <2> SUFFICES ASSUME [ServerNext]_serverVars PROVE [Next]_withdrawalVars
    OBVIOUS
  <2>1. CASE UNCHANGED serverVars
    BY <2>1 DEF serverVars
  <2>2. CASE HandlersDie
    BY <2>2 DEF Next, Crash, Faulty
  <2>3. ASSUME NEW w \in Withdrawals, At(w, "refund"), GoTo(w, "unpaid", withdrawal[w].tx)
        PROVE  Next
    <3>1. RefundFails(w)
      BY <2>3 DEF RefundFails, Faulty
    <3> QED BY <3>1 DEF Next, Handle
  <2> QED BY <2>1, <2>2, <2>3, ServerStep
<1> QED BY <1>1, <1>2, PTL DEF ServerSpec, Spec

-----------------------------------------------------------------------------
(* The wallets.                                                             *)

Holds(u, c) == [w \in Withdrawals |-> HeldBy(w, u, c)]

LEMMA HoldsChange ==
    ASSUME WithdrawalTypeOK, WithdrawalTypeOK', NEW u, NEW c, NEW w \in Withdrawals,
           \A v \in Withdrawals \ {w} : HeldBy(v, u, c)' = HeldBy(v, u, c)
    PROVE  /\ SumFunction(Holds(u, c))' =
                 SumFunction(Holds(u, c)) + HeldBy(w, u, c)' - HeldBy(w, u, c)
           /\ SumFunction(Holds(u, c)) \in Int
           /\ HeldBy(w, u, c) \in Int /\ HeldBy(w, u, c)' \in Int
<1> DEFINE f == Holds(u, c)
           g == Holds(u, c)'
<1>1. /\ \A v \in Withdrawals : f[v] = HeldBy(v, u, c) /\ g[v] = HeldBy(v, u, c)'
      /\ DOMAIN f = Withdrawals /\ DOMAIN g = Withdrawals
  BY DEF Holds
<1>2. ASSUME NEW v \in Withdrawals PROVE HeldBy(v, u, c) \in Int /\ HeldBy(v, u, c)' \in Int
  <2>1. /\ Made(v) => withdrawal[v].amount \in Nat
        /\ Made(v)' => withdrawal'[v].amount \in Nat
    BY WithdrawalAssumption DEF WithdrawalTypeOK, Requests, Made
  <2> QED BY <2>1 DEF HeldBy
<1> HIDE DEF f, g
<1>3. \A v \in Withdrawals : f[v] \in Int /\ g[v] \in Int
  BY <1>1, <1>2
<1>4. \A v \in Withdrawals \ {w} : g[v] = f[v]
  BY <1>1
<1>5. /\ SumFunctionOnSet(g, Withdrawals) = SumFunctionOnSet(f, Withdrawals) + (g[w] - f[w])
      /\ SumFunctionOnSet(f, Withdrawals) \in Int
  BY <1>3, <1>4, WithdrawalAssumption, SumChange, SumInt
<1> QED BY <1>1, <1>3, <1>5 DEF f, g, SumFunction

LEMMA WalletsInit == Init => WalletsMatchWithdrawals
<1> SUFFICES ASSUME Init, NEW u \in Users, NEW c \in Chains
             PROVE  balance[u][c] = InitialBalance - SumFunction(Holds(u, c))
  BY DEF WalletsMatchWithdrawals, Holds
<1>1. DOMAIN Holds(u, c) = Withdrawals /\ \A w \in Withdrawals : Holds(u, c)[w] = 0
  BY DEF Holds, HeldBy, Init, Made
<1>2. SumFunction(Holds(u, c)) = 0
  BY <1>1, WithdrawalAssumption, SumZero DEF SumFunction
<1> QED BY <1>2, WithdrawalAssumption DEF Init

\* A step that leaves the wallets and what withdrawals hold of them.
LEMMA WalletsKept ==
    ASSUME WalletsMatchWithdrawals, balance' = balance,
           \A w \in Withdrawals : /\ Made(w)' <=> Made(w)
                                  /\ \A f \in {"user", "chain", "held", "amount"} :
                                        withdrawal'[w][f] = withdrawal[w][f]
    PROVE  WalletsMatchWithdrawals'
BY DEF WalletsMatchWithdrawals, HeldBy

\* A step that moves x out of one wallet, or into it, with one withdrawal.
LEMMA WalletsMove ==
    ASSUME WithdrawalTypeOK, WithdrawalTypeOK', WalletsMatchWithdrawals,
           NEW w \in Withdrawals, NEW v \in Users, NEW d \in Chains, NEW x \in Int,
           balance' = [balance EXCEPT ![v][d] = @ - x],
           \A i \in Withdrawals \ {w} : withdrawal'[i] = withdrawal[i],
           \A u \in Users, c \in Chains :
               HeldBy(w, u, c)' - HeldBy(w, u, c) = IF u = v /\ c = d THEN x ELSE 0
    PROVE  WalletsMatchWithdrawals'
<1> SUFFICES ASSUME NEW u \in Users, NEW c \in Chains
             PROVE  balance'[u][c] = InitialBalance - SumFunction(Holds(u, c))'
  BY DEF WalletsMatchWithdrawals, Holds
<1>1. balance[u][c] = InitialBalance - SumFunction(Holds(u, c)) /\ InitialBalance \in Int
  BY WithdrawalAssumption DEF WalletsMatchWithdrawals, Holds
<1>2. balance'[u][c] = IF u = v /\ c = d THEN balance[u][c] - x ELSE balance[u][c]
  BY DEF WithdrawalTypeOK
<1>3. \A i \in Withdrawals \ {w} : HeldBy(i, u, c)' = HeldBy(i, u, c)
  BY DEF HeldBy, Made
<1>4. /\ SumFunction(Holds(u, c))' =
            SumFunction(Holds(u, c)) + HeldBy(w, u, c)' - HeldBy(w, u, c)
      /\ SumFunction(Holds(u, c)) \in Int
      /\ HeldBy(w, u, c) \in Int /\ HeldBy(w, u, c)' \in Int
  BY <1>3, HoldsChange
<1>5. HeldBy(w, u, c)' - HeldBy(w, u, c) = IF u = v /\ c = d THEN x ELSE 0
  OBVIOUS
<1> QED BY <1>1, <1>2, <1>4, <1>5

LEMMA WalletsTake ==
    ASSUME WithdrawalInv, WithdrawalInv', WalletsMatchWithdrawals, NEW w \in Withdrawals,
           NEW pc \in {"send", "failed"}, Take(w, pc)
    PROVE  WalletsMatchWithdrawals'
<1>1. PICK u \in Users, c \in Chains, amount \in Amounts :
          /\ balance' = [balance EXCEPT ![u][c] = @ - amount]
          /\ withdrawal' = [withdrawal EXCEPT ![w] =
               [user |-> u, chain |-> c, amount |-> amount,
                held |-> TRUE, unheard |-> FALSE, pc |-> pc, tx |-> "none"]]
  BY DEF Take
<1> DEFINE r == [user |-> u, chain |-> c, amount |-> amount,
                 held |-> TRUE, unheard |-> FALSE, pc |-> pc, tx |-> "none"]
<1>2. WithdrawalTypeOK /\ WithdrawalTypeOK' /\ amount \in Int
  BY WithdrawalAssumption DEF WithdrawalInv
<1>3. r.user = u /\ r.chain = c /\ r.amount = amount /\ r.held
  OBVIOUS
<1>4. withdrawal[w] = Nil /\ withdrawal'[w] = r
      /\ \A i \in Withdrawals \ {w} : withdrawal'[i] = withdrawal[i]
  BY <1>1, <1>2 DEF Take, WithdrawalTypeOK
<1>5. r # Nil
  <2>1. r \in Requests
    BY DEF Requests
  <2> QED BY <2>1, NilAssumption
<1> HIDE DEF r
<1>6. ASSUME NEW v \in Users, NEW d \in Chains
      PROVE  HeldBy(w, v, d)' - HeldBy(w, v, d) = IF v = u /\ d = c THEN amount ELSE 0
  <2>1. HeldBy(w, v, d) = 0 /\ HeldBy(w, v, d)' = IF v = u /\ d = c THEN amount ELSE 0
    BY <1>3, <1>4, <1>5 DEF HeldBy, Made
  <2> QED BY <1>2, <2>1
<1> QED BY <1>1, <1>2, <1>4, <1>6, WalletsMove

LEMMA WalletsRefund ==
    ASSUME WithdrawalInv, WithdrawalInv', WalletsMatchWithdrawals, NEW w \in Withdrawals, Refund(w)
    PROVE  WalletsMatchWithdrawals'
<1>1. PICK r, u, c, x : r = withdrawal[w] /\ u = r.user /\ c = r.chain /\ x = -r.amount
  OBVIOUS
<1>2. WithdrawalTypeOK /\ WithdrawalTypeOK' /\ Made(w) /\ r \in Requests /\ r.held
  BY <1>1 DEF WithdrawalInv, WithdrawalTypeOK, Refund, At, Made, PcSays
<1>3. r.amount \in Nat /\ u \in Users /\ c \in Chains /\ x \in Int
  <2>1. r.amount \in Nat /\ r.user \in Users /\ r.chain \in Chains
    BY <1>2, WithdrawalAssumption DEF Requests
  <2>2. PICK n \in Nat : n = r.amount
    BY <2>1
  <2>3. x = -n
    BY <1>1, <2>2
  <2> QED BY <1>1, <2>1, <2>2, <2>3
<1>4. balance' = [balance EXCEPT ![u][c] = @ - x]
  <2>1. balance[u][c] - x = balance[u][c] + r.amount
    BY <1>1, <1>2, <1>3 DEF WithdrawalTypeOK
  <2>2. balance' = [balance EXCEPT ![u][c] = @ + r.amount]
    BY <1>1 DEF Refund
  <2> QED BY <2>1, <2>2
<1>5. /\ \A i \in Withdrawals \ {w} : withdrawal'[i] = withdrawal[i]
      /\ withdrawal'[w] = [r EXCEPT !.pc = AfterRefund, !.held = FALSE]
  BY <1>1, <1>2 DEF Refund, WithdrawalTypeOK
<1>6. ~withdrawal'[w].held
  BY <1>2, <1>5 DEF Requests
<1>7. ASSUME NEW v \in Users, NEW d \in Chains
      PROVE  HeldBy(w, v, d)' - HeldBy(w, v, d) = IF v = u /\ d = c THEN x ELSE 0
  <2>1. /\ HeldBy(w, v, d) = IF v = u /\ d = c THEN r.amount ELSE 0
        /\ HeldBy(w, v, d)' = 0
    BY <1>1, <1>2, <1>6 DEF HeldBy
  <2> QED BY <1>1, <1>3, <2>1
<1> QED BY <1>2, <1>3, <1>4, <1>5, <1>7, WalletsMove

LEMMA WalletsNext ==
    ASSUME WithdrawalInv, WithdrawalInv', WalletsMatchWithdrawals, [ServerNext]_serverVars
    PROVE  WalletsMatchWithdrawals'
<1>1. ASSUME NEW w \in Withdrawals, Made(w),
             NEW pc \in {"send", "wait", "refund", "done", "failed", "unpaid", "dead"},
             NEW tx \in {"none", "accepted", "mined", "reverted", "dropped"},
             GoTo(w, pc, tx) \/ GoesUnheard(w, tx)
      PROVE  WalletsMatchWithdrawals'
  <2>1. balance' = balance /\ \A i \in Withdrawals \ {w} : withdrawal'[i] = withdrawal[i]
    BY <1>1 DEF GoTo, GoesUnheard, WithdrawalInv, WithdrawalTypeOK
  <2>2. /\ withdrawal[w] \in Requests
        /\ withdrawal'[w] = [withdrawal[w] EXCEPT !.pc = pc, !.tx = tx]
            \/ withdrawal'[w] = [withdrawal[w] EXCEPT !.pc = "refund", !.tx = tx, !.unheard = TRUE]
    BY <1>1 DEF GoTo, GoesUnheard, WithdrawalInv, WithdrawalTypeOK, Made
  <2>3. \A f \in {"user", "chain", "held", "amount"} : withdrawal'[w][f] = withdrawal[w][f]
    BY <2>2 DEF Requests
  <2>4. Made(w)'
    <3>1. withdrawal'[w] \in Requests
      BY <1>1, <2>2 DEF Requests
    <3> QED BY <3>1, NilAssumption DEF Made
  <2> QED BY <1>1, <2>1, <2>3, <2>4, WalletsKept DEF Made
<1>2. CASE UNCHANGED withdrawalVars
  BY <1>2 DEF withdrawalVars, WalletsMatchWithdrawals, HeldBy, Made
<1>3. CASE HandlersDie
  <2>1. ASSUME NEW w \in Withdrawals
        PROVE  /\ Made(w)' <=> Made(w)
               /\ \A f \in {"user", "chain", "held", "amount"} : withdrawal'[w][f] = withdrawal[w][f]
    <3>1. CASE InFlight(w)
      <4>1. withdrawal[w] \in Requests /\ withdrawal'[w] = [withdrawal[w] EXCEPT !.pc = "dead"]
        BY <1>3, <3>1 DEF HandlersDie, InFlight, At, WithdrawalInv, WithdrawalTypeOK
      <4> QED BY <3>1, <4>1, NilAssumption DEF Requests, Made, InFlight, At
    <3>2. CASE ~InFlight(w)
      BY <1>3, <3>2 DEF HandlersDie, Made
    <3> QED BY <3>1, <3>2
  <2> QED BY <1>3, <2>1, WalletsKept DEF HandlersDie
<1>T. ASSUME NEW w \in Withdrawals, Made(w)
      PROVE  /\ withdrawal[w].pc \in {"send", "wait", "refund", "done", "failed", "unpaid", "dead"}
             /\ withdrawal[w].tx \in {"none", "accepted", "mined", "reverted", "dropped"}
  BY <1>T DEF WithdrawalInv, WithdrawalTypeOK, Made, Requests
<1>4. ASSUME NEW w \in Withdrawals, Handle(w) PROVE WalletsMatchWithdrawals'
  <2>1. Made(w)
    BY <1>4 DEF Handle, SendRefused, SendAccepted, SendUnanswered, WaitConfirmed,
                WaitReverted, WaitUnanswered, Refund, RefundFails, At, Made
  <2>2. AfterSend(withdrawal[w].chain) \in {"wait", "done"}
    BY DEF AfterSend
  <2>3. CASE SendAccepted(w)
    BY <1>1, <2>1, <2>2, <2>3 DEF SendAccepted
  <2>4. CASE Refund(w)
    BY <2>4, WalletsRefund
  <2> QED BY <1>1, <1>4, <1>T, <2>1, <2>3, <2>4
             DEF Handle, SendRefused, AfterRefusal, SendUnanswered, WaitConfirmed, WaitReverted,
                 WaitUnanswered, RefundFails
<1>5. ASSUME NEW w \in Withdrawals, ChainDecides(w) PROVE WalletsMatchWithdrawals'
  BY <1>1, <1>5, <1>T DEF ChainDecides, Made
<1>6. ASSUME NEW w \in Withdrawals, Deduct(w) \/ DeductUnanswered(w) PROVE WalletsMatchWithdrawals'
  BY <1>6, WalletsTake DEF Deduct, DeductUnanswered
<1>7. ASSUME NEW w \in Withdrawals, At(w, "refund"), GoTo(w, "unpaid", withdrawal[w].tx)
      PROVE  WalletsMatchWithdrawals'
  BY <1>1, <1>7, <1>T DEF At, Made
<1>8. CASE UNCHANGED serverVars
  BY <1>2, <1>8 DEF serverVars
<1> QED BY <1>2, <1>3, <1>4, <1>5, <1>6, <1>7, <1>8, ServerStep DEF Next, Crash

-----------------------------------------------------------------------------
(* The process.                                                             *)

\* One tick at a time.  Once the HTTP server has closed, the handlers in flight are
\* those nobody waits for; once the process is gone, there are none.
ProcessInv ==
    /\ feed.holding + feed.wanting + feed.filling <= 1
    /\ stage = "ending" => \A w \in Withdrawals : InFlight(w) => w \in hungUp
    /\ ~Running => \A w \in Withdrawals : ~InFlight(w)

ServerInv == ServerTypeOK /\ WithdrawalInv /\ ProcessInv

LEMMA ServerInvInit == ServerInit => ServerInv
<1> SUFFICES ASSUME ServerInit PROVE ServerInv
  OBVIOUS
<1>1. WithdrawalInv
  BY WithdrawalInvInit DEF ServerInit
<1>2. ServerTypeOK /\ ProcessInv
  BY <1>1, ServerAssumption DEF ServerInit, ServerTypeOK, ProcessInv, NoTicks, WithdrawalInv,
     Stages, Running
<1> QED BY <1>1, <1>2 DEF ServerInv

LEMMA ServerWithdrawalInv ==
    ASSUME WithdrawalInv, [ServerNext]_serverVars
    PROVE  WithdrawalInv'
<1>1. CASE UNCHANGED serverVars
  BY <1>1, WithdrawalInvNext DEF serverVars
<1>2. ASSUME NEW w \in Withdrawals, At(w, "refund"), GoTo(w, "unpaid", withdrawal[w].tx)
      PROVE  WithdrawalInv'
  <2>1. Made(w) /\ withdrawal[w] \in Requests /\ withdrawal[w].pc = "refund" /\ PcSays(w)
    BY <1>2 DEF At, Made, WithdrawalInv, WithdrawalTypeOK
  <2>2. PcSays(w)'
    BY <1>2, <2>1, GoToRecord DEF PcSays, Refundable
  <2> QED BY <1>2, <2>1, <2>2, GoToStep DEF Requests
<1> QED BY <1>1, <1>2, ServerStep, WithdrawalInvNext, HandlersDieStep

\* A handler in flight was in flight before, or its request was just taken.
LEMMA InFlightBefore ==
    ASSUME WithdrawalInv, NEW w \in Withdrawals, Handle(w) \/ ChainDecides(w) \/
               (At(w, "refund") /\ GoTo(w, "unpaid", withdrawal[w].tx)),
           NEW v \in Withdrawals, InFlight(v)'
    PROVE  InFlight(v)
<1>1. CASE v = w /\ Handle(w)
  BY <1>1 DEF Handle, SendRefused, SendAccepted, SendUnanswered, WaitConfirmed, WaitReverted,
              WaitUnanswered, Refund, RefundFails, At, InFlight
<1>2. CASE v = w /\ At(w, "refund")
  BY <1>2 DEF InFlight
<1>3. CASE v = w /\ ChainDecides(w)
  <2>1. Made(w)
    BY <1>3 DEF ChainDecides, Made
  <2>2. withdrawal'[w].pc = withdrawal[w].pc
    BY <1>3, <2>1, GoToRecord DEF ChainDecides
  <2> QED BY <1>3, <2>1, <2>2 DEF InFlight, At, Made
<1>4. CASE v # w
  <2>1. withdrawal'[v] = withdrawal[v]
    BY <1>4 DEF Handle, SendRefused, SendAccepted, SendUnanswered, WaitConfirmed, WaitReverted,
                WaitUnanswered, Refund, RefundFails, ChainDecides, GoTo, GoesUnheard,
                WithdrawalInv, WithdrawalTypeOK
  <2> QED BY <2>1 DEF InFlight, At
<1> QED BY <1>1, <1>2, <1>3, <1>4

LEMMA NoneInFlight == WithdrawalInv /\ HandlersDie => \A w \in Withdrawals : ~InFlight(w)'
<1> SUFFICES ASSUME WithdrawalInv, HandlersDie, NEW w \in Withdrawals PROVE ~InFlight(w)'
  OBVIOUS
<1>1. CASE InFlight(w)
  <2>1. withdrawal[w] \in Requests
    BY <1>1 DEF InFlight, At, WithdrawalInv, WithdrawalTypeOK
  <2>2. withdrawal'[w].pc = "dead"
    BY <1>1, <2>1 DEF HandlersDie, Requests
  <2> QED BY <2>2 DEF InFlight, At
<1>2. CASE ~InFlight(w)
  BY <1>2 DEF HandlersDie, InFlight, At
<1> QED BY <1>1, <1>2

\* What the feed's moves do to its counters.
LEMMA FeedStep ==
    ASSUME ServerTypeOK, feed.holding + feed.wanting + feed.filling <= 1,
           TickStarts \/ TickWants \/ TickGoesOn
    PROVE  /\ feed' \in [{"holding", "wanting", "filling"} -> 0..Connections]
           /\ feed'.holding + feed'.wanting + feed'.filling <= 1
           /\ UNCHANGED <<withdrawalVars, stage, socket, hungUp>>
<1> USE ServerAssumption DEF ServerTypeOK, NoTicks
<1>1. CASE TickStarts
  BY <1>1 DEF TickStarts, LastIsOver
<1>2. CASE Move("holding", "wanting")
  BY <1>2 DEF Move
<1>3. CASE Move("wanting", "filling")
  BY <1>3 DEF Move
<1>4. CASE Move("filling", "holding")
  BY <1>4 DEF Move
<1>5. CASE Move("holding", "end")
  BY <1>5 DEF Move
<1>6. CASE Move("wanting", "end")
  BY <1>6 DEF Move
<1> QED BY <1>1, <1>2, <1>3, <1>4, <1>5, <1>6
        DEF TickWants, TickGoesOn, TickGets, TickFilled, TickEnds, TickTimesOut

LEMMA ServerInvNext == ServerInv /\ [ServerNext]_serverVars => ServerInv'
<1> SUFFICES ASSUME ServerInv, [ServerNext]_serverVars PROVE ServerInv'
  OBVIOUS
<1>1. WithdrawalInv' /\ WithdrawalTypeOK'
  BY ServerWithdrawalInv DEF ServerInv, WithdrawalInv
<1>2. CASE UNCHANGED serverVars
  BY <1>1, <1>2 DEF serverVars, processVars, withdrawalVars, ServerInv, ServerTypeOK, ProcessInv,
                    Running, InFlight, At
<1>3. ASSUME NEW w \in Withdrawals, TakeRequest(w) PROVE ServerInv'
  BY <1>1, <1>3 DEF TakeRequest, processVars, PoolOpen, ServerInv, ServerTypeOK, ProcessInv, Running
<1>4. ASSUME NEW w \in Withdrawals, HandlerGoesOn(w) \/ ChainGoesOn(w) PROVE ServerInv'
  <2>1. /\ UNCHANGED processVars
        /\ Handle(w) \/ ChainDecides(w) \/ (At(w, "refund") /\ GoTo(w, "unpaid", withdrawal[w].tx))
    BY <1>4 DEF HandlerGoesOn, ChainGoesOn
  <2>2. \A v \in Withdrawals : InFlight(v)' => InFlight(v)
    BY <2>1, InFlightBefore DEF ServerInv
  <2> QED BY <1>1, <2>1, <2>2 DEF processVars, ServerInv, ServerTypeOK, ProcessInv, Running
<1>5. ASSUME NEW w \in Withdrawals, HangUp(w) PROVE ServerInv'
  BY <1>1, <1>5 DEF HangUp, withdrawalVars, ServerInv, ServerTypeOK, ProcessInv, Running, InFlight, At
<1>6. CASE TickStarts \/ TickWants \/ TickGoesOn
  BY <1>1, <1>6, FeedStep DEF withdrawalVars, ServerInv, ServerTypeOK, ProcessInv, Running, InFlight, At
<1>7. CASE SocketOpens \/ SocketLeaves \/ SocketCloses
  BY <1>1, <1>7 DEF SocketOpens, SocketLeaves, SocketCloses, SocketBecomes, withdrawalVars,
     ServerInv, ServerTypeOK, ProcessInv, Running, InFlight, At
<1>8. CASE Signal \/ HttpCloses \/ Start
  BY <1>1, <1>8 DEF Signal, AfterCloseAll, HttpCloses, NoConnections, Start, withdrawalVars,
     ServerInv, ServerTypeOK, ProcessInv, Running, Stages, InFlight, At
<1>9. ASSUME NEW status \in {"exited", "killed"}, Exit(status) PROVE ServerInv'
  <2>1. \A w \in Withdrawals : ~InFlight(w)'
    BY <1>9, NoneInFlight DEF Exit, ServerInv
  <2> QED BY <1>1, <1>9, <2>1, ServerAssumption DEF Exit, NoTicks, ServerInv, ServerTypeOK,
             ProcessInv, Stages
<1> QED BY <1>2, <1>3, <1>4, <1>5, <1>6, <1>7, <1>8, <1>9
        DEF ServerNext, Shutdown, PoolEnds, ForceExit, Kill

LEMMA ServerInvariant == ServerSpec => []ServerInv
BY ServerInvInit, ServerInvNext, PTL DEF ServerSpec

\* The variables of the process and of every withdrawal keep their types.
THEOREM ServerTypeCorrect == ServerSpec => []ServerTypeOK
<1>1. ServerInv => ServerTypeOK
  BY DEF ServerInv
<1> QED BY <1>1, ServerInvariant, PTL

\* A withdrawal answered with success was paid for and handed to the chain, however
\* the process ends and begins again.
THEOREM SuccessIsSent == ServerSpec => []SuccessMeansSent
<1>1. ServerInv => SuccessMeansSent
  BY WithdrawalInvImplies DEF ServerInv
<1> QED BY <1>1, ServerInvariant, PTL

\* As long as the chain's answers arrive, nothing is given back that is out.
THEOREM HeardRefundsUnsent == ServerSpec => []HeardRefundsAreUnsent
<1>1. ServerInv => HeardRefundsAreUnsent
  BY WithdrawalInvImplies DEF ServerInv
<1> QED BY <1>1, ServerInvariant, PTL

\* The feed never takes the last connection of the pool.
THEOREM FeedLeavesOne == ServerSpec => []FeedLeavesConnections
<1>1. ServerInv => FeedLeavesConnections
  BY ServerAssumption DEF ServerInv, ServerTypeOK, ProcessInv, FeedLeavesConnections, Taken
<1> QED BY <1>1, ServerInvariant, PTL

\* A graceful shutdown ends no request that somebody waits for.
THEOREM GracefulLosesNone == ServerSpec => GracefulLosesNothing
<1> DEFINE Loses == \A w \in Withdrawals \ hungUp :
         /\ InFlight(w) /\ At(w, "dead")' => stage' = "killed"
         /\ At(w, "refund") /\ At(w, "unpaid")' => PoolOpen
<1>1. ServerInv /\ [ServerNext]_serverVars => [Loses]_serverVars
  <2> SUFFICES ASSUME ServerInv, ServerNext, NEW w \in Withdrawals \ hungUp
               PROVE  /\ InFlight(w) /\ At(w, "dead")' => stage' = "killed"
                      /\ At(w, "refund") /\ At(w, "unpaid")' => PoolOpen
    BY DEF ServerInv
  <2>1. InFlight(w) => PoolOpen
    BY DEF ServerInv, ServerTypeOK, ProcessInv, Running, PoolOpen, Stages
  <2>2. At(w, "refund") => InFlight(w)
    BY DEF InFlight
  <2>3. ASSUME InFlight(w), At(w, "dead")' PROVE stage' = "killed"
    <3>1. withdrawal[w] \in Requests /\ withdrawal[w].pc # "dead"
      BY <2>3 DEF InFlight, At, ServerInv, WithdrawalInv, WithdrawalTypeOK
    <3>2. withdrawal'[w] # withdrawal[w]
      BY <2>3, <3>1 DEF At
    <3>3. ASSUME NEW v \in Withdrawals, TakeRequest(v) PROVE FALSE
      <4>1. withdrawal[v] = Nil /\ v # w
        BY <2>3, <3>3 DEF TakeRequest, Deduct, DeductUnanswered, Take, InFlight, At
      <4>2. withdrawal'[w] = withdrawal[w]
        BY <3>3, <4>1 DEF TakeRequest, Deduct, DeductUnanswered, Take, ServerInv, WithdrawalInv,
           WithdrawalTypeOK
      <4> QED BY <3>2, <4>2
    <3>4. ASSUME NEW v \in Withdrawals, HandlerGoesOn(v) \/ ChainGoesOn(v) PROVE FALSE
      <4>1. Handle(v) \/ ChainDecides(v) \/ (At(v, "refund") /\ GoTo(v, "unpaid", withdrawal[v].tx))
        BY <3>4 DEF HandlerGoesOn, ChainGoesOn
      <4>2. v = w
        BY <3>2, <4>1 DEF Handle, SendRefused, SendAccepted, SendUnanswered, WaitConfirmed,
           WaitReverted, WaitUnanswered, Refund, RefundFails, ChainDecides, GoTo, GoesUnheard,
           ServerInv, WithdrawalInv, WithdrawalTypeOK
      <4>3. withdrawal'[w].pc # "dead"
        BY <3>1, <4>1, <4>2 DEF Handle, SendRefused, AfterRefusal, SendAccepted, AfterSend,
           SendUnanswered, WaitConfirmed, WaitReverted, WaitUnanswered, Refund, AfterRefund,
           RefundFails, ChainDecides, GoTo, GoesUnheard, ServerInv, WithdrawalInv,
           WithdrawalTypeOK, Requests
      <4> QED BY <2>3, <4>3 DEF At
    <3>5. PoolEnds \/ ForceExit \/ Kill
      BY <3>2, <3>3, <3>4 DEF ServerNext, HangUp, TickStarts, TickWants, TickGoesOn, TickGets,
         TickFilled, TickEnds, TickTimesOut, Move, SocketOpens, SocketLeaves, SocketCloses,
         SocketBecomes, Shutdown, Signal, HttpCloses, Start, withdrawalVars
    <3> QED BY <2>1, <2>3, <3>5 DEF PoolEnds, PoolOpen, ForceExit, Kill, Exit
  <2> QED BY <2>1, <2>2, <2>3
<1> QED BY <1>1, ServerInvariant, PTL DEF ServerSpec, GracefulLosesNothing

\* The wallets are short of exactly what withdrawals hold, whatever fails, whoever
\* hangs up and however often the process dies: for any number of withdrawals.
THEOREM WalletsMatch == ServerSpec => []WalletsMatchWithdrawals
<1>1. ServerInit => WalletsMatchWithdrawals
  BY WalletsInit DEF ServerInit
<1>2. ServerInv /\ ServerInv' /\ WalletsMatchWithdrawals /\ [ServerNext]_serverVars
          => WalletsMatchWithdrawals'
  BY WalletsNext DEF ServerInv
<1> QED BY <1>1, <1>2, ServerInvariant, PTL DEF ServerSpec
=============================================================================
