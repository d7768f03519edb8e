--------------------------- MODULE DepositsProofs ---------------------------
(***************************************************************************)
(* Proofs about deposits: what creditDeposit keeps, whichever poller calls  *)
(* it, however often; then the BTC and TRON pollers, for any numbers of     *)
(* polls, users, recipients and transactions, and any size of the API's     *)
(* page; then the ETH poller, for any numbers of polls, users, transfers    *)
(* and blocks; then BTC custody, for any numbers of users, withdrawals and  *)
(* transactions, any amounts and fee rates, and any order of the outputs.   *)
(***************************************************************************)
EXTENDS AddressPoller, EthPoller, Custody, FiniteSetTheorems, SequenceTheorems, TLAPS

\* Whole amounts: the sums of a ledger that rounds nothing.
INSTANCE LedgerProofs WITH Scale <- 1, Grid <- 1

CreditsOf(u) == {t \in Txs : Credited(u, t)}

\* One row for a transaction, and a unit in the wallet for every row.
CreditsInv ==
    /\ DepositsTypeOK
    /\ \A r, s \in credits : r.tx = s.tx => r = s
    /\ \A u \in Users : balance[u] = Cardinality(CreditsOf(u))

LEMMA CreditsFinite == \A u \in Users : IsFiniteSet(CreditsOf(u))
BY DepositsAssumption, FS_Subset DEF CreditsOf

LEMMA CreditsInvInit == DepositsInit => CreditsInv
<1> SUFFICES ASSUME DepositsInit PROVE CreditsInv
  OBVIOUS
<1>1. \A u \in Users : CreditsOf(u) = {}
  BY DEF DepositsInit, CreditsOf, Credited
<1>2. \A u \in Users : balance[u] = 0
  BY DEF DepositsInit
<1>3. DepositsTypeOK
  BY DEF DepositsInit, DepositsTypeOK
<1> QED BY <1>1, <1>2, <1>3, FS_EmptySet DEF CreditsInv, DepositsInit

LEMMA CreditsKept ==
    ASSUME CreditsInv, UNCHANGED <<balance, credits>>, addresses' \in SUBSET Users
    PROVE  CreditsInv'
BY DEF CreditsInv, DepositsTypeOK, CreditsOf, Credited

\* A first credit adds its row and its unit, and a later one nothing.
LEMMA CreditStep ==
    ASSUME CreditsInv, NEW u \in Users, NEW tx \in Txs, CreditDeposit(u, tx, 1)
    PROVE  /\ CreditsInv'
           /\ \A v \in Users, t \in Txs :
                 Credited(v, t)' <=> Credited(v, t) \/ (~Seen(tx) /\ v = u /\ t = tx)
<1> DEFINE row == [tx |-> tx, user |-> u, amount |-> 1]
<1>1. CASE Seen(tx)
  <2>1. UNCHANGED <<balance, credits, addresses>>
    BY <1>1 DEF CreditDeposit
  <2>2. \A v \in Users, t \in Txs : Credited(v, t)' <=> Credited(v, t)
    BY <2>1 DEF Credited
  <2>3. addresses' \in SUBSET Users
    BY <2>1 DEF CreditsInv, DepositsTypeOK
  <2> QED BY <1>1, <2>1, <2>2, <2>3, CreditsKept
<1>2. CASE ~Seen(tx)
  <2>1. /\ credits' = credits \cup {row}
        /\ balance' = [balance EXCEPT ![u] = @ + 1]
        /\ addresses' = addresses
    BY <1>2 DEF CreditDeposit
  <2>2. \A v \in Users, t \in Txs : Credited(v, t)' <=> Credited(v, t) \/ (v = u /\ t = tx)
    <3>1. row.tx = tx /\ row.user = u
      OBVIOUS
    <3> HIDE DEF row
    <3> QED BY <2>1, <3>1 DEF Credited
  <2>3. ~Credited(u, tx)
    BY <1>2 DEF Seen, Credited
  <2>4. CreditsOf(u)' = CreditsOf(u) \cup {tx} /\ tx \notin CreditsOf(u)
    BY <2>2, <2>3 DEF CreditsOf
  <2>5. \A v \in Users : v # u => CreditsOf(v)' = CreditsOf(v)
    BY <2>2 DEF CreditsOf
  <2>6. Cardinality(CreditsOf(u)') = Cardinality(CreditsOf(u)) + 1
    BY <2>4, CreditsFinite, FS_AddElement
  <2>7. \A v \in Users : balance'[v] = IF v = u THEN balance[u] + 1 ELSE balance[v]
    BY <2>1 DEF CreditsInv, DepositsTypeOK
  <2>8. \A v \in Users : balance'[v] = Cardinality(CreditsOf(v)')
    BY <2>5, <2>6, <2>7 DEF CreditsInv
  <2>9. \A r, s \in credits' : r.tx = s.tx => r = s
    BY <1>2, <2>1 DEF CreditsInv, Seen
  <2>10. DepositsTypeOK'
    <3>1. row \in [tx : Txs, user : Users, amount : Nat]
      OBVIOUS
    <3> QED BY <2>1, <3>1 DEF CreditsInv, DepositsTypeOK
  <2> QED BY <1>2, <2>2, <2>8, <2>9, <2>10 DEF CreditsInv
<1> QED BY <1>1, <1>2

\* A wallet holds no more than the transactions its rows are among.
LEMMA CreditsBacked ==
    ASSUME CreditsInv, NEW u \in Users, NEW S \in SUBSET Txs, CreditsOf(u) \subseteq S
    PROVE  balance[u] <= Cardinality(S)
<1>1. IsFiniteSet(S)
  BY DepositsAssumption, FS_Subset
<1> QED BY <1>1, FS_Subset DEF CreditsInv

-----------------------------------------------------------------------------
(* The BTC and TRON pollers.                                                *)

TxRows   == [to : SUBSET Users, state : {"unconfirmed", "confirmed", "gone"}]
PollRows == [on : BOOLEAN, todo : SUBSET Users, user : SUBSET Users, list : SUBSET Txs]

\* Transaction i has confirmed and pays u.
Pays(i, u) == i \in DOMAIN txs /\ txs[i].state = "confirmed" /\ u \in txs[i].to

\* What is credited, and what a poll holds to credit, the chain has confirmed: a
\* confirmed transaction stays, however old the answer is that listed it.
PollerInv ==
    /\ PollerTypeOK /\ CreditsInv
    /\ Len(txs) <= MaxTxs
    /\ \A r \in credits : Pays(r.tx, r.user)
    /\ \A p \in Polls : \A i \in poll[p].list, u \in poll[p].user : Pays(i, u)

LEMMA PollerTypes ==
    ASSUME PollerInv
    PROVE  /\ DOMAIN txs \subseteq Txs /\ Len(txs) \in Nat /\ DOMAIN txs = 1..Len(txs)
           /\ \A i \in DOMAIN txs : txs[i] \in TxRows
           /\ addresses \in SUBSET Users
           /\ txs \in Seq(TxRows) /\ poll \in [Polls -> PollRows] /\ Idle \in PollRows
<1>1. DOMAIN txs = 1..Len(txs) /\ Len(txs) \in Nat /\ MaxTxs \in Nat /\ Txs = 1..MaxTxs
  BY AddressPollerAssumption DEF PollerInv, PollerTypeOK
<1>2. DOMAIN txs \subseteq Txs
  BY <1>1 DEF PollerInv
<1>3. \A i \in DOMAIN txs : txs[i] \in TxRows
  <2>1. txs \in Seq(TxRows)
    BY DEF PollerInv, PollerTypeOK, TxRows
  <2> QED BY <1>1, <2>1, ElementOfSeq
<1>4. addresses \in SUBSET Users
  BY DEF PollerInv, CreditsInv, DepositsTypeOK
<1>5. txs \in Seq(TxRows) /\ poll \in [Polls -> PollRows] /\ Idle \in PollRows
  BY DEF PollerInv, PollerTypeOK, TxRows, PollRows, Idle
<1> QED BY <1>1, <1>2, <1>3, <1>4, <1>5

LEMMA PollerInvInit == Init => PollerInv
<1> SUFFICES ASSUME Init PROVE PollerInv
  OBVIOUS
<1>1. CreditsInv /\ credits = {}
  BY CreditsInvInit DEF Init, DepositsInit
<1>2. PollerTypeOK
  BY <1>1 DEF Init, PollerTypeOK, CreditsInv, Idle
<1>3. Len(txs) <= MaxTxs
  BY AddressPollerAssumption DEF Init
<1> QED BY <1>1, <1>2, <1>3 DEF Init, PollerInv, Idle

\* A step that credits nothing: confirmed transactions stay, and what a poll has new
\* to credit is confirmed.
LEMMA NothingCredited ==
    ASSUME PollerInv, PollerTypeOK', UNCHANGED <<balance, credits>>, addresses' \in SUBSET Users,
           Len(txs') <= MaxTxs,
           \A i \in Txs, u \in Users : Pays(i, u) => Pays(i, u)',
           \A p \in Polls : \A i \in poll'[p].list, u \in poll'[p].user :
              Pays(i, u)' \/ (i \in poll[p].list /\ u \in poll[p].user)
    PROVE  PollerInv'
<1>1. CreditsInv'
  BY CreditsKept DEF PollerInv
<1>2. \A r \in credits' : Pays(r.tx, r.user)'
  BY DEF PollerInv, CreditsInv, DepositsTypeOK
<1>3. \A p \in Polls : \A i \in poll'[p].list, u \in poll'[p].user : Pays(i, u)'
  <2> SUFFICES ASSUME NEW p \in Polls, NEW i \in poll'[p].list, NEW u \in poll'[p].user,
                      i \in poll[p].list, u \in poll[p].user
               PROVE  Pays(i, u)'
    OBVIOUS
  <2>1. Pays(i, u) /\ i \in Txs /\ u \in Users
    BY PollerTypes DEF PollerInv, PollRows
  <2> QED BY <2>1
<1> QED BY <1>1, <1>2, <1>3 DEF PollerInv

\* A step of a poll that credits nothing and has nothing new to credit.
LEMMA PollOnly ==
    ASSUME PollerInv, UNCHANGED <<balance, credits, addresses, txs>>, PollerTypeOK',
           \A p \in Polls : \A i \in poll'[p].list, u \in poll'[p].user :
              Pays(i, u) \/ (i \in poll[p].list /\ u \in poll[p].user)
    PROVE  PollerInv'
<1>1. \A i, u : Pays(i, u)' <=> Pays(i, u)
  BY DEF Pays
<1>2. Len(txs') <= MaxTxs /\ addresses' \in SUBSET Users
  BY PollerTypes DEF PollerInv
<1> QED BY <1>1, <1>2, NothingCredited

LEMMA SendStep ==
    ASSUME PollerInv, NEW users \in SUBSET addresses, SendTo(users)
    PROVE  PollerInv'
<1>1. /\ txs' = Append(txs, [to |-> users, state |-> "unconfirmed"]) /\ Len(txs) < MaxTxs
      /\ UNCHANGED <<balance, credits, addresses, poll>>
  BY DEF SendTo, depositVars
<1>2. users \in SUBSET Users
  BY PollerTypes
<1>3. PollerTypeOK'
  BY <1>1, <1>2 DEF PollerInv, PollerTypeOK, DepositsTypeOK
<1>4. Len(txs') <= MaxTxs /\ \A i \in DOMAIN txs : i \in DOMAIN txs' /\ txs'[i] = txs[i]
  BY <1>1, AddressPollerAssumption DEF PollerInv, PollerTypeOK
<1>5. \A i, u : Pays(i, u) => Pays(i, u)'
  BY <1>4 DEF Pays
<1> QED BY <1>1, <1>3, <1>4, <1>5, PollerTypes, NothingCredited

LEMMA SettlesStep ==
    ASSUME PollerInv, NEW i \in DOMAIN txs, NEW state \in {"confirmed", "gone"}, Settles(i, state)
    PROVE  PollerInv'
<1>1. /\ txs' = [txs EXCEPT ![i].state = state] /\ txs[i].state = "unconfirmed"
      /\ UNCHANGED <<balance, credits, addresses, poll>>
  BY DEF Settles, depositVars
<1>2. /\ DOMAIN txs' = DOMAIN txs /\ Len(txs') = Len(txs)
      /\ \A j \in DOMAIN txs : j # i => txs'[j] = txs[j]
  BY <1>1 DEF PollerInv, PollerTypeOK
<1>3. PollerTypeOK'
  <2> DEFINE row == [txs[i] EXCEPT !.state = state]
  <2>1. row \in TxRows
    BY PollerTypes DEF TxRows
  <2>2. txs' = [txs EXCEPT ![i] = row]
    BY <1>1, PollerTypes
  <2> HIDE DEF row
  <2>3. txs' \in Seq(TxRows)
    BY <2>1, <2>2, PollerTypes, ExceptSeq
  <2> QED BY <1>1, <2>3 DEF PollerInv, PollerTypeOK, DepositsTypeOK, TxRows
<1>4. \A j, u : Pays(j, u) => Pays(j, u)'
  BY <1>1, <1>2 DEF Pays
<1>5. Len(txs') <= MaxTxs
  BY <1>2 DEF PollerInv
<1> QED BY <1>1, <1>3, <1>4, <1>5, PollerTypes, NothingCredited

LEMMA FetchAddressStep ==
    ASSUME PollerInv, WaitsForConfirmation, NEW p \in Polls, NEW u \in Users, Fetch(p, u)
    PROVE  PollerInv'
<1> DEFINE list == {i \in Listed(u) : Creditable(i)}
           q    == [poll[p] EXCEPT !.todo = poll[p].todo \ {u}, !.user = {u}, !.list = list]
<1>1. poll' = [poll EXCEPT ![p] = q] /\ UNCHANGED <<balance, credits, addresses, txs>>
  BY PollerTypes DEF Fetch, depositVars
<1>2. \A i \in list : Pays(i, u) /\ i \in Txs
  BY PollerTypes DEF Listed, Creditable, Pays
<1> HIDE DEF list
<1>3. /\ q \in PollRows
      /\ q.user = {u} /\ q.list = list
  BY <1>2, PollerTypes DEF PollRows
<1> HIDE DEF q
<1>4. PollerTypeOK' /\ \A r \in Polls : poll'[r] = IF r = p THEN q ELSE poll[r]
  BY <1>1, <1>3 DEF PollerInv, PollerTypeOK, DepositsTypeOK, PollRows
<1> QED BY <1>1, <1>2, <1>3, <1>4, PollOnly

LEMMA CreditAddressStep ==
    ASSUME PollerInv, NEW p \in Polls, NEW i \in Txs, Credit(p, i)
    PROVE  PollerInv'
<1> DEFINE q == [poll[p] EXCEPT !.list = poll[p].list \ {i}]
<1>1. PICK u \in poll[p].user : CreditDeposit(u, i, 1)
  BY DEF Credit
<1>2. poll' = [poll EXCEPT ![p] = q] /\ UNCHANGED txs /\ i \in poll[p].list
  BY DEF Credit, PollerInv, PollerTypeOK
<1>3. u \in Users /\ Pays(i, u)
  BY <1>2, PollerTypes DEF PollerInv, PollRows
<1>4. CreditsInv'
  BY <1>1, <1>3, CreditStep DEF PollerInv
<1>5. /\ q \in PollRows
      /\ q.user = poll[p].user /\ q.list \subseteq poll[p].list
  BY PollerTypes DEF PollRows
<1> HIDE DEF q
<1>6. PollerTypeOK' /\ \A r \in Polls : poll'[r] = IF r = p THEN q ELSE poll[r]
  BY <1>2, <1>4, <1>5 DEF PollerInv, PollerTypeOK, CreditsInv, PollRows
<1>7. ASSUME NEW r \in credits' PROVE Pays(r.tx, r.user)
  <2>1. CASE r \in credits
    BY <2>1 DEF PollerInv
  <2>2. CASE r \notin credits
    <3>1. r = [tx |-> i, user |-> u, amount |-> 1]
      BY <1>1, <1>7, <2>2 DEF CreditDeposit
    <3>2. r.tx = i /\ r.user = u
      BY <3>1
    <3> QED BY <1>3, <3>2
  <2> QED BY <2>1, <2>2
<1>8. \A r \in Polls : \A j \in poll'[r].list, v \in poll'[r].user : Pays(j, v)
  BY <1>5, <1>6 DEF PollerInv
<1>9. \A j, v : Pays(j, v)' <=> Pays(j, v)
  BY <1>2 DEF Pays
<1> QED BY <1>2, <1>4, <1>6, <1>7, <1>8, <1>9 DEF PollerInv

\* The other steps of a poll drop work, take an address off its list, or start over.
LEMMA DropStep ==
    ASSUME PollerInv, NEW p \in Polls,
           \/ StartPoll(p) \/ NextAddress(p) \/ EndPoll(p) \/ CreditFails(p)
           \/ \E u \in Users : FetchFails(p, u)
    PROVE  PollerInv'
<1>1. UNCHANGED <<balance, credits, addresses, txs>>
  BY DEF StartPoll, NextAddress, EndPoll, CreditFails, FetchFails, depositVars
<1>2. \E q \in PollRows : poll' = [poll EXCEPT ![p] = q] /\ q.list \subseteq poll[p].list
                   /\ q.user \subseteq poll[p].user
  <2>1. poll[p] \in PollRows /\ addresses \in SUBSET Users /\ poll \in [Polls -> PollRows]
    BY PollerTypes
  <2>2. CASE StartPoll(p)
    <3>1. [Idle EXCEPT !.on = TRUE, !.todo = addresses] \in PollRows
      BY <2>1 DEF Idle, PollRows
    <3>2. /\ [Idle EXCEPT !.on = TRUE, !.todo = addresses].list = {}
          /\ [Idle EXCEPT !.on = TRUE, !.todo = addresses].user = {}
      BY DEF Idle
    <3> QED BY <2>2, <3>1, <3>2 DEF StartPoll
  <2>3. CASE NextAddress(p)
    <3> DEFINE q == [poll[p] EXCEPT !.user = {}]
    <3>1. q \in PollRows /\ q.list = poll[p].list /\ q.user = {}
      BY <2>1 DEF PollRows
    <3>2. poll' = [poll EXCEPT ![p] = q]
      BY <2>1, <2>3 DEF NextAddress
    <3> QED BY <3>1, <3>2
  <2>4. CASE EndPoll(p)
    <3>1. Idle \in PollRows /\ Idle.list = {} /\ Idle.user = {}
      BY PollerTypes DEF Idle
    <3> QED BY <2>4, <3>1 DEF EndPoll
  <2>5. CASE CreditFails(p)
    <3> DEFINE q == [poll[p] EXCEPT !.list = {}, !.user = {}]
    <3>1. q \in PollRows /\ q.list = {} /\ q.user = {}
      BY <2>1 DEF PollRows
    <3>2. poll' = [poll EXCEPT ![p] = q]
      BY <2>1, <2>5 DEF CreditFails
    <3> QED BY <3>1, <3>2
  <2>6. ASSUME NEW u \in Users, FetchFails(p, u)
        PROVE  \E q \in PollRows : poll' = [poll EXCEPT ![p] = q] /\ q.list \subseteq poll[p].list
                           /\ q.user \subseteq poll[p].user
    <3> DEFINE q == [poll[p] EXCEPT !.todo = poll[p].todo \ {u}]
    <3>1. q \in PollRows /\ q.list = poll[p].list /\ q.user = poll[p].user
      BY <2>1 DEF PollRows
    <3>2. poll' = [poll EXCEPT ![p] = q]
      BY <2>1, <2>6 DEF FetchFails
    <3> QED BY <3>1, <3>2
  <2> QED BY <2>2, <2>3, <2>4, <2>5, <2>6
<1>3. PICK q \in PollRows : poll' = [poll EXCEPT ![p] = q] /\ q.list \subseteq poll[p].list
                     /\ q.user \subseteq poll[p].user
  BY <1>2
<1>4. PollerTypeOK' /\ \A r \in Polls : poll'[r] = IF r = p THEN q ELSE poll[r]
  BY <1>1, <1>3 DEF PollerInv, PollerTypeOK, DepositsTypeOK, PollRows
<1> QED BY <1>1, <1>3, <1>4, PollOnly

LEMMA PollerInvNext == WaitsForConfirmation /\ PollerInv /\ [Next]_pollerVars => PollerInv'
<1> SUFFICES ASSUME WaitsForConfirmation, PollerInv, [Next]_pollerVars PROVE PollerInv'
  OBVIOUS
<1>1. CASE UNCHANGED pollerVars
  <2>1. UNCHANGED <<balance, credits, addresses, txs, poll>>
    BY <1>1 DEF pollerVars, depositVars
  <2> QED BY <2>1, PollOnly DEF PollerInv, PollerTypeOK, DepositsTypeOK
<1>2. ASSUME NEW u \in Users, CreateAddress(u), UNCHANGED <<txs, poll>> PROVE PollerInv'
  <2>1. UNCHANGED <<balance, credits>> /\ addresses' \in SUBSET Users
    BY <1>2, PollerTypes DEF CreateAddress
  <2>2. PollerTypeOK' /\ Len(txs') <= MaxTxs
    BY <1>2, <2>1 DEF PollerInv, PollerTypeOK, DepositsTypeOK
  <2>3. \A i, v : Pays(i, v)' <=> Pays(i, v)
    BY <1>2 DEF Pays
  <2> QED BY <1>2, <2>1, <2>2, <2>3, NothingCredited
<1>3. ASSUME NEW users \in SUBSET addresses, SendTo(users) PROVE PollerInv'
  BY <1>3, SendStep
<1>4. ASSUME NEW i \in DOMAIN txs, NEW state \in {"confirmed", "gone"}, Settles(i, state)
      PROVE  PollerInv'
  BY <1>4, SettlesStep
<1>5. ASSUME NEW p \in Polls, PollGoesOn(p) \/ PollFails(p) PROVE PollerInv'
  <2>1. CASE StartPoll(p) \/ NextAddress(p) \/ EndPoll(p) \/ CreditFails(p)
    BY <2>1, DropStep
  <2>2. ASSUME NEW u \in Users, Fetch(p, u) PROVE PollerInv'
    BY <2>2, FetchAddressStep
  <2>3. ASSUME NEW i \in Txs, Credit(p, i) PROVE PollerInv'
    BY <2>3, CreditAddressStep
  <2>4. ASSUME NEW u \in Users, FetchFails(p, u) PROVE PollerInv'
    BY <2>4, DropStep
  <2> QED BY <1>5, <2>1, <2>2, <2>3, <2>4 DEF PollGoesOn, PollFails
<1>6. CASE Restart
  <2>1. poll' = [p \in Polls |-> Idle] /\ UNCHANGED <<balance, credits, addresses, txs>>
    BY <1>6 DEF Restart, depositVars
  <2>2. PollerTypeOK'
    BY <2>1 DEF PollerInv, PollerTypeOK, DepositsTypeOK, Idle
  <2>3. \A p \in Polls : poll'[p].list = {}
    BY <2>1 DEF Idle
  <2> QED BY <2>1, <2>2, <2>3, PollOnly
<1> QED BY <1>1, <1>2, <1>3, <1>4, <1>5, <1>6 DEF Next

-----------------------------------------------------------------------------
\* The BTC poller never credits more than has confirmed for a user, however many of
\* its polls overlap, how old their answers are, and wherever one fails or dies.
THEOREM ConfirmedBacked ==
    ASSUME WaitsForConfirmation
    PROVE  Spec => []NoUnbackedCredit
<1>1. PollerInv /\ [Next]_pollerVars => PollerInv'
  BY PollerInvNext
<1>2. PollerInv => NoUnbackedCredit
  <2> SUFFICES ASSUME PollerInv, NEW u \in Users
               PROVE  balance[u] <= Cardinality({i \in DOMAIN txs :
                                        u \in txs[i].to /\ txs[i].state = "confirmed"})
    BY DEF NoUnbackedCredit
  <2> DEFINE S == {i \in DOMAIN txs : u \in txs[i].to /\ txs[i].state = "confirmed"}
  <2>1. S \in SUBSET Txs
    BY PollerTypes
  <2>2. CreditsOf(u) \subseteq S
    BY DEF CreditsOf, Credited, PollerInv, Pays
  <2> HIDE DEF S
  <2>3. balance[u] <= Cardinality(S)
    BY <2>1, <2>2, CreditsBacked DEF PollerInv
  <2> QED BY <2>3 DEF S
<1> QED BY <1>1, <1>2, PollerInvInit, PTL DEF Spec

-----------------------------------------------------------------------------
(* The ETH poller.                                                          *)

\* The process is to look at t; the turn of t has come.
Watched(t) == watched # Nil /\ InChain(t) /\ watched <= block[t].at
Done(t)    == Credited(block[t].user, t) \/ t \in lost

\* The chain's transfers are in blocks up to the tip and pay addresses; credits are
\* of the chain's transfers, for whom they pay.
ChainInv ==
    /\ \A t \in Txs : InChain(t) => block[t].at <= tip /\ block[t].user \in addresses
    /\ \A r \in credits : InChain(r.tx) /\ block[r.tx].user = r.user

CursorInv ==
    /\ lastChecked = Nil <=> watched = Nil
    /\ lastChecked # Nil => \A t \in Txs : Watched(t) /\ block[t].at <= lastChecked => Done(t)
    /\ lastChecked # Nil => lastChecked <= tip

\* A poll with a window starts no later than the blocks that are through, and has
\* every other transfer of its window still to come.
PollInv(p) ==
    LET q == ethPoll[p]
    IN  /\ q.to <= tip
        /\ q.pc # "credit" => q.user = {} /\ q.list = {}
        /\ \A t \in q.list : InChain(t) /\ q.user = {block[t].user}
        /\ q.pc \in {"addresses", "fetch", "credit"} =>
              /\ watched # Nil /\ q.from <= q.to
              /\ \A t \in Txs : Watched(t) /\ block[t].at < q.from => Done(t)
        /\ q.pc \in {"fetch", "credit"} =>
              \A t \in Txs :
                 Watched(t) /\ q.from <= block[t].at /\ block[t].at <= q.to =>
                    Done(t) \/ block[t].user \in q.todo \/ t \in q.list

EthInv == EthTypeOK /\ CreditsInv /\ ChainInv /\ CursorInv /\ \A p \in EthPolls : PollInv(p)

-----------------------------------------------------------------------------
LEMMA EthTypes ==
    ASSUME EthTypeOK
    PROVE  /\ tip \in Nat /\ MaxTip \in Nat /\ Nil \notin Nat
           /\ \A t \in Txs : InChain(t) => block[t].at \in Nat /\ block[t].user \in Users
           /\ lastChecked # Nil => lastChecked \in Nat
           /\ watched # Nil => watched \in Nat
           /\ \A p \in EthPolls : /\ ethPoll[p].from \in Nat /\ ethPoll[p].to \in Nat
                               /\ ethPoll[p].list \subseteq Txs
BY EthPollerAssumption DEF EthTypeOK, InChain

LEMMA NewTypes ==
    ASSUME EthTypeOK'
    PROVE  \A t \in Txs : InChain(t)' => block'[t].at \in Nat
BY EthPollerAssumption DEF EthTypeOK, InChain

LEMMA EthInvInit == EthInit => EthInv
<1> SUFFICES ASSUME EthInit PROVE EthInv
  OBVIOUS
<1>1. CreditsInv /\ credits = {}
  BY CreditsInvInit DEF EthInit, DepositsInit
<1>2. EthTypeOK
  BY <1>1, EthPollerAssumption DEF EthInit, EthTypeOK, EthIdle, CreditsInv
<1>3. ChainInv /\ CursorInv
  BY <1>1 DEF EthInit, ChainInv, CursorInv, InChain
<1>4. \A p \in EthPolls : PollInv(p)
  BY DEF EthInit, PollInv, EthIdle
<1> QED BY <1>1, <1>2, <1>3, <1>4 DEF EthInv

\* What every step keeps: the chain grows at its tip, and nothing done is undone.
Grows ==
    /\ tip' \in Nat /\ tip <= tip'
    /\ \A t \in Txs : InChain(t) => block'[t] = block[t]
    /\ \A t \in Txs : InChain(t)' /\ ~InChain(t) => tip < block'[t].at
    /\ \A u \in Users, t \in Txs : Credited(u, t) => Credited(u, t)'
    /\ lost \subseteq lost'
    /\ watched' = watched \/ watched = Nil

LEMMA DoneStays ==
    ASSUME EthInv, Grows, NEW t \in Txs, InChain(t)
    PROVE  InChain(t)' /\ block'[t] = block[t] /\ (Done(t) => Done(t)')
<1>1. block'[t] = block[t] /\ block[t].user \in Users
  BY EthTypes DEF Grows, EthInv
<1> QED BY <1>1 DEF Grows, Done, InChain

\* What is in a block up to the old tip was there before the step.
LEMMA OldBlocks ==
    ASSUME EthInv, Grows, NEW t \in Txs, InChain(t)', NEW n \in Nat, n <= tip,
           block'[t].at \in Nat, block'[t].at <= n
    PROVE  InChain(t)
BY EthTypes DEF Grows, EthInv

LEMMA OtherPolls ==
    ASSUME EthInv, EthTypeOK', Grows, NEW p \in EthPolls, ethPoll'[p] = ethPoll[p]
    PROVE  PollInv(p)'
<1> DEFINE q == ethPoll[p]
<1>1. /\ q.to \in Nat /\ q.from \in Nat /\ q.list \subseteq Txs
      /\ tip \in Nat /\ tip' \in Nat /\ tip <= tip' /\ q.to <= tip
  BY EthTypes DEF Grows, EthInv, PollInv
<1>2. q.pc # "credit" => q.user = {} /\ q.list = {}
  BY DEF EthInv, PollInv
<1>3. \A t \in q.list : InChain(t)' /\ q.user = {block'[t].user}
  BY <1>1, DoneStays DEF EthInv, PollInv
<1>4. ASSUME q.pc \in {"addresses", "fetch", "credit"}
      PROVE  watched # Nil /\ watched' = watched /\ q.from <= q.to
  BY <1>4 DEF EthInv, PollInv, Grows
<1>5. ASSUME NEW t \in Txs, Watched(t)', block'[t].at <= q.to, watched # Nil, watched' = watched
      PROVE  Watched(t) /\ block'[t] = block[t] /\ (Done(t) => Done(t)')
  <2>1. InChain(t)
    BY <1>1, <1>5, NewTypes, OldBlocks DEF Watched
  <2> QED BY <1>5, <2>1, DoneStays DEF Watched
<1>6. ASSUME q.pc \in {"addresses", "fetch", "credit"}, NEW t \in Txs, Watched(t)',
             block'[t].at < q.from
      PROVE  Done(t)'
  <2>1. block'[t].at <= q.to
    BY <1>1, <1>4, <1>6, NewTypes DEF Watched
  <2> QED BY <1>4, <1>5, <1>6, <2>1 DEF EthInv, PollInv
<1>7. ASSUME q.pc \in {"fetch", "credit"}, NEW t \in Txs, Watched(t)',
             q.from <= block'[t].at, block'[t].at <= q.to
      PROVE  Done(t)' \/ block'[t].user \in q.todo \/ t \in q.list
  BY <1>4, <1>5, <1>7 DEF EthInv, PollInv
<1> HIDE DEF q
<1> QED BY <1>1, <1>2, <1>3, <1>4, <1>6, <1>7 DEF PollInv, q

LEMMA CursorKept ==
    ASSUME EthInv, EthTypeOK', Grows, lastChecked' = lastChecked, watched' = watched
    PROVE  CursorInv'
<1>1. ASSUME lastChecked # Nil, NEW t \in Txs, Watched(t)', block'[t].at <= lastChecked
      PROVE  Done(t)'
  <2>1. lastChecked \in Nat /\ lastChecked <= tip
    BY <1>1, EthTypes DEF EthInv, CursorInv
  <2>2. InChain(t)
    BY <1>1, <2>1, NewTypes, OldBlocks DEF Watched
  <2> QED BY <1>1, <2>2, DoneStays DEF EthInv, CursorInv, Watched
<1>2. lastChecked # Nil => lastChecked <= tip'
  BY EthTypes DEF EthInv, CursorInv, Grows
<1> QED BY <1>1, <1>2 DEF EthInv, CursorInv

\* Steps of polls leave the chain alone.
Polling == UNCHANGED <<tip, block, addresses>> /\ lost \subseteq lost'

LEMMA PollingGrows ==
    ASSUME EthInv, Polling, watched' = watched \/ watched = Nil,
           \A u \in Users, t \in Txs : Credited(u, t) => Credited(u, t)'
    PROVE  Grows
BY EthTypes DEF EthInv, Polling, Grows, InChain

\* A step of one poll that credits nothing and leaves the cursor alone.
LEMMA OwnStep ==
    ASSUME EthInv, NEW p \in EthPolls, Polling, EthTypeOK',
           UNCHANGED <<balance, credits, lastChecked, watched>>,
           \A r \in EthPolls \ {p} : ethPoll'[r] = ethPoll[r],
           PollInv(p)'
    PROVE  EthInv'
<1>1. Grows
  BY PollingGrows DEF Credited
<1>2. CreditsInv'
  BY CreditsKept DEF Polling, EthInv, CreditsInv, DepositsTypeOK
<1>3. ChainInv'
  BY DEF Polling, EthInv, ChainInv, InChain
<1>4. \A r \in EthPolls : PollInv(r)'
  BY <1>1, OtherPolls
<1> QED BY <1>1, <1>2, <1>3, <1>4, CursorKept DEF EthInv

LEMMA AddressStep ==
    ASSUME EthInv, NEW u \in Users, CreateAddress(u),
           UNCHANGED <<tip, block, lastChecked, watched, lost, ethPoll>>
    PROVE  EthInv'
<1>1. addresses \subseteq addresses' /\ addresses' \in SUBSET Users /\ UNCHANGED <<balance, credits>>
  BY DEF CreateAddress, EthInv, CreditsInv, DepositsTypeOK
<1>2. CreditsInv'
  BY <1>1, CreditsKept DEF EthInv
<1>3. EthTypeOK'
  BY <1>2 DEF EthInv, EthTypeOK, CreditsInv
<1>4. Grows
  BY <1>1, EthTypes DEF EthInv, Grows, InChain, Credited
<1>5. ChainInv'
  BY <1>1 DEF EthInv, ChainInv, InChain
<1> QED BY <1>2, <1>3, <1>4, <1>5, CursorKept, OtherPolls DEF EthInv

LEMMA MineStep ==
    ASSUME EthInv, Mine
    PROVE  EthInv'
<1>0. PICK new \in SUBSET {t \in Txs : block[t] = Nil} : \E to \in [new -> addresses] :
          block' = [t \in Txs |-> IF t \in new THEN [at |-> tip', user |-> to[t]] ELSE block[t]]
  BY DEF Mine
<1>1. PICK to \in [new -> addresses] :
          block' = [t \in Txs |-> IF t \in new THEN [at |-> tip', user |-> to[t]] ELSE block[t]]
  BY <1>0
<1>2. /\ tip \in Nat /\ tip' = tip + 1 /\ tip' \in 1..MaxTip
      /\ UNCHANGED <<balance, credits, addresses, lastChecked, watched, lost, ethPoll>>
  BY EthTypes DEF EthInv, Mine, depositVars
<1>3. /\ \A t \in Txs : t \in new => block'[t].at = tip + 1 /\ block'[t].user = to[t]
      /\ \A t \in Txs : t \notin new => block'[t] = block[t]
  <2> DEFINE row(t) == [at |-> tip', user |-> to[t]]
  <2>1. \A t \in Txs : row(t).at = tip + 1 /\ row(t).user = to[t]
    BY <1>2
  <2>2. \A t \in Txs : block'[t] = IF t \in new THEN row(t) ELSE block[t]
    BY <1>1
  <2> HIDE DEF row
  <2> QED BY <2>1, <2>2
<1>4. \A t \in new : to[t] \in addresses /\ to[t] \in Users
  BY <1>1 DEF EthInv, CreditsInv, DepositsTypeOK
<1>5. CreditsInv'
  BY <1>2, CreditsKept DEF EthInv, CreditsInv, DepositsTypeOK
<1>6. EthTypeOK'
  <2>1. block' \in [Txs -> [at : 1..MaxTip, user : Users] \cup {Nil}]
    BY <1>1, <1>2, <1>4 DEF EthInv, EthTypeOK
  <2> QED BY <1>2, <1>5, <2>1 DEF EthInv, EthTypeOK, CreditsInv
<1>7. Grows
  <2>1. \A t \in Txs : InChain(t) => block'[t] = block[t]
    BY <1>3 DEF InChain
  <2>2. \A t \in Txs : InChain(t)' /\ ~InChain(t) => tip < block'[t].at
    <3>1. \A t \in Txs : InChain(t)' /\ ~InChain(t) => t \in new
      BY <1>3 DEF InChain
    <3> QED BY <1>2, <1>3, <3>1
  <2> QED BY <1>2, <2>1, <2>2 DEF Grows, Credited
<1>8. ChainInv'
  <2>1. \A t \in Txs : InChain(t)' => block'[t].at <= tip' /\ block'[t].user \in addresses'
    <3>1. ASSUME NEW t \in Txs, t \in new
          PROVE  block'[t].at <= tip' /\ block'[t].user \in addresses'
      BY <1>2, <1>3, <1>4, <3>1
    <3>2. ASSUME NEW t \in Txs, t \notin new, InChain(t)'
          PROVE  block'[t].at <= tip' /\ block'[t].user \in addresses'
      <4>1. InChain(t) /\ block'[t] = block[t]
        BY <1>3, <3>2 DEF InChain
      <4>2. block[t].at \in Nat /\ block[t].at <= tip /\ block[t].user \in addresses
        BY <4>1, EthTypes DEF EthInv, ChainInv
      <4> QED BY <1>2, <4>1, <4>2
    <3> QED BY <3>1, <3>2
  <2>2. \A r \in credits : r.tx \in Txs
    BY DEF EthInv, CreditsInv, DepositsTypeOK
  <2>3. \A r \in credits' : InChain(r.tx)' /\ block'[r.tx].user = r.user
    BY <1>2, <1>7, <2>2 DEF Grows, EthInv, ChainInv, InChain
  <2> QED BY <2>1, <2>3 DEF ChainInv
<1>9. \A p \in EthPolls : PollInv(p)'
  BY <1>2, <1>6, <1>7, OtherPolls
<1> QED BY <1>2, <1>5, <1>6, <1>7, <1>8, <1>9, CursorKept DEF EthInv

PollStates == [pc : {"idle", "tip", "addresses", "fetch", "credit"},
               from : 0..(MaxTip + 1), to : 0..MaxTip,
               todo : SUBSET Users, user : SUBSET Users, list : SUBSET Txs]

LEMMA PollBecomes ==
    ASSUME EthTypeOK, NEW p \in EthPolls, NEW q \in PollStates, ethPoll' = [ethPoll EXCEPT ![p] = q]
    PROVE  /\ ethPoll'[p] = q /\ \A r \in EthPolls \ {p} : ethPoll'[r] = ethPoll[r]
           /\ UNCHANGED <<balance, credits, addresses, tip, block>> /\ lost' \in SUBSET Txs
              /\ lastChecked' \in 0..MaxTip \cup {Nil} /\ watched' \in 1..(MaxTip + 1) \cup {Nil}
                 => EthTypeOK'
BY DEF EthTypeOK, DepositsTypeOK, PollStates

LEMMA PollStateTypes ==
    ASSUME EthTypeOK
    PROVE  /\ \A p \in EthPolls : ethPoll[p] \in PollStates
           /\ lost \in SUBSET Txs /\ lastChecked \in 0..MaxTip \cup {Nil}
           /\ watched \in 1..(MaxTip + 1) \cup {Nil}
BY DEF EthTypeOK, PollStates

LEMMA ReadTipStep ==
    ASSUME EthInv, NEW p \in EthPolls, ReadTip(p)
    PROVE  EthInv'
<1> DEFINE q == [EthIdle EXCEPT !.pc = "tip", !.to = tip]
<1>1. /\ ethPoll' = [ethPoll EXCEPT ![p] = q]
      /\ UNCHANGED <<balance, credits, addresses, tip, block, lastChecked, watched, lost>>
  BY DEF ReadTip, depositVars
<1>2. tip \in 0..MaxTip /\ tip \in Nat
  BY EthTypes DEF EthInv, EthTypeOK
<1>3. q.pc = "tip" /\ q.to = tip /\ q.user = {} /\ q.list = {}
  BY DEF EthIdle
<1>4. q \in PollStates
  <2> DEFINE i == EthIdle
  <2>1. i \in PollStates
    BY EthPollerAssumption DEF PollStates, EthIdle
  <2> HIDE DEF i
  <2>2. [i EXCEPT !.pc = "tip", !.to = tip] \in PollStates
    BY <1>2, <2>1 DEF PollStates
  <2> QED BY <2>2 DEF i
<1> HIDE DEF q
<1>5. EthTypeOK' /\ ethPoll'[p] = q /\ \A r \in EthPolls \ {p} : ethPoll'[r] = ethPoll[r]
  BY <1>1, <1>4, PollBecomes, PollStateTypes DEF EthInv
<1>6. PollInv(p)'
  BY <1>1, <1>2, <1>3, <1>5 DEF PollInv
<1> QED BY <1>1, <1>5, <1>6, OwnStep DEF Polling

LEMMA ReadAddressesStep ==
    ASSUME EthInv, NEW p \in EthPolls, ReadAddresses(p)
    PROVE  EthInv'
<1> DEFINE q == [ethPoll[p] EXCEPT !.pc = "fetch", !.todo = addresses]
<1>1. /\ ethPoll' = [ethPoll EXCEPT ![p] = q] /\ ethPoll[p].pc = "addresses"
      /\ UNCHANGED <<balance, credits, addresses, tip, block, lastChecked, watched, lost>>
  BY DEF ReadAddresses, depositVars, EthInv, EthTypeOK
<1>2. addresses \in SUBSET Users
  BY DEF EthInv, CreditsInv, DepositsTypeOK
<1>3. /\ q.pc = "fetch" /\ q.todo = addresses /\ q.user = ethPoll[p].user
      /\ q.list = ethPoll[p].list /\ q.from = ethPoll[p].from /\ q.to = ethPoll[p].to
  BY PollStateTypes DEF EthInv, PollStates
<1>4. q \in PollStates
  BY <1>2, PollStateTypes DEF EthInv, PollStates
<1> HIDE DEF q
<1>5. EthTypeOK' /\ ethPoll'[p] = q /\ \A r \in EthPolls \ {p} : ethPoll'[r] = ethPoll[r]
  BY <1>1, <1>4, PollBecomes, PollStateTypes DEF EthInv
<1>6. PollInv(p)'
  BY <1>1, <1>3, <1>5 DEF EthInv, PollInv, ChainInv, Watched, Done, InChain, Credited
<1> QED BY <1>1, <1>5, <1>6, OwnStep DEF Polling

LEMMA FetchStep ==
    ASSUME EthInv, NEW p \in EthPolls, NEW u \in Users, FetchTransfers(p, u)
    PROVE  EthInv'
<1> DEFINE q == [ethPoll[p] EXCEPT !.pc = "credit", !.todo = ethPoll[p].todo \ {u}, !.user = {u},
                                !.list = InWindow(p, u)]
<1>1. /\ ethPoll' = [ethPoll EXCEPT ![p] = q] /\ ethPoll[p].pc = "fetch"
      /\ UNCHANGED <<balance, credits, addresses, tip, block, lastChecked, watched, lost>>
  BY DEF FetchTransfers, depositVars, EthInv, EthTypeOK
<1>2. /\ q.pc = "credit" /\ q.todo = ethPoll[p].todo \ {u} /\ q.user = {u}
      /\ q.list = InWindow(p, u) /\ q.from = ethPoll[p].from /\ q.to = ethPoll[p].to
  BY PollStateTypes DEF EthInv, PollStates
<1>3. q \in PollStates
  <2>1. InWindow(p, u) \in SUBSET Txs
    BY DEF InWindow
  <2> QED BY <2>1, PollStateTypes DEF EthInv, PollStates
<1> HIDE DEF q
<1>4. EthTypeOK' /\ ethPoll'[p] = q /\ \A r \in EthPolls \ {p} : ethPoll'[r] = ethPoll[r]
  BY <1>1, <1>3, PollBecomes, PollStateTypes DEF EthInv
<1>5. PollInv(p)'
  <2>1. \A t \in InWindow(p, u) : InChain(t)' /\ {u} = {block'[t].user}
    BY <1>1 DEF InWindow, InChain
  <2>2. ASSUME NEW t \in Txs, Watched(t)', ethPoll[p].from <= block[t].at, block[t].at <= ethPoll[p].to
        PROVE  Done(t)' \/ block[t].user \in ethPoll[p].todo \ {u} \/ t \in InWindow(p, u)
    BY <1>1, <2>2 DEF EthInv, PollInv, Watched, Done, InChain, Credited, InWindow
  <2> QED BY <1>1, <1>2, <1>4, <2>1, <2>2 DEF EthInv, PollInv, Watched, Done, InChain, Credited
<1> QED BY <1>1, <1>4, <1>5, OwnStep DEF Polling

LEMMA FetchFailsStep ==
    ASSUME EthInv, NEW p \in EthPolls, NEW u \in Users, FetchTransfersFails(p, u)
    PROVE  EthInv'
<1>1. /\ ethPoll' = [ethPoll EXCEPT ![p].todo = @ \ {u}] /\ lost' = lost \cup InWindow(p, u)
      /\ ethPoll[p].pc = "fetch"
      /\ UNCHANGED <<balance, credits, addresses, tip, block, lastChecked, watched>>
  BY DEF FetchTransfersFails, depositVars
<1>2. \A r \in EthPolls \ {p} : ethPoll'[r] = ethPoll[r]
  BY <1>1 DEF EthInv, EthTypeOK
<1>3. /\ ethPoll'[p].pc = "fetch" /\ ethPoll'[p].todo = ethPoll[p].todo \ {u} /\ ethPoll'[p].user = ethPoll[p].user
      /\ ethPoll'[p].list = ethPoll[p].list /\ ethPoll'[p].from = ethPoll[p].from /\ ethPoll'[p].to = ethPoll[p].to
  BY <1>1 DEF EthInv, EthTypeOK
<1>4. EthTypeOK'
  <2>1. InWindow(p, u) \in SUBSET Txs
    BY DEF InWindow
  <2> QED BY <1>1, <2>1 DEF EthInv, EthTypeOK, DepositsTypeOK
<1>5. PollInv(p)'
  <2>1. ASSUME NEW t \in Txs, Watched(t)', ethPoll[p].from <= block[t].at, block[t].at <= ethPoll[p].to
        PROVE  Done(t)' \/ block[t].user \in ethPoll[p].todo \ {u} \/ t \in ethPoll[p].list
    BY <1>1, <2>1 DEF EthInv, PollInv, Watched, Done, InChain, Credited, InWindow
  <2> QED BY <1>1, <1>3, <2>1 DEF EthInv, PollInv, Watched, Done, InChain, Credited
<1> QED BY <1>1, <1>2, <1>4, <1>5, OwnStep DEF Polling

LEMMA NextAddressStep ==
    ASSUME EthInv, NEW p \in EthPolls, NextEthAddress(p)
    PROVE  EthInv'
<1>1. /\ ethPoll' = [ethPoll EXCEPT ![p] = [@ EXCEPT !.pc = "fetch", !.user = {}, !.list = {}]]
      /\ ethPoll[p].pc = "credit" /\ lost' = lost \cup ethPoll[p].list
      /\ UNCHANGED <<balance, credits, addresses, tip, block, lastChecked, watched>>
  BY DEF NextEthAddress, depositVars
<1>2. \A r \in EthPolls \ {p} : ethPoll'[r] = ethPoll[r]
  BY <1>1 DEF EthInv, EthTypeOK
<1>3. /\ ethPoll'[p].pc = "fetch" /\ ethPoll'[p].todo = ethPoll[p].todo /\ ethPoll'[p].user = {}
      /\ ethPoll'[p].list = {} /\ ethPoll'[p].from = ethPoll[p].from /\ ethPoll'[p].to = ethPoll[p].to
  BY <1>1 DEF EthInv, EthTypeOK
<1>4. EthTypeOK'
  <2> DEFINE q == [ethPoll[p] EXCEPT !.pc = "fetch", !.user = {}, !.list = {}]
  <2>1. q \in PollStates /\ ethPoll[p].list \in SUBSET Txs /\ lost \in SUBSET Txs
    BY PollStateTypes DEF EthInv, PollStates
  <2>2. ethPoll' = [ethPoll EXCEPT ![p] = q] /\ lost' \in SUBSET Txs
    BY <1>1, <2>1 DEF EthInv, EthTypeOK
  <2> HIDE DEF q
  <2> QED BY <1>1, <2>1, <2>2, PollBecomes, PollStateTypes DEF EthInv
<1>5. PollInv(p)'
  BY <1>1, <1>3 DEF EthInv, PollInv, Watched, Done, InChain, Credited
<1> QED BY <1>1, <1>2, <1>4, <1>5, OwnStep DEF Polling

LEMMA PollFailsStep ==
    ASSUME EthInv, NEW p \in EthPolls, EthPollFails(p)
    PROVE  EthInv'
<1>1. /\ ethPoll' = [ethPoll EXCEPT ![p] = EthIdle]
      /\ UNCHANGED <<balance, credits, addresses, tip, block, lastChecked, watched, lost>>
  BY DEF EthPollFails, depositVars
<1>2. ethPoll'[p] = EthIdle /\ \A r \in EthPolls \ {p} : ethPoll'[r] = ethPoll[r]
  BY <1>1 DEF EthInv, EthTypeOK
<1>3. EthTypeOK'
  BY <1>1, EthPollerAssumption DEF EthInv, EthTypeOK, DepositsTypeOK, EthIdle
<1>4. PollInv(p)'
  BY <1>1, <1>2, EthTypes DEF EthInv, PollInv, EthIdle
<1> QED BY <1>1, <1>2, <1>3, <1>4, OwnStep DEF Polling

\* The first window starts the watch; a later one starts behind the cursor.
LEMMA ChooseWindowStep ==
    ASSUME EthInv, NEW p \in EthPolls, ChooseWindow(p)
    PROVE  EthInv'
<1> DEFINE checked == IF lastChecked = Nil THEN FirstChecked(ethPoll[p].to) ELSE lastChecked
           active  == [ethPoll[p] EXCEPT !.pc = "addresses", !.from = checked + 1]
           q       == IF ethPoll[p].to <= checked THEN EthIdle ELSE active
<1>1. /\ ethPoll' = [ethPoll EXCEPT ![p] = q] /\ ethPoll[p].pc = "tip"
      /\ lastChecked' = checked
      /\ watched' = IF lastChecked = Nil THEN checked + 1 ELSE watched
      /\ UNCHANGED <<balance, credits, addresses, tip, block, lost>>
  BY DEF ChooseWindow, depositVars
<1>2. /\ ethPoll[p].to \in Nat /\ ethPoll[p].to <= tip /\ ethPoll[p].to <= MaxTip /\ tip \in Nat
      /\ MaxTip \in Nat /\ Nil \notin Nat /\ Lookback \in Nat
      /\ ethPoll[p].user = {} /\ ethPoll[p].list = {}
  BY <1>1, EthTypes, PollStateTypes, EthPollerAssumption DEF EthInv, PollInv, PollStates
<1>3. checked \in Nat /\ checked <= tip /\ checked <= MaxTip
  <2>1. CASE lastChecked = Nil
    BY <1>2, <2>1 DEF FirstChecked
  <2>2. CASE lastChecked # Nil
    BY <1>2, <2>2, EthTypes, PollStateTypes DEF EthInv, CursorInv
  <2> QED BY <2>1, <2>2
<1> HIDE DEF checked
<1>4. /\ active.pc = "addresses" /\ active.from = checked + 1 /\ active.to = ethPoll[p].to
      /\ active.user = {} /\ active.list = {} /\ active \in PollStates
  <2>1. ethPoll[p] \in PollStates /\ checked + 1 \in 0..(MaxTip + 1)
    BY <1>2, <1>3, PollStateTypes DEF EthInv
  <2>2. /\ active.pc = "addresses" /\ active.from = checked + 1 /\ active.to = ethPoll[p].to
        /\ active.user = ethPoll[p].user /\ active.list = ethPoll[p].list
    BY <2>1 DEF PollStates
  <2>3. active \in PollStates
    BY <2>1 DEF PollStates
  <2> QED BY <1>2, <2>2, <2>3
<1>5. EthIdle \in PollStates /\ EthIdle.to = 0 /\ EthIdle.user = {} /\ EthIdle.list = {} /\ EthIdle.pc = "idle"
  BY <1>2 DEF EthIdle, PollStates
<1> HIDE DEF active
<1>6. q \in PollStates /\ (q = EthIdle \/ (q = active /\ checked < ethPoll[p].to))
  <2>1. CASE ethPoll[p].to <= checked
    BY <1>5, <2>1
  <2>2. CASE ~(ethPoll[p].to <= checked)
    <3>1. checked < ethPoll[p].to /\ q = active
      BY <1>2, <1>3, <2>2
    <3> QED BY <1>4, <3>1
  <2> QED BY <2>1, <2>2
<1> HIDE DEF q
<1>7. lastChecked' \in 0..MaxTip \cup {Nil} /\ watched' \in 1..(MaxTip + 1) \cup {Nil}
  BY <1>1, <1>2, <1>3, PollStateTypes DEF EthInv
<1>8. EthTypeOK' /\ ethPoll'[p] = q /\ \A r \in EthPolls \ {p} : ethPoll'[r] = ethPoll[r]
  BY <1>1, <1>6, <1>7, PollBecomes, PollStateTypes DEF EthInv
<1>9. Grows
  BY <1>1, PollingGrows DEF EthInv, CursorInv, Polling, Credited
<1>10. CreditsInv' /\ ChainInv'
  BY <1>1, CreditsKept DEF EthInv, CreditsInv, DepositsTypeOK, ChainInv, InChain
<1>11. lastChecked' \in Nat /\ lastChecked' <= tip' /\ watched' # Nil
  BY <1>1, <1>2, <1>3 DEF EthInv, CursorInv
<1>12. ASSUME NEW t \in Txs, Watched(t)', block[t].at <= checked
       PROVE  Done(t)'
  <2>1. block[t].at \in Nat /\ InChain(t)
    BY <1>1, <1>12, EthTypes DEF EthInv, Watched, InChain
  <2>2. lastChecked # Nil
    BY <1>1, <1>3, <1>12, <2>1 DEF Watched
  <2>3. Watched(t) /\ block[t].at <= lastChecked
    BY <1>1, <1>12, <2>1, <2>2 DEF Watched, checked
  <2> QED BY <1>1, <2>2, <2>3 DEF EthInv, CursorInv, Done, Credited
<1>13. CursorInv'
  BY <1>1, <1>2, <1>11, <1>12 DEF CursorInv
<1>14. PollInv(p)'
  <2>1. CASE q = EthIdle
    BY <1>1, <1>2, <1>5, <1>8, <2>1 DEF PollInv
  <2>2. CASE q = active /\ checked < ethPoll[p].to
    <3>1. ASSUME NEW t \in Txs, Watched(t)', block[t].at < checked + 1
          PROVE  Done(t)'
      <4>1. block[t].at <= checked
        BY <1>1, <1>3, <3>1, EthTypes DEF EthInv, Watched, InChain
      <4> QED BY <1>12, <3>1, <4>1
    <3> QED BY <1>1, <1>2, <1>3, <1>4, <1>8, <1>11, <2>2, <3>1 DEF PollInv
  <2> QED BY <1>6, <2>1, <2>2
<1> QED BY <1>8, <1>9, <1>10, <1>13, <1>14, OtherPolls DEF EthInv

LEMMA CreditEthStep ==
    ASSUME EthInv, NEW p \in EthPolls, NEW t \in Txs, CreditTransfer(p, t)
    PROVE  EthInv'
<1> DEFINE q == [ethPoll[p] EXCEPT !.list = @ \ {t}]
<1>1. PICK u \in ethPoll[p].user : CreditDeposit(u, t, 1)
  BY DEF CreditTransfer
<1>2. /\ ethPoll' = [ethPoll EXCEPT ![p] = q] /\ ethPoll[p].pc = "credit" /\ t \in ethPoll[p].list
      /\ UNCHANGED <<tip, block, lastChecked, watched, lost>>
  BY DEF CreditTransfer, EthInv, EthTypeOK
<1>3. u \in Users /\ InChain(t) /\ block[t].user = u
  BY <1>2, PollStateTypes DEF EthInv, PollInv, PollStates
<1>4. /\ q \in PollStates /\ q.list = ethPoll[p].list \ {t} /\ q.pc = "credit" /\ q.user = ethPoll[p].user
      /\ q.todo = ethPoll[p].todo /\ q.from = ethPoll[p].from /\ q.to = ethPoll[p].to
  BY <1>2, PollStateTypes DEF EthInv, PollStates
<1> HIDE DEF q
<1>5. /\ CreditsInv'
      /\ \A v \in Users, x \in Txs :
            Credited(v, x)' <=> Credited(v, x) \/ (~Seen(t) /\ v = u /\ x = t)
  BY <1>1, <1>3, CreditStep DEF EthInv
<1>6. addresses' = addresses
  BY <1>1 DEF CreditDeposit
<1>7. ethPoll'[p] = q /\ \A r \in EthPolls \ {p} : ethPoll'[r] = ethPoll[r]
  BY <1>2, <1>4, PollBecomes DEF EthInv
<1>8. EthTypeOK'
  <2>1. ethPoll' \in [EthPolls -> PollStates]
    BY <1>2, <1>4 DEF EthInv, EthTypeOK, PollStates
  <2> QED BY <1>2, <1>5, <2>1 DEF EthInv, EthTypeOK, CreditsInv, PollStates
<1>9. Grows
  BY <1>2, <1>5, <1>6, PollingGrows DEF Polling
<1>10. ChainInv'
  <2>1. ASSUME NEW r \in credits' PROVE InChain(r.tx)' /\ block'[r.tx].user = r.user
    <3>1. CASE r \in credits
      BY <1>2, <3>1 DEF EthInv, ChainInv, InChain
    <3>2. CASE r \notin credits
      <4>1. r = [tx |-> t, user |-> u, amount |-> 1]
        BY <1>1, <3>2 DEF CreditDeposit
      <4>2. r.tx = t /\ r.user = u
        BY <4>1
      <4> QED BY <1>2, <1>3, <4>2 DEF InChain
    <3> QED BY <3>1, <3>2
  <2> QED BY <1>2, <1>6, <2>1 DEF EthInv, ChainInv, InChain
<1>11. Done(t)'
  <2>1. CASE Seen(t)
    BY <1>2, <1>3, <1>5, <2>1 DEF Seen, EthInv, ChainInv, Done, Credited
  <2>2. CASE ~Seen(t)
    BY <1>2, <1>3, <1>5, <2>2 DEF Done
  <2> QED BY <2>1, <2>2
<1>12. PollInv(p)'
  <2>1. ASSUME NEW x \in Txs, Watched(x)' PROVE Watched(x) /\ (Done(x) => Done(x)')
    BY <1>2, <1>9, <2>1, DoneStays DEF Watched, InChain
  <2>2. ASSUME NEW x \in ethPoll[p].list \ {t} PROVE InChain(x)' /\ ethPoll[p].user = {block'[x].user}
    BY <1>2, <2>2 DEF EthInv, PollInv, InChain
  <2>3. ASSUME NEW x \in Txs, Watched(x)', ethPoll[p].from <= block[x].at, block[x].at <= ethPoll[p].to
        PROVE  Done(x)' \/ block[x].user \in ethPoll[p].todo \/ x \in ethPoll[p].list \ {t}
    BY <1>2, <1>11, <2>1, <2>3 DEF EthInv, PollInv
  <2> QED BY <1>2, <1>4, <1>7, <2>1, <2>2, <2>3 DEF EthInv, PollInv
<1>13. \A r \in EthPolls : PollInv(r)'
  BY <1>7, <1>8, <1>9, <1>12, OtherPolls
<1> QED BY <1>2, <1>5, <1>8, <1>9, <1>10, <1>13, CursorKept DEF EthInv

\* The cursor goes where everything before it has had its turn.
LEMMA EndPollStep ==
    ASSUME EthInv, NEW p \in EthPolls, EndEthPoll(p)
    PROVE  EthInv'
<1>1. /\ ethPoll' = [ethPoll EXCEPT ![p] = EthIdle] /\ ethPoll[p].pc = "fetch" /\ ethPoll[p].todo = {}
      /\ lastChecked' = ethPoll[p].to
      /\ UNCHANGED <<balance, credits, addresses, tip, block, watched, lost>>
  BY DEF EndEthPoll, Cursor, depositVars
<1>2. EthIdle \in PollStates /\ EthIdle.to = 0 /\ EthIdle.user = {} /\ EthIdle.list = {} /\ EthIdle.pc = "idle"
  BY EthPollerAssumption DEF EthIdle, PollStates
<1>3. /\ ethPoll[p].to \in 0..MaxTip /\ ethPoll[p].to \in Nat /\ ethPoll[p].from \in Nat /\ tip \in Nat
      /\ Nil \notin Nat /\ watched # Nil /\ ethPoll[p].list = {} /\ ethPoll[p].to <= tip
  BY <1>1, EthTypes, PollStateTypes DEF EthInv, PollInv, PollStates
<1>4. EthTypeOK' /\ ethPoll'[p] = EthIdle /\ \A r \in EthPolls \ {p} : ethPoll'[r] = ethPoll[r]
  BY <1>1, <1>2, <1>3, PollBecomes, PollStateTypes DEF EthInv
<1>5. Grows
  BY <1>1, PollingGrows DEF Polling, Credited
<1>6. CreditsInv' /\ ChainInv'
  BY <1>1, CreditsKept DEF EthInv, CreditsInv, DepositsTypeOK, ChainInv, InChain
<1>7. ASSUME NEW t \in Txs, Watched(t), block[t].at <= ethPoll[p].to
      PROVE  Done(t)
  <2>1. block[t].at \in Nat
    BY <1>7, EthTypes DEF EthInv, Watched
  <2>2. CASE block[t].at < ethPoll[p].from
    BY <1>1, <1>7, <2>2 DEF EthInv, PollInv
  <2>3. CASE ethPoll[p].from <= block[t].at
    BY <1>1, <1>3, <1>7, <2>3 DEF EthInv, PollInv
  <2> QED BY <1>3, <2>1, <2>2, <2>3
<1>8. CursorInv'
  BY <1>1, <1>3, <1>7 DEF CursorInv, Watched, Done, InChain, Credited
<1>9. PollInv(p)'
  BY <1>1, <1>2, <1>3, <1>4 DEF PollInv
<1> QED BY <1>4, <1>5, <1>6, <1>8, <1>9, OtherPolls DEF EthInv

LEMMA RestartStep ==
    ASSUME EthInv, EthRestart
    PROVE  EthInv'
<1>1. /\ ethPoll' = [p \in EthPolls |-> EthIdle] /\ lastChecked' = Nil /\ watched' = Nil
      /\ UNCHANGED <<balance, credits, addresses, tip, block, lost>>
  BY DEF EthRestart, depositVars
<1>2. CreditsInv' /\ ChainInv'
  BY <1>1, CreditsKept DEF EthInv, CreditsInv, DepositsTypeOK, ChainInv, InChain
<1>3. EthIdle \in PollStates
  BY EthPollerAssumption DEF EthIdle, PollStates
<1>4. EthTypeOK'
  BY <1>1, <1>2, <1>3 DEF EthInv, EthTypeOK, CreditsInv, PollStates
<1>5. CursorInv' /\ \A p \in EthPolls : PollInv(p)'
  BY <1>1, EthTypes DEF EthInv, CursorInv, PollInv, EthIdle
<1> QED BY <1>2, <1>4, <1>5 DEF EthInv

LEMMA EthInvNext == EthInv /\ [EthNext]_ethVars => EthInv'
<1> SUFFICES ASSUME EthInv, [EthNext]_ethVars PROVE EthInv'
  OBVIOUS
<1>1. CASE UNCHANGED ethVars
  <2>1. UNCHANGED <<balance, credits, addresses, tip, block, lastChecked, watched, lost, ethPoll>>
    BY <1>1 DEF ethVars, depositVars
  <2>2. Grows /\ EthTypeOK' /\ CreditsInv'
    BY <2>1, PollingGrows, CreditsKept
       DEF EthInv, EthTypeOK, DepositsTypeOK, CreditsInv, Polling, Credited
  <2>3. ChainInv' /\ CursorInv'
    BY <2>1, <2>2, CursorKept DEF EthInv, ChainInv, InChain
  <2> QED BY <2>1, <2>2, <2>3, OtherPolls DEF EthInv
<1>2. ASSUME NEW u \in Users, CreateAddress(u),
             UNCHANGED <<tip, block, lastChecked, watched, lost, ethPoll>>
      PROVE  EthInv'
  BY <1>2, AddressStep
<1>3. CASE Mine
  BY <1>3, MineStep
<1>4. ASSUME NEW p \in EthPolls,
             \/ ReadTip(p) \/ ChooseWindow(p) \/ ReadAddresses(p) \/ NextEthAddress(p)
             \/ EndEthPoll(p) \/ EthPollFails(p)
             \/ \E u \in Users : FetchTransfers(p, u) \/ FetchTransfersFails(p, u)
             \/ \E t \in Txs : CreditTransfer(p, t)
      PROVE  EthInv'
  BY <1>4, ReadTipStep, ChooseWindowStep, ReadAddressesStep, NextAddressStep, EndPollStep,
     PollFailsStep, FetchStep, FetchFailsStep, CreditEthStep
<1>5. CASE EthRestart
  BY <1>5, RestartStep
<1> QED BY <1>1, <1>2, <1>3, <1>4, <1>5 DEF EthNext

-----------------------------------------------------------------------------
LEMMA EthInvariant == EthSpec => []EthInv
BY EthInvInit, EthInvNext, PTL DEF EthSpec

\* The table, the cursor and the polls keep their types.
THEOREM EthTypeCorrect == EthSpec => []EthTypeOK
<1>1. EthInv => EthTypeOK
  BY DEF EthInv
<1> QED BY <1>1, EthInvariant, PTL

\* However polls overlap, fail and restart, a wallet never holds more than the chain
\* has paid to its address.
THEOREM EthBacked == EthSpec => []NoUnbackedEthCredit
<1>1. EthInv => NoUnbackedEthCredit
  <2> SUFFICES ASSUME EthInv, NEW u \in Users
               PROVE  balance[u] <= Cardinality({t \in Txs : InChain(t) /\ block[t].user = u})
    BY DEF NoUnbackedEthCredit
  <2>1. CreditsOf(u) \subseteq {t \in Txs : InChain(t) /\ block[t].user = u}
    BY DEF CreditsOf, Credited, EthInv, ChainInv
  <2> QED BY <2>1, CreditsBacked DEF EthInv
<1> QED BY <1>1, EthInvariant, PTL

\* Since the process began to watch, the cursor has passed a transfer uncredited only
\* where an error ended the turn of its address, however many polls share it.
THEOREM ErrorsAlonePass == EthSpec => []OnlyErrorsPass
<1>1. EthInv => OnlyErrorsPass
  BY DEF EthInv, CursorInv, OnlyErrorsPass, Passed, Watched, Done
<1> QED BY <1>1, EthInvariant, PTL

-----------------------------------------------------------------------------
(* BTC custody: the wallets and the coins.                                  *)
(*                                                                          *)
(* What a handler sends is what its plan says, and valid transactions spend *)
(* coins apart; with the wallet as what was credited less what is held, the *)
(* books follow by adding up, over the coins, then over the withdrawals.    *)

\* The loop takes a prefix that covers, none shorter than the last does.
LEMMA SelectedPrefix ==
    ASSUME NEW utxos \in Seq(Nat), NEW amount, NEW feeRate
    PROVE  /\ Selected(utxos, amount, feeRate) \in 0..Len(utxos)
           /\ \A n \in 1..(Selected(utxos, amount, feeRate) - 1) : ~Covers(utxos, n, amount, feeRate)
<1> DEFINE enough == {l \in 1..Len(utxos) : Covers(utxos, l, amount, feeRate)}
<1>1. Len(utxos) \in Nat
  OBVIOUS
<1>2. CASE enough = {}
  BY <1>1, <1>2 DEF Selected
<1>3. CASE enough # {}
  <2>1. enough \subseteq Nat
    BY <1>1
  <2> HIDE DEF enough
  <2>2. \E k \in enough : \A m \in enough : k <= m
    BY <1>3, <2>1, 1 \in Nat \ {0}, LeastNat
  <2>3. Min(enough) \in enough /\ \A m \in enough : Min(enough) <= m
    BY <2>2 DEF Min
  <2>4. Selected(utxos, amount, feeRate) = Min(enough)
    BY <1>3 DEF Selected, enough
  <2>5. ASSUME NEW n \in 1..(Min(enough) - 1) PROVE ~Covers(utxos, n, amount, feeRate)
    <3>1. Min(enough) \in 1..Len(utxos)
      BY <2>3 DEF enough
    <3>2. n \in 1..Len(utxos) /\ ~(Min(enough) <= n)
      BY <1>1, <3>1
    <3> QED BY <2>3, <3>2 DEF enough
  <2>6. Min(enough) \in 0..Len(utxos)
    BY <1>1, <2>3 DEF enough
  <2> QED BY <2>4, <2>5, <2>6
<1> QED BY <1>2, <1>3

LEMMA FeeNat ==
    ASSUME NEW n \in Nat, NEW feeRate \in Nat
    PROVE  Fee(n, feeRate) \in Nat
BY n * 68 + 2 * 31 + 11 \in Nat, TimesNat DEF Fee, VBytes

LEMMA SumToNat ==
    ASSUME NEW utxos \in Seq(Nat), NEW n \in 0..Len(utxos)
    PROVE  SumTo(utxos, n) \in Nat
<1>1. IsFiniteSet(1..n)
  BY FS_Interval
<1>2. \A i \in 1..n : utxos[i] \in Nat
  OBVIOUS
<1> QED BY <1>1, <1>2, SumNat DEF SumTo

\* For every list of outputs, amount and fee rate: a withdrawal that goes ahead spends
\* what it sends, keeps as change and pays the miner; the miner gets the fee of a
\* transaction of that size and less than a dust output more.
LEMMA WithdrawalAddsUp ==
    ASSUME NEW utxos \in Seq(Nat), NEW amount \in Nat, NEW feeRate \in Nat,
           NEW plan, plan = Withdrawal(utxos, amount, feeRate), plan.ok
    PROVE  /\ plan.inputs \in 0..Len(utxos) /\ plan.paid \in Nat /\ plan.change \in Nat
           /\ SumTo(utxos, plan.inputs) = amount + plan.change + plan.paid
           /\ Fee(plan.inputs, feeRate) <= plan.paid
           /\ plan.paid <= Fee(plan.inputs, feeRate) + Dust
           /\ \A n \in 1..(plan.inputs - 1) : SumTo(utxos, n) < amount + Fee(n, feeRate)
<1> DEFINE n == Selected(utxos, amount, feeRate)
           selected == SumTo(utxos, n)
           fee == Fee(n, feeRate)
<1>1. /\ plan.inputs = n /\ plan.ok = (selected >= amount + fee)
      /\ plan.change = Change(selected, amount, fee)
      /\ plan.paid = selected - amount - Change(selected, amount, fee)
  BY DEF Withdrawal
<1>2. n \in 0..Len(utxos) /\ n \in Nat /\ \A m \in 1..(n - 1) : ~Covers(utxos, m, amount, feeRate)
  BY SelectedPrefix
<1>3. selected \in Nat /\ fee \in Nat
  BY <1>2, SumToNat, FeeNat
<1>4. ASSUME NEW m \in 1..(n - 1) PROVE SumTo(utxos, m) < amount + Fee(m, feeRate)
  <2>1. m \in 0..Len(utxos) /\ m \in Nat
    BY <1>2
  <2>2. SumTo(utxos, m) \in Nat /\ Fee(m, feeRate) \in Nat
    BY <2>1, SumToNat, FeeNat
  <2>3. ~(SumTo(utxos, m) >= amount + Fee(m, feeRate))
    BY <1>2 DEF Covers
  <2> QED BY <2>2, <2>3
<1> HIDE DEF n, selected, fee
<1>5. selected >= amount + fee
  BY <1>1
<1>6. /\ Change(selected, amount, fee) \in Nat
      /\ LET paid == selected - amount - Change(selected, amount, fee)
         IN  paid \in Nat /\ fee <= paid /\ paid <= fee + Dust
  BY <1>3, <1>5 DEF Change, Dust
<1>7. selected = amount + plan.change + plan.paid
  BY <1>1, <1>3, <1>6
<1> QED BY <1>1, <1>2, <1>4, <1>6, <1>7 DEF selected, fee

-----------------------------------------------------------------------------
(* The invariant.                                                           *)

\* A transaction spends older outputs, of valid transactions if it is valid and of confirmed
\* ones if it is confirmed, and no two valid ones spend one.  One that spends nothing here
\* came from outside, and so did its change, if any.
CoinsInv ==
    /\ \A i \in DOMAIN chain : \A o \in chain[i].ins :
          /\ o \in Outputs /\ o[1] < i /\ Value(o) > 0
          /\ Valid(i) => Valid(o[1])
          /\ chain[i].state = "confirmed" => chain[o[1]].state = "confirmed"
    /\ \A i \in DOMAIN chain, j \in DOMAIN chain :
          i # j /\ Valid(i) /\ Valid(j) => chain[i].ins \cap chain[j].ins = {}
    /\ \A i \in DOMAIN chain : chain[i].ins = {} => chain[i].out[1].to = Outside

\* What the handler has listed, and that what it has sent is what it planned, out of
\* outputs of its user.
ListedOnce(w) ==
    LET listed == withdrawal[w].listed IN
    /\ \A k \in DOMAIN listed : listed[k] \in Outputs
    /\ \A k \in DOMAIN listed, l \in DOMAIN listed : k # l => listed[k] # listed[l]

AsPlanned(w) ==
    LET r == withdrawal[w]
        t == chain[r.tx]
    IN  /\ r.tx \in DOMAIN chain /\ Plan(w).ok /\ Inputs(w) # {}
        /\ t.out = Outs(r.dest, Sats(r.amount), r.user, Plan(w).change)
        /\ t.fee = Plan(w).paid /\ t.ins = Inputs(w)
        /\ \A o \in Inputs(w) : Payee(o) = r.user

HandlerInv(w) ==
    withdrawal[w] # None =>
        /\ withdrawal[w].held <=> withdrawal[w].pc # "failed"
        /\ withdrawal[w].pc \in {"list", "broadcast"} => withdrawal[w].tx = None
        /\ withdrawal[w].pc = "done" => withdrawal[w].tx # None
        /\ ListedOnce(w)
        /\ withdrawal[w].tx # None => AsPlanned(w)

\* Each withdrawal has a transaction of its own, and only withdrawals spend.
SendersInv ==
    /\ \A v \in Withdrawals, w \in Withdrawals :
          Sent(v) /\ Sent(w) /\ withdrawal[v].tx = withdrawal[w].tx => v = w
    /\ \A i \in DOMAIN chain :
          chain[i].ins # {} => \E w \in Withdrawals : Sent(w) /\ withdrawal[w].tx = i

\* What is credited has confirmed.
RowsInv ==
    /\ credits \in SUBSET [tx : Txs, user : Users, amount : Nat]
    /\ \A r \in credits : r.tx \in DOMAIN chain /\ chain[r.tx].state = "confirmed"

\* The wallet is what was credited to it, less what its withdrawals hold.
CreditedTo(u) == {o \in Outputs : Payee(o) = u /\ Credited(u, o[1])}
HoldOf(u) ==
    [w \in Withdrawals |->
        IF withdrawal[w] # None /\ withdrawal[w].user = u /\ withdrawal[w].held
        THEN withdrawal[w].amount ELSE 0]
WalletInv(u) == balance[u] = PerSat * Worth(CreditedTo(u)) - SumFunction(HoldOf(u))

CustodyInv ==
    /\ CustodyTypeOK /\ Len(chain) <= MaxChain
    /\ CoinsInv /\ SendersInv /\ RowsInv
    /\ \A w \in Withdrawals : HandlerInv(w)
    /\ \A u \in Users : WalletInv(u)

-----------------------------------------------------------------------------
(* What it implies of the transactions.                                     *)

ValueOf == [o \in Outputs |-> Value(o)]
ListedValues(w) == [k \in DOMAIN withdrawal[w].listed |-> Value(withdrawal[w].listed[k])]

LEMMA ChainTypes ==
    ASSUME CustodyTypeOK
    PROVE  /\ Len(chain) \in Nat /\ DOMAIN chain = 1..Len(chain) /\ IsFiniteSet(DOMAIN chain)
           /\ \A i \in DOMAIN chain : chain[i] \in Transactions /\ <<i, 0>> \in Outputs /\ <<i, 1>> \in Outputs
           /\ IsFiniteSet(Outputs)
           /\ \A o \in Outputs : /\ o[1] \in DOMAIN chain /\ o[2] \in Places /\ o = <<o[1], o[2]>>
                                 /\ Value(o) \in Nat /\ ValueOf[o] = Value(o)
                                 /\ Payee(o) \in Users \cup {Outside}
<1>1. chain \in Seq(Transactions)
  BY DEF CustodyTypeOK
<1>2. /\ Len(chain) \in Nat /\ DOMAIN chain = 1..Len(chain)
      /\ \A i \in DOMAIN chain : chain[i] \in Transactions
  BY <1>1
<1>3. IsFiniteSet(DOMAIN chain)
  BY <1>2, FS_Interval
<1>4. IsFiniteSet(Outputs)
  <2>1. IsFiniteSet(0..1) /\ Places = 0..1
    <3>1. 0 \in Int /\ 1 \in Int
      OBVIOUS
    <3>2. IsFiniteSet(0..1)
      BY ONLY <3>1, FS_Interval
    <3>3. Places = 0..1
      BY DEF Places
    <3> QED BY <3>2, <3>3
  <2> QED BY <1>3, <2>1, FS_Product DEF Outputs
<1>5. \A i \in DOMAIN chain : <<i, 0>> \in Outputs /\ <<i, 1>> \in Outputs
  BY DEF Outputs, Places
<1>6. ASSUME NEW o \in Outputs
      PROVE  /\ o[1] \in DOMAIN chain /\ o[2] \in Places /\ o = <<o[1], o[2]>>
             /\ Value(o) \in Nat /\ ValueOf[o] = Value(o) /\ Payee(o) \in Users \cup {Outside}
  <2>1. o[1] \in DOMAIN chain /\ o[2] \in Places /\ o = <<o[1], o[2]>>
    BY DEF Outputs
  <2>2. chain[o[1]].out \in [Places -> [to : Users \cup {Outside}, value : Nat]]
    BY <1>2, <2>1 DEF Transactions
  <2>3. chain[o[1]].out[o[2]] \in [to : Users \cup {Outside}, value : Nat]
    BY <2>1, <2>2
  <2> QED BY <2>1, <2>3 DEF Value, Payee, ValueOf
<1> QED
  BY <1>2, <1>3, <1>4, <1>5, <1>6

LEMMA WorthNat ==
    ASSUME CustodyTypeOK, NEW outputs \in SUBSET Outputs
    PROVE  /\ IsFiniteSet(outputs) /\ Worth(outputs) = SumFunctionOnSet(ValueOf, outputs)
           /\ Worth(outputs) \in Nat /\ \A o \in outputs : ValueOf[o] \in Int
<1>1. IsFiniteSet(outputs) /\ \A o \in outputs : ValueOf[o] \in Nat
  BY ChainTypes, FS_Subset
<1>2. Worth(outputs) = SumFunctionOnSet(ValueOf, outputs)
  BY DEF Worth, ValueOf
<1> QED
  BY <1>1, <1>2, SumNat

LEMMA Numbers ==
    /\ Amounts \subseteq Nat \ {0} /\ Values \subseteq Nat \ {0} /\ FeeRates \subseteq Nat
    /\ PerSat \in Nat \ {0} /\ MaxChain \in Nat /\ Txs = 1..MaxChain
    /\ IsFiniteSet(Withdrawals) /\ None \notin Txs /\ Outside \notin Users
BY CustodyAssumption

LEMMA HandlerTypes ==
    ASSUME CustodyTypeOK, NEW w \in Withdrawals, withdrawal[w] # None
    PROVE  /\ withdrawal[w] \in Handlers /\ withdrawal[w].user \in Users
           /\ withdrawal[w].amount \in Nat \ {0} /\ withdrawal[w].feeRate \in Nat
           /\ withdrawal[w].dest \in Users \cup {Outside}
           /\ withdrawal[w].listed \in Seq(Txs \X Places) /\ Sats(withdrawal[w].amount) \in Nat
<1>1. withdrawal[w] \in Handlers
  BY DEF CustodyTypeOK
<1>2. withdrawal[w].amount \in Nat \ {0} /\ withdrawal[w].feeRate \in Nat
  <2>1. withdrawal[w].amount \in Amounts /\ withdrawal[w].feeRate \in FeeRates \cup {0}
    BY <1>1 DEF Handlers
  <2>2. Amounts \subseteq Nat \ {0} /\ FeeRates \subseteq Nat
    BY Numbers
  <2>3. withdrawal[w].amount \in Nat \ {0}
    BY ONLY <2>1, <2>2, Zenon
  <2>4. withdrawal[w].feeRate \in Nat
    <3>1. 0 \in Nat
      OBVIOUS
    <3> QED BY ONLY <2>1, <2>2, <3>1, Zenon
  <2> QED BY <2>3, <2>4
<1>3. Sats(withdrawal[w].amount) \in Nat
  <2>1. 2 * withdrawal[w].amount + PerSat \in Nat /\ 2 * PerSat \in Nat \ {0}
    BY <1>2, Numbers
  <2> QED BY <2>1, DivIsNat DEF Sats
<1> QED BY <1>1, <1>2, <1>3 DEF Handlers

\* The values of a prefix of what is listed, added up.
LEMMA PrefixWorth ==
    ASSUME CustodyTypeOK, NEW w \in Withdrawals, withdrawal[w] # None, ListedOnce(w),
           NEW n \in 0..Len(withdrawal[w].listed)
    PROVE  LET prefix == {withdrawal[w].listed[k] : k \in 1..n} IN
           /\ prefix \in SUBSET Outputs /\ Cardinality(prefix) = n
           /\ Worth(prefix) = SumTo(ListedValues(w), n)
<1> DEFINE listed == withdrawal[w].listed
           prefix == {listed[k] : k \in 1..n}
<1>1. listed \in Seq(Txs \X Places) /\ Len(listed) \in Nat /\ DOMAIN listed = 1..Len(listed)
  BY HandlerTypes
<1>2. 1..n \subseteq DOMAIN listed /\ IsFiniteSet(1..n) /\ Cardinality(1..n) = n
  <2>1. n \in 0..Len(listed) /\ 1 \in Int /\ n \in Int
    BY <1>1
  <2>2. IsFiniteSet(1..n) /\ Cardinality(1..n) = IF 1 > n THEN 0 ELSE n - 1 + 1
    BY ONLY <2>1, FS_Interval
  <2>3. (IF 1 > n THEN 0 ELSE n - 1 + 1) = n /\ 1..n \subseteq 1..Len(listed)
    BY ONLY <1>1, <2>1
  <2> QED BY ONLY <1>1, <2>2, <2>3
<1>3. /\ \A k \in DOMAIN listed : listed[k] \in Outputs
      /\ \A k \in 1..n, l \in 1..n : k # l => listed[k] # listed[l]
  BY <1>2 DEF ListedOnce
<1> HIDE DEF listed
<1>4. Cardinality(prefix) = n
  <2>1. IsFiniteSet(1..n) /\ \A k \in 1..n, l \in 1..n : k # l => listed[k] # listed[l]
    BY <1>2, <1>3
  <2>2. Cardinality({listed[k] : k \in 1..n}) = Cardinality(1..n)
    BY ONLY <2>1, 1 \in Nat \ {0}, ImageSize
  <2> QED BY <1>2, <2>2
<1>5. \A k \in 1..n : ValueOf[listed[k]] \in Int /\ ListedValues(w)[k] = ValueOf[listed[k]]
  BY <1>2, <1>3, ChainTypes DEF ListedValues, listed
<1>6. SumFunctionOnSet(ValueOf, prefix) = SumFunctionOnSet(ListedValues(w), 1..n)
  <2>1. IsFiniteSet(1..n) /\ \A k \in 1..n, l \in 1..n : k # l => listed[k] # listed[l]
    BY <1>2, <1>3
  <2> QED BY ONLY <1>5, <2>1, 1 \in Nat \ {0}, SumImage
<1>7. prefix \in SUBSET Outputs
  BY <1>2, <1>3
<1> QED
  BY <1>4, <1>6, <1>7, WorthNat DEF SumTo, listed

\* What the plan of a handler says of the coins.
LEMMA PlanAddsUp ==
    ASSUME CustodyTypeOK, NEW w \in Withdrawals, withdrawal[w] # None, ListedOnce(w), Plan(w).ok
    PROVE  LET plan == Plan(w)  rate == withdrawal[w].feeRate  sats == Sats(withdrawal[w].amount) IN
           /\ plan.paid \in Nat /\ plan.change \in Nat /\ sats \in Nat
           /\ Inputs(w) \in SUBSET Outputs /\ Cardinality(Inputs(w)) = plan.inputs
           /\ plan.inputs \in 0..Len(withdrawal[w].listed)
           /\ Worth(Inputs(w)) = sats + plan.change + plan.paid
           /\ Fee(plan.inputs, rate) <= plan.paid /\ plan.paid <= Fee(plan.inputs, rate) + Dust
           /\ \A n \in 1..(plan.inputs - 1) :
                 Worth({withdrawal[w].listed[k] : k \in 1..n}) < sats + Fee(n, rate)
<1>1. PICK listed, rate, sats, plan, os :
         /\ listed = withdrawal[w].listed /\ rate = withdrawal[w].feeRate
         /\ sats = Sats(withdrawal[w].amount) /\ plan = Plan(w) /\ os = ListedValues(w)
  OBVIOUS
<1>2. rate \in Nat /\ sats \in Nat /\ listed \in Seq(Txs \X Places)
  BY <1>1, HandlerTypes
<1>3. os \in Seq(Nat) /\ Len(os) = Len(listed) /\ Len(os) \in Nat
  <2>1. /\ DOMAIN listed = 1..Len(listed) /\ Len(listed) \in Nat
        /\ \A k \in DOMAIN listed : Value(listed[k]) \in Nat
    <3>1. \A o \in Outputs : Value(o) \in Nat
      BY ChainTypes
    <3>2. \A k \in DOMAIN listed : listed[k] \in Outputs
      BY <1>1 DEF ListedOnce
    <3> QED BY ONLY <1>2, <3>1, <3>2
  <2>2. os = [k \in 1..Len(listed) |-> Value(listed[k])]
    BY <1>1, <2>1 DEF ListedValues
  <2> QED BY <2>1, <2>2
<1>4. plan = Withdrawal(os, sats, rate) /\ plan.ok
  BY <1>1 DEF Plan, ListedValues
<1>5. /\ plan.inputs \in 0..Len(os) /\ plan.paid \in Nat /\ plan.change \in Nat
      /\ SumTo(os, plan.inputs) = sats + plan.change + plan.paid
      /\ Fee(plan.inputs, rate) <= plan.paid
      /\ plan.paid <= Fee(plan.inputs, rate) + Dust
      /\ \A n \in 1..(plan.inputs - 1) : SumTo(os, n) < sats + Fee(n, rate)
  BY ONLY <1>2, <1>3, <1>4, WithdrawalAddsUp
<1>6. \A n \in 0..Len(listed) :
         LET prefix == {listed[k] : k \in 1..n} IN
         /\ prefix \in SUBSET Outputs /\ Cardinality(prefix) = n
         /\ Worth(prefix) = SumTo(os, n)
  <2>1. ASSUME NEW n \in 0..Len(withdrawal[w].listed)
        PROVE  LET prefix == {withdrawal[w].listed[k] : k \in 1..n} IN
               /\ prefix \in SUBSET Outputs /\ Cardinality(prefix) = n
               /\ Worth(prefix) = SumTo(ListedValues(w), n)
    BY PrefixWorth
  <2> QED BY ONLY <1>1, <2>1
<1>7. Inputs(w) = {listed[k] : k \in 1..plan.inputs}
  BY <1>1 DEF Inputs
<1>8. ASSUME NEW n \in 1..(plan.inputs - 1)
      PROVE  Worth({listed[k] : k \in 1..n}) < sats + Fee(n, rate)
  <2>1. n \in 0..Len(listed)
    BY <1>3, <1>5
  <2>2. Worth({listed[k] : k \in 1..n}) = SumTo(os, n)
    BY <1>6, <2>1
  <2> QED BY <1>5, <2>2
<1>9. /\ Inputs(w) \in SUBSET Outputs /\ Cardinality(Inputs(w)) = plan.inputs
      /\ Worth(Inputs(w)) = sats + plan.change + plan.paid
      /\ plan.inputs \in 0..Len(listed)
  BY <1>3, <1>5, <1>6, <1>7
<1> QED
  BY <1>1, <1>2, <1>5, <1>8, <1>9

\* The transaction that a withdrawal has sent.
LEMMA SentTx ==
    ASSUME CustodyTypeOK, NEW w \in Withdrawals, HandlerInv(w), Sent(w)
    PROVE  LET r == withdrawal[w]  tx == chain[r.tx] IN
           /\ r # None /\ r.tx \in DOMAIN chain /\ r.pc \in {"done", "refund", "failed"}
           /\ ListedOnce(w) /\ Plan(w).ok
           /\ tx.out[0].to = r.dest /\ tx.out[0].value = Sats(r.amount)
           /\ tx.out[1].to = r.user /\ tx.out[1].value = Plan(w).change /\ tx.fee = Plan(w).paid
           /\ tx.ins = Inputs(w) /\ tx.ins # {} /\ \A o \in tx.ins : Payee(o) = r.user
<1>1. /\ withdrawal[w] # None /\ withdrawal[w].tx # None /\ ListedOnce(w) /\ AsPlanned(w)
      /\ withdrawal[w].pc \notin {"list", "broadcast"}
  BY DEF HandlerInv, Sent
<1>2. withdrawal[w].pc \in {"list", "broadcast", "refund", "done", "failed"}
  BY <1>1 DEF CustodyTypeOK, Handlers
<1>3. PICK out : out = chain[withdrawal[w].tx].out
  OBVIOUS
<1>4. /\ out[0] = [to |-> withdrawal[w].dest, value |-> Sats(withdrawal[w].amount)]
      /\ out[1] = [to |-> withdrawal[w].user, value |-> Plan(w).change]
  <2>1. out = Outs(withdrawal[w].dest, Sats(withdrawal[w].amount), withdrawal[w].user, Plan(w).change)
    BY <1>1, <1>3 DEF AsPlanned
  <2> QED BY <2>1 DEF Outs, Places
<1>5. /\ withdrawal[w].tx \in DOMAIN chain /\ Plan(w).ok
      /\ chain[withdrawal[w].tx].fee = Plan(w).paid
      /\ chain[withdrawal[w].tx].ins = Inputs(w) /\ Inputs(w) # {}
      /\ \A o \in Inputs(w) : Payee(o) = withdrawal[w].user
  BY <1>1 DEF AsPlanned
<1> QED
  BY <1>1, <1>2, <1>3, <1>4, <1>5

LEMMA InvSound == CustodyInv => GoesAheadSoundly
<1> SUFFICES ASSUME CustodyInv, NEW w \in Withdrawals, Sent(w)
             PROVE  LET tx     == chain[withdrawal[w].tx]
                        needed == Fee(Cardinality(tx.ins), withdrawal[w].feeRate)
                    IN  /\ Worth(tx.ins) = tx.out[0].value + tx.out[1].value + tx.fee
                        /\ needed <= tx.fee /\ tx.fee <= needed + Dust
  BY DEF GoesAheadSoundly
<1>1. PICK tx, plan : tx = chain[withdrawal[w].tx] /\ plan = Plan(w)
  OBVIOUS
<1>2. CustodyTypeOK /\ HandlerInv(w)
  BY DEF CustodyInv
<1>3. /\ withdrawal[w] # None /\ ListedOnce(w) /\ plan.ok
      /\ tx.out[1].value = plan.change /\ tx.fee = plan.paid
      /\ tx.out[0].value = Sats(withdrawal[w].amount) /\ tx.ins = Inputs(w)
  BY <1>1, <1>2, SentTx
<1>4. /\ Cardinality(Inputs(w)) = plan.inputs
      /\ Worth(Inputs(w)) = Sats(withdrawal[w].amount) + plan.change + plan.paid
      /\ Fee(plan.inputs, withdrawal[w].feeRate) <= plan.paid
      /\ plan.paid <= Fee(plan.inputs, withdrawal[w].feeRate) + Dust
  BY <1>1, <1>2, <1>3, PlanAddsUp
<1> QED
  BY ONLY <1>1, <1>3, <1>4

LEMMA InvNoNeedless == CustodyInv => NoNeedlessInput
<1> SUFFICES ASSUME CustodyInv, NEW w \in Withdrawals, Sent(w)
             PROVE  LET tx     == chain[withdrawal[w].tx]
                        listed == withdrawal[w].listed
                    IN  \A n \in 1..(Cardinality(tx.ins) - 1) :
                            Worth({listed[k] : k \in 1..n}) < tx.out[0].value + Fee(n, withdrawal[w].feeRate)
  BY DEF NoNeedlessInput
<1>1. PICK tx, plan : tx = chain[withdrawal[w].tx] /\ plan = Plan(w)
  OBVIOUS
<1>2. CustodyTypeOK /\ HandlerInv(w)
  BY DEF CustodyInv
<1>3. /\ withdrawal[w] # None /\ ListedOnce(w) /\ plan.ok
      /\ tx.out[0].value = Sats(withdrawal[w].amount) /\ tx.ins = Inputs(w)
  BY <1>1, <1>2, SentTx
<1>4. /\ Cardinality(Inputs(w)) = plan.inputs
      /\ \A n \in 1..(plan.inputs - 1) :
            Worth({withdrawal[w].listed[k] : k \in 1..n})
                < Sats(withdrawal[w].amount) + Fee(n, withdrawal[w].feeRate)
  BY <1>1, <1>2, <1>3, PlanAddsUp
<1> QED
  BY ONLY <1>1, <1>3, <1>4

-----------------------------------------------------------------------------
(* What it implies of the books.                                            *)

His(u)    == {w \in Withdrawals : withdrawal[w] # None /\ withdrawal[w].user = u}
Paying(u) == {w \in His(u) : Sent(w) /\ Valid(withdrawal[w].tx)}
PaymentsTo(u) == {o \in Outputs : Payee(o) = u /\ o[2] = 0 /\ Valid(o[1])}
ChangeTo(u)   == {o \in Outputs : Payee(o) = u /\ o[2] = 1}

TxOf     == [w \in Withdrawals |-> withdrawal[w].tx]
SatsOf   == [w \in Withdrawals |-> Sats(withdrawal[w].amount)]
FeeOf    == [w \in Withdrawals |-> chain[withdrawal[w].tx].fee]
KeptOf   == [w \in Withdrawals |-> <<withdrawal[w].tx, 1>>]
ChangeOf == [w \in Withdrawals |-> chain[withdrawal[w].tx].out[1].value]
AmountOf == [w \in Withdrawals |-> withdrawal[w].amount]
SpentOf  == [w \in Withdrawals |-> chain[withdrawal[w].tx].ins]

LEMMA PayingFacts ==
    ASSUME CustodyInv, NEW u \in Users
    PROVE  /\ IsFiniteSet(Paying(u)) /\ Paying(u) \subseteq Withdrawals
           /\ \A w \in Paying(u) :
                 /\ withdrawal[w] # None /\ Sent(w) /\ withdrawal[w].user = u
                 /\ TxOf[w] = withdrawal[w].tx /\ TxOf[w] \in DOMAIN chain /\ Valid(TxOf[w])
                 /\ SpentOf[w] = chain[TxOf[w]].ins /\ SpentOf[w] # {}
                 /\ SpentOf[w] \in SUBSET Outputs /\ IsFiniteSet(SpentOf[w])
                 /\ \A o \in SpentOf[w] : Payee(o) = u
                 /\ SatsOf[w] \in Nat /\ FeeOf[w] \in Nat /\ AmountOf[w] \in Nat
                 /\ KeptOf[w] = <<TxOf[w], 1>> /\ KeptOf[w] \in Outputs /\ Payee(KeptOf[w]) = u
                 /\ ChangeOf[w] = ValueOf[KeptOf[w]] /\ ChangeOf[w] \in Nat
                 /\ AmountOf[w] = withdrawal[w].amount /\ SatsOf[w] = Sats(withdrawal[w].amount)
                 /\ FeeOf[w] = chain[withdrawal[w].tx].fee
                 /\ Worth(SpentOf[w]) = SatsOf[w] + ChangeOf[w] + FeeOf[w]
           /\ \A v \in Paying(u), w \in Paying(u) : v # w => TxOf[v] # TxOf[w]
<1>1. CustodyTypeOK /\ SendersInv
  BY DEF CustodyInv
<1>2. IsFiniteSet(Paying(u)) /\ Paying(u) \subseteq Withdrawals
  <2>1. Paying(u) \subseteq Withdrawals
    BY DEF Paying, His
  <2> QED BY <2>1, Numbers, FS_Subset
<1>3. ASSUME NEW w \in Paying(u)
      PROVE  /\ withdrawal[w] # None /\ Sent(w) /\ withdrawal[w].user = u
             /\ TxOf[w] = withdrawal[w].tx /\ TxOf[w] \in DOMAIN chain /\ Valid(TxOf[w])
             /\ SpentOf[w] = chain[TxOf[w]].ins /\ SpentOf[w] # {}
             /\ SpentOf[w] \in SUBSET Outputs /\ IsFiniteSet(SpentOf[w])
             /\ \A o \in SpentOf[w] : Payee(o) = u
             /\ SatsOf[w] \in Nat /\ FeeOf[w] \in Nat /\ AmountOf[w] \in Nat
             /\ KeptOf[w] = <<TxOf[w], 1>> /\ KeptOf[w] \in Outputs /\ Payee(KeptOf[w]) = u
             /\ ChangeOf[w] = ValueOf[KeptOf[w]] /\ ChangeOf[w] \in Nat
             /\ AmountOf[w] = withdrawal[w].amount /\ SatsOf[w] = Sats(withdrawal[w].amount)
             /\ FeeOf[w] = chain[withdrawal[w].tx].fee
             /\ Worth(SpentOf[w]) = SatsOf[w] + ChangeOf[w] + FeeOf[w]
  <2>1. w \in Withdrawals /\ Sent(w) /\ withdrawal[w].user = u /\ Valid(withdrawal[w].tx)
    BY DEF Paying, His
  <2>2. PICK tx, plan, kept :
           tx = chain[withdrawal[w].tx] /\ plan = Plan(w) /\ kept = <<withdrawal[w].tx, 1>>
    OBVIOUS
  <2>3. HandlerInv(w)
    BY <2>1 DEF CustodyInv
  <2>4. /\ withdrawal[w] # None /\ withdrawal[w].tx \in DOMAIN chain
        /\ ListedOnce(w) /\ plan.ok
        /\ tx.out[1].to = withdrawal[w].user /\ tx.out[1].value = plan.change /\ tx.fee = plan.paid
        /\ tx.ins = Inputs(w) /\ tx.ins # {} /\ \A o \in tx.ins : Payee(o) = withdrawal[w].user
    BY <1>1, <2>1, <2>2, <2>3, SentTx
  <2>5. /\ plan.paid \in Nat /\ plan.change \in Nat /\ Sats(withdrawal[w].amount) \in Nat
        /\ Inputs(w) \in SUBSET Outputs
        /\ Worth(Inputs(w)) = Sats(withdrawal[w].amount) + plan.change + plan.paid
    BY <1>1, <2>1, <2>2, <2>4, PlanAddsUp
  <2>6. IsFiniteSet(Inputs(w))
    BY <1>1, <2>5, WorthNat
  <2>7. withdrawal[w].amount \in Nat
    BY <1>1, <2>1, <2>4, HandlerTypes
  <2>8. /\ TxOf[w] = withdrawal[w].tx /\ SpentOf[w] = tx.ins /\ FeeOf[w] = tx.fee
        /\ KeptOf[w] = kept /\ kept = <<withdrawal[w].tx, 1>>
        /\ ChangeOf[w] = tx.out[1].value /\ AmountOf[w] = withdrawal[w].amount
        /\ SatsOf[w] = Sats(withdrawal[w].amount)
    BY <2>1, <2>2 DEF TxOf, SpentOf, FeeOf, KeptOf, ChangeOf, AmountOf, SatsOf
  <2>9. kept \in Outputs /\ Payee(kept) = tx.out[1].to /\ ValueOf[kept] = tx.out[1].value
    <3>1. kept \in Outputs /\ kept[1] = withdrawal[w].tx /\ kept[2] = 1
      BY <1>1, <2>2, <2>4, ChainTypes
    <3>2. Payee(kept) = tx.out[1].to /\ Value(kept) = tx.out[1].value
      BY <2>2, <3>1 DEF Payee, Value
    <3> QED BY <1>1, <3>1, <3>2, ChainTypes
  <2>10. Worth(SpentOf[w]) = SatsOf[w] + ChangeOf[w] + FeeOf[w]
    BY ONLY <2>4, <2>5, <2>8
  <2> QED
    BY ONLY <2>1, <2>2, <2>4, <2>5, <2>6, <2>7, <2>8, <2>9, <2>10
<1>4. \A v \in Paying(u), w \in Paying(u) : v # w => TxOf[v] # TxOf[w]
  BY <1>1, <1>2, <1>3 DEF SendersInv
<1> QED
  BY ONLY <1>2, <1>3, <1>4

\* What was paid to u is unspent, or was sent, or went to the miners.
LEMMA CoinsAddUp ==
    ASSUME CustodyInv, NEW u \in Users
    PROVE  /\ Worth(PaymentsTo(u)) = Worth(Unspent(u)) + SumFunctionOnSet(SatsOf, Paying(u))
                                                      + SumFunctionOnSet(FeeOf, Paying(u))
           /\ Worth(Unspent(u)) \in Nat /\ Worth(PaymentsTo(u)) \in Nat
<1> DEFINE P      == Paying(u)
           outs   == {o \in Outputs : Payee(o) = u /\ Valid(o[1])}
           empty  == {o \in outs : Value(o) = 0}
           spent  == UNION {SpentOf[w] : w \in P}
           change == {KeptOf[w] : w \in P}
           sumOf  == [w \in P |-> SumFunctionOnSet(ValueOf, SpentOf[w])]
           both   == [w \in P |-> SatsOf[w] + FeeOf[w]]
<1>1. CustodyTypeOK /\ CoinsInv /\ SendersInv
  BY DEF CustodyInv
<1>2. ASSUME NEW o \in spent
      PROVE  o \in outs /\ Value(o) > 0 /\ o \notin Unspent(u)
  <2>1. PICK w \in P : o \in SpentOf[w]
    OBVIOUS
  <2>2. /\ TxOf[w] \in DOMAIN chain /\ Payee(o) = u /\ Valid(TxOf[w])
        /\ o \in chain[TxOf[w]].ins
    BY <2>1, PayingFacts
  <2> QED BY <1>1, <2>2 DEF CoinsInv, Unspent, Spent
<1>3. ASSUME NEW i \in DOMAIN chain, chain[i].ins # {}, Valid(i)
      PROVE  \E w \in Withdrawals : /\ withdrawal[w].tx = i /\ w \in Paying(withdrawal[w].user)
                                    /\ chain[i].out[1].to = withdrawal[w].user
                                    /\ \A o \in chain[i].ins : Payee(o) = withdrawal[w].user
  <2>1. PICK w \in Withdrawals : Sent(w) /\ withdrawal[w].tx = i
    BY <1>1, <1>3 DEF SendersInv
  <2>2. HandlerInv(w)
    BY DEF CustodyInv
  <2>3. /\ withdrawal[w] # None /\ chain[i].out[1].to = withdrawal[w].user
        /\ \A o \in chain[i].ins : Payee(o) = withdrawal[w].user
    BY <1>1, <2>1, <2>2, SentTx
  <2> QED BY <1>3, <2>1, <2>3 DEF Paying, His
<1>4. ASSUME NEW o \in outs, o \notin Unspent(u), Value(o) > 0
      PROVE  o \in spent
  <2>1. PICK j \in DOMAIN chain : Valid(j) /\ o \in chain[j].ins
    BY <1>4 DEF Unspent, Spent
  <2>2. PICK w \in Withdrawals : /\ withdrawal[w].tx = j /\ w \in Paying(withdrawal[w].user)
                                 /\ \A p \in chain[j].ins : Payee(p) = withdrawal[w].user
    BY <1>3, <2>1
  <2>3. w \in P
    BY <2>1, <2>2
  <2>4. SpentOf[w] = chain[j].ins
    BY <2>2 DEF SpentOf
  <2> QED BY <2>1, <2>3, <2>4
<1>5. /\ outs = (Unspent(u) \cup spent) \cup empty
      /\ Unspent(u) \cap spent = {} /\ (Unspent(u) \cup spent) \cap empty = {}
  <2>1. Unspent(u) \subseteq outs /\ \A o \in Unspent(u) : Value(o) > 0
    BY DEF Unspent
  <2>2. \A o \in outs : Value(o) \in Nat
    BY <1>1, ChainTypes
  <2> QED BY <1>2, <1>4, <2>1, <2>2
<1>6. outs = PaymentsTo(u) \cup change /\ PaymentsTo(u) \cap change = {}
  <2>1. ASSUME NEW w \in P PROVE KeptOf[w] \in outs /\ KeptOf[w][2] = 1
    <3>1. /\ KeptOf[w] = <<TxOf[w], 1>> /\ KeptOf[w] \in Outputs /\ Payee(KeptOf[w]) = u
          /\ Valid(TxOf[w])
      BY PayingFacts
    <3> QED BY <3>1
  <2>2. ASSUME NEW o \in outs, o[2] # 0 PROVE o \in change
    <3>1. o = <<o[1], 1>> /\ o[1] \in DOMAIN chain /\ Valid(o[1]) /\ chain[o[1]].out[1].to = u
      <4>1. o[1] \in DOMAIN chain /\ o[2] \in Places /\ o = <<o[1], o[2]>>
        BY <1>1, ChainTypes
      <4>2. o[2] = 1
        BY <2>2, <4>1 DEF Places
      <4> QED BY <4>1, <4>2 DEF Payee
    <3>2. chain[o[1]].ins # {}
      BY <1>1, <3>1, Numbers DEF CoinsInv
    <3>3. PICK w \in Withdrawals : /\ withdrawal[w].tx = o[1] /\ w \in Paying(withdrawal[w].user)
                                   /\ chain[o[1]].out[1].to = withdrawal[w].user
      BY <1>3, <3>1, <3>2
    <3>4. w \in P /\ KeptOf[w] = o
      BY <3>1, <3>3 DEF KeptOf
    <3> QED BY <3>4
  <2>3. PaymentsTo(u) = {o \in outs : o[2] = 0}
    BY DEF PaymentsTo
  <2> QED BY <2>1, <2>2, <2>3
<1>7. outs \in SUBSET Outputs
  OBVIOUS
<1> HIDE DEF P, outs, empty, spent, change, sumOf, both
<1>8. \A S \in SUBSET outs : /\ IsFiniteSet(S) /\ Worth(S) = SumFunctionOnSet(ValueOf, S)
                             /\ Worth(S) \in Nat /\ \A o \in S : ValueOf[o] \in Int
  BY <1>1, <1>7, WorthNat
<1>9. ASSUME NEW A, NEW B, A \cap B = {}, A \cup B \in SUBSET outs
      PROVE  Worth(A \cup B) = Worth(A) + Worth(B)
  <2>1. A \in SUBSET outs /\ B \in SUBSET outs
    BY <1>9
  <2>2. /\ IsFiniteSet(A) /\ IsFiniteSet(B) /\ \A o \in A \cup B : ValueOf[o] \in Int
        /\ Worth(A) = SumFunctionOnSet(ValueOf, A) /\ Worth(B) = SumFunctionOnSet(ValueOf, B)
        /\ Worth(A \cup B) = SumFunctionOnSet(ValueOf, A \cup B)
    BY <1>8, <1>9, <2>1
  <2> QED BY ONLY <1>9, <2>2, SumApart
<1>10. Worth(empty) = 0
  <2>1. empty \in SUBSET outs /\ \A o \in empty : ValueOf[o] = 0
    BY <1>1, ChainTypes DEF empty, outs
  <2>2. IsFiniteSet(empty) /\ Worth(empty) = SumFunctionOnSet(ValueOf, empty)
    BY <1>8, <2>1
  <2> QED BY <2>1, <2>2, SumZero
<1>11. Worth(outs) = Worth(Unspent(u)) + Worth(spent)
  <2>1. Worth(outs) = Worth(Unspent(u) \cup spent) + Worth(empty)
    BY ONLY <1>5, <1>9
  <2>2. Worth(Unspent(u) \cup spent) = Worth(Unspent(u)) + Worth(spent)
    BY ONLY <1>5, <1>9
  <2>3. Worth(Unspent(u)) \in Nat /\ Worth(spent) \in Nat
    BY <1>5, <1>8
  <2> QED BY ONLY <1>10, <2>1, <2>2, <2>3
<1>12. Worth(outs) = Worth(PaymentsTo(u)) + Worth(change)
  BY ONLY <1>6, <1>9
<1>13. IsFiniteSet(P)
  BY PayingFacts DEF P
<1>14. Worth(spent) = SumFunctionOnSet(sumOf, P)
  <2>1. \A w \in P : IsFiniteSet(SpentOf[w]) /\ SpentOf[w] \in SUBSET Outputs
    BY PayingFacts DEF P
  <2>2. \A w \in P : \A o \in SpentOf[w] : ValueOf[o] \in Int
    BY <1>1, <2>1, ChainTypes
  <2>3. ASSUME NEW v \in P, NEW w \in P, v # w
        PROVE  SpentOf[v] \cap SpentOf[w] = {}
    <3>1. TxOf[v] # TxOf[w]
      BY <2>3, PayingFacts DEF P
    <3>2. /\ TxOf[v] \in DOMAIN chain /\ Valid(TxOf[v]) /\ SpentOf[v] = chain[TxOf[v]].ins
          /\ TxOf[w] \in DOMAIN chain /\ Valid(TxOf[w]) /\ SpentOf[w] = chain[TxOf[w]].ins
      BY PayingFacts DEF P
    <3> QED BY <1>1, <3>1, <3>2 DEF CoinsInv
  <2>4. SumFunctionOnSet(ValueOf, UNION {SpentOf[w] : w \in P})
           = SumFunctionOnSet([w \in P |-> SumFunctionOnSet(ValueOf, SpentOf[w])], P)
    BY ONLY <1>13, <2>1, <2>2, <2>3, SumFamily
  <2>5. Worth(spent) = SumFunctionOnSet(ValueOf, spent)
    BY <1>5, <1>8
  <2> QED BY <2>4, <2>5 DEF spent, sumOf
<1>15. \A w \in P : /\ SatsOf[w] \in Int /\ FeeOf[w] \in Int /\ ChangeOf[w] \in Int
                    /\ both[w] = SatsOf[w] + FeeOf[w] /\ both[w] \in Int
                    /\ sumOf[w] = both[w] + ChangeOf[w]
  <2>1. ASSUME NEW w \in P
        PROVE  /\ SatsOf[w] \in Int /\ FeeOf[w] \in Int /\ ChangeOf[w] \in Int
               /\ both[w] = SatsOf[w] + FeeOf[w] /\ both[w] \in Int
               /\ sumOf[w] = both[w] + ChangeOf[w]
    <3>1. /\ SatsOf[w] \in Nat /\ FeeOf[w] \in Nat /\ ChangeOf[w] \in Nat
          /\ Worth(SpentOf[w]) = SatsOf[w] + ChangeOf[w] + FeeOf[w]
          /\ SpentOf[w] \in SUBSET Outputs
      BY PayingFacts DEF P
    <3>2. sumOf[w] = Worth(SpentOf[w])
      BY <1>1, <3>1, WorthNat DEF sumOf
    <3>3. both[w] = SatsOf[w] + FeeOf[w]
      BY DEF both
    <3> QED BY ONLY <3>1, <3>2, <3>3
  <2> QED BY <2>1
<1>16. SumFunctionOnSet(sumOf, P) = SumFunctionOnSet(both, P) + SumFunctionOnSet(ChangeOf, P)
  BY ONLY <1>13, <1>15, SumPlus
<1>17. SumFunctionOnSet(both, P) = SumFunctionOnSet(SatsOf, P) + SumFunctionOnSet(FeeOf, P)
  BY ONLY <1>13, <1>15, SumPlus
<1>18. Worth(change) = SumFunctionOnSet(ChangeOf, P)
  <2>1. /\ \A v \in P, w \in P : v # w => KeptOf[v] # KeptOf[w]
        /\ \A w \in P : ValueOf[KeptOf[w]] \in Int /\ ChangeOf[w] = ValueOf[KeptOf[w]]
    <3>1. \A w \in P : /\ ChangeOf[w] = ValueOf[KeptOf[w]] /\ ChangeOf[w] \in Nat
                       /\ KeptOf[w] = <<TxOf[w], 1>>
      BY PayingFacts DEF P
    <3>2. \A v \in P, w \in P : v # w => TxOf[v] # TxOf[w]
      BY PayingFacts DEF P
    <3> QED BY ONLY <3>1, <3>2
  <2>2. SumFunctionOnSet(ValueOf, {KeptOf[w] : w \in P}) = SumFunctionOnSet(ChangeOf, P)
    BY ONLY <1>13, <2>1, SumImage
  <2>3. Worth(change) = SumFunctionOnSet(ValueOf, change)
    BY <1>6, <1>8
  <2> QED BY <2>2, <2>3 DEF change
<1>19. /\ SumFunctionOnSet(SatsOf, P) \in Int /\ SumFunctionOnSet(FeeOf, P) \in Int
       /\ SumFunctionOnSet(ChangeOf, P) \in Int
  BY ONLY <1>13, <1>15, SumInt
<1>20. /\ Worth(Unspent(u)) \in Nat /\ Worth(PaymentsTo(u)) \in Nat
       /\ Worth(spent) \in Nat /\ Worth(change) \in Nat
  BY ONLY <1>5, <1>6, <1>8
<1>21. Worth(PaymentsTo(u)) = Worth(Unspent(u)) + SumFunctionOnSet(SatsOf, P) + SumFunctionOnSet(FeeOf, P)
  <2>1. PICK all, free, out, kept, came, miners, sent :
           /\ all = Worth(outs) /\ free = Worth(Unspent(u)) /\ out = Worth(spent)
           /\ kept = Worth(change) /\ came = Worth(PaymentsTo(u))
           /\ sent = SumFunctionOnSet(SatsOf, P) /\ miners = SumFunctionOnSet(FeeOf, P)
    OBVIOUS
  <2>2. out = (sent + miners) + kept
    BY ONLY <1>14, <1>16, <1>17, <1>18, <2>1
  <2>3. all = free + out /\ all = came + kept
    BY ONLY <1>11, <1>12, <2>1
  <2>4. /\ free \in Nat /\ came \in Nat /\ out \in Nat /\ kept \in Nat
        /\ sent \in Int /\ miners \in Int
    BY ONLY <1>19, <1>20, <2>1
  <2>5. came = free + sent + miners
    BY ONLY <2>2, <2>3, <2>4
  <2> QED BY ONLY <2>1, <2>5
<1> QED
  BY <1>20, <1>21 DEF P

\* Math.round is half a satoshi off at most.
LEMMA SatsOff ==
    ASSUME NEW amount \in Nat
    PROVE  /\ Sats(amount) \in Nat
           /\ -PerSat <= 2 * (PerSat * Sats(amount) - amount)
           /\ 2 * (PerSat * Sats(amount) - amount) <= PerSat
<1> DEFINE s == Sats(amount)
<1>1. PerSat \in Nat \ {0}
  BY Numbers
<1>2. 2 * amount + PerSat \in Nat /\ 2 * PerSat \in Nat \ {0}
  BY <1>1
<1>3. s \in Nat /\ (2 * PerSat) * s <= 2 * amount + PerSat /\ 2 * amount + PerSat < (2 * PerSat) * s + 2 * PerSat
  BY <1>2, DivIsNat DEF Sats
<1> HIDE DEF s
<1>4. (2 * PerSat) * s = 2 * (PerSat * s) /\ PerSat * s \in Nat
  BY <1>1, <1>3, TimesNat
<1>5. -PerSat <= 2 * (PerSat * s - amount) /\ 2 * (PerSat * s - amount) <= PerSat
  BY ONLY <1>1, <1>3, <1>4, amount \in Nat
<1> QED
  BY <1>3, <1>5 DEF s

\* The withdrawals of u that hold something and pay nothing, and those that pay and hold
\* nothing.
Holding(u)  == {w \in His(u) \ Paying(u) : withdrawal[w].held}
Returned(u) == {w \in Paying(u) : ~withdrawal[w].held}

LEMMA HoldsAddUp ==
    ASSUME CustodyInv, NEW u \in Users
    PROVE  LET held      == SumFunction([w \in Holding(u) |-> withdrawal[w].amount])
               givenBack == SumFunction([w \in Returned(u) |-> withdrawal[w].amount])
               paid      == SumFunctionOnSet(AmountOf, Paying(u))
           IN  /\ SumFunction(HoldOf(u)) = held + paid - givenBack
               /\ paid \in Int /\ held \in Int /\ givenBack \in Int
<1> DEFINE H == HoldOf(u)
           P == Paying(u)
           Q == Holding(u)
           B == Returned(u)
           K == P \ B
           R == (Withdrawals \ P) \ Q
           held == [w \in Q |-> withdrawal[w].amount]
           back == [w \in B |-> withdrawal[w].amount]
<1>1. CustodyTypeOK
  BY DEF CustodyInv
<1>2. /\ IsFiniteSet(Withdrawals) /\ P \subseteq Withdrawals /\ Q \subseteq Withdrawals /\ P \cap Q = {}
      /\ DOMAIN H = Withdrawals /\ DOMAIN held = Q /\ DOMAIN back = B
      /\ B \subseteq P
  BY Numbers, PayingFacts DEF Holding, Returned, His, HoldOf
<1>3. /\ IsFiniteSet(P) /\ IsFiniteSet(Q) /\ IsFiniteSet(R) /\ IsFiniteSet(P \cup Q)
      /\ IsFiniteSet(K) /\ IsFiniteSet(B)
  BY <1>2, FS_Subset
<1>4. \A w \in Withdrawals : H[w] \in Nat
  BY <1>1, HandlerTypes DEF HoldOf
<1>5. /\ \A w \in P : AmountOf[w] = withdrawal[w].amount /\ AmountOf[w] \in Int
      /\ \A w \in K : H[w] = AmountOf[w]
  <2>1. \A w \in P : /\ AmountOf[w] = withdrawal[w].amount /\ AmountOf[w] \in Nat
                     /\ withdrawal[w] # None /\ withdrawal[w].user = u
    BY PayingFacts
  <2>2. \A w \in K : w \in Withdrawals /\ withdrawal[w].held
    BY <1>2 DEF Returned
  <2> QED BY <2>1, <2>2 DEF HoldOf
<1>6. \A w \in Q : H[w] = held[w]
  BY DEF HoldOf, Holding, His
<1>7. (\A w \in R : H[w] = 0) /\ (\A w \in B : H[w] = 0)
  BY <1>2 DEF HoldOf, Holding, Returned, His
<1>8. \A w \in B : AmountOf[w] = back[w]
  BY <1>2, <1>5
<1>9. /\ Withdrawals = (P \cup Q) \cup R /\ (P \cup Q) \cap R = {}
      /\ P = K \cup B /\ K \cap B = {}
  BY <1>2
<1> HIDE DEF H, P, Q, R, K, B, held, back
<1>10. SumFunctionOnSet(H, Withdrawals) = SumFunctionOnSet(H, P \cup Q) + SumFunctionOnSet(H, R)
  BY ONLY <1>3, <1>4, <1>9, SumApart
<1>11. SumFunctionOnSet(H, P \cup Q) = SumFunctionOnSet(H, P) + SumFunctionOnSet(H, Q)
  <2>1. \A w \in P \cup Q : H[w] \in Int
    BY ONLY <1>2, <1>4
  <2> QED BY ONLY <1>2, <1>3, <2>1, SumApart
<1>12. SumFunctionOnSet(H, P) = SumFunctionOnSet(H, K) + SumFunctionOnSet(H, B)
  <2>1. \A w \in K \cup B : H[w] \in Int
    BY ONLY <1>2, <1>4, <1>9
  <2> QED BY ONLY <1>3, <1>9, <2>1, SumApart
<1>13. SumFunctionOnSet(AmountOf, P) = SumFunctionOnSet(AmountOf, K) + SumFunctionOnSet(AmountOf, B)
  <2>1. \A w \in K \cup B : AmountOf[w] \in Int
    BY ONLY <1>5, <1>9
  <2> QED BY ONLY <1>3, <1>9, <2>1, SumApart
<1>14. SumFunctionOnSet(H, R) = 0 /\ SumFunctionOnSet(H, B) = 0
  BY ONLY <1>3, <1>7, SumZero
<1>15. /\ SumFunctionOnSet(H, K) = SumFunctionOnSet(AmountOf, K)
       /\ SumFunctionOnSet(H, Q) = SumFunctionOnSet(held, Q)
       /\ SumFunctionOnSet(AmountOf, B) = SumFunctionOnSet(back, B)
  BY ONLY <1>3, <1>5, <1>6, <1>8, SumSame
<1>16. /\ SumFunctionOnSet(AmountOf, K) \in Int /\ SumFunctionOnSet(AmountOf, B) \in Int
       /\ SumFunctionOnSet(H, Q) \in Int
  <2>1. /\ \A w \in K : AmountOf[w] \in Int
        /\ \A w \in B : AmountOf[w] \in Int
        /\ \A w \in Q : H[w] \in Int
    BY ONLY <1>2, <1>4, <1>5, <1>9
  <2> QED BY ONLY <1>3, <2>1, SumInt
<1>17. /\ SumFunction(H) = SumFunctionOnSet(H, Withdrawals) /\ SumFunction(held) = SumFunctionOnSet(held, Q)
       /\ SumFunction(back) = SumFunctionOnSet(back, B)
  BY <1>2 DEF SumFunction
<1>18. SumFunction(H) = SumFunction(held) + SumFunctionOnSet(AmountOf, P) - SumFunction(back)
  BY ONLY <1>10, <1>11, <1>12, <1>13, <1>14, <1>15, <1>16, <1>17
<1>19. SumFunctionOnSet(AmountOf, P) \in Int /\ SumFunction(held) \in Int /\ SumFunction(back) \in Int
  BY ONLY <1>13, <1>15, <1>16, <1>17
<1> QED
  BY <1>18, <1>19 DEF H, P, Q, B, held, back

LEMMA InvBooks == CustodyInv => BooksMatchChain
<1> SUFFICES ASSUME CustodyInv, NEW u \in Users
             PROVE  LET held        == SumFunction([w \in Holding(u) |-> withdrawal[w].amount])
                        givenBack   == SumFunction([w \in Returned(u) |-> withdrawal[w].amount])
                        awaited     == Worth({o \in PaymentsTo(u) : ~Credited(u, o[1])})
                        changeTwice == Worth({o \in ChangeTo(u) : Credited(u, o[1])})
                        fees        == SumFunction([w \in Paying(u) |-> chain[withdrawal[w].tx].fee])
                        off         == balance[u] + held - givenBack
                                         - PerSat * (Worth(Unspent(u)) - awaited + changeTwice + fees)
                    IN  /\ -(PerSat * Cardinality(Paying(u))) <= 2 * off
                        /\ 2 * off <= PerSat * Cardinality(Paying(u))
  BY DEF BooksMatchChain, Holding, Returned, PaymentsTo, ChangeTo, Paying, His
<1> DEFINE P       == Paying(u)
           early   == {o \in PaymentsTo(u) : ~Credited(u, o[1])}
           late    == {o \in PaymentsTo(u) : Credited(u, o[1])}
           change  == {o \in ChangeTo(u) : Credited(u, o[1])}
           feeOf   == [w \in P |-> chain[withdrawal[w].tx].fee]
           satsOf  == [w \in P |-> PerSat * SatsOf[w]]
           minus   == [w \in P |-> -AmountOf[w]]
           offOf   == [w \in P |-> PerSat * SatsOf[w] - AmountOf[w]]
           twice   == [w \in P |-> 2 * (PerSat * SatsOf[w] - AmountOf[w])]
           most    == [w \in P |-> PerSat]
           least   == [w \in P |-> -PerSat]
<1>1. CustodyTypeOK /\ WalletInv(u) /\ PerSat \in Nat /\ IsFiniteSet(P)
  BY Numbers, PayingFacts DEF CustodyInv
<1>2. PaymentsTo(u) \subseteq Outputs /\ ChangeTo(u) \subseteq Outputs /\ CreditedTo(u) = late \cup change
  <2>1. \A o \in Outputs : Credited(u, o[1]) => Valid(o[1])
    BY DEF CustodyInv, RowsInv, Credited, Valid
  <2>2. \A o \in Outputs : o[2] = 0 \/ o[2] = 1
    BY <1>1, ChainTypes DEF Places
  <2> QED BY <2>1, <2>2 DEF PaymentsTo, ChangeTo, CreditedTo
<1>3. /\ PaymentsTo(u) = early \cup late /\ early \cap late = {} /\ late \cap change = {}
      /\ early \in SUBSET Outputs /\ late \in SUBSET Outputs /\ change \in SUBSET Outputs
  BY <1>2 DEF PaymentsTo, ChangeTo
<1> HIDE DEF P, early, late, change, feeOf
<1>4. ASSUME NEW A \in SUBSET Outputs, NEW B \in SUBSET Outputs, A \cap B = {}
      PROVE  /\ Worth(A \cup B) = Worth(A) + Worth(B) /\ Worth(A) \in Nat /\ Worth(B) \in Nat
  <2>1. /\ IsFiniteSet(A) /\ IsFiniteSet(B) /\ \A o \in A \cup B : ValueOf[o] \in Int
        /\ Worth(A) = SumFunctionOnSet(ValueOf, A) /\ Worth(B) = SumFunctionOnSet(ValueOf, B)
        /\ Worth(A \cup B) = SumFunctionOnSet(ValueOf, A \cup B)
        /\ Worth(A) \in Nat /\ Worth(B) \in Nat
    BY <1>1, WorthNat
  <2> QED BY ONLY <1>4, <2>1, SumApart
<1>5. /\ Worth(CreditedTo(u)) = Worth(late) + Worth(change)
      /\ Worth(PaymentsTo(u)) = Worth(early) + Worth(late)
      /\ Worth(early) \in Nat /\ Worth(late) \in Nat /\ Worth(change) \in Nat
  BY ONLY <1>2, <1>3, <1>4
<1>6. \A w \in P : SatsOf[w] \in Nat /\ AmountOf[w] \in Nat /\ FeeOf[w] = feeOf[w] /\ FeeOf[w] \in Nat
                   /\ SatsOf[w] = Sats(AmountOf[w])
  BY PayingFacts DEF P, feeOf
<1>7. SumFunction(feeOf) = SumFunctionOnSet(FeeOf, P)
  BY <1>1, <1>6, SumSame DEF SumFunction, feeOf
<1>8. \A w \in P : PerSat * SatsOf[w] \in Nat
  BY ONLY <1>1, <1>6, TimesNat
<1>9. \A w \in P :
         /\ satsOf[w] = PerSat * SatsOf[w] /\ minus[w] = -AmountOf[w] /\ minus[w] = (-1) * AmountOf[w]
         /\ offOf[w] = satsOf[w] + minus[w]
         /\ twice[w] = 2 * offOf[w] /\ most[w] = PerSat /\ least[w] = -PerSat
         /\ SatsOf[w] \in Int /\ AmountOf[w] \in Int /\ satsOf[w] \in Int /\ minus[w] \in Int
         /\ offOf[w] \in Int /\ twice[w] \in Int /\ most[w] \in Int /\ least[w] \in Int
  BY <1>1, <1>6, <1>8
<1>10. \A w \in P : least[w] <= twice[w] /\ twice[w] <= most[w]
  BY <1>6, SatsOff
<1> HIDE DEF satsOf, minus, offOf, twice, most, least
<1>11. /\ SumFunctionOnSet(least, P) <= SumFunctionOnSet(twice, P)
       /\ SumFunctionOnSet(twice, P) <= SumFunctionOnSet(most, P)
  BY ONLY <1>1, <1>9, <1>10, SumMonotone
<1>12. /\ SumFunctionOnSet(most, P) = PerSat * Cardinality(P)
       /\ SumFunctionOnSet(least, P) = (-PerSat) * Cardinality(P)
  <2>1. -PerSat \in Int /\ PerSat \in Int
    BY <1>1
  <2> QED BY ONLY <1>1, <1>9, <2>1, SumConstant
<1>13. SumFunctionOnSet(twice, P) = 2 * SumFunctionOnSet(offOf, P)
  BY ONLY <1>1, <1>9, 2 \in Int, SumTimes
<1>14. SumFunctionOnSet(offOf, P) = SumFunctionOnSet(satsOf, P) + SumFunctionOnSet(minus, P)
  BY ONLY <1>1, <1>9, SumPlus
<1>15. SumFunctionOnSet(satsOf, P) = PerSat * SumFunctionOnSet(SatsOf, P)
  BY ONLY <1>1, <1>9, SumTimes
<1>16. SumFunctionOnSet(minus, P) = (-1) * SumFunctionOnSet(AmountOf, P)
  BY ONLY <1>1, <1>9, -1 \in Int, SumTimes
<1>17. PICK held, back, paid, sent, miners, card, free, came, awaited, got, changed, hold :
          /\ held = SumFunction([w \in Holding(u) |-> withdrawal[w].amount])
          /\ back = SumFunction([w \in Returned(u) |-> withdrawal[w].amount])
          /\ paid = SumFunctionOnSet(AmountOf, P) /\ sent = SumFunctionOnSet(SatsOf, P)
          /\ miners = SumFunctionOnSet(FeeOf, P) /\ card = Cardinality(P)
          /\ free = Worth(Unspent(u)) /\ came = Worth(PaymentsTo(u))
          /\ awaited = Worth(early) /\ got = Worth(late) /\ changed = Worth(change)
          /\ hold = SumFunction(HoldOf(u))
  OBVIOUS
<1>18. /\ hold = held + paid - back /\ paid \in Int /\ held \in Int /\ back \in Int
  BY <1>17, HoldsAddUp DEF P
<1>19. /\ came = free + sent + miners /\ free \in Nat /\ came \in Nat
       /\ came = awaited + got /\ awaited \in Nat /\ got \in Nat /\ changed \in Nat
  <2>1. came = free + sent + miners /\ free \in Nat /\ came \in Nat
    BY <1>17, CoinsAddUp DEF P
  <2> QED BY ONLY <1>5, <1>17, <2>1
<1>20. balance[u] = PerSat * (got + changed) - hold
  BY ONLY <1>1, <1>5, <1>17 DEF WalletInv
<1>21. sent \in Int /\ miners \in Int /\ card \in Nat
  <2>1. \A w \in P : SatsOf[w] \in Int /\ FeeOf[w] \in Int
    BY ONLY <1>6
  <2> QED BY ONLY <1>1, <1>17, <2>1, SumInt, FS_CardinalityType
<1>22. balance[u] + held - back - PerSat * (free - awaited + changed + miners) = PerSat * sent - paid
  <2>1. got + changed = (free - awaited + changed + miners) + sent
    BY ONLY <1>19, <1>21
  <2>2. PICK x : x = free - awaited + changed + miners
    OBVIOUS
  <2>3. x \in Int
    BY ONLY <1>19, <1>21, <2>2
  <2>4. PerSat * (x + sent) = PerSat * x + PerSat * sent
    BY ONLY <1>1, <1>21, <2>3
  <2>5. PerSat * x \in Int /\ PerSat * sent \in Int
    BY ONLY <1>1, <1>21, <2>3
  <2> QED BY ONLY <1>18, <1>20, <2>1, <2>2, <2>4, <2>5
<1>23. SumFunctionOnSet(offOf, P) = PerSat * sent - paid
  <2>1. PerSat * sent \in Int
    BY ONLY <1>1, <1>21
  <2> QED BY ONLY <1>14, <1>15, <1>16, <1>17, <1>18, <2>1
<1>24. (-PerSat) * card = -(PerSat * card)
  BY ONLY <1>1, <1>21
<1>25. /\ -(PerSat * card) <= 2 * (PerSat * sent - paid)
       /\ 2 * (PerSat * sent - paid) <= PerSat * card
  BY ONLY <1>11, <1>12, <1>13, <1>17, <1>23, <1>24
<1>26. SumFunction([w \in Paying(u) |-> chain[withdrawal[w].tx].fee]) = miners
  BY <1>7, <1>17 DEF P, feeOf
<1> QED
  BY ONLY <1>17, <1>22, <1>25, <1>26 DEF P, early, change

-----------------------------------------------------------------------------
(* The steps.                                                               *)

\* The chain gains transactions; what one pays, to whom and out of what stays.
ChainGrows ==
    /\ DOMAIN chain \subseteq DOMAIN chain'
    /\ \A i \in DOMAIN chain :
          /\ chain'[i].out = chain[i].out /\ chain'[i].fee = chain[i].fee /\ chain'[i].ins = chain[i].ins

LEMMA OutputsKept ==
    ASSUME ChainGrows
    PROVE  /\ Outputs \subseteq Outputs'
           /\ \A o \in Outputs : Payee(o)' = Payee(o) /\ Value(o)' = Value(o) /\ o[1] \in DOMAIN chain
           /\ \A o \in Outputs' : o[1] \in DOMAIN chain => o \in Outputs
<1>1. \A o \in Outputs : o[1] \in DOMAIN chain
  BY DEF Outputs
<1>2. \A o \in Outputs : Payee(o)' = Payee(o) /\ Value(o)' = Value(o)
  BY <1>1 DEF ChainGrows, Payee, Value
<1> QED BY <1>1, <1>2 DEF ChainGrows, Outputs

LEMMA WorthKept ==
    ASSUME CustodyTypeOK, ChainGrows, NEW outputs \in SUBSET Outputs
    PROVE  Worth(outputs)' = Worth(outputs)
<1>1. IsFiniteSet(outputs) /\ Worth(outputs) = SumFunctionOnSet(ValueOf, outputs)
  BY WorthNat
<1>2. Worth(outputs)' = SumFunctionOnSet(ValueOf', outputs)
  BY DEF Worth, ValueOf
<1>3. \A o \in outputs : ValueOf'[o] = ValueOf[o]
  BY OutputsKept DEF ValueOf
<1> QED BY ONLY <1>1, <1>2, <1>3, SumSame

\* The handler plans the same as long as it is about the same outputs.
LEMMA PlanKept ==
    ASSUME ChainGrows, NEW w, ListedOnce(w),
           withdrawal'[w].listed = withdrawal[w].listed,
           withdrawal'[w].amount = withdrawal[w].amount,
           withdrawal'[w].feeRate = withdrawal[w].feeRate
    PROVE  ListedOnce(w)' /\ Plan(w)' = Plan(w) /\ Inputs(w)' = Inputs(w)
<1>1. ListedOnce(w)'
  BY OutputsKept DEF ListedOnce
<1>2. ListedValues(w)' = ListedValues(w)
  BY OutputsKept DEF ListedOnce, ListedValues
<1>3. Plan(w)' = Plan(w)
  BY <1>2 DEF Plan, ListedValues
<1> QED BY <1>1, <1>3 DEF Inputs

\* What it sent stays what it planned.
LEMMA PlannedKept ==
    ASSUME CustodyTypeOK, ChainGrows, NEW w \in Withdrawals, withdrawal[w] # None,
           ListedOnce(w), AsPlanned(w),
           withdrawal'[w].listed = withdrawal[w].listed,
           withdrawal'[w].amount = withdrawal[w].amount,
           withdrawal'[w].feeRate = withdrawal[w].feeRate,
           withdrawal'[w].user = withdrawal[w].user,
           withdrawal'[w].dest = withdrawal[w].dest,
           withdrawal'[w].tx = withdrawal[w].tx
    PROVE  AsPlanned(w)'
<1>1. Plan(w)' = Plan(w) /\ Inputs(w)' = Inputs(w)
  BY PlanKept
<1>2. Inputs(w) \subseteq Outputs
  BY PlanAddsUp DEF AsPlanned
<1>3. \A o \in Inputs(w) : Payee(o)' = withdrawal'[w].user
  BY <1>2, OutputsKept DEF AsPlanned
<1> QED BY <1>1, <1>3 DEF AsPlanned, ChainGrows

LEMMA HandlerKept ==
    ASSUME CustodyTypeOK, ChainGrows, NEW w \in Withdrawals, HandlerInv(w),
           withdrawal'[w] = withdrawal[w]
    PROVE  HandlerInv(w)'
<1> SUFFICES ASSUME withdrawal[w] # None PROVE HandlerInv(w)'
  BY DEF HandlerInv
<1>1. /\ withdrawal[w].held <=> withdrawal[w].pc # "failed"
      /\ withdrawal[w].pc \in {"list", "broadcast"} => withdrawal[w].tx = None
      /\ withdrawal[w].pc = "done" => withdrawal[w].tx # None
      /\ ListedOnce(w)
      /\ withdrawal[w].tx # None => AsPlanned(w)
  BY DEF HandlerInv
<1>2. ListedOnce(w)'
  BY <1>1, PlanKept
<1>3. withdrawal[w].tx # None => AsPlanned(w)'
  BY <1>1, PlannedKept
<1> QED BY <1>1, <1>2, <1>3 DEF HandlerInv

LEMMA CreditedKept ==
    ASSUME CustodyTypeOK, RowsInv, ChainGrows, credits' = credits, NEW u
    PROVE  CreditedTo(u)' = CreditedTo(u)
<1>1. \A i : Credited(u, i)' <=> Credited(u, i)
  BY DEF Credited
<1>2. \A i : Credited(u, i) => i \in DOMAIN chain
  BY DEF Credited, RowsInv
<1>3. CreditedTo(u)' = {o \in Outputs' : Payee(o)' = u /\ Credited(u, o[1])}
  BY <1>1 DEF CreditedTo
<1>4. \A o : o \in Outputs' /\ Credited(u, o[1]) <=> o \in Outputs /\ Credited(u, o[1])
  BY <1>2, OutputsKept
<1>5. \A o : o \in CreditedTo(u)' <=> o \in CreditedTo(u)
  BY <1>3, <1>4, OutputsKept DEF CreditedTo
<1> QED BY <1>5 DEF CreditedTo

LEMMA WalletKept ==
    ASSUME CustodyTypeOK, RowsInv, ChainGrows, credits' = credits, NEW u, WalletInv(u),
           balance'[u] = balance[u], HoldOf(u)' = HoldOf(u)
    PROVE  WalletInv(u)'
<1>1. CreditedTo(u)' = CreditedTo(u) /\ CreditedTo(u) \in SUBSET Outputs
  BY CreditedKept DEF CreditedTo
<1>2. Worth(CreditedTo(u))' = Worth(CreditedTo(u))
  <2>1. \A S \in SUBSET Outputs : Worth(S)' = Worth(S)
    BY WorthKept
  <2>2. Worth(CreditedTo(u))' = SumFunctionOnSet(ValueOf', CreditedTo(u)')
    BY DEF Worth, ValueOf
  <2>3. Worth(CreditedTo(u)) = SumFunctionOnSet(ValueOf, CreditedTo(u))
    BY <1>1, WorthNat
  <2>4. SumFunctionOnSet(ValueOf', CreditedTo(u)) = SumFunctionOnSet(ValueOf, CreditedTo(u))
    <3>1. \A o \in CreditedTo(u) : ValueOf'[o] = ValueOf[o]
      BY <1>1, OutputsKept DEF ValueOf
    <3>2. IsFiniteSet(CreditedTo(u))
      BY <1>1, WorthNat
    <3> QED BY ONLY <3>1, <3>2, SumSame
  <2> QED BY <1>1, <2>2, <2>3, <2>4
<1> QED BY <1>2 DEF WalletInv

\* A step of the chain alone.
LEMMA ChainStep ==
    ASSUME CustodyInv, ChainGrows, UNCHANGED <<depositVars, withdrawal>>,
           (chain \in Seq(Transactions))', (Len(chain) <= MaxChain)', CoinsInv',
           \A i \in DOMAIN chain : chain[i].state = "confirmed" => chain'[i].state = "confirmed",
           \A i \in DOMAIN chain' \ DOMAIN chain : chain'[i].ins = {}
    PROVE  CustodyInv'
<1>1. UNCHANGED <<balance, credits, addresses, withdrawal>>
  BY DEF depositVars
<1>2. CustodyTypeOK /\ SendersInv /\ RowsInv
  BY DEF CustodyInv
<1>3. CustodyTypeOK'
  BY <1>1, <1>2 DEF CustodyTypeOK
<1>4. SendersInv'
  BY <1>1, <1>2 DEF SendersInv, Sent, ChainGrows
<1>5. RowsInv'
  BY <1>1, <1>2 DEF RowsInv, ChainGrows
<1>6. ASSUME NEW w \in Withdrawals PROVE HandlerInv(w)'
  BY <1>1, <1>2, HandlerKept DEF CustodyInv
<1>7. ASSUME NEW u \in Users PROVE WalletInv(u)'
  <2>1. HoldOf(u)' = HoldOf(u)
    BY <1>1 DEF HoldOf
  <2> QED BY <1>1, <1>2, <2>1, WalletKept DEF CustodyInv
<1> QED BY <1>3, <1>4, <1>5, <1>6, <1>7 DEF CustodyInv

\* A step of a handler that sends nothing: the wallet gives up what the handler
\* takes hold of.
LEMMA HandlerStep ==
    ASSUME CustodyInv, UNCHANGED <<credits, addresses, chain>>,
           NEW w \in Withdrawals, HandlerInv(w)',
           NEW r \in Handlers, withdrawal' = [withdrawal EXCEPT ![w] = r],
           r.tx = IF Sent(w) THEN withdrawal[w].tx ELSE None,
           balance' \in [Users -> Int],
           \A u \in Users : balance'[u] = balance[u] + HoldOf(u)[w]
                                             - (IF r.user = u /\ r.held THEN r.amount ELSE 0)
    PROVE  CustodyInv'
<1>1. CustodyTypeOK /\ SendersInv /\ RowsInv /\ CoinsInv
  BY DEF CustodyInv
<1>2. /\ withdrawal'[w] = r /\ r # None
      /\ \A v \in Withdrawals \ {w} : withdrawal'[v] = withdrawal[v]
      /\ withdrawal' \in [Withdrawals -> Handlers \cup {None}]
  BY <1>1, HandlersAssumption DEF CustodyTypeOK
<1>3. CustodyTypeOK' /\ CoinsInv' /\ (Len(chain) <= MaxChain)'
  BY <1>1, <1>2 DEF CustodyTypeOK, CoinsInv, Valid, Outputs, Value, CustodyInv
<1>4. ChainGrows
  BY DEF ChainGrows
<1>5. RowsInv'
  BY <1>1 DEF RowsInv
<1>6. SendersInv'
  <2>1. \A v \in Withdrawals : /\ Sent(v)' <=> Sent(v)
                               /\ Sent(v) => withdrawal'[v].tx = withdrawal[v].tx
    BY <1>2 DEF Sent
  <2> QED BY <1>1, <2>1 DEF SendersInv
<1>7. ASSUME NEW v \in Withdrawals PROVE HandlerInv(v)'
  <2>1. CASE v # w
    BY <1>1, <1>2, <1>4, <2>1, HandlerKept DEF CustodyInv
  <2> QED BY <2>1
<1>8. ASSUME NEW u \in Users PROVE WalletInv(u)'
  <2>1. PICK f, g, now, then, worth, perSat :
           /\ f = HoldOf(u) /\ g = HoldOf(u)' /\ then = balance[u] /\ now = balance'[u]
           /\ worth = Worth(CreditedTo(u)) /\ perSat = PerSat
    OBVIOUS
  <2>2. /\ g[w] = (IF r.user = u /\ r.held THEN r.amount ELSE 0)
        /\ \A v \in Withdrawals \ {w} : g[v] = f[v]
        /\ DOMAIN f = Withdrawals /\ DOMAIN g = Withdrawals
    BY <1>2, <2>1 DEF HoldOf
  <2>3. \A v \in Withdrawals : f[v] \in Int /\ g[v] \in Int
    <3>1. ASSUME NEW v \in Withdrawals PROVE HoldOf(u)[v] \in Int
      BY <1>1, HandlerTypes DEF HoldOf
    <3>2. r.amount \in Int
      <4>1. r.amount \in Amounts
        BY DEF Handlers
      <4>2. Amounts \subseteq Nat \ {0}
        BY Numbers
      <4>3. r.amount \in Nat \ {0}
        BY ONLY <4>1, <4>2, Zenon
      <4> QED BY ONLY <4>3
    <3> QED BY <2>1, <2>2, <3>1, <3>2
  <2>4. SumFunctionOnSet(g, Withdrawals) = SumFunctionOnSet(f, Withdrawals) + (g[w] - f[w])
    <3>1. IsFiniteSet(Withdrawals)
      BY Numbers
    <3> QED BY ONLY <2>2, <2>3, <3>1, w \in Withdrawals, SumChange
  <2>5. SumFunctionOnSet(f, Withdrawals) \in Int
    <3>1. IsFiniteSet(Withdrawals)
      BY Numbers
    <3> QED BY ONLY <2>3, <3>1, SumInt
  <2>6. now = then + f[w] - g[w] /\ then \in Int
    BY <1>1, <2>1, <2>2 DEF CustodyTypeOK
  <2>7. CreditedTo(u) \in SUBSET Outputs /\ worth \in Nat /\ perSat \in Nat
    <3>1. CreditedTo(u) \in SUBSET Outputs
      BY DEF CreditedTo
    <3> QED BY <1>1, <2>1, <3>1, WorthNat, Numbers
  <2>8. then = perSat * worth - SumFunctionOnSet(f, Withdrawals)
    BY <2>1, <2>2 DEF CustodyInv, WalletInv, SumFunction
  <2>9. perSat * worth \in Int
    BY ONLY <2>7
  <2>10. f[w] \in Int /\ g[w] \in Int
    BY <2>3
  <2>11. now = perSat * worth - SumFunctionOnSet(g, Withdrawals)
    BY ONLY <2>4, <2>5, <2>6, <2>8, <2>9, <2>10
  <2>12. Worth(CreditedTo(u))' = worth
    BY <2>1 DEF Worth, CreditedTo, Credited, Outputs, Payee, Value
  <2> QED BY <2>1, <2>2, <2>11, <2>12 DEF WalletInv, SumFunction
<1> QED BY <1>3, <1>5, <1>6, <1>7, <1>8 DEF CustodyInv

LEMMA CustodyInvInit == CustodyInit => CustodyInv
<1> SUFFICES ASSUME CustodyInit PROVE CustodyInv
  OBVIOUS
<1>1. /\ balance = [u \in Users |-> 0] /\ credits = {} /\ chain = <<>>
      /\ withdrawal = [w \in Withdrawals |-> None] /\ DOMAIN chain = {}
      /\ Len(chain) = 0
  BY DEF CustodyInit
<1>2. CustodyTypeOK /\ Len(chain) <= MaxChain /\ CoinsInv /\ SendersInv /\ RowsInv
  BY <1>1, Numbers DEF CustodyTypeOK, CoinsInv, SendersInv, Sent, RowsInv
<1>3. \A w \in Withdrawals : HandlerInv(w)
  BY <1>1 DEF HandlerInv
<1>4. ASSUME NEW u \in Users PROVE WalletInv(u)
  <2>1. CreditedTo(u) = {} /\ Worth({}) = 0
    <3>1. CreditedTo(u) = {}
      BY <1>1 DEF CreditedTo, Credited
    <3>2. Worth({}) = 0
      BY SumEmpty DEF Worth
    <3> QED BY <3>1, <3>2
  <2>2. /\ DOMAIN HoldOf(u) = Withdrawals
        /\ \A w \in Withdrawals : HoldOf(u)[w] = 0
    BY <1>1 DEF HoldOf
  <2>3. SumFunction(HoldOf(u)) = 0
    BY <2>2, Numbers, SumZero DEF SumFunction
  <2> QED BY <1>1, <2>1, <2>3, Numbers DEF WalletInv
<1> QED BY <1>2, <1>3, <1>4 DEF CustodyInv

LEMMA PayToStep ==
    ASSUME CustodyInv, NEW u \in Users, NEW value \in Values, PayTo(u, value)
    PROVE  CustodyInv'
<1> DEFINE t == [out |-> Outs(u, value, Outside, 0), fee |-> 0, ins |-> {}, state |-> "unconfirmed"]
<1>1. /\ chain \in Seq(Transactions) /\ Len(chain) < MaxChain /\ MaxChain \in Nat
      /\ chain' = Append(chain, t) /\ UNCHANGED <<depositVars, withdrawal>>
  BY Numbers DEF PayTo, CustodyInv, CustodyTypeOK
<1>2. t \in Transactions
  <2>1. value \in Nat
    BY Numbers
  <2>2. Outs(u, value, Outside, 0) \in [Places -> [to : Users \cup {Outside}, value : Nat]]
    BY <2>1 DEF Outs
  <2> QED BY <2>2 DEF Transactions
<1>3. /\ chain' \in Seq(Transactions) /\ Len(chain) \in Nat /\ Len(chain') = Len(chain) + 1
      /\ DOMAIN chain = 1..Len(chain) /\ DOMAIN chain' = 1..(Len(chain) + 1)
      /\ \A i \in DOMAIN chain : chain'[i] = chain[i] /\ i \in DOMAIN chain'
      /\ \A i \in DOMAIN chain' \ DOMAIN chain : chain'[i].ins = {} /\ chain'[i].out[1].to = Outside
  <2>1. t.ins = {} /\ t.out[1].to = Outside
    BY DEF Outs, Places
  <2> HIDE DEF t
  <2> QED BY <1>1, <1>2, <2>1
<1> HIDE DEF t
<1>4. ChainGrows
  BY <1>3 DEF ChainGrows
<1>5. CoinsInv'
  <2>1. CoinsInv /\ \A i \in DOMAIN chain : Valid(i)' <=> Valid(i)
    BY <1>3 DEF CustodyInv, Valid
  <2>2. ASSUME NEW i \in DOMAIN chain', NEW o \in chain'[i].ins
        PROVE  /\ o \in Outputs' /\ o[1] < i /\ Value(o)' > 0
               /\ Valid(i)' => Valid(o[1])'
               /\ chain'[i].state = "confirmed" => chain'[o[1]].state = "confirmed"
    <3>1. i \in DOMAIN chain /\ chain'[i] = chain[i] /\ o \in chain[i].ins
      BY <1>3, <2>2
    <3>2. o \in Outputs /\ o[1] \in DOMAIN chain
      BY <1>4, <2>1, <3>1, OutputsKept DEF CoinsInv
    <3> QED BY <1>3, <1>4, <2>1, <3>1, <3>2, OutputsKept DEF CoinsInv
  <2>3. \A i \in DOMAIN chain', j \in DOMAIN chain' :
           i # j /\ Valid(i)' /\ Valid(j)' => chain'[i].ins \cap chain'[j].ins = {}
    BY <1>3, <2>1 DEF CoinsInv
  <2>4. \A i \in DOMAIN chain' : chain'[i].ins = {} => chain'[i].out[1].to = Outside
    BY <1>3, <2>1 DEF CoinsInv
  <2> QED BY <2>2, <2>3, <2>4 DEF CoinsInv
<1> QED BY <1>1, <1>3, <1>4, <1>5, ChainStep

LEMMA ConfirmStep ==
    ASSUME CustodyInv, NEW i \in DOMAIN chain, Confirm(i)
    PROVE  CustodyInv'
<1>1. /\ chain \in Seq(Transactions) /\ chain[i].state = "unconfirmed"
      /\ \A o \in chain[i].ins : chain[o[1]].state = "confirmed"
      /\ chain' = [chain EXCEPT ![i].state = "confirmed"] /\ UNCHANGED <<depositVars, withdrawal>>
  BY DEF Confirm, CustodyInv, CustodyTypeOK
<1>2. /\ chain' \in Seq(Transactions) /\ Len(chain') = Len(chain) /\ DOMAIN chain' = DOMAIN chain
      /\ chain'[i] = [chain[i] EXCEPT !.state = "confirmed"] /\ chain[i] \in Transactions
      /\ \A j \in DOMAIN chain : j # i => chain'[j] = chain[j]
  <2>1. chain[i] \in Transactions
    BY <1>1
  <2>2. [chain[i] EXCEPT !.state = "confirmed"] \in Transactions
    BY <2>1 DEF Transactions
  <2> QED BY <1>1, <2>1, <2>2
<1>3. /\ chain'[i].out = chain[i].out /\ chain'[i].fee = chain[i].fee
      /\ chain'[i].ins = chain[i].ins /\ chain'[i].state = "confirmed"
  BY <1>2 DEF Transactions
<1>4. ChainGrows
  BY <1>2, <1>3 DEF ChainGrows
<1>5. \A j \in DOMAIN chain : (Valid(j)' <=> Valid(j)) /\ chain'[j].ins = chain[j].ins
                              /\ (chain'[j].state = "confirmed" <=> j = i \/ chain[j].state = "confirmed")
                              /\ chain'[j].out = chain[j].out
  BY <1>1, <1>2, <1>3 DEF Valid
<1>6. CoinsInv'
  <2>1. CoinsInv /\ Outputs' = Outputs /\ \A o \in Outputs : Value(o)' = Value(o) /\ o[1] \in DOMAIN chain
    BY <1>2, <1>4, OutputsKept DEF CustodyInv, Outputs
  <2> QED BY <1>1, <1>2, <1>5, <2>1 DEF CoinsInv
<1>7. \A j \in DOMAIN chain : chain[j].state = "confirmed" => chain'[j].state = "confirmed"
  BY <1>5
<1>8. (Len(chain) <= MaxChain)'
  BY <1>2 DEF CustodyInv
<1> QED BY <1>1, <1>2, <1>4, <1>6, <1>7, <1>8, ChainStep

\* What vanishes was not confirmed: the oldest that was would spend an older one.
LEMMA VanishStep ==
    ASSUME CustodyInv, NEW i \in DOMAIN chain, Vanish(i)
    PROVE  CustodyInv'
<1>1. PICK gone \in SUBSET DOMAIN chain :
         /\ gone = {j \in DOMAIN chain : j = i \/ \E o \in chain[j].ins : o[1] \in gone}
         /\ chain' = [j \in DOMAIN chain |->
                         IF j \in gone THEN [chain[j] EXCEPT !.state = "gone"] ELSE chain[j]]
  BY DEF Vanish
<1>2. /\ chain \in Seq(Transactions) /\ chain[i].state = "unconfirmed"
      /\ UNCHANGED <<depositVars, withdrawal>> /\ CoinsInv
  BY DEF Vanish, CustodyInv, CustodyTypeOK
<1>3. \A j \in gone : j = i \/ \E o \in chain[j].ins : o[1] \in gone
  BY <1>1
<1>4. \A j \in DOMAIN chain : j \notin gone => \A o \in chain[j].ins : o[1] \notin gone
  BY <1>1
<1>5. \A j \in gone : chain[j].state # "confirmed"
  <2> DEFINE firm == {j \in gone : chain[j].state = "confirmed"}
  <2>1. CASE firm # {}
    <3>1. firm \subseteq Nat
      BY <1>2
    <3> HIDE DEF firm
    <3>2. PICK j \in firm : \A k \in firm : j <= k
      BY <2>1, <3>1, 1 \in Nat \ {0}, LeastNat
    <3> USE DEF firm
    <3>3. PICK o \in chain[j].ins : o[1] \in gone
      BY <1>2, <1>3
    <3>4. o[1] < j /\ o[1] \in firm
      BY <1>2, <3>3 DEF CoinsInv
    <3> QED BY <3>1, <3>2, <3>4
  <2> QED BY <2>1
<1>6. \A j \in DOMAIN chain : chain[j] \in Transactions /\ [chain[j] EXCEPT !.state = "gone"] \in Transactions
  <2>1. \A j \in DOMAIN chain : chain[j] \in Transactions
    BY <1>2
  <2> QED BY <2>1 DEF Transactions
<1>7. chain' \in Seq(Transactions) /\ Len(chain') = Len(chain) /\ DOMAIN chain' = DOMAIN chain
  <2>1. PICK n, f : /\ n = Len(chain)
                    /\ f = [j \in DOMAIN chain |->
                               IF j \in gone THEN [chain[j] EXCEPT !.state = "gone"] ELSE chain[j]]
    OBVIOUS
  <2>2. n \in Nat /\ DOMAIN chain = 1..n
    BY <1>2, <2>1
  <2>3. DOMAIN f = 1..n /\ \A j \in 1..n : f[j] \in Transactions
    BY ONLY <1>6, <2>1, <2>2
  <2>4. f = [j \in 1..n |-> f[j]]
    BY ONLY <2>1, <2>2
  <2>5. f \in Seq(Transactions) /\ Len(f) = n
    BY ONLY <2>2, <2>3, <2>4
  <2> QED BY ONLY <1>1, <2>1, <2>2, <2>3, <2>5
<1>8. \A j \in DOMAIN chain :
         /\ chain'[j].out = chain[j].out /\ chain'[j].fee = chain[j].fee /\ chain'[j].ins = chain[j].ins
         /\ chain'[j].state = IF j \in gone THEN "gone" ELSE chain[j].state
  BY <1>1, <1>6 DEF Transactions
<1>9. ChainGrows
  BY <1>7, <1>8 DEF ChainGrows
<1>10. CoinsInv'
  <2>1. \A j \in DOMAIN chain : Valid(j)' <=> j \notin gone /\ Valid(j)
    BY <1>8 DEF Valid
  <2>2. \A j \in DOMAIN chain : chain'[j].state = "confirmed" <=> j \notin gone /\ chain[j].state = "confirmed"
    BY <1>8
  <2>3. \A j \in DOMAIN chain, k \in DOMAIN chain :
           j # k /\ Valid(j)' /\ Valid(k)' => chain'[j].ins \cap chain'[k].ins = {}
    BY <1>2, <1>8, <2>1 DEF CoinsInv
  <2>4. Outputs' = Outputs /\ \A o \in Outputs : Value(o)' = Value(o) /\ o[1] \in DOMAIN chain
    BY <1>7, <1>9, OutputsKept DEF Outputs
  <2>5. ASSUME NEW j \in DOMAIN chain, NEW o \in chain[j].ins
        PROVE  /\ o \in Outputs' /\ o[1] < j /\ Value(o)' > 0
               /\ Valid(j)' => Valid(o[1])'
               /\ chain'[j].state = "confirmed" => chain'[o[1]].state = "confirmed"
    <3>1. /\ o \in Outputs /\ o[1] \in DOMAIN chain /\ o[1] < j /\ Value(o) > 0
          /\ Valid(j) => Valid(o[1])
          /\ chain[j].state = "confirmed" => chain[o[1]].state = "confirmed"
      BY <1>2, <2>4 DEF CoinsInv
    <3>2. j \notin gone => o[1] \notin gone
      BY <1>4
    <3> QED BY <2>1, <2>2, <2>4, <3>1, <3>2
  <2>6. \A j \in DOMAIN chain : chain'[j].ins = {} => chain'[j].out[1].to = Outside
    BY <1>2, <1>8 DEF CoinsInv
  <2> QED BY <1>7, <1>8, <2>3, <2>5, <2>6 DEF CoinsInv
<1>11. \A j \in DOMAIN chain : chain[j].state = "confirmed" => chain'[j].state = "confirmed"
  BY <1>5, <1>8
<1>12. (Len(chain) <= MaxChain)'
  BY <1>7 DEF CustodyInv
<1> QED BY <1>2, <1>7, <1>9, <1>10, <1>11, <1>12, ChainStep

LEMMA CreditReceivedStep ==
    ASSUME CustodyInv, NEW i \in DOMAIN chain, NEW user \in Users, CreditReceived(user, i)
    PROVE  CustodyInv'
<1> DEFINE coins  == Received(user, i)
           amount == PerSat * Worth(coins)
           row    == [tx |-> i, user |-> user, amount |-> amount]
<1>1. CustodyTypeOK /\ CoinsInv /\ SendersInv /\ RowsInv /\ Len(chain) <= MaxChain
  BY DEF CustodyInv
<1>2. /\ chain[i].state = "confirmed" /\ UNCHANGED <<chain, withdrawal, addresses>>
      /\ IF Seen(i) THEN UNCHANGED <<balance, credits>>
         ELSE /\ credits' = credits \cup {row}
              /\ balance' = [balance EXCEPT ![user] = @ + amount]
  BY DEF CreditReceived, CreditDeposit
<1>3. /\ coins \in SUBSET Outputs /\ IsFiniteSet(coins) /\ Worth(coins) \in Nat /\ PerSat \in Nat
      /\ amount \in Nat /\ i \in Txs
  <2>1. coins \in SUBSET Outputs
    BY DEF Received
  <2>2. Worth(coins) \in Nat /\ IsFiniteSet(coins) /\ DOMAIN chain = 1..Len(chain) /\ Len(chain) \in Nat
    BY <1>1, <2>1, WorthNat, ChainTypes
  <2>3. PerSat \in Nat /\ MaxChain \in Nat /\ Txs = 1..MaxChain
    BY Numbers
  <2>4. amount \in Nat
    BY ONLY <2>2, <2>3, TimesNat
  <2>5. i \in Txs
    BY ONLY <1>1, <2>2, <2>3, i \in DOMAIN chain
  <2> QED BY ONLY <2>1, <2>2, <2>3, <2>4, <2>5
<1>4. ChainGrows
  BY <1>2 DEF ChainGrows
<1>5. CoinsInv' /\ SendersInv' /\ (Len(chain) <= MaxChain)'
  BY <1>1, <1>2 DEF CoinsInv, SendersInv, Sent, Valid, Outputs, Value
<1> HIDE DEF coins, amount
<1>6. RowsInv'
  <2>1. row \in [tx : Txs, user : Users, amount : Nat]
    BY <1>3
  <2>2. CASE Seen(i)
    BY <1>1, <1>2, <2>2 DEF RowsInv
  <2>3. CASE ~Seen(i)
    <3>1. credits' = credits \cup {row} /\ row.tx = i
      BY <1>2, <2>3
    <3> QED BY <1>1, <1>2, <2>1, <3>1 DEF RowsInv
  <2> QED BY <2>2, <2>3
<1>7. CustodyTypeOK'
  <2>1. balance' \in [Users -> Int]
    BY <1>1, <1>2, <1>3 DEF CustodyTypeOK
  <2> QED BY <1>1, <1>2, <2>1 DEF CustodyTypeOK
<1>8. ASSUME NEW w \in Withdrawals PROVE HandlerInv(w)'
  BY <1>1, <1>2, <1>4, HandlerKept DEF CustodyInv
<1>9. ASSUME NEW u \in Users PROVE WalletInv(u)'
  <2>1. HoldOf(u)' = HoldOf(u) /\ WalletInv(u)
    BY <1>2 DEF HoldOf, CustodyInv
  <2>2. CASE Seen(i)
    BY <1>1, <1>2, <1>4, <2>1, <2>2, WalletKept
  <2>3. CASE ~Seen(i) /\ u # user
    <3>1. credits' = credits \cup {row} /\ row.user # u
      BY <1>2, <2>3
    <3>2. \A j : Credited(u, j)' <=> Credited(u, j)
      BY <3>1 DEF Credited
    <3>3. CreditedTo(u)' = CreditedTo(u) /\ balance'[u] = balance[u]
      BY <1>1, <1>2, <1>3, <2>3, <3>2 DEF CreditedTo, Outputs, Payee, CustodyTypeOK
    <3> QED BY <1>2, <2>1, <3>3 DEF WalletInv, Worth, Outputs, Value
  <2>4. CASE ~Seen(i) /\ u = user
    <3>1. CreditedTo(u)' = CreditedTo(u) \cup coins /\ CreditedTo(u) \cap coins = {}
      <4>1. credits' = credits \cup {row} /\ row.tx = i /\ row.user = u /\ chain' = chain
        BY <1>2, <2>4
      <4>2. \A j : Credited(u, j)' <=> Credited(u, j) \/ j = i
        BY ONLY <4>1 DEF Credited
      <4>3. ~Credited(u, i)
        BY <2>4 DEF Credited, Seen
      <4>4. coins = {o \in Outputs : o[1] = i /\ Payee(o) = u}
        BY <2>4 DEF coins, Received
      <4>5. CreditedTo(u)' = {o \in Outputs : Payee(o) = u /\ (Credited(u, o[1]) \/ o[1] = i)}
        BY <4>1, <4>2 DEF CreditedTo, Outputs, Payee
      <4> QED BY <4>3, <4>4, <4>5 DEF CreditedTo
    <3>2. balance'[u] = balance[u] + amount /\ balance[u] \in Int
      BY <1>1, <1>2, <1>3, <2>4 DEF CustodyTypeOK
    <3>3. PICK before, after, value, hold, perSat :
             /\ before = Worth(CreditedTo(u)) /\ after = Worth(CreditedTo(u))' /\ value = Worth(coins)
             /\ hold = SumFunction(HoldOf(u)) /\ perSat = PerSat
      OBVIOUS
    <3>4. after = Worth(CreditedTo(u) \cup coins)
      BY <1>2, <3>1, <3>3 DEF Worth, Outputs, Value
    <3>5. CreditedTo(u) \in SUBSET Outputs /\ CreditedTo(u) \cup coins \in SUBSET Outputs
      BY <1>3 DEF CreditedTo
    <3>6. /\ IsFiniteSet(CreditedTo(u)) /\ before = SumFunctionOnSet(ValueOf, CreditedTo(u)) /\ before \in Nat
          /\ after = SumFunctionOnSet(ValueOf, CreditedTo(u) \cup coins)
          /\ value = SumFunctionOnSet(ValueOf, coins)
          /\ \A o \in CreditedTo(u) \cup coins : ValueOf[o] \in Int
      BY <1>1, <1>3, <3>3, <3>4, <3>5, WorthNat
    <3>7. after = before + value
      BY ONLY <1>3, <3>1, <3>6, SumApart
    <3>8. value \in Nat /\ perSat \in Nat
      BY <1>3, <3>3
    <3>9. perSat * after = perSat * before + perSat * value
      BY ONLY <3>6, <3>7, <3>8
    <3>10. balance[u] = perSat * before - hold /\ SumFunction(HoldOf(u))' = hold
      BY <2>1, <3>3 DEF WalletInv
    <3>11. hold = perSat * before - balance[u]
      <4>1. IsFiniteSet(Withdrawals) /\ DOMAIN HoldOf(u) = Withdrawals
        BY Numbers DEF HoldOf
      <4>2. \A w \in Withdrawals : HoldOf(u)[w] \in Int
        BY <1>1, HandlerTypes DEF HoldOf
      <4>3. hold \in Int
        BY <3>3, <4>1, <4>2, SumInt DEF SumFunction
      <4>4. perSat * before \in Int
        BY ONLY <3>6, <3>8
      <4> QED BY ONLY <3>2, <3>10, <4>3, <4>4
    <3>12. perSat * before \in Int /\ perSat * value \in Int /\ amount = perSat * value
      BY <1>3, <3>3, <3>6, <3>8 DEF amount
    <3>13. balance'[u] = perSat * after - hold
      BY ONLY <3>2, <3>9, <3>11, <3>12
    <3> QED BY <3>3, <3>10, <3>13 DEF WalletInv
  <2> QED BY <2>2, <2>3, <2>4
<1> QED BY <1>5, <1>6, <1>7, <1>8, <1>9 DEF CustodyInv

LEMMA DeductStep ==
    ASSUME CustodyInv, NEW w \in Withdrawals, NEW u \in Users, NEW dest \in Users \cup {Outside},
           NEW amount \in Amounts, Deduct(w, u, dest, amount)
    PROVE  CustodyInv'
<1> DEFINE r == [user |-> u, dest |-> dest, amount |-> amount, held |-> TRUE, listed |-> <<>>,
                 feeRate |-> 0, tx |-> None, pc |-> "list"]
<1>1. /\ withdrawal[w] = None /\ balance' = [balance EXCEPT ![u] = @ - amount]
      /\ withdrawal' = [withdrawal EXCEPT ![w] = r] /\ UNCHANGED <<credits, addresses, chain>>
      /\ balance \in [Users -> Int] /\ ~Sent(w) /\ withdrawal'[w] = r
  BY DEF Deduct, CustodyInv, CustodyTypeOK, Sent
<1>2. amount \in Int
  <2>1. Amounts \subseteq Nat \ {0}
    BY Numbers
  <2>2. amount \in Nat \ {0}
    BY ONLY <2>1, amount \in Amounts, Zenon
  <2> QED BY ONLY <2>2
<1>3. r \in Handlers /\ DOMAIN r.listed = {} /\ r.tx = None /\ r.held /\ r.user = u /\ r.amount = amount
      /\ r.pc = "list"
  BY DEF Handlers
<1> HIDE DEF r
<1>4. balance' \in [Users -> Int]
  BY <1>1, <1>2
<1>5. ASSUME NEW v \in Users
      PROVE  balance'[v] = balance[v] + HoldOf(v)[w] - (IF r.user = v /\ r.held THEN r.amount ELSE 0)
  <2>1. HoldOf(v)[w] = 0
    BY <1>1 DEF HoldOf
  <2> QED BY <1>1, <1>2, <1>3, <2>1
<1>6. HandlerInv(w)'
  BY <1>1, <1>3 DEF HandlerInv, ListedOnce
<1>7. r.tx = IF Sent(w) THEN withdrawal[w].tx ELSE None
  BY <1>1, <1>3
<1> QED BY <1>1, <1>3, <1>4, <1>5, <1>6, <1>7, HandlerStep

LEMMA ListOutputsStep ==
    ASSUME CustodyInv, NEW w \in Withdrawals, NEW feeRate \in FeeRates, ListOutputs(w, feeRate)
    PROVE  CustodyInv'
<1> DEFINE his == Unspent(withdrawal[w].user)
<1>1. PICK listed \in Listings(his) :
         withdrawal' = [withdrawal EXCEPT ![w].listed = listed, ![w].feeRate = feeRate,
                                          ![w].pc = "broadcast"]
  BY DEF ListOutputs
<1>2. /\ At(w, "list") /\ UNCHANGED <<depositVars, chain>> /\ CustodyTypeOK /\ HandlerInv(w)
      /\ Len(chain) <= MaxChain
  BY DEF ListOutputs, CustodyInv
<1>3. withdrawal[w] \in Handlers /\ withdrawal[w] # None /\ withdrawal[w].pc = "list"
  BY <1>2, HandlerTypes DEF At
<1>4. withdrawal[w].held /\ withdrawal[w].tx = None /\ ~Sent(w)
  BY <1>2, <1>3 DEF HandlerInv, Sent
<1>5. his \subseteq Outputs /\ his \in SUBSET (Txs \X Places)
  <2>1. his \subseteq Outputs
    BY DEF Unspent
  <2>2. DOMAIN chain = 1..Len(chain) /\ Len(chain) \in Nat
    BY <1>2, ChainTypes
  <2>3. Txs = 1..MaxChain /\ MaxChain \in Nat
    BY Numbers
  <2>4. 1..Len(chain) \subseteq 1..MaxChain
    BY ONLY <1>2, <2>2, <2>3
  <2>5. Outputs \subseteq Txs \X Places
    BY <2>2, <2>3, <2>4 DEF Outputs
  <2> QED BY ONLY <2>1, <2>5
<1> HIDE DEF his
<1>6. listed \in SetToSeqs(his)
  BY <1>1, <1>5, CustodyAssumption
<1>7. /\ listed \in Seq(Txs \X Places) /\ \A k \in DOMAIN listed : listed[k] \in Outputs
      /\ \A k \in DOMAIN listed, l \in DOMAIN listed : k # l => listed[k] # listed[l]
  <2>1. IsFiniteSet(his)
    BY <1>2, <1>5, ChainTypes, FS_Subset
  <2>2. PICK n : n = Cardinality(his)
    OBVIOUS
  <2>3. n \in Nat
    BY <2>1, <2>2, FS_CardinalityType
  <2>4. listed \in [1..n -> his] /\ \A k, l \in 1..n : k # l => listed[k] # listed[l]
    BY <1>6, <2>2 DEF SetToSeqs
  <2> QED BY ONLY <1>5, <2>3, <2>4
<1>8. PICK r : r = [withdrawal[w] EXCEPT !.listed = listed, !.feeRate = feeRate, !.pc = "broadcast"]
  OBVIOUS
<1>9. /\ r \in Handlers /\ r.listed = listed /\ r.tx = None /\ r.held /\ r.user = withdrawal[w].user
      /\ r.amount = withdrawal[w].amount /\ r.pc = "broadcast"
  BY <1>3, <1>4, <1>7, <1>8 DEF Handlers
<1>10. withdrawal' = [withdrawal EXCEPT ![w] = r]
  BY <1>1, <1>2, <1>3, <1>8 DEF CustodyTypeOK, Handlers
<1>11. UNCHANGED <<credits, addresses, chain>> /\ balance' = balance /\ balance' \in [Users -> Int]
  BY <1>2 DEF depositVars, CustodyTypeOK
<1>12. ASSUME NEW v \in Users
       PROVE  balance'[v] = balance[v] + HoldOf(v)[w] - (IF r.user = v /\ r.held THEN r.amount ELSE 0)
  <2>1. HoldOf(v)[w] = IF r.user = v /\ r.held THEN r.amount ELSE 0
    BY <1>3, <1>4, <1>9 DEF HoldOf
  <2>2. HoldOf(v)[w] \in Int /\ balance[v] \in Int
    BY <1>2, HandlerTypes DEF HoldOf, CustodyTypeOK
  <2> QED BY ONLY <1>11, <2>1, <2>2
<1>13. withdrawal'[w] = r /\ Outputs' = Outputs
  BY <1>2, <1>10 DEF Outputs, CustodyTypeOK
<1>14. HandlerInv(w)'
  BY <1>7, <1>9, <1>13 DEF HandlerInv, ListedOnce
<1>15. r.tx = IF Sent(w) THEN withdrawal[w].tx ELSE None
  BY <1>4, <1>9
<1> QED BY ONLY CustodyInv, w \in Withdrawals, <1>9, <1>10, <1>11, <1>12, <1>14, <1>15, HandlerStep

LEMMA FailsStep ==
    ASSUME CustodyInv, NEW w \in Withdrawals, Fails(w)
    PROVE  CustodyInv'
<1>1. /\ At(w, "list") \/ At(w, "broadcast")
      /\ UNCHANGED <<depositVars, chain>> /\ CustodyTypeOK /\ HandlerInv(w)
  BY DEF Fails, CustodyInv
<1>2. withdrawal[w] \in Handlers /\ withdrawal[w] # None /\ withdrawal[w].pc \in {"list", "broadcast"}
  BY <1>1, HandlerTypes DEF At
<1>3. withdrawal[w].held /\ withdrawal[w].tx = None /\ ~Sent(w)
  BY <1>1, <1>2 DEF HandlerInv, Sent
<1>4. PICK r : r = [withdrawal[w] EXCEPT !.listed = <<>>, !.feeRate = 0, !.pc = "refund"]
  OBVIOUS
<1>5. /\ r \in Handlers /\ DOMAIN r.listed = {} /\ r.tx = None /\ r.held /\ r.user = withdrawal[w].user
      /\ r.amount = withdrawal[w].amount /\ r.pc = "refund"
  <2>1. <<>> \in Seq(Txs \X Places) /\ DOMAIN <<>> = {}
    OBVIOUS
  <2> QED BY <1>2, <1>3, <1>4, <2>1 DEF Handlers
<1>6. withdrawal' = [withdrawal EXCEPT ![w] = r]
  BY <1>1, <1>2, <1>4 DEF CustodyTypeOK, Handlers, Fails
<1>7. UNCHANGED <<credits, addresses, chain>> /\ balance' = balance /\ balance' \in [Users -> Int]
  BY <1>1 DEF depositVars, CustodyTypeOK
<1>8. ASSUME NEW v \in Users
      PROVE  balance'[v] = balance[v] + HoldOf(v)[w] - (IF r.user = v /\ r.held THEN r.amount ELSE 0)
  <2>1. HoldOf(v)[w] = IF r.user = v /\ r.held THEN r.amount ELSE 0
    BY <1>2, <1>3, <1>5 DEF HoldOf
  <2>2. HoldOf(v)[w] \in Int /\ balance[v] \in Int
    BY <1>1, HandlerTypes DEF HoldOf, CustodyTypeOK
  <2> QED BY ONLY <1>7, <2>1, <2>2
<1>9. withdrawal'[w] = r
  BY <1>1, <1>6 DEF CustodyTypeOK
<1>10. HandlerInv(w)'
  BY <1>5, <1>9 DEF HandlerInv, ListedOnce
<1>11. r.tx = IF Sent(w) THEN withdrawal[w].tx ELSE None
  BY <1>3, <1>5
<1> QED BY <1>5, <1>6, <1>7, <1>8, <1>10, <1>11, HandlerStep

LEMMA RefundStep ==
    ASSUME CustodyInv, NEW w \in Withdrawals, Refund(w)
    PROVE  CustodyInv'
<1> DEFINE amount == withdrawal[w].amount
           owner  == withdrawal[w].user
<1>1. /\ At(w, "refund") /\ UNCHANGED <<credits, addresses, chain>> /\ CustodyTypeOK /\ HandlerInv(w)
      /\ balance' = [balance EXCEPT ![owner] = @ + amount]
  BY DEF Refund, CustodyInv
<1>2. /\ withdrawal[w] \in Handlers /\ withdrawal[w] # None /\ withdrawal[w].pc = "refund"
      /\ amount \in Nat /\ owner \in Users
  BY <1>1, HandlerTypes DEF At
<1>3. withdrawal[w].held
  BY <1>1, <1>2 DEF HandlerInv
<1>4. PICK r : r = [withdrawal[w] EXCEPT !.held = FALSE, !.pc = "failed"]
  OBVIOUS
<1>5. /\ r \in Handlers /\ r.listed = withdrawal[w].listed /\ r.tx = withdrawal[w].tx /\ ~r.held /\ r.pc = "failed"
      /\ r.amount = amount /\ r.user = owner /\ r.dest = withdrawal[w].dest /\ r.feeRate = withdrawal[w].feeRate
  BY <1>2, <1>4 DEF Handlers
<1>6. withdrawal' = [withdrawal EXCEPT ![w] = r]
  BY <1>1, <1>2, <1>4 DEF CustodyTypeOK, Handlers, Refund
<1>7. balance' \in [Users -> Int]
  BY <1>1, <1>2 DEF CustodyTypeOK
<1>8. ASSUME NEW v \in Users
      PROVE  balance'[v] = balance[v] + HoldOf(v)[w] - (IF r.user = v /\ r.held THEN r.amount ELSE 0)
  <2>1. HoldOf(v)[w] = IF owner = v THEN amount ELSE 0
    BY <1>2, <1>3 DEF HoldOf
  <2>2. balance[v] \in Int
    BY <1>1 DEF CustodyTypeOK
  <2>3. balance'[v] = balance[v] + HoldOf(v)[w]
    BY <1>1, <1>2, <2>1, <2>2 DEF CustodyTypeOK
  <2>4. HoldOf(v)[w] \in Int
    BY <1>2, <2>1
  <2> QED BY ONLY <1>5, <2>2, <2>3, <2>4
<1>9. withdrawal'[w] = r /\ r # None /\ ChainGrows
  BY <1>1, <1>5, <1>6, HandlersAssumption DEF CustodyTypeOK, ChainGrows
<1>10. HandlerInv(w)'
  <2>1. ListedOnce(w) /\ (withdrawal[w].tx # None => AsPlanned(w))
    BY <1>1, <1>2 DEF HandlerInv
  <2>2. ListedOnce(w)'
    BY <1>5, <1>9, <2>1, PlanKept
  <2>3. withdrawal[w].tx # None => AsPlanned(w)'
    BY <1>1, <1>2, <1>5, <1>9, <2>1, PlannedKept
  <2> QED BY <1>5, <1>9, <2>2, <2>3 DEF HandlerInv
<1>11. r.tx = IF Sent(w) THEN withdrawal[w].tx ELSE None
  BY <1>2, <1>5 DEF Sent
<1> QED BY <1>1, <1>5, <1>6, <1>7, <1>8, <1>10, <1>11, HandlerStep

LEMMA BroadcastStep ==
    ASSUME CustodyInv, NEW w \in Withdrawals, NEW next \in {"done", "refund"}, Broadcast(w, next)
    PROVE  CustodyInv'
<1> DEFINE owner == withdrawal[w].user
           n     == Len(chain) + 1
           out   == Outs(withdrawal[w].dest, Sats(withdrawal[w].amount), owner, Plan(w).change)
           t     == [out |-> out, fee |-> Plan(w).paid, ins |-> Inputs(w), state |-> "unconfirmed"]
           r     == [withdrawal[w] EXCEPT !.tx = n, !.pc = next]
<1>1. /\ CustodyTypeOK /\ CoinsInv /\ SendersInv /\ RowsInv /\ Len(chain) <= MaxChain
      /\ \A v \in Withdrawals : HandlerInv(v)
      /\ \A u \in Users : WalletInv(u)
  BY DEF CustodyInv
<1>2. /\ At(w, "broadcast") /\ Plan(w).ok /\ Inputs(w) # {} /\ Inputs(w) \subseteq Unspent(owner)
      /\ Len(chain) < MaxChain /\ chain' = Append(chain, t)
      /\ UNCHANGED <<balance, credits, addresses>>
  BY DEF Broadcast, depositVars
<1>3. /\ withdrawal[w] \in Handlers /\ withdrawal[w] # None /\ withdrawal[w].pc = "broadcast"
      /\ owner \in Users /\ withdrawal[w].dest \in Users \cup {Outside} /\ Sats(withdrawal[w].amount) \in Nat
  BY <1>1, <1>2, HandlerTypes DEF At
<1>4. withdrawal[w].held /\ withdrawal[w].tx = None /\ ~Sent(w) /\ ListedOnce(w)
  BY <1>1, <1>3 DEF HandlerInv, Sent
<1>5. Plan(w).paid \in Nat /\ Plan(w).change \in Nat
  BY <1>1, <1>2, <1>3, <1>4, PlanAddsUp
<1>6. /\ Len(chain) \in Nat /\ DOMAIN chain = 1..Len(chain) /\ chain \in Seq(Transactions)
      /\ MaxChain \in Nat /\ Txs = 1..MaxChain
  BY <1>1, ChainTypes, Numbers DEF CustodyTypeOK
<1>7. n \in Txs /\ n # None /\ n \notin DOMAIN chain /\ DOMAIN chain \subseteq Txs
  <2>1. n \in Txs /\ n \notin DOMAIN chain /\ DOMAIN chain \subseteq Txs
    BY ONLY <1>2, <1>6
  <2> QED BY <2>1, Numbers
<1>8. t \in Transactions
  <2>1. Inputs(w) \in SUBSET (Txs \X Places)
    BY <1>2, <1>7 DEF Unspent, Outputs
  <2>2. out \in [Places -> [to : Users \cup {Outside}, value : Nat]]
    BY <1>3, <1>5 DEF Outs
  <2> QED BY <1>5, <2>1, <2>2 DEF Transactions
<1>9. /\ chain' \in Seq(Transactions) /\ Len(chain') = n /\ DOMAIN chain' = 1..n
      /\ chain'[n] = t /\ \A i \in DOMAIN chain : chain'[i] = chain[i]
      /\ DOMAIN chain' = DOMAIN chain \cup {n}
  <2>1. PICK x : x = t
    OBVIOUS
  <2> QED BY ONLY <1>2, <1>6, <1>8, <2>1
<1>10. ChainGrows
  BY <1>9 DEF ChainGrows
<1>11. withdrawal' = [withdrawal EXCEPT ![w] = r] /\ r \in Handlers /\ r # None
  <2>1. withdrawal' = [withdrawal EXCEPT ![w].tx = n, ![w].pc = next]
    BY DEF Broadcast
  <2>2. r \in Handlers
    BY <1>3, <1>7 DEF Handlers
  <2>3. withdrawal' = [withdrawal EXCEPT ![w] = r]
    BY <1>1, <1>3, <2>1 DEF CustodyTypeOK, Handlers
  <2> QED BY <2>2, <2>3, HandlersAssumption
<1>12. /\ r.tx = n /\ r.pc = next /\ r.held /\ r.user = owner /\ r.amount = withdrawal[w].amount
       /\ r.dest = withdrawal[w].dest
       /\ r.listed = withdrawal[w].listed /\ r.feeRate = withdrawal[w].feeRate
  BY <1>3, <1>4 DEF Handlers
<1>13. /\ withdrawal'[w] = r /\ \A v \in Withdrawals \ {w} : withdrawal'[v] = withdrawal[v]
       /\ withdrawal' \in [Withdrawals -> Handlers \cup {None}]
  BY <1>1, <1>11 DEF CustodyTypeOK
<1>14. t.out = out /\ t.fee = Plan(w).paid /\ t.ins = Inputs(w) /\ t.state = "unconfirmed"
  OBVIOUS
<1> HIDE DEF t, r, n
<1>15. CustodyTypeOK' /\ (Len(chain) <= MaxChain)'
  <2>1. Len(chain') <= MaxChain
    BY <1>2, <1>6, <1>9 DEF n
  <2> QED BY <1>1, <1>2, <1>9, <1>13, <2>1 DEF CustodyTypeOK
<1>16. HandlerInv(w)'
  <2>1. ListedOnce(w)' /\ Plan(w)' = Plan(w) /\ Inputs(w)' = Inputs(w)
    BY <1>4, <1>10, <1>12, <1>13, PlanKept
  <2>2. Sats(withdrawal[w].amount)' = Sats(withdrawal[w].amount)
    BY <1>12, <1>13 DEF Sats
  <2>3. \A o \in Inputs(w) : Payee(o)' = owner
    <3>1. \A o \in Inputs(w) : o \in Outputs /\ Payee(o) = owner
      BY <1>2 DEF Unspent
    <3> QED BY <1>10, <3>1, OutputsKept
  <2>4. withdrawal'[w].tx = n /\ n \in DOMAIN chain' /\ chain'[n] = t
    BY <1>9, <1>12, <1>13 DEF n
  <2>5. AsPlanned(w)'
    BY <1>2, <1>12, <1>13, <1>14, <2>1, <2>2, <2>3, <2>4 DEF AsPlanned, Outs
  <2> QED BY <1>7, <1>12, <1>13, <2>1, <2>5 DEF HandlerInv
<1>17. ASSUME NEW v \in Withdrawals PROVE HandlerInv(v)'
  BY <1>1, <1>10, <1>13, <1>16, HandlerKept
<1>18. CoinsInv'
  <2>1. ASSUME NEW o \in Inputs(w)
        PROVE  /\ o \in Outputs /\ o[1] \in DOMAIN chain /\ o[1] < n /\ Value(o) > 0 /\ Valid(o[1])
               /\ \A j \in DOMAIN chain : Valid(j) => o \notin chain[j].ins
    <3>1. /\ o \in Outputs /\ Value(o) > 0 /\ Valid(o[1])
          /\ \A j \in DOMAIN chain : Valid(j) => o \notin chain[j].ins
      BY <1>2 DEF Unspent, Spent
    <3>2. o[1] \in DOMAIN chain
      BY <1>10, <3>1, OutputsKept
    <3>3. o[1] < n
      BY ONLY <1>6, <3>2 DEF n
    <3> QED BY <3>1, <3>2, <3>3
  <2>2. \A i \in DOMAIN chain : Valid(i)' <=> Valid(i)
    BY <1>9 DEF Valid
  <2>3. ASSUME NEW i \in DOMAIN chain', NEW o \in chain'[i].ins
        PROVE  /\ o \in Outputs' /\ o[1] < i /\ Value(o)' > 0
               /\ Valid(i)' => Valid(o[1])'
               /\ chain'[i].state = "confirmed" => chain'[o[1]].state = "confirmed"
    <3>1. CASE i = n
      <4>1. o \in Inputs(w) /\ chain'[i].state # "confirmed"
        BY <1>9, <1>14, <2>3, <3>1
      <4> QED BY <1>10, <2>1, <2>2, <3>1, <4>1, OutputsKept
    <3>2. CASE i \in DOMAIN chain
      <4>1. chain'[i] = chain[i] /\ o \in chain[i].ins
        BY <1>9, <2>3, <3>2
      <4>2. /\ o \in Outputs /\ o[1] < i /\ Value(o) > 0
            /\ Valid(i) => Valid(o[1])
            /\ chain[i].state = "confirmed" => chain[o[1]].state = "confirmed"
        BY <1>1, <3>2, <4>1 DEF CoinsInv
      <4>3. o \in Outputs' /\ Value(o)' = Value(o) /\ o[1] \in DOMAIN chain
        BY <1>10, <4>2, OutputsKept
      <4> QED BY <1>9, <2>2, <3>2, <4>1, <4>2, <4>3
    <3> QED BY <1>9, <3>1, <3>2
  <2>4. ASSUME NEW i \in DOMAIN chain', NEW j \in DOMAIN chain', i # j, Valid(i)', Valid(j)'
        PROVE  chain'[i].ins \cap chain'[j].ins = {}
    <3>1. CASE i = n
      BY <1>9, <1>14, <2>1, <2>2, <2>4, <3>1
    <3>2. CASE j = n
      BY <1>9, <1>14, <2>1, <2>2, <2>4, <3>2
    <3>3. CASE i \in DOMAIN chain /\ j \in DOMAIN chain
      BY <1>1, <1>9, <2>2, <2>4, <3>3 DEF CoinsInv
    <3> QED BY <1>9, <3>1, <3>2, <3>3
  <2>5. ASSUME NEW i \in DOMAIN chain', chain'[i].ins = {} PROVE chain'[i].out[1].to = Outside
    <3>1. i \in DOMAIN chain
      BY <1>2, <1>9, <1>14, <2>5
    <3> QED BY <1>1, <1>9, <2>5, <3>1 DEF CoinsInv
  <2> QED BY <2>3, <2>4, <2>5 DEF CoinsInv
<1>19. SendersInv'
  <2>1. \A v \in Withdrawals \ {w} :
           Sent(v)' => Sent(v) /\ withdrawal'[v].tx = withdrawal[v].tx /\ withdrawal[v].tx \in DOMAIN chain
    BY <1>1, <1>13, SentTx DEF Sent
  <2>2. Sent(w)' /\ withdrawal'[w].tx = n
    BY <1>7, <1>11, <1>12, <1>13 DEF Sent
  <2>3. ASSUME NEW u \in Withdrawals, NEW v \in Withdrawals, Sent(u)', Sent(v)',
               withdrawal'[u].tx = withdrawal'[v].tx
        PROVE  u = v
    BY <1>1, <1>7, <2>1, <2>2, <2>3 DEF SendersInv
  <2>4. ASSUME NEW i \in DOMAIN chain', chain'[i].ins # {}
        PROVE  \E v \in Withdrawals : (Sent(v) /\ withdrawal[v].tx = i)'
    <3>1. CASE i = n
      BY <2>2, <3>1
    <3>2. CASE i \in DOMAIN chain
      <4>1. chain[i].ins # {}
        BY <1>9, <2>4, <3>2
      <4>2. PICK v \in Withdrawals : Sent(v) /\ withdrawal[v].tx = i
        BY <1>1, <3>2, <4>1 DEF SendersInv
      <4>3. v # w
        BY <1>4, <4>2
      <4> QED BY <1>13, <4>2, <4>3 DEF Sent
    <3> QED BY <1>9, <3>1, <3>2
  <2> QED BY <2>3, <2>4 DEF SendersInv
<1>20. RowsInv'
  BY <1>1, <1>2, <1>9 DEF RowsInv
<1>21. ASSUME NEW u \in Users PROVE WalletInv(u)'
  <2>1. HoldOf(u)' = HoldOf(u)
    BY <1>3, <1>4, <1>11, <1>12, <1>13 DEF HoldOf
  <2> QED BY <1>1, <1>2, <1>10, <2>1, WalletKept
<1> QED BY <1>15, <1>17, <1>18, <1>19, <1>20, <1>21 DEF CustodyInv

LEMMA CustodyStutter ==
    ASSUME CustodyInv, UNCHANGED custodyVars
    PROVE  CustodyInv'
<1>1. UNCHANGED <<balance, credits, addresses, chain, withdrawal>>
  BY DEF custodyVars, depositVars
<1>2. UNCHANGED <<depositVars, withdrawal>> /\ ChainGrows
  BY <1>1 DEF depositVars, ChainGrows
<1>3. CoinsInv' /\ (chain \in Seq(Transactions))' /\ (Len(chain) <= MaxChain)'
  BY <1>1 DEF CustodyInv, CustodyTypeOK, CoinsInv, Valid, Outputs, Value
<1> QED BY <1>1, <1>2, <1>3, ChainStep

LEMMA CustodyInvNext == CustodyInv /\ [CustodyNext]_custodyVars => CustodyInv'
<1> SUFFICES ASSUME CustodyInv, [CustodyNext]_custodyVars PROVE CustodyInv'
  OBVIOUS
<1>1. CASE \E u \in Users, value \in Values : PayTo(u, value)
  BY <1>1, PayToStep
<1>2. CASE \E i \in DOMAIN chain : Confirm(i) \/ Vanish(i) \/ \E u \in Users : CreditReceived(u, i)
  BY <1>2, ConfirmStep, VanishStep, CreditReceivedStep
<1>3. CASE \E w \in Withdrawals, u \in Users, dest \in Users \cup {Outside}, amount \in Amounts :
              Deduct(w, u, dest, amount)
  BY <1>3, DeductStep
<1>4. CASE \E w \in Withdrawals, feeRate \in FeeRates : ListOutputs(w, feeRate)
  BY <1>4, ListOutputsStep
<1>5. CASE \E w \in Withdrawals :
              (\E next \in {"done", "refund"} : Broadcast(w, next)) \/ Fails(w) \/ Refund(w)
  BY <1>5, BroadcastStep, FailsStep, RefundStep
<1>6. CASE UNCHANGED custodyVars
  BY <1>6, CustodyStutter
<1> QED BY <1>1, <1>2, <1>3, <1>4, <1>5, <1>6 DEF CustodyNext

LEMMA CustodyInvariant == CustodySpec => []CustodyInv
BY CustodyInvInit, CustodyInvNext, PTL DEF CustodySpec

\* The wallets and handlers of the BTC custody keep their types: each handler is in a
\* state withdrawBtc has.
THEOREM CustodyTypeCorrect == CustodySpec => []CustodyTypeOK
<1>1. CustodyInv => CustodyTypeOK
  BY DEF CustodyInv
<1> QED BY <1>1, CustodyInvariant, PTL

\* For every listing order, amount, fee rate and interleaving: a withdrawal that
\* withdrawBtc sends spends what it pays out, keeps and leaves to the miner, who gets
\* the fee of a transaction of that size and less than a dust output more.
THEOREM GoesAheadHolds == CustodySpec => []GoesAheadSoundly
BY InvSound, CustodyInvariant, PTL

\* None of its inputs but the last could have been left out: what withdrawBtc's loop
\* had taken before it did not cover amount and fee.
THEOREM NoNeedlessHolds == CustodySpec => []NoNeedlessInput
BY InvNoNeedless, CustodyInvariant, PTL

\* The wallets say what the addresses hold, whoever is paid, but for payments not
\* credited (yet, or as another user was credited their transaction), withdrawals that
\* have no transaction and are not refunded, fees, change credited as a deposit, refunds
\* of what was sent though its answer was lost, and half a satoshi for each withdrawal.
THEOREM BooksMatchHolds == CustodySpec => []BooksMatchChain
BY InvBooks, CustodyInvariant, PTL
=============================================================================
