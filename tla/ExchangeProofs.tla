--------------------------- MODULE ExchangeProofs ---------------------------
(***************************************************************************)
(* Proofs about the services that share the wallets, for any users, assets, *)
(* amounts, clocks and numbers of requests, as long as every value fits its *)
(* column: what each service does to a wallet, next to what it writes into  *)
(* its own tables.                                                          *)
(***************************************************************************)
EXTENDS Exchange, OrderEngineProofs

-----------------------------------------------------------------------------
(* The ledger, as each service sees it.                                     *)

LEMMA SameLedger ==
    /\ \A c, u, a, x : Wallet!Add(c, u, a, x) = Add(c, u, a, x)
    /\ \A c, u, a, x : Stake!Add(c, u, a, x) = Add(c, u, a, x)
    /\ \A x : Wallet!StoredAmount(x) = StoredAmount(x)
    /\ \A x : Stake!StoredAmount(x) = StoredAmount(x)
    /\ \A x, g : Stake!RoundTo(x, g) = RoundTo(x, g)
BY DEF Add, StoredAmount, RoundTo, Wallet!Add, Wallet!StoredAmount, Wallet!RoundTo,
       Stake!Add, Stake!StoredAmount, Stake!RoundTo

\* An UPDATE, when nothing is rounded.
LEMMA ExactCell ==
    ASSUME ExactColumns, NEW c \in Columns(Int), NEW u \in Users, NEW a \in Assets, NEW x \in Int
    PROVE  /\ Add(c, u, a, x) \in Columns(Int)
           /\ \A v \in Users, b \in Assets :
                 Add(c, u, a, x)[v][b] = c[v][b] + (IF v = u /\ b = a THEN x ELSE 0)
<1>1. Add(c, u, a, x) = [c EXCEPT ![u][a] = @ + x] /\ Add(c, u, a, x) \in Columns(Int)
  BY ExactAdd, AddInt
<1>2. ASSUME NEW v \in Users, NEW b \in Assets
      PROVE  Add(c, u, a, x)[v][b] = c[v][b] + (IF v = u /\ b = a THEN x ELSE 0)
  <2>1. c[v][b] \in Int
    BY DEF Columns
  <2> QED
    BY <1>1, <2>1 DEF Columns
<1> QED
  BY <1>1, <1>2

-----------------------------------------------------------------------------
(* What the tables add up to, row by row.                                   *)

RecordedIn(h, a) == SumFunction([i \in DOMAIN h |-> Signed(h[i], a)])
TakenIn(s)       == SumFunction([i \in DOMAIN s |-> IF s[i] < 0 THEN s[i] ELSE 0])

SentOf(r, u, a, status) ==
    IF r # Nil /\ r.user = u /\ r.asset = a /\ r.status = status THEN r.amount ELSE 0
YieldOf(s, u) ==
    IF s # Nil /\ s.user = u
    THEN s.claimed - (IF s.status = "CLOSED" THEN 0 ELSE s.principal) ELSE 0

\* A column that gets one more entry.
LEMMA ColumnSum ==
    ASSUME NEW f, NEW g, NEW n \in Nat, DOMAIN f = 1..n, DOMAIN g = 1..(n + 1),
           \A i \in 1..n : f[i] \in Int /\ g[i] = f[i], g[n + 1] \in Int
    PROVE  SumFunction(f) \in Int /\ SumFunction(g) = SumFunction(f) + g[n + 1]
<1>1. IsFiniteSet(1..n)
  BY FS_Interval
<1>2. SumFunctionOnSet(f, 1..n) \in Int
  BY <1>1, SumInt
<1> QED
  BY <1>2, SumAppend DEF SumFunction

LEMMA HistorySum ==
    ASSUME NEW h \in Seq(Wallet!HistoryRows), NEW a, NEW r \in Wallet!HistoryRows
    PROVE  RecordedIn(h, a) \in Int /\ RecordedIn(Append(h, r), a) = RecordedIn(h, a) + Signed(r, a)
<1>1. PICK n, k : n = Len(h) /\ k = Append(h, r)
  OBVIOUS
<1>2. /\ n \in Nat /\ DOMAIN h = 1..n /\ DOMAIN k = 1..(n + 1) /\ k[n + 1] = r
      /\ \A i \in 1..n : k[i] = h[i] /\ h[i] \in Wallet!HistoryRows
  BY <1>1
<1>3. \A t \in Wallet!HistoryRows : Signed(t, a) \in Int
  BY DEF Signed, Wallet!HistoryRows
<1> DEFINE f == [i \in DOMAIN h |-> Signed(h[i], a)]
           g == [i \in DOMAIN k |-> Signed(k[i], a)]
<1>4. /\ DOMAIN f = 1..n /\ DOMAIN g = 1..(n + 1) /\ g[n + 1] = Signed(r, a) /\ g[n + 1] \in Int
      /\ \A i \in 1..n : f[i] \in Int /\ g[i] = f[i]
  BY <1>2, <1>3
<1>5. RecordedIn(h, a) = SumFunction(f) /\ RecordedIn(k, a) = SumFunction(g)
  BY DEF RecordedIn
<1> HIDE DEF f, g
<1> QED
  BY <1>1, <1>2, <1>4, <1>5, ColumnSum

LEMMA AdjustedSum ==
    ASSUME NEW s \in Seq(Int), NEW x \in Int
    PROVE  /\ SumFunction(s) \in Int /\ SumFunction(Append(s, x)) = SumFunction(s) + x
           /\ TakenIn(s) \in Int /\ TakenIn(s) <= 0
           /\ TakenIn(Append(s, x)) = TakenIn(s) + (IF x < 0 THEN x ELSE 0)
<1>1. PICK n, k : n = Len(s) /\ k = Append(s, x)
  OBVIOUS
<1>2. /\ n \in Nat /\ DOMAIN s = 1..n /\ DOMAIN k = 1..(n + 1) /\ k[n + 1] = x
      /\ \A i \in 1..n : k[i] = s[i] /\ s[i] \in Int
  BY <1>1
<1>3. SumFunction(s) \in Int /\ SumFunction(k) = SumFunction(s) + x
  BY <1>2, ColumnSum
<1> DEFINE f == [i \in DOMAIN s |-> IF s[i] < 0 THEN s[i] ELSE 0]
           g == [i \in DOMAIN k |-> IF k[i] < 0 THEN k[i] ELSE 0]
           z == [i \in 1..n |-> 0]
<1>4. /\ DOMAIN f = 1..n /\ DOMAIN g = 1..(n + 1) /\ g[n + 1] = (IF x < 0 THEN x ELSE 0)
      /\ g[n + 1] \in Int /\ \A i \in 1..n : f[i] \in Int /\ g[i] = f[i]
  BY <1>2
<1>5. \A i \in 1..n : f[i] <= z[i] /\ z[i] = 0
  BY <1>2
<1>6. TakenIn(s) = SumFunction(f) /\ TakenIn(k) = SumFunction(g)
  BY DEF TakenIn
<1> HIDE DEF f, g, z
<1>7. IsFiniteSet(1..n) /\ \A i \in 1..n : f[i] \in Int /\ z[i] \in Int /\ f[i] <= z[i]
  <2>1. IsFiniteSet(1..n)
    BY <1>2, FS_Interval
  <2>2. \A i \in 1..n : f[i] \in Int /\ z[i] \in Int /\ f[i] <= z[i]
    BY <1>4, <1>5
  <2> QED
    BY <2>1, <2>2
<1>8. SumFunctionOnSet(f, 1..n) <= SumFunctionOnSet(z, 1..n) /\ SumFunctionOnSet(z, 1..n) = 0
  BY <1>5, <1>7, SumMonotone, SumZero
<1>9. SumFunction(f) <= 0
  BY <1>4, <1>8 DEF SumFunction
<1>10. SumFunction(f) \in Int /\ SumFunction(g) = SumFunction(f) + g[n + 1]
  BY <1>2, <1>4, ColumnSum
<1> QED
  BY <1>1, <1>3, <1>4, <1>6, <1>9, <1>10

\* A table of which one row changes.
LEMMA YieldSum ==
    ASSUME NEW t \in [StakeIds -> Stake!StakeRows \cup {Nil}],
           NEW w \in [StakeIds -> Stake!StakeRows \cup {Nil}],
           NEW id \in StakeIds, \A i \in StakeIds \ {id} : w[i] = t[i], NEW u
    PROVE  SumFunction([i \in StakeIds |-> YieldOf(w[i], u)])
             = SumFunction([i \in StakeIds |-> YieldOf(t[i], u)])
                 + (YieldOf(w[id], u) - YieldOf(t[id], u))
<1> DEFINE f == [i \in StakeIds |-> YieldOf(t[i], u)]
           g == [i \in StakeIds |-> YieldOf(w[i], u)]
<1>1. \A s \in Stake!StakeRows \cup {Nil} : YieldOf(s, u) \in Int
  BY DEF YieldOf, Stake!StakeRows
<1>2. /\ DOMAIN f = StakeIds /\ DOMAIN g = StakeIds
      /\ \A i \in StakeIds : f[i] \in Int /\ g[i] \in Int
      /\ \A i \in StakeIds \ {id} : g[i] = f[i]
      /\ f[id] = YieldOf(t[id], u) /\ g[id] = YieldOf(w[id], u)
  BY <1>1
<1> HIDE DEF f, g
<1>3. SumFunctionOnSet(f, StakeIds) \in Int
      /\ SumFunctionOnSet(g, StakeIds) = SumFunctionOnSet(f, StakeIds) + (g[id] - f[id])
  BY <1>2, SumInt, SumChange, TablesFinite
<1> QED
  BY <1>2, <1>3 DEF SumFunction, f, g

-----------------------------------------------------------------------------
(* Staking, next to the wallets.                                            *)

LEMMA RateNat ==
    ASSUME NEW days \in DOMAIN Stake!Plans, NEW amount \in Nat, Stake!MinStake <= amount
    PROVE  Stake!DailyRate(days, amount) \in Nat
<1> DEFINE reached(i) == amount >= Stake!Usdt(Stake!BracketMins[i])
<1>1. DOMAIN Stake!BracketMins = {1, 2, 3}
  BY DEF Stake!BracketMins
<1>2. reached(1)
  BY DEF Stake!MinStake, Stake!BracketMins
<1>3. \E i \in DOMAIN Stake!BracketMins :
         reached(i) /\ \A j \in DOMAIN Stake!BracketMins : reached(j) => j <= i
  <2> HIDE DEF reached
  <2>1. CASE reached(3)
    BY <1>1, <2>1
  <2>2. CASE ~reached(3) /\ reached(2)
    BY <1>1, <2>2
  <2>3. CASE ~reached(3) /\ ~reached(2)
    BY <1>1, <1>2, <2>3
  <2> QED
    BY <2>1, <2>2, <2>3
<1>4. Stake!BracketOf(amount) \in {1, 2, 3}
  BY <1>1, <1>3 DEF Stake!BracketOf
<1>5. /\ DOMAIN Stake!Plans = {7, 30, 90, 180, 365}
      /\ \A i \in {1, 2, 3} : Stake!Plans[days][i] \in Nat
  BY DEF Stake!Plans
<1> QED
  BY <1>4, <1>5 DEF Stake!DailyRate

LEMMA StakeInterestNat ==
    ASSUME NEW principal \in Nat, NEW rate \in Nat, NEW days \in Nat
    PROVE  Stake!Interest(principal, rate, days) \in Nat
<1>1. principal * rate * days \in Nat
  BY TimesNat
<1>2. Scale * Grid \in Nat \ {0}
  BY ScaleAssumption, Z3
<1>3. 10000 * Scale * Grid \in Nat \ {0}
  BY <1>2, ScaleAssumption, 10000 * Scale * Grid = 10000 * (Scale * Grid)
<1>4. RoundTo(principal * rate * days, 10000 * Scale * Grid) \in Nat
  BY <1>1, <1>3, RoundToNat
<1>5. RoundTo(principal * rate * days, 10000 * Scale * Grid) \div 10000 \in Nat
  BY <1>4, DivIsNat
<1> QED
  BY <1>5, SameLedger DEF Stake!Interest, Stake!RateScale

\* A stake was inserted in the past and has no interest before it closes.
StakeOK ==
    /\ Stake!StakingTypeOK
    /\ \A id \in StakeIds : stakes[id] # Nil =>
          stakes[id].staked_at <= clock /\ (stakes[id].status = "ACTIVE" => stakes[id].claimed = 0)

LEMMA ElapsedDays ==
    ASSUME StakeOK, NEW s \in Stake!StakeRows, s.staked_at <= clock
    PROVE  Stake!DaysElapsed(s) \in Nat
<1>1. clock - s.staked_at \in Nat /\ s.days \in Nat
  BY StakeAssumption DEF StakeOK, Stake!StakingTypeOK, Stake!StakeRows
<1>2. (clock - s.staked_at) \div Day \in Nat
  BY <1>1, DivIsNat, StakeAssumption
<1> QED
  BY <1>1, <1>2 DEF Stake!DaysElapsed

LEMMA InStakesOf ==
    \A u, a : InStakes(u, a) = IF a # "USDT" THEN 0
                               ELSE SumFunction([id \in StakeIds |-> YieldOf(stakes[id], u)])
<1>1. ASSUME NEW u, NEW id \in StakeIds PROVE Stake!Yield(id, u) = YieldOf(stakes[id], u)
  BY DEF Stake!Yield, Stake!Staked, Stake!Closed, YieldOf
<1> QED
  BY <1>1 DEF InStakes

LEMMA InStakesNext ==
    \A u, a : InStakes(u, a)' = IF a # "USDT" THEN 0
                               ELSE SumFunction([id \in StakeIds |-> YieldOf(stakes'[id], u)])
<1>1. ASSUME NEW u, NEW id \in StakeIds PROVE Stake!Yield(id, u)' = YieldOf(stakes'[id], u)
  BY DEF Stake!Yield, Stake!Staked, Stake!Closed, YieldOf
<1> QED
  BY <1>1 DEF InStakes

\* What the tables of the services say of one wallet, its orders and PENDING sends
\* apart.
Entered(u, a) ==
    Recorded(u, a) + InStakes(u, a) - SentAmount(u, a, "SENT") + AdjustedBy(u, a)

\* What a step of a service does to one wallet: the free funds b and the locked ones l
\* that it adds are those it enters in its tables, and it spends only what is free.
Accounted(u, a) ==
    \E b, l, t \in Int :
        /\ balance'[u][a] = balance[u][a] + b /\ locked'[u][a] = locked[u][a] + l
        /\ SentAmount(u, a, "PENDING")' = SentAmount(u, a, "PENDING") + l
        /\ Entered(u, a)' = Entered(u, a) + (b + l)
        /\ TakenBack(u, a)' = TakenBack(u, a) + t /\ t <= 0
        /\ b >= t \/ balance'[u][a] >= 0

LEMMA SentIs ==
    /\ \A u, a, st : SentAmount(u, a, st) = SumFunction([i \in SendIds |-> SentOf(sends[i], u, a, st)])
    /\ \A u, a, st : SentAmount(u, a, st)' = SumFunction([i \in SendIds |-> SentOf(sends'[i], u, a, st)])
<1>1. ASSUME NEW u, NEW a, NEW st, NEW i \in SendIds
      PROVE  /\ SentBy(i, u, a, st) = SentOf(sends[i], u, a, st)
             /\ SentBy(i, u, a, st)' = SentOf(sends'[i], u, a, st)
  BY DEF SentBy, SentOf
<1> QED
  BY <1>1 DEF SentAmount

\* The tables add up to integers.
LEMMA TablesInt ==
    ASSUME Wallet!WalletTypeOK, StakeOK, NEW u \in Users, NEW a \in Assets
    PROVE  /\ Recorded(u, a) \in Int /\ InStakes(u, a) \in Int /\ AdjustedBy(u, a) \in Int
           /\ \A st : SentAmount(u, a, st) \in Int
           /\ TakenBack(u, a) \in Int /\ TakenBack(u, a) <= 0
           /\ Entered(u, a) \in Int
<1>1. Recorded(u, a) \in Int
  <2> DEFINE h == history[u]
             f == [i \in DOMAIN h |-> Signed(h[i], a)]
  <2>1. h \in Seq(Wallet!HistoryRows)
    BY DEF Wallet!WalletTypeOK
  <2> HIDE DEF h
  <2>2. PICK n : n = Len(h) /\ n \in Nat /\ DOMAIN h = 1..n /\ \A i \in 1..n : h[i] \in Wallet!HistoryRows
    BY <2>1
  <2>3. DOMAIN f = 1..n /\ \A i \in 1..n : f[i] \in Int
    BY <2>2 DEF Signed, Wallet!HistoryRows
  <2>4. Recorded(u, a) = SumFunction(f)
    BY DEF Recorded, h
  <2> HIDE DEF f
  <2>5. IsFiniteSet(1..n)
    BY <2>2, FS_Interval
  <2>6. SumFunctionOnSet(f, 1..n) \in Int
    BY <2>3, <2>5, SumInt
  <2> QED
    BY <2>3, <2>4, <2>6 DEF SumFunction
<1>2. InStakes(u, a) \in Int
  <2> DEFINE f == [id \in StakeIds |-> YieldOf(stakes[id], u)]
  <2>1. DOMAIN f = StakeIds /\ \A i \in StakeIds : f[i] \in Int
    BY DEF StakeOK, Stake!StakingTypeOK, YieldOf, Stake!StakeRows
  <2>2. InStakes(u, a) = IF a # "USDT" THEN 0 ELSE SumFunction(f)
    BY InStakesOf
  <2> HIDE DEF f
  <2>3. SumFunctionOnSet(f, StakeIds) \in Int
    BY <2>1, SumInt, TablesFinite
  <2> QED
    BY <2>1, <2>2, <2>3 DEF SumFunction
<1>3. AdjustedBy(u, a) \in Int /\ TakenBack(u, a) \in Int /\ TakenBack(u, a) <= 0
  <2>1. PICK s : s = adjusted[u][a]
    OBVIOUS
  <2>2. s \in Seq(Int) /\ 0 \in Int
    BY <2>1 DEF Wallet!WalletTypeOK
  <2>3. SumFunction(s) \in Int /\ TakenIn(s) \in Int /\ TakenIn(s) <= 0
    BY <2>2, AdjustedSum
  <2>4. AdjustedBy(u, a) = SumFunction(s) /\ TakenBack(u, a) = TakenIn(s)
    BY <2>1 DEF AdjustedBy, TakenBack, TakenIn
  <2> QED
    BY <2>3, <2>4
<1>4. ASSUME NEW st PROVE SentAmount(u, a, st) \in Int
  <2> DEFINE f == [i \in SendIds |-> SentOf(sends[i], u, a, st)]
  <2>1. DOMAIN f = SendIds /\ \A i \in SendIds : f[i] \in Int
    BY DEF Wallet!WalletTypeOK, SentOf, Wallet!SendRows
  <2>2. SentAmount(u, a, st) = SumFunction(f)
    BY SentIs
  <2> HIDE DEF f
  <2>3. SumFunctionOnSet(f, SendIds) \in Int
    BY <2>1, SumInt, TablesFinite
  <2> QED
    BY <2>1, <2>2, <2>3 DEF SumFunction
<1> QED
  BY <1>1, <1>2, <1>3, <1>4 DEF Entered

\* A stake that is inserted or closed.
LEMMA StakeMoves ==
    ASSUME ExactColumns, Wallet!WalletTypeOK, StakeOK, balance \in Columns(Int), locked \in Columns(Int),
           NEW id \in StakeIds, NEW s \in Stake!StakeRows, NEW v \in Users, NEW x \in Int,
           stakes' = [stakes EXCEPT ![id] = s], balance' = Add(balance, v, "USDT", x),
           \A u \in Users : YieldOf(s, u) - YieldOf(stakes[id], u) = IF u = v THEN x ELSE 0,
           x >= 0 \/ balance[v]["USDT"] + x >= 0,
           UNCHANGED <<locked, walletVars>>,
           NEW u \in Users, NEW a \in Assets
    PROVE  balance' \in Columns(Int) /\ Accounted(u, a)
<1>1. PICK b \in Int : b = IF u = v /\ a = "USDT" THEN x ELSE 0
  OBVIOUS
<1>2. /\ balance' \in Columns(Int)
      /\ balance'[u][a] = balance[u][a] + (IF u = v /\ a = "USDT" THEN x ELSE 0)
  <2>1. "USDT" \in Assets
    BY StakeAssumption
  <2>2. /\ Add(balance, v, "USDT", x) \in Columns(Int)
        /\ Add(balance, v, "USDT", x)[u][a] = balance[u][a] + (IF u = v /\ a = "USDT" THEN x ELSE 0)
    BY <2>1, ExactCell
  <2> QED
    BY <2>2
<1>3. /\ stakes \in [StakeIds -> Stake!StakeRows \cup {Nil}]
      /\ stakes' \in [StakeIds -> Stake!StakeRows \cup {Nil}]
      /\ \A i \in StakeIds \ {id} : stakes'[i] = stakes[i]
      /\ stakes'[id] = s
  BY DEF StakeOK, Stake!StakingTypeOK
<1>4. InStakes(u, a)' = InStakes(u, a) + b
  <2>1. CASE a # "USDT"
    <3>1. InStakes(u, a)' = 0 /\ InStakes(u, a) = 0
      BY <2>1, InStakesOf, InStakesNext
    <3> QED
      BY <1>1, <2>1, <3>1
  <2>2. CASE a = "USDT"
    <3>1. PICK t, w : t = stakes /\ w = stakes'
      OBVIOUS
    <3>2. SumFunction([i \in StakeIds |-> YieldOf(w[i], u)])
            = SumFunction([i \in StakeIds |-> YieldOf(t[i], u)])
              + (YieldOf(w[id], u) - YieldOf(t[id], u))
      <4>1. /\ t \in [StakeIds -> Stake!StakeRows \cup {Nil}]
            /\ w \in [StakeIds -> Stake!StakeRows \cup {Nil}]
            /\ \A i \in StakeIds \ {id} : w[i] = t[i]
        BY <1>3, <3>1
      <4> QED
        BY <4>1, YieldSum
    <3>3. YieldOf(w[id], u) - YieldOf(t[id], u) = b
      BY <1>1, <1>3, <2>2, <3>1
    <3>4. /\ InStakes(u, a) = SumFunction([i \in StakeIds |-> YieldOf(t[i], u)])
          /\ InStakes(u, a)' = SumFunction([i \in StakeIds |-> YieldOf(w[i], u)])
      BY <2>2, <3>1, InStakesOf, InStakesNext
    <3> QED
      BY <3>2, <3>3, <3>4
  <2> QED
    BY <2>1, <2>2
<1>5. UNCHANGED <<history, sends, adjusted>>
  BY DEF walletVars
<1>6. /\ Recorded(u, a)' = Recorded(u, a) /\ AdjustedBy(u, a)' = AdjustedBy(u, a)
      /\ TakenBack(u, a)' = TakenBack(u, a)
      /\ \A st : SentAmount(u, a, st)' = SentAmount(u, a, st)
  BY <1>5 DEF Recorded, AdjustedBy, TakenBack, SentAmount, SentBy
<1>7. /\ Recorded(u, a) \in Int /\ InStakes(u, a) \in Int /\ AdjustedBy(u, a) \in Int
      /\ \A st : SentAmount(u, a, st) \in Int
      /\ TakenBack(u, a) \in Int
  BY TablesInt
<1>8. Entered(u, a)' = Entered(u, a) + (b + 0)
  BY <1>4, <1>6, <1>7 DEF Entered
<1>9. /\ SentAmount(u, a, "PENDING")' = SentAmount(u, a, "PENDING") + 0
      /\ TakenBack(u, a)' = TakenBack(u, a) + 0
      /\ locked'[u][a] = locked[u][a] + 0
      /\ balance'[u][a] = balance[u][a] + b
  BY <1>1, <1>2, <1>6, <1>7 DEF Columns
<1>10. b >= 0 \/ balance'[u][a] >= 0
  BY <1>1, <1>9
<1> QED
  BY <1>2, <1>8, <1>9, <1>10, 0 \in Int DEF Accounted

\* A step that leaves the wallets and what the services say of them alone.
LEMMA NothingAccounted ==
    ASSUME Wallet!WalletTypeOK, StakeOK, balance \in Columns(Int), locked \in Columns(Int),
           UNCHANGED <<balance, locked, stakes, walletVars>>, NEW u \in Users, NEW a \in Assets
    PROVE  Accounted(u, a)
<1>1. UNCHANGED <<balance, locked, stakes, history, sends, adjusted>>
  BY DEF walletVars
<1>2. /\ Recorded(u, a)' = Recorded(u, a) /\ AdjustedBy(u, a)' = AdjustedBy(u, a)
      /\ TakenBack(u, a)' = TakenBack(u, a) /\ InStakes(u, a)' = InStakes(u, a)
      /\ \A st : SentAmount(u, a, st)' = SentAmount(u, a, st)
  BY <1>1, InStakesOf, InStakesNext DEF Recorded, AdjustedBy, TakenBack, SentAmount, SentBy
<1>3. /\ Entered(u, a) \in Int /\ SentAmount(u, a, "PENDING") \in Int /\ TakenBack(u, a) \in Int
      /\ balance[u][a] \in Int /\ locked[u][a] \in Int
  BY TablesInt DEF Columns
<1>4. Entered(u, a)' = Entered(u, a)
  BY <1>2 DEF Entered
<1>5. /\ balance'[u][a] = balance[u][a] + 0 /\ locked'[u][a] = locked[u][a] + 0
      /\ SentAmount(u, a, "PENDING")' = SentAmount(u, a, "PENDING") + 0
      /\ Entered(u, a)' = Entered(u, a) + (0 + 0)
      /\ TakenBack(u, a)' = TakenBack(u, a) + 0 /\ 0 <= 0 /\ 0 >= 0 /\ 0 \in Int
  BY <1>1, <1>2, <1>3, <1>4
<1> QED
  BY <1>5 DEF Accounted

\* A stake that a request had read, and that it inserts now.
LEMMA InsertStep ==
    ASSUME ExactColumns, Wallet!WalletTypeOK, StakeOK, balance \in Columns(Int), locked \in Columns(Int),
           UNCHANGED <<locked, walletVars>>,
           NEW h \in StakeHandlers, Stake!InsertStake(h)
    PROVE  StakeOK' /\ balance' \in Columns(Int) /\ \A u \in Users, a \in Assets : Accounted(u, a)
<1>1. PICK id, r : id = Stake!NextStake /\ r = staking[h]
  OBVIOUS
<1>2. PICK s : s = [user |-> r.user, principal |-> StoredAmount(r.amount), days |-> r.days,
                    rate |-> r.rate, staked_at |-> clock, matures_at |-> r.matures_at,
                    claimed |-> 0, status |-> "ACTIVE"]
  OBVIOUS
<1>3. id \in StakeIds /\ stakes[id] = Nil
  BY <1>1 DEF Stake!InsertStake, Stake!NextStake, Stake!FreshStakes
<1>4. r \in Stake!StakeRequests
  BY <1>1 DEF Stake!InsertStake, StakeOK, Stake!StakingTypeOK
<1>5. /\ r.amount \in Nat /\ r.days \in Nat /\ r.rate \in Nat /\ r.matures_at \in Nat
      /\ r.user \in Users /\ clock \in Nat /\ -r.amount \in Int
  <2>1. /\ r.amount \in StakeAmounts /\ r.days \in StakeTerms /\ r.rate \in Nat
        /\ r.matures_at \in Nat /\ r.user \in Users
    BY <1>4 DEF Stake!StakeRequests
  <2>2. clock \in Nat
    BY StakeAssumption DEF StakeOK, Stake!StakingTypeOK
  <2>3. r.amount \in Nat /\ r.days \in Nat
    BY <2>1, StakeAssumption
  <2> QED
    BY <2>1, <2>2, <2>3
<1>6. /\ stakes' = [stakes EXCEPT ![id] = s]
      /\ balance' = Add(balance, r.user, "USDT", -r.amount)
      /\ balance[r.user]["USDT"] >= r.amount
      /\ staking' = [staking EXCEPT ![h] = Nil]
      /\ UNCHANGED <<tier, payouts, clock>>
  BY <1>1, <1>2, SameLedger DEF Stake!InsertStake, Stake!CoversStake
<1>7. s \in Stake!StakeRows /\ s # Nil
  <2>1. StoredAmount(r.amount) \in Nat
    BY <1>5, StoredAmountNat
  <2>2. s \in Stake!StakeRows
    BY <1>2, <1>5, <2>1 DEF Stake!StakeRows
  <2> QED
    BY <2>2, StakeAssumption
<1>8. /\ s.user = r.user /\ s.claimed = 0 /\ s.status = "ACTIVE" /\ s.staked_at = clock
      /\ s.principal = r.amount
  BY <1>2, <1>5, ExactStored
<1>9. \A u \in Users : YieldOf(s, u) - YieldOf(stakes[id], u) = IF u = r.user THEN -r.amount ELSE 0
  BY <1>3, <1>5, <1>7, <1>8 DEF YieldOf
<1>10. balance[r.user]["USDT"] + (-r.amount) >= 0
  <2>1. balance[r.user]["USDT"] \in Int
    BY <1>5, StakeAssumption DEF Columns
  <2> QED
    BY <1>5, <1>6, <2>1
<1>11. ASSUME NEW u \in Users, NEW a \in Assets PROVE balance' \in Columns(Int) /\ Accounted(u, a)
  BY <1>3, <1>5, <1>6, <1>7, <1>9, <1>10, StakeMoves
<1>12. balance' \in Columns(Int)
  BY <1>5, <1>6, ExactCell, StakeAssumption
<1>13. Stake!StakingTypeOK'
  BY <1>3, <1>6, <1>7 DEF StakeOK, Stake!StakingTypeOK
<1>14. ASSUME NEW i \in StakeIds, stakes'[i] # Nil
       PROVE  stakes'[i].staked_at <= clock' /\ (stakes'[i].status = "ACTIVE" => stakes'[i].claimed = 0)
  <2>1. stakes'[i] = IF i = id THEN s ELSE stakes[i]
    BY <1>3, <1>6 DEF StakeOK, Stake!StakingTypeOK
  <2> QED
    BY <1>5, <1>6, <1>8, <1>14, <2>1 DEF StakeOK
<1> QED
  BY <1>11, <1>12, <1>13, <1>14 DEF StakeOK

LEMMA WithdrawStep ==
    ASSUME ExactColumns, Wallet!WalletTypeOK, StakeOK, balance \in Columns(Int), locked \in Columns(Int),
           UNCHANGED <<locked, walletVars>>,
           NEW v \in Users, NEW id \in StakeIds, Stake!WithdrawStake(v, id)
    PROVE  StakeOK' /\ balance' \in Columns(Int) /\ \A u \in Users, a \in Assets : Accounted(u, a)
<1>1. PICK s, interest : s = stakes[id] /\ interest = Stake!Interest(s.principal, s.rate, Stake!DaysElapsed(s))
  OBVIOUS
<1>2. PICK x, t, p : /\ x = s.principal + interest
                     /\ t = [s EXCEPT !.status = "CLOSED", !.claimed = interest]
                     /\ p = [principal |-> s.principal, interest |-> interest, total |-> x, at |-> clock]
  OBVIOUS
<1>3. s \in Stake!StakeRows /\ s.status = "ACTIVE" /\ s.user = v /\ s # Nil
  BY <1>1 DEF Stake!WithdrawStake, Stake!Withdrawable, StakeOK, Stake!StakingTypeOK
<1>4. s.staked_at <= clock /\ s.claimed = 0 /\ s.principal \in Nat /\ s.rate \in Nat /\ clock \in Nat
  <2>1. clock \in Nat
    BY StakeAssumption DEF StakeOK, Stake!StakingTypeOK
  <2>2. s.principal \in Nat /\ s.rate \in Nat
    BY <1>3 DEF Stake!StakeRows
  <2>3. s.staked_at <= clock /\ s.claimed = 0
    BY <1>1, <1>3 DEF StakeOK
  <2> QED
    BY <2>1, <2>2, <2>3
<1>5. interest \in Nat
  BY <1>1, <1>3, <1>4, ElapsedDays, StakeInterestNat
<1>6. x \in Nat /\ x \in Int
  BY <1>2, <1>4, <1>5
<1>7. /\ stakes' = [stakes EXCEPT ![id] = t]
      /\ balance' = Add(balance, v, "USDT", x)
      /\ payouts' = [payouts EXCEPT ![id] = Append(@, p)]
      /\ UNCHANGED <<tier, staking, clock>>
  BY <1>1, <1>2, SameLedger DEF Stake!WithdrawStake, StakeOK, Stake!StakingTypeOK
<1>8. /\ t \in Stake!StakeRows /\ t # Nil /\ t.status = "CLOSED" /\ t.claimed = interest
      /\ t.user = v /\ t.staked_at = s.staked_at
  <2>1. /\ t \in Stake!StakeRows /\ t.status = "CLOSED" /\ t.claimed = interest
        /\ t.user = v /\ t.staked_at = s.staked_at
    BY <1>2, <1>3, <1>5 DEF Stake!StakeRows
  <2> QED
    BY <2>1, StakeAssumption
<1>9. p \in Stake!PayoutRows
  BY <1>2, <1>4, <1>5, <1>6 DEF Stake!PayoutRows
<1>10. \A u \in Users : YieldOf(t, u) - YieldOf(stakes[id], u) = IF u = v THEN x ELSE 0
  BY <1>1, <1>2, <1>3, <1>4, <1>5, <1>8 DEF YieldOf
<1>11. ASSUME NEW u \in Users, NEW a \in Assets PROVE balance' \in Columns(Int) /\ Accounted(u, a)
  <2>1. x >= 0
    BY <1>6
  <2> QED
    BY <1>6, <1>7, <1>8, <1>10, <2>1, StakeMoves
<1>12. balance' \in Columns(Int)
  BY <1>6, <1>7, ExactCell, StakeAssumption
<1>13. Stake!StakingTypeOK'
  BY <1>7, <1>8, <1>9 DEF StakeOK, Stake!StakingTypeOK
<1>14. ASSUME NEW i \in StakeIds, stakes'[i] # Nil
       PROVE  stakes'[i].staked_at <= clock' /\ (stakes'[i].status = "ACTIVE" => stakes'[i].claimed = 0)
  <2>1. stakes'[i] = IF i = id THEN t ELSE stakes[i]
    BY <1>7 DEF StakeOK, Stake!StakingTypeOK
  <2> QED
    BY <1>4, <1>7, <1>8, <1>14, <2>1 DEF StakeOK
<1> QED
  BY <1>11, <1>12, <1>13, <1>14 DEF StakeOK

\* Whatever staking does, the USDT it takes and pays is in its tables.
LEMMA StakingStep ==
    ASSUME ExactColumns, Wallet!WalletTypeOK, StakeOK, balance \in Columns(Int), locked \in Columns(Int),
           UNCHANGED <<locked, walletVars>>, Stake!StakingNext
    PROVE  StakeOK' /\ balance' \in Columns(Int) /\ \A u \in Users, a \in Assets : Accounted(u, a)
<1> DEFINE Goal == StakeOK' /\ balance' \in Columns(Int) /\ \A u \in Users, a \in Assets : Accounted(u, a)
<1>1. ASSUME UNCHANGED <<balance, stakes>>, Stake!StakingTypeOK', clock <= clock', clock \in Nat
      PROVE  Goal
  <2>1. StakeOK'
    <3>1. ASSUME NEW i \in StakeIds, stakes[i] # Nil PROVE stakes[i].staked_at <= clock'
      <4>1. stakes[i].staked_at \in Nat /\ stakes[i].staked_at <= clock
        BY <3>1 DEF StakeOK, Stake!StakingTypeOK, Stake!StakeRows
      <4>2. clock' \in Nat
        BY <1>1, StakeAssumption DEF Stake!StakingTypeOK
      <4> QED
        BY <1>1, <4>1, <4>2
    <3> QED
      BY <1>1, <3>1 DEF StakeOK
  <2> QED
    BY <1>1, <2>1, NothingAccounted
<1>2. clock \in Nat
  BY StakeAssumption DEF StakeOK, Stake!StakingTypeOK
<1>3. ASSUME NEW h \in StakeHandlers, Stake!BeginStake(h) PROVE Goal
  <2>1. PICK u \in Users, amount \in StakeAmounts, days \in StakeTerms :
          /\ Stake!MinStake <= amount /\ days \in DOMAIN Stake!Plans
          /\ staking' = [staking EXCEPT ![h] =
               [user |-> u, amount |-> amount, days |-> days,
                rate |-> Stake!DailyRate(days, amount),
                matures_at |-> clock + days * Day, since |-> clock]]
    BY <1>3 DEF Stake!BeginStake
  <2>2. PICK r : r = [user |-> u, amount |-> amount, days |-> days,
                      rate |-> Stake!DailyRate(days, amount),
                      matures_at |-> clock + days * Day, since |-> clock]
    OBVIOUS
  <2>3. amount \in Nat /\ days \in Nat /\ days * Day \in Nat
    BY StakeAssumption, TimesNat
  <2>4. Stake!DailyRate(days, amount) \in Nat
    BY <2>1, <2>3, RateNat
  <2>5. clock + days * Day \in Nat
    BY <1>2, <2>3
  <2>6. r \in Stake!StakeRequests
    BY <1>2, <2>2, <2>4, <2>5 DEF Stake!StakeRequests
  <2>7. UNCHANGED <<balance, tier, stakes, payouts, clock>>
    BY <1>3 DEF Stake!BeginStake
  <2>8. Stake!StakingTypeOK'
    BY <2>1, <2>2, <2>6, <2>7 DEF StakeOK, Stake!StakingTypeOK
  <2>9. clock <= clock'
    BY <1>2, <2>7
  <2> QED
    BY <1>1, <1>2, <2>7, <2>8, <2>9
<1>4. ASSUME NEW h \in StakeHandlers, Stake!InsertStake(h) PROVE Goal
  BY <1>4, InsertStep
<1>5. ASSUME NEW h \in StakeHandlers, Stake!DropStake(h) PROVE Goal
  <2>1. UNCHANGED <<balance, tier, stakes, payouts, clock>> /\ staking' = [staking EXCEPT ![h] = Nil]
    BY <1>5 DEF Stake!DropStake
  <2>2. Stake!StakingTypeOK'
    BY <2>1 DEF StakeOK, Stake!StakingTypeOK
  <2> QED
    BY <1>1, <1>2, <2>1, <2>2
<1>6. ASSUME NEW v \in Users, NEW id \in StakeIds, Stake!WithdrawStake(v, id) PROVE Goal
  BY <1>6, WithdrawStep
<1>7. ASSUME NEW v \in Users, NEW level \in Tiers, Stake!SetTier(v, level) PROVE Goal
  <2>1. UNCHANGED <<balance, stakes, payouts, staking, clock>> /\ tier' = [tier EXCEPT ![v] = level]
    BY <1>7 DEF Stake!SetTier
  <2>2. Stake!StakingTypeOK'
    BY <2>1 DEF StakeOK, Stake!StakingTypeOK
  <2> QED
    BY <1>1, <1>2, <2>1, <2>2
<1>8. CASE Stake!Tick
  <2>1. PICK step \in ClockSteps : clock' = clock + step
    BY <1>8 DEF Stake!Tick
  <2>2. UNCHANGED <<balance, tier, stakes, payouts, staking>> /\ clock' <= MaxTime
    BY <1>8 DEF Stake!Tick
  <2>3. step \in Nat /\ MaxTime \in Nat
    BY StakeAssumption
  <2>4. clock <= clock' /\ clock' \in 0..MaxTime
    BY <1>2, <2>1, <2>2, <2>3
  <2>5. Stake!StakingTypeOK'
    BY <2>2, <2>4 DEF StakeOK, Stake!StakingTypeOK
  <2> QED
    BY <1>1, <1>2, <2>2, <2>4, <2>5
<1> QED
  BY <1>3, <1>4, <1>5, <1>6, <1>7, <1>8 DEF Stake!StakingNext

-----------------------------------------------------------------------------
(* The wallet and admin routes, next to the wallets.                        *)

LEMMA HistoryMoves ==
    ASSUME Wallet!WalletTypeOK, NEW u \in Users, NEW r \in Wallet!HistoryRows,
           history' = [history EXCEPT ![u] = Append(@, r)], NEW v \in Users, NEW a
    PROVE  /\ Recorded(v, a)' = Recorded(v, a) + (IF v = u THEN Signed(r, a) ELSE 0)
           /\ history' \in [Users -> Seq(Wallet!HistoryRows)]
<1>1. PICK h : h = history[u]
  OBVIOUS
<1>2. h \in Seq(Wallet!HistoryRows) /\ history \in [Users -> Seq(Wallet!HistoryRows)]
  BY <1>1 DEF Wallet!WalletTypeOK
<1>3. history'[u] = Append(h, r) /\ \A w \in Users : w # u => history'[w] = history[w]
  BY <1>1, <1>2
<1>4. /\ RecordedIn(Append(h, r), a) = RecordedIn(h, a) + Signed(r, a)
      /\ RecordedIn(history[v], a) \in Int
  <2>1. history[v] \in Seq(Wallet!HistoryRows)
    BY <1>2
  <2> QED
    BY <1>2, <2>1, HistorySum
<1>5. Recorded(v, a) = RecordedIn(history[v], a) /\ Recorded(v, a)' = RecordedIn(history'[v], a)
  BY DEF Recorded, RecordedIn
<1>6. history' \in [Users -> Seq(Wallet!HistoryRows)]
  BY <1>1, <1>2
<1> QED
  BY <1>1, <1>3, <1>4, <1>5, <1>6

LEMMA AdjustMoves ==
    ASSUME Wallet!WalletTypeOK, NEW u \in Users, NEW c \in Assets, NEW x \in Int,
           adjusted' = [adjusted EXCEPT ![u][c] = Append(@, x)], NEW v \in Users, NEW a \in Assets
    PROVE  /\ AdjustedBy(v, a)' = AdjustedBy(v, a) + (IF v = u /\ a = c THEN x ELSE 0)
           /\ TakenBack(v, a)' = TakenBack(v, a) + (IF v = u /\ a = c /\ x < 0 THEN x ELSE 0)
           /\ adjusted' \in [Users -> [Assets -> Seq(Int)]]
<1>1. PICK s, t : s = adjusted[v][a] /\ t = adjusted'[v][a]
  OBVIOUS
<1>2. s \in Seq(Int) /\ adjusted \in [Users -> [Assets -> Seq(Int)]]
  BY <1>1 DEF Wallet!WalletTypeOK
<1>3. t = IF v = u /\ a = c THEN Append(s, x) ELSE s
  BY <1>1, <1>2
<1>4. /\ SumFunction(s) \in Int /\ SumFunction(Append(s, x)) = SumFunction(s) + x
      /\ TakenIn(s) \in Int
      /\ TakenIn(Append(s, x)) = TakenIn(s) + (IF x < 0 THEN x ELSE 0)
  BY <1>2, AdjustedSum
<1>5. /\ AdjustedBy(v, a) = SumFunction(s) /\ AdjustedBy(v, a)' = SumFunction(t)
      /\ TakenBack(v, a) = TakenIn(s) /\ TakenBack(v, a)' = TakenIn(t)
  BY <1>1 DEF AdjustedBy, TakenBack, TakenIn
<1>6. adjusted' \in [Users -> [Assets -> Seq(Int)]]
  BY <1>2
<1> QED
  BY <1>3, <1>4, <1>5, <1>6

LEMMA SendMoves ==
    ASSUME Wallet!WalletTypeOK, NEW id \in SendIds, NEW r \in Wallet!SendRows,
           sends' = [sends EXCEPT ![id] = r]
    PROVE  /\ \A u, a, st :
                 SentAmount(u, a, st)' = SentAmount(u, a, st)
                                           + (SentOf(r, u, a, st) - SentOf(sends[id], u, a, st))
           /\ sends' \in [SendIds -> Wallet!SendRows \cup {Nil}]
<1>1. PICK t, w : t = sends /\ w = sends'
  OBVIOUS
<1>2. /\ \A i \in SendIds : /\ t[i] \in Wallet!SendRows \cup {Nil}
                            /\ w[i] \in Wallet!SendRows \cup {Nil}
      /\ \A i \in SendIds \ {id} : w[i] = t[i]
      /\ w[id] = r /\ t[id] = sends[id]
  BY <1>1 DEF Wallet!WalletTypeOK
<1>3. sends' \in [SendIds -> Wallet!SendRows \cup {Nil}]
  BY DEF Wallet!WalletTypeOK
<1>4. ASSUME NEW u, NEW a, NEW st
      PROVE  SentAmount(u, a, st)' = SentAmount(u, a, st)
                                       + (SentOf(r, u, a, st) - SentOf(sends[id], u, a, st))
  <2>1. PICK f, g : /\ f = [i \in SendIds |-> SentOf(t[i], u, a, st)]
                    /\ g = [i \in SendIds |-> SentOf(w[i], u, a, st)]
    OBVIOUS
  <2>2. \A x \in Wallet!SendRows \cup {Nil} : SentOf(x, u, a, st) \in Int
    BY DEF SentOf, Wallet!SendRows
  <2>3. /\ DOMAIN f = SendIds /\ DOMAIN g = SendIds
        /\ \A i \in SendIds : f[i] \in Int /\ g[i] \in Int
        /\ \A i \in SendIds \ {id} : g[i] = f[i]
        /\ g[id] = SentOf(r, u, a, st) /\ f[id] = SentOf(sends[id], u, a, st)
    BY <1>2, <2>1, <2>2
  <2>4. SentAmount(u, a, st) = SumFunction(f) /\ SentAmount(u, a, st)' = SumFunction(g)
    BY <1>1, <2>1, SentIs
  <2>5. SumFunctionOnSet(g, SendIds) = SumFunctionOnSet(f, SendIds) + (g[id] - f[id])
    BY <2>3, SumChange, TablesFinite
  <2> QED
    BY <2>3, <2>4, <2>5 DEF SumFunction
<1> QED
  BY <1>3, <1>4

\* The routes' tables, and what each route does to one wallet.
LEMMA RecordStep ==
    ASSUME ExactColumns, Wallet!WalletTypeOK, StakeOK, balance \in Columns(Int), locked \in Columns(Int),
           NEW u \in Users, NEW c \in Assets, NEW x \in Nat, NEW d \in Int, NEW type,
           \/ type = "DEPOSIT" /\ d = x
           \/ type = "WITHDRAWAL" /\ d = -x /\ balance[u][c] >= x,
           balance' = Add(balance, u, c, d),
           history' = [history EXCEPT ![u] =
                         Append(@, [asset |-> c, type |-> type, amount |-> StoredAmount(x),
                                    balance_after |-> balance'[u][c]])],
           UNCHANGED <<locked, sends, adjusted, stakingVars>>,
           NEW v \in Users, NEW a \in Assets
    PROVE  Wallet!WalletTypeOK' /\ balance' \in Columns(Int) /\ Accounted(v, a)
<1>1. /\ balance' \in Columns(Int)
      /\ balance'[v][a] = balance[v][a] + (IF v = u /\ a = c THEN d ELSE 0)
  BY ExactCell
<1>2. PICK r : r = [asset |-> c, type |-> type, amount |-> x, balance_after |-> balance'[u][c]]
  OBVIOUS
<1>3. r \in Wallet!HistoryRows /\ history' = [history EXCEPT ![u] = Append(@, r)]
  <2>1. StoredAmount(x) = x
    BY ExactStored
  <2>2. balance'[u][c] \in Int
    BY <1>1 DEF Columns
  <2> QED
    BY <1>2, <2>1, <2>2 DEF Wallet!HistoryRows
<1>4. Signed(r, a) = IF a = c THEN d ELSE 0
  BY <1>2 DEF Signed
<1>5. /\ Recorded(v, a)' = Recorded(v, a) + (IF v = u THEN Signed(r, a) ELSE 0)
      /\ history' \in [Users -> Seq(Wallet!HistoryRows)]
  <2>1. Wallet!WalletTypeOK
    OBVIOUS
  <2> QED
    BY ONLY <1>3, <2>1, HistoryMoves
<1>6. Wallet!WalletTypeOK'
  BY <1>5 DEF Wallet!WalletTypeOK
<1>7. UNCHANGED <<locked, sends, adjusted, stakes>>
  BY DEF stakingVars
<1>8. /\ AdjustedBy(v, a)' = AdjustedBy(v, a) /\ TakenBack(v, a)' = TakenBack(v, a)
      /\ InStakes(v, a)' = InStakes(v, a)
      /\ \A st : SentAmount(v, a, st)' = SentAmount(v, a, st)
  BY <1>7, InStakesOf, InStakesNext DEF AdjustedBy, TakenBack, SentAmount, SentBy
<1>9. /\ Recorded(v, a) \in Int /\ InStakes(v, a) \in Int /\ AdjustedBy(v, a) \in Int
      /\ \A st : SentAmount(v, a, st) \in Int
      /\ TakenBack(v, a) \in Int
  BY TablesInt
<1>10. PICK b \in Int : b = IF v = u /\ a = c THEN d ELSE 0
  OBVIOUS
<1>11. /\ balance'[v][a] = balance[v][a] + b /\ locked'[v][a] = locked[v][a] + 0
       /\ SentAmount(v, a, "PENDING")' = SentAmount(v, a, "PENDING") + 0
       /\ TakenBack(v, a)' = TakenBack(v, a) + 0 /\ 0 <= 0 /\ 0 \in Int
  <2>1. balance'[v][a] = balance[v][a] + b
    BY ONLY <1>1, <1>10
  <2>2. locked'[v][a] = locked[v][a] /\ locked[v][a] \in Int
    BY <1>7 DEF Columns
  <2>3. SentAmount(v, a, "PENDING")' = SentAmount(v, a, "PENDING") /\ SentAmount(v, a, "PENDING") \in Int
        /\ TakenBack(v, a)' = TakenBack(v, a) /\ TakenBack(v, a) \in Int
    BY ONLY <1>8, <1>9
  <2> QED
    BY ONLY <2>1, <2>2, <2>3
<1>12. Entered(v, a)' = Entered(v, a) + (b + 0)
  BY <1>4, <1>5, <1>8, <1>9, <1>10 DEF Entered
<1>13. b >= 0 \/ balance'[v][a] >= 0
  <2>1. balance[v][a] \in Int
    BY DEF Columns
  <2> QED
    BY <1>10, <1>11, <2>1
<1> QED
  BY <1>1, <1>6, <1>11, <1>12, <1>13 DEF Accounted

LEMMA SendStep ==
    ASSUME ExactColumns, Wallet!WalletTypeOK, StakeOK, balance \in Columns(Int), locked \in Columns(Int),
           NEW id \in SendIds, NEW r \in Wallet!SendRows, NEW b \in Int, NEW l \in Int,
           balance' = Add(balance, r.user, r.asset, b), locked' = Add(locked, r.user, r.asset, l),
           b >= 0 \/ balance[r.user][r.asset] + b >= 0,
           sends' = [sends EXCEPT ![id] = r],
           \A v, a : /\ SentOf(r, v, a, "PENDING") - SentOf(sends[id], v, a, "PENDING")
                          = IF v = r.user /\ a = r.asset THEN l ELSE 0
                     /\ SentOf(r, v, a, "SENT") - SentOf(sends[id], v, a, "SENT")
                          = IF v = r.user /\ a = r.asset THEN -(b + l) ELSE 0,
           UNCHANGED <<history, adjusted, stakingVars>>
    PROVE  /\ Wallet!WalletTypeOK' /\ balance' \in Columns(Int) /\ locked' \in Columns(Int)
           /\ \A v \in Users, a \in Assets : Accounted(v, a)
<1>0. r.user \in Users /\ r.asset \in Assets
  BY DEF Wallet!SendRows
<1>1. PICK u \in Users, c \in Assets : u = r.user /\ c = r.asset
  BY <1>0
<1>2. balance' \in Columns(Int) /\ locked' \in Columns(Int)
  BY <1>0, ExactCell
<1>3. Wallet!WalletTypeOK'
  <2>1. sends' \in [SendIds -> Wallet!SendRows \cup {Nil}]
    BY SendMoves
  <2> QED
    BY <2>1 DEF Wallet!WalletTypeOK
<1>4. \A v, a, st : SentAmount(v, a, st)' = SentAmount(v, a, st)
                                               + (SentOf(r, v, a, st) - SentOf(sends[id], v, a, st))
  BY SendMoves
<1>5. ASSUME NEW v \in Users, NEW a \in Assets PROVE Accounted(v, a)
  <2>1. PICK bb \in Int, ll \in Int : /\ bb = IF v = u /\ a = c THEN b ELSE 0
                                      /\ ll = IF v = u /\ a = c THEN l ELSE 0
    OBVIOUS
  <2>2. balance'[v][a] = balance[v][a] + bb /\ locked'[v][a] = locked[v][a] + ll
    <3>1. /\ Add(balance, u, c, b)[v][a] = balance[v][a] + (IF v = u /\ a = c THEN b ELSE 0)
          /\ Add(locked, u, c, l)[v][a] = locked[v][a] + (IF v = u /\ a = c THEN l ELSE 0)
      BY ExactCell
    <3> QED
      BY <1>1, <2>1, <3>1
  <2>3. UNCHANGED <<history, adjusted, stakes>>
    BY DEF stakingVars
  <2>4. /\ AdjustedBy(v, a)' = AdjustedBy(v, a) /\ TakenBack(v, a)' = TakenBack(v, a)
        /\ InStakes(v, a)' = InStakes(v, a) /\ Recorded(v, a)' = Recorded(v, a)
    BY <2>3, InStakesOf, InStakesNext DEF AdjustedBy, TakenBack, Recorded
  <2>5. /\ Recorded(v, a) \in Int /\ InStakes(v, a) \in Int /\ AdjustedBy(v, a) \in Int
        /\ \A st : SentAmount(v, a, st) \in Int
        /\ TakenBack(v, a) \in Int
    BY TablesInt
  <2>6. /\ SentAmount(v, a, "PENDING")' = SentAmount(v, a, "PENDING") + ll
        /\ SentAmount(v, a, "SENT")' = SentAmount(v, a, "SENT") - (bb + ll)
    <3>1. /\ SentAmount(v, a, "PENDING")' = SentAmount(v, a, "PENDING")
                + (SentOf(r, v, a, "PENDING") - SentOf(sends[id], v, a, "PENDING"))
          /\ SentAmount(v, a, "SENT")' = SentAmount(v, a, "SENT")
                + (SentOf(r, v, a, "SENT") - SentOf(sends[id], v, a, "SENT"))
      BY <1>4
    <3>2. /\ SentOf(r, v, a, "PENDING") - SentOf(sends[id], v, a, "PENDING") = ll
          /\ SentOf(r, v, a, "SENT") - SentOf(sends[id], v, a, "SENT") = -(bb + ll)
      BY <1>1, <2>1
    <3> QED
      BY <2>5, <3>1, <3>2
  <2>7. Entered(v, a)' = Entered(v, a) + (bb + ll)
    BY <2>4, <2>5, <2>6 DEF Entered
  <2>8. TakenBack(v, a)' = TakenBack(v, a) + 0 /\ 0 <= 0 /\ 0 \in Int
    BY <2>4, <2>5
  <2>9. bb >= 0 \/ balance'[v][a] >= 0
    BY <1>1, <2>1, <2>2
  <2> QED
    BY <2>2, <2>6, <2>7, <2>8, <2>9 DEF Accounted
<1> QED
  BY <1>2, <1>3, <1>5

LEMMA AdjustStep ==
    ASSUME ExactColumns, Wallet!WalletTypeOK, StakeOK, balance \in Columns(Int), locked \in Columns(Int),
           NEW u \in Users, NEW c \in Assets, NEW x \in Int,
           balance' = Add(balance, u, c, x),
           adjusted' = [adjusted EXCEPT ![u][c] = Append(@, x)],
           UNCHANGED <<locked, history, sends, stakingVars>>,
           NEW v \in Users, NEW a \in Assets
    PROVE  Wallet!WalletTypeOK' /\ balance' \in Columns(Int) /\ Accounted(v, a)
<1>1. /\ balance' \in Columns(Int)
      /\ balance'[v][a] = balance[v][a] + (IF v = u /\ a = c THEN x ELSE 0)
  BY ExactCell
<1>2. /\ AdjustedBy(v, a)' = AdjustedBy(v, a) + (IF v = u /\ a = c THEN x ELSE 0)
      /\ TakenBack(v, a)' = TakenBack(v, a) + (IF v = u /\ a = c /\ x < 0 THEN x ELSE 0)
      /\ adjusted' \in [Users -> [Assets -> Seq(Int)]]
  BY AdjustMoves
<1>3. Wallet!WalletTypeOK'
  BY <1>2 DEF Wallet!WalletTypeOK
<1>4. UNCHANGED <<locked, history, sends, stakes>>
  BY DEF stakingVars
<1>5. /\ Recorded(v, a)' = Recorded(v, a) /\ InStakes(v, a)' = InStakes(v, a)
      /\ \A st : SentAmount(v, a, st)' = SentAmount(v, a, st)
  BY <1>4, InStakesOf, InStakesNext DEF Recorded, SentAmount, SentBy
<1>6. /\ Recorded(v, a) \in Int /\ InStakes(v, a) \in Int /\ AdjustedBy(v, a) \in Int
      /\ \A st : SentAmount(v, a, st) \in Int
      /\ TakenBack(v, a) \in Int
  BY TablesInt
<1>7. PICK b \in Int, t \in Int : /\ b = IF v = u /\ a = c THEN x ELSE 0
                                  /\ t = IF v = u /\ a = c /\ x < 0 THEN x ELSE 0
  OBVIOUS
<1>8. /\ balance'[v][a] = balance[v][a] + b /\ locked'[v][a] = locked[v][a] + 0
      /\ SentAmount(v, a, "PENDING")' = SentAmount(v, a, "PENDING") + 0
      /\ TakenBack(v, a)' = TakenBack(v, a) + t /\ t <= 0 /\ b >= t /\ 0 \in Int
  <2>1. locked[v][a] \in Int /\ locked'[v][a] = locked[v][a]
    BY <1>4 DEF Columns
  <2>2. t <= 0 /\ b >= t
    BY <1>7
  <2> QED
    BY <1>1, <1>2, <1>5, <1>6, <1>7, <2>1, <2>2
<1>9. Entered(v, a)' = Entered(v, a) + (b + 0)
  BY <1>2, <1>5, <1>6, <1>7 DEF Entered
<1> QED
  BY <1>1, <1>3, <1>8, <1>9 DEF Accounted

\* The routes enter what they do to the wallets in their tables, and take from the free
\* balance only what it holds, an admin's correction apart.
LEMMA WalletStep ==
    ASSUME ExactColumns, Wallet!WalletTypeOK, StakeOK, balance \in Columns(Int), locked \in Columns(Int),
           UNCHANGED stakingVars, Wallet!WalletNext
    PROVE  /\ Wallet!WalletTypeOK' /\ balance' \in Columns(Int) /\ locked' \in Columns(Int)
           /\ \A u \in Users, a \in Assets : Accounted(u, a)
<1> DEFINE Goal == /\ Wallet!WalletTypeOK' /\ balance' \in Columns(Int) /\ locked' \in Columns(Int)
                   /\ \A u \in Users, a \in Assets : Accounted(u, a)
<1>1. /\ \A x \in MovedAmounts : x \in Nat /\ -x \in Int /\ StoredAmount(x) = x
      /\ Nil \notin Wallet!SendRows
  <2>1. \A x \in MovedAmounts : x \in Nat /\ -x \in Int
    BY WalletAssumption DEF Wallet!WalletConstants
  <2> QED
    BY <2>1, ExactStored, WalletAssumption DEF Wallet!WalletConstants, Wallet!SendRows
<1>2. ASSUME NEW u \in Users, NEW c \in Assets, NEW x \in MovedAmounts, Wallet!Deposit(u, c, x)
      PROVE  Goal
  <2>1. /\ balance' = Add(balance, u, c, x) /\ UNCHANGED <<locked, sends, adjusted>>
        /\ history' = [history EXCEPT ![u] =
                         Append(@, [asset |-> c, type |-> "DEPOSIT", amount |-> StoredAmount(x),
                                    balance_after |-> balance'[u][c]])]
    BY <1>2, SameLedger DEF Wallet!Deposit, Wallet!Record
  <2>2. x \in Nat /\ x \in Int
    BY <1>1
  <2>3. ASSUME NEW v \in Users, NEW a \in Assets
        PROVE  Wallet!WalletTypeOK' /\ balance' \in Columns(Int) /\ Accounted(v, a)
    BY <2>1, <2>2, RecordStep
  <2> QED
    BY <2>1, <2>3
<1>3. ASSUME NEW u \in Users, NEW c \in Assets, NEW x \in MovedAmounts, Wallet!Withdraw(u, c, x)
      PROVE  Goal
  <2>1. /\ balance' = Add(balance, u, c, -x) /\ UNCHANGED <<locked, sends, adjusted>>
        /\ history' = [history EXCEPT ![u] =
                         Append(@, [asset |-> c, type |-> "WITHDRAWAL", amount |-> StoredAmount(x),
                                    balance_after |-> balance'[u][c]])]
        /\ balance[u][c] >= x
    BY <1>3, SameLedger DEF Wallet!Withdraw, Wallet!Record, Wallet!HasFree
  <2>2. x \in Nat /\ -x \in Int
    BY <1>1
  <2>3. ASSUME NEW v \in Users, NEW a \in Assets
        PROVE  Wallet!WalletTypeOK' /\ balance' \in Columns(Int) /\ Accounted(v, a)
    BY <2>1, <2>2, RecordStep
  <2> QED
    BY <2>1, <2>3
<1>4. ASSUME NEW u \in Users, NEW c \in Assets, NEW x \in MovedAmounts, Wallet!SimulatedSend(u, c, x)
      PROVE  Goal
  <2>1. PICK id, r : /\ id = Wallet!NextSend
                     /\ r = [user |-> u, asset |-> c, amount |-> StoredAmount(x), status |-> "PENDING"]
    OBVIOUS
  <2>2. id \in SendIds /\ sends[id] = Nil
    BY <1>4, <2>1 DEF Wallet!SimulatedSend, Wallet!NextSend, Wallet!FreshSends
  <2>3. /\ x \in Nat /\ -x \in Int /\ r \in Wallet!SendRows
        /\ r.user = u /\ r.asset = c /\ r.amount = x /\ r.status = "PENDING" /\ r # Nil
    BY <1>1, <2>1 DEF Wallet!SendRows
  <2>4. PICK b \in Int : b = -x
    BY <2>3
  <2>5. /\ balance' = Add(balance, r.user, r.asset, b) /\ locked' = Add(locked, r.user, r.asset, x)
        /\ sends' = [sends EXCEPT ![id] = r] /\ balance[u][c] >= x /\ UNCHANGED <<history, adjusted>>
    BY <1>4, <2>1, <2>3, <2>4, SameLedger DEF Wallet!SimulatedSend, Wallet!HasFree
  <2>6. b >= 0 \/ balance[r.user][r.asset] + b >= 0
    <3>1. balance[u][c] \in Int
      BY DEF Columns
    <3> QED
      BY <2>3, <2>5, <2>4, <3>1
  <2>7. ASSUME NEW v, NEW a
        PROVE  /\ SentOf(r, v, a, "PENDING") - SentOf(sends[id], v, a, "PENDING")
                     = IF v = r.user /\ a = r.asset THEN x ELSE 0
               /\ SentOf(r, v, a, "SENT") - SentOf(sends[id], v, a, "SENT")
                     = IF v = r.user /\ a = r.asset THEN -(b + x) ELSE 0
    BY <2>2, <2>3, <2>4 DEF SentOf
  <2>8. x \in Int
    BY <2>3
  <2> QED
    BY <2>2, <2>3, <2>5, <2>6, <2>7, <2>8, SendStep
<1>5. ASSUME NEW id \in SendIds, Wallet!Resolvable(id)
      PROVE  /\ sends[id] \in Wallet!SendRows /\ sends[id] # Nil /\ sends[id].status = "PENDING"
             /\ sends[id].amount \in Nat /\ -sends[id].amount \in Int
  BY <1>5 DEF Wallet!Resolvable, Wallet!WalletTypeOK, Wallet!SendRows
<1>6. ASSUME NEW id \in SendIds, Wallet!MarkSent(id) PROVE Goal
  <2>1. PICK s, r : s = sends[id] /\ r = [s EXCEPT !.status = "SENT"]
    OBVIOUS
  <2>2. /\ s \in Wallet!SendRows /\ s # Nil /\ s.status = "PENDING"
        /\ s.amount \in Nat /\ -s.amount \in Int
    BY <1>5, <1>6, <2>1 DEF Wallet!MarkSent
  <2>3. /\ r \in Wallet!SendRows /\ r # Nil /\ r.user = s.user /\ r.asset = s.asset
        /\ r.amount = s.amount /\ r.status = "SENT"
    BY <1>1, <2>1, <2>2 DEF Wallet!SendRows
  <2>4. /\ locked' = Add(locked, r.user, r.asset, -s.amount) /\ sends' = [sends EXCEPT ![id] = r]
        /\ UNCHANGED <<balance, history, adjusted>>
    BY <1>6, <2>1, <2>3, SameLedger DEF Wallet!MarkSent, Wallet!WalletTypeOK
  <2>5. balance' = Add(balance, r.user, r.asset, 0)
    <3>1. r.user \in Users /\ r.asset \in Assets /\ 0 \in Int
      BY <2>3 DEF Wallet!SendRows
    <3>2. Add(balance, r.user, r.asset, 0) = [balance EXCEPT ![r.user][r.asset] = @ + 0]
      BY <3>1, ExactAdd
    <3>3. PICK u \in Users, c \in Assets : u = r.user /\ c = r.asset
      BY <3>1
    <3>4. balance[u][c] \in Int /\ balance[u] \in [Assets -> Int]
      BY DEF Columns
    <3>5. [balance[u] EXCEPT ![c] = @ + 0] = balance[u]
      BY <3>4
    <3>6. [balance EXCEPT ![u][c] = @ + 0] = [balance EXCEPT ![u] = balance[u]]
      BY <3>5 DEF Columns
    <3> QED
      BY <2>4, <3>2, <3>3, <3>6 DEF Columns
  <2>6. ASSUME NEW v, NEW a
        PROVE  /\ SentOf(r, v, a, "PENDING") - SentOf(sends[id], v, a, "PENDING")
                     = IF v = r.user /\ a = r.asset THEN -s.amount ELSE 0
               /\ SentOf(r, v, a, "SENT") - SentOf(sends[id], v, a, "SENT")
                     = IF v = r.user /\ a = r.asset THEN -(0 + -s.amount) ELSE 0
    BY <2>1, <2>2, <2>3 DEF SentOf
  <2>7. 0 \in Int /\ (0 >= 0 \/ balance[r.user][r.asset] + 0 >= 0)
    OBVIOUS
  <2> QED
    BY <2>2, <2>3, <2>4, <2>5, <2>6, <2>7, SendStep
<1>7. ASSUME NEW id \in SendIds, Wallet!MarkFailed(id) PROVE Goal
  <2>1. PICK s, r : s = sends[id] /\ r = [s EXCEPT !.status = "FAILED"]
    OBVIOUS
  <2>2. /\ s \in Wallet!SendRows /\ s # Nil /\ s.status = "PENDING"
        /\ s.amount \in Nat /\ s.amount \in Int /\ -s.amount \in Int
    BY <1>5, <1>7, <2>1 DEF Wallet!MarkFailed
  <2>3. /\ r \in Wallet!SendRows /\ r # Nil /\ r.user = s.user /\ r.asset = s.asset
        /\ r.amount = s.amount /\ r.status = "FAILED"
    BY <1>1, <2>1, <2>2 DEF Wallet!SendRows
  <2>4. /\ locked' = Add(locked, r.user, r.asset, -s.amount) /\ sends' = [sends EXCEPT ![id] = r]
        /\ balance' = Add(balance, r.user, r.asset, s.amount) /\ UNCHANGED <<history, adjusted>>
    BY <1>7, <2>1, <2>3, SameLedger DEF Wallet!MarkFailed, Wallet!WalletTypeOK
  <2>5. ASSUME NEW v, NEW a
        PROVE  /\ SentOf(r, v, a, "PENDING") - SentOf(sends[id], v, a, "PENDING")
                     = IF v = r.user /\ a = r.asset THEN -s.amount ELSE 0
               /\ SentOf(r, v, a, "SENT") - SentOf(sends[id], v, a, "SENT")
                     = IF v = r.user /\ a = r.asset THEN -(s.amount + -s.amount) ELSE 0
    BY <2>1, <2>2, <2>3 DEF SentOf
  <2>6. s.amount >= 0 \/ balance[r.user][r.asset] + s.amount >= 0
    BY <2>2
  <2> QED
    BY <2>2, <2>3, <2>4, <2>5, <2>6, SendStep
<1>8. ASSUME NEW u \in Users, NEW c \in Assets, NEW x \in Int, Wallet!AdjustBalance(u, c, x)
      PROVE  Goal
  <2>1. /\ balance' = Add(balance, u, c, x) /\ adjusted' = [adjusted EXCEPT ![u][c] = Append(@, x)]
        /\ UNCHANGED <<locked, history, sends>>
    BY <1>8, SameLedger DEF Wallet!AdjustBalance
  <2>2. ASSUME NEW v \in Users, NEW a \in Assets
        PROVE  Wallet!WalletTypeOK' /\ balance' \in Columns(Int) /\ Accounted(v, a)
    BY <2>1, AdjustStep
  <2> QED
    BY <2>1, <2>2
<1>9. \A x \in MovedAmounts : x \in Int /\ -x \in Int
  BY <1>1
<1> QED
  BY <1>2, <1>3, <1>4, <1>6, <1>7, <1>8, <1>9 DEF Wallet!WalletNext

-----------------------------------------------------------------------------
(* The order engine, next to the wallets it shares.                         *)

LEMMA EngineSpends ==
    ASSUME ExactColumns, EngineInv, balance \in Columns(Int), locked \in Columns(Int), [Next]_vars
    PROVE  /\ balance' \in Columns(Int) /\ locked' \in Columns(Int)
           /\ \A u \in Users, a \in Assets : balance'[u][a] >= balance[u][a] \/ balance'[u][a] >= 0
<1> DEFINE Kept(b) == \A u \in Users, a \in Assets : b[u][a] >= balance[u][a] \/ b[u][a] >= 0
           Goal == balance' \in Columns(Int) /\ locked' \in Columns(Int) /\ Kept(balance')
<1>0. Grid = 1
  BY DEF ExactColumns
<1>1. \A b \in Columns(Int), u \in Users, a \in Assets : b[u][a] \in Int
  BY DEF Columns
<1>2. ASSUME NEW o \in OrderRows, NEW lock \in Nat
      PROVE  /\ o.user \in Users /\ LockAsset(o) \in Assets /\ Received(o) \in Assets
             /\ -lock \in Int /\ lock \in Int
  BY OrderEngineAssumption DEF OrderRows, LockAsset, Received, Sides
<1>3. \A o \in OrderRows, at \in Nat : Gain(o, at) \in Nat /\ LockAmount(o, at) \in Nat
  BY StoredSets, AmountsNat DEF Gain, LockAmount, OrderRows
<1>4. ASSUME NEW b \in Columns(Int), NEW c \in Columns(Int), NEW u \in Users, NEW a \in Assets,
             NEW x \in Int, Kept(b), c = Add(b, u, a, x), x >= 0 \/ b[u][a] + x >= 0
      PROVE  Kept(c) /\ c \in Columns(Int)
  <2>1. c \in Columns(Int)
    BY <1>4, AddInt
  <2>2. ASSUME NEW v \in Users, NEW d \in Assets PROVE c[v][d] >= balance[v][d] \/ c[v][d] >= 0
    <3>1. c[v][d] = b[v][d] + (IF v = u /\ d = a THEN x ELSE 0)
      BY <1>4, ExactCell
    <3>2. b[v][d] >= balance[v][d] \/ b[v][d] >= 0
      BY <1>4
    <3>3. b[v][d] \in Int /\ balance[v][d] \in Int
      BY <1>1
    <3> QED
      BY <1>4, <3>1, <3>2, <3>3
  <2> QED
    BY <2>1, <2>2
<1>5. Kept(balance)
  BY <1>1
<1> HIDE DEF Kept
<1>6. ASSUME NEW o \in OrderRows, NEW lock \in Nat, Locks(o, lock) PROVE Goal
  <2>1. o.user \in Users /\ LockAsset(o) \in Assets /\ -lock \in Int /\ lock \in Int
    BY <1>2
  <2>2. /\ balance' = Add(balance, o.user, LockAsset(o), -lock)
        /\ locked' = Add(locked, o.user, LockAsset(o), lock)
        /\ balance[o.user][LockAsset(o)] >= lock
    BY <1>6 DEF Locks
  <2>3. balance[o.user][LockAsset(o)] + -lock >= 0
    BY <1>1, <2>1, <2>2
  <2>4. PICK x \in Int : x = -lock
    BY <2>1
  <2>5. balance' = Add(balance, o.user, LockAsset(o), x) /\ balance[o.user][LockAsset(o)] + x >= 0
    BY <2>2, <2>3, <2>4
  <2>6. locked' \in Columns(Int) /\ balance' \in Columns(Int)
    BY <2>1, <2>2, <2>5, AddInt
  <2> QED
    BY <1>4, <1>5, <2>1, <2>5, <2>6
<1>7. ASSUME NEW o \in OrderRows, NEW lock \in Nat, Unlocks(o, lock) PROVE Goal
  <2>1. o.user \in Users /\ LockAsset(o) \in Assets /\ -lock \in Int /\ lock \in Int /\ lock >= 0
    BY <1>2
  <2>2. /\ balance' = Add(balance, o.user, LockAsset(o), lock)
        /\ locked' = Add(locked, o.user, LockAsset(o), -lock)
    BY <1>7 DEF Unlocks
  <2>3. locked' \in Columns(Int) /\ balance' \in Columns(Int)
    BY <2>1, <2>2, AddInt
  <2> QED
    BY <1>4, <1>5, <2>1, <2>2, <2>3
<1>8. ASSUME NEW o \in OrderRows, NEW lock \in Nat, NEW at \in Nat, Settles(o, lock, at) PROVE Goal
  <2>1. /\ o.user \in Users /\ LockAsset(o) \in Assets /\ Received(o) \in Assets /\ -lock \in Int
        /\ Gain(o, at) \in Int /\ Gain(o, at) >= 0
    BY <1>2, <1>3
  <2>2. /\ balance' = Add(balance, o.user, Received(o), Gain(o, at))
        /\ locked' = Add(locked, o.user, LockAsset(o), -lock)
    BY <1>8 DEF Settles
  <2>3. locked' \in Columns(Int) /\ balance' \in Columns(Int)
    BY <2>1, <2>2, AddInt
  <2> QED
    BY <1>4, <1>5, <2>1, <2>2, <2>3
<1>9. ASSUME NEW o \in OrderRows, NEW lock \in Nat, NEW at \in Nat, LocksAndSettles(o, lock, at)
      PROVE  Goal
  <2>1. /\ o.user \in Users /\ LockAsset(o) \in Assets /\ Received(o) \in Assets /\ -lock \in Int
        /\ lock \in Int /\ Gain(o, at) \in Int /\ Gain(o, at) >= 0
    BY <1>2, <1>3
  <2>2. PICK x, b, l : /\ x = -lock /\ x \in Int
                       /\ b = Add(balance, o.user, LockAsset(o), -lock)
                       /\ l = Add(locked, o.user, LockAsset(o), lock)
    BY <2>1
  <2>3. /\ b = Add(balance, o.user, LockAsset(o), x) /\ balance[o.user][LockAsset(o)] >= lock
        /\ balance' = Add(b, o.user, Received(o), Gain(o, at))
        /\ locked' = Add(l, o.user, LockAsset(o), -lock)
    BY <1>9, <2>2 DEF LocksAndSettles
  <2>4. balance[o.user][LockAsset(o)] + x >= 0
    BY <1>1, <2>1, <2>2, <2>3
  <2>5. b \in Columns(Int) /\ l \in Columns(Int)
    BY <2>1, <2>2, AddInt
  <2>6. Kept(b)
    <3>1. x \in Int /\ b = Add(balance, o.user, LockAsset(o), x) /\ balance \in Columns(Int)
      BY <2>2, <2>3
    <3> QED
      BY <1>4, <1>5, <2>1, <2>4, <2>5, <3>1
  <2>7. locked' \in Columns(Int) /\ balance' \in Columns(Int)
    BY <2>1, <2>3, <2>5, AddInt
  <2> QED
    BY <1>4, <2>1, <2>3, <2>5, <2>6, <2>7
<1>10. CASE UNCHANGED dbVars
  <2>1. balance' = balance /\ locked' = locked
    BY <1>10 DEF dbVars
  <2> QED
    BY <1>1, <2>1 DEF Kept
<1>11. ASSUME NEW id \in OrderIds, Rests(id) PROVE Goal
  <2>1. PICK o : o = orders'[id]
    OBVIOUS
  <2>2. o \in OrderRows /\ o.type # "MARKET" /\ Locks(o, LockOf(o))
    BY <1>11, <2>1 DEF Rests, RowInserted, EngineInv, TablesOK
  <2>3. LockOf(o) \in Nat
    BY <2>2, <1>3, StoredSets DEF LockOf, OrderRows
  <2> QED
    BY <1>6, <2>2, <2>3
<1>12. ASSUME NEW id \in OrderIds, orders[id] # Nil, orders[id].type # "MARKET"
       PROVE  orders[id] \in OrderRows /\ LockOf(orders[id]) \in Nat /\ orders[id].trigger \in Nat
  <2>1. orders[id] \in OrderRows
    BY <1>12 DEF EngineInv, TablesOK
  <2>2. orders[id].trigger \in Nat
    BY <1>12, <2>1, StoredSets DEF OrderRows
  <2> QED
    BY <1>3, <2>1, <2>2 DEF LockOf
<1>13. ASSUME NEW id \in OrderIds, IsReleased(id) PROVE Goal
  BY <1>7, <1>12, <1>13 DEF IsReleased, RowCancelled, Pending, Placed, EngineInv, OpenOrdersRest, Resting
<1>14. ASSUME NEW id \in OrderIds, MarketFills(id) PROVE Goal
  BY <1>3, <1>9, <1>14, OrderEngineAssumption DEF MarketFills
<1>15. ASSUME NEW id \in OrderIds, TickFills(id) PROVE Goal
  <2>1. /\ orders[id] \in OrderRows /\ LockOf(orders[id]) \in Nat /\ orders[id].trigger \in Nat
        /\ feed.price \in Nat
    BY <1>12, <1>15, OrderEngineAssumption DEF TickFills, TickFill, Placed, Resting
  <2>2. FillPrice(orders[id], feed.price) \in Nat
    BY <2>1 DEF FillPrice
  <2> QED
    BY <1>8, <1>15, <2>1, <2>2 DEF TickFills
<1> QED
  BY <1>0, <1>10, <1>11, <1>13, <1>14, <1>15, WalletCases DEF Kept

\* What a step of any service does to one wallet, next to all the tables: locked_balance
\* moves by what orders and PENDING sends hold, the whole wallet by what trades and the
\* other tables enter, filled STOP_LOSS BUYs apart, and nothing is spent that is not free.
Explained(u, a) ==
    \E b, l, t, d \in Int :
        /\ balance'[u][a] = balance[u][a] + b /\ locked'[u][a] = locked[u][a] + l
        /\ HeldByOrders(u, a)' + SentAmount(u, a, "PENDING")'
             = HeldByOrders(u, a) + SentAmount(u, a, "PENDING") + l
        /\ TradedBy(u, a)' + Entered(u, a)' = TradedBy(u, a) + Entered(u, a) + b + l - d
        /\ NoStopBuys(u)' => NoStopBuys(u) /\ d = 0
        /\ TakenBack(u, a)' = TakenBack(u, a) + t /\ t <= 0
        /\ b >= t \/ balance'[u][a] >= 0

\* The other services know nothing of the orders.
LEMMA OthersExplained ==
    ASSUME AuditInv, Wallet!WalletTypeOK, StakeOK, NEW u \in Users, NEW a \in Assets,
           UNCHANGED <<orders, trades>>, Accounted(u, a)
    PROVE  Explained(u, a)
<1>1. PICK b, l, t \in Int :
          /\ balance'[u][a] = balance[u][a] + b /\ locked'[u][a] = locked[u][a] + l
          /\ SentAmount(u, a, "PENDING")' = SentAmount(u, a, "PENDING") + l
          /\ Entered(u, a)' = Entered(u, a) + (b + l)
          /\ TakenBack(u, a)' = TakenBack(u, a) + t /\ t <= 0
          /\ b >= t \/ balance'[u][a] >= 0
  BY DEF Accounted
<1>2. /\ HeldByOrders(u, a)' = HeldByOrders(u, a) /\ TradedBy(u, a)' = TradedBy(u, a)
      /\ (NoStopBuys(u)' => NoStopBuys(u))
  BY DEF HeldByOrders, HeldBy, Pending, Placed, TradedBy, Moved, NoStopBuys, IsStopBuy, Filled
<1>3. HeldByOrders(u, a) \in Int /\ TradedBy(u, a) \in Int
  BY TradedInt, HeldIs DEF AuditInv
<1>4. Entered(u, a) \in Int /\ SentAmount(u, a, "PENDING") \in Int
  BY TablesInt
<1>5. PICK d \in Int : d = 0
  OBVIOUS
<1>6. /\ HeldByOrders(u, a)' + SentAmount(u, a, "PENDING")'
           = HeldByOrders(u, a) + SentAmount(u, a, "PENDING") + l
      /\ TradedBy(u, a)' + Entered(u, a)' = TradedBy(u, a) + Entered(u, a) + b + l - d
  BY <1>1, <1>2, <1>3, <1>4, <1>5
<1> QED
  BY <1>1, <1>2, <1>5, <1>6 DEF Explained

\* The engine knows nothing of the other services.
LEMMA EngineExplained ==
    ASSUME ExactColumns, AuditInv, Wallet!WalletTypeOK, StakeOK, balance \in Columns(Int),
           locked \in Columns(Int), [Next]_vars, UNCHANGED <<walletVars, stakes>>,
           NEW u \in Users, NEW a \in Assets
    PROVE  Explained(u, a)
<1>1. UNCHANGED <<history, sends, adjusted, stakes>>
  BY DEF walletVars
<1>2. /\ Recorded(u, a)' = Recorded(u, a) /\ AdjustedBy(u, a)' = AdjustedBy(u, a)
      /\ TakenBack(u, a)' = TakenBack(u, a) /\ InStakes(u, a)' = InStakes(u, a)
      /\ \A st : SentAmount(u, a, st)' = SentAmount(u, a, st)
  BY <1>1, InStakesOf, InStakesNext DEF Recorded, AdjustedBy, TakenBack, SentAmount, SentBy
<1>3. Entered(u, a)' = Entered(u, a)
  BY <1>2 DEF Entered
<1>4. /\ Entered(u, a) \in Int /\ SentAmount(u, a, "PENDING") \in Int /\ TakenBack(u, a) \in Int
  BY TablesInt
<1>5. /\ balance' \in Columns(Int) /\ locked' \in Columns(Int)
      /\ balance'[u][a] >= balance[u][a] \/ balance'[u][a] >= 0
  BY EngineSpends DEF AuditInv
<1>6. /\ balance[u][a] \in Int /\ locked[u][a] \in Int
      /\ balance'[u][a] \in Int /\ locked'[u][a] \in Int
  BY <1>5 DEF Columns
<1>7. Drifts(u, a) /\ LocksAgree(u, a)
  BY StepDrifts DEF ExactColumns
<1>8. PICK d \in Int : /\ Drift(u, a)' = Drift(u, a) + d /\ TradedBy(u, a)' \in Int
                       /\ NoStopBuys(u)' => NoStopBuys(u) /\ d = 0
  <2>1. Unit = 0
    BY DEF Unit
  <2>2. PICK k \in {0, 1, 2}, d \in Int :
          /\ Drift(u, a)' = Drift(u, a) + d /\ TradedBy(u, a)' \in Int
          /\ -(k * Unit) <= d
          /\ NoStopBuys(u)' => NoStopBuys(u) /\ d <= k * Unit
    BY <1>7 DEF Drifts
  <2>3. k * Unit = 0
    BY <2>1
  <2>4. NoStopBuys(u)' => d = 0
    BY <2>2, <2>3
  <2> QED
    BY <2>2, <2>4
<1>9. /\ HeldByOrders(u, a) \in Int /\ TradedBy(u, a) \in Int
  BY TradedInt, HeldIs DEF AuditInv
<1>10. PICK b, l, t \in Int : /\ b = balance'[u][a] - balance[u][a]
                              /\ l = locked'[u][a] - locked[u][a] /\ t = 0
  BY <1>6
<1>11. HeldByOrders(u, a)' = HeldByOrders(u, a) + l
  BY <1>7, <1>10 DEF LocksAgree
<1>12. TradedBy(u, a)' = TradedBy(u, a) + b + l - d
  BY <1>6, <1>8, <1>9, <1>10, OrderEngineAssumption DEF Drift
<1>13. /\ balance'[u][a] = balance[u][a] + b /\ locked'[u][a] = locked[u][a] + l
       /\ TakenBack(u, a)' = TakenBack(u, a) + t /\ t <= 0
       /\ b >= t \/ balance'[u][a] >= 0
  BY <1>2, <1>4, <1>5, <1>6, <1>10
<1>14. /\ HeldByOrders(u, a)' + SentAmount(u, a, "PENDING")'
            = HeldByOrders(u, a) + SentAmount(u, a, "PENDING") + l
       /\ TradedBy(u, a)' + Entered(u, a)' = TradedBy(u, a) + Entered(u, a) + b + l - d
  BY <1>2, <1>3, <1>4, <1>8, <1>9, <1>10, <1>11, <1>12
<1> QED
  BY <1>8, <1>10, <1>13, <1>14 DEF Explained

-----------------------------------------------------------------------------
(* The wallets against all the tables, at all times.                        *)

BookKept(u, a) ==
    /\ locked[u][a] = HeldByOrders(u, a) + SentAmount(u, a, "PENDING")
    /\ NoStopBuys(u) =>
          balance[u][a] + locked[u][a] = InitialBalance + (TradedBy(u, a) + Entered(u, a))
    /\ balance[u][a] >= TakenBack(u, a)

\* What holds of the tables whatever the books say, and the books.
TablesInv ==
    /\ AuditInv /\ balance \in Columns(Int) /\ locked \in Columns(Int)
    /\ Wallet!WalletTypeOK /\ StakeOK
ExchangeInv == TablesInv /\ \A u \in Users, a \in Assets : BookKept(u, a)

LEMMA ExplainedKept ==
    ASSUME TablesInv, AuditInv', NEW u \in Users, NEW a \in Assets, Explained(u, a), BookKept(u, a)
    PROVE  BookKept(u, a)'
<1>1. PICK b, l, t, d \in Int :
        /\ balance'[u][a] = balance[u][a] + b /\ locked'[u][a] = locked[u][a] + l
        /\ HeldByOrders(u, a)' + SentAmount(u, a, "PENDING")'
             = HeldByOrders(u, a) + SentAmount(u, a, "PENDING") + l
        /\ TradedBy(u, a)' + Entered(u, a)' = TradedBy(u, a) + Entered(u, a) + b + l - d
        /\ NoStopBuys(u)' => NoStopBuys(u) /\ d = 0
        /\ TakenBack(u, a)' = TakenBack(u, a) + t /\ t <= 0
        /\ b >= t \/ balance'[u][a] >= 0
  BY DEF Explained
<1>2. /\ balance[u][a] \in Int /\ locked[u][a] \in Int
      /\ HeldByOrders(u, a) \in Int /\ TradedBy(u, a) \in Int
      /\ Entered(u, a) \in Int /\ SentAmount(u, a, "PENDING") \in Int
      /\ TakenBack(u, a) \in Int /\ TakenBack(u, a) <= 0
  BY TradedInt, HeldIs, TablesInt DEF TablesInv, Columns
<1>3. locked'[u][a] = HeldByOrders(u, a)' + SentAmount(u, a, "PENDING")'
  BY <1>1, <1>2 DEF BookKept
<1>4. balance'[u][a] >= TakenBack(u, a)'
  BY <1>1, <1>2 DEF BookKept
<1>5. ASSUME NoStopBuys(u)'
      PROVE  balance'[u][a] + locked'[u][a] = InitialBalance + (TradedBy(u, a)' + Entered(u, a)')
  <2>1. balance[u][a] + locked[u][a] = InitialBalance + (TradedBy(u, a) + Entered(u, a)) /\ d = 0
    BY <1>1, <1>5 DEF BookKept
  <2>2. TradedBy(u, a)' + Entered(u, a)' = TradedBy(u, a) + Entered(u, a) + b + l
    BY <1>1, <1>2, <2>1
  <2>3. InitialBalance \in Int
    BY OrderEngineAssumption
  <2> QED
    BY <1>1, <1>2, <2>1, <2>2, <2>3
<1> QED
  BY <1>3, <1>4, <1>5 DEF BookKept
LEMMA ExchangeInitInv == ExchangeInit => ExchangeInv
<1> SUFFICES ASSUME ExchangeInit PROVE ExchangeInv
  OBVIOUS
<1>1. Init /\ Wallet!WalletInit /\ Stake!StakingInit
  BY DEF ExchangeInit
<1>2. AuditInv /\ balance \in Columns(Int) /\ locked \in Columns(Int)
  BY <1>1, AuditInit, InitInv DEF IInv, ColumnsOK, Columns
<1>3. Wallet!WalletTypeOK
  BY <1>1 DEF Wallet!WalletInit, Wallet!WalletTypeOK
<1>4. StakeOK
  BY <1>1, StakeAssumption DEF Stake!StakingInit, Stake!StakingTypeOK, StakeOK
<1>5. ASSUME NEW u \in Users, NEW a \in Assets PROVE BookKept(u, a)
  <2>1. HeldByOrders(u, a) = 0 /\ TradedBy(u, a) = 0
    <3> DEFINE f == [id \in OrderIds |-> HeldBy(id, u, a)]
               g == [id \in OrderIds |-> Moved(id, u, a)]
    <3>1. /\ DOMAIN f = OrderIds /\ DOMAIN g = OrderIds
          /\ \A id \in OrderIds : f[id] = 0 /\ g[id] = 0
      BY <1>1 DEF Init, HeldBy, Moved, Pending, Placed
    <3>2. HeldByOrders(u, a) = SumFunction(f) /\ TradedBy(u, a) = SumFunction(g)
      BY DEF HeldByOrders, TradedBy
    <3> HIDE DEF f, g
    <3> QED
      BY <3>1, <3>2, SumZero, AuditAssumption DEF SumFunction
  <2>2. SentAmount(u, a, "PENDING") = 0 /\ SentAmount(u, a, "SENT") = 0
    <3>1. ASSUME NEW st PROVE SentAmount(u, a, st) = 0
      <4> DEFINE f == [id \in SendIds |-> SentBy(id, u, a, st)]
      <4>1. DOMAIN f = SendIds /\ \A id \in SendIds : f[id] = 0
        BY <1>1 DEF Wallet!WalletInit, SentBy
      <4>2. SentAmount(u, a, st) = SumFunction(f)
        BY DEF SentAmount
      <4> HIDE DEF f
      <4> QED
        BY <4>1, <4>2, SumZero, TablesFinite DEF SumFunction
    <3> QED
      BY <3>1
  <2>3. InStakes(u, a) = 0
    <3> DEFINE f == [id \in StakeIds |-> YieldOf(stakes[id], u)]
    <3>1. DOMAIN f = StakeIds /\ \A id \in StakeIds : f[id] = 0
      BY <1>1 DEF Stake!StakingInit, YieldOf
    <3>2. InStakes(u, a) = IF a # "USDT" THEN 0 ELSE SumFunction(f)
      BY InStakesOf
    <3> HIDE DEF f
    <3> QED
      BY <3>1, <3>2, SumZero, TablesFinite DEF SumFunction
  <2>4. Recorded(u, a) = 0 /\ AdjustedBy(u, a) = 0 /\ TakenBack(u, a) = 0
    <3>1. history[u] = <<>> /\ adjusted[u][a] = <<>> /\ DOMAIN <<>> = {}
      BY <1>1 DEF Wallet!WalletInit
    <3>2. ASSUME NEW f, DOMAIN f = {} PROVE SumFunction(f) = 0
      BY <3>2, SumEmpty DEF SumFunction
    <3> DEFINE f == [i \in DOMAIN history[u] |-> Signed(history[u][i], a)]
               g == [i \in DOMAIN adjusted[u][a] |->
                        IF adjusted[u][a][i] < 0 THEN adjusted[u][a][i] ELSE 0]
    <3>3. DOMAIN f = {} /\ DOMAIN g = {} /\ DOMAIN adjusted[u][a] = {}
      BY <3>1
    <3>4. /\ Recorded(u, a) = SumFunction(f) /\ TakenBack(u, a) = SumFunction(g)
          /\ AdjustedBy(u, a) = SumFunction(adjusted[u][a])
      BY DEF Recorded, TakenBack, AdjustedBy
    <3> HIDE DEF f, g
    <3> QED
      BY <3>2, <3>3, <3>4
  <2>5. balance[u][a] = InitialBalance /\ locked[u][a] = 0 /\ InitialBalance \in Nat
    BY <1>1, OrderEngineAssumption DEF Init
  <2>6. Entered(u, a) = 0
    BY <2>2, <2>3, <2>4 DEF Entered
  <2> QED
    BY <2>1, <2>2, <2>4, <2>5, <2>6 DEF BookKept
<1> QED
  BY <1>2, <1>3, <1>4, <1>5 DEF ExchangeInv, TablesInv

LEMMA ExchangeStep ==
    ASSUME ExactColumns, TablesInv, [ExchangeNext]_exchangeVars
    PROVE  TablesInv' /\ \A u \in Users, a \in Assets : Explained(u, a)
<1> DEFINE Goal == TablesInv' /\ \A u \in Users, a \in Assets : Explained(u, a)
<1>0. /\ AuditInv /\ balance \in Columns(Int) /\ locked \in Columns(Int)
      /\ Wallet!WalletTypeOK /\ StakeOK /\ EngineInv
  BY DEF TablesInv, AuditInv
<1>1. ASSUME [Next]_vars, UNCHANGED <<walletVars, stakes>>, StakeOK' PROVE Goal
  <2>1. AuditInv' /\ balance' \in Columns(Int) /\ locked' \in Columns(Int)
    BY <1>0, <1>1, AuditNext, EngineSpends
  <2>2. Wallet!WalletTypeOK'
    BY <1>0, <1>1 DEF walletVars, Wallet!WalletTypeOK
  <2>3. ASSUME NEW u \in Users, NEW a \in Assets PROVE Explained(u, a)
    BY <1>0, <1>1, EngineExplained
  <2> QED
    BY <1>1, <2>1, <2>2, <2>3 DEF TablesInv
<1>2. ASSUME UNCHANGED <<orders, trades, price, request, feed>> PROVE AuditInv'
  BY <1>0, <1>2
     DEF AuditInv, EngineInv, TablesOK, MemoryOK, OpenOrdersRest, Resting, Placed, Pending,
         OneTradePerFill, Filled
<1>3. ASSUME UNCHANGED stakingVars PROVE StakeOK' /\ UNCHANGED stakes
  BY <1>0, <1>3 DEF stakingVars, StakeOK, Stake!StakingTypeOK
<1>4. CASE (Requests \/ FeedProgress \/ FeedFailure) /\ UNCHANGED <<walletVars, stakingVars>>
  <2>1. Next
    BY <1>4 DEF Next
  <2> QED
    BY <1>1, <1>3, <1>4, <2>1
<1>5. CASE Wallet!WalletNext /\ UNCHANGED <<orders, trades, price, request, feed, stakingVars>>
  <2>1. /\ Wallet!WalletTypeOK' /\ balance' \in Columns(Int) /\ locked' \in Columns(Int)
        /\ \A u \in Users, a \in Assets : Accounted(u, a)
    BY <1>0, <1>5, WalletStep
  <2>2. ASSUME NEW u \in Users, NEW a \in Assets PROVE Explained(u, a)
    BY <1>0, <1>5, <2>1, OthersExplained
  <2>3. AuditInv' /\ StakeOK'
    BY <1>2, <1>3, <1>5
  <2> QED
    BY <2>1, <2>2, <2>3 DEF TablesInv
<1>6. CASE Stake!StakingNext /\ UNCHANGED <<locked, orders, trades, price, request, feed, walletVars>>
  <2>1. StakeOK' /\ balance' \in Columns(Int) /\ \A u \in Users, a \in Assets : Accounted(u, a)
    BY <1>0, <1>6, StakingStep
  <2>2. ASSUME NEW u \in Users, NEW a \in Assets PROVE Explained(u, a)
    BY <1>0, <1>6, <2>1, OthersExplained
  <2>3. AuditInv' /\ Wallet!WalletTypeOK' /\ locked' \in Columns(Int)
    BY <1>0, <1>2, <1>6 DEF walletVars, Wallet!WalletTypeOK
  <2> QED
    BY <2>1, <2>2, <2>3 DEF TablesInv
<1>7. CASE Crash
  <2>1. Next
    BY <1>7 DEF Crash, Next
  <2>2. UNCHANGED <<walletVars, stakes>>
    BY <1>7 DEF Crash
  <2>3. StakeOK'
    BY <1>0, <1>7 DEF Crash, StakeOK, Stake!StakingTypeOK
  <2> QED
    BY <1>1, <2>1, <2>2, <2>3
<1>8. CASE UNCHANGED exchangeVars
  <2>1. UNCHANGED vars /\ UNCHANGED walletVars /\ UNCHANGED stakingVars
    BY <1>8 DEF exchangeVars
  <2> QED
    BY <1>1, <1>3, <2>1
<1> QED
  BY <1>4, <1>5, <1>6, <1>7, <1>8 DEF ExchangeNext

LEMMA ExchangeNextInv ==
    ASSUME ExactColumns, ExchangeInv, [ExchangeNext]_exchangeVars
    PROVE  ExchangeInv'
<1>1. TablesInv' /\ TablesInv /\ \A u \in Users, a \in Assets : Explained(u, a) /\ BookKept(u, a)
  BY ExchangeStep DEF ExchangeInv
<1>2. AuditInv'
  BY <1>1 DEF TablesInv
<1>3. ASSUME NEW u \in Users, NEW a \in Assets PROVE BookKept(u, a)'
  BY <1>1, <1>2, <1>3, ExplainedKept
<1> QED
  BY <1>1, <1>3 DEF ExchangeInv

LEMMA ExchangeInvariance ==
    ASSUME ExactColumns
    PROVE  ExchangeSpec => []ExchangeInv
BY ExchangeInitInv, ExchangeNextInv, PTL DEF ExchangeSpec


\* A pending order and a pending send hold something or nothing.
LEMMA HoldsNat ==
    ASSUME TablesInv, NEW u \in Users, NEW a \in Assets
    PROVE  HeldByOrders(u, a) \in Nat /\ SentAmount(u, a, "PENDING") \in Nat
<1>1. HeldByOrders(u, a) \in Nat
  <2> DEFINE f == [id \in OrderIds |-> HeldBy(id, u, a)]
  <2>1. ASSUME NEW i \in OrderIds PROVE HeldBy(i, u, a) \in Nat
    <3>1. HeldBy(i, u, a) = HoldsOf(orders[i], u, a)
      BY HeldIs DEF TablesInv
    <3>2. CASE Placed(i)
      <4>1. orders[i] \in OrderRows /\ (orders[i].status = "PENDING" => orders[i].type # "MARKET")
        BY <3>2 DEF TablesInv, AuditInv, EngineInv, TablesOK, OpenOrdersRest, Pending, Resting, Placed
      <4> QED
        BY <3>1, <4>1, HoldsOfNat
    <3>3. CASE ~Placed(i)
      BY <3>1, <3>3 DEF HoldsOf, Placed
    <3> QED
      BY <3>2, <3>3
  <2>2. DOMAIN f = OrderIds /\ \A i \in OrderIds : f[i] \in Nat
    BY <2>1
  <2>3. HeldByOrders(u, a) = SumFunction(f)
    BY DEF HeldByOrders
  <2> HIDE DEF f
  <2> QED
    BY <2>2, <2>3, SumNat, AuditAssumption DEF SumFunction
<1>2. SentAmount(u, a, "PENDING") \in Nat
  <2> DEFINE f == [id \in SendIds |-> SentBy(id, u, a, "PENDING")]
  <2>1. DOMAIN f = SendIds /\ \A i \in SendIds : f[i] \in Nat
    BY DEF TablesInv, Wallet!WalletTypeOK, Wallet!SendRows, SentBy
  <2>2. SentAmount(u, a, "PENDING") = SumFunction(f)
    BY DEF SentAmount
  <2> HIDE DEF f
  <2> QED
    BY <2>1, <2>2, SumNat, TablesFinite DEF SumFunction
<1> QED
  BY <1>1, <1>2

\* locked_balance, which orders and simulated sends share, is at all times what the
\* PENDING ones of both hold: neither spends or releases what the other has put there.
THEOREM LocksMatchHolds ==
    ASSUME ExactColumns
    PROVE  ExchangeSpec => []LockedMatchesHolds
<1>1. ExchangeInv => LockedMatchesHolds
  BY DEF ExchangeInv, BookKept, LockedMatchesHolds
<1> QED
  BY <1>1, ExchangeInvariance, PTL

\* Every table and every variable of the process keeps its type, whatever the services
\* do to the wallets they share; with it goes that no locked_balance becomes negative.
THEOREM ExchangeTypes ==
    ASSUME ExactColumns
    PROVE  ExchangeSpec => []ExchangeTypeOK
<1>1. ASSUME ExchangeInv PROVE ExchangeTypeOK
  <2>1. TablesInv
    BY <1>1 DEF ExchangeInv
  <2>2. ASSUME NEW u \in Users, NEW a \in Assets PROVE locked[u][a] \in Nat
    <3>1. locked[u][a] = HeldByOrders(u, a) + SentAmount(u, a, "PENDING")
      BY <1>1 DEF ExchangeInv, BookKept
    <3> QED
      BY <2>1, <3>1, HoldsNat
  <2>3. locked \in [Users -> [Assets -> Nat]]
    BY <2>1, <2>2 DEF TablesInv, Columns
  <2> QED
    BY <2>1, <2>3 DEF ExchangeTypeOK, TablesInv, Columns, StakeOK
<1> QED
  BY <1>1, ExchangeInvariance, PTL

\* The tables of the order engine, the wallet and admin routes and staking explain to the
\* unit what these services together make of a wallet, a user's filled STOP_LOSS BUYs apart.
\* On-chain withdrawals and the pollers' credits are no steps of ExchangeSpec, and the
\* theorem says nothing of wallets that they change.
THEOREM BooksKept ==
    ASSUME ExactColumns
    PROVE  ExchangeSpec => []BooksBalance
<1>1. ASSUME ExchangeInv, NEW u \in Users, NEW a \in Assets, NoStopBuys(u)
      PROVE  balance[u][a] + locked[u][a]
                 = InitialBalance + TradedBy(u, a) + Recorded(u, a) + InStakes(u, a)
                     - SentAmount(u, a, "SENT") + AdjustedBy(u, a)
  <2>1. balance[u][a] + locked[u][a] = InitialBalance + (TradedBy(u, a) + Entered(u, a))
    BY <1>1 DEF ExchangeInv, BookKept
  <2>2. /\ Recorded(u, a) \in Int /\ InStakes(u, a) \in Int /\ AdjustedBy(u, a) \in Int
        /\ SentAmount(u, a, "SENT") \in Int /\ TradedBy(u, a) \in Int /\ InitialBalance \in Int
    BY <1>1, TablesInt, TradedInt, OrderEngineAssumption DEF ExchangeInv, TablesInv
  <2> QED
    BY <2>1, <2>2 DEF Entered
<1>2. ExchangeInv => BooksBalance
  BY <1>1 DEF BooksBalance, NoStopBuys
<1> QED
  BY <1>2, ExchangeInvariance, PTL

\* However the requests of these services race for one balance, it is overdrawn by what
\* admins took back at most.
THEOREM OverdrawnOnlyByAdmins ==
    ASSUME ExactColumns
    PROVE  ExchangeSpec => []OverdrawnByAdminsOnly
<1>1. ExchangeInv => OverdrawnByAdminsOnly
  BY DEF ExchangeInv, BookKept, OverdrawnByAdminsOnly
<1> QED
  BY <1>1, ExchangeInvariance, PTL

-----------------------------------------------------------------------------
(* Sends, whatever the columns round.                                       *)

SendTable == sends \in [SendIds -> Wallet!SendRows \cup {Nil}]

\* What a step does to the table of sends: a row is inserted or settled, or nothing.
LEMMA SendCases ==
    ASSUME SendTable, [ExchangeNext]_exchangeVars
    PROVE  \/ sends' = sends
           \/ \E id \in SendIds, r \in Wallet!SendRows :
                 /\ sends' = [sends EXCEPT ![id] = r]
                 /\ \/ sends[id] = Nil
                    \/ /\ sends[id] # Nil /\ sends[id].status = "PENDING"
                       /\ r = [sends[id] EXCEPT !.status = r.status]
<1> DEFINE Inserts == \E id \in SendIds, r \in Wallet!SendRows :
                          sends' = [sends EXCEPT ![id] = r] /\ sends[id] = Nil
           Settled == \E id \in SendIds, r \in Wallet!SendRows :
                          /\ sends' = [sends EXCEPT ![id] = r]
                          /\ sends[id] # Nil /\ sends[id].status = "PENDING"
                          /\ r = [sends[id] EXCEPT !.status = r.status]
<1>1. ASSUME NEW u \in Users, NEW c \in Assets, NEW x \in MovedAmounts, Wallet!SimulatedSend(u, c, x)
      PROVE  Inserts
  <2>1. PICK id, r : /\ id = Wallet!NextSend
                     /\ r = [user |-> u, asset |-> c, amount |-> Wallet!StoredAmount(x), status |-> "PENDING"]
    OBVIOUS
  <2>2. id \in SendIds /\ sends[id] = Nil
    BY <1>1, <2>1 DEF Wallet!SimulatedSend, Wallet!NextSend, Wallet!FreshSends
  <2>3. x \in Nat
    BY WalletAssumption DEF Wallet!WalletConstants
  <2>4. Wallet!StoredAmount(x) \in Nat
    BY <2>3, StoredAmountNat, SameLedger
  <2>5. r \in Wallet!SendRows /\ sends' = [sends EXCEPT ![id] = r]
    BY <1>1, <2>1, <2>4 DEF Wallet!SimulatedSend, Wallet!SendRows
  <2> QED
    BY <2>2, <2>5
<1>2. ASSUME NEW id \in SendIds, NEW st \in {"SENT", "FAILED"}, Wallet!Resolvable(id),
             sends' = [sends EXCEPT ![id].status = st]
      PROVE  Settled
  <2>1. PICK s, r : s = sends[id] /\ r = [s EXCEPT !.status = st]
    OBVIOUS
  <2>2. s \in Wallet!SendRows /\ s # Nil /\ s.status = "PENDING"
    BY <1>2, <2>1 DEF Wallet!Resolvable, SendTable
  <2>3. r \in Wallet!SendRows /\ r.status = st
    BY <2>1, <2>2 DEF Wallet!SendRows
  <2>4. sends' = [sends EXCEPT ![id] = r]
    BY <1>2, <2>1 DEF SendTable
  <2> QED
    BY <2>1, <2>2, <2>3, <2>4
<1>3. ASSUME NEW id \in SendIds, Wallet!MarkSent(id) \/ Wallet!MarkFailed(id) PROVE Settled
  BY <1>2, <1>3 DEF Wallet!MarkSent, Wallet!MarkFailed
<1>4. CASE Wallet!WalletNext
  BY <1>1, <1>3, <1>4
     DEF Wallet!WalletNext, Wallet!Deposit, Wallet!Withdraw, Wallet!AdjustBalance
<1>5. CASE UNCHANGED walletVars
  BY <1>5 DEF walletVars
<1> QED
  BY <1>4, <1>5 DEF ExchangeNext, Crash, exchangeVars

\* A simulated send is settled once, SENT or FAILED: however two admins' requests and
\* the user's race, a settled send never changes again.
THEOREM SettledSendsStayHolds == ExchangeSpec => SettledSendsStay
<1>1. ExchangeInit => SendTable
  BY DEF ExchangeInit, Wallet!WalletInit, SendTable
<1>2. ASSUME SendTable, [ExchangeNext]_exchangeVars PROVE SendTable'
  <2>1. CASE sends' = sends
    BY <1>2, <2>1 DEF SendTable
  <2>2. ASSUME NEW id \in SendIds, NEW r \in Wallet!SendRows, sends' = [sends EXCEPT ![id] = r]
        PROVE  SendTable'
    BY <1>2, <2>2 DEF SendTable
  <2> QED
    BY <1>2, <2>1, <2>2, SendCases
<1>3. ASSUME SendTable, [ExchangeNext]_exchangeVars
      PROVE  [\A id \in SendIds : sends[id] # Nil =>
                  \/ sends'[id] = sends[id]
                  \/ sends[id].status = "PENDING" /\ sends'[id] = [sends[id] EXCEPT !.status = sends'[id].status]
             ]_sends
  <2>1. CASE sends' = sends
    BY <2>1
  <2>2. ASSUME NEW i \in SendIds, NEW r \in Wallet!SendRows, sends' = [sends EXCEPT ![i] = r],
               \/ sends[i] = Nil
               \/ sends[i] # Nil /\ sends[i].status = "PENDING" /\ r = [sends[i] EXCEPT !.status = r.status],
               NEW id \in SendIds, sends[id] # Nil
        PROVE  \/ sends'[id] = sends[id]
               \/ sends[id].status = "PENDING" /\ sends'[id] = [sends[id] EXCEPT !.status = sends'[id].status]
    <3>1. sends'[id] = IF id = i THEN r ELSE sends[id]
      BY <1>3, <2>2 DEF SendTable
    <3> QED
      BY <2>2, <3>1
  <2> QED
    BY <1>3, <2>1, <2>2, SendCases
<1> QED
  BY <1>1, <1>2, <1>3, PTL DEF ExchangeSpec, SettledSendsStay
=============================================================================
