--------------------------- MODULE StakingProofs ---------------------------
(***************************************************************************)
(* Proofs about staking, for any plans' amounts, clocks and numbers of      *)
(* requests.                                                                *)
(***************************************************************************)
EXTENDS Staking, LedgerProofs

\* What a request carries, and what a row says, of the two readings of the clock.
RequestInv ==
    \A h \in StakeHandlers : staking[h] # Nil =>
        LET r == staking[h]
        IN  /\ r.since <= clock /\ clock <= r.since + MaxWait
            /\ r.matures_at = r.since + r.days * Day

RowInv ==
    \A id \in StakeIds : Staked(id) =>
        LET s == stakes[id]
        IN  /\ s.staked_at <= clock
            /\ s.matures_at + MaxWait >= s.staked_at + s.days * Day

\* Interest is claimed when a stake closes, not before.
ClaimedLater == \A id \in StakeIds : Staked(id) /\ ~Closed(id) => stakes[id].claimed = 0

StakeInv ==
    StakingTypeOK /\ RequestInv /\ RowInv /\ ClaimedLater /\ StakePaidOnce /\ TermServed

-----------------------------------------------------------------------------
(* The plans.                                                               *)

LEMMA DailyRateNat ==
    ASSUME NEW days \in DOMAIN Plans, NEW amount \in Nat, MinStake <= amount
    PROVE  DailyRate(days, amount) \in Nat
<1> DEFINE reached(i) == amount >= Usdt(BracketMins[i])
<1>1. DOMAIN BracketMins = {1, 2, 3}
  BY DEF BracketMins
<1>2. reached(1)
  BY DEF MinStake, BracketMins
<1>3. \E i \in DOMAIN BracketMins : reached(i) /\ \A j \in DOMAIN BracketMins : reached(j) => j <= i
  <2> HIDE DEF reached
  <2>1. CASE reached(3)
    BY <1>1, <2>1
  <2>2. CASE ~reached(3) /\ reached(2)
    BY <1>1, <2>2
  <2>3. CASE ~reached(3) /\ ~reached(2)
    BY <1>1, <1>2, <2>3
  <2> QED BY <2>1, <2>2, <2>3
<1>4. BracketOf(amount) \in {1, 2, 3}
  BY <1>1, <1>3 DEF BracketOf
<1>5. /\ DOMAIN Plans = {7, 30, 90, 180, 365}
      /\ \A i \in {1, 2, 3} : Plans[days][i] \in Nat
  BY DEF Plans
<1> QED BY <1>4, <1>5 DEF DailyRate

LEMMA InterestNat ==
    ASSUME NEW principal \in Nat, NEW rate \in Nat, NEW days \in Nat
    PROVE  Interest(principal, rate, days) \in Nat
<1>1. principal * rate * days \in Nat
  BY TimesNat
<1>2. Scale * Grid \in Nat \ {0}
  BY ScaleAssumption, Z3
<1>3. RateScale * Scale * Grid \in Nat \ {0}
  BY <1>2, ScaleAssumption, RateScale * Scale * Grid = 10000 * (Scale * Grid) DEF RateScale
<1>4. RoundTo(principal * rate * days, RateScale * Scale * Grid) \in Nat
  BY <1>1, <1>3, RoundToNat
<1> QED BY <1>4, DivIsNat DEF Interest, RateScale

\* Time that reaches k whole days counts k of them at least.
LEMMA WholeDays ==
    ASSUME NEW x \in Nat, NEW k \in Int, x >= k * Day
    PROVE  x \div Day >= k
<1> DEFINE q == x \div Day
<1>1. q \in Nat /\ x < Day * q + Day
  BY DivIsNat, StakingAssumption
<1> HIDE DEF q
<1>2. SUFFICES ASSUME q < k PROVE FALSE
  BY <1>1 DEF q
<1>3. k - (q + 1) \in Nat /\ Day \in Nat
  BY <1>1, <1>2, StakingAssumption
<1>4. Day * (k - (q + 1)) \in Nat
  BY <1>3, TimesNat
<1>5. Day * (k - (q + 1)) = k * Day - Day * q - Day
  BY <1>1, <1>3, Z3
<1> QED BY <1>1, <1>3, <1>4, <1>5, TimesNat

\* computeAccrued never counts more than the term, and no less than it or a day short
\* of it for who comes at his maturity.
LEMMA ElapsedNat ==
    ASSUME StakeInv, NEW s \in StakeRows, s.staked_at <= clock
    PROVE  DaysElapsed(s) \in Nat /\ DaysElapsed(s) <= s.days
<1>1. clock - s.staked_at \in Nat /\ s.days \in Nat
  BY StakingAssumption DEF StakeInv, StakingTypeOK, StakeRows
<1> DEFINE elapsed == (clock - s.staked_at) \div Day
<1>2. elapsed \in Nat
  BY <1>1, DivIsNat, StakingAssumption
<1>3. DaysElapsed(s) = IF elapsed <= s.days THEN elapsed ELSE s.days
  BY DEF DaysElapsed
<1> HIDE DEF elapsed
<1> QED BY <1>1, <1>2, <1>3

LEMMA ElapsedAtMaturity ==
    ASSUME StakeInv, NEW s \in StakeRows, s.staked_at <= clock, Matured(s), MaxWait < Day,
           s.matures_at + MaxWait >= s.staked_at + s.days * Day
    PROVE  DaysElapsed(s) \in {s.days, s.days - 1}
<1>1. clock - s.staked_at \in Nat /\ s.days \in Nat /\ s.staked_at \in Nat
      /\ s.matures_at \in Nat /\ clock \in Nat
  BY StakingAssumption DEF StakeInv, StakingTypeOK, StakeRows
<1>2. s.days * Day \in Nat /\ (s.days - 1) * Day = s.days * Day - Day
  BY <1>1, TimesNat, StakingAssumption
<1>3. clock - s.staked_at >= (s.days - 1) * Day
  BY <1>1, <1>2, StakingAssumption DEF Matured
<1>4. (clock - s.staked_at) \div Day >= s.days - 1
  BY <1>1, <1>3, WholeDays
<1>5. (clock - s.staked_at) \div Day \in Nat
  BY <1>1, DivIsNat, StakingAssumption
<1> DEFINE elapsed == (clock - s.staked_at) \div Day
<1>6. DaysElapsed(s) = IF elapsed <= s.days THEN elapsed ELSE s.days
  BY DEF DaysElapsed
<1> HIDE DEF elapsed
<1> QED BY <1>1, <1>4, <1>5, <1>6 DEF elapsed

-----------------------------------------------------------------------------
(* The invariant.                                                           *)

LEMMA StakeInvInit == StakingInit => StakeInv
<1> SUFFICES ASSUME StakingInit PROVE StakeInv
  OBVIOUS
<1>1. \A id \in StakeIds : payouts[id] = <<>> /\ ~Staked(id)
  BY DEF StakingInit, Staked
<1>2. StakingTypeOK
  BY StakingAssumption DEF StakingInit, StakingTypeOK
<1>3. RequestInv /\ RowInv /\ ClaimedLater
  BY <1>1 DEF StakingInit, RequestInv, RowInv, ClaimedLater
<1>4. StakePaidOnce /\ TermServed
  BY <1>1 DEF StakePaidOnce, TermServed, Closed
<1> QED BY <1>2, <1>3, <1>4 DEF StakeInv

\* A step that leaves rows and payouts alone.
LEMMA RowsKept ==
    ASSUME StakeInv, UNCHANGED <<stakes, payouts>>, clock' \in Nat, clock <= clock'
    PROVE  RowInv' /\ ClaimedLater' /\ StakePaidOnce' /\ TermServed'
<1>1. RowInv'
  <2>1. SUFFICES ASSUME NEW id \in StakeIds, Staked(id)
                 PROVE  stakes[id].staked_at <= clock'
    BY DEF StakeInv, RowInv, Staked
  <2>2. stakes[id].staked_at \in Nat /\ stakes[id].staked_at <= clock /\ clock \in Nat
    BY <2>1, StakingAssumption DEF StakeInv, RowInv, StakingTypeOK, StakeRows, Staked
  <2> QED BY <2>2
<1>2. StakePaidOnce' /\ TermServed' /\ ClaimedLater'
  BY DEF StakeInv, StakePaidOnce, TermServed, ClaimedLater, Staked, Closed
<1> QED BY <1>1, <1>2

LEMMA BeginStakeStep ==
    ASSUME StakeInv, NEW h \in StakeHandlers, BeginStake(h)
    PROVE  StakeInv'
<1>1. PICK u \in Users, amount \in StakeAmounts, days \in StakeTerms :
          /\ MinStake <= amount /\ days \in DOMAIN Plans
          /\ staking' = [staking EXCEPT ![h] =
               [user |-> u, amount |-> amount, days |-> days, rate |-> DailyRate(days, amount),
                matures_at |-> clock + days * Day, since |-> clock]]
  BY DEF BeginStake
<1> DEFINE r == [user |-> u, amount |-> amount, days |-> days, rate |-> DailyRate(days, amount),
                 matures_at |-> clock + days * Day, since |-> clock]
<1>2. amount \in Nat /\ days \in Nat /\ clock \in Nat /\ days * Day \in Nat
  BY StakingAssumption, TimesNat DEF StakeInv, StakingTypeOK
<1>3. r \in StakeRequests
  BY <1>1, <1>2, DailyRateNat DEF StakeRequests
<1>4. UNCHANGED <<tier, stakes, payouts, clock>>
  BY DEF BeginStake
<1>5. StakingTypeOK'
  BY <1>1, <1>3, <1>4 DEF StakeInv, StakingTypeOK
<1>6. r.since <= clock /\ clock <= r.since + MaxWait /\ r.matures_at = r.since + r.days * Day
  BY <1>2, StakingAssumption
<1> HIDE DEF r
<1>7. RequestInv'
  BY <1>1, <1>4, <1>6 DEF r, StakeInv, StakingTypeOK, RequestInv
<1>8. clock' \in Nat /\ clock <= clock'
  BY <1>2, <1>4
<1> QED BY <1>4, <1>5, <1>7, <1>8, RowsKept DEF StakeInv

LEMMA InsertStakeStep ==
    ASSUME StakeInv, NEW h \in StakeHandlers, InsertStake(h)
    PROVE  StakeInv'
<1> DEFINE r  == staking[h]
           id == NextStake
           s  == [user |-> r.user, principal |-> StoredAmount(r.amount), days |-> r.days,
                  rate |-> r.rate, staked_at |-> clock, matures_at |-> r.matures_at,
                  claimed |-> 0, status |-> "ACTIVE"]
<1>1. id \in StakeIds /\ stakes[id] = Nil
  BY DEF InsertStake, NextStake, FreshStakes
<1>2. /\ stakes' = [stakes EXCEPT ![id] = s]
      /\ staking' = [staking EXCEPT ![h] = Nil]
      /\ UNCHANGED <<tier, payouts, clock>>
  BY DEF InsertStake
<1>3. r \in StakeRequests
  BY DEF InsertStake, StakeInv, StakingTypeOK
<1>4. /\ r.amount \in Nat /\ r.days \in Nat /\ r.since \in Nat /\ clock \in Nat
      /\ MaxWait \in Nat /\ r.days * Day \in Nat
  <2>1. r.amount \in Nat /\ r.days \in Nat /\ r.since \in Nat
    BY <1>3, StakingAssumption DEF StakeRequests
  <2> HIDE DEF r
  <2>2. clock \in Nat /\ MaxWait \in Nat /\ Day \in Nat
    BY StakingAssumption DEF StakeInv, StakingTypeOK
  <2> QED BY <2>1, <2>2, TimesNat
<1>5. s \in StakeRows
  BY <1>3, <1>4, StoredAmountNat DEF StakeRequests, StakeRows
<1>6. /\ s.staked_at = clock
      /\ s.matures_at + MaxWait >= s.staked_at + s.days * Day
  BY <1>4 DEF InsertStake, StakeInv, RequestInv
<1>7. s.status = "ACTIVE" /\ s.claimed = 0
  OBVIOUS
<1> HIDE DEF r, id, s
<1>8. StakingTypeOK'
  BY <1>1, <1>2, <1>5 DEF StakeInv, StakingTypeOK
<1>9. RequestInv'
  BY <1>2 DEF StakeInv, StakingTypeOK, RequestInv
<1>10. \A i \in StakeIds : stakes'[i] = IF i = id THEN s ELSE stakes[i]
  BY <1>1, <1>2 DEF StakeInv, StakingTypeOK
<1>11. RowInv'
  BY <1>2, <1>4, <1>6, <1>10 DEF StakeInv, RowInv, Staked
<1>12. payouts[id] = <<>> /\ payouts' = payouts
  BY <1>1, <1>2 DEF StakeInv, StakePaidOnce, Closed, Staked
<1>13. StakePaidOnce' /\ TermServed'
  BY <1>7, <1>10, <1>12 DEF StakeInv, StakePaidOnce, TermServed, Closed, Staked
<1>14. ClaimedLater'
  BY <1>7, <1>10 DEF StakeInv, ClaimedLater, Closed, Staked
<1> QED BY <1>8, <1>9, <1>11, <1>13, <1>14 DEF StakeInv

LEMMA WithdrawStakeStep ==
    ASSUME StakeInv, NEW u \in Users, NEW id \in StakeIds, WithdrawStake(u, id)
    PROVE  StakeInv'
<1> DEFINE s        == stakes[id]
           interest == Interest(s.principal, s.rate, DaysElapsed(s))
           p        == [principal |-> s.principal, interest |-> interest,
                        total |-> s.principal + interest, at |-> clock]
           closed   == [s EXCEPT !.status = "CLOSED", !.claimed = interest]
<1>1. s \in StakeRows /\ s.status = "ACTIVE" /\ Matured(s) /\ Staked(id)
  BY DEF WithdrawStake, Withdrawable, StakeInv, StakingTypeOK, Staked
<1>2. /\ stakes' = [stakes EXCEPT ![id] = closed]
      /\ payouts' = [payouts EXCEPT ![id] = Append(@, p)]
      /\ UNCHANGED <<tier, staking, clock>>
  BY DEF WithdrawStake, StakeInv, StakingTypeOK
<1>3. s.staked_at <= clock /\ s.matures_at + MaxWait >= s.staked_at + s.days * Day
  BY <1>1 DEF StakeInv, RowInv
<1>4. interest \in Nat
  <2>1. s.principal \in Nat /\ s.rate \in Nat
    BY <1>1 DEF StakeRows
  <2>2. DaysElapsed(s) \in Nat
    BY <1>1, <1>3, ElapsedNat
  <2> QED BY <2>1, <2>2, InterestNat
<1>5. MaxWait < Day => interest \in {Interest(s.principal, s.rate, s.days),
                                   Interest(s.principal, s.rate, s.days - 1)}
  BY <1>1, <1>3, ElapsedAtMaturity
<1>6. closed \in StakeRows
  BY <1>1, <1>4 DEF StakeRows
<1>7. p \in PayoutRows /\ p.principal = s.principal /\ p.interest = interest /\ p.at = clock
  <2>1. s.principal \in Nat /\ clock \in Nat
    BY <1>1, StakingAssumption DEF StakeInv, StakingTypeOK, StakeRows
  <2> HIDE DEF s, interest
  <2> QED BY <1>4, <2>1 DEF PayoutRows
<1>8. /\ closed.status = "CLOSED" /\ closed.claimed = interest
      /\ \A f \in {"principal", "days", "rate", "staked_at", "matures_at"} : closed[f] = s[f]
  BY <1>1 DEF StakeRows
<1>9. payouts[id] = <<>>
  BY <1>1 DEF StakeInv, StakePaidOnce, Closed
<1>10. /\ \A i \in StakeIds : stakes'[i] = IF i = id THEN closed ELSE stakes[i]
       /\ \A i \in StakeIds : i # id => payouts'[i] = payouts[i]
       /\ payouts'[id] = Append(payouts[id], p)
  BY <1>2 DEF StakeInv, StakingTypeOK
<1>11. Len(payouts'[id]) = 1 /\ payouts'[id][1] = p
  BY <1>9, <1>10
<1>12. Staked(id)'
  BY <1>6, <1>10, NilAssumption DEF Staked
<1>13. clock >= s.matures_at
  BY <1>1 DEF Matured
<1> HIDE DEF s, interest, p, closed
<1>14. StakingTypeOK'
  BY <1>2, <1>6, <1>7 DEF StakeInv, StakingTypeOK
<1>15. RequestInv'
  BY <1>2 DEF StakeInv, RequestInv
<1>16. RowInv'
  BY <1>2, <1>3, <1>8, <1>10 DEF StakeInv, RowInv, Staked
<1>17. StakePaidOnce'
  <2>1. SUFFICES ASSUME NEW i \in StakeIds
                 PROVE  IF Closed(i)'
                        THEN /\ Len(payouts'[i]) = 1
                             /\ payouts'[i][1].principal = stakes'[i].principal
                             /\ payouts'[i][1].interest = stakes'[i].claimed
                        ELSE payouts'[i] = <<>>
    BY DEF StakePaidOnce
  <2>2. CASE i # id
    BY <1>10, <2>2 DEF StakeInv, StakePaidOnce, Closed, Staked
  <2>3. CASE i = id
    BY <1>7, <1>8, <1>10, <1>11, <1>12, <2>3 DEF Closed
  <2> QED BY <2>2, <2>3
<1>18. TermServed'
  <2>1. SUFFICES ASSUME NEW i \in StakeIds, Closed(i)'
                 PROVE  LET t == stakes'[i]
                            q == payouts'[i][1]
                        IN  /\ q.at >= t.matures_at
                            /\ t.matures_at + MaxWait >= t.staked_at + t.days * Day
                            /\ MaxWait < Day =>
                                 q.interest \in {Interest(t.principal, t.rate, t.days),
                                                Interest(t.principal, t.rate, t.days - 1)}
    BY DEF TermServed
  <2>2. CASE i # id
    BY <1>10, <2>1, <2>2 DEF StakeInv, TermServed, Closed, Staked
  <2>3. CASE i = id
    BY <1>3, <1>5, <1>7, <1>8, <1>10, <1>11, <1>13, <2>3
  <2> QED BY <2>2, <2>3
<1>19. ClaimedLater'
  BY <1>8, <1>10, <1>12 DEF StakeInv, ClaimedLater, Closed, Staked
<1> QED BY <1>14, <1>15, <1>16, <1>17, <1>18, <1>19 DEF StakeInv

LEMMA StakeInvNext == StakeInv /\ [StakingNext]_stakingVars => StakeInv'
<1> SUFFICES ASSUME StakeInv, [StakingNext]_stakingVars PROVE StakeInv'
  OBVIOUS
<1>1. ASSUME NEW h \in StakeHandlers, BeginStake(h) PROVE StakeInv'
  BY <1>1, BeginStakeStep
<1>2. ASSUME NEW h \in StakeHandlers, InsertStake(h) PROVE StakeInv'
  BY <1>2, InsertStakeStep
<1>3. ASSUME NEW h \in StakeHandlers, DropStake(h) PROVE StakeInv'
  <2>1. UNCHANGED <<tier, stakes, payouts, clock>> /\ clock \in Nat
    BY <1>3, StakingAssumption DEF DropStake, StakeInv, StakingTypeOK
  <2>2. staking' = [staking EXCEPT ![h] = Nil]
    BY <1>3 DEF DropStake
  <2>3. StakingTypeOK' /\ RequestInv'
    BY <2>1, <2>2 DEF StakeInv, StakingTypeOK, RequestInv
  <2> QED BY <2>1, <2>3, RowsKept DEF StakeInv
<1>4. ASSUME NEW u \in Users, NEW id \in StakeIds, WithdrawStake(u, id) PROVE StakeInv'
  BY <1>4, WithdrawStakeStep
<1>5. ASSUME NEW u \in Users, NEW level \in Tiers, SetTier(u, level) PROVE StakeInv'
  <2>1. UNCHANGED <<stakes, payouts, staking, clock>> /\ clock \in Nat
    BY <1>5, StakingAssumption DEF SetTier, StakeInv, StakingTypeOK
  <2>2. StakingTypeOK' /\ RequestInv'
    BY <1>5, <2>1 DEF SetTier, StakeInv, StakingTypeOK, RequestInv
  <2> QED BY <2>1, <2>2, RowsKept DEF StakeInv
<1>6. CASE Tick
  <2>1. UNCHANGED <<tier, stakes, payouts, staking>> /\ clock' <= MaxTime
    BY <1>6 DEF Tick
  <2>2. clock \in Nat /\ clock' \in Nat /\ clock <= clock'
    BY <1>6, StakingAssumption DEF Tick, StakeInv, StakingTypeOK
  <2>3. StakingTypeOK'
    BY <2>1, <2>2, StakingAssumption DEF StakeInv, StakingTypeOK
  <2>4. RequestInv'
    <3>1. SUFFICES ASSUME NEW h \in StakeHandlers, staking[h] # Nil
                   PROVE  staking[h].since <= clock' /\ clock' <= staking[h].since + MaxWait
      BY <2>1 DEF StakeInv, RequestInv
    <3>2. staking[h].since \in Nat
      BY <3>1 DEF StakeInv, StakingTypeOK, StakeRequests
    <3> QED BY <1>6, <2>2, <3>1, <3>2 DEF Tick, StakeInv, RequestInv
  <2> QED BY <2>1, <2>2, <2>3, <2>4, RowsKept DEF StakeInv
<1>7. CASE UNCHANGED stakingVars
  <2>1. UNCHANGED <<tier, stakes, payouts, staking, clock>> /\ clock \in Nat
    BY <1>7, StakingAssumption DEF stakingVars, StakeInv, StakingTypeOK
  <2>2. StakingTypeOK' /\ RequestInv'
    BY <2>1 DEF StakeInv, StakingTypeOK, RequestInv
  <2> QED BY <2>1, <2>2, RowsKept DEF StakeInv
<1> QED BY <1>1, <1>2, <1>3, <1>4, <1>5, <1>6, <1>7 DEF StakingNext

-----------------------------------------------------------------------------
(* The books.  The USDT wallet moves by what the one stake a step is about  *)
(* brings more, or less, than before.                                       *)

Yields(u) == [id \in StakeIds |-> Yield(id, u)]

LEMMA YieldsChange ==
    ASSUME StakingTypeOK, StakingTypeOK', NEW u, NEW id \in StakeIds,
           \A i \in StakeIds \ {id} : stakes'[i] = stakes[i]
    PROVE  /\ SumFunction(Yields(u))' = SumFunction(Yields(u)) + Yield(id, u)' - Yield(id, u)
           /\ SumFunction(Yields(u)) \in Int
           /\ Yield(id, u) \in Int /\ Yield(id, u)' \in Int
<1> DEFINE f == Yields(u)
           g == Yields(u)'
<1>1. /\ \A i \in StakeIds : f[i] = Yield(i, u) /\ g[i] = Yield(i, u)'
      /\ DOMAIN f = StakeIds /\ DOMAIN g = StakeIds
  BY DEF Yields
<1>2. \A i \in StakeIds : f[i] \in Int /\ g[i] \in Int
  <2>1. ASSUME NEW i \in StakeIds PROVE Yield(i, u) \in Int /\ Yield(i, u)' \in Int
    <3>1. /\ Staked(i) => stakes[i].claimed \in Nat /\ stakes[i].principal \in Nat
          /\ Staked(i)' => stakes'[i].claimed \in Nat /\ stakes'[i].principal \in Nat
      BY DEF StakingTypeOK, StakeRows, Staked
    <3> QED BY <3>1 DEF Yield
  <2> QED BY <1>1, <2>1
<1>3. \A i \in StakeIds \ {id} : g[i] = f[i]
  BY <1>1 DEF Yield, Staked, Closed
<1> HIDE DEF f, g
<1>4. /\ SumFunctionOnSet(g, StakeIds) = SumFunctionOnSet(f, StakeIds) + (g[id] - f[id])
      /\ SumFunctionOnSet(f, StakeIds) \in Int
  BY <1>2, <1>3, StakingAssumption, SumChange, SumInt
<1> QED BY <1>1, <1>2, <1>4 DEF f, g, SumFunction

Usdts == [Users -> [Assets -> Int]]

\* With exact columns a wallet moves by what is added to it.
LEMMA ExactUsdt ==
    ASSUME ExactColumns, NEW b \in Usdts, NEW v \in Users, NEW x \in Int
    PROVE  /\ Add(b, v, "USDT", x) \in Usdts
           /\ \A u \in Users : Add(b, v, "USDT", x)[u]["USDT"] =
                                   b[u]["USDT"] + (IF u = v THEN x ELSE 0)
<1>1. "USDT" \in Assets /\ \A u \in Users : b[u]["USDT"] \in Int
  BY StakingAssumption DEF Usdts
<1>2. StoredAmount(b[v]["USDT"] + x) = b[v]["USDT"] + x
  BY <1>1, ExactStored
<1>3. Add(b, v, "USDT", x) = [b EXCEPT ![v]["USDT"] = b[v]["USDT"] + x]
  BY <1>2 DEF Add
<1> QED BY <1>1, <1>3 DEF Usdts

Books == balance \in Usdts /\ StakingBooksBalance

LEMMA BooksInit == AloneInit => Books
<1> SUFFICES ASSUME AloneInit PROVE Books
  OBVIOUS
<1>1. balance \in Usdts /\ \A u \in Users : balance[u]["USDT"] = InitialBalance
  BY StakingAssumption DEF AloneInit, Usdts
<1>2. ASSUME NEW u \in Users PROVE SumFunction(Yields(u)) = 0
  <2>1. \A id \in StakeIds : Yields(u)[id] = 0
    BY DEF AloneInit, StakingInit, Yields, Yield, Staked
  <2>2. DOMAIN Yields(u) = StakeIds
    BY DEF Yields
  <2> QED BY <2>1, <2>2, StakingAssumption, SumZero DEF SumFunction
<1>3. InitialBalance + 0 = InitialBalance
  BY StakingAssumption
<1> QED BY <1>1, <1>2, <1>3 DEF Books, StakingBooksBalance, Yields

\* A step that adds to the wallet what it adds to the yield of its one stake.
LEMMA BooksKept ==
    ASSUME Books, ExactColumns, StakingTypeOK, StakingTypeOK', NEW id \in StakeIds,
           \A i \in StakeIds \ {id} : stakes'[i] = stakes[i],
           NEW v \in Users, NEW x \in Int, balance' = Add(balance, v, "USDT", x),
           \A u \in Users : Yield(id, u)' - Yield(id, u) = IF u = v THEN x ELSE 0
    PROVE  Books'
<1>1. balance' \in Usdts
  BY ExactUsdt DEF Books
<1>2. ASSUME NEW u \in Users
      PROVE  balance'[u]["USDT"] = InitialBalance + SumFunction(Yields(u))'
  <2>1. balance'[u]["USDT"] = balance[u]["USDT"] + (IF u = v THEN x ELSE 0)
    BY ExactUsdt DEF Books
  <2>2. balance[u]["USDT"] = InitialBalance + SumFunction(Yields(u))
    BY DEF Books, StakingBooksBalance, Yields
  <2>3. /\ SumFunction(Yields(u))' = SumFunction(Yields(u)) + Yield(id, u)' - Yield(id, u)
        /\ SumFunction(Yields(u)) \in Int
        /\ Yield(id, u) \in Int /\ Yield(id, u)' \in Int
    BY YieldsChange
  <2>4. InitialBalance \in Int
    BY StakingAssumption
  <2>5. Yield(id, u)' - Yield(id, u) = IF u = v THEN x ELSE 0
    OBVIOUS
  <2> QED BY <2>1, <2>2, <2>3, <2>4, <2>5
<1> QED BY <1>1, <1>2 DEF Books, StakingBooksBalance, Yields

LEMMA BooksNext ==
    ASSUME ExactColumns, StakeInv, Books, [StakingNext]_stakeVars
    PROVE  Books'
<1>1. StakeInv'
  BY StakeInvNext DEF stakeVars, stakingVars
<1>2. StakingTypeOK /\ StakingTypeOK'
  BY <1>1 DEF StakeInv
<1>3. CASE UNCHANGED <<balance, stakes>>
  BY <1>3 DEF Books, StakingBooksBalance, Yield, Staked, Closed
<1>4. ASSUME NEW h \in StakeHandlers, InsertStake(h) PROVE Books'
  <2>0. PICK id, r : id = NextStake /\ r = staking[h]
    OBVIOUS
  <2> DEFINE s  == [user |-> r.user, principal |-> StoredAmount(r.amount), days |-> r.days,
                    rate |-> r.rate, staked_at |-> clock, matures_at |-> r.matures_at,
                    claimed |-> 0, status |-> "ACTIVE"]
  <2>1. id \in StakeIds /\ stakes[id] = Nil
    BY <1>4, <2>0 DEF InsertStake, NextStake, FreshStakes
  <2>2. stakes' = [stakes EXCEPT ![id] = s] /\ balance' = Add(balance, r.user, "USDT", -r.amount)
    BY <1>4, <2>0 DEF InsertStake
  <2>3. r \in StakeRequests
    BY <1>2, <1>4, <2>0 DEF InsertStake, StakingTypeOK
  <2>4. r.amount \in Nat /\ r.user \in Users /\ -r.amount \in Int
    <3>1. r.amount \in Nat /\ r.user \in Users
      BY <2>3, StakingAssumption DEF StakeRequests
    <3>2. -r.amount \in Int
      BY <3>1
    <3> QED BY <3>1, <3>2
  <2>5. s.user = r.user /\ s.claimed = 0 /\ s.status = "ACTIVE" /\ s.principal = r.amount
    BY <2>4, ExactStored
  <2> HIDE DEF s
  <2>6. stakes'[id] = s /\ \A i \in StakeIds \ {id} : stakes'[i] = stakes[i]
    BY <1>2, <2>1, <2>2 DEF StakingTypeOK
  <2>7. s # Nil
    <3>1. r.days \in Nat /\ r.rate \in Nat /\ r.matures_at \in Nat /\ clock \in Nat
      <4>1. clock \in Nat
        BY <1>2, StakingAssumption DEF StakingTypeOK
      <4>2. r.days \in StakeTerms /\ r.rate \in Nat /\ r.matures_at \in Nat
        BY <2>3 DEF StakeRequests
      <4> QED BY <4>1, <4>2, StakingAssumption
    <3>2. s \in StakeRows
      BY <2>4, <3>1, StoredAmountNat DEF s, StakeRows
    <3> QED BY <3>2, NilAssumption
  <2>8. \A u \in Users : Yield(id, u)' - Yield(id, u) = IF u = r.user THEN -r.amount ELSE 0
    <3>1. \A u \in Users : Yield(id, u) = 0
      BY <2>1 DEF Yield, Staked
    <3>2. /\ Staked(id)' /\ ~Closed(id)'
          /\ stakes'[id].user = r.user /\ stakes'[id].claimed = 0
          /\ stakes'[id].principal = r.amount
      BY <2>5, <2>6, <2>7 DEF Staked, Closed
    <3>3. \A u \in Users : Yield(id, u)' = IF u = r.user THEN 0 - r.amount ELSE 0
      BY <3>2 DEF Yield
    <3> QED BY <2>4, <3>1, <3>3
  <2> QED BY <1>2, <2>1, <2>2, <2>4, <2>6, <2>8, BooksKept
<1>5. ASSUME NEW v \in Users, NEW id \in StakeIds, WithdrawStake(v, id) PROVE Books'
  <2> DEFINE s        == stakes[id]
             interest == Interest(s.principal, s.rate, DaysElapsed(s))
  <2>1. s \in StakeRows /\ s.status = "ACTIVE" /\ s.user = v /\ s # Nil
    BY <1>2, <1>5 DEF WithdrawStake, Withdrawable, StakingTypeOK
  <2>2. s.principal \in Nat /\ interest \in Nat /\ s.claimed = 0
    <3>1. s.principal \in Nat /\ s.rate \in Nat
      BY <2>1 DEF StakeRows
    <3>2. DaysElapsed(s) \in Nat
      BY <2>1, ElapsedNat DEF StakeInv, RowInv, Staked
    <3>3. s.claimed = 0
      BY <2>1 DEF StakeInv, ClaimedLater, Staked, Closed
    <3> QED BY <3>1, <3>2, <3>3, InterestNat
  <2>3. /\ stakes' = [stakes EXCEPT ![id].status = "CLOSED", ![id].claimed = interest]
        /\ balance' = Add(balance, v, "USDT", s.principal + interest)
    BY <1>5 DEF WithdrawStake
  <2> HIDE DEF interest
  <2>4. /\ stakes'[id].status = "CLOSED" /\ stakes'[id].claimed = interest
        /\ stakes'[id].user = v /\ stakes'[id] # Nil
        /\ \A i \in StakeIds \ {id} : stakes'[i] = stakes[i]
    <3>1. stakes'[id] = [s EXCEPT !.status = "CLOSED", !.claimed = interest]
      BY <1>2, <2>3 DEF StakingTypeOK
    <3>2. stakes'[id] \in StakeRows
      BY <2>1, <2>2, <3>1 DEF StakeRows
    <3> QED BY <1>2, <2>1, <2>3, <3>1, <3>2, NilAssumption DEF StakingTypeOK, StakeRows
  <2>5. \A u \in Users :
           Yield(id, u)' - Yield(id, u) = IF u = v THEN s.principal + interest ELSE 0
    BY <2>1, <2>2, <2>4 DEF Yield, Staked, Closed
  <2>6. s.principal + interest \in Int
    BY <2>2
  <2> QED BY <1>2, <2>3, <2>4, <2>5, <2>6, BooksKept
<1> QED
  BY <1>3, <1>4, <1>5
  DEF StakingNext, BeginStake, DropStake, SetTier, Tick, stakeVars, stakingVars

-----------------------------------------------------------------------------
(* The theorems.  Only the wallets are shared with other services, so what  *)
(* holds of staking alone holds of it beside any service that leaves its    *)
(* tables, its requests and its clock alone.                                *)

LEMMA StakingInvariant == StakingSpec => []StakeInv
<1>1. AloneInit => StakeInv
  BY StakeInvInit DEF AloneInit
<1>2. StakeInv /\ [StakingNext]_stakeVars => StakeInv'
  BY StakeInvNext DEF stakeVars, stakingVars
<1> QED BY <1>1, <1>2, PTL DEF StakingSpec

\* Requests, rows, payouts and the clock have their types, the interest that each
\* payout adds to its principal among them.
THEOREM StakingTypeCorrect == StakingSpec => []StakingTypeOK
<1>1. StakeInv => StakingTypeOK
  BY DEF StakeInv
<1> QED BY <1>1, StakingInvariant, PTL

\* However many withdrawals of one stake are sent, and whatever dies between a
\* request and its transaction, a stake is paid out once, as its row says.
THEOREM StakesPaidOnce == StakingSpec => []StakePaidOnce
<1>1. StakeInv => StakePaidOnce
  BY DEF StakeInv
<1> QED BY <1>1, StakingInvariant, PTL

\* Nobody leaves before his term, and who leaves has earned all of its days or one
\* less, for every wait for a connection that is shorter than a day.
THEOREM TermsServed == StakingSpec => []TermServed
<1>1. StakeInv => TermServed
  BY DEF StakeInv
<1> QED BY <1>1, StakingInvariant, PTL

\* No interleaving of stakes and withdrawals makes or loses money: as long as every
\* value fits its column, the USDT wallets are what they were at first, the principals
\* of the active stakes less, the interest of the closed ones more.
THEOREM StakingBooks ==
    ASSUME ExactColumns
    PROVE  StakingSpec => []StakingBooksBalance
<1>1. AloneInit => Books
  BY BooksInit
<1>2. StakeInv /\ Books /\ [StakingNext]_stakeVars => Books'
  BY BooksNext
<1>3. Books => StakingBooksBalance
  BY DEF Books
<1> QED BY <1>1, <1>2, <1>3, StakingInvariant, PTL DEF StakingSpec
=============================================================================
