------------------------------ MODULE Staking ------------------------------
(***************************************************************************)
(* Staking USDT for a fixed term (src/services/stakingService.js) and the   *)
(* admin's control of the account tier that limits it (src/routes/admin.js).*)
(*                                                                          *)
(* stake() decides first and writes later: it reads the tier, checks the    *)
(* limits and stamps matures_at by the process's clock, then waits for a    *)
(* connection, and the transaction it begins stamps staked_at by NOW().     *)
(* withdrawStake() is one transaction, decided under the stake's row lock.  *)
(***************************************************************************)
EXTENDS Ledger, Sequences, FiniteSets, Functions

CONSTANTS
    Users, Assets,
    Tiers,          \* account tiers in use: 1, and 2 where admins raise it
    StakeAmounts,   \* amounts a request may name
    StakeTerms,     \* durations a request may name, in days
    StakeIds,       \* ids the stakes table may hand out (bounds the runs)
    StakeHandlers,  \* stake requests in flight at once
    Day,            \* ticks of the clock in a day
    ClockSteps,     \* how far the clock may move at once
    MaxWait,        \* ticks pool.connect() may take: connectionTimeoutMillis
    MaxTime,        \* the clock stops here (bounds the runs)
    InitialBalance, \* what every wallet holds at the start
    Nil             \* no stake, no request

ASSUME StakingAssumption ==
    /\ "USDT" \in Assets /\ 1 \in Tiers /\ Tiers \subseteq {1, 2}
    /\ StakeAmounts \subseteq Nat \ {0} /\ StakeTerms \subseteq Nat
    /\ InitialBalance \in Nat /\ Day \in Nat \ {0} /\ ClockSteps \subseteq Nat \ {0}
    /\ MaxWait \in Nat /\ MaxTime \in Nat
    /\ IsFiniteSet(StakeIds)

VARIABLES
    balance,   \* wallets.balance
    tier,      \* users.tier
    stakes,    \* the stakes table, Nil for an id not yet given out
    payouts,   \* stake_withdrawals: the rows of each stake, oldest first
    staking,   \* what each stake request carries to its transaction
    clock      \* the time, in ticks

stakingVars == <<tier, stakes, payouts, staking, clock>>

-----------------------------------------------------------------------------
(* The plans: limits in USDT, daily rates in parts of RateScale.            *)

RateScale == 10000
Usdt(x)   == x * Scale * Scale

MinStake        == Usdt(500)
MaxStake(level) == IF level = 2 THEN Usdt(12000) ELSE Usdt(6000)

BracketMins == <<500, 1000, 10000>>
Plans == [d \in {7, 30, 90, 180, 365} |->
            CASE d = 7   -> <<180, 34, 45>>
              [] d = 30  -> <<180, 68, 90>>
              [] d = 90  -> <<180, 101, 135>>
              [] d = 180 -> <<180, 135, 158>>
              [] d = 365 -> <<180, 158, 180>>]

\* tierIndexForAmount: the last bracket the amount reaches.
BracketOf(amount) ==
    CHOOSE i \in DOMAIN BracketMins :
        /\ amount >= Usdt(BracketMins[i])
        /\ \A j \in DOMAIN BracketMins : amount >= Usdt(BracketMins[j]) => j <= i

DailyRate(days, amount) == Plans[days][BracketOf(amount)]

\* What the interest columns keep of principal * rate * days.
Interest(principal, rate, days) ==
    RoundTo(principal * rate * days, RateScale * Scale * Grid) \div RateScale

-----------------------------------------------------------------------------
StakeRows == [user : Users, principal : Nat, days : Nat, rate : Nat, staked_at : Nat,
              matures_at : Nat, claimed : Nat, status : {"ACTIVE", "CLOSED"}]
PayoutRows == [principal : Nat, interest : Nat, total : Nat, at : Nat]
StakeRequests == [user : Users, amount : StakeAmounts, days : StakeTerms, rate : Nat,
                  matures_at : Nat, since : Nat]

ASSUME NilAssumption == Nil \notin StakeRows

StakingTypeOK ==
    /\ tier \in [Users -> Tiers]
    /\ stakes \in [StakeIds -> StakeRows \cup {Nil}]
    /\ payouts \in [StakeIds -> Seq(PayoutRows)]
    /\ staking \in [StakeHandlers -> StakeRequests \cup {Nil}]
    /\ clock \in 0..MaxTime

StakingInit ==
    /\ tier = [u \in Users |-> 1]
    /\ stakes = [id \in StakeIds |-> Nil]
    /\ payouts = [id \in StakeIds |-> <<>>]
    /\ staking = [h \in StakeHandlers |-> Nil]
    /\ clock = 0

FreshStakes == {id \in StakeIds : stakes[id] = Nil}
NextStake   == CHOOSE id \in FreshStakes : TRUE

\* stake() up to pool.connect(): limits, rate and maturity.
BeginStake(h) ==
    /\ staking[h] = Nil
    /\ \E u \in Users, amount \in StakeAmounts, days \in StakeTerms :
          /\ MinStake <= amount /\ amount <= MaxStake(tier[u])
          /\ days \in DOMAIN Plans
          /\ staking' = [staking EXCEPT ![h] =
               [user |-> u, amount |-> amount, days |-> days, rate |-> DailyRate(days, amount),
                matures_at |-> clock + days * Day, since |-> clock]]
    /\ UNCHANGED <<balance, tier, stakes, payouts, clock>>

\* The balance under the wallet's row lock.  (Mutant: checked before the lock.)
CoversStakeUnchecked(u, amount) == TRUE
CoversStake(u, amount)          == balance[u]["USDT"] >= amount

\* stake()'s transaction: take the principal and insert the row, staked NOW().
InsertStake(h) ==
    /\ staking[h] # Nil
    /\ FreshStakes # {}
    /\ LET r == staking[h]
       IN  /\ CoversStake(r.user, r.amount)
           /\ balance' = Add(balance, r.user, "USDT", -r.amount)
           /\ stakes' = [stakes EXCEPT ![NextStake] =
                [user |-> r.user, principal |-> StoredAmount(r.amount), days |-> r.days,
                 rate |-> r.rate, staked_at |-> clock, matures_at |-> r.matures_at,
                 claimed |-> 0, status |-> "ACTIVE"]]
    /\ staking' = [staking EXCEPT ![h] = Nil]
    /\ UNCHANGED <<tier, payouts, clock>>

\* ROLLBACK: insufficient balance, no connection, or the process died.
DropStake(h) ==
    /\ staking[h] # Nil
    /\ staking' = [staking EXCEPT ![h] = Nil]
    /\ UNCHANGED <<balance, tier, stakes, payouts, clock>>

\* computeAccrued: whole days since staked_at, at most the term.  (Mutant: no cap.)
DaysElapsedUncapped(s) == (clock - s.staked_at) \div Day
DaysElapsed(s) ==
    LET elapsed == (clock - s.staked_at) \div Day
    IN  IF elapsed <= s.days THEN elapsed ELSE s.days

\* matured, as withdrawStake decides it.
Matured(s) == clock >= s.matures_at

\* WHERE status = 'ACTIVE' FOR UPDATE.  (Mutant: a closed stake is found again.)
WithdrawableAgain(u, id) == stakes[id] # Nil /\ stakes[id].user = u
Withdrawable(u, id) ==
    stakes[id] # Nil /\ stakes[id].user = u /\ stakes[id].status = "ACTIVE"

WithdrawStake(u, id) ==
    /\ Withdrawable(u, id)
    /\ LET s        == stakes[id]
           interest == Interest(s.principal, s.rate, DaysElapsed(s))
           total    == s.principal + interest
       IN  /\ Matured(s)
           /\ balance' = Add(balance, u, "USDT", total)
           /\ stakes' = [stakes EXCEPT ![id].status = "CLOSED", ![id].claimed = interest]
           /\ payouts' = [payouts EXCEPT ![id] = Append(@,
                [principal |-> s.principal, interest |-> interest, total |-> total, at |-> clock])]
    /\ UNCHANGED <<tier, staking, clock>>

\* PATCH /admin/users/:id/tier.
SetTier(u, level) ==
    /\ tier[u] # level
    /\ tier' = [tier EXCEPT ![u] = level]
    /\ UNCHANGED <<balance, stakes, payouts, staking, clock>>

\* Time passes, but no request waits longer than MaxWait for its connection.
Tick ==
    /\ clock' \in {clock + step : step \in ClockSteps}
    /\ clock' <= MaxTime
    /\ \A h \in StakeHandlers : staking[h] # Nil => clock' <= staking[h].since + MaxWait
    /\ UNCHANGED <<balance, tier, stakes, payouts, staking>>

StakingNext ==
    \/ \E h \in StakeHandlers : BeginStake(h) \/ InsertStake(h) \/ DropStake(h)
    \/ \E u \in Users, id \in StakeIds : WithdrawStake(u, id)
    \/ \E u \in Users, level \in Tiers : SetTier(u, level)
    \/ Tick

stakeVars == <<balance, stakingVars>>

\* Staking without the other services.
AloneInit   == StakingInit /\ balance = [u \in Users |-> [a \in Assets |-> InitialBalance]]
StakingSpec == AloneInit /\ [][StakingNext]_stakeVars

-----------------------------------------------------------------------------
(* Properties.                                                              *)

Staked(id) == stakes[id] # Nil
Closed(id) == Staked(id) /\ stakes[id].status = "CLOSED"

\* A stake is paid out exactly once, when it closes, and its row, its payout and
\* its principal agree: withdrawStake writes the wallet, the stake and the payout
\* table, and several withdrawals of one stake may be under way.
StakePaidOnce ==
    \A id \in StakeIds :
        IF Closed(id)
        THEN /\ Len(payouts[id]) = 1
             /\ payouts[id][1].principal = stakes[id].principal
             /\ payouts[id][1].interest = stakes[id].claimed
        ELSE payouts[id] = <<>>

\* Whoever leaves has served his term to the tick, counted from the request, and
\* earned all of its days but at most one: matures_at and staked_at come from two
\* readings of the clock, and whole days are counted from the later one.
TermServed ==
    \A id \in StakeIds : Closed(id) =>
        LET s == stakes[id]
            p == payouts[id][1]
        IN  /\ p.at >= s.matures_at
            /\ s.matures_at + MaxWait >= s.staked_at + s.days * Day
            /\ MaxWait < Day =>
                 p.interest \in {Interest(s.principal, s.rate, s.days),
                                 Interest(s.principal, s.rate, s.days - 1)}

\* What stake id brought its owner u so far: its interest, less the principal it has.
Yield(id, u) ==
    IF Staked(id) /\ stakes[id].user = u
    THEN stakes[id].claimed - (IF Closed(id) THEN 0 ELSE stakes[id].principal) ELSE 0

\* The USDT wallet, the active stakes and the interest paid add up: no race of two
\* requests for one balance, or of two withdrawals of one stake, makes or loses
\* money.
StakingBooksBalance ==
    \A u \in Users :
        balance[u]["USDT"] = InitialBalance + SumFunction([id \in StakeIds |-> Yield(id, u)])
=============================================================================
