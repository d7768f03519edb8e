--------------------------- MODULE OrderTxProofs ---------------------------
(***************************************************************************)
(* Proofs about the order engine's transactions: statement by statement, on *)
(* row locks, they do what OrderEngine does in one step, and they wait for  *)
(* each other in one way only.                                              *)
(***************************************************************************)
EXTENDS OrderTx, OrderEngineProofs

-----------------------------------------------------------------------------
(* Columns that hold what a column can hold.                                *)

GridColumns == {c \in Columns(Int) : \A u \in Users, a \in Assets : StoredAmount(c[u][a]) = c[u][a]}

\* What is stored is stored unchanged.
LEMMA StoredTwice ==
    ASSUME NEW x \in Int
    PROVE  StoredAmount(StoredAmount(x)) = StoredAmount(x)
<1>1. Scale * Grid \in Nat \ {0}
  BY ScaleAssumption, Z3
<1>2. PICK g : g = Scale * Grid /\ g \in Nat \ {0}
  BY <1>1
<1>3. \A y \in Nat : RoundTo(RoundTo(y, g), g) = RoundTo(y, g) /\ RoundTo(y, g) \in Nat
  BY <1>2, RoundToIdempotent, RoundToNat
<1>4. CASE x >= 0
  BY <1>2, <1>3, <1>4 DEF StoredAmount
<1>5. CASE ~(x >= 0)
  <2>1. PICK y \in Nat : y = -x /\ ~(x >= 0) /\ -x = y
    BY <1>5
  <2>2. PICK r \in Nat : r = RoundTo(y, g) /\ RoundTo(r, g) = r
    BY <1>3
  <2>3. RoundTo(x, g) = -r
    BY <2>1, <2>2 DEF RoundTo
  <2>4. RoundTo(-r, g) = -r
    <3>1. CASE -r >= 0
      <4>1. -r = r
        BY <2>2, <3>1
      <4> QED
        BY <2>2, <4>1
    <3>2. CASE ~(-r >= 0)
      <4>1. -(-r) = r
        BY <2>2
      <4> QED
        BY <2>2, <3>2, <4>1 DEF RoundTo
    <3> QED
      BY <3>1, <3>2
  <2> QED
    BY <1>2, <2>3, <2>4 DEF StoredAmount
<1> QED
  BY <1>4, <1>5

\* An UPDATE leaves a column of that kind, changes its own cell alone, and changes
\* nothing when it adds nothing.
LEMMA AddGrid ==
    ASSUME NEW c \in GridColumns, NEW u \in Users, NEW a \in Assets, NEW x \in Int
    PROVE  /\ Add(c, u, a, x) \in GridColumns
           /\ Add(c, u, a, x)[u][a] = StoredAmount(c[u][a] + x)
           /\ \A v \in Users, b \in Assets : ~(v = u /\ b = a) => Add(c, u, a, x)[v][b] = c[v][b]
           /\ Add(c, u, a, 0) = c
<1>1. c \in Columns(Int) /\ c[u][a] \in Int /\ StoredAmount(c[u][a]) = c[u][a]
  BY DEF GridColumns, Columns
<1>2. Add(c, u, a, x) \in Columns(Int)
  BY <1>1, AddInt
<1>3. \A v \in Users, b \in Assets :
        Add(c, u, a, x)[v][b] = IF v = u /\ b = a THEN StoredAmount(c[u][a] + x) ELSE c[v][b]
  BY <1>1 DEF Add, Columns
<1>4. StoredAmount(StoredAmount(c[u][a] + x)) = StoredAmount(c[u][a] + x)
  BY <1>1, c[u][a] + x \in Int, StoredTwice
<1>5. Add(c, u, a, x) \in GridColumns
  BY <1>2, <1>3, <1>4 DEF GridColumns
<1>6. Add(c, u, a, 0) = c
  <2>1. c[u][a] + 0 = c[u][a]
    BY <1>1
  <2> QED
    BY <1>1, <2>1 DEF Add, Columns
<1> QED
  BY <1>3, <1>5, <1>6

\* Two columns are the same if their cells are.
LEMMA SameCells ==
    ASSUME NEW c \in GridColumns, NEW d \in GridColumns,
           \A u \in Users, a \in Assets : c[u][a] = d[u][a]
    PROVE  c = d
BY DEF GridColumns, Columns

-----------------------------------------------------------------------------
(* A transaction under way.  Of its statements the first k are done: fs and *)
(* hs are the columns after each of them, as if nobody else had written     *)
(* since.  The rows it has locked hold what the last of these columns do,   *)
(* and elsewhere all of them are the committed ones, b and l.               *)

Cell(c, w) == c[w[1]][w[2]]

Freed(c, s)  == Add(c, s.wallet[1], s.wallet[2], s.free)
Locked(c, s) == Add(c, s.wallet[1], s.wallet[2], s.held)

TodoIs(t, plan, k) ==
    /\ plan \in Seq(Updates) /\ t.todo \in Seq(Updates) /\ k \in 0..Len(plan)
    /\ Len(t.todo) = Len(plan) - k
    /\ \A i \in 1..Len(t.todo) : t.todo[i] = plan[k + i]

Chained(plan, k, fs, hs) ==
    /\ fs \in [0..k -> GridColumns] /\ hs \in [0..k -> GridColumns]
    /\ \A i \in 1..k : fs[i] = Freed(fs[i - 1], plan[i]) /\ hs[i] = Locked(hs[i - 1], plan[i])

RowsAre(rows, b, l, k, fs, hs) ==
    /\ DOMAIN rows \subseteq Wallets
    /\ fs[0] = b /\ hs[0] = l
    /\ \A i \in 0..k, w \in Wallets \ DOMAIN rows :
          Cell(fs[i], w) = Cell(b, w) /\ Cell(hs[i], w) = Cell(l, w)
    /\ \A w \in DOMAIN rows : rows[w] = [free |-> Cell(fs[k], w), held |-> Cell(hs[k], w)]

Guarded(plan, k, b) ==
    k > 0 /\ plan[1].needs # Nil => Cell(b, plan[1].wallet) >= plan[1].needs

Run(t, plan, b, l, k, fs, hs) ==
    /\ TodoIs(t, plan, k)
    /\ DOMAIN t.rows = {plan[i].wallet : i \in 1..k}
    /\ Chained(plan, k, fs, hs)
    /\ RowsAre(t.rows, b, l, k, fs, hs)
    /\ Guarded(plan, k, b)

Runs(t, plan, b, l) == \E k, fs, hs : Run(t, plan, b, l, k, fs, hs)

\* The columns with the rows a transaction has changed.
LEMMA UpdateParts ==
    ASSUME NEW s \in Updates
    PROVE  /\ s.wallet \in Wallets /\ s.wallet[1] \in Users /\ s.wallet[2] \in Assets
           /\ s.wallet = <<s.wallet[1], s.wallet[2]>>
           /\ s.free \in Int /\ s.held \in Int
BY DEF Updates, Wallets

\* BEGIN.
LEMMA RunStarts ==
    ASSUME NEW plan \in Seq(Updates), NEW b \in GridColumns, NEW l \in GridColumns, NEW t,
           t.todo = plan, t.rows = <<>>
    PROVE  Runs(t, plan, b, l)
<1> DEFINE fs == [i \in 0..0 |-> b]
           hs == [i \in 0..0 |-> l]
<1>1. 0..0 = {0} /\ 1..0 = {} /\ Len(plan) \in Nat
  OBVIOUS
<1>2. TodoIs(t, plan, 0)
  BY <1>1 DEF TodoIs
<1>3. DOMAIN t.rows = {}
  OBVIOUS
<1>4. Chained(plan, 0, fs, hs)
  BY <1>1 DEF Chained
<1>5. RowsAre(t.rows, b, l, 0, fs, hs)
  BY <1>1, <1>3 DEF RowsAre
<1>6. Guarded(plan, 0, b)
  BY DEF Guarded
<1>7. DOMAIN t.rows = {plan[i].wallet : i \in 1..0}
  BY <1>1, <1>3
<1> QED
  BY <1>2, <1>4, <1>5, <1>6, <1>7 DEF Runs, Run

\* Others commit, and write no row that the transaction has.
LEMMA RunKept ==
    ASSUME NEW t, NEW plan, NEW b \in GridColumns, NEW l \in GridColumns,
           NEW c \in GridColumns, NEW d \in GridColumns, Runs(t, plan, b, l),
           \A w \in DOMAIN t.rows : Cell(c, w) = Cell(b, w) /\ Cell(d, w) = Cell(l, w)
    PROVE  Runs(t, plan, c, d)
<1>1. PICK k, fs, hs : Run(t, plan, b, l, k, fs, hs)
  BY DEF Runs
<1>2. /\ plan \in Seq(Updates) /\ k \in Nat /\ k <= Len(plan) /\ TodoIs(t, plan, k)
      /\ DOMAIN t.rows = {plan[i].wallet : i \in 1..k} /\ DOMAIN t.rows \subseteq Wallets
  BY <1>1 DEF Run, TodoIs, RowsAre
<1> DEFINE Mix(f, x) == [u \in Users |-> [a \in Assets |->
                           IF <<u, a>> \in DOMAIN t.rows THEN f[u][a] ELSE x[u][a]]]
           gs == [i \in 0..k |-> Mix(fs[i], c)]
           is == [i \in 0..k |-> Mix(hs[i], d)]
<1>3. ASSUME NEW f \in GridColumns, NEW x \in GridColumns
      PROVE  /\ Mix(f, x) \in GridColumns
             /\ \A u \in Users, a \in Assets :
                   Mix(f, x)[u][a] = IF <<u, a>> \in DOMAIN t.rows THEN f[u][a] ELSE x[u][a]
  <2>1. \A u \in Users, a \in Assets :
            /\ f[u][a] \in Int /\ StoredAmount(f[u][a]) = f[u][a]
            /\ x[u][a] \in Int /\ StoredAmount(x[u][a]) = x[u][a]
    BY ONLY <1>3 DEF GridColumns, Columns
  <2>2. \A u \in Users, a \in Assets :
            Mix(f, x)[u][a] = IF <<u, a>> \in DOMAIN t.rows THEN f[u][a] ELSE x[u][a]
    BY ONLY TRUE
  <2>3. Mix(f, x) \in Columns(Int)
    BY ONLY <2>1 DEF Columns
  <2> HIDE DEF Mix
  <2>4. \A u \in Users, a \in Assets : StoredAmount(Mix(f, x)[u][a]) = Mix(f, x)[u][a]
    BY ONLY <2>1, <2>2
  <2> QED
    BY ONLY <2>2, <2>3, <2>4 DEF GridColumns
<1> HIDE DEF Mix
<1>4. ASSUME NEW x \in GridColumns, NEW y \in GridColumns,
             \A w \in DOMAIN t.rows : Cell(x, w) = Cell(y, w)
      PROVE  Mix(y, x) = x
  <2>1. ASSUME NEW u \in Users, NEW a \in Assets PROVE Mix(y, x)[u][a] = x[u][a]
    <3>1. CASE <<u, a>> \in DOMAIN t.rows
      <4>1. Cell(x, <<u, a>>) = Cell(y, <<u, a>>)
        BY <1>4, <3>1
      <4> QED
        BY <1>3, <3>1, <4>1 DEF Cell
    <3>2. CASE <<u, a>> \notin DOMAIN t.rows
      BY <1>3, <3>2
    <3> QED
      BY <3>1, <3>2
  <2> QED
    BY <1>3, <2>1, SameCells
<1>5. ASSUME NEW f \in GridColumns, NEW x \in GridColumns, NEW u \in Users, NEW a \in Assets,
             <<u, a>> \in DOMAIN t.rows, NEW y \in Int
      PROVE  Mix(Add(f, u, a, y), x) = Add(Mix(f, x), u, a, y)
  <2>1. /\ Mix(f, x) \in GridColumns /\ Add(f, u, a, y) \in GridColumns
        /\ Mix(Add(f, u, a, y), x) \in GridColumns /\ Add(Mix(f, x), u, a, y) \in GridColumns
    BY <1>3, AddGrid
  <2>2. ASSUME NEW v \in Users, NEW e \in Assets
        PROVE  Mix(Add(f, u, a, y), x)[v][e] = Add(Mix(f, x), u, a, y)[v][e]
    <3>1. CASE v = u /\ e = a
      <4>1. /\ Mix(Add(f, u, a, y), x)[u][a] = Add(f, u, a, y)[u][a]
            /\ Mix(f, x)[u][a] = f[u][a]
        BY <1>3, <1>5, <2>1
      <4>2. /\ Add(f, u, a, y)[u][a] = StoredAmount(f[u][a] + y)
            /\ Add(Mix(f, x), u, a, y)[u][a] = StoredAmount(Mix(f, x)[u][a] + y)
        BY <2>1, AddGrid
      <4> QED
        BY <3>1, <4>1, <4>2
    <3>2. CASE ~(v = u /\ e = a)
      <4>1. /\ Add(f, u, a, y)[v][e] = f[v][e]
            /\ Add(Mix(f, x), u, a, y)[v][e] = Mix(f, x)[v][e]
        BY <2>1, <3>2, AddGrid
      <4>2. /\ Mix(Add(f, u, a, y), x)[v][e]
                 = IF <<v, e>> \in DOMAIN t.rows THEN Add(f, u, a, y)[v][e] ELSE x[v][e]
            /\ Mix(f, x)[v][e] = IF <<v, e>> \in DOMAIN t.rows THEN f[v][e] ELSE x[v][e]
        BY <1>3, <2>1
      <4> QED
        BY <4>1, <4>2
    <3> QED
      BY <3>1, <3>2
  <2> QED
    BY <2>1, <2>2, SameCells
<1>6. Chained(plan, k, gs, is)
  <2>1. /\ fs \in [0..k -> GridColumns] /\ hs \in [0..k -> GridColumns]
        /\ \A i \in 1..k : fs[i] = Freed(fs[i - 1], plan[i]) /\ hs[i] = Locked(hs[i - 1], plan[i])
    BY <1>1 DEF Run, Chained
  <2>2. gs \in [0..k -> GridColumns] /\ is \in [0..k -> GridColumns]
    BY <1>3, <2>1
  <2>3. ASSUME NEW i \in 1..k
        PROVE  gs[i] = Freed(gs[i - 1], plan[i]) /\ is[i] = Locked(is[i - 1], plan[i])
    <3>1. i - 1 \in 0..k /\ i \in 0..k /\ i \in 1..Len(plan) /\ plan[i] \in Updates
      BY <1>2
    <3>2. plan[i].wallet \in DOMAIN t.rows
      BY <1>2
    <3>3. /\ Mix(Freed(fs[i - 1], plan[i]), c) = Freed(Mix(fs[i - 1], c), plan[i])
          /\ Mix(Locked(hs[i - 1], plan[i]), d) = Locked(Mix(hs[i - 1], d), plan[i])
      <4>1. fs[i - 1] \in GridColumns /\ hs[i - 1] \in GridColumns
        BY <2>1, <3>1
      <4>2. /\ plan[i].wallet[1] \in Users /\ plan[i].wallet[2] \in Assets
            /\ <<plan[i].wallet[1], plan[i].wallet[2]>> \in DOMAIN t.rows
            /\ plan[i].free \in Int /\ plan[i].held \in Int
        BY <3>1, <3>2, UpdateParts
      <4> QED
        BY <1>5, <4>1, <4>2 DEF Freed, Locked
    <3> QED
      BY <2>1, <3>1, <3>3
  <2> QED
    BY <2>2, <2>3 DEF Chained
<1>7. RowsAre(t.rows, c, d, k, gs, is)
  <2>1. /\ fs[0] = b /\ hs[0] = l /\ 0 \in 0..k /\ k \in 0..k
        /\ \A i \in 0..k : fs[i] \in GridColumns /\ hs[i] \in GridColumns
    BY <1>1, <1>2 DEF Run, Chained, RowsAre
  <2>2. gs[0] = c /\ is[0] = d
    BY <1>4, <2>1
  <2>3. ASSUME NEW i \in 0..k, NEW w \in Wallets
        PROVE  /\ Cell(gs[i], w) = IF w \in DOMAIN t.rows THEN Cell(fs[i], w) ELSE Cell(c, w)
               /\ Cell(is[i], w) = IF w \in DOMAIN t.rows THEN Cell(hs[i], w) ELSE Cell(d, w)
    <3>1. w[1] \in Users /\ w[2] \in Assets /\ w = <<w[1], w[2]>>
      BY DEF Wallets
    <3>2. fs[i] \in GridColumns /\ hs[i] \in GridColumns
      BY <2>1
    <3> QED
      BY <1>3, <3>1, <3>2 DEF Cell
  <2>4. \A w \in DOMAIN t.rows : t.rows[w] = [free |-> Cell(fs[k], w), held |-> Cell(hs[k], w)]
    BY <1>1 DEF Run, RowsAre
  <2> HIDE DEF gs, is
  <2>5. \A w \in DOMAIN t.rows : t.rows[w] = [free |-> Cell(gs[k], w), held |-> Cell(is[k], w)]
    BY <1>2, <2>1, <2>3, <2>4
  <2> QED
    BY <1>2, <2>2, <2>3, <2>5 DEF RowsAre
<1>8. Guarded(plan, k, c)
  <2>1. k > 0 => plan[1].wallet \in DOMAIN t.rows
    BY <1>2
  <2> QED
    BY <1>1, <2>1 DEF Run, Guarded
<1> QED
  BY <1>2, <1>6, <1>7, <1>8 DEF Runs, Run

\* What a statement sees of its row, and what it writes.
SeenBy(t, b, l, w) ==
    IF w \in DOMAIN t.rows THEN t.rows[w] ELSE [free |-> Cell(b, w), held |-> Cell(l, w)]

\* An UPDATE changes its own row.
LEMMA UpdatesCell ==
    ASSUME NEW c \in GridColumns, NEW s \in Updates, NEW w \in Wallets
    PROVE  /\ Cell(Freed(c, s), w) = IF w = s.wallet THEN StoredAmount(Cell(c, w) + s.free) ELSE Cell(c, w)
           /\ Cell(Locked(c, s), w) = IF w = s.wallet THEN StoredAmount(Cell(c, w) + s.held) ELSE Cell(c, w)
<1>1. PICK u \in Users, a \in Assets : w = <<u, a>>
  BY DEF Wallets
<1>2. PICK v \in Users, b \in Assets : s.wallet = <<v, b>>
  BY UpdateParts
<1>3. w = s.wallet <=> u = v /\ a = b
  BY <1>1, <1>2
<1>4. /\ Freed(c, s) = Add(c, v, b, s.free) /\ Locked(c, s) = Add(c, v, b, s.held)
      /\ s.free \in Int /\ s.held \in Int
  BY <1>2, UpdateParts DEF Freed, Locked
<1>5. \A d : Cell(d, w) = d[u][a]
  BY <1>1 DEF Cell
<1>6. ASSUME NEW x \in Int
      PROVE  Add(c, v, b, x)[u][a] = IF u = v /\ a = b THEN StoredAmount(c[u][a] + x) ELSE c[u][a]
  BY AddGrid
<1> QED
  BY <1>3, <1>4, <1>5, <1>6

\* The next UPDATE.
LEMMA RunGoesOn ==
    ASSUME NEW plan, NEW b \in GridColumns, NEW l \in GridColumns, NEW t, NEW u,
           Runs(t, plan, b, l), t.todo # <<>>, NEW s, s = Head(t.todo),
           NEW old, old = SeenBy(t, b, l, s.wallet),
           s.needs # Nil => old.free >= s.needs,
           u.todo = Tail(t.todo),
           u.rows = [w \in DOMAIN t.rows \cup {s.wallet} |->
                        IF w = s.wallet
                        THEN [free |-> StoredAmount(old.free + s.free), held |-> StoredAmount(old.held + s.held)]
                        ELSE t.rows[w]]
    PROVE  Runs(u, plan, b, l)
<1>1. PICK k, fs, hs : Run(t, plan, b, l, k, fs, hs)
  BY DEF Runs
<1>2. /\ plan \in Seq(Updates) /\ k \in Nat /\ k + 1 \in 0..Len(plan) /\ t.todo \in Seq(Updates)
      /\ Len(t.todo) = Len(plan) - k /\ \A i \in 1..Len(t.todo) : t.todo[i] = plan[k + i]
      /\ Len(t.todo) \in Nat /\ Len(t.todo) >= 1 /\ Len(plan) \in Nat
  BY <1>1 DEF Run, TodoIs
<1>3. s = plan[k + 1] /\ s \in Updates /\ u.todo \in Seq(Updates)
      /\ Len(u.todo) = Len(t.todo) - 1 /\ \A i \in 1..Len(u.todo) : u.todo[i] = t.todo[i + 1]
  BY <1>2
<1>4. TodoIs(u, plan, k + 1)
  <2>1. \A i \in 1..Len(u.todo) : i + 1 \in 1..Len(t.todo) /\ k + (i + 1) = (k + 1) + i
    <3>1. PICK n, m : n = Len(t.todo) /\ m = Len(u.todo)
      OBVIOUS
    <3>2. n \in Nat /\ n >= 1 /\ m = n - 1 /\ k \in Nat
      BY <1>2, <1>3, <3>1
    <3>3. \A i \in 1..m : i + 1 \in 1..n /\ k + (i + 1) = (k + 1) + i
      BY ONLY <3>2
    <3> QED
      BY ONLY <3>1, <3>3
  <2> QED
    BY <1>2, <1>3, <2>1 DEF TodoIs
<1>5. /\ DOMAIN t.rows = {plan[i].wallet : i \in 1..k} /\ DOMAIN t.rows \subseteq Wallets
      /\ fs \in [0..k -> GridColumns] /\ hs \in [0..k -> GridColumns] /\ fs[0] = b /\ hs[0] = l
      /\ \A i \in 1..k : fs[i] = Freed(fs[i - 1], plan[i]) /\ hs[i] = Locked(hs[i - 1], plan[i])
      /\ \A i \in 0..k, w \in Wallets \ DOMAIN t.rows :
            Cell(fs[i], w) = Cell(b, w) /\ Cell(hs[i], w) = Cell(l, w)
      /\ \A w \in DOMAIN t.rows : t.rows[w] = [free |-> Cell(fs[k], w), held |-> Cell(hs[k], w)]
  BY <1>1 DEF Run, Chained, RowsAre
<1>6. DOMAIN u.rows = DOMAIN t.rows \cup {s.wallet}
  OBVIOUS
<1>7. DOMAIN u.rows = {plan[i].wallet : i \in 1..(k + 1)}
  <2>1. \A i : i \in 1..(k + 1) <=> i \in 1..k \/ i = k + 1
    BY <1>2
  <2> QED
    BY ONLY <1>3, <1>5, <1>6, <2>1
<1>8. DOMAIN u.rows \subseteq Wallets
  BY <1>3, <1>5, <1>6, UpdateParts
<1> DEFINE gs == [i \in 0..(k + 1) |-> IF i = k + 1 THEN Freed(fs[k], s) ELSE fs[i]]
           is == [i \in 0..(k + 1) |-> IF i = k + 1 THEN Locked(hs[k], s) ELSE hs[i]]
<1>9. /\ k \in 0..k /\ fs[k] \in GridColumns /\ hs[k] \in GridColumns
      /\ Freed(fs[k], s) \in GridColumns /\ Locked(hs[k], s) \in GridColumns
  <2>1. k \in 0..k /\ fs[k] \in GridColumns /\ hs[k] \in GridColumns
    BY <1>2, <1>5
  <2> QED
    BY <1>3, <2>1, UpdateParts, AddGrid DEF Freed, Locked
<1>10. /\ gs[k + 1] = Freed(fs[k], s) /\ is[k + 1] = Locked(hs[k], s)
       /\ \A i \in 0..k : i \in 0..(k + 1) /\ gs[i] = fs[i] /\ is[i] = hs[i]
       /\ gs \in [0..(k + 1) -> GridColumns] /\ is \in [0..(k + 1) -> GridColumns]
  <2>1. \A i : i \in 0..(k + 1) <=> i \in 0..k \/ i = k + 1
    BY <1>2
  <2>2. \A i \in 0..k : i # k + 1
    BY <1>2
  <2> QED
    BY <1>5, <1>9, <2>1, <2>2
<1> HIDE DEF gs, is
<1>11. Chained(plan, k + 1, gs, is)
  <2>1. ASSUME NEW i \in 1..(k + 1)
        PROVE  gs[i] = Freed(gs[i - 1], plan[i]) /\ is[i] = Locked(is[i - 1], plan[i])
    <3>1. CASE i = k + 1
      <4>1. i - 1 = k
        BY <1>2, <3>1
      <4> QED
        BY <1>3, <1>9, <1>10, <3>1, <4>1
    <3>2. CASE i # k + 1
      <4>1. i \in 1..k /\ i \in 0..k /\ i - 1 \in 0..k
        BY <1>2, <3>2
      <4> QED
        BY <1>5, <1>10, <4>1
    <3> QED
      BY <3>1, <3>2
  <2> QED
    BY <1>10, <2>1 DEF Chained
<1>12. ASSUME NEW w \in Wallets
       PROVE  /\ Cell(Freed(fs[k], s), w)
                   = IF w = s.wallet THEN StoredAmount(Cell(fs[k], w) + s.free) ELSE Cell(fs[k], w)
              /\ Cell(Locked(hs[k], s), w)
                   = IF w = s.wallet THEN StoredAmount(Cell(hs[k], w) + s.held) ELSE Cell(hs[k], w)
  BY ONLY <1>3, <1>9, <1>12, UpdatesCell
<1>13. old = [free |-> Cell(fs[k], s.wallet), held |-> Cell(hs[k], s.wallet)] /\ s.wallet \in Wallets
  <2>1. s.wallet \in Wallets
    BY ONLY <1>3, UpdateParts
  <2>2. CASE s.wallet \in DOMAIN t.rows
    BY ONLY <1>5, <2>1, <2>2, old = SeenBy(t, b, l, s.wallet) DEF SeenBy
  <2>3. CASE s.wallet \notin DOMAIN t.rows
    <3>1. Cell(fs[k], s.wallet) = Cell(b, s.wallet) /\ Cell(hs[k], s.wallet) = Cell(l, s.wallet)
      BY ONLY <1>5, <1>9, <2>1, <2>3
    <3> QED
      BY ONLY <2>1, <2>3, <3>1, old = SeenBy(t, b, l, s.wallet) DEF SeenBy
  <2> QED
    BY ONLY <2>1, <2>2, <2>3
<1>14. RowsAre(u.rows, b, l, k + 1, gs, is)
  <2>1. gs[0] = b /\ is[0] = l
    BY <1>2, <1>5, <1>10
  <2>2. ASSUME NEW i \in 0..(k + 1), NEW w \in Wallets \ DOMAIN u.rows
        PROVE  Cell(gs[i], w) = Cell(b, w) /\ Cell(is[i], w) = Cell(l, w)
    <3>1. w \in Wallets \ DOMAIN t.rows /\ w # s.wallet
      BY <1>6
    <3>2. CASE i = k + 1
      BY <1>5, <1>9, <1>10, <1>12, <3>1, <3>2
    <3>3. CASE i # k + 1
      <4>1. i \in 0..k
        BY <1>2, <3>3
      <4> QED
        BY <1>5, <1>10, <3>1, <4>1
    <3> QED
      BY <3>2, <3>3
  <2>3. ASSUME NEW w \in DOMAIN u.rows
        PROVE  u.rows[w] = [free |-> Cell(gs[k + 1], w), held |-> Cell(is[k + 1], w)]
    <3>1. w \in Wallets
      BY <1>8
    <3>2. CASE w = s.wallet
      <4>1. u.rows[w] = [free |-> StoredAmount(old.free + s.free), held |-> StoredAmount(old.held + s.held)]
        BY <1>6, <3>2
      <4>2. /\ Cell(gs[k + 1], w) = StoredAmount(Cell(fs[k], w) + s.free)
            /\ Cell(is[k + 1], w) = StoredAmount(Cell(hs[k], w) + s.held)
        <5>1. /\ Cell(Freed(fs[k], s), w) = StoredAmount(Cell(fs[k], w) + s.free)
              /\ Cell(Locked(hs[k], s), w) = StoredAmount(Cell(hs[k], w) + s.held)
          BY ONLY <1>12, <3>1, <3>2
        <5> QED
          BY ONLY <1>10, <5>1
      <4> QED
        BY ONLY <1>13, <3>2, <4>1, <4>2
    <3>3. CASE w # s.wallet
      <4>1. w \in DOMAIN t.rows /\ u.rows[w] = t.rows[w]
        BY <1>6, <3>3
      <4>2. Cell(gs[k + 1], w) = Cell(fs[k], w) /\ Cell(is[k + 1], w) = Cell(hs[k], w)
        BY <1>10, <1>12, <3>1, <3>3
      <4> QED
        BY <1>5, <4>1, <4>2
    <3> QED
      BY <3>2, <3>3
  <2> QED
    BY <1>8, <2>1, <2>2, <2>3 DEF RowsAre
<1>15. Guarded(plan, k + 1, b)
  <2>1. CASE k = 0
    BY <1>3, <1>5, <1>13, <2>1 DEF Guarded
  <2>2. CASE k # 0
    BY <1>1, <1>2, <2>2 DEF Run, Guarded
  <2> QED
    BY <2>1, <2>2
<1> QED
  BY <1>4, <1>7, <1>11, <1>14, <1>15 DEF Runs, Run

FreeSeen(t, b, l) == [u \in Users |-> [a \in Assets |-> SeenBy(t, b, l, <<u, a>>).free]]
HeldSeen(t, b, l) == [u \in Users |-> [a \in Assets |-> SeenBy(t, b, l, <<u, a>>).held]]

Finished(t, plan, b, l) ==
    \E fs, hs :
       /\ Chained(plan, Len(plan), fs, hs) /\ fs[0] = b /\ hs[0] = l
       /\ Guarded(plan, Len(plan), b) /\ plan \in Seq(Updates)
       /\ FreeSeen(t, b, l) = fs[Len(plan)] /\ HeldSeen(t, b, l) = hs[Len(plan)]

\* COMMIT: the columns are as the statements leave them, one after the other.
LEMMA RunDone ==
    ASSUME NEW plan, NEW b \in GridColumns, NEW l \in GridColumns, NEW t,
           Runs(t, plan, b, l), t.todo = <<>>
    PROVE  Finished(t, plan, b, l)
<1>1. PICK k, fs, hs : Run(t, plan, b, l, k, fs, hs)
  BY DEF Runs
<1>2. k = Len(plan) /\ k \in Nat /\ plan \in Seq(Updates)
  BY <1>1 DEF Run, TodoIs
<1>3. fs[k] \in GridColumns /\ hs[k] \in GridColumns /\ fs[0] = b /\ hs[0] = l
  BY <1>1, <1>2 DEF Run, Chained, RowsAre
<1>4. ASSUME NEW u \in Users, NEW a \in Assets
      PROVE  /\ SeenBy(t, b, l, <<u, a>>).free = fs[k][u][a]
             /\ SeenBy(t, b, l, <<u, a>>).held = hs[k][u][a]
  <2>1. <<u, a>> \in Wallets /\ \A c : Cell(c, <<u, a>>) = c[u][a]
    BY DEF Wallets, Cell
  <2>2. CASE <<u, a>> \in DOMAIN t.rows
    <3>1. t.rows[<<u, a>>] = [free |-> Cell(fs[k], <<u, a>>), held |-> Cell(hs[k], <<u, a>>)]
      BY <1>1, <2>2 DEF Run, RowsAre
    <3> QED
      BY <2>1, <2>2, <3>1 DEF SeenBy
  <2>3. CASE <<u, a>> \notin DOMAIN t.rows
    <3>1. Cell(fs[k], <<u, a>>) = Cell(b, <<u, a>>) /\ Cell(hs[k], <<u, a>>) = Cell(l, <<u, a>>)
      BY <1>1, <1>2, <2>1, <2>3 DEF Run, RowsAre
    <3> QED
      BY <2>1, <2>3, <3>1 DEF SeenBy
  <2> QED
    BY <2>2, <2>3
<1>5. FreeSeen(t, b, l) = fs[k] /\ HeldSeen(t, b, l) = hs[k]
  <2>1. ASSUME NEW c \in GridColumns PROVE c = [u \in Users |-> [a \in Assets |-> c[u][a]]]
    BY DEF GridColumns, Columns
  <2>2. /\ [u \in Users |-> [a \in Assets |-> SeenBy(t, b, l, <<u, a>>).free]]
              = [u \in Users |-> [a \in Assets |-> fs[k][u][a]]]
        /\ [u \in Users |-> [a \in Assets |-> SeenBy(t, b, l, <<u, a>>).held]]
              = [u \in Users |-> [a \in Assets |-> hs[k][u][a]]]
    BY ONLY <1>4, Zenon
  <2> QED
    BY ONLY <1>3, <2>1, <2>2 DEF FreeSeen, HeldSeen
<1> QED
  BY <1>1, <1>2, <1>3, <1>5 DEF Run, Finished

-----------------------------------------------------------------------------
(* What the statements of the three transactions add up to.                 *)

\* An order as the services pass it on: a row, or the body of a request.
OrderLike(o) ==
    o.user \in Users /\ o.symbol \in Symbols /\ o.side \in Sides /\ o.quantity \in Nat

LEMMA UpdateIs ==
    ASSUME NEW o, o.user \in Users, NEW a \in Assets, NEW x \in Int, NEW y \in Int
    PROVE  /\ Update(o, a, x, y) \in Updates
           /\ Update(o, a, x, y).wallet = <<o.user, a>> /\ Update(o, a, x, y).needs = Nil
           /\ \A c : /\ Freed(c, Update(o, a, x, y)) = Add(c, o.user, a, x)
                     /\ Locked(c, Update(o, a, x, y)) = Add(c, o.user, a, y)
BY DEF Update, Updates, Wallets, Freed, Locked

LEMMA LockFundsIs ==
    ASSUME NEW o, o.user \in Users, LockAsset(o) \in Assets, NEW n \in Nat
    PROVE  /\ LockFunds(o, n) \in Updates /\ LockFunds(o, n).needs = n
           /\ LockFunds(o, n).wallet = <<o.user, LockAsset(o)>>
           /\ \A c : /\ Freed(c, LockFunds(o, n)) = Add(c, o.user, LockAsset(o), -n)
                     /\ Locked(c, LockFunds(o, n)) = Add(c, o.user, LockAsset(o), n)
<1>1. -n \in Int /\ n \in Int
  OBVIOUS
<1> QED
  BY <1>1 DEF LockFunds, Update, Updates, Wallets, Freed, Locked

LEMMA UpdateAdds ==
    ASSUME NEW o, o.user \in Users, NEW c \in GridColumns, NEW a \in Assets, NEW x \in Int
    PROVE  /\ Freed(c, Update(o, a, 0, x)) = c /\ Locked(c, Update(o, a, 0, x)) = Add(c, o.user, a, x)
           /\ Freed(c, Update(o, a, x, 0)) = Add(c, o.user, a, x) /\ Locked(c, Update(o, a, x, 0)) = c
           /\ Add(c, o.user, a, x) \in GridColumns
<1>1. 0 \in Int /\ 0 \in Nat
  OBVIOUS
<1>2. Add(c, o.user, a, x) \in GridColumns /\ Add(c, o.user, a, 0) = c
  BY AddGrid
<1>3. /\ Freed(c, Update(o, a, 0, x)) = Add(c, o.user, a, 0)
      /\ Locked(c, Update(o, a, 0, x)) = Add(c, o.user, a, x)
      /\ Freed(c, Update(o, a, x, 0)) = Add(c, o.user, a, x)
      /\ Locked(c, Update(o, a, x, 0)) = Add(c, o.user, a, 0)
  BY <1>1, UpdateIs
<1> QED
  BY <1>2, <1>3

\* What an order moves.
LEMMA OrderAmounts ==
    ASSUME NEW o, OrderLike(o), NEW lock \in Int, NEW at \in Nat
    PROVE  /\ QuoteAmount(o.quantity, at) \in Int /\ BaseAmount(o.quantity) \in Int /\ -lock \in Int
           /\ -BaseAmount(o.quantity) \in Int /\ lock - QuoteAmount(o.quantity, at) \in Int
           /\ Quote[o.symbol] \in Assets /\ Base[o.symbol] \in Assets /\ 0 \in Int
           /\ o.user \in Users /\ o.side \in Sides
BY AmountsNat, OrderEngineAssumption DEF OrderLike

\* The statements of settleFill.
LEMMA SettlementSteps ==
    ASSUME NEW o, OrderLike(o), NEW lock \in Int, NEW at \in Nat
    PROVE  LET s      == Settlement(o, lock, at)
               refund == lock - QuoteAmount(o.quantity, at)
               spent  == IF o.side = "BUY"
                         THEN Update(o, Quote[o.symbol], 0, -lock)
                         ELSE Update(o, Base[o.symbol], 0, -BaseAmount(o.quantity))
               gained == IF o.side = "BUY"
                         THEN Update(o, Base[o.symbol], BaseAmount(o.quantity), 0)
                         ELSE Update(o, Quote[o.symbol], QuoteAmount(o.quantity, at), 0)
           IN  /\ s \in Seq(Updates)
               /\ s[1] = spent
               /\ IF o.side = "BUY" /\ refund > 0
                  THEN /\ Len(s) = 3 /\ s[2] = Update(o, Quote[o.symbol], refund, 0) /\ s[3] = gained
                  ELSE Len(s) = 2 /\ s[2] = gained
<1>1. /\ QuoteAmount(o.quantity, at) \in Int /\ BaseAmount(o.quantity) \in Int /\ -lock \in Int
      /\ -BaseAmount(o.quantity) \in Int /\ lock - QuoteAmount(o.quantity, at) \in Int
      /\ Quote[o.symbol] \in Assets /\ Base[o.symbol] \in Assets /\ 0 \in Int
  BY OrderAmounts
<1>2. \A a \in Assets, x \in Int, y \in Int : Update(o, a, x, y) \in Updates
  BY UpdateIs DEF OrderLike
<1>3. PICK A, B, C, D, E :
          /\ A = Update(o, Quote[o.symbol], 0, -lock)
          /\ B = Update(o, Quote[o.symbol], lock - QuoteAmount(o.quantity, at), 0)
          /\ C = Update(o, Base[o.symbol], BaseAmount(o.quantity), 0)
          /\ D = Update(o, Base[o.symbol], 0, -BaseAmount(o.quantity))
          /\ E = Update(o, Quote[o.symbol], QuoteAmount(o.quantity, at), 0)
  OBVIOUS
<1>4. A \in Updates /\ B \in Updates /\ C \in Updates /\ D \in Updates /\ E \in Updates
  BY <1>1, <1>2, <1>3
<1>5. Settlement(o, lock, at)
        = IF o.side = "BUY"
          THEN IF lock - QuoteAmount(o.quantity, at) > 0 THEN <<A, B, C>> ELSE <<A, C>>
          ELSE <<D, E>>
  BY <1>3 DEF Settlement
<1> QED
  BY <1>3, <1>4, <1>5

\* From the columns numbered j on, the statements s are done.
DoneFrom(s, j, fs, hs) ==
    \A i \in 1..Len(s) : fs[j + i] = Freed(fs[j + i - 1], s[i]) /\ hs[j + i] = Locked(hs[j + i - 1], s[i])

\* settleFill's statements do what it does in one step.
LEMMA SettlementDone ==
    ASSUME NEW o, OrderLike(o), NEW lock \in Int, NEW at \in Nat, NEW fs, NEW hs, NEW j \in Nat,
           fs[j] \in GridColumns, hs[j] \in GridColumns,
           NEW n \in Nat, n = Len(Settlement(o, lock, at)),
           DoneFrom(Settlement(o, lock, at), j, fs, hs)
    PROVE  /\ fs[j + n] = BalanceAfterFill(fs[j], o, lock, at)
           /\ hs[j + n] = LockedAfterFill(hs[j], o, lock)
<1> DEFINE s == Settlement(o, lock, at)
<1>1. /\ QuoteAmount(o.quantity, at) \in Int /\ BaseAmount(o.quantity) \in Int /\ -lock \in Int
      /\ -BaseAmount(o.quantity) \in Int /\ lock - QuoteAmount(o.quantity, at) \in Int
      /\ Quote[o.symbol] \in Assets /\ Base[o.symbol] \in Assets /\ o.user \in Users
  BY ONLY OrderLike(o), lock \in Int, at \in Nat, OrderAmounts
<1>2. PICK quote, base, worth, size, refund, minus, less :
          /\ quote = Quote[o.symbol] /\ base = Base[o.symbol] /\ worth = QuoteAmount(o.quantity, at)
          /\ size = BaseAmount(o.quantity) /\ refund = lock - worth /\ minus = -lock /\ less = -size
  OBVIOUS
<1>3. /\ quote \in Assets /\ base \in Assets /\ worth \in Int /\ size \in Int /\ refund \in Int
      /\ minus \in Int /\ less \in Int /\ o.user \in Users
  BY ONLY <1>1, <1>2
<1>4. ASSUME NEW c \in GridColumns, NEW a \in Assets, NEW x \in Int
      PROVE  /\ Freed(c, Update(o, a, 0, x)) = c /\ Locked(c, Update(o, a, 0, x)) = Add(c, o.user, a, x)
             /\ Freed(c, Update(o, a, x, 0)) = Add(c, o.user, a, x) /\ Locked(c, Update(o, a, x, 0)) = c
             /\ Add(c, o.user, a, x) \in GridColumns
  BY ONLY <1>3, <1>4, UpdateAdds
<1>5. fs[j] \in GridColumns /\ hs[j] \in GridColumns
  OBVIOUS
<1>6. \A i \in 1..n : fs[j + i] = Freed(fs[j + i - 1], s[i]) /\ hs[j + i] = Locked(hs[j + i - 1], s[i])
  BY DEF DoneFrom
<1> HIDE DEF s
<1>7. j + 0 = j /\ j + 1 - 1 = j /\ j + 2 - 1 = j + 1 /\ j + 3 - 1 = j + 2
  OBVIOUS
<1>8. CASE o.side = "BUY" /\ refund > 0
  <2>1. /\ n = 3 /\ s[1] = Update(o, quote, 0, minus) /\ s[2] = Update(o, quote, refund, 0)
        /\ s[3] = Update(o, base, size, 0)
    BY <1>2, <1>8, SettlementSteps DEF s
  <2>2. /\ fs[j + 1] = Freed(fs[j], s[1]) /\ hs[j + 1] = Locked(hs[j], s[1])
        /\ fs[j + 2] = Freed(fs[j + 1], s[2]) /\ hs[j + 2] = Locked(hs[j + 1], s[2])
        /\ fs[j + 3] = Freed(fs[j + 2], s[3]) /\ hs[j + 3] = Locked(hs[j + 2], s[3])
    BY <1>6, <1>7, <2>1
  <2>3. /\ fs[j + 1] = fs[j] /\ hs[j + 1] = Add(hs[j], o.user, quote, minus)
        /\ hs[j + 1] \in GridColumns /\ fs[j + 1] \in GridColumns
    BY ONLY <1>3, <1>4, <1>5, <2>1, <2>2
  <2>4. /\ fs[j + 2] = Add(fs[j], o.user, quote, refund) /\ hs[j + 2] = hs[j + 1]
        /\ hs[j + 2] \in GridColumns /\ fs[j + 2] \in GridColumns
    BY ONLY <1>3, <1>4, <2>1, <2>2, <2>3
  <2>5. fs[j + 3] = Add(fs[j + 2], o.user, base, size) /\ hs[j + 3] = hs[j + 2]
    BY ONLY <1>3, <1>4, <2>1, <2>2, <2>4
  <2> QED
    BY ONLY <1>2, <1>8, <2>1, <2>3, <2>4, <2>5 DEF BalanceAfterFill, LockedAfterFill
<1>9. CASE o.side = "BUY" /\ ~(refund > 0)
  <2>1. n = 2 /\ s[1] = Update(o, quote, 0, minus) /\ s[2] = Update(o, base, size, 0)
    BY <1>2, <1>9, SettlementSteps DEF s
  <2>2. /\ fs[j + 1] = Freed(fs[j], s[1]) /\ hs[j + 1] = Locked(hs[j], s[1])
        /\ fs[j + 2] = Freed(fs[j + 1], s[2]) /\ hs[j + 2] = Locked(hs[j + 1], s[2])
    BY <1>6, <1>7, <2>1
  <2>3. /\ fs[j + 1] = fs[j] /\ hs[j + 1] = Add(hs[j], o.user, quote, minus)
        /\ hs[j + 1] \in GridColumns /\ fs[j + 1] \in GridColumns
    BY ONLY <1>3, <1>4, <1>5, <2>1, <2>2
  <2>4. fs[j + 2] = Add(fs[j], o.user, base, size) /\ hs[j + 2] = hs[j + 1]
    BY ONLY <1>3, <1>4, <2>1, <2>2, <2>3
  <2> QED
    BY ONLY <1>2, <1>9, <2>1, <2>3, <2>4 DEF BalanceAfterFill, LockedAfterFill
<1>10. CASE o.side # "BUY"
  <2>1. n = 2 /\ s[1] = Update(o, base, 0, less) /\ s[2] = Update(o, quote, worth, 0)
    BY <1>2, <1>10, SettlementSteps DEF s
  <2>2. /\ fs[j + 1] = Freed(fs[j], s[1]) /\ hs[j + 1] = Locked(hs[j], s[1])
        /\ fs[j + 2] = Freed(fs[j + 1], s[2]) /\ hs[j + 2] = Locked(hs[j + 1], s[2])
    BY <1>6, <1>7, <2>1
  <2>3. /\ fs[j + 1] = fs[j] /\ hs[j + 1] = Add(hs[j], o.user, base, less)
        /\ hs[j + 1] \in GridColumns /\ fs[j + 1] \in GridColumns
    BY ONLY <1>3, <1>4, <1>5, <2>1, <2>2
  <2>4. fs[j + 2] = Add(fs[j], o.user, quote, worth) /\ hs[j + 2] = hs[j + 1]
    BY ONLY <1>3, <1>4, <2>1, <2>2, <2>3
  <2> QED
    BY ONLY <1>2, <1>10, <2>1, <2>3, <2>4 DEF BalanceAfterFill, LockedAfterFill
<1> QED
  BY <1>8, <1>9, <1>10

\* A request's body and an order's row are orders to the statements.
LEMMA ArgsLike ==
    ASSUME NEW a \in OrderArgs
    PROVE  /\ OrderLike(a) /\ LockAsset(a) \in Assets /\ \A at \in Nat : LockAmount(a, at) \in Nat
           /\ OrderLike(InsertedRow(a)) /\ InsertedRow(a) \in OrderRows
           /\ a.type # "MARKET" => a.trigger \in Prices
<1>1. /\ InsertedRow(a) \in OrderRows /\ a.symbol \in Symbols /\ a.side \in Sides /\ a.user \in Users
      /\ a.quantity \in Nat /\ (a.type # "MARKET" => a.trigger \in Prices)
  BY InsertedRowType
<1>2. OrderLike(InsertedRow(a))
  BY <1>1, StoredSets DEF OrderRows, OrderLike
<1>3. LockAsset(a) \in Assets /\ \A at \in Nat : LockAmount(a, at) \in Nat
  BY <1>1, AmountsNat, 0 \in Nat
<1> QED
  BY <1>1, <1>2, <1>3 DEF OrderLike

LEMMA RowLike ==
    ASSUME NEW o \in OrderRows
    PROVE  /\ OrderLike(o) /\ LockAsset(o) \in Assets /\ \A at \in Nat : LockAmount(o, at) \in Nat
<1>1. OrderLike(o)
  BY StoredSets DEF OrderRows, OrderLike
<1> QED
  BY <1>1, AmountsNat, 0 \in Nat DEF OrderLike

\* The statements of placeOrder.
LEMMA PlacementSteps ==
    ASSUME NEW a \in OrderArgs, NEW at \in Prices
    PROVE  LET plan == Placement(a, at)
               lock == LockAmount(a, IF a.type = "MARKET" THEN at ELSE a.trigger)
               s    == Settlement(InsertedRow(a), lock, at)
           IN  /\ plan \in Seq(Updates) /\ lock \in Nat
               /\ plan[1] = LockFunds(a, lock) /\ Len(plan) >= 1
               /\ a.type # "MARKET" => Len(plan) = 1
               /\ a.type = "MARKET" => /\ Len(plan) = 1 + Len(s) /\ Len(s) \in Nat
                                       /\ \A i \in 1..Len(s) : plan[1 + i] = s[i]
<1>1. PICK lock : lock = LockAmount(a, IF a.type = "MARKET" THEN at ELSE a.trigger)
  OBVIOUS
<1>2. /\ lock \in Nat /\ at \in Nat /\ a.user \in Users /\ LockAsset(a) \in Assets /\ lock \in Int
      /\ OrderLike(InsertedRow(a))
  BY <1>1, ArgsLike, PriceTypes DEF OrderLike
<1>3. LockFunds(a, lock) \in Updates
  BY <1>2, LockFundsIs
<1>4. CASE a.type # "MARKET"
  <2>1. Placement(a, at) = <<LockFunds(a, lock)>>
    BY <1>1, <1>4 DEF Placement
  <2> QED
    BY <1>1, <1>2, <1>3, <1>4, <2>1
<1>5. CASE a.type = "MARKET"
  <2>1. PICK s : s = Settlement(InsertedRow(a), lock, at)
    OBVIOUS
  <2>2. s \in Seq(Updates)
    BY <1>2, <2>1, SettlementSteps
  <2>3. Placement(a, at) = <<LockFunds(a, lock)>> \o s
    BY <1>1, <1>5, <2>1 DEF Placement
  <2>4. PICK x \in Updates : x = LockFunds(a, lock)
    BY <1>3
  <2>5. /\ <<x>> \o s \in Seq(Updates) /\ (<<x>> \o s)[1] = x
        /\ Len(<<x>> \o s) = 1 + Len(s) /\ Len(s) \in Nat /\ Len(<<x>> \o s) >= 1
        /\ \A i \in 1..Len(s) : (<<x>> \o s)[1 + i] = s[i]
    BY <2>2
  <2> QED
    BY <1>1, <1>2, <1>5, <2>1, <2>3, <2>4, <2>5
<1> QED
  BY <1>4, <1>5

\* placeOrder's statements do what it does in one step.
LEMMA PlacementDone ==
    ASSUME NEW a \in OrderArgs, NEW at \in Prices, NEW fs, NEW hs, NEW n, n = Len(Placement(a, at)),
           Chained(Placement(a, at), n, fs, hs), Guarded(Placement(a, at), n, fs[0])
    PROVE  LET lock == LockAmount(a, IF a.type = "MARKET" THEN at ELSE a.trigger)
               b    == Add(fs[0], a.user, LockAsset(a), -lock)
               l    == Add(hs[0], a.user, LockAsset(a), lock)
           IN  /\ fs[0][a.user][LockAsset(a)] >= lock
               /\ IF a.type = "MARKET"
                  THEN /\ fs[n] = BalanceAfterFill(b, InsertedRow(a), lock, at)
                       /\ hs[n] = LockedAfterFill(l, InsertedRow(a), lock)
                  ELSE fs[n] = b /\ hs[n] = l
<1>1. PICK lock, plan, s : /\ lock = LockAmount(a, IF a.type = "MARKET" THEN at ELSE a.trigger)
                           /\ plan = Placement(a, at) /\ s = Settlement(InsertedRow(a), lock, at)
  OBVIOUS
<1>2. /\ plan \in Seq(Updates) /\ lock \in Nat /\ plan[1] = LockFunds(a, lock)
      /\ n \in Nat /\ n >= 1 /\ n = Len(plan)
      /\ a.type # "MARKET" => n = 1
      /\ a.type = "MARKET" => n = 1 + Len(s) /\ Len(s) \in Nat /\ \A i \in 1..Len(s) : plan[1 + i] = s[i]
  <2>1. /\ plan \in Seq(Updates) /\ lock \in Nat /\ plan[1] = LockFunds(a, lock) /\ Len(plan) >= 1
        /\ a.type # "MARKET" => Len(plan) = 1
        /\ a.type = "MARKET" => Len(plan) = 1 + Len(s) /\ Len(s) \in Nat /\ \A i \in 1..Len(s) : plan[1 + i] = s[i]
    BY ONLY <1>1, PlacementSteps, a \in OrderArgs, at \in Prices
  <2>2. Len(plan) \in Nat /\ n = Len(plan)
    BY ONLY <1>1, <2>1, n = Len(Placement(a, at))
  <2> QED
    BY ONLY <2>1, <2>2
<1>3. /\ fs \in [0..n -> GridColumns] /\ hs \in [0..n -> GridColumns]
      /\ \A i \in 1..n : fs[i] = Freed(fs[i - 1], plan[i]) /\ hs[i] = Locked(hs[i - 1], plan[i])
      /\ n > 0 /\ plan[1].needs # Nil => Cell(fs[0], plan[1].wallet) >= plan[1].needs
  BY <1>1 DEF Chained, Guarded
<1>4. /\ a.user \in Users /\ LockAsset(a) \in Assets /\ OrderLike(InsertedRow(a)) /\ at \in Nat /\ lock \in Int
  BY <1>2, ArgsLike, PriceTypes DEF OrderLike
<1>5. /\ plan[1].needs = lock /\ plan[1].wallet = <<a.user, LockAsset(a)>>
      /\ \A c : /\ Freed(c, plan[1]) = Add(c, a.user, LockAsset(a), -lock)
                /\ Locked(c, plan[1]) = Add(c, a.user, LockAsset(a), lock)
  BY <1>2, <1>4, LockFundsIs
<1>6. fs[0][a.user][LockAsset(a)] >= lock
  BY <1>2, <1>3, <1>5, OrderEngineAssumption DEF Cell
<1>7. 1 \in 1..n /\ 1 \in 0..n /\ 1 - 1 = 0
  BY <1>2
<1>8. /\ fs[1] = Add(fs[0], a.user, LockAsset(a), -lock) /\ hs[1] = Add(hs[0], a.user, LockAsset(a), lock)
      /\ fs[1] \in GridColumns /\ hs[1] \in GridColumns
  BY <1>3, <1>5, <1>7
<1>9. CASE a.type # "MARKET"
  BY <1>1, <1>2, <1>6, <1>8, <1>9
<1>10. CASE a.type = "MARKET"
  <2>1. PICK m \in Nat : m = Len(s) /\ n = 1 + m
    BY <1>2, <1>10
  <2>2. ASSUME NEW i \in 1..m
        PROVE  fs[1 + i] = Freed(fs[1 + i - 1], s[i]) /\ hs[1 + i] = Locked(hs[1 + i - 1], s[i])
    <3>1. 1 + i \in 1..n /\ i \in 1..Len(s)
      BY <2>1
    <3>2. plan[1 + i] = s[i]
      BY <1>2, <1>10, <3>1
    <3> QED
      BY <1>3, <3>1, <3>2
  <2>3. /\ fs[1 + m] = BalanceAfterFill(fs[1], InsertedRow(a), lock, at)
        /\ hs[1 + m] = LockedAfterFill(hs[1], InsertedRow(a), lock)
    <3>1. /\ 1 \in Nat /\ m = Len(Settlement(InsertedRow(a), lock, at))
          /\ DoneFrom(Settlement(InsertedRow(a), lock, at), 1, fs, hs)
      BY <1>1, <2>1, <2>2 DEF DoneFrom
    <3> QED
      BY ONLY <1>4, <1>8, <2>1, <3>1, SettlementDone
  <2> QED
    BY <1>1, <1>6, <1>8, <1>10, <2>1, <2>3
<1> QED
  BY <1>9, <1>10

\* cancelOrder's statement, and a fill's.
LEMMA CancelDone ==
    ASSUME NEW o \in OrderRows, NEW lock \in Nat, NEW fs, NEW hs,
           Chained(<<UnlockFunds(o, lock)>>, 1, fs, hs)
    PROVE  /\ fs[1] = Add(fs[0], o.user, LockAsset(o), lock)
           /\ hs[1] = Add(hs[0], o.user, LockAsset(o), -lock)
<1>1. 1 \in 1..1 /\ 1 - 1 = 0 /\ <<UnlockFunds(o, lock)>>[1] = UnlockFunds(o, lock)
  OBVIOUS
<1>2. /\ fs[1] = Freed(fs[0], UnlockFunds(o, lock)) /\ hs[1] = Locked(hs[0], UnlockFunds(o, lock))
  BY <1>1 DEF Chained
<1>3. o.user \in Users /\ LockAsset(o) \in Assets /\ lock \in Int /\ -lock \in Int
  BY RowLike DEF OrderLike
<1> QED
  BY <1>2, <1>3, UpdateIs DEF UnlockFunds

LEMMA FillDone ==
    ASSUME NEW o \in OrderRows, NEW lock \in Nat, NEW at \in Nat, NEW fs, NEW hs,
           NEW n, n = Len(Settlement(o, lock, at)), Chained(Settlement(o, lock, at), n, fs, hs)
    PROVE  /\ fs[n] = BalanceAfterFill(fs[0], o, lock, at)
           /\ hs[n] = LockedAfterFill(hs[0], o, lock)
<1>1. PICK s : s = Settlement(o, lock, at)
  OBVIOUS
<1>2. OrderLike(o) /\ lock \in Int /\ at \in Nat
  BY RowLike
<1>3. n \in Nat
  BY <1>2, SettlementSteps
<1>4. /\ fs \in [0..n -> GridColumns] /\ hs \in [0..n -> GridColumns]
      /\ \A i \in 1..n : fs[i] = Freed(fs[i - 1], s[i]) /\ hs[i] = Locked(hs[i - 1], s[i])
  BY <1>1 DEF Chained
<1>5. /\ fs[0] \in GridColumns /\ hs[0] \in GridColumns
      /\ \A i \in 1..n : fs[0 + i] = Freed(fs[0 + i - 1], s[i]) /\ hs[0 + i] = Locked(hs[0 + i - 1], s[i])
  BY <1>3, <1>4
<1>6. /\ fs[0 + n] = BalanceAfterFill(fs[0], o, lock, at) /\ hs[0 + n] = LockedAfterFill(hs[0], o, lock)
  <2>1. /\ 0 \in Nat /\ n = Len(Settlement(o, lock, at)) /\ DoneFrom(Settlement(o, lock, at), 0, fs, hs)
    BY <1>1, <1>5 DEF DoneFrom
  <2> QED
    BY ONLY <1>2, <1>3, <1>5, <2>1, SettlementDone
<1> QED
  BY <1>3, <1>6

-----------------------------------------------------------------------------
(* The invariant.  An open transaction is one of the three, on what it has  *)
(* read: nobody has changed that since.  No two have the same row, of a     *)
(* wallet or of an order, and the orders being placed have ids to come.     *)

WellFormed(t) ==
    t = [kind |-> t.kind, id |-> t.id, row |-> t.row, todo |-> t.todo, rows |-> t.rows]

IsPlace(t, r, b, l) ==
    /\ t.kind = "place" /\ t.id = Nil /\ r # Nil
    /\ t.row = PlacedRow(r.args, r.latest)
    /\ Runs(t, Placement(r.args, r.latest), b, l)

IsCancel(t, o, b, l) ==
    /\ t.kind = "cancel"
    /\ t.row = [o EXCEPT !.status = "CANCELLED"]
    /\ Runs(t, <<UnlockFunds(o, LockAmount(o, o.trigger))>>, b, l)

IsFill(t, o, at, b, l) ==
    /\ t.kind = "fill" /\ Triggers(o, at)
    /\ t.row = FilledRow(o, FillPrice(o, at))
    /\ Runs(t, Settlement(o, LockAmount(o, o.trigger), FillPrice(o, at)), b, l)

Places(p)  == p \in Handlers /\ IsPlace(txn[p], request[p], balance, locked)
Cancels(p) == /\ p \in Handlers /\ txn[p].id \in OrderIds /\ Pending(txn[p].id)
              /\ IsCancel(txn[p], orders[txn[p].id], balance, locked)
Fills(p)   == /\ p = Tick /\ txn[p].id \in OrderIds /\ Pending(txn[p].id)
              /\ feed.pc = "fill" /\ txn[p].id \in feed.rows
              /\ IsFill(txn[p], orders[txn[p].id], feed.price, balance, locked)

IsOpen(p) == WellFormed(txn[p]) /\ (Places(p) \/ Cancels(p) \/ Fills(p))

RowsApart ==
    \A p \in Procs, q \in Procs : p # q => \A w \in Wallets : ~(HasWallet(p, w) /\ HasWallet(q, w))

OrdersApart ==
    \A p \in Procs, q \in Procs, id \in OrderIds : HasOrder(p, id) /\ HasOrder(q, id) => p = q

Placing == {q \in Handlers : HasOrder(q, Nil)}
IdsLeft == Cardinality(Placing) <= Cardinality(FreshIds)

OnGrid == balance \in GridColumns /\ locked \in GridColumns

TxInv ==
    /\ IInv /\ OnGrid
    /\ txn = [p \in Procs |-> txn[p]]
    /\ \A p \in Procs : txn[p] # Nil => IsOpen(p)
    /\ RowsApart /\ OrdersApart /\ IdsLeft

LEMMA TxParts ==
    ASSUME TxInv
    PROVE  /\ IInv /\ OnGrid /\ balance \in GridColumns /\ locked \in GridColumns
           /\ txn = [p \in Procs |-> txn[p]]
BY Zenon DEF TxInv, OnGrid

LEMMA TxInitInv == TxInit => TxInv
<1> SUFFICES ASSUME TxInit PROVE TxInv
  OBVIOUS
<1>1. IInv
  BY InitInv DEF TxInit
<1>2. OnGrid
  <2>1. 0 \in Int /\ StoredAmount(0) = 0
    <3>1. Scale * Grid \in Nat \ {0}
      BY ScaleAssumption, Z3
    <3>2. PICK g : g = Scale * Grid /\ g \in Nat \ {0}
      BY <3>1
    <3>3. (2 * 0 + g) \div (2 * g) = 0
      BY <3>2, DivUnique, 2 * 0 + g \in Nat, 2 * g \in Nat \ {0}, 0 \in Nat
    <3>4. RoundTo(0, g) = 0
      BY <3>2, <3>3 DEF RoundTo
    <3> QED
      BY <3>2, <3>4 DEF StoredAmount
  <2>2. InitialBalance \in Int /\ StoredAmount(InitialBalance) = InitialBalance
    BY TxAssumption, OrderEngineAssumption
  <2>3. /\ balance = [u \in Users |-> [a \in Assets |-> InitialBalance]]
        /\ locked = [u \in Users |-> [a \in Assets |-> 0]]
    BY DEF TxInit, Init
  <2> QED
    BY <2>1, <2>2, <2>3 DEF OnGrid, GridColumns, Columns
<1>3. txn = [p \in Procs |-> Nil]
  BY DEF TxInit
<1>4. Placing = {}
  BY <1>3 DEF Placing, HasOrder, Procs
<1>5. IdsLeft
  <2>1. IsFiniteSet(FreshIds)
    BY AuditAssumption, FS_Subset DEF FreshIds
  <2>2. Cardinality(FreshIds) \in Nat /\ Cardinality({}) = 0
    BY <2>1, FS_CardinalityType, FS_EmptySet
  <2> QED
    BY <1>4, <2>2 DEF IdsLeft
<1> QED
  BY <1>1, <1>2, <1>3, <1>5 DEF TxInv, RowsApart, OrdersApart, HasWallet, HasOrder

-----------------------------------------------------------------------------
(* A COMMIT is the engine's step.                                           *)

\* The columns with the rows a transaction has changed.
LEMMA SeenIs ==
    ASSUME NEW p, txn[p] # Nil
    PROVE  /\ \A w : Sees(p, w) = SeenBy(txn[p], balance, locked, w)
           /\ SeenFree(p) = FreeSeen(txn[p], balance, locked)
           /\ SeenHeld(p) = HeldSeen(txn[p], balance, locked)
<1>1. \A w : Sees(p, w) = SeenBy(txn[p], balance, locked, w)
  BY DEF Sees, SeenBy, HasWallet, Cell
<1> QED
  BY <1>1 DEF SeenFree, SeenHeld, FreeSeen, HeldSeen

\* Orders being placed find ids.
LEMMA IdIsLeft ==
    ASSUME TxInv, NEW p \in Handlers, txn[p] # Nil, txn[p].id = Nil
    PROVE  FreshIds # {}
<1>1. IsFiniteSet(Placing) /\ p \in Placing
  BY TxAssumption, FS_Subset DEF Placing, HasOrder
<1>2. Cardinality(Placing) # 0 /\ Cardinality(Placing) \in Nat
  BY <1>1, FS_EmptySet, FS_CardinalityType
<1>3. Cardinality({}) = 0
  BY FS_EmptySet
<1> QED
  BY <1>2, <1>3 DEF TxInv, IdsLeft

\* What the row of a placed order says.
LEMMA PlacedRowIs ==
    ASSUME NEW a \in OrderArgs, NEW at
    PROVE  /\ a.type # "MARKET" => /\ PlacedRow(a, at) = InsertedRow(a)
                                   /\ PlacedRow(a, at).status = "PENDING"
           /\ a.type = "MARKET" =>
                 /\ PlacedRow(a, at) = [InsertedRow(a) EXCEPT !.status = "FILLED",
                                                              !.filled_price = StoredInput(at)]
                 /\ PlacedRow(a, at).status = "FILLED"
                 /\ PlacedRow(a, at).quantity = InsertedRow(a).quantity
                 /\ PlacedRow(a, at).filled_price = StoredInput(at)
BY DEF PlacedRow, FilledRow, InsertedRow

LEMMA RowFields ==
    ASSUME NEW o \in OrderRows
    PROVE  "status" \in DOMAIN o /\ "quantity" \in DOMAIN o /\ "filled_price" \in DOMAIN o
BY DEF OrderRows

LEMMA CommitPlaces ==
    ASSUME TxInv, NEW p \in Procs, Commit(p), Places(p)
    PROVE  /\ PlaceMarket(p) \/ PlaceResting(p)
           /\ OnGrid' /\ FreshIds # {}
<1>1. PICK t, a, at, plan, n : /\ t = txn[p] /\ a = request[p].args /\ at = request[p].latest
                               /\ plan = Placement(a, at) /\ n = Len(plan)
  OBVIOUS
<1>2. /\ p \in Handlers /\ txn[p] # Nil /\ request[p] # Nil /\ t.kind = "place" /\ t.id = Nil
      /\ t.row = PlacedRow(a, at) /\ Runs(t, plan, balance, locked) /\ t.todo = <<>>
  BY <1>1 DEF Places, IsPlace, Commit
<1>3. /\ balance' = SeenFree(p) /\ locked' = SeenHeld(p)
      /\ orders' = [orders EXCEPT ![NextId] = t.row]
      /\ trades' = IF t.row.status # "FILLED" THEN trades
                   ELSE [trades EXCEPT ![NextId] =
                           Append(@, [quantity |-> t.row.quantity, price |-> t.row.filled_price])]
      /\ request' = [request EXCEPT ![p] = Nil]
      /\ feed' = feed /\ price' = price
  BY <1>1, <1>2 DEF Commit
<1>4. FreshIds # {}
  BY <1>1, <1>2, IdIsLeft
<1>5. a \in OrderArgs /\ at \in Prices
  BY <1>1, <1>2, RequestType DEF TxInv, IInv, EngineInv
<1>6. PICK fs, hs : /\ Chained(plan, n, fs, hs) /\ fs[0] = balance /\ hs[0] = locked
                    /\ Guarded(plan, n, balance) /\ plan \in Seq(Updates)
                    /\ balance' = fs[n] /\ locked' = hs[n]
  <2>1. balance \in GridColumns /\ locked \in GridColumns
    BY DEF TxInv, OnGrid
  <2>2. balance' = FreeSeen(t, balance, locked) /\ locked' = HeldSeen(t, balance, locked)
    BY <1>1, <1>2, <1>3, SeenIs
  <2>3. PICK fs, hs :
             /\ Chained(plan, Len(plan), fs, hs) /\ fs[0] = balance /\ hs[0] = locked
             /\ Guarded(plan, Len(plan), balance) /\ plan \in Seq(Updates)
             /\ FreeSeen(t, balance, locked) = fs[Len(plan)] /\ HeldSeen(t, balance, locked) = hs[Len(plan)]
    <3>1. Runs(t, plan, balance, locked) /\ t.todo = <<>>
      BY <1>2
    <3>2. Finished(t, plan, balance, locked)
      BY ONLY <2>1, <3>1, RunDone
    <3> QED
      BY ONLY <3>2 DEF Finished
  <2> QED
    BY ONLY <1>1, <2>2, <2>3
<1>7. PICK lock : lock = LockAmount(a, IF a.type = "MARKET" THEN at ELSE a.trigger)
  OBVIOUS
<1>8. /\ balance[a.user][LockAsset(a)] >= lock
      /\ IF a.type = "MARKET"
         THEN /\ balance' = BalanceAfterFill(Add(balance, a.user, LockAsset(a), -lock), InsertedRow(a), lock, at)
              /\ locked' = LockedAfterFill(Add(locked, a.user, LockAsset(a), lock), InsertedRow(a), lock)
         ELSE /\ balance' = Add(balance, a.user, LockAsset(a), -lock)
              /\ locked' = Add(locked, a.user, LockAsset(a), lock)
  <2>1. Chained(Placement(a, at), n, fs, hs) /\ Guarded(Placement(a, at), n, fs[0])
        /\ n = Len(Placement(a, at))
    BY <1>1, <1>6
  <2> QED
    BY ONLY <1>5, <1>6, <1>7, <2>1, PlacementDone
<1>9. OnGrid'
  <2>1. n \in Nat /\ n \in 0..n
    BY <1>1, <1>6
  <2> QED
    BY <1>6, <2>1 DEF Chained, OnGrid
<1>10. CASE a.type = "MARKET"
  <2>1. lock = LockAmount(a, at)
    BY <1>7, <1>10
  <2>2. /\ orders' = [orders EXCEPT ![NextId] =
                        [InsertedRow(a) EXCEPT !.status = "FILLED", !.filled_price = StoredInput(at)]]
        /\ trades' = [trades EXCEPT ![NextId] =
                        Append(@, [quantity |-> InsertedRow(a).quantity, price |-> StoredInput(at)])]
    <3>1. /\ t.row = [InsertedRow(a) EXCEPT !.status = "FILLED", !.filled_price = StoredInput(at)]
          /\ t.row.status = "FILLED" /\ t.row.quantity = InsertedRow(a).quantity
          /\ t.row.filled_price = StoredInput(at)
      <4>1. t.row = PlacedRow(a, at)
        BY <1>2
      <4> QED
        BY ONLY <1>5, <1>10, <4>1, PlacedRowIs
    <3> QED
      BY ONLY <1>3, <3>1
  <2>3. PlaceMarket(p)
    BY <1>1, <1>2, <1>3, <1>4, <1>8, <1>10, <2>1, <2>2 DEF PlaceMarket, CanLock, Settle
  <2> QED
    BY <1>4, <1>9, <2>3
<1>11. CASE a.type # "MARKET"
  <2>1. lock = LockAmount(a, a.trigger)
    BY <1>7, <1>11
  <2>2. orders' = [orders EXCEPT ![NextId] = InsertedRow(a)] /\ trades' = trades
    BY <1>2, <1>3, <1>5, <1>11, PlacedRowIs
  <2>3. PlaceResting(p)
    BY <1>1, <1>2, <1>3, <1>4, <1>8, <1>11, <2>1, <2>2 DEF PlaceResting, CanLock
  <2> QED
    BY <1>4, <1>9, <2>3
<1> QED
  BY <1>10, <1>11

LEMMA CommitCancels ==
    ASSUME TxInv, NEW p \in Procs, Commit(p), Cancels(p)
    PROVE  CancelOrder(orders[txn[p].id].user, txn[p].id) /\ OnGrid'
<1>1. PICK t, id, o, plan, lock : /\ t = txn[p] /\ id = t.id /\ o = orders[id]
                                  /\ lock = LockAmount(o, o.trigger) /\ plan = <<UnlockFunds(o, lock)>>
  OBVIOUS
<1>2. /\ txn[p] # Nil /\ t.kind = "cancel" /\ id \in OrderIds /\ id # Nil /\ Pending(id)
      /\ t.row = [o EXCEPT !.status = "CANCELLED"] /\ Runs(t, plan, balance, locked) /\ t.todo = <<>>
  BY <1>1, TxAssumption DEF Cancels, IsCancel, Commit
<1>3. /\ o \in OrderRows /\ lock \in Nat
  <2>1. TablesOK /\ Placed(id) /\ Resting(id)
    BY <1>2 DEF TxInv, IInv, EngineInv, OpenOrdersRest, Pending
  <2>2. o \in OrderRows /\ o.trigger \in Nat
    BY <1>1, <1>2, <2>1, RowType
  <2> QED
    BY <1>1, <2>2, RowLike
<1>4. t.row.status = "CANCELLED"
  BY <1>2, <1>3 DEF OrderRows
<1>5. /\ balance' = SeenFree(p) /\ locked' = SeenHeld(p)
      /\ orders' = [orders EXCEPT ![id] = t.row] /\ trades' = trades
      /\ request' = request /\ feed' = feed /\ price' = price
  BY <1>1, <1>2, <1>4 DEF Commit
<1>6. balance \in GridColumns /\ locked \in GridColumns
  BY ONLY TxInv, TxParts, Zenon
<1>7. balance' = FreeSeen(t, balance, locked) /\ locked' = HeldSeen(t, balance, locked)
  BY <1>1, <1>2, <1>5, SeenIs
<1>8. Finished(t, plan, balance, locked)
  <2>1. PICK b, l : b = balance /\ l = locked
    OBVIOUS
  <2>2. b \in GridColumns /\ l \in GridColumns /\ Runs(t, plan, b, l) /\ t.todo = <<>>
    BY ONLY <1>2, <1>6, <2>1
  <2>3. Finished(t, plan, b, l)
    BY ONLY <2>2, RunDone, Zenon
  <2> QED
    BY ONLY <2>1, <2>3
<1>9. PICK fs, hs : /\ Chained(plan, 1, fs, hs) /\ fs[0] = balance /\ hs[0] = locked
                    /\ balance' = fs[1] /\ locked' = hs[1]
  <2>1. Len(plan) = 1
    BY <1>1
  <2> QED
    BY ONLY <1>7, <1>8, <2>1 DEF Finished
<1>10. /\ balance' = Add(balance, o.user, LockAsset(o), lock)
       /\ locked' = Add(locked, o.user, LockAsset(o), -lock)
  <2>1. Chained(<<UnlockFunds(o, lock)>>, 1, fs, hs)
    BY <1>1, <1>9
  <2> QED
    BY ONLY <1>3, <1>9, <2>1, CancelDone
<1>11. OnGrid'
  BY <1>9, 1 \in 0..1 DEF Chained, OnGrid
<1>12. orders' = [orders EXCEPT ![id].status = "CANCELLED"]
  <2>1. t.row = [orders[id] EXCEPT !.status = "CANCELLED"]
    <3>1. t.row = [o EXCEPT !.status = "CANCELLED"]
      BY ONLY <1>2
    <3>2. o = orders[id]
      BY ONLY <1>1
    <3> QED
      BY ONLY <3>1, <3>2, Zenon
  <2>2. orders' = [orders EXCEPT ![id] = t.row]
    BY ONLY <1>5
  <2> QED
    BY ONLY <2>1, <2>2
<1> QED
  BY <1>1, <1>2, <1>5, <1>10, <1>11, <1>12 DEF CancelOrder, MayCancel, Pending, Placed

LEMMA CommitFills ==
    ASSUME TxInv, NEW p \in Procs, Commit(p), Fills(p)
    PROVE  FillOrder(txn[p].id) /\ OnGrid'
<1>1. PICK t, id, o, at, plan, lock, n :
          /\ t = txn[p] /\ id = t.id /\ o = orders[id] /\ at = FillPrice(o, feed.price)
          /\ lock = LockAmount(o, o.trigger) /\ plan = Settlement(o, lock, at) /\ n = Len(plan)
  OBVIOUS
<1>2. /\ txn[p] # Nil /\ t.kind = "fill" /\ id \in OrderIds /\ id # Nil /\ Pending(id)
      /\ feed.pc = "fill" /\ id \in feed.rows /\ Triggers(o, feed.price)
      /\ t.row = FilledRow(o, at) /\ Runs(t, plan, balance, locked) /\ t.todo = <<>>
  BY <1>1, TxAssumption DEF Fills, IsFill, Commit
<1>3. o \in OrderRows /\ lock \in Nat /\ at \in Nat
  <2>1. TablesOK /\ Placed(id) /\ Resting(id) /\ feed.price \in Prices
    BY <1>2 DEF TxInv, IInv, EngineInv, OpenOrdersRest, Pending, MemoryOK
  <2>2. o \in OrderRows /\ o.trigger \in Nat
    BY <1>1, <1>2, <2>1, RowType
  <2> QED
    BY <1>1, <2>1, <2>2, RowLike, PriceTypes DEF FillPrice
<1>4. /\ t.row = [o EXCEPT !.status = "FILLED", !.filled_price = StoredInput(at)]
      /\ t.row.status = "FILLED" /\ t.row.quantity = o.quantity /\ t.row.filled_price = StoredInput(at)
  <2>1. t.row = [o EXCEPT !.status = "FILLED", !.filled_price = StoredInput(at)]
    <3>1. t.row = FilledRow(o, at)
      BY ONLY <1>2
    <3> QED
      BY ONLY <3>1 DEF FilledRow
  <2> QED
    <3>1. "status" \in DOMAIN o /\ "quantity" \in DOMAIN o /\ "filled_price" \in DOMAIN o
      BY ONLY <1>3, RowFields
    <3> QED
      BY ONLY <2>1, <3>1
<1>5. /\ balance' = SeenFree(p) /\ locked' = SeenHeld(p)
      /\ orders' = [orders EXCEPT ![id] = t.row]
      /\ trades' = [trades EXCEPT ![id] =
                      Append(@, [quantity |-> t.row.quantity, price |-> t.row.filled_price])]
      /\ request' = request /\ feed' = [feed EXCEPT !.rows = @ \ {id}] /\ price' = price
  BY <1>1, <1>2, <1>4 DEF Commit
<1>6. balance \in GridColumns /\ locked \in GridColumns
  BY ONLY TxInv, TxParts, Zenon
<1>7. balance' = FreeSeen(t, balance, locked) /\ locked' = HeldSeen(t, balance, locked)
  BY <1>1, <1>2, <1>5, SeenIs
<1>8. Finished(t, plan, balance, locked)
  <2>1. PICK b, l : b = balance /\ l = locked
    OBVIOUS
  <2>2. b \in GridColumns /\ l \in GridColumns /\ Runs(t, plan, b, l) /\ t.todo = <<>>
    BY ONLY <1>2, <1>6, <2>1
  <2>3. Finished(t, plan, b, l)
    BY ONLY <2>2, RunDone, Zenon
  <2> QED
    BY ONLY <2>1, <2>3
<1>9. PICK fs, hs : /\ Chained(plan, n, fs, hs) /\ fs[0] = balance /\ hs[0] = locked
                    /\ balance' = fs[n] /\ locked' = hs[n] /\ plan \in Seq(Updates)
  BY ONLY <1>1, <1>7, <1>8 DEF Finished
<1>10. /\ balance' = BalanceAfterFill(balance, o, lock, at)
       /\ locked' = LockedAfterFill(locked, o, lock)
  <2>1. Chained(Settlement(o, lock, at), n, fs, hs) /\ n = Len(Settlement(o, lock, at))
    BY <1>1, <1>9
  <2> QED
    BY ONLY <1>3, <1>9, <2>1, FillDone
<1>11. OnGrid'
  <2>1. n \in Nat /\ n \in 0..n
    BY <1>1, <1>9
  <2>2. fs \in [0..n -> GridColumns] /\ hs \in [0..n -> GridColumns] /\ balance' = fs[n] /\ locked' = hs[n]
    BY ONLY <1>9 DEF Chained
  <2>3. fs[n] \in GridColumns /\ hs[n] \in GridColumns
    BY ONLY <2>1, <2>2
  <2> QED
    BY ONLY <2>2, <2>3 DEF OnGrid
<1>12. Settle(balance, locked, id, o, lock, at)
  BY <1>4, <1>5, <1>10 DEF Settle
<1>13. StillPending(id)
  BY <1>2 DEF Pending, StillPending
<1> QED
  BY <1>1, <1>2, <1>5, <1>11, <1>12, <1>13 DEF FillOrder

\* Each step is one of the engine, or none.
LEMMA StepImplements == TxInv /\ [TxNext]_txVars => [Next]_vars
<1> SUFFICES ASSUME TxInv, [TxNext]_txVars PROVE [Next]_vars
  OBVIOUS
<1>1. ASSUME UNCHANGED vars PROVE [Next]_vars
  BY <1>1
<1>2. ASSUME NEW p \in Procs, Commit(p) PROVE Next
  <2>1. txn[p] # Nil
    BY <1>2 DEF Commit
  <2>2. Places(p) \/ Cancels(p) \/ Fills(p)
    BY <2>1 DEF TxInv, IsOpen
  <2>3. CASE Places(p)
    <3>1. p \in Handlers
      BY <2>3 DEF Places
    <3> QED
      BY <1>2, <2>3, <3>1, CommitPlaces DEF Next, Requests
  <2>4. CASE Cancels(p)
    <3>1. txn[p].id \in OrderIds /\ orders[txn[p].id].user \in Users
      BY <2>4, RowType DEF Cancels, Pending, TxInv, IInv, EngineInv
    <3> QED
      BY <1>2, <2>4, <3>1, CommitCancels DEF Next, Requests
  <2>5. CASE Fills(p)
    <3>1. txn[p].id \in OrderIds
      BY <2>5 DEF Fills
    <3> QED
      BY <1>2, <2>5, <3>1, CommitFills DEF Next, FeedProgress
  <2> QED
    BY <2>2, <2>3, <2>4, <2>5
<1>3. ASSUME NEW p \in Procs, txn[p] # Nil, RollBack(p) PROVE [Next]_vars
  <2>1. Places(p) \/ Cancels(p) \/ Fills(p)
    BY <1>3 DEF TxInv, IsOpen
  <2>2. CASE Places(p)
    <3>1. p \in Handlers /\ RejectOrder(p)
      BY <1>3, <2>2 DEF RollBack, Places, IsPlace
    <3> QED
      BY <3>1 DEF Next, Requests
  <2>3. CASE Cancels(p)
    BY <1>3, <2>3 DEF RollBack, Cancels, IsCancel
  <2>4. CASE Fills(p)
    <3>1. txn[p].id \in OrderIds /\ FillFails(txn[p].id)
      BY <1>3, <2>4 DEF RollBack, Fills, IsFill
    <3> QED
      BY <3>1 DEF Next, FeedFailure
  <2> QED
    BY <2>1, <2>2, <2>3, <2>4
<1>4. ASSUME NEW h \in Handlers, BeginPlace(h) PROVE [Next]_vars
  BY <1>4 DEF BeginPlace
<1>5. ASSUME NEW h \in Handlers, NEW u \in Users, NEW id \in OrderIds, BeginCancel(h, u, id)
      PROVE  [Next]_vars
  BY <1>5 DEF BeginCancel
<1>6. ASSUME NEW id \in OrderIds, BeginFill(id) PROVE [Next]_vars
  BY <1>6 DEF BeginFill
<1>7. ASSUME NEW id \in OrderIds, SkipOrder(id) PROVE Next
  BY <1>7 DEF SkipOrder, Next, FeedProgress
<1>8. ASSUME NEW p \in Procs, UpdateWallet(p) PROVE [Next]_vars
  BY <1>8 DEF UpdateWallet
<1>9. ASSUME NEW p \in Procs, UpdatesNothing(p) \/ StatementFails(p) \/ DeadlockVictim(p)
      PROVE  [Next]_vars
  <2>1. txn[p] # Nil /\ RollBack(p)
    BY <1>9 DEF UpdatesNothing, StatementFails, DeadlockVictim, WaitsFor
  <2> QED
    BY <1>3, <2>1
<1>10. CASE Others
  BY <1>10 DEF Others, Next, Requests, FeedProgress, FeedFailure
<1>11. CASE Crash
  BY <1>11 DEF Crash, Next
<1>12. CASE UNCHANGED txVars
  BY <1>12 DEF txVars
<1> QED
  BY <1>2, <1>4, <1>5, <1>6, <1>7, <1>8, <1>9, <1>10, <1>11, <1>12 DEF TxNext, GoesOn

-----------------------------------------------------------------------------
(* Each step keeps the invariant.                                           *)

\* What a transaction relies on: its own request or order, the rows of the
\* wallets it has locked, and the tick it is part of.
Undisturbed(p) ==
    /\ txn'[p] = txn[p]
    /\ p \in Handlers => request'[p] = request[p]
    /\ txn[p].id \in OrderIds => orders'[txn[p].id] = orders[txn[p].id]
    /\ p = Tick => /\ feed'.pc = feed.pc /\ feed'.price = feed.price
                   /\ txn[p].id \in feed.rows => txn[p].id \in feed'.rows
    /\ \A w \in DOMAIN txn[p].rows :
          Cell(balance', w) = Cell(balance, w) /\ Cell(locked', w) = Cell(locked, w)

LEMMA OpenKept ==
    ASSUME TxInv, OnGrid', NEW p \in Procs, txn[p] # Nil, Undisturbed(p)
    PROVE  IsOpen(p)'
<1>1. PICK t, b, l, c, d : /\ t = txn[p] /\ b = balance /\ l = locked
                           /\ c = balance' /\ d = locked'
  OBVIOUS
<1>2. /\ b \in GridColumns /\ l \in GridColumns /\ c \in GridColumns /\ d \in GridColumns
      /\ \A w \in DOMAIN t.rows : Cell(c, w) = Cell(b, w) /\ Cell(d, w) = Cell(l, w)
  BY <1>1 DEF TxInv, OnGrid, Undisturbed
<1>3. \A plan : Runs(t, plan, b, l) => Runs(t, plan, c, d)
  BY ONLY <1>2, RunKept
<1>4. txn'[p] = t /\ WellFormed(t) /\ (Places(p) \/ Cancels(p) \/ Fills(p))
  BY <1>1 DEF TxInv, IsOpen, Undisturbed
<1>5. CASE Places(p)
  <2>1. IsPlace(t, request[p], b, l) /\ p \in Handlers /\ request'[p] = request[p]
    BY <1>1, <1>5 DEF Places, Undisturbed
  <2>2. IsPlace(t, request[p], c, d)
    BY ONLY <1>3, <2>1 DEF IsPlace
  <2>3. Places(p)'
    BY <1>1, <1>4, <2>1, <2>2 DEF Places
  <2> QED
    BY <1>4, <2>3 DEF IsOpen
<1>6. CASE Cancels(p)
  <2>1. /\ IsCancel(t, orders[t.id], b, l) /\ p \in Handlers /\ t.id \in OrderIds
        /\ orders'[t.id] = orders[t.id] /\ Pending(t.id)
    BY <1>1, <1>6 DEF Cancels, Undisturbed
  <2>2. IsCancel(t, orders[t.id], c, d)
    BY ONLY <1>3, <2>1 DEF IsCancel
  <2>3. Cancels(p)'
    BY <1>1, <1>4, <2>1, <2>2 DEF Cancels, Pending, Placed
  <2> QED
    BY <1>4, <2>3 DEF IsOpen
<1>7. CASE Fills(p)
  <2>1. /\ IsFill(t, orders[t.id], feed.price, b, l) /\ p = Tick /\ t.id \in OrderIds
        /\ orders'[t.id] = orders[t.id] /\ Pending(t.id) /\ feed'.pc = "fill"
        /\ feed'.price = feed.price /\ t.id \in feed'.rows
    BY <1>1, <1>7 DEF Fills, Undisturbed
  <2>2. IsFill(t, orders[t.id], feed.price, c, d)
    BY ONLY <1>3, <2>1 DEF IsFill
  <2>3. Fills(p)'
    BY <1>1, <1>4, <2>1, <2>2 DEF Fills, Pending, Placed
  <2> QED
    BY <1>4, <2>3 DEF IsOpen
<1> QED
  BY <1>4, <1>5, <1>6, <1>7

\* Nothing is committed: nobody is disturbed but by the tick or by his request.
LEMMA Calm ==
    ASSUME TxInv, UNCHANGED dbVars
    PROVE  /\ OnGrid' /\ FreshIds' = FreshIds
           /\ \A p \in Procs :
                 (/\ txn'[p] = txn[p]
                  /\ p \in Handlers => request'[p] = request[p]
                  /\ p = Tick => /\ feed'.pc = feed.pc /\ feed'.price = feed.price
                                 /\ txn[p].id \in feed.rows => txn[p].id \in feed'.rows)
                 => Undisturbed(p)
BY DEF TxInv, OnGrid, FreshIds, dbVars, Undisturbed

\* The ids that are left, when none is handed out.
LEMMA IdsKept ==
    ASSUME TxInv, FreshIds' = FreshIds, NEW p,
           \A q \in Handlers : q # p => (HasOrder(q, Nil)' => HasOrder(q, Nil)),
           p \in Placing' => Cardinality(FreshIds) > Cardinality(Placing)
    PROVE  IdsLeft'
<1>1. PICK A, B, F : A = Placing /\ B = Placing' /\ F = FreshIds
  OBVIOUS
<1>2. IsFiniteSet(A) /\ IsFiniteSet(F) /\ B \subseteq A \cup {p}
  <2>1. A \subseteq Handlers /\ F \subseteq OrderIds
    BY <1>1 DEF Placing, FreshIds
  <2>2. B \subseteq A \cup {p}
    BY <1>1 DEF Placing
  <2> QED
    BY <2>1, <2>2, FS_Subset, TxAssumption, AuditAssumption
<1>3. /\ Cardinality(A) <= Cardinality(F)
      /\ Cardinality(A) \in Nat /\ Cardinality(F) \in Nat
      /\ p \in B => Cardinality(F) > Cardinality(A)
  BY <1>1, <1>2, FS_CardinalityType DEF TxInv, IdsLeft
<1>4. Cardinality(B) <= Cardinality(F) /\ Cardinality(B) \in Nat
  <2>1. CASE p \in B
    <3>1. Cardinality(A \cup {p}) <= Cardinality(A) + 1 /\ IsFiniteSet(A \cup {p})
      <4>1. /\ IsFiniteSet(A \cup {p})
            /\ Cardinality(A \cup {p}) = IF p \in A THEN Cardinality(A) ELSE Cardinality(A) + 1
        BY ONLY <1>2, FS_AddElement
      <4> QED
        BY ONLY <1>3, <4>1
    <3>2. Cardinality(B) <= Cardinality(A \cup {p}) /\ IsFiniteSet(B)
      BY <1>2, <3>1, FS_Subset
    <3>3. Cardinality(B) \in Nat /\ Cardinality(A \cup {p}) \in Nat
      BY <3>1, <3>2, FS_CardinalityType
    <3> QED
      BY <1>3, <2>1, <3>1, <3>2, <3>3
  <2>2. CASE p \notin B
    <3>1. Cardinality(B) <= Cardinality(A) /\ IsFiniteSet(B)
      BY <1>2, <2>2, FS_Subset
    <3>2. Cardinality(B) \in Nat
      BY <3>1, FS_CardinalityType
    <3> QED
      BY <1>3, <3>1, <3>2
  <2> QED
    BY <2>1, <2>2
<1>5. Placing' = B /\ FreshIds' = F
  BY <1>1
<1> QED
  BY <1>4, <1>5 DEF IdsLeft

\* A transaction begins: its order is nobody else's, or an id is left for it.
LEMMA BeginKeeps ==
    ASSUME TxInv, NEW p \in Procs, txn[p] = Nil, NEW t, t.rows = <<>>,
           txn' = [txn EXCEPT ![p] = t], UNCHANGED vars, IsOpen(p)',
           t.id # Nil => OrderIsFree(t.id),
           t.id = Nil => Cardinality(FreshIds) > Cardinality(Placing)
    PROVE  TxInv'
<1>1. UNCHANGED dbVars /\ request' = request /\ feed' = feed
  BY DEF vars, dbVars
<1>2. IInv'
  BY NextInv DEF TxInv
<1>3. txn'[p] = t /\ \A q \in Procs : q # p => txn'[q] = txn[q]
  BY DEF TxInv
<1>4. ASSUME NEW q \in Procs, txn'[q] # Nil PROVE IsOpen(q)'
  <2>1. CASE q = p
    BY <2>1
  <2>2. CASE q # p
    BY <1>1, <1>3, <1>4, <2>2, Calm, OpenKept
  <2> QED
    BY <2>1, <2>2
<1>5. RowsApart'
  <2>1. \A q \in Procs, w \in Wallets : HasWallet(q, w)' => q # p /\ HasWallet(q, w)
    BY <1>3 DEF HasWallet
  <2> QED
    BY <2>1 DEF RowsApart, TxInv
<1>6. OrdersApart'
  <2>1. \A q \in Procs, id \in OrderIds :
          HasOrder(q, id)' => IF q = p THEN t.id = id ELSE HasOrder(q, id)
    BY <1>3 DEF HasOrder
  <2>2. \A q \in Procs, id \in OrderIds : t.id = id => ~HasOrder(q, id)
    BY TxAssumption DEF OrderIsFree
  <2> QED
    BY <2>1, <2>2 DEF OrdersApart, TxInv
<1>7. IdsLeft'
  <2>1. \A q \in Handlers : q # p => (HasOrder(q, Nil)' => HasOrder(q, Nil))
    BY <1>3 DEF HasOrder, Procs
  <2>2. p \in Placing' => t.id = Nil
    BY <1>3 DEF Placing, HasOrder
  <2> QED
    BY <1>1, <2>1, <2>2, Calm, IdsKept
<1> QED
  BY <1>1, <1>2, <1>4, <1>5, <1>6, <1>7, Calm DEF TxInv

\* What all open transactions have in common.
LEMMA OpenIs ==
    ASSUME TxInv, NEW p \in Procs, txn[p] # Nil
    PROVE  /\ WellFormed(txn[p]) /\ \E plan : Runs(txn[p], plan, balance, locked)
           /\ txn[p].todo \in Seq(Updates) /\ DOMAIN txn[p].rows \subseteq Wallets
           /\ txn[p].id \in OrderIds \cup {Nil}
           /\ txn[p].kind # "place" => Pending(txn[p].id)
<1>1. WellFormed(txn[p]) /\ (Places(p) \/ Cancels(p) \/ Fills(p))
  BY DEF TxInv, IsOpen
<1>2. PICK plan : Runs(txn[p], plan, balance, locked)
  BY <1>1 DEF Places, Cancels, Fills, IsPlace, IsCancel, IsFill
<1>3. txn[p].todo \in Seq(Updates) /\ DOMAIN txn[p].rows \subseteq Wallets
  BY <1>2 DEF Runs, Run, TodoIs, RowsAre
<1>4. /\ txn[p].id \in OrderIds \cup {Nil}
      /\ txn[p].kind # "place" => Pending(txn[p].id)
  BY <1>1 DEF Places, Cancels, Fills, IsPlace
<1> QED
  BY <1>1, <1>2, <1>3, <1>4

\* The next statement of a transaction.
LEMMA UpdateKeeps ==
    ASSUME TxInv, NEW p \in Procs, UpdateWallet(p)
    PROVE  TxInv'
<1>1. PICK t, s, b, l, old : /\ t = txn[p] /\ s = Head(t.todo) /\ b = balance /\ l = locked
                             /\ old = SeenBy(t, b, l, s.wallet)
  OBVIOUS
<1>2. txn[p] # Nil /\ t.todo # <<>> /\ UNCHANGED vars /\ UNCHANGED dbVars
  BY <1>1 DEF UpdateWallet, vars, dbVars
<1>3. PICK u : /\ u = txn'[p]
               /\ u.kind = t.kind /\ u.id = t.id /\ u.row = t.row /\ WellFormed(u)
               /\ u.todo = Tail(t.todo)
               /\ u.rows = [w \in DOMAIN t.rows \cup {s.wallet} |->
                              IF w = s.wallet
                              THEN [free |-> StoredAmount(old.free + s.free),
                                    held |-> StoredAmount(old.held + s.held)]
                              ELSE t.rows[w]]
  <2>1. old = Sees(p, s.wallet)
    BY <1>1, <1>2, SeenIs
  <2>2. WellFormed(t)
    <3>1. WellFormed(txn[p])
      BY ONLY <1>2, TxInv, p \in Procs, OpenIs, Zenon
    <3> QED
      BY ONLY <1>1, <3>1
  <2>3. txn' = [txn EXCEPT ![p].todo = Tail(@),
                           ![p].rows = [w \in DOMAIN @ \cup {s.wallet} |->
                               IF w = s.wallet
                               THEN [free |-> StoredAmount(old.free + s.free),
                                     held |-> StoredAmount(old.held + s.held)]
                               ELSE @[w]]]
    BY ONLY <1>1, <2>1, UpdateWallet(p) DEF UpdateWallet
  <2>4. txn'[p] = [t EXCEPT !.todo = Tail(@),
                            !.rows = [w \in DOMAIN @ \cup {s.wallet} |->
                               IF w = s.wallet
                               THEN [free |-> StoredAmount(old.free + s.free),
                                     held |-> StoredAmount(old.held + s.held)]
                               ELSE @[w]]]
    <3>1. txn = [q \in Procs |-> txn[q]]
      BY ONLY TxInv, TxParts, Zenon
    <3> QED
      BY ONLY <1>1, <2>3, <3>1, p \in Procs
  <2> QED
    BY <2>2, <2>4 DEF WellFormed
<1>4. \A q \in Procs : q # p => txn'[q] = txn[q]
  BY DEF UpdateWallet, TxInv
<1>5. /\ s.wallet \in Wallets /\ DOMAIN u.rows = DOMAIN t.rows \cup {s.wallet}
      /\ \A q \in Procs \ {p} : ~HasWallet(q, s.wallet)
  <2>1. t.todo \in Seq(Updates)
    BY <1>1, <1>2, OpenIs
  <2>2. s \in Updates
    BY <1>1, <1>2, <2>1
  <2>3. MayUpdate(p, s.wallet)
    BY <1>1 DEF UpdateWallet
  <2> QED
    BY <1>3, <2>2, <2>3, UpdateParts DEF MayUpdate, WalletIsFree
<1>6. IsOpen(p)'
  <2>1. \A plan : Runs(t, plan, b, l) => Runs(u, plan, b, l)
    <3>1. s.needs # Nil => old.free >= s.needs
      BY <1>1, <1>2, SeenIs DEF UpdateWallet, Passes
    <3>2. b \in GridColumns /\ l \in GridColumns
      BY ONLY <1>1, TxInv, TxParts
    <3> QED
      BY ONLY <1>1, <1>2, <1>3, <3>1, <3>2, RunGoesOn
  <2>2. /\ \A r : IsPlace(t, r, b, l) => IsPlace(u, r, b, l)
        /\ \A o : IsCancel(t, o, b, l) => IsCancel(u, o, b, l)
        /\ \A o, at : IsFill(t, o, at, b, l) => IsFill(u, o, at, b, l)
    <3>1. ASSUME NEW r PROVE IsPlace(t, r, b, l) => IsPlace(u, r, b, l)
      BY ONLY <1>3, <2>1 DEF IsPlace
    <3>2. ASSUME NEW o PROVE IsCancel(t, o, b, l) => IsCancel(u, o, b, l)
      BY ONLY <1>3, <2>1 DEF IsCancel
    <3>3. ASSUME NEW o, NEW at PROVE IsFill(t, o, at, b, l) => IsFill(u, o, at, b, l)
      BY ONLY <1>3, <2>1 DEF IsFill
    <3> QED
      BY ONLY <3>1, <3>2, <3>3
  <2>3. /\ txn'[p] = u /\ balance' = b /\ locked' = l /\ request' = request /\ orders' = orders
        /\ feed' = feed
    BY <1>1, <1>2, <1>3 DEF vars
  <2>4. \A id \in OrderIds : Pending(id) => Pending(id)'
    BY <2>3 DEF Pending, Placed
  <2>5. Places(p) \/ Cancels(p) \/ Fills(p)
    BY <1>2 DEF TxInv, IsOpen
  <2>6. Places(p) => Places(p)'
    BY <1>1, <2>2, <2>3 DEF Places
  <2>7. Cancels(p) => Cancels(p)'
    BY <1>1, <1>3, <2>2, <2>3, <2>4 DEF Cancels
  <2>8. Fills(p) => Fills(p)'
    BY <1>1, <1>3, <2>2, <2>3, <2>4 DEF Fills
  <2> QED
    BY <1>3, <2>3, <2>5, <2>6, <2>7, <2>8 DEF IsOpen
<1>7. ASSUME NEW q \in Procs, txn'[q] # Nil PROVE IsOpen(q)'
  <2>1. CASE q = p
    BY <1>6, <2>1
  <2>2. CASE q # p
    <3>1. request' = request /\ feed' = feed
      BY <1>2 DEF vars
    <3> QED
      BY <1>2, <1>4, <1>7, <2>2, <3>1, Calm, OpenKept
  <2> QED
    BY <2>1, <2>2
<1>8. RowsApart'
  <2>1. \A q \in Procs, w \in Wallets : HasWallet(q, w)' => HasWallet(q, w) \/ (q = p /\ w = s.wallet)
    <3>1. ASSUME NEW q \in Procs, NEW w \in Wallets, HasWallet(q, w)'
          PROVE  HasWallet(q, w) \/ (q = p /\ w = s.wallet)
      <4>1. CASE q = p
        <5>1. w \in DOMAIN u.rows
          BY ONLY <1>3, <3>1, <4>1 DEF HasWallet
        <5>2. w \in DOMAIN t.rows => HasWallet(q, w)
          BY ONLY <1>1, <1>2, <4>1 DEF HasWallet
        <5> QED
          BY ONLY <1>5, <4>1, <5>1, <5>2
      <4>2. CASE q # p
        <5>1. txn'[q] = txn[q]
          BY ONLY <1>4, <3>1, <4>2
        <5>2. HasWallet(q, w)
          BY ONLY <3>1, <5>1 DEF HasWallet
        <5> QED
          BY ONLY <5>2
      <4> QED
        BY <4>1, <4>2
    <3> QED
      BY <3>1
  <2> QED
    BY <1>5, <2>1 DEF RowsApart, TxInv
<1>9. \A q \in Procs : \A id : HasOrder(q, id)' => HasOrder(q, id)
  BY <1>1, <1>2, <1>3, <1>4 DEF HasOrder
<1>10. OrdersApart'
  BY <1>9 DEF OrdersApart, TxInv
<1>11. IdsLeft'
  <2>1. \A q \in Handlers : HasOrder(q, Nil)' => HasOrder(q, Nil)
    BY <1>9 DEF Procs
  <2>2. PICK x : x \notin Placing'
    BY TxAssumption DEF Placing
  <2> QED
    BY <1>2, <2>1, <2>2, Calm, IdsKept
<1>12. IInv' /\ OnGrid'
  <2>1. IInv
    BY ONLY TxInv, TxParts, Zenon
  <2> QED
    BY ONLY <1>2, <2>1, TxInv, NextInv, Calm
<1>13. txn' = [q \in Procs |-> txn'[q]]
  BY DEF UpdateWallet, TxInv
<1> QED
  BY <1>7, <1>8, <1>10, <1>11, <1>12, <1>13 DEF TxInv

\* A transaction ends, and disturbs no other.
LEMMA EndKeeps ==
    ASSUME TxInv, NEW p \in Procs, txn' = [txn EXCEPT ![p] = Nil], IInv', OnGrid', IdsLeft',
           \A q \in Procs : q # p /\ txn[q] # Nil => Undisturbed(q)
    PROVE  TxInv'
<1>1. \A q \in Procs : txn'[q] # Nil => q # p /\ txn'[q] = txn[q]
  BY DEF TxInv
<1>2. \A q \in Procs : txn'[q] # Nil => IsOpen(q)'
  BY <1>1, OpenKept
<1>3. \A q \in Procs : \A w : HasWallet(q, w)' => HasWallet(q, w)
  BY <1>1 DEF HasWallet
<1>4. \A q \in Procs : \A id : HasOrder(q, id)' => HasOrder(q, id)
  BY <1>1 DEF HasOrder
<1>5. RowsApart' /\ OrdersApart'
  BY <1>3, <1>4 DEF RowsApart, OrdersApart, TxInv
<1>6. txn' = [q \in Procs |-> txn'[q]]
  BY DEF TxInv
<1> QED
  BY <1>2, <1>5, <1>6 DEF TxInv

\* What a transaction writes is a row of the orders table.
LEMMA RowIsOne ==
    ASSUME TxInv, NEW p \in Procs, txn[p] # Nil
    PROVE  txn[p].row \in OrderRows
<1>1. /\ TablesOK /\ MemoryOK /\ OpenOrdersRest /\ (Places(p) \/ Cancels(p) \/ Fills(p))
  BY DEF TxInv, IInv, EngineInv, IsOpen
<1>2. ASSUME NEW o \in OrderRows, NEW s \in Status
      PROVE  /\ [o EXCEPT !.status = s] \in OrderRows
             /\ \A f \in StoredPrices : [o EXCEPT !.status = s, !.filled_price = f] \in OrderRows
  BY DEF OrderRows
<1>3. CASE Places(p)
  <2>1. PICK a \in OrderArgs, at \in Prices : txn[p].row = PlacedRow(a, at)
    BY <1>1, <1>3, RequestType DEF Places, IsPlace
  <2>2. InsertedRow(a) \in OrderRows /\ StoredInput(at) \in StoredPrices
    BY ArgsLike, PriceTypes
  <2> QED
    BY <1>2, <2>1, <2>2 DEF PlacedRow, FilledRow, Status
<1>4. CASE Cancels(p)
  <2>1. PICK o : o = orders[txn[p].id] /\ o \in OrderRows /\ txn[p].row = [o EXCEPT !.status = "CANCELLED"]
    BY <1>1, <1>4, RowType DEF Cancels, IsCancel, Pending
  <2> QED
    BY <1>2, <2>1 DEF Status
<1>5. CASE Fills(p)
  <2>1. PICK o, at : /\ o = orders[txn[p].id] /\ at = FillPrice(o, feed.price) /\ txn[p].row = FilledRow(o, at)
    BY <1>5 DEF Fills, IsFill
  <2>2. /\ txn[p].id \in OrderIds /\ Pending(txn[p].id) /\ feed.price \in Prices
        /\ Resting(txn[p].id) /\ Placed(txn[p].id)
    BY <1>1, <1>5 DEF Fills, MemoryOK, OpenOrdersRest, Pending
  <2>3. o \in OrderRows /\ o.trigger \in StoredPrices
    BY <1>1, <2>1, <2>2, RowType
  <2>4. StoredInput(at) \in StoredPrices
    <3>1. \A x \in StoredPrices : StoredInput(x) \in StoredPrices
      BY StoredInputNat, OrderEngineAssumption DEF StoredPrices
    <3> QED
      BY <2>1, <2>2, <2>3, <3>1, PriceTypes DEF FillPrice
  <2>5. FilledRow(o, at) \in OrderRows
    <3>1. "FILLED" \in Status
      BY DEF Status
    <3>2. [o EXCEPT !.status = "FILLED", !.filled_price = StoredInput(at)] \in OrderRows
      BY ONLY <1>2, <2>3, <2>4, <3>1
    <3> QED
      BY ONLY <3>2 DEF FilledRow
  <2> QED
    BY ONLY <2>1, <2>5
<1> QED
  BY <1>1, <1>3, <1>4, <1>5

\* ROLLBACK.
LEMMA RollBackKeeps ==
    ASSUME TxInv, IInv', NEW p \in Procs, txn[p] # Nil, RollBack(p)
    PROVE  TxInv'
<1>1. txn' = [txn EXCEPT ![p] = Nil] /\ \A q \in Procs : q # p => txn'[q] = txn[q]
  BY DEF RollBack, RolledBackTx, TxInv
<1>2. Places(p) \/ Cancels(p) \/ Fills(p)
  BY DEF TxInv, IsOpen
<1>3. /\ UNCHANGED dbVars
      /\ \A q \in Handlers : q # p => request'[q] = request[q]
      /\ p # Tick => feed' = feed
  <2>1. CASE Places(p)
    <3>1. RejectOrder(p) /\ p \in Handlers
      BY <2>1 DEF RollBack, Places, IsPlace
    <3>2. request \in [Handlers -> [args : OrderArgs, latest : Prices] \cup {Nil}]
      BY DEF TxInv, IInv, EngineInv, MemoryOK
    <3> QED
      BY <3>1, <3>2 DEF RejectOrder
  <2>2. CASE Cancels(p)
    BY <2>2 DEF RollBack, Cancels, IsCancel, vars, dbVars
  <2>3. CASE Fills(p)
    BY <2>3 DEF RollBack, Fills, IsFill, FillFails
  <2> QED
    BY <1>2, <2>1, <2>2, <2>3
<1>4. OnGrid' /\ FreshIds' = FreshIds /\ \A q \in Procs : q # p /\ txn[q] # Nil => Undisturbed(q)
  BY <1>1, <1>3, Calm
<1>5. IdsLeft'
  <2>1. \A q \in Handlers : q # p => (HasOrder(q, Nil)' => HasOrder(q, Nil))
    BY <1>1 DEF HasOrder, Procs
  <2>2. p \notin Placing'
    BY <1>1 DEF Placing, HasOrder, TxInv
  <2> QED
    BY <1>4, <2>1, <2>2, IdsKept
<1> QED
  BY <1>1, <1>4, <1>5, EndKeeps

\* COMMIT writes no row that another transaction has.
LEMMA CommitApart ==
    ASSUME TxInv, NEW p \in Procs, Commit(p), OnGrid', NEW q \in Procs, q # p, txn[q] # Nil
    PROVE  \A w \in DOMAIN txn[q].rows :
              Cell(balance', w) = Cell(balance, w) /\ Cell(locked', w) = Cell(locked, w)
<1> SUFFICES ASSUME NEW w \in DOMAIN txn[q].rows
             PROVE  Cell(balance', w) = Cell(balance, w) /\ Cell(locked', w) = Cell(locked, w)
  OBVIOUS
<1>1. txn[p] # Nil /\ balance' = SeenFree(p) /\ locked' = SeenHeld(p)
  BY DEF Commit
<1>2. w \in Wallets
  BY OpenIs
<1>3. ~HasWallet(p, w)
  BY <1>2 DEF TxInv, RowsApart, HasWallet
<1>4. PICK u \in Users, a \in Assets : w = <<u, a>>
  BY <1>2 DEF Wallets
<1>5. Sees(p, <<u, a>>).free = balance[u][a] /\ Sees(p, <<u, a>>).held = locked[u][a]
  BY <1>3, <1>4 DEF Sees
<1> QED
  BY <1>1, <1>4, <1>5 DEF Cell, SeenFree, SeenHeld

\* The order a transaction ends, or the id it is given: nobody else's.
Ends(p) == IF txn[p].id = Nil THEN NextId ELSE txn[p].id

LEMMA EndsIs ==
    ASSUME TxInv, NEW p \in Procs, Commit(p)
    PROVE  /\ Ends(p) \in OrderIds
           /\ \A q \in Procs : q # p /\ txn[q] # Nil => txn[q].id # Ends(p)
           /\ IF txn[p].kind = "place" THEN orders[Ends(p)] = Nil ELSE orders[Ends(p)] # Nil
           /\ (txn[p].kind = "place") <=> (txn[p].id = Nil)
           /\ txn[p].kind = "fill" => p = Tick
           /\ txn[p].kind = "place" => p \in Handlers
<1>1. txn[p] # Nil /\ (Places(p) \/ Cancels(p) \/ Fills(p))
  BY DEF TxInv, IsOpen, Commit
<1>2. CASE Places(p)
  <2>1. FreshIds # {} /\ txn[p].kind = "place" /\ txn[p].id = Nil /\ p \in Handlers
    BY <1>1, <1>2, IdIsLeft DEF Places, IsPlace
  <2>2. Ends(p) = NextId /\ NextId \in OrderIds /\ orders[NextId] = Nil /\ ~Placed(NextId)
    BY <2>1, NextIdFresh DEF Ends
  <2>3. ASSUME NEW q \in Procs, q # p, txn[q] # Nil PROVE txn[q].id # NextId
    <3>1. txn[q].kind # "place" => Placed(txn[q].id)
      BY <2>3, OpenIs DEF Pending
    <3>2. txn[q].kind = "place" => txn[q].id = Nil
      BY <2>3 DEF TxInv, IsOpen, Places, Cancels, Fills, IsPlace, IsCancel, IsFill
    <3> QED
      BY <2>2, <3>1, <3>2, TxAssumption
  <2> QED
    BY <2>1, <2>2, <2>3
<1>3. CASE Cancels(p) \/ Fills(p)
  <2>1. /\ txn[p].kind # "place" /\ txn[p].id \in OrderIds /\ Pending(txn[p].id)
        /\ txn[p].kind = "fill" => p = Tick
    BY <1>3 DEF Cancels, Fills, IsCancel, IsFill
  <2>2. txn[p].id # Nil /\ Ends(p) = txn[p].id /\ orders[Ends(p)] # Nil
    BY <2>1, TxAssumption DEF Ends, Pending, Placed
  <2>3. \A q \in Procs : q # p /\ txn[q] # Nil => txn[q].id # Ends(p)
    BY <1>1, <2>1, <2>2 DEF TxInv, OrdersApart, HasOrder
  <2> QED
    BY <2>1, <2>2, <2>3
<1> QED
  BY <1>1, <1>2, <1>3

\* COMMIT.
LEMMA CommitKeeps ==
    ASSUME TxInv, IInv', NEW p \in Procs, Commit(p)
    PROVE  TxInv'
<1>1. txn[p] # Nil /\ (Places(p) \/ Cancels(p) \/ Fills(p))
  BY DEF TxInv, IsOpen, Commit
<1>2. OnGrid'
  BY <1>1, CommitPlaces, CommitCancels, CommitFills
<1>3. /\ txn' = [txn EXCEPT ![p] = Nil] /\ \A q \in Procs : q # p => txn'[q] = txn[q]
      /\ orders' = [orders EXCEPT ![Ends(p)] = txn[p].row]
      /\ request' = IF txn[p].kind = "place" THEN [request EXCEPT ![p] = Nil] ELSE request
      /\ feed' = IF txn[p].kind = "fill" THEN [feed EXCEPT !.rows = @ \ {Ends(p)}] ELSE feed
  BY DEF Commit, Ends, TxInv
<1>4. /\ orders \in [OrderIds -> OrderRows \cup {Nil}]
      /\ request \in [Handlers -> [args : OrderArgs, latest : Prices] \cup {Nil}]
  BY DEF TxInv, IInv, EngineInv, TablesOK, MemoryOK
<1>5. /\ Ends(p) \in OrderIds /\ \A q \in Procs : q # p /\ txn[q] # Nil => txn[q].id # Ends(p)
      /\ IF txn[p].kind = "place" THEN orders[Ends(p)] = Nil ELSE orders[Ends(p)] # Nil
      /\ (txn[p].kind = "place") <=> (txn[p].id = Nil)
      /\ txn[p].kind = "fill" => p = Tick
      /\ txn[p].kind = "place" => p \in Handlers
  BY EndsIs
<1>6. ASSUME NEW q \in Procs, q # p, txn[q] # Nil PROVE Undisturbed(q)
  <2>1. txn'[q] = txn[q] /\ txn[q].id # Ends(p)
    BY <1>3, <1>5, <1>6
  <2>2. q \in Handlers => request'[q] = request[q]
    BY <1>3, <1>4, <1>6
  <2>3. txn[q].id \in OrderIds => orders'[txn[q].id] = orders[txn[q].id]
    BY <1>3, <1>4, <2>1
  <2>4. q = Tick => feed' = feed
    BY <1>3, <1>5, <1>6
  <2>5. \A w \in DOMAIN txn[q].rows : Cell(balance', w) = Cell(balance, w) /\ Cell(locked', w) = Cell(locked, w)
    BY <1>2, <1>6, CommitApart
  <2> QED
    BY <2>1, <2>2, <2>3, <2>4, <2>5 DEF Undisturbed
<1>7. txn[p].row \in OrderRows /\ txn[p].row # Nil
  BY <1>1, RowIsOne, NilAssumption
<1>8. \A q \in Handlers : HasOrder(q, Nil)' => HasOrder(q, Nil) /\ q # p
  BY <1>3 DEF HasOrder, Procs, TxInv
<1>9. IdsLeft'
  <2>1. CASE txn[p].kind # "place"
    <3>1. \A id \in OrderIds : orders'[id] = Nil <=> orders[id] = Nil
      BY <1>3, <1>4, <1>5, <1>7, <2>1
    <3>2. FreshIds' = FreshIds
      BY <3>1 DEF FreshIds
    <3>3. p \notin Placing'
      BY <1>3 DEF Placing, HasOrder, TxInv
    <3> QED
      BY <1>8, <3>2, <3>3, IdsKept
  <2>2. CASE txn[p].kind = "place"
    <3>1. PICK A, B, F, G, id : /\ A = Placing /\ B = Placing' /\ F = FreshIds /\ G = FreshIds'
                                /\ id = Ends(p)
      OBVIOUS
    <3>2. B \subseteq A \ {p} /\ p \in A
      BY <1>1, <1>5, <1>8, <2>2, <3>1 DEF Placing, HasOrder
    <3>3. G = F \ {id} /\ id \in F
      <4>1. \A i \in OrderIds : orders'[i] = Nil <=> orders[i] = Nil /\ i # id
        BY <1>3, <1>4, <1>5, <1>7, <2>2, <3>1
      <4>2. id \in OrderIds /\ orders[id] = Nil
        BY <1>5, <2>2, <3>1
      <4> QED
        BY <3>1, <4>1, <4>2 DEF FreshIds
    <3>4. IsFiniteSet(A) /\ IsFiniteSet(F)
      BY <3>1, FS_Subset, TxAssumption, AuditAssumption DEF Placing, FreshIds
    <3>5. Cardinality(A) <= Cardinality(F) /\ Cardinality(A) \in Nat /\ Cardinality(F) \in Nat
      BY <3>1, <3>4, FS_CardinalityType DEF TxInv, IdsLeft
    <3>6. Cardinality(G) = Cardinality(F) - 1
      BY ONLY <3>3, <3>4, FS_RemoveElement
    <3>7. Cardinality(A \ {p}) = Cardinality(A) - 1 /\ IsFiniteSet(A \ {p})
      BY ONLY <3>2, <3>4, FS_RemoveElement
    <3>8. Cardinality(B) <= Cardinality(A \ {p}) /\ IsFiniteSet(B)
      BY ONLY <3>2, <3>7, FS_Subset
    <3>9. Cardinality(B) \in Nat
      BY ONLY <3>8, FS_CardinalityType
    <3>10. Cardinality(B) <= Cardinality(G)
      BY ONLY <3>5, <3>6, <3>7, <3>8, <3>9
    <3> QED
      BY <3>1, <3>10 DEF IdsLeft
  <2> QED
    BY <2>1, <2>2
<1> QED
  BY <1>2, <1>3, <1>6, <1>9, EndKeeps

\* A transaction that begins is on what it has just read.
LEMMA BeginIs ==
    ASSUME TxInv, NEW p \in Procs, UNCHANGED vars, NEW t, t.todo \in Seq(Updates), t.rows = <<>>,
           txn' = [txn EXCEPT ![p] = t]
    PROVE  /\ txn'[p] = t /\ Runs(t, t.todo, balance, locked)
           /\ balance' = balance /\ locked' = locked /\ orders' = orders
           /\ request' = request /\ feed' = feed
<1>1. PICK b, l, plan : b = balance /\ l = locked /\ plan = t.todo
  OBVIOUS
<1>2. b \in GridColumns /\ l \in GridColumns /\ plan \in Seq(Updates)
  BY <1>1 DEF TxInv, OnGrid
<1>3. Runs(t, plan, b, l)
  BY ONLY <1>1, <1>2, t.rows = <<>>, RunStarts
<1> QED
  BY <1>1, <1>3 DEF TxInv, vars

\* BEGIN, for each of the three.
LEMMA BeginPlaceKeeps ==
    ASSUME TxInv, NEW h \in Handlers, BeginPlace(h)
    PROVE  TxInv'
<1>1. PICK a, at, plan, t : /\ a = request[h].args /\ at = request[h].latest
                            /\ plan = Placement(a, at)
                            /\ t = Open("place", Nil, PlacedRow(a, at), plan)
  OBVIOUS
<1>2. /\ request[h] # Nil /\ txn[h] = Nil /\ txn' = [txn EXCEPT ![h] = t] /\ UNCHANGED vars
      /\ Cardinality(FreshIds) > Cardinality(Placing) /\ h \in Procs
  BY <1>1 DEF BeginPlace, Placing, Procs
<1>3. plan \in Seq(Updates)
  <2>1. a \in OrderArgs /\ at \in Prices
    BY <1>1, <1>2, RequestType DEF TxInv, IInv, EngineInv
  <2> QED
    BY <1>1, <2>1, PlacementSteps
<1>4. /\ t.id = Nil /\ t.rows = <<>> /\ t.kind = "place" /\ t.row = PlacedRow(a, at)
      /\ t.todo = plan /\ WellFormed(t)
  BY <1>1 DEF Open, WellFormed
<1>5. /\ txn'[h] = t /\ Runs(t, plan, balance, locked)
      /\ balance' = balance /\ locked' = locked /\ request' = request
  BY <1>2, <1>3, <1>4, BeginIs
<1>6. IsPlace(t, request[h], balance, locked)
  BY <1>1, <1>2, <1>4, <1>5 DEF IsPlace
<1>7. IsOpen(h)'
  BY <1>4, <1>5, <1>6 DEF IsOpen, Places
<1> QED
  BY <1>2, <1>4, <1>7, BeginKeeps

LEMMA BeginCancelKeeps ==
    ASSUME TxInv, NEW h \in Handlers, NEW u \in Users, NEW id \in OrderIds, BeginCancel(h, u, id)
    PROVE  TxInv'
<1>1. PICK o, plan, t : /\ o = orders[id] /\ plan = <<UnlockFunds(o, LockAmount(o, o.trigger))>>
                        /\ t = Open("cancel", id, [o EXCEPT !.status = "CANCELLED"], plan)
  OBVIOUS
<1>2. /\ txn[h] = Nil /\ txn' = [txn EXCEPT ![h] = t] /\ UNCHANGED vars /\ h \in Procs
      /\ OrderIsFree(id) /\ Pending(id)
  BY <1>1 DEF BeginCancel, MayCancel, Procs, Pending, Placed
<1>3. plan \in Seq(Updates)
  <2>1. TablesOK /\ Placed(id) /\ Resting(id)
    BY <1>2 DEF TxInv, IInv, EngineInv, OpenOrdersRest, Pending
  <2>2. o \in OrderRows /\ o.trigger \in Nat
    BY <1>1, <2>1, RowType
  <2>3. /\ o.user \in Users /\ LockAsset(o) \in Assets /\ LockAmount(o, o.trigger) \in Int
        /\ -LockAmount(o, o.trigger) \in Int
    BY <2>2, RowLike DEF OrderLike
  <2>4. UnlockFunds(o, LockAmount(o, o.trigger)) \in Updates
    BY <2>3, UpdateIs DEF UnlockFunds
  <2> QED
    BY <1>1, <2>4
<1>4. /\ t.id = id /\ t.rows = <<>> /\ t.kind = "cancel" /\ t.row = [o EXCEPT !.status = "CANCELLED"]
      /\ t.todo = plan /\ WellFormed(t)
  BY <1>1 DEF Open, WellFormed
<1>5. /\ txn'[h] = t /\ Runs(t, plan, balance, locked)
      /\ balance' = balance /\ locked' = locked /\ orders' = orders
  BY <1>2, <1>3, <1>4, BeginIs
<1>6. IsCancel(t, o, balance, locked)
  BY <1>1, <1>4, <1>5 DEF IsCancel
<1>7. IsOpen(h)'
  BY <1>1, <1>2, <1>4, <1>5, <1>6 DEF IsOpen, Cancels, Pending, Placed
<1> QED
  BY <1>2, <1>4, <1>7, TxAssumption, BeginKeeps

LEMMA BeginFillKeeps ==
    ASSUME TxInv, NEW id \in OrderIds, BeginFill(id)
    PROVE  TxInv'
<1>1. PICK o, at, plan, t : /\ o = orders[id] /\ at = FillPrice(o, feed.price)
                            /\ plan = Settlement(o, LockAmount(o, o.trigger), at)
                            /\ t = Open("fill", id, FilledRow(o, at), plan)
  OBVIOUS
<1>2. /\ txn[Tick] = Nil /\ txn' = [txn EXCEPT ![Tick] = t] /\ UNCHANGED vars /\ Tick \in Procs
      /\ OrderIsFree(id) /\ Triggers(o, feed.price) /\ feed.pc = "fill" /\ id \in feed.rows
  BY <1>1 DEF BeginFill, FillMayRead, Procs
<1>3. /\ TablesOK /\ Placed(id) /\ Resting(id) /\ Pending(id) /\ feed.price \in Prices
  BY <1>2 DEF BeginFill, StillPending, TxInv, IInv, EngineInv, OpenOrdersRest, Pending, MemoryOK, Resting
<1>4. plan \in Seq(Updates)
  <2>1. o \in OrderRows /\ o.trigger \in Nat /\ at \in Nat
    BY <1>1, <1>3, RowType, PriceTypes DEF FillPrice
  <2>2. OrderLike(o) /\ LockAmount(o, o.trigger) \in Int
    BY <2>1, RowLike
  <2> QED
    BY <1>1, <2>1, <2>2, SettlementSteps
<1>5. /\ t.id = id /\ t.rows = <<>> /\ t.kind = "fill" /\ t.row = FilledRow(o, at)
      /\ t.todo = plan /\ WellFormed(t)
  BY <1>1 DEF Open, WellFormed
<1>6. /\ txn'[Tick] = t /\ Runs(t, plan, balance, locked)
      /\ balance' = balance /\ locked' = locked /\ orders' = orders /\ feed' = feed
  BY <1>2, <1>4, <1>5, BeginIs
<1>7. IsFill(t, o, feed.price, balance, locked)
  BY <1>1, <1>2, <1>5, <1>6 DEF IsFill
<1>8. IsOpen(Tick)'
  BY <1>1, <1>2, <1>3, <1>5, <1>6, <1>7 DEF IsOpen, Fills, Pending, Placed
<1> QED
  BY <1>2, <1>5, <1>8, TxAssumption, BeginKeeps

\* The steps that are no transaction's: they read and write in memory what no
\* transaction under way is on.
LEMMA OthersKeep ==
    ASSUME TxInv, IInv', UNCHANGED <<dbVars, txn>>,
           \A q \in Handlers : txn[q] # Nil => request'[q] = request[q],
           txn[Tick] # Nil => /\ feed'.pc = feed.pc /\ feed'.price = feed.price
                              /\ txn[Tick].id \in feed.rows => txn[Tick].id \in feed'.rows
    PROVE  TxInv'
<1>1. OnGrid' /\ FreshIds' = FreshIds /\ \A q \in Procs : txn[q] # Nil => Undisturbed(q)
  BY Calm
<1>2. \A q \in Procs : txn'[q] # Nil => IsOpen(q)'
  BY <1>1, OpenKept
<1>3. RowsApart' /\ OrdersApart' /\ Placing' = Placing
  BY DEF TxInv, RowsApart, OrdersApart, HasWallet, HasOrder, Placing
<1>4. IdsLeft'
  BY <1>1, <1>3 DEF TxInv, IdsLeft
<1> QED
  BY <1>1, <1>2, <1>3, <1>4 DEF TxInv

\* Everything in memory is lost.
LEMMA CrashKeeps == TxInv /\ IInv' /\ Crash => TxInv'
<1> SUFFICES ASSUME TxInv, IInv', Crash PROVE TxInv'
  OBVIOUS
<1>1. UNCHANGED dbVars /\ txn' = [p \in Procs |-> Nil]
  BY DEF Crash, Restart
<1>2. OnGrid' /\ FreshIds' = FreshIds
  BY <1>1, Calm
<1>3. \A q \in Handlers : ~HasOrder(q, Nil)'
  BY <1>1 DEF HasOrder, Procs
<1>4. IdsLeft'
  <2>1. PICK x : x \notin Placing'
    BY <1>3 DEF Placing
  <2> QED
    BY <1>2, <1>3, <2>1, IdsKept
<1>5. RowsApart' /\ OrdersApart'
  BY <1>1 DEF RowsApart, OrdersApart, HasWallet, HasOrder
<1> QED
  BY <1>1, <1>2, <1>4, <1>5 DEF TxInv

LEMMA TxNextInv == TxInv /\ [TxNext]_txVars => TxInv'
<1> SUFFICES ASSUME TxInv, [TxNext]_txVars PROVE TxInv'
  OBVIOUS
<1>1. IInv'
  BY StepImplements, NextInv DEF TxInv
<1>2. ASSUME NEW p \in Procs, GoesOn(p) \/ StatementFails(p) PROVE TxInv'
  <2>1. CASE UpdateWallet(p)
    BY <2>1, UpdateKeeps
  <2>2. CASE Commit(p)
    BY <1>1, <2>2, CommitKeeps
  <2>3. CASE UpdatesNothing(p) \/ DeadlockVictim(p) \/ StatementFails(p)
    <3>1. txn[p] # Nil /\ RollBack(p)
      BY <2>3 DEF UpdatesNothing, StatementFails, DeadlockVictim, WaitsFor
    <3> QED
      BY <1>1, <3>1, RollBackKeeps
  <2> QED
    BY <1>2, <2>1, <2>2, <2>3 DEF GoesOn
<1>3. ASSUME NEW h \in Handlers, BeginPlace(h) PROVE TxInv'
  BY <1>3, BeginPlaceKeeps
<1>4. ASSUME NEW h \in Handlers, NEW u \in Users, NEW id \in OrderIds, BeginCancel(h, u, id)
      PROVE  TxInv'
  BY <1>4, BeginCancelKeeps
<1>5. ASSUME NEW id \in OrderIds, BeginFill(id) PROVE TxInv'
  BY <1>5, BeginFillKeeps
<1>6. txn[Tick] # Nil => feed.pc = "fill"
  BY TxAssumption DEF TxInv, IsOpen, Places, Cancels, Fills, Procs
<1>7. ASSUME NEW id \in OrderIds, SkipOrder(id) PROVE TxInv'
  BY <1>1, <1>7, OthersKeep DEF SkipOrder, PassOver
<1>8. CASE Others
  <2>1. /\ UNCHANGED <<dbVars, txn>>
        /\ \A q \in Handlers : txn[q] # Nil => request'[q] = request[q]
        /\ txn[Tick] # Nil => feed' = feed
    <3>1. ASSUME NEW h \in Handlers, txn[h] = Nil, ReadLatestPrice(h) \/ RejectOrder(h)
          PROVE  /\ UNCHANGED <<dbVars, feed>>
                 /\ \A q \in Handlers : txn[q] # Nil => request'[q] = request[q]
      BY <3>1 DEF ReadLatestPrice, RejectOrder, TxInv, IInv, EngineInv, MemoryOK
    <3>2. ASSUME FetchQuotes \/ (\E s \in Symbols : CachePrice(s)) \/ SelectPending \/ EndPoll
          PROVE  UNCHANGED <<dbVars, request>> /\ feed.pc # "fill"
      BY <3>2 DEF FetchQuotes, CachePrice, SelectPending, EndPoll
    <3>3. ASSUME EndTick \/ AbortTick PROVE UNCHANGED <<dbVars, request>>
      BY <3>3 DEF EndTick, AbortTick
    <3>4. UNCHANGED txn
      BY <1>8 DEF Others
    <3>5. \/ \E h \in Handlers : txn[h] = Nil /\ (ReadLatestPrice(h) \/ RejectOrder(h))
          \/ FetchQuotes \/ (\E s \in Symbols : CachePrice(s)) \/ SelectPending \/ EndPoll
          \/ txn[Tick] = Nil /\ (EndTick \/ AbortTick)
      BY ONLY <1>8 DEF Others
    <3> QED
      BY ONLY <1>6, <3>1, <3>2, <3>3, <3>4, <3>5
  <2> QED
    BY <1>1, <2>1, OthersKeep
<1>9. CASE Crash
  BY <1>1, <1>9, CrashKeeps
<1>10. CASE UNCHANGED txVars
  <2>1. UNCHANGED <<dbVars, txn>> /\ request' = request /\ feed' = feed
    BY <1>10 DEF txVars, vars, dbVars
  <2> QED
    BY <1>1, <2>1, OthersKeep
<1> QED
  BY <1>2, <1>3, <1>4, <1>5, <1>7, <1>8, <1>9, <1>10 DEF TxNext

-----------------------------------------------------------------------------
(* Theorems.                                                                *)

\* Of every open transaction the statements done so far are those of its order, on
\* rows that it alone has locked and that nobody has changed since.
THEOREM TxInvariance == TxSpec => []TxInv
<1>1. TxInit => TxInv
  BY TxInitInv
<1>2. TxInv /\ [TxNext]_txVars => TxInv'
  BY TxNextInv
<1> QED
  BY <1>1, <1>2, PTL DEF TxSpec

\* The types of the tables, of the columns and of what an open transaction has yet
\* to do: the balances stay natural numbers though they are written one by one.
THEOREM TxTypesHold == TxSpec => []TxTypeOK
<1>1. TxInv => TxTypeOK
  <2> SUFFICES ASSUME TxInv PROVE TxTypeOK
    OBVIOUS
  <2>1. TypeOK
    BY TypeParts DEF TxInv, IInv, EngineInv
  <2>2. ASSUME NEW p \in Procs, txn[p] # Nil
        PROVE  /\ txn[p].id \in OrderIds \cup {Nil} /\ txn[p].row \in OrderRows
               /\ txn[p].todo \in Seq(Updates) /\ DOMAIN txn[p].rows \subseteq Wallets
    BY <2>2, OpenIs, RowIsOne
  <2> QED
    BY <2>1, <2>2 DEF TxTypeOK
<1> QED
  BY <1>1, TxInvariance, PTL

\* What the tables show of the statements, committed or rolled back, interleaved or
\* waiting for each other, cut short by a crash, is a behaviour of OrderEngine, where
\* every transaction is one step: all that is proved of it holds of the statements.
THEOREM TxImplementsEngine == TxSpec => ImplementsEngine
<1>1. TxInit => Init
  BY DEF TxInit
<1>2. TxInv /\ [TxNext]_txVars => [Next]_vars
  BY StepImplements
<1> QED
  BY <1>1, <1>2, TxInvariance, PTL DEF TxSpec, ImplementsEngine, Spec

-----------------------------------------------------------------------------
(* Deadlocks.  A transaction that has locked a row and has statements left  *)
(* settles an order: it has the wallet it spends from, and what it may have *)
(* to wait for is the one it receives into.                                 *)

SpendWallet(o) == <<o.user, IF o.side = "BUY" THEN Quote[o.symbol] ELSE Base[o.symbol]>>
GainWallet(o)  == <<o.user, IF o.side = "BUY" THEN Base[o.symbol] ELSE Quote[o.symbol]>>

Swaps(plan, o) ==
    /\ plan \in Seq(Updates)
    /\ \A i \in 1..Len(plan) : plan[i].wallet = IF i < Len(plan) THEN SpendWallet(o) ELSE GainWallet(o)

\* The statements of settleFill.
LEMMA SettlementSettles ==
    ASSUME NEW o, OrderLike(o), NEW lock \in Int, NEW at \in Nat
    PROVE  Swaps(Settlement(o, lock, at), o) /\ Len(Settlement(o, lock, at)) \in Nat
<1>1. PICK s, refund : s = Settlement(o, lock, at) /\ refund = lock - QuoteAmount(o.quantity, at)
  OBVIOUS
<1>2. /\ s \in Seq(Updates)
      /\ s[1] = IF o.side = "BUY"
                THEN Update(o, Quote[o.symbol], 0, -lock)
                ELSE Update(o, Base[o.symbol], 0, -BaseAmount(o.quantity))
      /\ IF o.side = "BUY" /\ refund > 0
         THEN /\ Len(s) = 3 /\ s[2] = Update(o, Quote[o.symbol], refund, 0)
              /\ s[3] = IF o.side = "BUY"
                        THEN Update(o, Base[o.symbol], BaseAmount(o.quantity), 0)
                        ELSE Update(o, Quote[o.symbol], QuoteAmount(o.quantity, at), 0)
         ELSE /\ Len(s) = 2
              /\ s[2] = IF o.side = "BUY"
                        THEN Update(o, Base[o.symbol], BaseAmount(o.quantity), 0)
                        ELSE Update(o, Quote[o.symbol], QuoteAmount(o.quantity, at), 0)
  BY <1>1, SettlementSteps
<1>3. \A a, x, y : Update(o, a, x, y).wallet = <<o.user, a>>
  BY DEF Update
<1>4. CASE o.side = "BUY" /\ refund > 0
  <2>1. Len(s) = 3 /\ s[1].wallet = SpendWallet(o) /\ s[2].wallet = SpendWallet(o) /\ s[3].wallet = GainWallet(o)
    BY <1>2, <1>3, <1>4 DEF SpendWallet, GainWallet
  <2>2. \A i \in 1..3 : (i = 1 \/ i = 2 \/ i = 3) /\ (i < 3 <=> i # 3)
    OBVIOUS
  <2> QED
    BY <1>1, <1>2, <2>1, <2>2 DEF Swaps
<1>5. CASE ~(o.side = "BUY" /\ refund > 0)
  <2>1. Len(s) = 2 /\ s[1].wallet = SpendWallet(o) /\ s[2].wallet = GainWallet(o)
    BY <1>2, <1>3, <1>5 DEF SpendWallet, GainWallet
  <2>2. \A i \in 1..2 : (i = 1 \/ i = 2) /\ (i < 2 <=> i # 2)
    OBVIOUS
  <2> QED
    BY <1>1, <1>2, <2>1, <2>2 DEF Swaps
<1> QED
  BY <1>4, <1>5

\* Of those of placeOrder, a MARKET order's: lockFunds is on the wallet it spends from.
LEMMA PlacementSettles ==
    ASSUME NEW a \in OrderArgs, NEW at \in Prices
    PROVE  /\ a.type = "MARKET" => Swaps(Placement(a, at), a)
           /\ a.type # "MARKET" => Len(Placement(a, at)) = 1
<1>1. PICK plan, lock, s :
          /\ plan = Placement(a, at) /\ lock = LockAmount(a, IF a.type = "MARKET" THEN at ELSE a.trigger)
          /\ s = Settlement(InsertedRow(a), lock, at)
  OBVIOUS
<1>2. /\ plan \in Seq(Updates) /\ lock \in Nat /\ plan[1] = LockFunds(a, lock)
      /\ a.type # "MARKET" => Len(plan) = 1
      /\ a.type = "MARKET" => /\ Len(plan) = 1 + Len(s)
                              /\ \A i \in 1..Len(s) : plan[1 + i] = s[i]
  BY ONLY <1>1, PlacementSteps, a \in OrderArgs, at \in Prices
<1>3. OrderLike(InsertedRow(a)) /\ lock \in Int /\ at \in Nat
  BY <1>2, ArgsLike, PriceTypes
<1>4. Swaps(s, InsertedRow(a)) /\ Len(s) \in Nat
  BY <1>1, <1>3, SettlementSettles
<1>5. SpendWallet(InsertedRow(a)) = SpendWallet(a) /\ GainWallet(InsertedRow(a)) = GainWallet(a)
  BY DEF InsertedRow, SpendWallet, GainWallet
<1>6. plan[1].wallet = SpendWallet(a)
  BY <1>2 DEF LockFunds, Update, LockAsset, SpendWallet
<1>7. ASSUME a.type = "MARKET" PROVE Swaps(plan, a)
  <2>1. PICK n : n = Len(s) /\ n \in Nat
    BY <1>4
  <2>2. Len(plan) = 1 + n /\ \A i \in 1..n : plan[1 + i] = s[i]
    BY <1>2, <1>7, <2>1
  <2>3. n >= 1
    <3>1. Len(s) >= 1
      BY <1>1, <1>3, SettlementSteps
    <3> QED
      BY <2>1, <3>1
  <2>4. \A i \in 1..n : s[i].wallet = IF i < n THEN SpendWallet(a) ELSE GainWallet(a)
    BY <1>4, <1>5, <2>1 DEF Swaps
  <2>5. ASSUME NEW i \in 1..(1 + n)
        PROVE  plan[i].wallet = IF i < 1 + n THEN SpendWallet(a) ELSE GainWallet(a)
    <3>1. CASE i = 1
      BY <1>6, <2>1, <2>3, <3>1
    <3>2. CASE i # 1
      <4>1. PICK j \in 1..n : i = 1 + j /\ (i < 1 + n <=> j < n)
        BY <2>1, <3>2, i - 1 \in 1..n
      <4> QED
        BY <2>2, <2>4, <4>1
    <3> QED
      BY <3>1, <3>2
  <2> QED
    BY <1>2, <2>2, <2>5 DEF Swaps
<1> QED
  BY <1>1, <1>2, <1>7

\* Half way through them.
LEMMA HalfWay ==
    ASSUME NEW t, NEW plan, NEW b, NEW l, NEW o, Runs(t, plan, b, l),
           t.todo # <<>>, DOMAIN t.rows # {}
    PROVE  /\ Len(plan) # 1
           /\ Swaps(plan, o) => /\ DOMAIN t.rows = {SpendWallet(o)}
                                  /\ Head(t.todo).wallet \in {SpendWallet(o), GainWallet(o)}
<1>1. PICK k, fs, hs : Run(t, plan, b, l, k, fs, hs)
  BY DEF Runs
<1>2. /\ plan \in Seq(Updates) /\ k \in 0..Len(plan) /\ t.todo \in Seq(Updates)
      /\ Len(t.todo) = Len(plan) - k /\ \A i \in 1..Len(t.todo) : t.todo[i] = plan[k + i]
      /\ DOMAIN t.rows = {plan[i].wallet : i \in 1..k}
  BY <1>1 DEF Run, TodoIs
<1>3. k # 0
  <2>1. 1..0 = {}
    OBVIOUS
  <2> QED
    BY <1>2, <2>1
<1>4. PICK n \in Nat : n = Len(plan)
  BY <1>2
<1>5. Len(t.todo) >= 1 /\ Head(t.todo) = t.todo[1]
  BY <1>2
<1>6. k \in Nat /\ 1 <= k /\ k < n
  BY <1>2, <1>3, <1>4, <1>5
<1>7. Head(t.todo) = plan[k + 1] /\ k + 1 \in 1..n
  <2>1. 1 \in 1..Len(t.todo)
    BY <1>2, <1>5
  <2> QED
    BY <1>2, <1>5, <1>6, <2>1
<1>8. ASSUME Swaps(plan, o)
      PROVE  /\ DOMAIN t.rows = {SpendWallet(o)}
             /\ Head(t.todo).wallet \in {SpendWallet(o), GainWallet(o)}
  <2>1. \A i \in 1..n : plan[i].wallet = IF i < n THEN SpendWallet(o) ELSE GainWallet(o)
    BY <1>4, <1>8 DEF Swaps
  <2>2. \A i \in 1..k : i \in 1..n /\ i < n
    BY <1>6
  <2>3. \A i \in 1..k : plan[i].wallet = SpendWallet(o)
    BY <2>1, <2>2
  <2>4. 1 \in 1..k
    BY <1>6
  <2> QED
    BY <1>2, <1>7, <2>1, <2>3, <2>4
<1> QED
  BY <1>4, <1>6, <1>8

\* Who has a row and waits for one: he settles an order, has the wallet it spends
\* from alone, and waits for the one it receives into.
LEMMA Waiting ==
    ASSUME TxInv, NEW p \in Procs, NEW q \in Procs, WaitsFor(p, q), DOMAIN txn[p].rows # {}
    PROVE  /\ txn[p].row.status = "FILLED" /\ txn[p].row.side \in Sides
           /\ txn[p].row.symbol \in Symbols
           /\ DOMAIN txn[p].rows = {SpendWallet(txn[p].row)}
           /\ GainWallet(txn[p].row) \in DOMAIN txn[q].rows
<1>1. PICK t, w : t = txn[p] /\ w = Head(t.todo).wallet
  OBVIOUS
<1>2. /\ t # Nil /\ t.todo # <<>> /\ DOMAIN t.rows # {} /\ p # q /\ txn[q] # Nil
      /\ w \in DOMAIN txn[q].rows
  BY <1>1 DEF WaitsFor, HasWallet
<1>3. w \notin DOMAIN t.rows
  <2>1. w \in Wallets
    BY <1>2, OpenIs
  <2> QED
    BY <1>1, <1>2, <2>1 DEF TxInv, RowsApart, HasWallet
<1>4. ASSUME NEW plan, NEW o, Runs(t, plan, balance, locked)
      PROVE  /\ Len(plan) # 1
             /\ Swaps(plan, o) => DOMAIN t.rows = {SpendWallet(o)} /\ w = GainWallet(o)
  <2>1. PICK b, l : b = balance /\ l = locked
    OBVIOUS
  <2>2. /\ Len(plan) # 1
        /\ Swaps(plan, o) => /\ DOMAIN t.rows = {SpendWallet(o)}
                             /\ Head(t.todo).wallet \in {SpendWallet(o), GainWallet(o)}
    BY ONLY <1>2, <1>4, <2>1, HalfWay
  <2> QED
    BY <1>1, <1>3, <2>2
<1>5. \E plan, o : /\ Runs(t, plan, balance, locked) /\ Swaps(plan, o) /\ t.row.status = "FILLED"
                   /\ SpendWallet(t.row) = SpendWallet(o) /\ GainWallet(t.row) = GainWallet(o)
  <2>1. Places(p) \/ Cancels(p) \/ Fills(p)
    BY <1>1, <1>2 DEF TxInv, IsOpen
  <2>2. CASE Places(p)
    <3>1. PICK a \in OrderArgs, at \in Prices :
               t.row = PlacedRow(a, at) /\ Runs(t, Placement(a, at), balance, locked)
      BY <1>1, <2>2, RequestType DEF Places, IsPlace, TxInv, IInv, EngineInv
    <3>2. a.type = "MARKET" /\ Swaps(Placement(a, at), a)
      BY <1>4, <3>1, PlacementSettles
    <3>3. t.row = [InsertedRow(a) EXCEPT !.status = "FILLED", !.filled_price = StoredInput(at)]
      BY <3>1, <3>2, PlacedRowIs
    <3>4. /\ t.row.status = "FILLED"
          /\ SpendWallet(t.row) = SpendWallet(a) /\ GainWallet(t.row) = GainWallet(a)
      BY <3>3 DEF InsertedRow, SpendWallet, GainWallet
    <3> QED
      BY <3>1, <3>2, <3>4
  <2>3. CASE Cancels(p)
    <3>1. PICK o : Runs(t, <<UnlockFunds(o, LockAmount(o, o.trigger))>>, balance, locked)
      BY <1>1, <2>3 DEF Cancels, IsCancel
    <3>2. Len(<<UnlockFunds(o, LockAmount(o, o.trigger))>>) = 1
      OBVIOUS
    <3> QED
      BY <1>4, <3>1, <3>2
  <2>4. CASE Fills(p)
    <3>1. PICK o, at : /\ o = orders[t.id] /\ at = FillPrice(o, feed.price) /\ t.row = FilledRow(o, at)
                       /\ Runs(t, Settlement(o, LockAmount(o, o.trigger), at), balance, locked)
      BY <1>1, <2>4 DEF Fills, IsFill
    <3>2. t.id \in OrderIds /\ Pending(t.id) /\ feed.price \in Prices /\ TablesOK /\ Resting(t.id) /\ Placed(t.id)
      BY <1>1, <2>4 DEF Fills, TxInv, IInv, EngineInv, MemoryOK, OpenOrdersRest, Pending
    <3>3. o \in OrderRows /\ o.trigger \in Nat /\ at \in Nat
      BY <3>1, <3>2, RowType, PriceTypes DEF FillPrice
    <3>4. OrderLike(o) /\ LockAmount(o, o.trigger) \in Int
      BY <3>3, RowLike
    <3>5. Swaps(Settlement(o, LockAmount(o, o.trigger), at), o)
      BY <3>3, <3>4, SettlementSettles
    <3>6. /\ t.row.status = "FILLED"
          /\ SpendWallet(t.row) = SpendWallet(o) /\ GainWallet(t.row) = GainWallet(o)
      BY <3>1, <3>3 DEF FilledRow, OrderRows, SpendWallet, GainWallet
    <3> QED
      BY <3>1, <3>5, <3>6
  <2> QED
    BY <2>1, <2>2, <2>3, <2>4
<1>6. t.row.side \in Sides /\ t.row.symbol \in Symbols
  BY <1>1, <1>2, RowIsOne DEF OrderRows
<1> QED
  BY <1>1, <1>2, <1>4, <1>5, <1>6

\* A purchase that has a row and waits for one who waits himself: that one is a sale,
\* and waits for the purchase.
LEMMA Circle ==
    ASSUME OneQuote, TxInv, NEW p \in Procs, NEW q \in Procs, NEW r \in Procs,
           WaitsFor(p, q), WaitsFor(q, r), DOMAIN txn[p].rows # {}, txn[p].row.side = "BUY"
    PROVE  /\ r = p /\ txn[q].row.side = "SELL" /\ txn[q].row.status = "FILLED"
           /\ txn[p].row.status = "FILLED"
           /\ txn[q].row.user = txn[p].row.user /\ txn[q].row.symbol = txn[p].row.symbol
<1>1. PICK x, y : x = txn[p].row /\ y = txn[q].row
  OBVIOUS
<1>2. /\ x.status = "FILLED" /\ x.symbol \in Symbols /\ x.side = "BUY"
      /\ DOMAIN txn[p].rows = {SpendWallet(x)} /\ GainWallet(x) \in DOMAIN txn[q].rows
  BY <1>1, Waiting
<1>3. /\ y.status = "FILLED" /\ y.symbol \in Symbols /\ y.side \in Sides
      /\ DOMAIN txn[q].rows = {SpendWallet(y)} /\ GainWallet(y) \in DOMAIN txn[r].rows
  BY <1>1, <1>2, Waiting
<1>4. /\ GainWallet(x) = <<x.user, Base[x.symbol]>> /\ SpendWallet(x) = <<x.user, Quote[x.symbol]>>
      /\ GainWallet(x) = SpendWallet(y)
  BY <1>2, <1>3 DEF GainWallet, SpendWallet
<1>5. y.side = "SELL" /\ y.user = x.user /\ y.symbol = x.symbol
  <2>1. y.side # "BUY"
    <3>1. ASSUME y.side = "BUY" PROVE FALSE
      <4>1. SpendWallet(y) = <<y.user, Quote[y.symbol]>>
        BY <3>1 DEF SpendWallet
      <4>2. Base[x.symbol] = Quote[y.symbol] /\ Quote[y.symbol] = Quote[x.symbol]
        BY <1>2, <1>3, <1>4, <4>1 DEF OneQuote
      <4> QED
        BY <1>2, <4>2, OrderEngineAssumption
    <3> QED
      BY <3>1
  <2>2. y.side = "SELL" /\ SpendWallet(y) = <<y.user, Base[y.symbol]>>
    BY <1>3, <2>1 DEF Sides, SpendWallet
  <2>3. y.user = x.user /\ Base[y.symbol] = Base[x.symbol]
    BY <1>4, <2>2
  <2> QED
    BY <1>2, <1>3, <2>2, <2>3 DEF OneQuote
<1>6. GainWallet(y) = SpendWallet(x)
  BY <1>4, <1>5 DEF GainWallet
<1>7. r = p
  <2>1. txn[p] # Nil /\ txn[r] # Nil
    BY DEF WaitsFor, HasWallet
  <2>2. DOMAIN txn[p].rows \subseteq Wallets
    BY <2>1, OpenIs
  <2> QED
    BY <1>2, <1>3, <1>6, <2>1, <2>2 DEF TxInv, RowsApart, HasWallet
<1> QED
  BY <1>1, <1>2, <1>3, <1>5, <1>7

\* With the markets there are, the engine's transactions wait for one another in one way only: a
\* purchase and a sale of the same symbol for the same user, each having the wallet
\* the other one needs next.  No cancel, no order that is left PENDING and no wider
\* circle is ever part of a deadlock without such a pair.
THEOREM DeadlocksAreOppositeHolds ==
    ASSUME OneQuote
    PROVE  TxSpec => []DeadlocksAreOpposite
<1>1. ASSUME TxInv PROVE DeadlocksAreOpposite
  <2> SUFFICES ASSUME NEW ps \in SUBSET Procs, ps # {}, \A p \in ps : \E q \in ps : WaitsFor(p, q)
               PROVE  \E p, q \in ps :
                        /\ WaitsFor(p, q) /\ WaitsFor(q, p)
                        /\ txn[p].row.side = "BUY" /\ txn[q].row.side = "SELL"
                        /\ \A r \in {p, q} :
                              /\ txn[r].row.status = "FILLED"
                              /\ txn[r].row.user = txn[p].row.user
                              /\ txn[r].row.symbol = txn[p].row.symbol
    BY DEF DeadlocksAreOpposite
  <2> USE <1>1
  <2>1. PICK o \in ps, p \in ps, q \in ps, r \in ps, s \in ps :
            WaitsFor(o, p) /\ WaitsFor(p, q) /\ WaitsFor(q, r) /\ WaitsFor(r, s)
    OBVIOUS
  <2>2. DOMAIN txn[p].rows # {} /\ DOMAIN txn[q].rows # {}
    BY <2>1 DEF WaitsFor, HasWallet
  <2>3. o \in Procs /\ p \in Procs /\ q \in Procs /\ r \in Procs /\ s \in Procs
    OBVIOUS
  <2>4. CASE txn[p].row.side = "BUY"
    <3>1. /\ r = p /\ txn[q].row.side = "SELL" /\ txn[q].row.status = "FILLED"
          /\ txn[p].row.status = "FILLED"
          /\ txn[q].row.user = txn[p].row.user /\ txn[q].row.symbol = txn[p].row.symbol
      BY <2>1, <2>2, <2>3, <2>4, Circle
    <3> QED
      BY <2>1, <2>4, <3>1
  <2>5. CASE txn[q].row.side = "BUY"
    <3>1. /\ s = q /\ txn[r].row.side = "SELL" /\ txn[r].row.status = "FILLED"
          /\ txn[q].row.status = "FILLED"
          /\ txn[r].row.user = txn[q].row.user /\ txn[r].row.symbol = txn[q].row.symbol
      BY <2>1, <2>2, <2>3, <2>5, Circle
    <3> QED
      BY <2>1, <2>5, <3>1
  <2>6. CASE txn[p].row.side # "BUY" /\ txn[q].row.side # "BUY"
    <3>1. PICK x, y : x = txn[p].row /\ y = txn[q].row
      OBVIOUS
    <3>2. /\ x.side = "SELL" /\ y.side = "SELL" /\ x.symbol \in Symbols /\ y.symbol \in Symbols
          /\ GainWallet(x) \in DOMAIN txn[q].rows /\ DOMAIN txn[q].rows = {SpendWallet(y)}
      BY <2>1, <2>2, <2>3, <2>6, <3>1, Waiting DEF Sides
    <3>3. Quote[x.symbol] = Base[y.symbol] /\ Quote[x.symbol] = Quote[y.symbol]
      BY <3>2 DEF GainWallet, SpendWallet, OneQuote
    <3> QED
      BY <3>2, <3>3, OrderEngineAssumption
  <2> QED
    BY <2>4, <2>5, <2>6
<1> QED
  BY <1>1, TxInvariance, PTL
=============================================================================
