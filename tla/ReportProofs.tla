------------------------------ MODULE ReportProofs ------------------------------
(***************************************************************************)
(* Proofs that the reports agree on the trades of a validation, for every   *)
(* history, window length, pool and order of its workers, every list of     *)
(* trades and of signals, and every page size: what five tables, the        *)
(* totals, the streaks, the drawdowns, the pages and the windows of days    *)
(* say of the same trades.                                                  *)
(*                                                                          *)
(* A selection is taken by its places (RowsAt), so that what its rows sum   *)
(* up to is a sum over a set of places, and the parts of a list are parts   *)
(* of a set. What the code counts with a loop is a fold, followed step by   *)
(* step with what it knows of the rows it has passed.                       *)
(***************************************************************************)
EXTENDS GateProofs

-----------------------------------------------------------------------------
(* Rows that are selected from a list                                       *)

(* The rows of some places, each once and in their order.                   *)
LEMMA RowsAtParts ==
  ASSUME NEW T, NEW s \in Seq(T), NEW K \in SUBSET DOMAIN s
  PROVE  /\ IsFiniteSet(K) /\ Cardinality(K) \in Nat
         /\ Ascending(K) \in Bijection(1..Cardinality(K), K)
         /\ RowsAt(s, K) \in Seq(T) /\ Len(RowsAt(s, K)) = Cardinality(K)
         /\ \A k \in 1..Cardinality(K) : RowsAt(s, K)[k] = s[Ascending(K)[k]]
<1>1. DOMAIN s = 1..Len(s) /\ Len(s) \in Nat /\ K \subseteq 1..Len(s)
  OBVIOUS
<1>2. IsFiniteSet(K)
  <2>1. IsFiniteSet(1..Len(s))
    BY <1>1, FS_Interval
  <2> QED
    BY <1>1, <2>1, FS_Subset
<1>3. PICK n, a : n = Cardinality(K) /\ a = Ascending(K)
  OBVIOUS
<1>4. /\ n \in Nat /\ a \in [1..n -> K] /\ \A x \in K : \E k \in 1..n : a[k] = x
      /\ \A k, l \in 1..n : k < l => a[k] < a[l]
  <2>1. K \in SUBSET Int
    BY <1>1
  <2> QED
    BY <1>2, <1>3, <2>1, AscendingCovers
<1>5. a \in Bijection(1..n, K)
  <2>1. ASSUME NEW k \in 1..n, NEW l \in 1..n, k # l
        PROVE  a[k] # a[l]
    <3>1. k < l \/ l < k
      BY <1>4, <2>1
    <3>2. a[k] \in Int /\ a[l] \in Int
      BY <1>1, <1>4
    <3> QED
      BY <1>4, <3>1, <3>2
  <2> QED
    BY <1>4, <2>1 DEF Bijection, Injection, Surjection, IsInjective
<1>6. PICK r : r = RowsAt(s, K)
  OBVIOUS
<1>7. r = [k \in 1..n |-> s[a[k]]]
  BY <1>3, <1>4, <1>6 DEF RowsAt
<1>8. \A k \in 1..n : s[a[k]] \in T
  BY <1>1, <1>4
<1>9. r \in [1..n -> T]
  BY <1>7, <1>8
<1>10. r \in Seq(T) /\ Len(r) = n /\ \A k \in 1..n : r[k] = s[a[k]]
  BY <1>4, <1>7, <1>9
<1> QED
  BY <1>2, <1>3, <1>4, <1>5, <1>6, <1>10

(* What they sum up to is what their places do.                             *)
LEMMA SumOfRows ==
  ASSUME NEW s \in Seq(Int), NEW K \in SUBSET DOMAIN s
  PROVE  /\ Total(RowsAt(s, K)) = SumFunctionOnSet(s, K)
         /\ SumFunctionOnSet(s, K) \in Int
<1>1. PICK n, a, r : /\ n = Cardinality(K) /\ a = Ascending(K) /\ r = RowsAt(s, K)
                     /\ n \in Nat /\ a \in Bijection(1..n, K) /\ IsFiniteSet(K)
                     /\ r \in Seq(Int) /\ Len(r) = n /\ \A k \in 1..n : r[k] = s[a[k]]
  BY RowsAtParts
<1>2. \A y \in K : s[y] \in Int
  OBVIOUS
<1>3. SumFunctionOnSet(r, 1..n) = SumFunctionOnSet(s, K)
  <2> DEFINE D == 1..n
  <2>1. IsFiniteSet(D) /\ a \in Bijection(D, K) /\ \A k \in D : r[k] = s[a[k]]
    BY <1>1, FS_Interval
  <2> HIDE DEF D
  <2>2. SumFunctionOnSet(r, D) = SumFunctionOnSet(s, K)
    BY <1>2, <2>1, SumRenamed
  <2> QED
    BY <2>2 DEF D
<1>4. Total(r) = SumFunctionOnSet(r, 1..n)
  BY <1>1 DEF Total, SumFunction
<1>5. SumFunctionOnSet(s, K) \in Int
  BY <1>1, <1>2, SumOfElements
<1> QED
  BY <1>1, <1>3, <1>4, <1>5

(* A list that is counted in: every row has its result.                     *)
HasPnl(T) == \A t \in T : t.pnl \in Int

(* The results of a list are as many whole numbers.                         *)
LEMMA PnlsParts ==
  ASSUME NEW T, HasPnl(T), NEW s \in Seq(T)
  PROVE  /\ Pnls(s) \in Seq(Int) /\ Len(Pnls(s)) = Len(s) /\ DOMAIN Pnls(s) = DOMAIN s
         /\ \A i \in DOMAIN s : Pnls(s)[i] = s[i].pnl
<1>1. DOMAIN s = 1..Len(s) /\ Len(s) \in Nat /\ \A i \in DOMAIN s : s[i].pnl \in Int
  BY DEF HasPnl
<1>2. PICK p : p = Pnls(s)
  OBVIOUS
<1>3. p = [i \in 1..Len(s) |-> s[i].pnl]
  BY <1>1, <1>2 DEF Pnls
<1>4. p \in [1..Len(s) -> Int]
  BY <1>1, <1>3
<1>5. p \in Seq(Int) /\ Len(p) = Len(s) /\ DOMAIN p = DOMAIN s
  BY <1>1, <1>4
<1> QED
  BY <1>1, <1>2, <1>3, <1>5

(* The results of a selection, and what they sum up to.                     *)
LEMMA PnlsOfRows ==
  ASSUME NEW T, HasPnl(T), NEW s \in Seq(T), NEW K \in SUBSET DOMAIN s
  PROVE  /\ Pnls(RowsAt(s, K)) = RowsAt(Pnls(s), K)
         /\ Total(Pnls(RowsAt(s, K))) = SumFunctionOnSet(Pnls(s), K)
<1>1. PICK p : /\ p = Pnls(s) /\ p \in Seq(Int) /\ DOMAIN p = DOMAIN s
               /\ \A i \in DOMAIN s : p[i] = s[i].pnl
  BY PnlsParts
<1>2. PICK n, a, r : /\ n = Cardinality(K) /\ a = Ascending(K) /\ r = RowsAt(s, K)
                     /\ n \in Nat /\ a \in Bijection(1..n, K)
                     /\ r \in Seq(T) /\ Len(r) = n /\ \A k \in 1..n : r[k] = s[a[k]]
  BY RowsAtParts
<1>3. PICK q : q = RowsAt(p, K) /\ q \in Seq(Int) /\ Len(q) = n /\ \A k \in 1..n : q[k] = p[a[k]]
  BY <1>1, <1>2, RowsAtParts
<1>4. PICK z : z = Pnls(r) /\ z \in Seq(Int) /\ Len(z) = n /\ \A k \in 1..n : z[k] = r[k].pnl
  BY <1>2, PnlsParts
<1>5. \A k \in 1..n : a[k] \in DOMAIN s
  BY <1>2 DEF Bijection, Injection
<1>6. \A k \in 1..n : q[k] = z[k]
  BY <1>1, <1>2, <1>3, <1>4, <1>5
<1>7. q = z
  BY <1>3, <1>4, <1>6, SeqEqual
<1>8. Total(q) = SumFunctionOnSet(p, K)
  BY <1>1, <1>3, SumOfRows
<1> QED
  BY <1>1, <1>2, <1>3, <1>4, <1>7, <1>8

(* As many rows of a selection have something as places that were selected. *)
LEMMA CountInRows ==
  ASSUME NEW T, NEW s \in Seq(T), NEW K \in SUBSET DOMAIN s, NEW L \in SUBSET K
  PROVE  Cardinality({k \in 1..Cardinality(K) : Ascending(K)[k] \in L}) = Cardinality(L)
<1>1. PICK n, a : /\ n = Cardinality(K) /\ a = Ascending(K) /\ n \in Nat
                  /\ a \in Bijection(1..n, K) /\ IsFiniteSet(K)
  BY RowsAtParts
<1> DEFINE D == {k \in 1..n : a[k] \in L}
           b == [k \in D |-> a[k]]
<1>2. /\ a \in [1..n -> K]
      /\ \A k, l \in 1..n : a[k] = a[l] => k = l
      /\ \A y \in K : \E k \in 1..n : a[k] = y
  BY <1>1 DEF Bijection, Injection, Surjection, IsInjective
<1>3. b \in [D -> L] /\ (\A k, l \in D : b[k] = b[l] => k = l) /\ \A y \in L : \E k \in D : b[k] = y
  BY <1>2
<1>4. IsFiniteSet(D)
  <2>1. IsFiniteSet(1..n) /\ D \subseteq 1..n
    BY <1>1, FS_Interval
  <2> HIDE DEF D
  <2> QED
    BY <2>1, FS_Subset
<1> HIDE DEF D, b
<1>5. b \in Bijection(D, L)
  BY <1>3 DEF Bijection, Injection, Surjection, IsInjective
<1>6. Cardinality(D) = Cardinality(L)
  BY <1>4, <1>5, FS_Bijection DEF ExistsBijection
<1> QED
  BY <1>1, <1>6 DEF D

-----------------------------------------------------------------------------
(* Lists that are taken apart                                               *)

Keys(c) == {c[i] : i \in DOMAIN c}
At(c, k) == {i \in DOMAIN c : c[i] = k}

(* One part is a list like the whole.                                       *)
LEMMA GroupParts ==
  ASSUME NEW T, NEW s \in Seq(T), NEW c, DOMAIN c = DOMAIN s, NEW k
  PROVE  /\ At(c, k) \in SUBSET DOMAIN s /\ IsFiniteSet(At(c, k))
         /\ RowsAt(s, At(c, k)) \in Seq(T)
         /\ Len(RowsAt(s, At(c, k))) = Cardinality(At(c, k))
         /\ Cardinality(At(c, k)) \in Nat
<1>1. At(c, k) \in SUBSET DOMAIN s
  BY DEF At
<1> QED
  BY <1>1, RowsAtParts

(* The parts add up to the whole.                                           *)
LEMMA TotalsAddUp ==
  ASSUME NEW T, HasPnl(T), NEW s \in Seq(T), NEW c, DOMAIN c = DOMAIN s,
         NEW f, DOMAIN f = Keys(c),
         \A k \in Keys(c) : f[k] = Total(Pnls(RowsAt(s, At(c, k))))
  PROVE  Total(f) = Total(Pnls(s))
<1>1. PICK p, S : /\ p = Pnls(s) /\ S = DOMAIN s /\ p \in Seq(Int) /\ DOMAIN p = S
  BY PnlsParts
<1>2. IsFiniteSet(S) /\ \A x \in S : p[x] \in Int
  <2>1. S = 1..Len(s) /\ Len(s) \in Nat
    BY <1>1
  <2> QED
    BY <1>1, <2>1, FS_Interval
<1>3. ASSUME NEW k \in Keys(c)
      PROVE  f[k] = SumFunctionOnSet(p, {x \in S : c[x] = k})
  <2>1. At(c, k) \in SUBSET DOMAIN s
    BY GroupParts
  <2>2. Total(Pnls(RowsAt(s, At(c, k)))) = SumFunctionOnSet(Pnls(s), At(c, k))
    BY <2>1, PnlsOfRows
  <2> QED
    BY <1>1, <2>2 DEF At
<1>4. Keys(c) = {c[x] : x \in S}
  BY <1>1 DEF Keys
<1>5. Parts(p, S, c, f)
  BY <1>3, <1>4 DEF Parts
<1>6. SumFunctionOnSet(f, {c[x] : x \in S}) = SumFunctionOnSet(p, S)
  BY <1>2, <1>5, SumByParts
<1> QED
  BY <1>1, <1>4, <1>6 DEF Total, SumFunction

(* The lengths of the parts add up to that of the whole.                    *)
LEMMA CountsAddUp ==
  ASSUME NEW T, NEW s \in Seq(T), NEW c, DOMAIN c = DOMAIN s,
         NEW f, DOMAIN f = Keys(c),
         \A k \in Keys(c) : f[k] = Len(RowsAt(s, At(c, k)))
  PROVE  Total(f) = Len(s)
<1> DEFINE one == [x \in DOMAIN s |-> 1]
<1>1. PICK S : S = DOMAIN s /\ S = 1..Len(s) /\ Len(s) \in Nat
  OBVIOUS
<1>2. IsFiniteSet(S) /\ Cardinality(S) = Len(s) /\ \A x \in S : one[x] = 1
  <2>1. \A x \in S : one[x] = 1
    BY <1>1
  <2>2. PICK n \in Nat : n = Len(s)
    BY <1>1
  <2>3. IsFiniteSet(1..n) /\ Cardinality(1..n) = n
    BY FS_Interval
  <2> QED
    BY <1>1, <2>1, <2>2, <2>3
<1> HIDE DEF one
<1>3. ASSUME NEW k \in Keys(c)
      PROVE  f[k] = SumFunctionOnSet(one, {x \in S : c[x] = k})
  <2>1. f[k] = Cardinality(At(c, k)) /\ IsFiniteSet(At(c, k)) /\ At(c, k) \in SUBSET DOMAIN s
    BY GroupParts
  <2>2. SumFunctionOnSet(one, At(c, k)) = Cardinality(At(c, k))
    BY <1>1, <1>2, <2>1, CountIsSum
  <2>3. At(c, k) = {x \in S : c[x] = k}
    BY <1>1 DEF At
  <2> QED
    BY <2>1, <2>2, <2>3
<1>4. Keys(c) = {c[x] : x \in S}
  BY <1>1 DEF Keys
<1>5. Parts(one, S, c, f)
  BY <1>3, <1>4 DEF Parts
<1>6. SumFunctionOnSet(f, {c[x] : x \in S}) = SumFunctionOnSet(one, S)
  BY <1>2, <1>5, SumByParts
<1>7. SumFunctionOnSet(one, S) = Cardinality(S)
  BY <1>2, CountIsSum
<1> QED
  BY <1>2, <1>4, <1>6, <1>7 DEF Total, SumFunction

(* The parts of the reports, by the keys of the trades.                     *)
StrategiesOf(trades) == [i \in DOMAIN trades |-> trades[i].strategy]
MonthsOf(trades) == [i \in DOMAIN trades |-> trades[i].closed \div DaysPerMonth]
RegimeKeys(trades) ==
  [i \in DOMAIN trades |-> IF trades[i].strategy \in DOMAIN RegimeOfStrategy
                           THEN RegimeOfStrategy[trades[i].strategy] ELSE "UNKNOWN"]
SectorsOf(trades) ==
  [i \in DOMAIN trades |-> IF trades[i].symbol \in DOMAIN SectorOfSymbol
                           THEN SectorOfSymbol[trades[i].symbol] ELSE "Other"]

(* A closed trade has its result.                                           *)
LEMMA TradesHavePnl == HasPnl(ClosedTrade)
  BY DEF HasPnl, ClosedTrade

(* Every trade has its keys.                                                *)
LEMMA KeyOfEach ==
  ASSUME NEW trades
  PROVE  /\ DOMAIN StrategiesOf(trades) = DOMAIN trades /\ DOMAIN MonthsOf(trades) = DOMAIN trades
         /\ DOMAIN RegimeKeys(trades) = DOMAIN trades /\ DOMAIN SectorsOf(trades) = DOMAIN trades
  BY DEF StrategiesOf, MonthsOf, RegimeKeys, SectorsOf

(* The tables, by the keys of the trades.                                   *)
LEMMA RegimeTable ==
  ASSUME NEW trades
  PROVE  RegimeAttribution(trades) =
           [k \in Keys(RegimeKeys(trades)) |->
              ExtendedMetrics(RowsAt(trades, At(RegimeKeys(trades), k)))]
  BY DEF RegimeAttribution, GroupBy, Select, Keys, At, RegimeKeys

(* The profit and the count of a month.                                     *)
LEMMA MonthTable ==
  ASSUME NEW trades
  PROVE  /\ DOMAIN MonthlyPnl(trades) = Keys(MonthsOf(trades))
         /\ \A k \in Keys(MonthsOf(trades)) :
              LET ts == RowsAt(trades, At(MonthsOf(trades), k))
              IN  /\ MonthlyPnl(trades)[k].n_trades = Len(ts)
                  /\ MonthlyPnl(trades)[k].pnl = Total(Pnls(ts))
  BY DEF MonthlyPnl, GroupBy, Select, Keys, At, MonthsOf

(* The profit and the count of a sector.                                    *)
LEMMA SectorTable ==
  ASSUME NEW trades
  PROVE  /\ DOMAIN SectorPerformance(trades) = Keys(SectorsOf(trades))
         /\ \A k \in Keys(SectorsOf(trades)) :
              LET ts == RowsAt(trades, At(SectorsOf(trades), k))
              IN  /\ SectorPerformance(trades)[k].n_trades = Len(ts)
                  /\ SectorPerformance(trades)[k].pnl = Total(Pnls(ts))
  BY DEF SectorPerformance, GroupBy, Select, Keys, At, SectorsOf

(* The number of trades and the profit in a group.                          *)
LEMMA MetricsTotals ==
  ASSUME NEW trades
  PROVE  /\ ExtendedMetrics(trades).total_pnl = Total(Pnls(trades))
         /\ ExtendedMetrics(trades).n_trades = Len(Pnls(trades))
         /\ TradeStats(trades).total_pnl = Total(Pnls(trades))
         /\ TradeStats(trades).total_trades = Len(Pnls(trades))
  BY DEF ExtendedMetrics, TradeStats

(* No trade is lost and none counts twice.                                  *)
LEMMA AllAttributed ==
  ASSUME NEW trades \in Seq(ClosedTrade)
  PROVE  LET stats == TradeStats(trades)
             byRegime == RegimeAttribution(trades)
             byMonth  == MonthlyPnl(trades)
             bySector == SectorPerformance(trades)
         IN  /\ Total([r \in DOMAIN byRegime |-> byRegime[r].total_pnl]) = stats.total_pnl
             /\ Total([r \in DOMAIN byRegime |-> byRegime[r].n_trades]) = stats.total_trades
             /\ Total([m \in DOMAIN byMonth |-> byMonth[m].pnl]) = stats.total_pnl
             /\ Total([m \in DOMAIN byMonth |-> byMonth[m].n_trades]) = stats.total_trades
             /\ Total([s \in DOMAIN bySector |-> bySector[s].pnl]) = stats.total_pnl
             /\ Total([s \in DOMAIN bySector |-> bySector[s].n_trades]) = stats.total_trades
<1>1. /\ TradeStats(trades).total_pnl = Total(Pnls(trades))
      /\ TradeStats(trades).total_trades = Len(trades)
  BY MetricsTotals, TradesHavePnl, PnlsParts
<1>2. /\ Total([r \in DOMAIN RegimeAttribution(trades) |-> RegimeAttribution(trades)[r].total_pnl])
           = Total(Pnls(trades))
      /\ Total([r \in DOMAIN RegimeAttribution(trades) |-> RegimeAttribution(trades)[r].n_trades])
           = Len(trades)
  <2>1. PICK c : c = RegimeKeys(trades) /\ DOMAIN c = DOMAIN trades
    BY KeyOfEach
  <2>2. PICK t : /\ t = RegimeAttribution(trades) /\ DOMAIN t = Keys(c)
                 /\ \A k \in Keys(c) : t[k] = ExtendedMetrics(RowsAt(trades, At(c, k)))
    BY <2>1, RegimeTable
  <2> DEFINE pnl == [r \in DOMAIN t |-> t[r].total_pnl]
             n == [r \in DOMAIN t |-> t[r].n_trades]
  <2>3. ASSUME NEW k \in Keys(c)
        PROVE  /\ pnl[k] = Total(Pnls(RowsAt(trades, At(c, k))))
               /\ n[k] = Len(RowsAt(trades, At(c, k)))
    <3>1. PICK g : g = RowsAt(trades, At(c, k)) /\ g \in Seq(ClosedTrade)
      BY <2>1, GroupParts
    <3>2. Len(Pnls(g)) = Len(g)
      BY <3>1, TradesHavePnl, PnlsParts
    <3> QED
      BY <2>2, <3>1, <3>2, MetricsTotals
  <2>4. DOMAIN pnl = Keys(c) /\ DOMAIN n = Keys(c)
    BY <2>2
  <2> HIDE DEF pnl, n
  <2>5. Total(pnl) = Total(Pnls(trades))
    BY <2>1, <2>3, <2>4, TradesHavePnl, TotalsAddUp
  <2>6. Total(n) = Len(trades)
    BY <2>1, <2>3, <2>4, CountsAddUp
  <2> QED
    BY <2>2, <2>5, <2>6 DEF pnl, n
<1>3. /\ Total([m \in DOMAIN MonthlyPnl(trades) |-> MonthlyPnl(trades)[m].pnl])
           = Total(Pnls(trades))
      /\ Total([m \in DOMAIN MonthlyPnl(trades) |-> MonthlyPnl(trades)[m].n_trades])
           = Len(trades)
  <2>1. PICK c : c = MonthsOf(trades) /\ DOMAIN c = DOMAIN trades
    BY KeyOfEach
  <2>2. PICK t : /\ t = MonthlyPnl(trades) /\ DOMAIN t = Keys(c)
                 /\ \A k \in Keys(c) : /\ t[k].pnl = Total(Pnls(RowsAt(trades, At(c, k))))
                                       /\ t[k].n_trades = Len(RowsAt(trades, At(c, k)))
    BY <2>1, MonthTable
  <2> DEFINE pnl == [r \in DOMAIN t |-> t[r].pnl]
             n == [r \in DOMAIN t |-> t[r].n_trades]
  <2>3. ASSUME NEW k \in Keys(c)
        PROVE  /\ pnl[k] = Total(Pnls(RowsAt(trades, At(c, k))))
               /\ n[k] = Len(RowsAt(trades, At(c, k)))
    BY <2>2
  <2>4. DOMAIN pnl = Keys(c) /\ DOMAIN n = Keys(c)
    BY <2>2
  <2> HIDE DEF pnl, n
  <2>5. Total(pnl) = Total(Pnls(trades))
    BY <2>1, <2>3, <2>4, TradesHavePnl, TotalsAddUp
  <2>6. Total(n) = Len(trades)
    BY <2>1, <2>3, <2>4, CountsAddUp
  <2> QED
    BY <2>2, <2>5, <2>6 DEF pnl, n
<1>4. /\ Total([r \in DOMAIN SectorPerformance(trades) |-> SectorPerformance(trades)[r].pnl])
           = Total(Pnls(trades))
      /\ Total([r \in DOMAIN SectorPerformance(trades) |-> SectorPerformance(trades)[r].n_trades])
           = Len(trades)
  <2>1. PICK c : c = SectorsOf(trades) /\ DOMAIN c = DOMAIN trades
    BY KeyOfEach
  <2>2. PICK t : /\ t = SectorPerformance(trades) /\ DOMAIN t = Keys(c)
                 /\ \A k \in Keys(c) : /\ t[k].pnl = Total(Pnls(RowsAt(trades, At(c, k))))
                                       /\ t[k].n_trades = Len(RowsAt(trades, At(c, k)))
    BY <2>1, SectorTable
  <2> DEFINE pnl == [r \in DOMAIN t |-> t[r].pnl]
             n == [r \in DOMAIN t |-> t[r].n_trades]
  <2>3. ASSUME NEW k \in Keys(c)
        PROVE  /\ pnl[k] = Total(Pnls(RowsAt(trades, At(c, k))))
               /\ n[k] = Len(RowsAt(trades, At(c, k)))
    BY <2>2
  <2>4. DOMAIN pnl = Keys(c) /\ DOMAIN n = Keys(c)
    BY <2>2
  <2> HIDE DEF pnl, n
  <2>5. Total(pnl) = Total(Pnls(trades))
    BY <2>1, <2>3, <2>4, TradesHavePnl, TotalsAddUp
  <2>6. Total(n) = Len(trades)
    BY <2>1, <2>3, <2>4, CountsAddUp
  <2> QED
    BY <2>2, <2>5, <2>6 DEF pnl, n
<1> QED
  BY <1>1, <1>2, <1>3, <1>4

-----------------------------------------------------------------------------
(* Profits and losses                                                       *)

(* A finite set of numbers has a least and a greatest.                      *)
LEMMA Extremes ==
  ASSUME NEW S \in SUBSET Int, IsFiniteSet(S), S # {}
  PROVE  /\ Min(S) \in S /\ \A y \in S : Min(S) <= y
         /\ Max(S) \in S /\ \A y \in S : Max(S) >= y
<1>1. PICK n, a : /\ n \in Nat /\ a \in [1..n -> S] /\ \A x \in S : \E k \in 1..n : a[k] = x
                  /\ \A k, l \in 1..n : k < l => a[k] < a[l]
  BY AscendingCovers
<1>2. n # 0 /\ 1 \in 1..n /\ n \in 1..n
  <2>1. PICK x \in S : TRUE
    OBVIOUS
  <2>2. PICK k \in 1..n : a[k] = x
    BY <1>1
  <2>3. n \in Nat /\ k \in Int /\ 1 <= k /\ k <= n
    BY <1>1
  <2> QED
    BY <2>3
<1>3. ASSUME NEW y \in S
      PROVE  a[1] <= y /\ a[n] >= y
  <2>1. PICK k \in 1..n : a[k] = y
    BY <1>1
  <2>2. (k = 1 \/ 1 < k) /\ (k = n \/ k < n)
    <3>1. n \in Nat
      BY <1>1
    <3> QED
      BY <3>1
  <2>3. a[1] \in Int /\ a[n] \in Int /\ a[k] \in Int
    BY <1>1, <1>2
  <2> QED
    BY <1>1, <1>2, <2>1, <2>2, <2>3
<1>4. /\ \E x \in S : \A y \in S : x <= y
      /\ \E x \in S : \A y \in S : x >= y
  BY <1>1, <1>2, <1>3
<1> QED
  BY <1>4 DEF Min, Max

Gains(p) == {i \in DOMAIN p : p[i] > 0}
Falls(p) == {i \in DOMAIN p : p[i] < 0}
Unwon(p) == RowsAt(p, {i \in DOMAIN p : p[i] <= 0})

(* What was won and what was lost: what did not win adds nothing to the     *)
(* losses.                                                                  *)
LEMMA SplitTotals ==
  ASSUME NEW p \in Seq(Int)
  PROVE  /\ Total(Wins(p)) \in Nat /\ -Total(Losses(p)) \in Nat /\ Total(Losses(p)) \in Int
         /\ Total(Unwon(p)) = Total(Losses(p))
         /\ \A i \in DOMAIN p : p[i] < 0 => Total(Losses(p)) < 0
<1>1. PICK n : n = Len(p) /\ n \in Nat /\ DOMAIN p = 1..n /\ IsFiniteSet(1..n)
  BY FS_Interval
<1>2. \A K \in SUBSET DOMAIN p : IsFiniteSet(K) /\ \A i \in K : p[i] \in Int
  BY <1>1, FS_Subset
<1>3. Gains(p) \in SUBSET DOMAIN p /\ Falls(p) \in SUBSET DOMAIN p
  BY DEF Gains, Falls
<1>4. /\ Total(Wins(p)) = SumFunctionOnSet(p, Gains(p))
      /\ Total(Losses(p)) = SumFunctionOnSet(p, Falls(p))
  BY <1>3, SumOfRows DEF Wins, Losses, Select, Gains, Falls
<1>5. Total(Wins(p)) \in Nat
  <2>1. \A i \in Gains(p) : p[i] \in Nat
    BY <1>2 DEF Gains
  <2> QED
    BY <1>2, <1>3, <1>4, <2>1, SumOfNaturals
<1>6. /\ -Total(Losses(p)) \in Nat /\ Total(Losses(p)) \in Int
      /\ \A i \in Falls(p) : Total(Losses(p)) < 0
  <2> DEFINE q == [i \in DOMAIN p |-> -p[i]]
             sum == SumFunctionOnSet(q, Falls(p))
  <2>1. \A i \in Falls(p) : q[i] \in Nat \ {0} /\ q[i] \in Int /\ p[i] = -q[i]
    BY <1>2, <1>3 DEF Falls
  <2> HIDE DEF q
  <2>2. sum \in Nat /\ \A i \in Falls(p) : q[i] <= sum
    BY <1>2, <1>3, <2>1, SumOfNaturals
  <2>3. SumFunctionOnSet(p, Falls(p)) = -sum
    BY <1>2, <1>3, <2>1, SumOfOpposites
  <2> HIDE DEF sum
  <2> QED
    BY <1>4, <2>1, <2>2, <2>3
<1>7. Total(Unwon(p)) = Total(Losses(p))
  <2> DEFINE none == {i \in DOMAIN p : p[i] = 0}
             rest == {i \in DOMAIN p : p[i] <= 0}
  <2>1. /\ rest \in SUBSET DOMAIN p /\ none \in SUBSET DOMAIN p
        /\ rest = Falls(p) \cup none /\ Falls(p) \cap none = {}
    BY <1>2 DEF Falls
  <2>2. \A i \in none : p[i] = 0
    OBVIOUS
  <2>3. Total(Unwon(p)) = Total(RowsAt(p, rest))
    BY DEF Unwon
  <2> HIDE DEF none, rest
  <2>4. Total(RowsAt(p, rest)) = SumFunctionOnSet(p, rest)
    BY <2>1, SumOfRows
  <2>5. SumFunctionOnSet(p, none) = 0
    BY <1>2, <2>1, <2>2, SumOfZeros
  <2>6. SumFunctionOnSet(p, Falls(p) \cup none)
          = SumFunctionOnSet(p, Falls(p)) + SumFunctionOnSet(p, none)
    <3>1. \A i \in Falls(p) \cup none : p[i] \in Int
      BY <1>2, <1>3, <2>1
    <3> QED
      BY <1>2, <1>3, <2>1, <3>1, SumOfUnion
  <2> QED
    BY <1>4, <1>6, <2>1, <2>3, <2>4, <2>5, <2>6
<1> QED
  BY <1>5, <1>6, <1>7 DEF Falls

(* A largest loss that is one is the loss of a trade.                       *)
LEMMA LargestLoss ==
  ASSUME NEW p \in Seq(Int), Min(Range(Losses(p)) \cup {0}) < 0
  PROVE  \E i \in DOMAIN p : p[i] < 0
<1>1. Falls(p) \in SUBSET DOMAIN p
  BY DEF Falls
<1>2. PICK n, a, l : /\ n \in Nat /\ a \in Bijection(1..n, Falls(p)) /\ l = Losses(p)
                     /\ l \in Seq(Int) /\ Len(l) = n /\ \A k \in 1..n : l[k] = p[a[k]]
  <2>1. Losses(p) = RowsAt(p, Falls(p))
    BY DEF Losses, Select, Falls
  <2> QED
    BY <1>1, <2>1, RowsAtParts
<1>3. DOMAIN l = 1..n /\ Range(l) = {l[k] : k \in 1..n}
  BY <1>2 DEF Range
<1>4. IsFiniteSet(Range(l) \cup {0}) /\ Range(l) \cup {0} \in SUBSET Int
  <2>1. IsFiniteSet(1..n)
    BY <1>2, FS_Interval
  <2>2. IsFiniteSet({l[k] : k \in 1..n})
    BY <2>1, ImageIsFinite
  <2>3. \A k \in 1..n : l[k] \in Int
    BY <1>2
  <2>4. IsFiniteSet(Range(l) \cup {0})
    BY <1>3, <2>2, FS_AddElement
  <2>5. \A x \in Range(l) : x \in Int
    BY <1>3, <2>3
  <2> QED
    BY <2>4, <2>5
<1>5. PICK m : m = Min(Range(l) \cup {0}) /\ m \in Range(l) \cup {0}
  BY <1>4, Extremes
<1>6. PICK k \in 1..n : m = l[k]
  <2>1. m < 0 /\ m # 0
    BY <1>2, <1>5
  <2>2. m \in Range(l)
    BY <1>5, <2>1
  <2> QED
    BY <1>3, <2>2
<1>7. a[k] \in Falls(p)
  BY <1>2 DEF Bijection, Injection
<1> QED
  BY <1>7 DEF Falls

-----------------------------------------------------------------------------
(* The same numbers                                                         *)

(* What the reports say of the trades of one strategy.                      *)
LEMMA SameRatios ==
  ASSUME NEW p \in Seq(Int)
  PROVE  \E profit, loss \in Nat :
           /\ profit = Total(Wins(p)) /\ loss = -Total(Losses(p))
           /\ Ratio(profit, loss) = IF loss # 0 THEN <<profit, loss>>
                                    ELSE IF profit # 0 THEN Infinite ELSE Zero
           /\ Min(Range(Losses(p)) \cup {0}) < 0 =>
                Pf(profit, Total(Unwon(p))) = Ratio(profit, loss)
<1> DEFINE profit == Total(Wins(p))
           loss == -Total(Losses(p))
<1>1. /\ profit \in Nat /\ loss \in Nat /\ Total(Losses(p)) \in Int
      /\ Total(Unwon(p)) = Total(Losses(p))
  BY SplitTotals
<1>2. Min(Range(Losses(p)) \cup {0}) < 0 => Total(Losses(p)) < 0
  BY LargestLoss, SplitTotals
<1>3. Total(Losses(p)) = -loss
  BY <1>1
<1>4. PICK x, y : x = profit /\ y = loss
  OBVIOUS
<1> HIDE DEF profit, loss
<1>5. /\ Ratio(x, y) = IF y # 0 THEN <<x, y>> ELSE IF x # 0 THEN Infinite ELSE Zero
      /\ Min(Range(Losses(p)) \cup {0}) < 0 => Pf(x, Total(Unwon(p))) = Ratio(x, y)
  BY <1>1, <1>2, <1>3, <1>4 DEF Ratio, Pf
<1> QED
  BY <1>1, <1>4, <1>5 DEF profit, loss

(* The three tables by strategy are tables of the same groups.              *)
LEMMA StrategyTables ==
  ASSUME NEW trades
  PROVE  LET c == StrategiesOf(trades)
         IN  /\ DOMAIN StrategyPerformance(trades) = Keys(c)
             /\ DOMAIN StrategyAttribution(trades) = Keys(c)
             /\ DOMAIN ReportStrategyPerf(trades) = Keys(c)
             /\ \A k \in Keys(c) :
                  LET ts == RowsAt(trades, At(c, k))
                      p == Pnls(ts)
                  IN  /\ StrategyPerformance(trades)[k] =
                           [trades |-> Len(ts), win_rate |-> WinRate(p),
                            profit_factor |-> Pf(Total(Wins(p)), Total(Unwon(p))),
                            net_pnl |-> Total(p)]
                      /\ StrategyAttribution(trades)[k] = ExtendedMetrics(ts)
                      /\ ReportStrategyPerf(trades)[k] =
                           [trades |-> Len(ts), win_rate |-> WinRate(p),
                            profit_factor |->
                              IF -Total(Losses(p)) # 0 THEN <<Total(Wins(p)), -Total(Losses(p))>>
                              ELSE IF Total(Wins(p)) # 0 THEN Infinite ELSE Zero,
                            net_pnl |-> Total(p)]
  BY DEF StrategyPerformance, StrategyAttribution, ReportStrategyPerf, GroupBy, Select,
         Unwon, Keys, At, StrategiesOf

(* The ratios of a group.                                                   *)
LEMMA MetricsRatios ==
  ASSUME NEW trades
  PROVE  LET p == Pnls(trades)
         IN  /\ ExtendedMetrics(trades).win_rate = WinRate(p)
             /\ ExtendedMetrics(trades).profit_factor = Ratio(Total(Wins(p)), -Total(Losses(p)))
             /\ ExtendedMetrics(trades).largest_loss = Min(Range(Losses(p)) \cup {0})
  BY DEF ExtendedMetrics

(* They agree on a strategy.                                                *)
LEMMA StrategiesAgree ==
  ASSUME NEW trades \in Seq(ClosedTrade), NEW k \in Keys(StrategiesOf(trades))
  PROVE  LET table == StrategyPerformance(trades)
             attribution == StrategyAttribution(trades)
             eod == ReportStrategyPerf(trades)
         IN  /\ table[k].win_rate = attribution[k].win_rate
             /\ table[k].win_rate = eod[k].win_rate
             /\ table[k].net_pnl = eod[k].net_pnl
             /\ table[k].net_pnl = attribution[k].total_pnl
             /\ eod[k].profit_factor = attribution[k].profit_factor
             /\ attribution[k].largest_loss < 0 => table[k].profit_factor = eod[k].profit_factor
<1>1. PICK c, ts, p : /\ c = StrategiesOf(trades) /\ ts = RowsAt(trades, At(c, k))
                      /\ ts \in Seq(ClosedTrade) /\ p = Pnls(ts) /\ p \in Seq(Int)
  <2>1. RowsAt(trades, At(StrategiesOf(trades), k)) \in Seq(ClosedTrade)
    BY KeyOfEach, GroupParts
  <2> QED
    BY <2>1, TradesHavePnl, PnlsParts
<1>2. PICK profit \in Nat, loss \in Nat :
        /\ profit = Total(Wins(p)) /\ loss = -Total(Losses(p))
        /\ Ratio(profit, loss) = IF loss # 0 THEN <<profit, loss>>
                                 ELSE IF profit # 0 THEN Infinite ELSE Zero
        /\ Min(Range(Losses(p)) \cup {0}) < 0 => Pf(profit, Total(Unwon(p))) = Ratio(profit, loss)
  <2>1. p \in Seq(Int)
    BY <1>1
  <2> QED
    BY <2>1, SameRatios
<1>4. /\ StrategyPerformance(trades)[k].win_rate = WinRate(p)
      /\ StrategyPerformance(trades)[k].net_pnl = Total(p)
      /\ StrategyPerformance(trades)[k].profit_factor = Pf(profit, Total(Unwon(p)))
  <2>1. StrategyPerformance(trades)[k] =
          [trades |-> Len(ts), win_rate |-> WinRate(p),
           profit_factor |-> Pf(Total(Wins(p)), Total(Unwon(p))), net_pnl |-> Total(p)]
    BY <1>1, StrategyTables
  <2> QED
    BY <1>2, <2>1
<1>5. /\ ReportStrategyPerf(trades)[k].win_rate = WinRate(p)
      /\ ReportStrategyPerf(trades)[k].net_pnl = Total(p)
      /\ ReportStrategyPerf(trades)[k].profit_factor =
           IF loss # 0 THEN <<profit, loss>> ELSE IF profit # 0 THEN Infinite ELSE Zero
  <2>1. ReportStrategyPerf(trades)[k] =
          [trades |-> Len(ts), win_rate |-> WinRate(p),
           profit_factor |->
             IF -Total(Losses(p)) # 0 THEN <<Total(Wins(p)), -Total(Losses(p))>>
             ELSE IF Total(Wins(p)) # 0 THEN Infinite ELSE Zero,
           net_pnl |-> Total(p)]
    BY <1>1, StrategyTables
  <2> QED
    BY <1>2, <2>1
<1>6. /\ StrategyAttribution(trades)[k].win_rate = WinRate(p)
      /\ StrategyAttribution(trades)[k].total_pnl = Total(p)
      /\ StrategyAttribution(trades)[k].profit_factor = Ratio(profit, loss)
      /\ StrategyAttribution(trades)[k].largest_loss = Min(Range(Losses(p)) \cup {0})
  <2>1. StrategyAttribution(trades)[k] = ExtendedMetrics(ts)
    BY <1>1, StrategyTables
  <2> QED
    BY <1>1, <1>2, <2>1, MetricsTotals, MetricsRatios
<1> QED
  BY <1>2, <1>4, <1>5, <1>6

Won(ts) == RowsAt(ts, {i \in DOMAIN ts : ts[i].pnl > 0})

(* A month is counted by its trades or by its results.                      *)
LEMMA MonthsAgree ==
  ASSUME NEW trades \in Seq(ClosedTrade)
  PROVE  MonthlySummary(trades) = MonthlyPnl(trades)
<1> DEFINE c == MonthsOf(trades)
           ts(k) == RowsAt(trades, At(c, k))
           wins(k) == Won(ts(k))
           groups == GroupBy(trades, LAMBDA t : t.closed \div DaysPerMonth)
<1>1. DOMAIN groups = Keys(c) /\ \A k \in Keys(c) : groups[k] = ts(k)
  BY DEF GroupBy, Select, Keys, At, MonthsOf
<1>2. MonthlySummary(trades) =
        [k \in DOMAIN groups |-> [pnl |-> Total(Pnls(groups[k])), n_trades |-> Len(groups[k]),
                                 win_rate |-> <<100 * Len(Won(groups[k])), Len(groups[k])>>]]
  BY DEF MonthlySummary, Select, Won
<1>3. MonthlySummary(trades) =
        [k \in Keys(c) |-> [pnl |-> Total(Pnls(ts(k))), n_trades |-> Len(ts(k)),
                            win_rate |-> <<100 * Len(wins(k)), Len(ts(k))>>]]
  <2> HIDE DEF groups, ts, c
  <2> QED
    BY <1>1, <1>2
<1>4. MonthlyPnl(trades) =
        [k \in Keys(c) |-> [pnl |-> Total(Pnls(ts(k))), n_trades |-> Len(ts(k)),
                            win_rate |-> WinRate(Pnls(ts(k)))]]
  BY DEF MonthlyPnl, GroupBy, Select, Keys, At, MonthsOf
<1>5. ASSUME NEW k \in Keys(c)
      PROVE  WinRate(Pnls(ts(k))) = <<100 * Len(wins(k)), Len(ts(k))>>
  <2>1. DOMAIN c = DOMAIN trades
    BY KeyOfEach
  <2> HIDE DEF c
  <2>2. PICK t : /\ t = ts(k) /\ t \in Seq(ClosedTrade) /\ Len(t) = Cardinality(At(c, k))
    BY <2>1, GroupParts
  <2>3. PICK p : /\ p = Pnls(t) /\ p \in Seq(Int) /\ Len(p) = Len(t) /\ DOMAIN p = DOMAIN t
                 /\ \A i \in DOMAIN t : p[i] = t[i].pnl
    BY <2>2, TradesHavePnl, PnlsParts
  <2>4. Len(t) # 0
    <3>1. At(c, k) # {}
      BY DEF Keys, At
    <3>2. IsFiniteSet(At(c, k))
      BY <2>1, GroupParts
    <3> QED
      BY <2>2, <3>1, <3>2, FS_EmptySet
  <2>5. Len(Wins(p)) = Len(Won(t))
    <3> DEFINE K == {i \in DOMAIN t : t[i].pnl > 0}
    <3>1. {i \in DOMAIN p : p[i] > 0} = K
      BY <2>3
    <3>2. Wins(p) = RowsAt(p, K) /\ Won(t) = RowsAt(t, K)
      BY <3>1 DEF Wins, Select, Won
    <3>3. K \in SUBSET DOMAIN t /\ K \in SUBSET DOMAIN p
      BY <2>3
    <3> HIDE DEF K
    <3>4. Len(RowsAt(p, K)) = Cardinality(K)
      BY <2>3, <3>3, RowsAtParts
    <3>5. Len(RowsAt(t, K)) = Cardinality(K)
      BY <2>2, <3>3, RowsAtParts
    <3> QED
      BY <3>2, <3>4, <3>5
  <2>6. WinRate(p) = <<100 * Len(Wins(p)), Len(p)>>
    BY <2>3, <2>4 DEF WinRate
  <2> QED
    BY <2>2, <2>3, <2>5, <2>6
<1> HIDE DEF c, ts, wins
<1> QED
  BY <1>3, <1>4, <1>5

-----------------------------------------------------------------------------
(* Streaks                                                                  *)

(* The larger of two numbers.                                               *)
LEMMA MaxOfTwo ==
  ASSUME NEW a \in Int, NEW b \in Int
  PROVE  Max({a, b}) = IF a >= b THEN a ELSE b
<1>1. PICK m : m = IF a >= b THEN a ELSE b
  OBVIOUS
<1>2. m \in {a, b} /\ m >= a /\ m >= b /\ \A x \in {a, b} : x >= a /\ x >= b => x = m
  BY <1>1
<1>3. \E x \in {a, b} : \A y \in {a, b} : x >= y
  BY <1>2
<1> QED
  BY <1>1, <1>2, <1>3 DEF Max

(* A trade more.                                                            *)
Streak(s, x) ==
  LET w == IF x > 0 THEN s.w + 1 ELSE 0
      l == IF x < 0 THEN s.l + 1 ELSE 0
  IN  [w |-> w, l |-> l, wins |-> Max({s.wins, w}), losses |-> Max({s.losses, l})]

Streaks == [w : Nat, l : Nat, wins : Nat, losses : Nat]
NoStreak == [w |-> 0, l |-> 0, wins |-> 0, losses |-> 0]

(* A trade makes a streak longer or ends it, and the longest never shrink.  *)
LEMMA StreakGrows ==
  ASSUME NEW s \in Streaks, NEW x \in Int
  PROVE  /\ Streak(s, x) \in Streaks
         /\ Streak(s, x).w = IF x > 0 THEN s.w + 1 ELSE 0
         /\ Streak(s, x).l = IF x < 0 THEN s.l + 1 ELSE 0
         /\ Streak(s, x).wins >= s.wins /\ Streak(s, x).wins >= Streak(s, x).w
         /\ Streak(s, x).losses >= s.losses /\ Streak(s, x).losses >= Streak(s, x).l
<1>1. PICK w, l : w = (IF x > 0 THEN s.w + 1 ELSE 0) /\ l = (IF x < 0 THEN s.l + 1 ELSE 0)
  OBVIOUS
<1>2. w \in Nat /\ l \in Nat /\ s.wins \in Nat /\ s.losses \in Nat
  BY <1>1 DEF Streaks
<1>3. PICK a, b : a = Max({s.wins, w}) /\ b = Max({s.losses, l})
  OBVIOUS
<1>4. a \in Nat /\ a >= s.wins /\ a >= w /\ b \in Nat /\ b >= s.losses /\ b >= l
  BY <1>2, <1>3, MaxOfTwo
<1>5. Streak(s, x) = [w |-> w, l |-> l, wins |-> a, losses |-> b]
  BY <1>1, <1>3 DEF Streak
<1> QED
  BY <1>1, <1>2, <1>4, <1>5 DEF Streaks

(* The streaks are counted trade by trade.                                  *)
LEMMA StreaksStepByStep ==
  ASSUME NEW p \in Seq(Int), NEW N \in Nat, N = Len(p)
  PROVE  \E h : /\ h[0] = NoStreak /\ h[N] = StreakStats(p)
                /\ \A n \in 1..N : h[n] = Streak(h[n - 1], p[n])
                /\ \A n \in 0..N : h[n] \in Streaks
<1> DEFINE step == [q \in Streaks \X (1..N) |-> Streak(q[1], p[q[2]])]
           Solves(f) == f = [s \in SUBSET (1..N) |->
                               IF s = {} THEN NoStreak
                               ELSE Streak(f[s \ {Greatest(s)}], p[Greatest(s)])]
<1>1. NoStreak \in Streaks /\ \A s \in Streaks, n \in 1..N : Streak(s, p[n]) \in Streaks
  <2>1. \A n \in 1..N : p[n] \in Int
    OBVIOUS
  <2> QED
    BY <2>1, StreakGrows DEF NoStreak, Streaks
<1>2. step \in [Streaks \X (1..N) -> Streaks]
  BY <1>1
<1>3. PICK g \in [SUBSET (1..N) -> Streaks] : FoldsBy(g, N, NoStreak, step)
  <2> HIDE DEF step
  <2> QED
    BY <1>1, <1>2, FoldSolved
<1>4. Solves(g)
  <2>1. ASSUME NEW s \in SUBSET (1..N), s # {}
        PROVE  step[<<g[s \ {Greatest(s)}], Greatest(s)>>]
                 = Streak(g[s \ {Greatest(s)}], p[Greatest(s)])
    <3>1. Greatest(s) \in 1..N /\ g[s \ {Greatest(s)}] \in Streaks
      BY <2>1, GreatestIsElement
    <3> QED
      BY <3>1
  <2> HIDE DEF step
  <2> QED
    BY <1>3, <2>1 DEF FoldsBy
<1>5. StreakStats(p) = (CHOOSE f : Solves(f))[1..N]
  <2>1. DOMAIN p = 1..N
    OBVIOUS
  <2> QED
    BY <2>1 DEF StreakStats, FoldLeft, MapThenFoldSet, Max, Greatest, Streak, NoStreak
<1>6. PICK f : Solves(f) /\ StreakStats(p) = f[1..N]
  <2> HIDE DEF Solves
  <2> QED
    BY <1>4, <1>5
<1> DEFINE h == [n \in 0..N |-> f[1..n]]
<1> HIDE DEF NoStreak
<1>7. h[0] = NoStreak /\ h[N] = StreakStats(p)
  <2>1. 1..0 = {} /\ 1..0 \in SUBSET (1..N) /\ 0 \in 0..N /\ N \in 0..N
    OBVIOUS
  <2> QED
    BY <1>6, <2>1
<1>8. ASSUME NEW n \in 1..N
      PROVE  h[n] = Streak(h[n - 1], p[n])
  <2>1. f[1..n] = Streak(f[(1..n) \ {Greatest(1..n)}], p[Greatest(1..n)])
    <3> HIDE DEF Greatest
    <3> QED
      BY <1>6, FoldPrefix
  <2> QED
    BY <2>1, FoldPrefix
<1> HIDE DEF h
<1>9. \A n \in 0..N : h[n] \in Streaks
  <2>1. h[0] \in Streaks
    BY <1>1, <1>7
  <2>2. \A n \in 1..N : h[n - 1] \in Streaks => h[n] \in Streaks
    BY <1>1, <1>8
  <2> QED
    BY <2>1, <2>2, StepByStep
<1> QED
  BY <1>7, <1>8, <1>9

(* Trades that won one after the other at the end are a streak, and so are  *)
(* trades that lost.                                                        *)
LEMMA LongestStreak ==
  ASSUME NEW p \in Seq(Int), NEW N \in Nat, N = Len(p), NEW m \in 0..N
  PROVE  /\ StreakStats(p) \in Streaks
         /\ (\A i \in (m + 1)..N : p[i] > 0) => StreakStats(p).wins >= N - m
         /\ (\A i \in (m + 1)..N : p[i] < 0) => StreakStats(p).losses >= N - m
<1>1. PICK h : /\ h[0] = NoStreak /\ h[N] = StreakStats(p)
               /\ \A n \in 1..N : h[n] = Streak(h[n - 1], p[n])
               /\ \A n \in 0..N : h[n] \in Streaks
  BY StreaksStepByStep
<1> DEFINE WonOn(n) == \A k \in 0..n : (\A i \in (k + 1)..n : p[i] > 0) => h[n].w >= n - k
           Lost(n) == \A k \in 0..n : (\A i \in (k + 1)..n : p[i] < 0) => h[n].l >= n - k
           Fine(n) == h[n].wins >= h[n].w /\ h[n].losses >= h[n].l
           T == {n \in 0..N : WonOn(n) /\ Lost(n) /\ Fine(n)}
<1>2. 0 \in T
  <2>1. h[0].w = 0 /\ h[0].l = 0 /\ h[0].wins = 0 /\ h[0].losses = 0
    BY <1>1 DEF NoStreak
  <2> QED
    BY <2>1
<1>3. ASSUME NEW n \in 1..N, n - 1 \in T
      PROVE  n \in T
  <2>1. /\ n \in 0..N /\ n - 1 \in 0..N /\ n \in Nat /\ p[n] \in Int
        /\ h[n - 1] \in Streaks /\ h[n] \in Streaks
    BY <1>1
  <2>2. /\ h[n].w = IF p[n] > 0 THEN h[n - 1].w + 1 ELSE 0
        /\ h[n].l = IF p[n] < 0 THEN h[n - 1].l + 1 ELSE 0
        /\ h[n].wins >= h[n].w /\ h[n].losses >= h[n].l
    <3>1. PICK s \in Streaks, x \in Int : s = h[n - 1] /\ x = p[n] /\ h[n] = Streak(s, x)
      BY <1>1, <2>1
    <3> HIDE DEF Streaks
    <3>2. /\ Streak(s, x).w = IF x > 0 THEN s.w + 1 ELSE 0
          /\ Streak(s, x).l = IF x < 0 THEN s.l + 1 ELSE 0
          /\ Streak(s, x).wins >= Streak(s, x).w /\ Streak(s, x).losses >= Streak(s, x).l
      BY StreakGrows
    <3> QED
      BY <3>1, <3>2
  <2>3. /\ h[n].w \in Nat /\ h[n].l \in Nat /\ h[n - 1].w \in Nat /\ h[n - 1].l \in Nat
    BY <2>1 DEF Streaks
  <2>4. WonOn(n - 1) /\ Lost(n - 1)
    BY <1>3
  <2>5. ASSUME NEW k \in 0..n, \A i \in (k + 1)..n : p[i] > 0
        PROVE  h[n].w >= n - k
    <3>1. CASE k = n
      BY <2>3, <3>1
    <3>2. CASE k # n
      <4>1. k \in 0..(n - 1) /\ n \in (k + 1)..n /\ \A i \in (k + 1)..(n - 1) : i \in (k + 1)..n
        BY <2>1, <3>2
      <4>2. p[n] > 0 /\ h[n - 1].w >= (n - 1) - k
        BY <2>4, <2>5, <4>1
      <4>3. h[n].w = h[n - 1].w + 1
        BY <2>2, <4>2
      <4> QED
        BY ONLY n \in 1..N, N \in Nat, k \in 0..n, <2>3, <4>2, <4>3
    <3> QED
      BY <3>1, <3>2
  <2>6. ASSUME NEW k \in 0..n, \A i \in (k + 1)..n : p[i] < 0
        PROVE  h[n].l >= n - k
    <3>1. CASE k = n
      BY <2>3, <3>1
    <3>2. CASE k # n
      <4>1. k \in 0..(n - 1) /\ n \in (k + 1)..n /\ \A i \in (k + 1)..(n - 1) : i \in (k + 1)..n
        BY <2>1, <3>2
      <4>2. p[n] < 0 /\ h[n - 1].l >= (n - 1) - k
        BY <2>4, <2>6, <4>1
      <4>3. h[n].l = h[n - 1].l + 1
        BY <2>2, <4>2
      <4> QED
        BY ONLY n \in 1..N, N \in Nat, k \in 0..n, <2>3, <4>2, <4>3
    <3> QED
      BY <3>1, <3>2
  <2> QED
    BY <2>1, <2>2, <2>5, <2>6
<1>4. N \in T
  <2> HIDE DEF T
  <2>1. \A n \in 0..N : n \in T
    BY <1>2, <1>3, IntervalCovered
  <2> QED
    BY <2>1
<1>5. WonOn(N) /\ Lost(N) /\ Fine(N) /\ h[N] \in Streaks
  BY <1>1, <1>4
<1>6. h[N].w \in Nat /\ h[N].wins \in Nat /\ h[N].l \in Nat /\ h[N].losses \in Nat
  BY <1>5 DEF Streaks
<1> QED
  BY <1>1, <1>5, <1>6

(* The current streak is one of those.                                      *)
LEMMA StreakIsCounted ==
  ASSUME NEW p \in Seq(Int), p # <<>>, \A i \in DOMAIN p : p[i] # 0
  PROVE  /\ CurrentStreak(p) <= StreakStats(p).wins
         /\ -CurrentStreak(p) <= StreakStats(p).losses
<1> DEFINE n == Len(p)
           broken == {i \in 1..n : Sign(p[i]) # Sign(p[n])}
<1>1. n \in Nat /\ n > 0 /\ \A i \in 1..n : p[i] \in Int /\ p[i] # 0
  OBVIOUS
<1>2. PICK m \in 0..n : /\ CurrentStreak(p) = Sign(p[n]) * (n - m)
                        /\ \A i \in (m + 1)..n : Sign(p[i]) = Sign(p[n])
  <2>1. CASE broken = {}
    <3>1. CurrentStreak(p) = Sign(p[n]) * (n - 0)
      BY <1>1, <2>1 DEF CurrentStreak
    <3>2. \A i \in (0 + 1)..n : Sign(p[i]) = Sign(p[n])
      BY <2>1
    <3>3. 0 \in 0..n
      BY <1>1
    <3> HIDE DEF n, broken
    <3> QED
      BY <3>1, <3>2, <3>3
  <2>2. CASE broken # {}
    <3>1. IsFiniteSet(broken) /\ broken \in SUBSET Int
      <4>1. IsFiniteSet(1..n) /\ broken \subseteq 1..n
        BY <1>1, FS_Interval
      <4>2. 1..n \subseteq Int
        OBVIOUS
      <4> HIDE DEF n, broken
      <4> QED
        BY <4>1, <4>2, FS_Subset
    <3>2. PICK m : m = Max(broken) /\ m \in broken /\ \A i \in broken : i <= m
      <4> HIDE DEF n, broken
      <4> QED
        BY <2>2, <3>1, Extremes
    <3>3. CurrentStreak(p) = Sign(p[n]) * (n - m)
      BY <1>1, <2>2, <3>2 DEF CurrentStreak
    <3>4. m \in 1..n
      BY <3>2
    <3>5. \A i \in (m + 1)..n : i \in 1..n /\ ~(i <= m)
      BY <1>1, <3>4
    <3>6. \A i \in (m + 1)..n : i \notin broken /\ i \in 1..n
      <4> HIDE DEF broken
      <4> QED
        BY <3>2, <3>5
    <3>7. m \in 0..n
      BY <3>4
    <3> QED
      BY <3>3, <3>6, <3>7
  <2> QED
    BY <2>1, <2>2
<1> HIDE DEF broken
<1>3. /\ StreakStats(p) \in Streaks
      /\ (\A i \in (m + 1)..n : p[i] > 0) => StreakStats(p).wins >= n - m
      /\ (\A i \in (m + 1)..n : p[i] < 0) => StreakStats(p).losses >= n - m
  BY <1>1, LongestStreak
<1>4. \A i \in (m + 1)..n : i \in 1..n
  BY <1>1
<1>5. PICK x, y : x = StreakStats(p).wins /\ y = StreakStats(p).losses /\ x \in Nat /\ y \in Nat
  BY <1>3 DEF Streaks
<1>6. CASE p[n] > 0
  <2>1. Sign(p[n]) = 1 /\ \A i \in (m + 1)..n : p[i] > 0
    BY <1>1, <1>2, <1>4, <1>6 DEF Sign
  <2>2. CurrentStreak(p) = n - m /\ x >= n - m
    BY <1>1, <1>2, <1>3, <1>5, <2>1
  <2> QED
    BY <1>1, <1>5, <2>2
<1>7. CASE p[n] < 0
  <2>1. Sign(p[n]) = -1 /\ \A i \in (m + 1)..n : p[i] < 0
    BY <1>1, <1>2, <1>4, <1>7 DEF Sign
  <2>2. CurrentStreak(p) = -(n - m) /\ y >= n - m
    BY <1>1, <1>2, <1>3, <1>5, <2>1
  <2> QED
    BY <1>1, <1>5, <2>2
<1> QED
  BY <1>1, <1>6, <1>7

(* The streak an account is on is no longer than the longest.               *)
LEMMA StreaksAgree ==
  ASSUME NEW trades \in Seq(ClosedTrade), trades # <<>>
  PROVE  LET streak == TradeAnalytics(trades).current_streak
             all    == ExtendedMetrics(trades)
         IN  (\A i \in DOMAIN trades : trades[i].pnl # 0) =>
               /\ streak <= all.consecutive_wins_max
               /\ -streak <= all.consecutive_losses_max
<1>1. PICK p : /\ p = Pnls(trades) /\ p \in Seq(Int) /\ DOMAIN p = DOMAIN trades
               /\ Len(p) = Len(trades) /\ \A i \in DOMAIN trades : p[i] = trades[i].pnl
  BY TradesHavePnl, PnlsParts
<1>2. TradeAnalytics(trades).current_streak = CurrentStreak(p)
  BY <1>1 DEF TradeAnalytics
<1>3. /\ ExtendedMetrics(trades).consecutive_wins_max = StreakStats(p).wins
      /\ ExtendedMetrics(trades).consecutive_losses_max = StreakStats(p).losses
  BY <1>1 DEF ExtendedMetrics
<1>4. p # <<>>
  BY <1>1
<1> QED
  BY <1>1, <1>2, <1>3, <1>4, StreakIsCounted

-----------------------------------------------------------------------------
(* Episodes of a drawdown                                                   *)

(* The sum of the first so many results.                                    *)
UpTo(p, n) == SumFunctionOnSet(p, 1..n)

(* Another result is added to the sum of those before it.                   *)
LEMMA SumsGrow ==
  ASSUME NEW p \in Seq(Int)
  PROVE  /\ UpTo(p, 0) = 0 /\ Total(p) = UpTo(p, Len(p))
         /\ \A n \in 0..Len(p) : UpTo(p, n) \in Int
         /\ \A n \in 1..Len(p) : UpTo(p, n) = UpTo(p, n - 1) + p[n]
<1>1. Len(p) \in Nat /\ DOMAIN p = 1..Len(p) /\ \A i \in 1..Len(p) : p[i] \in Int
  OBVIOUS
<1>2. UpTo(p, 0) = 0
  <2>1. 1..0 = {}
    OBVIOUS
  <2> QED
    BY <2>1, FS_EmptySet, SumRecursion DEF UpTo
<1>3. Total(p) = UpTo(p, Len(p))
  BY <1>1 DEF Total, SumFunction, UpTo
<1>4. ASSUME NEW n \in 0..Len(p)
      PROVE  UpTo(p, n) \in Int
  <2>1. \A i \in 1..n : p[i] \in Int
    BY <1>1
  <2>2. IsFiniteSet(1..n)
    BY <1>1, FS_Interval
  <2> QED
    BY <2>1, <2>2, SumOfElements DEF UpTo
<1>5. ASSUME NEW n \in 1..Len(p)
      PROVE  UpTo(p, n) = UpTo(p, n - 1) + p[n]
  <2> DEFINE D == 1..(n - 1)
  <2>1. n \notin D /\ D \cup {n} = 1..n /\ (\A i \in D : p[i] \in Int) /\ p[n] \in Int
    BY <1>1
  <2>2. IsFiniteSet(D)
    BY <1>1, FS_Interval
  <2>3. UpTo(p, n - 1) = SumFunctionOnSet(p, D)
    BY DEF UpTo
  <2>4. UpTo(p, n) = SumFunctionOnSet(p, D \cup {n})
    BY <2>1 DEF UpTo
  <2> HIDE DEF D
  <2>5. SumFunctionOnSet(p, D \cup {n}) = p[n] + SumFunctionOnSet(p, D)
    BY <2>1, <2>2, SumWithElement
  <2>6. SumFunctionOnSet(p, D) \in Int
    BY <2>1, <2>2, SumOfElements
  <2> QED
    BY <2>1, <2>3, <2>4, <2>5, <2>6
<1> QED
  BY <1>2, <1>3, <1>4, <1>5

(* A list that got longer sums up to what was appended more.                *)
LEMMA TotalAppended ==
  ASSUME NEW p \in Seq(Int), NEW x \in Int
  PROVE  /\ Total(p) \in Int /\ Total(Append(p, x)) = Total(p) + x
         /\ p = <<>> => Total(p) = 0
<1>1. PICK n, q : /\ n = Len(p) /\ n \in Nat /\ q = Append(p, x) /\ q \in Seq(Int)
                  /\ Len(q) = n + 1 /\ q[n + 1] = x /\ \A i \in 1..n : q[i] = p[i] /\ p[i] \in Int
  <2>1. PICK n, q : n = Len(p) /\ q = Append(p, x)
    OBVIOUS
  <2>2. n \in Nat /\ \A i \in 1..n : p[i] \in Int
    BY <2>1
  <2>3. q \in Seq(Int) /\ Len(q) = n + 1 /\ q[n + 1] = x /\ \A i \in 1..n : q[i] = p[i]
    BY <2>1, AppendProperties
  <2> QED
    BY <2>1, <2>2, <2>3
<1>2. Total(q) = UpTo(q, n) + x
  <2>1. n + 1 \in 1..Len(q) /\ (n + 1) - 1 = n
    BY <1>1
  <2> QED
    BY <1>1, <2>1, SumsGrow
<1>3. UpTo(q, n) = UpTo(p, n)
  <2>1. IsFiniteSet(1..n)
    BY <1>1, FS_Interval
  <2>2. \A i \in 1..n : p[i] \in Int /\ p[i] = q[i]
    BY <1>1
  <2> DEFINE D == 1..n
  <2> HIDE DEF D
  <2>3. IsFiniteSet(D) /\ \A i \in D : p[i] \in Int /\ p[i] = q[i]
    BY <2>1, <2>2 DEF D
  <2>4. SumFunctionOnSet(p, D) = SumFunctionOnSet(q, D)
    BY <2>3, SumsAgree
  <2> QED
    BY <2>4 DEF D, UpTo
<1>4. Total(p) = UpTo(p, n) /\ UpTo(p, n) \in Int /\ UpTo(p, 0) = 0
  <2>1. n \in 0..Len(p)
    BY <1>1
  <2> QED
    BY <1>1, <2>1, SumsGrow
<1> QED
  BY <1>1, <1>2, <1>3, <1>4

(* Another day.                                                             *)
Episode(s, dd) ==
  IF dd[1] > 0
  THEN [s EXCEPT !.length = @ + 1, !.worst = Worse(dd, @)]
  ELSE IF s.length > 0
  THEN [length |-> 0, worst |-> Zero,
        done |-> Append(s.done, [worst |-> s.worst, length |-> s.length])]
  ELSE s

Ended == [worst : Fraction, length : Nat]
Ongoing == [length : Nat, worst : Fraction, done : Seq(Ended)]
NoEpisode == [length |-> 0, worst |-> Zero, done |-> <<>>]

(* A day under water prolongs the episode, any other ends it.               *)
LEMMA EpisodeParts ==
  ASSUME NEW s \in Ongoing, NEW dd \in Fraction
  PROVE  /\ Episode(s, dd) \in Ongoing
         /\ dd[1] > 0 =>
              /\ Episode(s, dd).length = s.length + 1
              /\ Episode(s, dd).worst = Worse(dd, s.worst)
              /\ Episode(s, dd).done = s.done
         /\ ~(dd[1] > 0) /\ s.length > 0 =>
              /\ Episode(s, dd).length = 0 /\ Episode(s, dd).worst = Zero
              /\ Episode(s, dd).done = Append(s.done, [worst |-> s.worst, length |-> s.length])
         /\ ~(dd[1] > 0) /\ ~(s.length > 0) => Episode(s, dd) = s
<1>1. PICK length \in Nat, worst \in Fraction, done \in Seq(Ended) :
        s = [length |-> length, worst |-> worst, done |-> done]
  BY DEF Ongoing
<1>2. Worse(dd, worst) \in Fraction /\ Zero \in Fraction
  BY DEF Worse, Zero, Fraction
<1>3. PICK w \in Fraction : w = Worse(dd, worst)
  BY <1>2
<1>4. PICK d \in Seq(Ended) : d = Append(done, [worst |-> worst, length |-> length])
  <2>1. [worst |-> worst, length |-> length] \in Ended
    BY DEF Ended
  <2> HIDE DEF Ended
  <2> QED
    BY <2>1, AppendProperties
<1>5. dd[1] > 0 => Episode(s, dd) = [length |-> length + 1, worst |-> w, done |-> done]
  BY <1>1, <1>3 DEF Episode
<1>6. ~(dd[1] > 0) /\ length > 0 => Episode(s, dd) = [length |-> 0, worst |-> Zero, done |-> d]
  BY <1>1, <1>4 DEF Episode
<1>7. ~(dd[1] > 0) /\ ~(length > 0) => Episode(s, dd) = s
  BY <1>1 DEF Episode
<1>8. length + 1 \in Nat
  OBVIOUS
<1>9. Episode(s, dd) \in Ongoing
  <2> HIDE DEF Ended, Fraction, Zero, Episode
  <2> QED
    BY <1>1, <1>2, <1>5, <1>6, <1>7, <1>8 DEF Ongoing
<1> HIDE DEF Fraction, Zero, Episode, Worse
<1> QED
  BY <1>1, <1>3, <1>4, <1>5, <1>6, <1>7, <1>9

(* The peak is a day's equity up to now, and none is above it.              *)
LEMMA PeakParts ==
  ASSUME NEW curve \in Seq(Int), NEW i \in 1..Len(curve)
  PROVE  /\ PeakAt(curve, i) \in Int /\ PeakAt(curve, i) >= curve[i]
         /\ \E j \in 1..i : PeakAt(curve, i) = curve[j]
         /\ \A j \in 1..i : PeakAt(curve, i) >= curve[j]
<1> DEFINE D == 1..i
           S == {curve[j] : j \in D}
<1>1. i \in Nat /\ i \in D /\ \A j \in D : curve[j] \in Int
  OBVIOUS
<1>2. IsFiniteSet(D)
  BY <1>1, FS_Interval
<1>3. PeakAt(curve, i) = Max(S)
  BY DEF PeakAt
<1> HIDE DEF D
<1>4. IsFiniteSet(S)
  BY <1>2, ImageIsFinite
<1>5. S \in SUBSET Int /\ S # {}
  BY <1>1
<1> HIDE DEF S
<1>6. Max(S) \in S /\ \A y \in S : Max(S) >= y
  BY <1>4, <1>5, Extremes
<1> QED
  BY <1>1, <1>3, <1>5, <1>6 DEF S, D

(* A drawdown is a fraction.                                                *)
LEMMA UnderwaterIsRatio ==
  ASSUME NEW curve \in Seq(Int), NEW i \in 1..Len(curve)
  PROVE  Underwater(curve, i) \in Fraction
<1>1. PICK peak, now : /\ peak = PeakAt(curve, i) /\ now = curve[i]
                       /\ peak \in Int /\ now \in Int /\ peak >= now
  BY PeakParts
<1>2. Underwater(curve, i) = IF peak > 0 THEN <<100 * (peak - now), peak>> ELSE Zero
  BY <1>1 DEF Underwater
<1>3. peak > 0 => 100 * (peak - now) \in Nat /\ peak \in Nat \ {0}
  BY <1>1
<1> QED
  BY <1>2, <1>3 DEF Fraction, Zero

(* The days under water, and the episodes after so many of them.            *)
Days(curve) == [i \in DOMAIN curve |-> Underwater(curve, i)]

(* The drawdowns of all days are fractions.                                 *)
LEMMA DaysAreRatios ==
  ASSUME NEW curve \in Seq(Int)
  PROVE  /\ Days(curve) \in Seq(Fraction) /\ Len(Days(curve)) = Len(curve)
         /\ DOMAIN Days(curve) = 1..Len(curve)
<1>1. \A i \in 1..Len(curve) : Underwater(curve, i) \in Fraction
  BY UnderwaterIsRatio
<1>2. DOMAIN curve = 1..Len(curve) /\ Len(curve) \in Nat
  OBVIOUS
<1>3. Days(curve) \in [1..Len(curve) -> Fraction]
  BY <1>1, <1>2 DEF Days
<1> HIDE DEF Fraction
<1> QED
  BY <1>2, <1>3

(* An episode that has not ended is closed.                                 *)
Closed(s) ==
  IF s.length = 0 THEN s.done
  ELSE Append(s.done, [worst |-> s.worst, length |-> s.length])

(* The episodes are counted day by day.                                     *)
LEMMA EpisodesStepByStep ==
  ASSUME NEW curve \in Seq(Int), NEW N \in Nat, N = Len(curve),
         NEW u, u = Days(curve)
  PROVE  \E h : /\ h[0] = NoEpisode
                /\ Episodes(curve) = Closed(h[N])
                /\ \A n \in 1..N : h[n] = Episode(h[n - 1], u[n])
                /\ \A n \in 0..N : h[n] \in Ongoing
<1> DEFINE step == [q \in Ongoing \X (1..N) |-> Episode(q[1], u[q[2]])]
           Solves(f) == f = [s \in SUBSET (1..N) |->
                               IF s = {} THEN NoEpisode
                               ELSE Episode(f[s \ {Greatest(s)}], u[Greatest(s)])]
           places == [i \in DOMAIN curve |-> i]
           Follows(f) == f = [s \in SUBSET (DOMAIN places) |->
                               IF s = {} THEN NoEpisode
                               ELSE Episode(f[s \ {Greatest(s)}],
                                            Underwater(curve, places[Greatest(s)]))]
           end == (CHOOSE f : Follows(f))[DOMAIN places]
<1>1. NoEpisode \in Ongoing /\ \A s \in Ongoing, n \in 1..N : Episode(s, u[n]) \in Ongoing
  <2>1. \A n \in 1..N : u[n] \in Fraction
    BY DaysAreRatios
  <2>2. <<>> \in Seq(Ended) /\ Zero \in Fraction
    BY DEF Zero, Fraction
  <2>3. NoEpisode \in Ongoing
    BY <2>2 DEF NoEpisode, Ongoing
  <2> QED
    BY <2>1, <2>3, EpisodeParts
<1>2. step \in [Ongoing \X (1..N) -> Ongoing]
  BY <1>1
<1>3. PICK g \in [SUBSET (1..N) -> Ongoing] : FoldsBy(g, N, NoEpisode, step)
  <2> HIDE DEF step
  <2> QED
    BY <1>1, <1>2, FoldSolved
<1>4. Solves(g)
  <2>1. ASSUME NEW s \in SUBSET (1..N), s # {}
        PROVE  step[<<g[s \ {Greatest(s)}], Greatest(s)>>]
                 = Episode(g[s \ {Greatest(s)}], u[Greatest(s)])
    <3>1. Greatest(s) \in 1..N /\ g[s \ {Greatest(s)}] \in Ongoing
      BY <2>1, GreatestIsElement
    <3> QED
      BY <3>1
  <2> HIDE DEF step
  <2> QED
    BY <1>3, <2>1 DEF FoldsBy
<1>5. Episodes(curve) = Closed(end)
  BY DEF Closed, Episodes, FoldLeftDomain, FoldLeft, MapThenFoldSet, Max, Greatest,
         Episode, NoEpisode
<1>6. ASSUME NEW f
      PROVE  Solves(f) <=> Follows(f)
  <2>1. ASSUME NEW s \in SUBSET (1..N), s # {}
        PROVE  u[Greatest(s)] = Underwater(curve, places[Greatest(s)])
    <3>1. Greatest(s) \in 1..N
      BY <2>1, GreatestIsElement
    <3> QED
      BY <3>1 DEF Days
  <2>2. DOMAIN places = 1..N
    OBVIOUS
  <2> HIDE DEF places
  <2> QED
    BY <2>1, <2>2
<1>7. PICK f : Solves(f) /\ end = f[1..N]
  <2>1. \E f : Follows(f)
    <3> HIDE DEF Solves, Follows
    <3> QED
      BY <1>4, <1>6
  <2>2. Follows(CHOOSE f : Follows(f))
    <3> HIDE DEF Follows
    <3> QED
      BY <2>1
  <2>3. DOMAIN places = 1..N
    OBVIOUS
  <2> HIDE DEF Solves, Follows, places
  <2> QED
    BY <1>6, <2>2, <2>3
<1> DEFINE h == [n \in 0..N |-> f[1..n]]
<1> HIDE DEF NoEpisode, Follows, end, Episode
<1>8. h[0] = NoEpisode /\ h[N] = end
  <2>1. 1..0 = {} /\ 1..0 \in SUBSET (1..N) /\ 0 \in 0..N /\ N \in 0..N
    OBVIOUS
  <2> QED
    BY <1>7, <2>1
<1>9. ASSUME NEW n \in 1..N
      PROVE  h[n] = Episode(h[n - 1], u[n])
  <2>1. f[1..n] = Episode(f[(1..n) \ {Greatest(1..n)}], u[Greatest(1..n)])
    <3> HIDE DEF Greatest
    <3> QED
      BY <1>7, FoldPrefix
  <2> QED
    BY <2>1, FoldPrefix
<1> HIDE DEF h
<1>10. \A n \in 0..N : h[n] \in Ongoing
  <2>1. h[0] \in Ongoing
    BY <1>1, <1>8
  <2>2. \A n \in 1..N : h[n - 1] \in Ongoing => h[n] \in Ongoing
    BY <1>1, <1>9
  <2> HIDE DEF Ongoing
  <2> QED
    BY <2>1, <2>2, StepByStep
<1>11. Episodes(curve) = Closed(h[N])
  BY <1>5, <1>8
<1> QED
  BY <1>8, <1>9, <1>10, <1>11

Lengths(d) == [k \in DOMAIN d |-> d[k].length]
Wet(u, n) == {i \in 1..n : u[i][1] > 0}

(* An episode that is closed adds its length to theirs.                     *)
LEMMA LengthsAppended ==
  ASSUME NEW d \in Seq(Ended), NEW e \in Ended
  PROVE  /\ Total(Lengths(d)) \in Int
         /\ Total(Lengths(Append(d, e))) = Total(Lengths(d)) + e.length
         /\ d = <<>> => Total(Lengths(d)) = 0
<1>1. PICK n : n = Len(d) /\ n \in Nat /\ DOMAIN d = 1..n /\ \A k \in 1..n : d[k].length \in Int
  <2>1. \A x \in Ended : x.length \in Int
    BY DEF Ended
  <2> HIDE DEF Ended
  <2>2. DOMAIN d = 1..Len(d) /\ Len(d) \in Nat /\ \A k \in 1..Len(d) : d[k] \in Ended
    OBVIOUS
  <2> QED
    BY <2>1, <2>2
<1>2. PICK c : /\ c = Append(d, e) /\ DOMAIN c = 1..(n + 1) /\ c[n + 1] = e
               /\ \A k \in 1..n : c[k] = d[k]
  <2>1. PICK c : c = Append(d, e)
    OBVIOUS
  <2>2. /\ c \in Seq(Ended) /\ Len(c) = n + 1 /\ c[n + 1] = e
        /\ \A k \in 1..n : c[k] = d[k]
    BY <1>1, <2>1, AppendProperties
  <2>3. DOMAIN c = 1..(n + 1)
    BY <2>2
  <2> QED
    BY <2>1, <2>2, <2>3
<1>3. e.length \in Int
  BY DEF Ended
<1>4. PICK p : /\ p = Lengths(d) /\ p \in Seq(Int) /\ Len(p) = n
               /\ \A k \in 1..n : p[k] = d[k].length
  <2>1. PICK p : p = Lengths(d) /\ p = [k \in 1..n |-> d[k].length]
    BY <1>1 DEF Lengths
  <2>2. p \in [1..n -> Int]
    BY <1>1, <2>1
  <2> QED
    BY <1>1, <2>1, <2>2
<1>5. PICK q : q = Lengths(c) /\ q \in Seq(Int) /\ Len(q) = n + 1
               /\ \A k \in 1..(n + 1) : q[k] = c[k].length
  <2>1. PICK q : q = Lengths(c) /\ q = [k \in 1..(n + 1) |-> c[k].length]
    BY <1>2 DEF Lengths
  <2>2. \A k \in 1..(n + 1) : c[k].length \in Int
    BY <1>1, <1>2, <1>3
  <2>3. PICK m \in Nat : m = n + 1
    BY <1>1
  <2>4. q \in [1..m -> Int]
    BY <2>1, <2>2, <2>3
  <2>5. q \in Seq(Int) /\ Len(q) = m
    BY <2>3, <2>4
  <2> QED
    BY <2>1, <2>3, <2>5
<1>6. q = Append(p, e.length)
  <2>1. PICK r, x : r = Append(p, x) /\ x = e.length
    OBVIOUS
  <2>2. r \in Seq(Int) /\ Len(r) = n + 1 /\ r[n + 1] = x /\ \A k \in 1..n : r[k] = p[k]
    BY <1>3, <1>4, <2>1, AppendProperties
  <2>3. \A k \in 1..(n + 1) : q[k] = r[k]
    <3>1. \A k \in 1..n : q[k] = r[k]
      <4> SUFFICES ASSUME NEW k \in 1..n
                   PROVE  q[k] = r[k]
        OBVIOUS
      <4>1. k \in 1..(n + 1)
        BY <1>1
      <4>2. q[k] = c[k].length /\ c[k] = d[k] /\ p[k] = d[k].length /\ r[k] = p[k]
        BY <1>2, <1>4, <1>5, <2>2, <4>1
      <4> QED
        BY <4>2
    <3>2. q[n + 1] = r[n + 1]
      <4>1. n + 1 \in 1..(n + 1)
        BY <1>1
      <4> QED
        BY <1>2, <1>5, <2>1, <2>2, <4>1
    <3>3. \A k \in 1..(n + 1) : k \in 1..n \/ k = n + 1
      BY <1>1
    <3> QED
      BY <3>1, <3>2, <3>3
  <2>4. q = r
    BY <1>5, <2>2, <2>3, SeqEqual
  <2> QED
    BY <2>1, <2>4
<1>7. /\ Total(p) \in Int /\ Total(Append(p, e.length)) = Total(p) + e.length
      /\ p = <<>> => Total(p) = 0
  BY <1>3, <1>4, TotalAppended
<1>8. d = <<>> => p = <<>>
  BY <1>1, <1>4
<1> QED
  BY <1>2, <1>4, <1>5, <1>6, <1>7, <1>8

(* The parts of an episode.                                                 *)
LEMMA EndedParts ==
  ASSUME NEW w \in Fraction, NEW l \in Nat
  PROVE  LET e == [worst |-> w, length |-> l]
         IN  e \in Ended /\ e.worst = w /\ e.length = l
  BY DEF Ended

(* Every day under water is in an episode.                                  *)
LEMMA EpisodeCounts ==
  ASSUME NEW s \in Ongoing, NEW N \in Nat, NEW u, NEW n \in 1..N,
         u[n] \in Fraction,
         Total(Lengths(s.done)) + s.length = Cardinality(Wet(u, n - 1))
  PROVE  Total(Lengths(Episode(s, u[n]).done)) + Episode(s, u[n]).length
           = Cardinality(Wet(u, n))
<1>1. PICK t : t = Episode(s, u[n])
  OBVIOUS
<1>2. s.length \in Nat /\ s.done \in Seq(Ended) /\ s.worst \in Fraction
  BY DEF Ongoing
<1>3. IsFiniteSet(Wet(u, n - 1)) /\ n \notin Wet(u, n - 1)
  <2>1. IsFiniteSet(1..(n - 1))
    BY FS_Interval
  <2>2. Wet(u, n - 1) \subseteq 1..(n - 1) /\ n \notin 1..(n - 1)
    BY DEF Wet
  <2> QED
    BY <2>1, <2>2, FS_Subset
<1>4. Total(Lengths(s.done)) \in Int
  <2>1. PICK e : e \in Ended
    <3>1. [worst |-> s.worst, length |-> s.length] \in Ended
      BY <1>2 DEF Ended
    <3> QED
      BY <3>1
  <2> HIDE DEF Ended
  <2> QED
    BY <1>2, <2>1, LengthsAppended
<1>5. CASE u[n][1] > 0
  <2>1. Wet(u, n) = Wet(u, n - 1) \cup {n}
    BY <1>5 DEF Wet
  <2>2. Cardinality(Wet(u, n)) = Cardinality(Wet(u, n - 1)) + 1
    BY <1>3, <2>1, FS_AddElement
  <2>3. t.length = s.length + 1 /\ t.done = s.done
    BY <1>1, <1>5, EpisodeParts
  <2> QED
    BY <1>1, <1>2, <1>4, <2>2, <2>3
<1>6. CASE ~(u[n][1] > 0)
  <2>1. Wet(u, n) = Wet(u, n - 1)
    BY <1>6 DEF Wet
  <2>2. CASE s.length > 0
    <3>1. PICK e : /\ e = [worst |-> s.worst, length |-> s.length]
                   /\ e \in Ended /\ e.length = s.length
      <4>1. PICK e : e = [worst |-> s.worst, length |-> s.length]
        OBVIOUS
      <4> QED
        BY <1>2, <4>1, EndedParts
    <3>2. t.length = 0 /\ t.done = Append(s.done, e)
      BY <1>1, <1>6, <2>2, <3>1, EpisodeParts
    <3>3. Total(Lengths(t.done)) = Total(Lengths(s.done)) + s.length
      BY <1>2, <3>1, <3>2, LengthsAppended
    <3> QED
      BY <1>1, <1>2, <1>4, <2>1, <3>2, <3>3
  <2>3. CASE ~(s.length > 0)
    <3>1. t = s
      BY <1>1, <1>6, <2>3, EpisodeParts
    <3> QED
      BY <1>1, <2>1, <3>1
  <2> QED
    BY <2>2, <2>3
<1> QED
  BY <1>5, <1>6

(* No day is deeper than the worst of the episodes, and they are days.      *)
IsADay(x, u, n) == x = Zero \/ \E i \in 1..n : x = u[i]
DoneCovers(d, x) == \E k \in 1..Len(d) : AtLeast(d[k].worst, x)
Covers(s, u, n) ==
  /\ s.length = 0 => s.worst = Zero
  /\ IsADay(s.worst, u, n) /\ \A k \in 1..Len(s.done) : IsADay(s.done[k].worst, u, n)
  /\ \A i \in 1..n : u[i][1] > 0 => AtLeast(s.worst, u[i]) \/ DoneCovers(s.done, u[i])

(* The worse of two is one of them and at least either.                     *)
LEMMA WorseCovers ==
  ASSUME NEW a \in Fraction, NEW b \in Fraction
  PROVE  /\ AtLeast(Worse(a, b), a) /\ AtLeast(Worse(a, b), b)
         /\ Worse(a, b) \in {a, b}
  BY AtLeastTotal DEF Worse

(* What the closed episodes cover stays covered by more of them.            *)
LEMMA DoneAppended ==
  ASSUME NEW d \in Seq(Ended), NEW e \in Ended, NEW x
  PROVE  /\ DoneCovers(d, x) => DoneCovers(Append(d, e), x)
         /\ AtLeast(e.worst, x) => DoneCovers(Append(d, e), x)
         /\ \A u, n : /\ IsADay(e.worst, u, n)
                      /\ \A k \in 1..Len(d) : IsADay(d[k].worst, u, n)
                      => \A k \in 1..Len(Append(d, e)) : IsADay(Append(d, e)[k].worst, u, n)
<1>1. PICK n : n = Len(d) /\ n \in Nat
  OBVIOUS
<1>2. PICK c : c = Append(d, e) /\ Len(c) = n + 1 /\ c[n + 1] = e /\ \A k \in 1..n : c[k] = d[k]
  <2>1. PICK c : c = Append(d, e)
    OBVIOUS
  <2> QED
    BY <1>1, <2>1, AppendProperties
<1>3. \A k \in 1..(n + 1) : k \in 1..n \/ k = n + 1
  BY <1>1
<1>4. \A k \in 1..n : k \in 1..(n + 1)
  BY <1>1
<1>5. n + 1 \in 1..(n + 1)
  BY <1>1
<1>6. DoneCovers(d, x) => DoneCovers(c, x)
  BY <1>1, <1>2, <1>4 DEF DoneCovers
<1>7. AtLeast(e.worst, x) => DoneCovers(c, x)
  BY <1>2, <1>5 DEF DoneCovers
<1>8. \A u, m : /\ IsADay(e.worst, u, m)
                /\ \A k \in 1..Len(d) : IsADay(d[k].worst, u, m)
                => \A k \in 1..Len(c) : IsADay(c[k].worst, u, m)
  BY <1>1, <1>2, <1>3
<1> QED
  BY <1>2, <1>6, <1>7, <1>8

(* Another day is covered when those before it are.                         *)
LEMMA EpisodeCovers ==
  ASSUME NEW s \in Ongoing, NEW N \in Nat, NEW u, NEW n \in 1..N,
         \A i \in 1..n : u[i] \in Fraction, Covers(s, u, n - 1)
  PROVE  Covers(Episode(s, u[n]), u, n)
<1>1. PICK t : t = Episode(s, u[n])
  OBVIOUS
<1>2. s.length \in Nat /\ s.done \in Seq(Ended) /\ s.worst \in Fraction
  BY DEF Ongoing
<1>3. /\ n \in 1..n /\ \A i \in 1..n : i \in 1..(n - 1) \/ i = n
      /\ \A i \in 1..(n - 1) : i \in 1..n
  OBVIOUS
<1>4. u[n] \in Fraction
  BY <1>3
<1>5. \A x : IsADay(x, u, n - 1) => IsADay(x, u, n)
  BY <1>3 DEF IsADay
<1>6. IsADay(s.worst, u, n) /\ \A k \in 1..Len(s.done) : IsADay(s.done[k].worst, u, n)
  BY <1>5 DEF Covers
<1>7. CASE u[n][1] > 0
  <2>1. t.length = s.length + 1 /\ t.worst = Worse(u[n], s.worst) /\ t.done = s.done
    BY <1>1, <1>4, <1>7, EpisodeParts
  <2>2. /\ AtLeast(t.worst, u[n]) /\ AtLeast(t.worst, s.worst)
        /\ t.worst \in {u[n], s.worst} /\ t.worst \in Fraction
    BY <1>2, <1>4, <2>1, WorseCovers
  <2>3. IsADay(t.worst, u, n)
    BY <1>3, <1>6, <2>2 DEF IsADay
  <2>4. ASSUME NEW i \in 1..n, u[i][1] > 0
        PROVE  AtLeast(t.worst, u[i]) \/ DoneCovers(t.done, u[i])
    <3>1. CASE i = n
      BY <2>2, <3>1
    <3>2. CASE i \in 1..(n - 1)
      <4>1. AtLeast(s.worst, u[i]) \/ DoneCovers(s.done, u[i])
        BY <2>4, <3>2 DEF Covers
      <4>2. u[i] \in Fraction
        OBVIOUS
      <4>3. AtLeast(s.worst, u[i]) => AtLeast(t.worst, u[i])
        BY <1>2, <2>2, <4>2, AtLeastTransitive
      <4> QED
        BY <2>1, <4>1, <4>3
    <3> QED
      BY <1>3, <3>1, <3>2
  <2>5. t.length # 0
    BY <1>2, <2>1
  <2> QED
    BY <1>1, <1>6, <2>1, <2>3, <2>4, <2>5 DEF Covers
<1>8. CASE ~(u[n][1] > 0) /\ s.length > 0
  <2>1. PICK e : /\ e = [worst |-> s.worst, length |-> s.length] /\ e \in Ended
                 /\ e.worst = s.worst
    BY <1>2, EndedParts
  <2>2. t.length = 0 /\ t.worst = Zero /\ t.done = Append(s.done, e)
    BY <1>1, <1>4, <1>8, <2>1, EpisodeParts
  <2>3. \A k \in 1..Len(t.done) : IsADay(t.done[k].worst, u, n)
    BY <1>2, <1>6, <2>1, <2>2, DoneAppended
  <2>4. ASSUME NEW i \in 1..n, u[i][1] > 0
        PROVE  DoneCovers(t.done, u[i])
    <3>1. i \in 1..(n - 1)
      BY <1>3, <1>8, <2>4
    <3>2. AtLeast(s.worst, u[i]) \/ DoneCovers(s.done, u[i])
      BY <2>4, <3>1 DEF Covers
    <3> QED
      BY <1>2, <2>1, <2>2, <3>2, DoneAppended
  <2>5. IsADay(t.worst, u, n)
    BY <2>2 DEF IsADay
  <2> QED
    BY <1>1, <2>2, <2>3, <2>4, <2>5 DEF Covers
<1>9. CASE ~(u[n][1] > 0) /\ ~(s.length > 0)
  <2>1. t = s
    BY <1>1, <1>4, <1>9, EpisodeParts
  <2>2. \A i \in 1..n : u[i][1] > 0 => i \in 1..(n - 1)
    BY <1>3, <1>9
  <2> QED
    BY <1>1, <1>6, <2>1, <2>2 DEF Covers
<1> QED
  BY <1>7, <1>8, <1>9

(* The episodes sum up to the days under water, their worst are days, and   *)
(* each of those days is covered.                                           *)
LEMMA EpisodesAreDays ==
  ASSUME NEW curve \in Seq(Int), NEW N \in Nat, N = Len(curve),
         NEW u, u = Days(curve), NEW e, e = Episodes(curve)
  PROVE  /\ e \in Seq(Ended)
         /\ Total(Lengths(e)) = Cardinality(Wet(u, N))
         /\ \A k \in 1..Len(e) : IsADay(e[k].worst, u, N)
         /\ \A i \in 1..N : u[i][1] > 0 => DoneCovers(e, u[i])
<1>1. PICK h : /\ h[0] = NoEpisode
               /\ Episodes(curve) = Closed(h[N])
               /\ \A n \in 1..N : h[n] = Episode(h[n - 1], u[n])
               /\ \A n \in 0..N : h[n] \in Ongoing
  BY EpisodesStepByStep
<1>2. \A i \in 1..N : u[i] \in Fraction
  BY DaysAreRatios
<1> DEFINE Counts(n) == Total(Lengths(h[n].done)) + h[n].length = Cardinality(Wet(u, n))
           T == {n \in 0..N : Counts(n) /\ Covers(h[n], u, n)}
<1>3. 0 \in T
  <2>1. h[0].length = 0 /\ h[0].worst = Zero /\ h[0].done = <<>> /\ 1..0 = {}
    BY <1>1 DEF NoEpisode
  <2>2. Wet(u, 0) = {} /\ Cardinality(Wet(u, 0)) = 0
    BY <2>1, FS_EmptySet DEF Wet
  <2>3. Total(Lengths(<<>>)) = 0
    <3>1. DOMAIN <<>> = {} /\ DOMAIN Lengths(<<>>) = {}
      BY DEF Lengths
    <3> QED
      BY <3>1, SumRecursion, FS_EmptySet DEF Total, SumFunction
  <2>4. Covers(h[0], u, 0)
    BY <2>1 DEF Covers, IsADay
  <2> QED
    BY <2>1, <2>2, <2>3, <2>4
<1>4. ASSUME NEW n \in 1..N, n - 1 \in T
      PROVE  n \in T
  <2>1. n - 1 \in 0..N /\ n \in 0..N /\ \A i \in 1..n : i \in 1..N
    OBVIOUS
  <2>2. PICK s, t : s = h[n - 1] /\ t = h[n] /\ s \in Ongoing /\ t = Episode(s, u[n])
    BY <1>1, <2>1
  <2>3. /\ u[n] \in Fraction /\ \A i \in 1..n : u[i] \in Fraction
    BY <1>2, <2>1
  <2>4. Total(Lengths(s.done)) + s.length = Cardinality(Wet(u, n - 1)) /\ Covers(s, u, n - 1)
    BY <1>4, <2>2
  <2>5. Total(Lengths(Episode(s, u[n]).done)) + Episode(s, u[n]).length = Cardinality(Wet(u, n))
    BY <2>2, <2>3, <2>4, EpisodeCounts
  <2>6. Covers(Episode(s, u[n]), u, n)
    BY <2>2, <2>3, <2>4, EpisodeCovers
  <2> QED
    BY <2>1, <2>2, <2>5, <2>6
<1>5. Counts(N) /\ Covers(h[N], u, N)
  <2>1. \A n \in 0..N : n \in T
    <3> HIDE DEF T
    <3> QED
      BY <1>3, <1>4, IntervalCovered
  <2>2. N \in 0..N
    OBVIOUS
  <2>3. N \in T
    BY <2>1, <2>2
  <2> QED
    BY <2>3
<1>6. PICK s \in Ongoing : s = h[N]
  BY <1>1
<1>7. s.length \in Nat /\ s.done \in Seq(Ended) /\ s.worst \in Fraction
  BY DEF Ongoing
<1>8. CASE s.length = 0
  <2>1. e = s.done /\ s.worst = Zero
    BY <1>1, <1>5, <1>6, <1>8 DEF Covers, Closed
  <2>2. ASSUME NEW i \in 1..N, u[i][1] > 0
        PROVE  ~AtLeast(Zero, u[i])
    <3>1. u[i][1] \in Nat /\ u[i][2] \in Nat
      BY <1>2, RatioParts
    <3> QED
      BY <2>2, <3>1 DEF AtLeast, Zero
  <2>3. \A i \in 1..N : u[i][1] > 0 => DoneCovers(e, u[i])
    BY <1>5, <1>6, <2>1, <2>2 DEF Covers
  <2>4. \A k \in 1..Len(e) : IsADay(e[k].worst, u, N)
    BY <1>5, <1>6, <2>1 DEF Covers
  <2>5. Total(Lengths(e)) \in Int
    <3>1. PICK x : x \in Ended
      <4>1. [worst |-> s.worst, length |-> s.length] \in Ended
        BY <1>7, EndedParts
      <4> QED
        BY <4>1
    <3> QED
      BY <1>7, <2>1, <3>1, LengthsAppended
  <2>6. Total(Lengths(e)) = Cardinality(Wet(u, N))
    BY <1>5, <1>6, <1>8, <2>1, <2>5
  <2> QED
    BY <1>7, <2>1, <2>3, <2>4, <2>6
<1>9. CASE s.length # 0
  <2>1. PICK x : x = [worst |-> s.worst, length |-> s.length]
    OBVIOUS
  <2>2. x \in Ended /\ x.worst = s.worst /\ x.length = s.length
    BY <1>7, <2>1, EndedParts
  <2>3. e = Append(s.done, x)
    BY <1>1, <1>6, <1>9, <2>1 DEF Closed
  <2>4. e \in Seq(Ended)
    BY <1>7, <2>2, <2>3, AppendProperties
  <2>5. Total(Lengths(e)) = Total(Lengths(s.done)) + s.length
    BY <1>7, <2>2, <2>3, LengthsAppended
  <2>6. \A k \in 1..Len(e) : IsADay(e[k].worst, u, N)
    BY <1>5, <1>6, <1>7, <2>2, <2>3, DoneAppended DEF Covers
  <2>7. ASSUME NEW i \in 1..N, u[i][1] > 0
        PROVE  DoneCovers(e, u[i])
    <3>1. AtLeast(s.worst, u[i]) \/ DoneCovers(s.done, u[i])
      BY <1>5, <1>6, <2>7 DEF Covers
    <3> QED
      BY <1>7, <2>2, <2>3, <3>1, DoneAppended
  <2> QED
    BY <1>5, <1>6, <2>4, <2>5, <2>6, <2>7
<1> QED
  BY <1>8, <1>9

(* Ratios that are at least one another are the same.                       *)
LEMMA BothWaysSame ==
  ASSUME NEW a \in Fraction, NEW b \in Fraction, AtLeast(a, b), AtLeast(b, a)
  PROVE  Same(a, b)
<1> DEFINE x == a[1] * b[2]
           y == b[1] * a[2]
<1>1. x \in Nat /\ y \in Nat /\ x >= y /\ y >= x
  BY RatioParts, ProductsOfNaturals DEF AtLeast
<1> HIDE DEF x, y
<1>2. x = y
  BY <1>1
<1> QED
  BY <1>2 DEF x, y, Same

(* Ratios of nothing are the same.                                          *)
LEMMA NothingSame ==
  ASSUME NEW a \in Fraction, NEW b \in Fraction, a[1] = 0, b[1] = 0
  PROVE  Same(a, b)
<1>1. a[2] \in Nat /\ b[2] \in Nat
  BY RatioParts
<1> QED
  BY <1>1 DEF Same

(* The worst of the episodes is the greatest drawdown.                      *)
LEMMA WorstOfEpisodes ==
  ASSUME NEW u \in Seq(Fraction), NEW w \in Seq(Fraction),
         \A k \in 1..Len(w) : IsADay(w[k], u, Len(u)),
         \A i \in 1..Len(u) : u[i][1] > 0 => \E k \in 1..Len(w) : AtLeast(w[k], u[i])
  PROVE  Same(GreatestOf(u), GreatestOf(w))
<1>0. Zero \in Fraction /\ Zero[1] = 0
  BY DEF Zero, Fraction
<1>1. GreatestOf(<<>>) = Zero
  BY DEF GreatestOf
<1>2. PICK g, f : g = GreatestOf(u) /\ f = GreatestOf(w)
  OBVIOUS
<1>3. /\ g \in Fraction /\ (u = <<>> => g = Zero)
      /\ u # <<>> => \E i \in 1..Len(u) : g = u[i] /\ \A j \in 1..Len(u) : AtLeast(g, u[j])
  <2>1. CASE u = <<>>
    BY <1>0, <1>1, <1>2, <2>1
  <2>2. CASE u # <<>>
    <3>1. PICK i \in 1..Len(u) : GreatestOf(u) = u[i] /\ \A j \in 1..Len(u) : AtLeast(u[i], u[j])
      BY <2>2, GreatestIsOne
    <3>2. u[i] \in Fraction
      OBVIOUS
    <3> QED
      BY <1>2, <2>2, <3>1, <3>2
  <2> QED
    BY <2>1, <2>2
<1>4. /\ f \in Fraction /\ (w = <<>> => f = Zero)
      /\ w # <<>> => \E i \in 1..Len(w) : f = w[i] /\ \A j \in 1..Len(w) : AtLeast(f, w[j])
  <2>1. CASE w = <<>>
    BY <1>0, <1>1, <1>2, <2>1
  <2>2. CASE w # <<>>
    <3>1. PICK i \in 1..Len(w) : GreatestOf(w) = w[i] /\ \A j \in 1..Len(w) : AtLeast(w[i], w[j])
      BY <2>2, GreatestIsOne
    <3>2. w[i] \in Fraction
      OBVIOUS
    <3> QED
      BY <1>2, <2>2, <3>1, <3>2
  <2> QED
    BY <2>1, <2>2
<1>5. f = Zero \/ \E i \in 1..Len(u) : f = u[i]
  <2>1. CASE w = <<>>
    BY <1>4, <2>1
  <2>2. CASE w # <<>>
    <3>1. PICK k \in 1..Len(w) : f = w[k]
      BY <1>4, <2>2
    <3> QED
      BY <3>1 DEF IsADay
  <2> QED
    BY <2>1, <2>2
<1>6. CASE \E i \in 1..Len(u) : u[i][1] > 0
  <2>1. PICK i \in 1..Len(u) : u[i][1] > 0
    BY <1>6
  <2>2. u # <<>> /\ u[i] \in Fraction
    BY <2>1
  <2>3. PICK k \in 1..Len(w) : AtLeast(w[k], u[i])
    BY <2>1
  <2>4. w # <<>>
    BY <2>3
  <2>5. PICK j \in 1..Len(u) : g = u[j] /\ \A l \in 1..Len(u) : AtLeast(g, u[l])
    BY <1>3, <2>2
  <2>6. g[1] > 0
    <3>1. AtLeast(g, u[i])
      BY <2>5
    <3>2. /\ g[1] \in Nat /\ g[2] \in Nat \ {0}
          /\ u[i][1] \in Nat \ {0} /\ u[i][2] \in Nat \ {0}
      <4>1. u[i][1] \in Nat /\ u[i][2] \in Nat \ {0} /\ g[1] \in Nat /\ g[2] \in Nat \ {0}
        BY <1>3, <2>2, RatioParts
      <4> QED
        BY <2>1, <4>1
    <3>3. u[i][1] * g[2] \in Nat \ {0}
      BY <3>2, ProductsOfNaturals
    <3>4. g[1] * u[i][2] >= u[i][1] * g[2]
      BY <3>1 DEF AtLeast
    <3>5. g[1] # 0
      <4>1. ASSUME g[1] = 0
            PROVE  FALSE
        <5>1. g[1] * u[i][2] = 0
          BY <3>2, <4>1
        <5> QED
          BY <3>3, <3>4, <5>1
      <4> QED
        BY <4>1
    <3> QED
      BY <3>2, <3>5
  <2>7. PICK m \in 1..Len(w) : AtLeast(w[m], g)
    BY <2>5, <2>6
  <2>8. AtLeast(f, w[m]) /\ w[m] \in Fraction
    BY <1>4, <2>4
  <2>9. AtLeast(f, g)
    BY <1>3, <1>4, <2>7, <2>8, AtLeastTransitive
  <2>10. AtLeast(g, f)
    <3>1. CASE f = Zero
      <4>1. g[1] \in Nat /\ g[2] \in Nat
        BY <1>3, RatioParts
      <4> QED
        BY <3>1, <4>1 DEF AtLeast, Zero
    <3>2. CASE \E l \in 1..Len(u) : f = u[l]
      BY <2>5, <3>2
    <3> QED
      BY <1>5, <3>1, <3>2
  <2> QED
    BY <1>2, <1>3, <1>4, <2>9, <2>10, BothWaysSame
<1>7. CASE ~\E i \in 1..Len(u) : u[i][1] > 0
  <2>1. \A i \in 1..Len(u) : u[i][1] = 0
    <3>1. \A i \in 1..Len(u) : u[i] \in Fraction
      OBVIOUS
    <3>2. \A i \in 1..Len(u) : u[i][1] \in Nat
      BY <3>1, RatioParts
    <3> QED
      BY <1>7, <3>2
  <2>2. g[1] = 0
    BY <1>0, <1>3, <2>1
  <2>3. f[1] = 0
    BY <1>0, <1>5, <2>1
  <2> QED
    BY <1>2, <1>3, <1>4, <2>2, <2>3, NothingSame
<1> QED
  BY <1>6, <1>7

(* The episodes account for every day under water and for the drawdown.     *)
LEMMA EpisodesAgree ==
  ASSUME NEW curve \in Seq(Int)
  PROVE  LET episodes == Episodes(curve)
         IN  /\ Total([k \in DOMAIN episodes |-> episodes[k].length])
                  = Cardinality({i \in DOMAIN curve : Underwater(curve, i)[1] > 0})
             /\ Same(MaxDdPct(curve),
                     GreatestOf([k \in DOMAIN episodes |-> episodes[k].worst]))
<1>1. PICK N, u, e : N = Len(curve) /\ u = Days(curve) /\ e = Episodes(curve)
  OBVIOUS
<1>2. /\ N \in Nat /\ DOMAIN curve = 1..N
      /\ u \in Seq(Fraction) /\ Len(u) = N /\ \A i \in 1..N : u[i] = Underwater(curve, i)
  <2>1. N \in Nat /\ DOMAIN curve = 1..N
    BY <1>1
  <2>2. u \in Seq(Fraction) /\ Len(u) = N
    BY <1>1, DaysAreRatios
  <2>3. \A i \in 1..N : u[i] = Underwater(curve, i)
    BY <1>1, <2>1 DEF Days
  <2> QED
    BY <2>1, <2>2, <2>3
<1>3. /\ e \in Seq(Ended)
      /\ Total(Lengths(e)) = Cardinality(Wet(u, N))
      /\ \A k \in 1..Len(e) : IsADay(e[k].worst, u, N)
      /\ \A i \in 1..N : u[i][1] > 0 => DoneCovers(e, u[i])
  BY <1>1, <1>2, EpisodesAreDays
<1>4. Wet(u, N) = {i \in DOMAIN curve : Underwater(curve, i)[1] > 0}
  BY <1>2 DEF Wet
<1> DEFINE w == [k \in DOMAIN e |-> e[k].worst]
<1>5. /\ w \in Seq(Fraction) /\ Len(w) = Len(e) /\ \A k \in 1..Len(e) : w[k] = e[k].worst
  <2>1. \A x \in Ended : x.worst \in Fraction
    BY DEF Ended
  <2> HIDE DEF Ended, Fraction
  <2>2. DOMAIN e = 1..Len(e) /\ Len(e) \in Nat /\ \A k \in 1..Len(e) : e[k].worst \in Fraction
    BY <1>3, <2>1
  <2>3. w \in [1..Len(e) -> Fraction]
    BY <2>2
  <2> QED
    BY <2>2, <2>3
<1> HIDE DEF w
<1>6. Same(GreatestOf(u), GreatestOf(w))
  <2>1. \A k \in 1..Len(w) : IsADay(w[k], u, Len(u))
    BY <1>2, <1>3, <1>5
  <2>2. \A i \in 1..Len(u) : u[i][1] > 0 => \E k \in 1..Len(w) : AtLeast(w[k], u[i])
    BY <1>2, <1>3, <1>5 DEF DoneCovers
  <2> QED
    BY <1>2, <1>5, <2>1, <2>2, WorstOfEpisodes
<1>7. MaxDdPct(curve) = GreatestOf(u)
  BY <1>1 DEF MaxDdPct, Days
<1>8. Total(Lengths(e)) = Total([k \in DOMAIN e |-> e[k].length])
  BY DEF Lengths
<1> QED
  BY <1>1, <1>3, <1>4, <1>6, <1>7, <1>8 DEF w

-----------------------------------------------------------------------------
(* Days and trades                                                          *)

(* Places that leave out none below them are the first so many.             *)
LEMMA DownwardClosed ==
  ASSUME NEW N \in Nat, NEW K \in SUBSET (1..N),
         \A i \in K : \A j \in 1..i : j \in K
  PROVE  \E m \in 0..N : K = 1..m
<1>1. CASE K = {}
  <2>1. 0 \in 0..N /\ 1..0 = {}
    OBVIOUS
  <2> QED
    BY <1>1, <2>1
<1>2. CASE K # {}
  <2>1. IsFiniteSet(K)
    <3> DEFINE D == 1..N
    <3>1. IsFiniteSet(D) /\ K \subseteq D
      BY FS_Interval
    <3> HIDE DEF D
    <3> QED
      BY <3>1, FS_Subset
  <2>2. K \in SUBSET Int
    OBVIOUS
  <2>3. PICK m : m \in K /\ \A y \in K : m >= y
    BY <1>2, <2>1, <2>2, Extremes
  <2>4. m \in 0..N /\ \A y \in K : y \in 1..m
    BY <2>3
  <2> QED
    BY <2>3, <2>4
<1> QED
  BY <1>1, <1>2

(* The total of the first so many.                                          *)
LEMMA PrefixTotal ==
  ASSUME NEW p \in Seq(Int), NEW k \in 0..Len(p)
  PROVE  Total(SubSeq(p, 1, k)) = UpTo(p, k) /\ UpTo(p, k) \in Int
<1>1. PICK q : q = SubSeq(p, 1, k)
  OBVIOUS
<1>2. q \in Seq(Int) /\ Len(q) = k /\ \A i \in 1..k : q[i] = p[i] /\ p[i] \in Int
  <2>1. k \in Int /\ k \in Nat /\ 1 \in Int /\ \A i \in 1..k : p[i] \in Int
    OBVIOUS
  <2>2. /\ q \in Seq(Int) /\ Len(q) = IF 1 <= k THEN k - 1 + 1 ELSE 0
        /\ \A i \in 1..(k - 1 + 1) : q[i] = p[1 + i - 1]
    BY <1>1, <2>1, SubSeqProperties
  <2>3. \A i \in 1..k : i \in 1..(k - 1 + 1) /\ 1 + i - 1 = i
    BY <2>1
  <2>4. Len(q) = k
    BY <2>1, <2>2
  <2> QED
    BY <2>1, <2>2, <2>3, <2>4
<1>3. Total(q) = UpTo(q, k)
  BY <1>2, SumsGrow
<1>4. UpTo(q, k) = UpTo(p, k)
  <2> DEFINE D == 1..k
  <2>1. IsFiniteSet(D) /\ \A i \in D : q[i] \in Int /\ q[i] = p[i]
    <3>1. k \in Int /\ 1 \in Int
      OBVIOUS
    <3>2. IsFiniteSet(1..k)
      BY <3>1, FS_Interval
    <3> QED
      BY <1>2, <3>2
  <2> HIDE DEF D
  <2>2. SumFunctionOnSet(q, D) = SumFunctionOnSet(p, D)
    BY <2>1, SumsAgree
  <2> QED
    BY <2>2 DEF D, UpTo
<1> QED
  BY <1>1, <1>3, <1>4, SumsGrow

(* The days of a list, and the trades up to one of them.                    *)
ClosedOf(trades) == [i \in DOMAIN trades |-> trades[i].closed]
Past(c, days, k) == {i \in DOMAIN c : \E l \in 1..k : c[i] = days[l]}

Calendar(days, D) == days \in [1..D -> Nat] /\ \A k, l \in 1..D : k < l => days[k] < days[l]

(* The days that had trades, in order, and every trade closed on one of     *)
(* them.                                                                    *)
LEMMA TradingDaysParts ==
  ASSUME NEW trades \in Seq(ClosedTrade)
  PROVE  LET c == ClosedOf(trades)
             days == TradingDays(trades)
         IN  \E D \in Nat :
               /\ DOMAIN c = DOMAIN trades /\ \A i \in DOMAIN c : c[i] \in Nat
               /\ days \in [1..D -> Nat] /\ \A k, l \in 1..D : k < l => days[k] < days[l]
               /\ \A i \in DOMAIN c : \E k \in 1..D : c[i] = days[k]
               /\ trades # <<>> => D # 0
<1>1. PICK c, days : c = ClosedOf(trades) /\ days = TradingDays(trades)
  OBVIOUS
<1>2. DOMAIN trades = 1..Len(trades) /\ Len(trades) \in Nat
  OBVIOUS
<1>3. DOMAIN c = DOMAIN trades /\ \A i \in DOMAIN c : c[i] \in Nat /\ c[i] = trades[i].closed
  <2>1. \A i \in DOMAIN trades : trades[i] \in ClosedTrade
    OBVIOUS
  <2>2. \A t \in ClosedTrade : t.closed \in Nat
    BY DEF ClosedTrade
  <2> QED
    BY <1>1, <2>1, <2>2 DEF ClosedOf
<1> DEFINE S == {trades[i].closed : i \in DOMAIN trades}
<1>4. days = Ascending(S)
  BY <1>1 DEF TradingDays
<1>5. S \in SUBSET Nat /\ S \in SUBSET Int /\ \A i \in DOMAIN c : c[i] \in S
  BY <1>3
<1>6. IsFiniteSet(S)
  <2>1. IsFiniteSet(DOMAIN trades)
    BY <1>2, FS_Interval
  <2>2. S = {c[i] : i \in DOMAIN trades}
    BY <1>3
  <2>3. IsFiniteSet({c[i] : i \in DOMAIN trades})
    BY <2>1, ImageIsFinite
  <2> QED
    BY <2>2, <2>3
<1>7. trades # <<>> => S # {}
  BY <1>2
<1> HIDE DEF S
<1>8. PICK D : /\ D = Cardinality(S) /\ D \in Nat /\ days \in [1..D -> S]
               /\ \A x \in S : \E k \in 1..D : days[k] = x
               /\ \A k, l \in 1..D : k < l => days[k] < days[l]
  BY <1>4, <1>5, <1>6, AscendingCovers
<1>9. S # {} => D # 0
  BY <1>8
<1>10. days \in [1..D -> Nat]
  BY <1>5, <1>8
<1> QED
  BY <1>1, <1>3, <1>5, <1>7, <1>8, <1>9, <1>10

(* The account at the end of a day is the sum of its trades up to then.     *)
LEMMA CurveIsSums ==
  ASSUME NEW trades \in Seq(ClosedTrade), NEW p, p = Pnls(trades),
         NEW c, c = ClosedOf(trades), NEW days, days = TradingDays(trades),
         NEW D \in Nat, Calendar(days, D)
  PROVE  LET curve == EquityCurve(trades)
         IN  /\ curve \in Seq(Int) /\ Len(curve) = D
             /\ \A k \in 1..D : curve[k] = SumFunctionOnSet(p, Past(c, days, k))
<1>0. days \in [1..D -> Nat] /\ \A k, l \in 1..D : k < l => days[k] < days[l]
  BY DEF Calendar
<1>1. /\ p \in Seq(Int) /\ DOMAIN p = DOMAIN trades /\ DOMAIN c = DOMAIN trades
      /\ DOMAIN trades = 1..Len(trades) /\ Len(trades) \in Nat
  BY TradesHavePnl, PnlsParts DEF ClosedOf
<1>2. \A K \in SUBSET DOMAIN trades : IsFiniteSet(K) /\ SumFunctionOnSet(p, K) \in Int
  <2>1. ASSUME NEW K \in SUBSET DOMAIN trades
        PROVE  IsFiniteSet(K) /\ SumFunctionOnSet(p, K) \in Int
    <3>1. IsFiniteSet(DOMAIN trades)
      BY <1>1, FS_Interval
    <3>2. IsFiniteSet(K)
      BY <3>1, FS_Subset
    <3>3. \A i \in K : p[i] \in Int
      BY <1>1
    <3> QED
      BY <3>2, <3>3, SumOfElements
  <2> QED
    BY <2>1
<1>3. PICK daily : daily = DailyPnl(trades)
  OBVIOUS
<1>4. daily = [k \in 1..D |-> Total(Pnls(RowsAt(trades, At(c, days[k]))))]
  <2>1. \A k : {i \in DOMAIN trades : trades[i].closed = days[k]} = At(c, days[k])
    BY DEF At, ClosedOf
  <2>2. daily = [k \in DOMAIN days |->
                   Total(Pnls(RowsAt(trades, {i \in DOMAIN trades : trades[i].closed = days[k]})))]
    BY <1>3 DEF DailyPnl, Select
  <2> QED
    BY <1>0, <2>1, <2>2
<1>5. \A k \in 1..D : daily[k] = SumFunctionOnSet(p, At(c, days[k])) /\ daily[k] \in Int
  <2>1. ASSUME NEW k \in 1..D
        PROVE  daily[k] = SumFunctionOnSet(p, At(c, days[k])) /\ daily[k] \in Int
    <3>1. At(c, days[k]) \in SUBSET DOMAIN trades
      BY <1>1 DEF At
    <3>2. Total(Pnls(RowsAt(trades, At(c, days[k])))) = SumFunctionOnSet(p, At(c, days[k]))
      BY <3>1, TradesHavePnl, PnlsOfRows
    <3> QED
      BY <1>2, <1>4, <3>1, <3>2
  <2> QED
    BY <2>1
<1>6. daily \in Seq(Int) /\ Len(daily) = D /\ DOMAIN daily = 1..D
  <2>1. daily \in [1..D -> Int]
    BY <1>4, <1>5
  <2> QED
    BY <2>1
<1>7. \A k \in 1..D : EquityCurve(trades)[k] = UpTo(daily, k) /\ UpTo(daily, k) \in Int
  <2>1. \A k \in 1..D : EquityCurve(trades)[k] = Total(SubSeq(daily, 1, k))
    BY <1>3, <1>6 DEF EquityCurve
  <2>2. \A k \in 1..D : k \in 0..Len(daily)
    BY <1>6
  <2> QED
    BY <1>6, <2>1, <2>2, PrefixTotal
<1>8. EquityCurve(trades) \in Seq(Int) /\ Len(EquityCurve(trades)) = D
  <2>1. DOMAIN EquityCurve(trades) = 1..D
    BY <1>3, <1>6 DEF EquityCurve
  <2>2. EquityCurve(trades) = [k \in 1..D |-> EquityCurve(trades)[k]]
    BY <1>3, <1>6 DEF EquityCurve
  <2>3. EquityCurve(trades) \in [1..D -> Int]
    BY <1>7, <2>2
  <2> QED
    BY <2>3
<1> DEFINE T == {k \in 0..D : UpTo(daily, k) = SumFunctionOnSet(p, Past(c, days, k))}
<1>9. 0 \in T
  <2>1. Past(c, days, 0) = {}
    BY DEF Past
  <2>2. SumFunctionOnSet(p, {}) = 0
    BY SumRecursion, FS_EmptySet
  <2>3. UpTo(daily, 0) = 0
    BY <1>6, SumsGrow
  <2>4. SumFunctionOnSet(p, Past(c, days, 0)) = 0
    BY <2>1, <2>2
  <2>5. 0 \in 0..D
    OBVIOUS
  <2> QED
    BY <2>3, <2>4, <2>5
<1>10. ASSUME NEW k \in 1..D, k - 1 \in T
       PROVE  k \in T
  <2>1. Past(c, days, k) = Past(c, days, k - 1) \cup At(c, days[k])
    <3>1. \A l \in 1..k : l \in 1..(k - 1) \/ l = k
      OBVIOUS
    <3>2. k \in 1..k /\ \A l \in 1..(k - 1) : l \in 1..k
      OBVIOUS
    <3> QED
      BY <3>1, <3>2 DEF Past, At
  <2>2. Past(c, days, k - 1) \cap At(c, days[k]) = {}
    <3>1. \A l \in 1..(k - 1) : l \in 1..D /\ l < k
      OBVIOUS
    <3>2. \A l \in 1..D : days[l] \in Nat
      BY <1>0
    <3>3. \A l \in 1..(k - 1) : days[l] # days[k]
      BY <1>0, <3>1, <3>2
    <3> QED
      BY <3>3 DEF Past, At
  <2>3. Past(c, days, k - 1) \in SUBSET DOMAIN trades /\ At(c, days[k]) \in SUBSET DOMAIN trades
    BY <1>1 DEF Past, At
  <2>4. SumFunctionOnSet(p, Past(c, days, k))
          = SumFunctionOnSet(p, Past(c, days, k - 1)) + SumFunctionOnSet(p, At(c, days[k]))
    <3>1. IsFiniteSet(Past(c, days, k - 1)) /\ IsFiniteSet(At(c, days[k]))
      BY <1>2, <2>3
    <3>2. \A i \in Past(c, days, k - 1) \cup At(c, days[k]) : p[i] \in Int
      BY <1>1, <2>3
    <3> QED
      BY <2>1, <2>2, <3>1, <3>2, SumOfUnion
  <2>5. UpTo(daily, k) = UpTo(daily, k - 1) + daily[k]
    BY <1>6, SumsGrow
  <2>6. UpTo(daily, k - 1) = SumFunctionOnSet(p, Past(c, days, k - 1))
    BY <1>10
  <2>7. daily[k] = SumFunctionOnSet(p, At(c, days[k]))
    BY <1>5
  <2> QED
    BY <2>4, <2>5, <2>6, <2>7
<1>11. \A k \in 0..D : k \in T
  <2> HIDE DEF T
  <2> QED
    BY <1>9, <1>10, IntervalCovered
<1>12. \A k \in 1..D : k \in 0..D
  OBVIOUS
<1> QED
  BY <1>7, <1>8, <1>11, <1>12

(* Another trade of the scan of the database.                               *)
Scan(s, x) ==
  LET running == s.running + x
      peak    == IF running > s.peak THEN running ELSE s.peak
  IN  [running |-> running, peak |-> peak,
       dd |-> IF peak - running > s.dd THEN peak - running ELSE s.dd]

Scans == [running : Int, peak : Int, dd : Int]
NoScan == [running |-> 0, peak |-> 0, dd |-> 0]

(* Another trade: the peak and the fall never shrink, and the fall covers   *)
(* it.                                                                      *)
LEMMA ScanParts ==
  ASSUME NEW s \in Scans, NEW x \in Int
  PROVE  /\ Scan(s, x) \in Scans /\ Scan(s, x).running = s.running + x
         /\ Scan(s, x).peak >= s.peak /\ Scan(s, x).peak >= s.running + x
         /\ Scan(s, x).dd >= s.dd /\ Scan(s, x).dd >= Scan(s, x).peak - (s.running + x)
<1>1. PICK running \in Int, peak \in Int, dd \in Int :
        s = [running |-> running, peak |-> peak, dd |-> dd]
  BY DEF Scans
<1>2. PICK r, q, d : /\ r = running + x /\ q = (IF r > peak THEN r ELSE peak)
                     /\ d = IF q - r > dd THEN q - r ELSE dd
  OBVIOUS
<1>3. /\ r \in Int /\ q \in Int /\ d \in Int /\ q >= peak /\ q >= r /\ d >= dd /\ d >= q - r
  BY <1>2
<1>4. Scan(s, x) = [running |-> r, peak |-> q, dd |-> d]
  BY <1>1, <1>2 DEF Scan
<1> QED
  BY <1>1, <1>2, <1>3, <1>4 DEF Scans

(* The scan goes trade by trade.                                            *)
LEMMA ScanStepByStep ==
  ASSUME NEW p \in Seq(Int), NEW N \in Nat, N = Len(p)
  PROVE  \E h : /\ h[0] = NoScan /\ MaxDdScan(p) = h[N].dd
                /\ \A n \in 1..N : h[n] = Scan(h[n - 1], p[n])
                /\ \A n \in 0..N : h[n] \in Scans
<1> DEFINE step == [q \in Scans \X (1..N) |-> Scan(q[1], p[q[2]])]
           Solves(f) == f = [s \in SUBSET (1..N) |->
                               IF s = {} THEN NoScan
                               ELSE Scan(f[s \ {Greatest(s)}], p[Greatest(s)])]
           end == (CHOOSE f : Solves(f))[1..N]
<1>1. NoScan \in Scans /\ \A s \in Scans, n \in 1..N : Scan(s, p[n]) \in Scans
  <2>1. \A n \in 1..N : p[n] \in Int
    OBVIOUS
  <2>2. NoScan \in Scans
    BY DEF NoScan, Scans
  <2> QED
    BY <2>1, <2>2, ScanParts
<1>2. step \in [Scans \X (1..N) -> Scans]
  BY <1>1
<1>3. PICK g \in [SUBSET (1..N) -> Scans] : FoldsBy(g, N, NoScan, step)
  <2> HIDE DEF step
  <2> QED
    BY <1>1, <1>2, FoldSolved
<1>4. Solves(g)
  <2>1. ASSUME NEW s \in SUBSET (1..N), s # {}
        PROVE  step[<<g[s \ {Greatest(s)}], Greatest(s)>>]
                 = Scan(g[s \ {Greatest(s)}], p[Greatest(s)])
    <3>1. Greatest(s) \in 1..N /\ g[s \ {Greatest(s)}] \in Scans
      BY <2>1, GreatestIsElement
    <3> QED
      BY <3>1
  <2> HIDE DEF step
  <2> QED
    BY <1>3, <2>1 DEF FoldsBy
<1>5. MaxDdScan(p) = end.dd
  <2>1. DOMAIN p = 1..N
    OBVIOUS
  <2> QED
    BY <2>1 DEF MaxDdScan, FoldLeft, MapThenFoldSet, Max, Greatest, Scan, NoScan
<1>6. PICK f : Solves(f) /\ end = f[1..N]
  <2> HIDE DEF Solves
  <2> QED
    BY <1>4
<1> DEFINE h == [n \in 0..N |-> f[1..n]]
<1> HIDE DEF NoScan, end, Scan
<1>7. h[0] = NoScan /\ h[N] = end
  <2>1. 1..0 = {} /\ 1..0 \in SUBSET (1..N) /\ 0 \in 0..N /\ N \in 0..N
    OBVIOUS
  <2> QED
    BY <1>6, <2>1
<1>8. ASSUME NEW n \in 1..N
      PROVE  h[n] = Scan(h[n - 1], p[n])
  <2>1. f[1..n] = Scan(f[(1..n) \ {Greatest(1..n)}], p[Greatest(1..n)])
    <3> HIDE DEF Greatest
    <3> QED
      BY <1>6, FoldPrefix
  <2> QED
    BY <2>1, FoldPrefix
<1> HIDE DEF h
<1>9. \A n \in 0..N : h[n] \in Scans
  <2>1. h[0] \in Scans
    BY <1>1, <1>7
  <2>2. \A n \in 1..N : h[n - 1] \in Scans => h[n] \in Scans
    BY <1>1, <1>8
  <2> QED
    BY <2>1, <2>2, StepByStep
<1> QED
  BY <1>5, <1>7, <1>8, <1>9

(* The scan sees every fall of the account, from its beginning on.          *)
LEMMA ScanSeesFalls ==
  ASSUME NEW p \in Seq(Int), NEW N \in Nat, N = Len(p),
         NEW b \in 0..N, NEW a \in 0..b
  PROVE  MaxDdScan(p) \in Int /\ MaxDdScan(p) >= UpTo(p, a) - UpTo(p, b)
<1>1. PICK h : /\ h[0] = NoScan /\ MaxDdScan(p) = h[N].dd
               /\ \A n \in 1..N : h[n] = Scan(h[n - 1], p[n])
               /\ \A n \in 0..N : h[n] \in Scans
  BY ScanStepByStep
<1>2. /\ UpTo(p, 0) = 0 /\ \A n \in 0..N : UpTo(p, n) \in Int
      /\ \A n \in 1..N : UpTo(p, n) = UpTo(p, n - 1) + p[n] /\ p[n] \in Int
  <2>1. \A n \in 1..N : p[n] \in Int
    OBVIOUS
  <2> QED
    BY <2>1, SumsGrow
<1> DEFINE Sees(n) == /\ h[n].running = UpTo(p, n)
                      /\ \A i \in 0..n : h[n].peak >= UpTo(p, i)
                      /\ \A j \in 0..n : \A i \in 0..j : h[n].dd >= UpTo(p, i) - UpTo(p, j)
           T == {n \in 0..N : Sees(n)}
<1>3. 0 \in T
  <2>1. h[0].running = 0 /\ h[0].peak = 0 /\ h[0].dd = 0
    BY <1>1 DEF NoScan
  <2>2. \A i \in 0..0 : i = 0
    OBVIOUS
  <2> QED
    BY <1>2, <2>1, <2>2
<1>4. ASSUME NEW n \in 1..N, n - 1 \in T
      PROVE  n \in T
  <2>1. PICK s \in Scans, t \in Scans, x \in Int :
          s = h[n - 1] /\ t = h[n] /\ x = p[n] /\ t = Scan(s, x)
    <3>1. n - 1 \in 0..N /\ n \in 0..N
      OBVIOUS
    <3> QED
      BY <1>1, <1>2, <3>1
  <2>2. /\ t.running = s.running + x /\ t.peak >= s.peak /\ t.peak >= s.running + x
        /\ t.dd >= s.dd /\ t.dd >= t.peak - (s.running + x)
    BY <2>1, ScanParts
  <2>3. /\ s.running \in Int /\ s.peak \in Int /\ s.dd \in Int
        /\ t.running \in Int /\ t.peak \in Int /\ t.dd \in Int
    BY DEF Scans
  <2>4. Sees(n - 1)
    BY <1>4
  <2>5. /\ s.running = UpTo(p, n - 1)
        /\ \A i \in 0..(n - 1) : s.peak >= UpTo(p, i)
        /\ \A j \in 0..(n - 1) : \A i \in 0..j : s.dd >= UpTo(p, i) - UpTo(p, j)
    BY <2>1, <2>4
  <2>6. \A j \in 0..n : (j \in 0..(n - 1) \/ j = n) /\ UpTo(p, j) \in Int
    BY <1>2
  <2>7. UpTo(p, n) = s.running + x
    BY <1>2, <2>1, <2>5
  <2>8. t.running = UpTo(p, n)
    BY <2>2, <2>7
  <2>9. ASSUME NEW i \in 0..n
        PROVE  t.peak >= UpTo(p, i)
    <3>1. UpTo(p, i) \in Int
      BY <2>6
    <3>2. CASE i = n
      BY <2>2, <2>7, <3>2
    <3>3. CASE i \in 0..(n - 1)
      <4>1. s.peak >= UpTo(p, i)
        BY <2>5, <3>3
      <4> QED
        BY ONLY <2>2, <2>3, <3>1, <4>1
    <3> QED
      BY <2>6, <3>2, <3>3
  <2>10. ASSUME NEW j \in 0..n, NEW i \in 0..j
         PROVE  t.dd >= UpTo(p, i) - UpTo(p, j)
    <3>1. i \in 0..n /\ UpTo(p, i) \in Int /\ UpTo(p, j) \in Int
      <4>1. i \in 0..n
        OBVIOUS
      <4> QED
        BY <2>6, <4>1
    <3>2. CASE j = n
      <4>1. t.dd >= t.peak - UpTo(p, n) /\ t.peak >= UpTo(p, i)
        BY <2>2, <2>7, <2>9, <3>1
      <4> QED
        BY <2>3, <3>1, <3>2, <4>1
    <3>3. CASE j \in 0..(n - 1)
      <4>1. s.dd >= UpTo(p, i) - UpTo(p, j)
        BY <2>5, <3>3
      <4> QED
        BY ONLY <2>2, <2>3, <3>1, <4>1
    <3> QED
      BY <2>6, <3>2, <3>3
  <2>11. n \in 0..N
    OBVIOUS
  <2> QED
    BY <2>1, <2>8, <2>9, <2>10, <2>11
<1>5. \A n \in 0..N : n \in T
  <2> HIDE DEF T
  <2> QED
    BY <1>3, <1>4, IntervalCovered
<1>6. N \in 0..N
  OBVIOUS
<1>7. Sees(N) /\ h[N] \in Scans
  BY <1>1, <1>5, <1>6
<1>8. h[N].dd \in Int
  BY <1>7 DEF Scans
<1> QED
  BY <1>1, <1>7, <1>8

InClosingOrder(trades) ==
  \A i, j \in DOMAIN trades : i <= j => trades[i].closed <= trades[j].closed

(* A fall from day to day is a fall from trade to trade: the curve of the   *)
(* days is the running sum after the last trade of each.                    *)
LEMMA ScanBounds ==
  ASSUME NEW trades \in Seq(ClosedTrade), trades # <<>>, InClosingOrder(trades)
  PROVE  TradeStats(trades).max_dd >= MaxDdInr(EquityCurve(trades))
<1>1. PICK p, c, days, curve : /\ p = Pnls(trades) /\ c = ClosedOf(trades)
                               /\ days = TradingDays(trades) /\ curve = EquityCurve(trades)
  OBVIOUS
<1>2. PICK N \in Nat : /\ N = Len(trades) /\ DOMAIN trades = 1..N
                       /\ p \in Seq(Int) /\ Len(p) = N
  BY <1>1, TradesHavePnl, PnlsParts
<1>3. PICK D \in Nat :
        /\ DOMAIN c = 1..N /\ \A i \in 1..N : c[i] \in Nat
        /\ days \in [1..D -> Nat] /\ \A k, l \in 1..D : k < l => days[k] < days[l]
        /\ \A i \in 1..N : \E k \in 1..D : c[i] = days[k]
        /\ D # 0
  <2> DEFINE closed == ClosedOf(trades)
             dates == TradingDays(trades)
  <2>1. PICK D \in Nat :
          /\ DOMAIN closed = DOMAIN trades /\ \A i \in DOMAIN closed : closed[i] \in Nat
          /\ dates \in [1..D -> Nat] /\ \A k, l \in 1..D : k < l => dates[k] < dates[l]
          /\ \A i \in DOMAIN closed : \E k \in 1..D : closed[i] = dates[k]
          /\ trades # <<>> => D # 0
    BY TradingDaysParts
  <2> QED
    BY <1>1, <1>2, <2>1
<1>4. /\ curve \in Seq(Int) /\ Len(curve) = D
      /\ \A k \in 1..D : curve[k] = SumFunctionOnSet(p, Past(c, days, k))
  <2>1. Calendar(days, D)
    BY <1>3 DEF Calendar
  <2>2. /\ EquityCurve(trades) \in Seq(Int) /\ Len(EquityCurve(trades)) = D
        /\ \A k \in 1..D : EquityCurve(trades)[k] = SumFunctionOnSet(p, Past(c, days, k))
    BY <1>1, <2>1, CurveIsSums
  <2> QED
    BY <1>1, <2>2
<1>5. \A i, j \in 1..N : i <= j => c[i] <= c[j]
  BY <1>1, <1>2 DEF InClosingOrder, ClosedOf
<1>6. ASSUME NEW k \in 1..D
      PROVE  \E m \in 0..N : Past(c, days, k) = 1..m /\ curve[k] = UpTo(p, m)
  <2>1. Past(c, days, k) \in SUBSET (1..N)
    BY <1>3 DEF Past
  <2>2. ASSUME NEW i \in Past(c, days, k), NEW j \in 1..i
        PROVE  j \in Past(c, days, k)
    <3>1. PICK l \in 1..k : c[i] = days[l]
      BY DEF Past
    <3>2. i \in 1..N /\ j \in 1..N /\ j <= i
      <4>1. i \in 1..N
        BY <2>1
      <4> QED
        BY <4>1
    <3>3. PICK q \in 1..D : c[j] = days[q]
      BY <1>3, <3>2
    <3>4. days[q] <= days[l] /\ l \in 1..D
      <4>1. l \in 1..D
        OBVIOUS
      <4> QED
        BY <1>5, <3>1, <3>2, <3>3, <4>1
    <3>5. ~(l < q)
      <4>1. days[l] \in Nat /\ days[q] \in Nat
        BY <1>3, <3>4
      <4>2. l < q => days[l] < days[q]
        BY <1>3, <3>4
      <4> QED
        BY <3>4, <4>1, <4>2
    <3>6. q \in 1..k
      BY <3>5
    <3> QED
      BY <1>3, <3>2, <3>3, <3>6 DEF Past
  <2>3. PICK K : K = Past(c, days, k)
    OBVIOUS
  <2>4. PICK m \in 0..N : K = 1..m
    <3>1. K \in SUBSET (1..N) /\ \A i \in K : \A j \in 1..i : j \in K
      BY <2>1, <2>2, <2>3
    <3> QED
      BY <3>1, DownwardClosed
  <2>5. curve[k] = UpTo(p, m)
    BY <1>4, <2>3, <2>4 DEF UpTo
  <2> QED
    BY <2>3, <2>4, <2>5
<1>7. ASSUME NEW k \in 1..D, NEW l \in 1..k
      PROVE  MaxDdScan(p) >= curve[l] - curve[k]
  <2>1. l \in 1..D
    OBVIOUS
  <2>2. PICK b \in 0..N : Past(c, days, k) = 1..b /\ curve[k] = UpTo(p, b)
    BY <1>6
  <2>3. PICK a \in 0..N : Past(c, days, l) = 1..a /\ curve[l] = UpTo(p, a)
    BY <1>6, <2>1
  <2>4. Past(c, days, l) \subseteq Past(c, days, k)
    <3>1. \A q \in 1..l : q \in 1..k
      OBVIOUS
    <3> QED
      BY <3>1 DEF Past
  <2>5. a <= b
    <3>1. 1..a \subseteq 1..b
      BY <2>2, <2>3, <2>4
    <3>2. a # 0 => a \in 1..a
      OBVIOUS
    <3> QED
      BY <3>1, <3>2
  <2>6. a \in 0..b
    BY <2>5
  <2> QED
    BY <1>2, <2>2, <2>3, <2>6, ScanSeesFalls
<1>8. TradeStats(trades).max_dd = MaxDdScan(p)
  BY <1>1 DEF TradeStats
<1>9. PICK k \in 1..D : MaxDdInr(curve) = PeakAt(curve, k) - curve[k]
  <2> DEFINE S == {PeakAt(curve, i) - curve[i] : i \in 1..D}
             fall == [i \in 1..D |-> PeakAt(curve, i) - curve[i]]
  <2>1. DOMAIN curve = 1..D /\ curve # <<>>
    BY <1>3, <1>4
  <2>2. MaxDdInr(curve) = Max(S)
    BY <2>1 DEF MaxDdInr
  <2>3. S = {fall[i] : i \in 1..D}
    OBVIOUS
  <2>4. IsFiniteSet(S)
    <3>1. IsFiniteSet(1..D)
      BY FS_Interval
    <3> DEFINE E == 1..D
    <3> HIDE DEF E, fall
    <3>2. IsFiniteSet({fall[i] : i \in E})
      BY <3>1, ImageIsFinite DEF E
    <3> QED
      BY <2>3, <3>2 DEF E
  <2>5. S \in SUBSET Int /\ S # {}
    <3>1. \A i \in 1..D : PeakAt(curve, i) \in Int /\ curve[i] \in Int
      BY <1>4, PeakParts
    <3>2. 1 \in 1..D
      BY <1>3
    <3> QED
      BY <3>1, <3>2
  <2>6. Max(S) \in S
    <3> HIDE DEF S
    <3> QED
      BY <2>4, <2>5, Extremes
  <2> QED
    BY <2>2, <2>6
<1>10. PICK l \in 1..k : PeakAt(curve, k) = curve[l]
  BY <1>4, PeakParts
<1> QED
  BY <1>1, <1>7, <1>8, <1>9, <1>10

-----------------------------------------------------------------------------
(* Pages                                                                    *)

(* Newest first: as many rows, counted from the end.                        *)
LEMMA Reversed ==
  ASSUME NEW T, NEW s \in Seq(T)
  PROVE  /\ Reverse(s) \in Seq(T) /\ Len(Reverse(s)) = Len(s)
         /\ \A i \in 1..Len(s) : Reverse(s)[i] = s[(Len(s) - i) + 1] /\ Reverse(s)[i] \in T
<1>0. PICK N \in Nat : N = Len(s)
  OBVIOUS
<1>1. PICK r : r = Reverse(s) /\ r = [i \in 1..N |-> s[(N - i) + 1]]
  BY <1>0 DEF Reverse
<1>2. \A i \in 1..N : (N - i) + 1 \in 1..N
  OBVIOUS
<1>3. \A i \in 1..N : s[i] \in T
  BY <1>0
<1>4. \A i \in 1..N : r[i] = s[(N - i) + 1] /\ r[i] \in T
  BY <1>1, <1>2, <1>3
<1>5. r \in [1..N -> T]
  BY <1>1, <1>4
<1>6. r \in Seq(T) /\ Len(r) = N
  BY <1>5
<1> QED
  BY <1>0, <1>1, <1>4, <1>6

(* A limit is clamped once for all.                                         *)
LEMMA LimitClamped ==
  ASSUME NEW limit \in Int
  PROVE  Clamp(limit) \in 1..MaxPage /\ Clamp(Clamp(limit)) = Clamp(limit)
  BY ReportsAssumption DEF Clamp, AtLeastOne

(* A page goes on where the last one ended, and is not empty before the end.*)
LEMMA PageParts ==
  ASSUME NEW T, NEW rows \in Seq(T), NEW limit \in Int, NEW from \in 0..Len(rows)
  PROVE  LET page == QuietPage(rows, limit, from)
             N == Len(rows)
         IN  \E to \in from..N :
               /\ page.data = SubSeq(Reverse(rows), from + 1, to) /\ page.data \in Seq(T)
               /\ Len(page.data) = to - from
               /\ page.offset = from /\ page.total = N /\ page.has_more = (to < N)
               /\ from < N => to > from
<1>0. PICK N \in Nat : N = Len(rows) /\ from \in 0..N
  OBVIOUS
<1>1. PICK size, to : size = Clamp(limit) /\ to = Min({from + size, N})
  OBVIOUS
<1>2. size \in 1..MaxPage /\ Clamp(Clamp(limit)) = size /\ MaxPage \in Nat
  BY <1>1, LimitClamped, ReportsAssumption
<1>3. to \in from..N /\ (from < N => to > from)
  <2> DEFINE S == {from + size, N}
  <2>1. size \in Nat \ {0}
    BY <1>2
  <2>2. S \in SUBSET Int /\ S # {} /\ from + size \in S /\ N \in S
    BY <2>1
  <2>3. IsFiniteSet(S)
    <3>1. IsFiniteSet({N})
      BY FS_Singleton
    <3>2. S = {N} \cup {from + size}
      OBVIOUS
    <3>3. IsFiniteSet({N} \cup {from + size})
      BY <3>1, FS_AddElement
    <3> QED
      BY <3>2, <3>3
  <2>4. Min(S) \in S /\ \A y \in S : Min(S) <= y
    <3> HIDE DEF S
    <3> QED
      BY <2>2, <2>3, Extremes
  <2>5. (to = from + size \/ to = N) /\ to <= from + size /\ to <= N
    BY <1>1, <2>4
  <2>6. from \in Nat /\ N \in Nat /\ from <= N
    BY <1>0
  <2>7. CASE to = N
    BY ONLY <2>6, <2>7
  <2>8. CASE to = from + size
    BY ONLY <2>1, <2>5, <2>6, <2>8
  <2> QED
    BY <2>5, <2>7, <2>8
<1>4. PICK r : r = Reverse(rows) /\ r \in Seq(T) /\ Len(r) = N /\ \A i \in 1..N : r[i] \in T
  BY <1>0, Reversed
<1>5. PICK d : /\ d = SubSeq(r, from + 1, to) /\ d \in Seq(T) /\ Len(d) = to - from
  <2>1. PICK a \in Int : a = from + 1
    OBVIOUS
  <2>2. to \in Int /\ \A i \in a..to : r[i] \in T
    BY <1>3, <1>4, <2>1
  <2>3. /\ SubSeq(r, a, to) \in Seq(T)
        /\ Len(SubSeq(r, a, to)) = IF a <= to THEN to - a + 1 ELSE 0
    BY <2>2, SubSeqProperties
  <2>4. (IF a <= to THEN to - a + 1 ELSE 0) = to - from
    BY <1>3, <2>1
  <2> QED
    BY <2>1, <2>3, <2>4
<1>6. QuietPage(rows, limit, from) =
        [data |-> d, total |-> N, offset |-> from, has_more |-> from + Len(d) < N]
  <2>1. (IF from < 0 THEN 0 ELSE from) = from
    OBVIOUS
  <2> QED
    BY <1>0, <1>1, <1>2, <1>4, <1>5, <2>1 DEF QuietPage, ApiPage, Page
<1>7. (from + Len(d) < N) = (to < N)
  BY <1>3, <1>5
<1> QED
  BY <1>0, <1>3, <1>4, <1>5, <1>6, <1>7

(* Another page.                                                            *)
Follow(rows, limit, s) ==
  IF s.more
  THEN LET page == QuietPage(rows, limit, Len(s.read))
       IN  [read |-> s.read \o page.data, more |-> page.has_more]
  ELSE s

Unread == [read |-> <<>>, more |-> TRUE]

(* The newest rows have been read, so many of them at least.                *)
Reads(rows, n) ==
  {s \in [read : {SubSeq(Reverse(rows), 1, m) : m \in 0..Len(rows)}, more : BOOLEAN] :
     \E m \in 0..Len(rows) : /\ m >= n /\ s.read = SubSeq(Reverse(rows), 1, m)
                             /\ s.more <=> m < Len(rows)}

(* Another page has been read, or there was none.                           *)
LEMMA ReadsOn ==
  ASSUME NEW T, NEW rows \in Seq(T), NEW N \in Nat, N = Len(rows), NEW limit \in Int,
         NEW n \in 1..N, NEW s \in Reads(rows, n - 1)
  PROVE  Follow(rows, limit, s) \in Reads(rows, n)
<1>1. PICK m \in 0..N : /\ m >= n - 1 /\ s.read = SubSeq(Reverse(rows), 1, m)
                        /\ s.more <=> m < N
  BY DEF Reads
<1>2. PICK r : r = Reverse(rows) /\ r \in Seq(T) /\ Len(r) = N /\ \A i \in 1..N : r[i] \in T
  BY Reversed
<1>3. CASE ~s.more
  <2>1. Follow(rows, limit, s) = s
    BY <1>3 DEF Follow
  <2>2. m >= n
    BY <1>1, <1>3
  <2> QED
    BY <1>1, <2>1, <2>2 DEF Reads
<1>4. CASE s.more
  <2>1. m < N /\ Len(s.read) = m
    <3>1. m \in Int /\ \A i \in 1..m : r[i] \in T
      BY <1>2
    <3>2. Len(SubSeq(r, 1, m)) = IF 1 <= m THEN m - 1 + 1 ELSE 0
      BY <3>1, SubSeqProperties
    <3> QED
      BY <1>1, <1>2, <1>4, <3>2
  <2>2. PICK to \in m..N :
          /\ QuietPage(rows, limit, m).data = SubSeq(r, m + 1, to)
          /\ QuietPage(rows, limit, m).has_more = (to < N) /\ to > m
    <3>1. m \in 0..Len(rows)
      OBVIOUS
    <3>2. PICK to \in m..Len(rows) :
            /\ QuietPage(rows, limit, m).data = SubSeq(Reverse(rows), m + 1, to)
            /\ QuietPage(rows, limit, m).has_more = (to < Len(rows))
            /\ m < Len(rows) => to > m
      BY ONLY rows \in Seq(T), limit \in Int, <3>1, PageParts
    <3> QED
      BY <1>2, <2>1, <3>2
  <2>3. SubSeq(r, 1, m) \o SubSeq(r, m + 1, to) = SubSeq(r, 1, to)
    <3>1. 1 \in 1..Len(r) + 1 /\ m \in (1 - 1)..Len(r) /\ to \in m..Len(r)
      BY <1>2
    <3> QED
      BY <1>2, <3>1, ConcatAdjacentSubSeq
  <2>4. Follow(rows, limit, s) = [read |-> SubSeq(r, 1, to), more |-> to < N]
    BY <1>1, <1>2, <1>4, <2>1, <2>2, <2>3 DEF Follow
  <2>5. to >= n /\ to \in 0..N /\ (to < N) \in BOOLEAN
    BY <1>1, <2>2
  <2>6. PICK t : t = Follow(rows, limit, s)
    OBVIOUS
  <2>7. t.read = SubSeq(Reverse(rows), 1, to) /\ t.more = (to < Len(rows))
    BY <1>2, <2>4, <2>6
  <2>8. t \in [read : {SubSeq(Reverse(rows), 1, k) : k \in 0..Len(rows)}, more : BOOLEAN]
    BY <1>2, <2>4, <2>5, <2>6
  <2> QED
    BY <2>5, <2>6, <2>7, <2>8 DEF Reads
<1> QED
  BY <1>3, <1>4

(* Whoever follows the pages has read every row, once and in order.         *)
LEMMA EverythingIsRead ==
  ASSUME NEW T, NEW rows \in Seq(T), rows # <<>>, NEW limit \in Int
  PROVE  FollowPages(rows, limit) = Reverse(rows)
<1> DEFINE N == Len(rows)
           Acc == Reads(rows, 0)
           step == [q \in Acc \X (1..N) |-> Follow(rows, limit, q[1])]
           Solves(f) == f = [s \in SUBSET (1..N) |->
                               IF s = {} THEN Unread
                               ELSE Follow(rows, limit, f[s \ {Greatest(s)}])]
           end == (CHOOSE f : Solves(f))[1..N]
<1>1. N \in Nat /\ DOMAIN rows = 1..N /\ N # 0
  OBVIOUS
<1>2. Unread \in Acc
  <2>1. SubSeq(Reverse(rows), 1, 0) = <<>> /\ 0 \in 0..N
    BY <1>1, SubSeqEmpty
  <2>2. 0 < N /\ 0 >= 0 /\ TRUE \in BOOLEAN
    BY <1>1
  <2>3. Unread \in [read : {SubSeq(Reverse(rows), 1, m) : m \in 0..N}, more : BOOLEAN]
    BY <2>1 DEF Unread
  <2>4. /\ Unread.read = SubSeq(Reverse(rows), 1, 0) /\ Unread.more = TRUE
    BY <2>1 DEF Unread
  <2> HIDE DEF Unread
  <2> QED
    BY <2>1, <2>2, <2>3, <2>4 DEF Reads
<1>3. \A n \in 1..N : Reads(rows, n) \subseteq Acc
  <2>1. \A n \in 1..N, m \in 0..N : m >= n => m >= 0
    OBVIOUS
  <2> QED
    BY <2>1 DEF Reads
<1>4. \A s \in Acc : Follow(rows, limit, s) \in Acc
  <2>1. 1 \in 1..N /\ 1 - 1 = 0
    BY <1>1
  <2>2. \A s \in Reads(rows, 1 - 1) : Follow(rows, limit, s) \in Reads(rows, 1)
    BY <1>1, <2>1, ReadsOn
  <2> QED
    BY <1>3, <2>1, <2>2
<1> HIDE DEF Acc
<1>5. step \in [Acc \X (1..N) -> Acc]
  BY <1>4
<1>6. PICK g \in [SUBSET (1..N) -> Acc] : FoldsBy(g, N, Unread, step)
  <2> HIDE DEF step, N
  <2> QED
    BY <1>1, <1>2, <1>5, FoldSolved
<1>7. Solves(g)
  <2>1. ASSUME NEW s \in SUBSET (1..N), s # {}
        PROVE  step[<<g[s \ {Greatest(s)}], Greatest(s)>>]
                 = Follow(rows, limit, g[s \ {Greatest(s)}])
    <3>1. Greatest(s) \in 1..N
      BY <1>1, <2>1, GreatestIsElement
    <3>2. g[s \ {Greatest(s)}] \in Acc
      OBVIOUS
    <3> QED
      BY <3>1, <3>2
  <2> HIDE DEF step
  <2> QED
    BY <1>6, <2>1 DEF FoldsBy
<1>8. FollowPages(rows, limit) = end.read
  BY <1>1 DEF FollowPages, FoldLeft, MapThenFoldSet, Max, Greatest, Follow, Unread
<1>9. PICK f : Solves(f) /\ end = f[1..N]
  <2> HIDE DEF Solves
  <2> QED
    BY <1>7
<1> DEFINE h == [n \in 0..N |-> f[1..n]]
<1> HIDE DEF Unread, end, Follow
<1>10. h[0] = Unread /\ h[N] = end
  <2>1. 1..0 = {} /\ 1..0 \in SUBSET (1..N) /\ 0 \in 0..N /\ N \in 0..N
    BY <1>1
  <2> QED
    BY <1>9, <2>1
<1> HIDE DEF N
<1>11. ASSUME NEW n \in 1..N
       PROVE  h[n] = Follow(rows, limit, h[n - 1])
  <2>1. f[1..n] = Follow(rows, limit, f[(1..n) \ {Greatest(1..n)}])
    <3> HIDE DEF Greatest
    <3> QED
      BY <1>1, <1>9, FoldPrefix
  <2> QED
    BY <1>1, <2>1, FoldPrefix
<1> HIDE DEF h
<1> DEFINE R == {n \in 0..N : h[n] \in Reads(rows, n)}
<1>12. 0 \in R
  BY <1>1, <1>2, <1>10 DEF Acc
<1>13. ASSUME NEW n \in 1..N, n - 1 \in R
       PROVE  n \in R
  <2>1. h[n - 1] \in Reads(rows, n - 1) /\ n \in 0..N
    BY <1>1, <1>13
  <2>2. Follow(rows, limit, h[n - 1]) \in Reads(rows, n)
    BY <1>1, <2>1, ReadsOn DEF N
  <2> QED
    BY <1>11, <2>1, <2>2
<1>14. h[N] \in Reads(rows, N)
  <2>1. \A n \in 0..N : n \in R
    <3> HIDE DEF R
    <3> QED
      BY <1>1, <1>12, <1>13, IntervalCovered
  <2>2. N \in 0..N
    BY <1>1
  <2> QED
    BY <2>1, <2>2
<1>15. end.read = SubSeq(Reverse(rows), 1, N)
  <2>1. PICK m \in 0..N : m >= N /\ h[N].read = SubSeq(Reverse(rows), 1, m)
    BY <1>14 DEF Reads, N
  <2>2. m = N
    BY <1>1, <2>1
  <2> QED
    BY <1>10, <2>1, <2>2
<1>16. SubSeq(Reverse(rows), 1, N) = Reverse(rows)
  <2>1. Reverse(rows) \in Seq(T) /\ Len(Reverse(rows)) = N
    BY <1>1, Reversed DEF N
  <2> QED
    BY <2>1, SubSeqFull
<1> QED
  BY <1>8, <1>15, <1>16

(* Without the newest so many, the rest of the list.                        *)
LEMMA OldestFirst ==
  ASSUME NEW T, NEW s \in Seq(T), NEW f \in 0..Len(s)
  PROVE  LET rest == Reverse(SubSeq(Reverse(s), f + 1, Len(s)))
         IN  /\ rest \in Seq(T) /\ Len(rest) = Len(s) - f
             /\ \A i \in 1..(Len(s) - f) : rest[i] = s[i]
<1>0. PICK N \in Nat : N = Len(s) /\ f \in 0..N
  OBVIOUS
<1>1. PICK r : /\ r = Reverse(s) /\ r \in Seq(T) /\ Len(r) = N
               /\ \A i \in 1..N : r[i] = s[(N - i) + 1] /\ r[i] \in T
  BY <1>0, Reversed
<1>2. PICK d, n : /\ d = SubSeq(r, f + 1, N) /\ n = N - f
  OBVIOUS
<1>3. n \in Nat /\ d \in Seq(T) /\ Len(d) = n /\ \A i \in 1..n : d[i] = r[f + i]
  <2>1. PICK a \in Int : a = f + 1
    OBVIOUS
  <2>2. N \in Int /\ \A i \in a..N : r[i] \in T
    BY <1>1, <2>1
  <2>3. /\ SubSeq(r, a, N) \in Seq(T)
        /\ Len(SubSeq(r, a, N)) = IF a <= N THEN N - a + 1 ELSE 0
        /\ \A i \in 1..(N - a + 1) : SubSeq(r, a, N)[i] = r[a + i - 1]
    BY <2>2, SubSeqProperties
  <2>4. (IF a <= N THEN N - a + 1 ELSE 0) = n /\ N - a + 1 = n /\ n \in Nat
    <3>1. f \in Nat /\ f <= N /\ n = N - f /\ a = f + 1 /\ N \in Nat
      BY <1>0, <1>2, <2>1
    <3> QED
      BY ONLY <3>1
  <2>5. \A i \in 1..n : a + i - 1 = f + i
    BY <1>2, <2>1
  <2> QED
    BY <1>2, <2>1, <2>3, <2>4, <2>5
<1>4. PICK q : /\ q = Reverse(d) /\ q \in Seq(T) /\ Len(q) = n
               /\ \A i \in 1..n : q[i] = d[(n - i) + 1]
  <2>1. /\ Reverse(d) \in Seq(T) /\ Len(Reverse(d)) = Len(d)
        /\ \A i \in 1..Len(d) : Reverse(d)[i] = d[(Len(d) - i) + 1]
    BY <1>3, Reversed
  <2> QED
    BY ONLY <1>3, <2>1
<1>5. ASSUME NEW i \in 1..n
      PROVE  q[i] = s[i]
  <2>1. (n - i) + 1 \in 1..n /\ f + ((n - i) + 1) \in 1..N
    BY ONLY <1>0, <1>2, <1>3, i \in 1..n
  <2>2. (N - (f + ((n - i) + 1))) + 1 = i
    BY <1>2, <1>3
  <2>3. q[i] = d[(n - i) + 1] /\ d[(n - i) + 1] = r[f + ((n - i) + 1)]
    BY <1>3, <1>4, <2>1
  <2>4. r[f + ((n - i) + 1)] = s[(N - (f + ((n - i) + 1))) + 1]
    BY <1>1, <2>1
  <2> QED
    BY <2>2, <2>3, <2>4
<1> QED
  BY <1>0, <1>1, <1>2, <1>4, <1>5

(* A trade that closes between two pages hides none.                        *)
LEMMA NothingHidden ==
  ASSUME NEW T, NEW rows \in Seq(T), NEW N \in Nat, N = Len(rows), NEW limit \in Int,
         NEW n \in 1..N
  PROVE  LET before == SubSeq(rows, 1, n)
             first  == QuietPage(before, limit, 0)
             second == QuietPage(rows, limit, Len(first.data))
         IN  IsSuffix(SubSeq(Reverse(before), Len(first.data) + 1, n),
                      SubSeq(Reverse(rows), second.offset + 1, second.total))
<1>1. PICK before : /\ before = SubSeq(rows, 1, n) /\ before \in Seq(T) /\ Len(before) = n
                    /\ \A i \in 1..n : before[i] = rows[i]
  <2>1. PICK b : b = SubSeq(rows, 1, n)
    OBVIOUS
  <2>2. n \in Int /\ 1 \in Int /\ \A i \in 1..n : rows[i] \in T
    OBVIOUS
  <2>3. /\ b \in Seq(T) /\ Len(b) = IF 1 <= n THEN n - 1 + 1 ELSE 0
        /\ \A i \in 1..(n - 1 + 1) : b[i] = rows[1 + i - 1]
    BY <2>1, <2>2, SubSeqProperties
  <2>4. Len(b) = n /\ \A i \in 1..n : i \in 1..(n - 1 + 1) /\ 1 + i - 1 = i
    BY <2>3
  <2> QED
    BY <2>1, <2>3, <2>4
<1>2. PICK f : f = Len(QuietPage(before, limit, 0).data) /\ f \in 0..n
  <2>1. 0 \in 0..Len(before)
    BY <1>1
  <2>2. before \in Seq(T)
    BY <1>1
  <2>3. \E to \in 0..Len(before) : Len(QuietPage(before, limit, 0).data) = to - 0
    BY ONLY limit \in Int, <2>1, <2>2, PageParts
  <2> QED
    BY <1>1, <2>3
<1>3. QuietPage(rows, limit, f).offset = f /\ QuietPage(rows, limit, f).total = N
  <2>1. f \in 0..Len(rows)
    BY <1>2
  <2> QED
    BY ONLY rows \in Seq(T), limit \in Int, N = Len(rows), <2>1, PageParts
<1>4. PICK a : /\ a = Reverse(SubSeq(Reverse(before), f + 1, n))
               /\ a \in Seq(T) /\ Len(a) = n - f /\ \A i \in 1..(n - f) : a[i] = before[i]
  <2>1. f \in 0..Len(before)
    BY <1>1, <1>2
  <2> DEFINE a == Reverse(SubSeq(Reverse(before), f + 1, Len(before)))
  <2>2. /\ a \in Seq(T) /\ Len(a) = Len(before) - f
        /\ \A i \in 1..(Len(before) - f) : a[i] = before[i]
    BY <1>1, <2>1, OldestFirst
  <2> QED
    BY <1>1, <2>2
<1>5. PICK b : /\ b = Reverse(SubSeq(Reverse(rows), f + 1, N))
               /\ b \in Seq(T) /\ Len(b) = N - f /\ \A i \in 1..(N - f) : b[i] = rows[i]
  <2>1. f \in 0..Len(rows)
    BY <1>2
  <2> DEFINE b == Reverse(SubSeq(Reverse(rows), f + 1, Len(rows)))
  <2>2. /\ b \in Seq(T) /\ Len(b) = Len(rows) - f
        /\ \A i \in 1..(Len(rows) - f) : b[i] = rows[i]
    BY <2>1, OldestFirst
  <2> QED
    BY <2>2
<1>6. IsPrefix(a, b)
  <2>1. PICK m \in Nat : m = n - f /\ Len(a) = m /\ m <= N - f
    <3>1. n - f \in Nat /\ n - f <= N - f
      BY <1>2
    <3> QED
      BY <1>4, <3>1
  <2>2. \A i \in 1..m : a[i] = b[i] /\ a[i] \in T /\ b[i] \in T
    <3>1. \A i \in 1..m : i \in 1..n /\ i \in 1..(n - f) /\ i \in 1..(N - f)
      BY <1>2, <2>1
    <3>2. \A i \in 1..m : rows[i] \in T
      BY <3>1
    <3> QED
      BY <1>1, <1>4, <1>5, <3>1, <3>2
  <2>3. SubSeq(a, 1, m) = SubSeq(b, 1, m)
    <3>1. PICK x, y : x = SubSeq(a, 1, m) /\ y = SubSeq(b, 1, m)
      OBVIOUS
    <3>2. m \in Int /\ 1 \in Int /\ m - 1 + 1 = m
      OBVIOUS
    <3>3. /\ x \in Seq(T) /\ Len(x) = IF 1 <= m THEN m - 1 + 1 ELSE 0
          /\ \A i \in 1..(m - 1 + 1) : x[i] = a[1 + i - 1]
      BY <2>2, <3>1, <3>2, SubSeqProperties
    <3>4. /\ y \in Seq(T) /\ Len(y) = IF 1 <= m THEN m - 1 + 1 ELSE 0
          /\ \A i \in 1..(m - 1 + 1) : y[i] = b[1 + i - 1]
      BY <2>2, <3>1, <3>2, SubSeqProperties
    <3>5. Len(x) = m
      BY <3>2, <3>3
    <3>6. \A i \in 1..m : 1 + i - 1 = i
      OBVIOUS
    <3>7. \A i \in 1..Len(x) : x[i] = y[i]
      BY <2>2, <3>2, <3>3, <3>4, <3>5, <3>6
    <3>8. x = y
      BY <3>3, <3>4, <3>7, SeqEqual
    <3> QED
      BY <3>1, <3>8
  <2> QED
    BY <1>5, <2>1, <2>3 DEF IsPrefix
<1>7. IsSuffix(SubSeq(Reverse(before), f + 1, n), SubSeq(Reverse(rows), f + 1, N))
  BY <1>4, <1>5, <1>6 DEF IsSuffix
<1> QED
  BY <1>1, <1>2, <1>3, <1>7


-----------------------------------------------------------------------------
(* Signals                                                                  *)

(* What is counted part by part is counted once.                            *)
LEMMA CountsByParts ==
  ASSUME NEW T, NEW s \in Seq(T), NEW c, DOMAIN c = DOMAIN s, NEW A \in SUBSET DOMAIN s,
         NEW f, DOMAIN f = Keys(c),
         \A k \in Keys(c) : f[k] = Cardinality(At(c, k) \cap A)
  PROVE  Total(f) = Cardinality(A)
<1> DEFINE one == [x \in DOMAIN s |-> IF x \in A THEN 1 ELSE 0]
<1>1. PICK S : S = DOMAIN s /\ S = 1..Len(s) /\ Len(s) \in Nat
  OBVIOUS
<1>2. /\ \A x \in S : one[x] \in Int /\ (x \in A => one[x] = 1) /\ (x \notin A => one[x] = 0)
      /\ IsFiniteSet(S)
  <2>1. \A x \in S : one[x] \in Int /\ (x \in A => one[x] = 1) /\ (x \notin A => one[x] = 0)
    BY <1>1
  <2>2. IsFiniteSet(S)
    <3>1. PICK n \in Nat : n = Len(s)
      BY <1>1
    <3> QED
      BY <1>1, <3>1, FS_Interval
  <2> QED
    BY <2>1, <2>2
<1> HIDE DEF one
<1>3. ASSUME NEW X \in SUBSET S
      PROVE  SumFunctionOnSet(one, X) = Cardinality(X \cap A)
  <2> DEFINE In == X \cap A
             Out == X \ A
  <2>1. IsFiniteSet(X) /\ In \subseteq X /\ Out \subseteq X
    BY <1>2, FS_Subset
  <2>2. /\ IsFiniteSet(In) /\ \A x \in In : one[x] = 1
    BY <1>2, <2>1, FS_Subset
  <2>3. IsFiniteSet(Out) /\ \A x \in Out : one[x] = 0
    BY <1>2, <2>1, FS_Subset
  <2>4. In \cap Out = {} /\ In \cup Out = X /\ \A x \in In \cup Out : one[x] \in Int
    BY <1>2
  <2> HIDE DEF In, Out
  <2>5. SumFunctionOnSet(one, In) = Cardinality(In) /\ Cardinality(In) \in Nat
    BY <2>2, CountIsSum, FS_CardinalityType
  <2>6. SumFunctionOnSet(one, Out) = 0
    BY <2>3, SumOfZeros
  <2>7. SumFunctionOnSet(one, In \cup Out) =
          SumFunctionOnSet(one, In) + SumFunctionOnSet(one, Out)
    BY <2>2, <2>3, <2>4, SumOfUnion
  <2>8. SumFunctionOnSet(one, X) = Cardinality(In)
    <3>1. SumFunctionOnSet(one, X) = SumFunctionOnSet(one, In \cup Out)
      BY <2>4
    <3>2. PICK n : n = Cardinality(In) /\ n \in Nat
      BY <2>5
    <3>3. SumFunctionOnSet(one, In \cup Out) = n + 0
      BY <2>5, <2>6, <2>7, <3>2
    <3>4. n + 0 = n
      BY <3>2
    <3> QED
      BY <3>1, <3>2, <3>3, <3>4
  <2> QED
    BY <2>8 DEF In
<1>4. ASSUME NEW k \in Keys(c)
      PROVE  f[k] = SumFunctionOnSet(one, {x \in S : c[x] = k})
  <2>1. At(c, k) = {x \in S : c[x] = k} /\ At(c, k) \in SUBSET S
    BY <1>1 DEF At
  <2> QED
    BY <1>3, <2>1
<1>5. Keys(c) = {c[x] : x \in S}
  BY <1>1 DEF Keys
<1>6. Parts(one, S, c, f)
  BY <1>4, <1>5 DEF Parts
<1>7. SumFunctionOnSet(f, {c[x] : x \in S}) = SumFunctionOnSet(one, S)
  BY <1>2, <1>6, SumByParts
<1>8. S \cap A = A /\ S \in SUBSET S
  BY <1>1
<1>9. SumFunctionOnSet(one, S) = Cardinality(A)
  BY <1>3, <1>8
<1> QED
  BY <1>5, <1>7, <1>9 DEF Total, SumFunction

(* The rows that have something: counted in the selection or in the list.   *)
Which(s, A) == {i \in DOMAIN s : s[i] \in A}

(* As many rows of a selection as places have it.                           *)
LEMMA WhichOfRows ==
  ASSUME NEW T, NEW s \in Seq(T), NEW K \in SUBSET DOMAIN s, NEW A
  PROVE  Cardinality(Which(RowsAt(s, K), A)) = Cardinality(K \cap Which(s, A))
<1>1. PICK n, a, r : /\ n = Cardinality(K) /\ a = Ascending(K) /\ r = RowsAt(s, K)
                     /\ n \in Nat /\ a \in Bijection(1..n, K)
                     /\ r \in Seq(T) /\ Len(r) = n /\ \A k \in 1..n : r[k] = s[a[k]]
  BY RowsAtParts
<1>2. \A k \in 1..n : a[k] \in K
  BY <1>1 DEF Bijection, Injection
<1>3. PICK L : L = K \cap Which(s, A) /\ L \in SUBSET K
  OBVIOUS
<1>4. Which(r, A) = {k \in 1..n : a[k] \in L}
  <2>1. DOMAIN r = 1..n
    BY <1>1
  <2>2. \A k \in 1..n : r[k] \in A <=> a[k] \in L
    BY <1>1, <1>2, <1>3 DEF Which
  <2> QED
    BY <2>1, <2>2 DEF Which
<1>5. Cardinality({k \in 1..Cardinality(K) : Ascending(K)[k] \in L}) = Cardinality(L)
  BY <1>3, CountInRows
<1> QED
  BY <1>1, <1>3, <1>4, <1>5

Signal == [symbol : STRING, strategy : STRING, accepted : BOOLEAN,
           regime : STRING, at : Nat \X Nat]
AcceptedSignal == {s \in Signal : s.accepted}

(* The accepted of a list of signals.                                       *)
LEMMA AcceptedCounted ==
  ASSUME NEW s \in Seq(Signal)
  PROVE  Len(Select(s, LAMBDA x : x.accepted)) = Cardinality(Which(s, AcceptedSignal))
<1> DEFINE K == {i \in DOMAIN s : s[i].accepted}
<1>1. Select(s, LAMBDA x : x.accepted) = RowsAt(s, K)
  BY DEF Select
<1>2. K \in SUBSET DOMAIN s
  OBVIOUS
<1>3. K = Which(s, AcceptedSignal)
  BY DEF Which, AcceptedSignal
<1> HIDE DEF K
<1>4. Len(RowsAt(s, K)) = Cardinality(K)
  BY <1>2, RowsAtParts
<1> QED
  BY <1>1, <1>3, <1>4

(* Counted by strategy or in one list, the accepted are as many.            *)
LEMMA SignalsAgree == SignalsCounted
<1> DEFINE K == {i \in DOMAIN Signals : Signals[i].at[1] >= 0}
           of == RowsAt(Signals, K)
           c == StrategiesOf(of)
           f == [g \in DOMAIN SignalsToday(0) |-> SignalsToday(0)[g].accepted]
<1>1. Signals \in Seq(Signal)
  BY ReportsAssumption DEF Signal
<1>2. /\ K \in SUBSET DOMAIN Signals
      /\ K \cap Which(Signals, AcceptedSignal) = Which(Signals, AcceptedSignal)
  <2>1. \A i \in DOMAIN Signals : Signals[i] \in Signal
    BY <1>1
  <2>2. \A i \in DOMAIN Signals : Signals[i].at[1] >= 0
    BY <2>1 DEF Signal
  <2> QED
    BY <2>2 DEF Which
<1> DEFINE groups == GroupBy(of, LAMBDA x : x.strategy)
<1>3. DOMAIN groups = Keys(c) /\ \A g \in Keys(c) : groups[g] = RowsAt(of, At(c, g))
  BY DEF GroupBy, Select, Keys, At, StrategiesOf
<1>4. Select(Signals, LAMBDA x : x.at[1] >= 0) = of
  BY DEF Select
<1>5. /\ DOMAIN SignalsToday(0) = DOMAIN groups
      /\ \A g \in DOMAIN groups :
           SignalsToday(0)[g].accepted = Len(Select(groups[g], LAMBDA x : x.accepted))
  <2> HIDE DEF of
  <2> QED
    BY <1>4 DEF SignalsToday
<1>6. /\ DOMAIN f = Keys(c)
      /\ \A g \in Keys(c) : f[g] = Len(Select(RowsAt(of, At(c, g)), LAMBDA x : x.accepted))
  <2> HIDE DEF groups, c, of
  <2> QED
    BY <1>3, <1>5
<1> HIDE DEF K, f
<1>7. of \in Seq(Signal)
  BY <1>1, <1>2, RowsAtParts
<1>8. DOMAIN c = DOMAIN of
  BY DEF StrategiesOf
<1> HIDE DEF of, c
<1>9. ASSUME NEW g \in Keys(c)
      PROVE  f[g] = Cardinality(At(c, g) \cap Which(of, AcceptedSignal))
  <2>1. PICK r : r = RowsAt(of, At(c, g)) /\ r \in Seq(Signal) /\ At(c, g) \in SUBSET DOMAIN of
    BY <1>7, <1>8, GroupParts
  <2>2. f[g] = Cardinality(Which(r, AcceptedSignal))
    BY <1>6, <2>1, AcceptedCounted
  <2>3. Cardinality(Which(RowsAt(of, At(c, g)), AcceptedSignal)) =
          Cardinality(At(c, g) \cap Which(of, AcceptedSignal))
    BY <1>7, <2>1, WhichOfRows
  <2> QED
    BY <2>1, <2>2, <2>3
<1>10. Total(f) = Cardinality(Which(of, AcceptedSignal))
  <2>1. Which(of, AcceptedSignal) \in SUBSET DOMAIN of
    BY DEF Which
  <2> QED
    BY <1>6, <1>7, <1>8, <1>9, <2>1, CountsByParts
<1>11. Cardinality(Which(of, AcceptedSignal)) = Cardinality(Which(Signals, AcceptedSignal))
  BY <1>1, <1>2, WhichOfRows DEF of
<1>12. RecentSignals(1, 0, TRUE).total = Cardinality(Which(Signals, AcceptedSignal))
  <2>1. RecentSignals(1, 0, TRUE).total = Len(Select(Signals, LAMBDA x : x.accepted))
    BY DEF RecentSignals, Page, Select
  <2> QED
    BY <1>1, <2>1, AcceptedCounted
<1> QED
  BY <1>10, <1>11, <1>12 DEF SignalsCounted, f


-----------------------------------------------------------------------------
(* Windows of days                                                          *)

DaysOf(trades, now, days) == {i \in DOMAIN trades : trades[i].closed >= now[1] - days}
HoursOf(trades, now, days) ==
  {i \in DOMAIN trades : Earlier(<<now[1] - days, now[2]>>, ClosedAt(trades[i]))}
FirstDayOf(trades, now, days) == {i \in DOMAIN trades : trades[i].closed = now[1] - days}

(* The windows are selections by places.                                    *)
LEMMA PlacesOfWindows ==
  ASSUME NEW trades, NEW now, NEW days
  PROVE  /\ SinceDay(trades, now, days) = RowsAt(trades, DaysOf(trades, now, days))
         /\ SinceMoment(trades, now, days) = RowsAt(trades, HoursOf(trades, now, days))
         /\ Select(trades, LAMBDA t : t.closed = now[1] - days) =
              RowsAt(trades, FirstDayOf(trades, now, days))
BY DEF SinceDay, SinceMoment, Select, DaysOf, HoursOf, FirstDayOf

(* From the hour on is from the day on, but for trades of the first day.    *)
LEMMA HoursWithinDays ==
  ASSUME NEW trades \in Seq(ClosedTrade), NEW now \in Int \X Int, NEW days \in Int
  PROVE  LET D == DaysOf(trades, now, days)
             H == HoursOf(trades, now, days)
             F == FirstDayOf(trades, now, days)
         IN  /\ D \in SUBSET DOMAIN trades /\ H \in SUBSET D
             /\ F \in SUBSET DOMAIN trades /\ D \subseteq H \cup F
<1>1. PICK day, hour : day = now[1] - days /\ hour = now[2] /\ day \in Int /\ hour \in Int
  OBVIOUS
<1>2. \A i \in DOMAIN trades : trades[i].closed \in Int /\ trades[i].part \in Int
  <2>1. \A t \in ClosedTrade : t.closed \in Int /\ t.part \in Int
    BY DEF ClosedTrade
  <2>2. \A i \in DOMAIN trades : trades[i] \in ClosedTrade
    OBVIOUS
  <2> QED
    BY <2>1, <2>2
<1>3. /\ DaysOf(trades, now, days) = {i \in DOMAIN trades : trades[i].closed >= day}
      /\ FirstDayOf(trades, now, days) = {i \in DOMAIN trades : trades[i].closed = day}
  BY <1>1 DEF DaysOf, FirstDayOf
<1>4. HoursOf(trades, now, days) =
        {i \in DOMAIN trades : day < trades[i].closed
                               \/ (day = trades[i].closed /\ hour <= trades[i].part)}
  BY <1>1 DEF HoursOf, Earlier, ClosedAt
<1> QED
  BY <1>1, <1>2, <1>3, <1>4

(* So many trades in each.                                                  *)
LEMMA WindowSizes ==
  ASSUME NEW trades \in Seq(ClosedTrade), NEW now \in Int \X Int, NEW days \in Int
  PROVE  LET D == DaysOf(trades, now, days)
             H == HoursOf(trades, now, days)
             F == FirstDayOf(trades, now, days)
         IN  /\ Cardinality(D) \in Nat /\ Cardinality(H) \in Nat /\ Cardinality(F) \in Nat
             /\ Cardinality(H) <= Cardinality(D)
             /\ Cardinality(D) <= Cardinality(H) + Cardinality(F)
<1>1. PICK D, H, F : /\ D = DaysOf(trades, now, days) /\ H = HoursOf(trades, now, days)
                     /\ F = FirstDayOf(trades, now, days)
  OBVIOUS
<1>2. /\ D \in SUBSET DOMAIN trades /\ H \in SUBSET D
      /\ F \in SUBSET DOMAIN trades /\ D \subseteq H \cup F
  BY <1>1, HoursWithinDays
<1>3. IsFiniteSet(D) /\ IsFiniteSet(F) /\ Cardinality(D) \in Nat /\ Cardinality(F) \in Nat
  BY <1>2, RowsAtParts
<1>4. IsFiniteSet(H) /\ Cardinality(H) <= Cardinality(D)
  BY <1>2, <1>3, FS_Subset
<1>5. IsFiniteSet(H \cup F) /\ Cardinality(H \cup F) <= Cardinality(H) + Cardinality(F)
  <2>1. /\ IsFiniteSet(H \cup F) /\ IsFiniteSet(H \cap F)
        /\ Cardinality(H \cup F) = Cardinality(H) + Cardinality(F) - Cardinality(H \cap F)
    BY <1>3, <1>4, FS_Union, FS_Intersection
  <2>2. Cardinality(H) \in Nat /\ Cardinality(F) \in Nat /\ Cardinality(H \cap F) \in Nat
    BY <1>3, <1>4, <2>1, FS_CardinalityType
  <2> QED
    BY <2>1, <2>2
<1>6. Cardinality(D) <= Cardinality(H \cup F) /\ Cardinality(H) \in Nat
  BY <1>2, <1>4, <1>5, FS_Subset, FS_CardinalityType
<1>7. Cardinality(H \cup F) \in Nat
  BY <1>5, FS_CardinalityType
<1> QED
  BY <1>1, <1>3, <1>4, <1>5, <1>6, <1>7


(* Counted again by another key, a selection is as long.                    *)
LEMMA SectorsAddUp ==
  ASSUME NEW trades \in Seq(ClosedTrade)
  PROVE  LET sectors == SectorPerformance(trades)
             months  == MonthlyPnl(trades)
         IN  /\ Total([s \in DOMAIN sectors |-> sectors[s].n_trades]) = Len(trades)
             /\ Total([m \in DOMAIN months |-> months[m].n_trades]) = Len(trades)
<1> DEFINE sectors == SectorPerformance(trades)
           months  == MonthlyPnl(trades)
           f == [s \in DOMAIN sectors |-> sectors[s].n_trades]
           g == [m \in DOMAIN months |-> months[m].n_trades]
<1>1. /\ DOMAIN f = Keys(SectorsOf(trades))
      /\ \A k \in Keys(SectorsOf(trades)) :
           f[k] = Len(RowsAt(trades, At(SectorsOf(trades), k)))
  BY SectorTable
<1>2. /\ DOMAIN g = Keys(MonthsOf(trades))
      /\ \A k \in Keys(MonthsOf(trades)) :
           g[k] = Len(RowsAt(trades, At(MonthsOf(trades), k)))
  BY MonthTable
<1> HIDE DEF f, g
<1>3. Total(f) = Len(trades)
  BY <1>1, KeyOfEach, CountsAddUp
<1>4. Total(g) = Len(trades)
  BY <1>2, KeyOfEach, CountsAddUp
<1> QED
  BY <1>3, <1>4 DEF f, g

(* By strategy, the hours have no more than the days.                       *)
LEMMA StrategiesNest ==
  ASSUME NEW T, NEW trades \in Seq(T), NEW D \in SUBSET DOMAIN trades, NEW H \in SUBSET D,
         NEW s \in Keys(StrategiesOf(RowsAt(trades, H)))
  PROVE  LET of == RowsAt(trades, D)
             om == RowsAt(trades, H)
         IN  /\ s \in Keys(StrategiesOf(of))
             /\ Len(RowsAt(om, At(StrategiesOf(om), s)))
                  <= Len(RowsAt(of, At(StrategiesOf(of), s)))
<1> DEFINE A == {t \in T : t.strategy = s}
<1>1. ASSUME NEW r \in Seq(T)
      PROVE  At(StrategiesOf(r), s) = Which(r, A)
  <2>1. \A i \in DOMAIN r : r[i] \in T
    OBVIOUS
  <2> QED
    BY <2>1 DEF At, StrategiesOf, Which
<1> HIDE DEF A
<1>2. PICK of, om : /\ of = RowsAt(trades, D) /\ om = RowsAt(trades, H)
                    /\ of \in Seq(T) /\ om \in Seq(T)
  <2>1. H \in SUBSET DOMAIN trades
    OBVIOUS
  <2>2. RowsAt(trades, D) \in Seq(T)
    BY RowsAtParts
  <2>3. RowsAt(trades, H) \in Seq(T)
    BY <2>1, RowsAtParts
  <2> QED
    BY <2>2, <2>3
<1>3. PICK W : W = Which(trades, A)
  OBVIOUS
<1>4. Cardinality(Which(of, A)) = Cardinality(D \cap W)
  BY <1>2, <1>3, WhichOfRows
<1>5. Cardinality(Which(om, A)) = Cardinality(H \cap W)
  <2>1. H \in SUBSET DOMAIN trades
    OBVIOUS
  <2> QED
    BY <1>2, <1>3, <2>1, WhichOfRows
<1>6. IsFiniteSet(D \cap W) /\ H \cap W \in SUBSET (D \cap W)
  <2>1. IsFiniteSet(D)
    BY RowsAtParts
  <2> QED
    BY <2>1, FS_Subset
<1>7. /\ IsFiniteSet(H \cap W) /\ Cardinality(H \cap W) <= Cardinality(D \cap W)
      /\ Cardinality(H \cap W) \in Nat /\ Cardinality(D \cap W) \in Nat
  BY <1>6, FS_Subset, FS_CardinalityType
<1>8. /\ Len(RowsAt(om, At(StrategiesOf(om), s))) = Cardinality(Which(om, A))
      /\ Len(RowsAt(of, At(StrategiesOf(of), s))) = Cardinality(Which(of, A))
      /\ IsFiniteSet(Which(om, A)) /\ IsFiniteSet(Which(of, A))
  <2>1. DOMAIN StrategiesOf(om) = DOMAIN om /\ DOMAIN StrategiesOf(of) = DOMAIN of
    BY KeyOfEach
  <2>2. At(StrategiesOf(om), s) = Which(om, A) /\ At(StrategiesOf(of), s) = Which(of, A)
    BY <1>1, <1>2
  <2>3. /\ Len(RowsAt(om, At(StrategiesOf(om), s))) = Cardinality(At(StrategiesOf(om), s))
        /\ IsFiniteSet(At(StrategiesOf(om), s))
    BY <1>2, <2>1, GroupParts
  <2>4. /\ Len(RowsAt(of, At(StrategiesOf(of), s))) = Cardinality(At(StrategiesOf(of), s))
        /\ IsFiniteSet(At(StrategiesOf(of), s))
    BY <1>2, <2>1, GroupParts
  <2> QED
    BY <2>2, <2>3, <2>4
<1>9. s \in Keys(StrategiesOf(of))
  <2>1. Which(om, A) # {}
    <3>1. At(StrategiesOf(om), s) # {}
      BY <1>2 DEF Keys, At
    <3> QED
      BY <1>1, <1>2, <3>1
  <2>2. Cardinality(H \cap W) # 0
    BY <1>5, <1>8, <2>1, FS_EmptySet
  <2>3. Cardinality(D \cap W) # 0
    BY <1>7, <2>2
  <2>4. Which(of, A) # {}
    BY <1>4, <2>3, FS_EmptySet
  <2>5. At(StrategiesOf(of), s) # {}
    BY <1>1, <1>2, <2>4
  <2> QED
    BY <2>5 DEF Keys, At
<1> QED
  BY <1>2, <1>4, <1>5, <1>7, <1>8, <1>9


(* Whichever signals the join picks, the regimes add up.                    *)
LEMMA RegimesAddUp ==
  ASSUME NEW trades \in Seq(ClosedTrade), NEW ts \in WithRegime(trades)
  PROVE  LET regimes == RegimePerformance(ts)
         IN  /\ Total([r \in DOMAIN regimes |-> regimes[r].trades]) = Len(trades)
             /\ Total([r \in DOMAIN regimes |-> regimes[r].avg_pnl[1]]) = Total(Pnls(trades))
<1>1. PICK p : /\ p = Pnls(trades) /\ p \in Seq(Int) /\ Len(p) = Len(trades)
               /\ DOMAIN p = DOMAIN trades /\ \A i \in DOMAIN trades : p[i] = trades[i].pnl
  BY TradesHavePnl, PnlsParts
<1>2. PICK R, pick : /\ pick \in [DOMAIN trades -> R]
                     /\ ts = [i \in DOMAIN trades |-> [pnl |-> trades[i].pnl, regime |-> pick[i]]]
  BY DEF WithRegime
<1> DEFINE T == [pnl : Int, regime : R]
           c == [i \in DOMAIN ts |-> ts[i].regime]
           regimes == RegimePerformance(ts)
           f == [r \in DOMAIN regimes |-> regimes[r].trades]
           g == [r \in DOMAIN regimes |-> regimes[r].avg_pnl[1]]
           groups == GroupBy(ts, LAMBDA t : t.regime)
<1>3. HasPnl(T)
  BY DEF HasPnl
<1>4. ts \in Seq(T) /\ Len(ts) = Len(trades) /\ DOMAIN ts = DOMAIN trades
      /\ \A i \in DOMAIN trades : ts[i].pnl = p[i]
  <2>1. PICK N \in Nat : N = Len(trades) /\ DOMAIN trades = 1..N
    OBVIOUS
  <2>2. \A i \in 1..N : trades[i].pnl \in Int /\ pick[i] \in R
    <3>1. pick \in [1..N -> R]
      BY <1>2, <2>1
    <3>2. \A i \in 1..N : pick[i] \in R
      BY <3>1
    <3>3. \A i \in 1..N : trades[i].pnl \in Int
      BY <1>1, <2>1
    <3> QED
      BY <3>2, <3>3
  <2>3. ts = [i \in 1..N |-> [pnl |-> trades[i].pnl, regime |-> pick[i]]]
    BY <1>2, <2>1
  <2>4. ts \in [1..N -> T]
    BY <2>2, <2>3
  <2>5. ts \in Seq(T) /\ Len(ts) = N /\ DOMAIN ts = 1..N
    <3> HIDE DEF T
    <3> QED
      BY <2>1, <2>4
  <2> QED
    BY <1>1, <2>1, <2>3, <2>5
<1>5. DOMAIN c = DOMAIN ts
  OBVIOUS
<1>6. DOMAIN groups = Keys(c) /\ \A r \in Keys(c) : groups[r] = RowsAt(ts, At(c, r))
  BY DEF GroupBy, Select, Keys, At
<1>7. DOMAIN regimes = DOMAIN groups
      /\ \A r \in DOMAIN groups : regimes[r].trades = Len(groups[r])
                                  /\ regimes[r].avg_pnl = Mean(Pnls(groups[r]))
  BY DEF RegimePerformance
<1>8. /\ DOMAIN f = Keys(c) /\ DOMAIN g = Keys(c)
      /\ \A r \in Keys(c) : /\ f[r] = Len(RowsAt(ts, At(c, r)))
                            /\ g[r] = Mean(Pnls(RowsAt(ts, At(c, r))))[1]
  <2> HIDE DEF groups, regimes, c
  <2> QED
    BY <1>6, <1>7
<1> HIDE DEF T, c, regimes, f, g, groups
<1>9. ASSUME NEW r \in Keys(c)
      PROVE  g[r] = Total(Pnls(RowsAt(ts, At(c, r))))
  <2>1. PICK q : q = RowsAt(ts, At(c, r)) /\ q \in Seq(T) /\ Len(q) = Cardinality(At(c, r))
                 /\ IsFiniteSet(At(c, r))
    BY <1>4, <1>5, GroupParts
  <2>2. At(c, r) # {}
    BY DEF Keys, At
  <2>3. Len(q) # 0
    BY <2>1, <2>2, FS_EmptySet
  <2>4. Pnls(q) \in Seq(Int) /\ Len(Pnls(q)) = Len(q)
    BY <1>3, <2>1, PnlsParts
  <2>5. Pnls(q) # <<>>
    BY <2>3, <2>4
  <2>6. Mean(Pnls(q))[1] = Total(Pnls(q))
    BY <2>5 DEF Mean
  <2> QED
    BY <1>8, <2>1, <2>6
<1>10. Total(f) = Len(ts)
  BY <1>4, <1>5, <1>8, CountsAddUp
<1>11. Total(g) = Total(Pnls(ts))
  BY <1>3, <1>4, <1>5, <1>8, <1>9, TotalsAddUp
<1>12. Pnls(ts) = p
  <2>1. /\ Pnls(ts) \in Seq(Int) /\ Len(Pnls(ts)) = Len(p)
        /\ \A i \in DOMAIN ts : Pnls(ts)[i] = p[i]
    BY <1>1, <1>3, <1>4, PnlsParts
  <2>2. DOMAIN ts = 1..Len(p)
    BY <1>1, <1>4
  <2> QED
    BY <1>1, <2>1, <2>2, SeqEqual
<1> QED
  BY <1>1, <1>4, <1>10, <1>11, <1>12 DEF f, g, regimes

(* The tables of a window, by what they count.                              *)
LEMMA WindowTables ==
  ASSUME NEW trades, NEW now, NEW days \in Nat \ {0}
  PROVE  LET of == SinceDay(trades, now, days)
             om == SinceMoment(trades, now, days)
             costs == GetCosts(trades, now, days)
             summary == PeriodStats(trades, now, days)
             table == McpStrategyPerformance(trades, now, days)
             byStrategy == GetStrategyPerformance(trades, now, days)
         IN  /\ summary.trades = Len(Pnls(of)) /\ summary.pnl = Total(Pnls(of))
             /\ costs.total_trades = Len(of) /\ costs.gross_pnl = Total(Pnls(of))
             /\ GetTradeAnalytics(trades, now, days).trade_count =
                  IF of = <<>> THEN 0 ELSE Len(of)
             /\ \A s \in Keys(StrategiesOf(of)) :
                  costs.by_strategy[s].trades = Len(RowsAt(of, At(StrategiesOf(of), s)))
             /\ DOMAIN table = Keys(StrategiesOf(of))
             /\ \A s \in Keys(StrategiesOf(of)) :
                  table[s].trades = Len(RowsAt(of, At(StrategiesOf(of), s)))
             /\ DOMAIN byStrategy = Keys(StrategiesOf(om))
             /\ \A s \in Keys(StrategiesOf(om)) :
                  byStrategy[s].n_trades = Len(Pnls(RowsAt(om, At(StrategiesOf(om), s))))
             /\ GetSectorPerformance(trades, now, days) = SectorPerformance(om)
             /\ GetMonthlyPnl(trades, now, days) = MonthlyPnl(om)
             /\ \A regimes \in GetRegimePerformance(trades, now, days) :
                  \E ts \in WithRegime(of) : regimes = RegimePerformance(ts)
<1>1. PICK of, om : of = SinceDay(trades, now, days) /\ om = SinceMoment(trades, now, days)
  OBVIOUS
<1>2. LoadTradesFiltered(trades, now, days) = om
  BY <1>1 DEF LoadTradesFiltered
<1>3. PICK groups : groups = GroupBy(of, LAMBDA t : t.strategy)
  OBVIOUS
<1>4. /\ DOMAIN groups = Keys(StrategiesOf(of))
      /\ \A s \in Keys(StrategiesOf(of)) : groups[s] = RowsAt(of, At(StrategiesOf(of), s))
  BY <1>3 DEF GroupBy, Select, Keys, At, StrategiesOf
<1>5. PICK costs : /\ costs = GetCosts(trades, now, days)
                   /\ costs.total_trades = Len(of) /\ costs.gross_pnl = Total(Pnls(of))
                   /\ \A s \in DOMAIN groups : costs.by_strategy[s].trades = Len(groups[s])
  <2>1. PICK byCost :
          byCost = [s \in DOMAIN groups |->
                      [total_charges |-> Total(Charges(groups[s])), trades |-> Len(groups[s]),
                       gross_pnl |-> Total(Pnls(groups[s]))]]
    OBVIOUS
  <2>2. GetCosts(trades, now, days) =
          [total_charges |-> Total(Charges(of)), gross_pnl |-> Total(Pnls(of)),
           net_pnl |-> Total(Pnls(of)) - Total(Charges(of)), total_trades |-> Len(of),
           by_strategy |-> byCost]
    BY <1>1, <1>3, <2>1 DEF GetCosts
  <2>3. PICK costs : /\ costs = GetCosts(trades, now, days)
                     /\ costs.total_trades = Len(of) /\ costs.gross_pnl = Total(Pnls(of))
                     /\ costs.by_strategy = byCost
    BY <2>2
  <2>4. \A s \in DOMAIN groups : byCost[s].trades = Len(groups[s])
    BY <2>1
  <2> QED
    BY <2>3, <2>4
<1>6. PICK table : /\ table = McpStrategyPerformance(trades, now, days)
                   /\ DOMAIN table = DOMAIN groups
                   /\ \A s \in DOMAIN groups : table[s].trades = Len(groups[s])
  <2>1. PICK t : t = StrategyPerformance(of)
    OBVIOUS
  <2>2. DOMAIN t = DOMAIN groups /\ \A s \in DOMAIN groups : t[s].trades = Len(groups[s])
    <3>1. DOMAIN t = DOMAIN groups
      BY <1>4, <2>1, StrategyTables
    <3>2. ASSUME NEW s \in DOMAIN groups
          PROVE  t[s].trades = Len(groups[s])
      <4>1. PICK ts : ts = groups[s] /\ ts = RowsAt(of, At(StrategiesOf(of), s))
        BY <1>4
      <4>2. t[s] = [trades |-> Len(ts), win_rate |-> WinRate(Pnls(ts)),
                    profit_factor |-> Pf(Total(Wins(Pnls(ts))), Total(Unwon(Pnls(ts)))),
                    net_pnl |-> Total(Pnls(ts))]
        BY <1>4, <2>1, <4>1, StrategyTables
      <4> QED
        BY <4>1, <4>2
    <3> QED
      BY <3>1, <3>2
  <2>3. McpStrategyPerformance(trades, now, days) = t
    BY <1>1, <2>1 DEF McpStrategyPerformance
  <2> QED
    BY <2>2, <2>3
<1>7. PICK byStrategy :
        /\ byStrategy = GetStrategyPerformance(trades, now, days)
        /\ byStrategy = StrategyAttribution(om)
  BY <1>2 DEF GetStrategyPerformance
<1>8. /\ DOMAIN byStrategy = Keys(StrategiesOf(om))
      /\ \A s \in Keys(StrategiesOf(om)) :
           byStrategy[s] = ExtendedMetrics(RowsAt(om, At(StrategiesOf(om), s)))
  BY <1>7, StrategyTables
<1>9. \A s \in Keys(StrategiesOf(om)) :
        byStrategy[s].n_trades = Len(Pnls(RowsAt(om, At(StrategiesOf(om), s))))
  BY <1>8, MetricsTotals
<1>10. GetTradeAnalytics(trades, now, days).trade_count = IF of = <<>> THEN 0 ELSE Len(of)
  BY <1>1 DEF GetTradeAnalytics, TradeAnalytics
<1>11. PICK summary : /\ summary = PeriodStats(trades, now, days)
                      /\ summary.trades = Len(Pnls(of)) /\ summary.pnl = Total(Pnls(of))
  <2>1. PeriodStats(trades, now, days) =
          [trades |-> Len(Pnls(of)), pnl |-> Total(Pnls(of)), win_rate |-> WinRate(Pnls(of))]
    BY <1>1 DEF PeriodStats
  <2> QED
    BY <2>1
<1>12. /\ GetSectorPerformance(trades, now, days) = SectorPerformance(om)
       /\ GetMonthlyPnl(trades, now, days) = MonthlyPnl(om)
  BY <1>2 DEF GetSectorPerformance, GetMonthlyPnl
<1>13. \A regimes \in GetRegimePerformance(trades, now, days) :
         \E ts \in WithRegime(of) : regimes = RegimePerformance(ts)
  BY <1>1 DEF GetRegimePerformance
<1> QED
  BY <1>1, <1>4, <1>5, <1>6, <1>7, <1>8, <1>9, <1>10, <1>11, <1>12, <1>13


(* The reports of one window, and of the one it lies in.                    *)
LEMMA WindowsAgree ==
  ASSUME NEW trades \in Seq(ClosedTrade), NEW now \in Int \X Int, NEW days \in Nat \ {0}
  PROVE  Nested(trades, now, days)
<1>1. PICK D, H, F : /\ D = DaysOf(trades, now, days) /\ H = HoursOf(trades, now, days)
                     /\ F = FirstDayOf(trades, now, days)
  OBVIOUS
<1>2. D \in SUBSET DOMAIN trades /\ H \in SUBSET D /\ F \in SUBSET DOMAIN trades
      /\ H \in SUBSET DOMAIN trades
  BY <1>1, HoursWithinDays
<1>3. PICK of, om, first :
        /\ of = RowsAt(trades, D) /\ om = RowsAt(trades, H) /\ first = RowsAt(trades, F)
        /\ of = SinceDay(trades, now, days) /\ om = SinceMoment(trades, now, days)
        /\ first = Select(trades, LAMBDA t : t.closed = now[1] - days)
  <2>1. SinceDay(trades, now, days) = RowsAt(trades, D)
    BY <1>1, PlacesOfWindows
  <2>2. SinceMoment(trades, now, days) = RowsAt(trades, H)
    BY <1>1, PlacesOfWindows
  <2>3. Select(trades, LAMBDA t : t.closed = now[1] - days) = RowsAt(trades, F)
    BY <1>1, PlacesOfWindows
  <2> QED
    BY <2>1, <2>2, <2>3
<1>4. /\ of \in Seq(ClosedTrade) /\ Len(of) = Cardinality(D)
      /\ om \in Seq(ClosedTrade) /\ Len(om) = Cardinality(H)
      /\ Len(first) = Cardinality(F)
  <2>1. of \in Seq(ClosedTrade) /\ Len(of) = Cardinality(D)
    BY <1>2, <1>3, RowsAtParts
  <2>2. om \in Seq(ClosedTrade) /\ Len(om) = Cardinality(H)
    BY <1>2, <1>3, RowsAtParts
  <2>3. Len(first) = Cardinality(F)
    BY <1>2, <1>3, RowsAtParts
  <2> QED
    BY <2>1, <2>2, <2>3
<1>5. /\ Len(of) \in Nat /\ Len(om) \in Nat /\ Len(first) \in Nat
      /\ Len(om) <= Len(of) /\ Len(of) <= Len(om) + Len(first)
  BY <1>1, <1>4, WindowSizes
<1>6. Len(Pnls(of)) = Len(of)
  BY <1>4, TradesHavePnl, PnlsParts
<1>7. PICK costs, summary, table, byStrategy :
        /\ costs = GetCosts(trades, now, days) /\ summary = PeriodStats(trades, now, days)
        /\ table = McpStrategyPerformance(trades, now, days)
        /\ byStrategy = GetStrategyPerformance(trades, now, days)
  OBVIOUS
<1>8. /\ summary.trades = Len(of) /\ summary.pnl = Total(Pnls(of))
      /\ costs.total_trades = Len(of) /\ costs.gross_pnl = Total(Pnls(of))
  BY <1>3, <1>6, <1>7, WindowTables
<1>9. GetTradeAnalytics(trades, now, days).trade_count = Len(of)
  <2>1. GetTradeAnalytics(trades, now, days).trade_count = IF of = <<>> THEN 0 ELSE Len(of)
    BY <1>3, WindowTables
  <2>2. of = <<>> => Len(of) = 0
    OBVIOUS
  <2> QED
    BY <2>1, <2>2
<1>10. \A s \in DOMAIN table : table[s].trades = costs.by_strategy[s].trades
  <2>1. /\ DOMAIN table = Keys(StrategiesOf(of))
        /\ \A s \in Keys(StrategiesOf(of)) :
             table[s].trades = Len(RowsAt(of, At(StrategiesOf(of), s)))
    BY <1>3, <1>7, WindowTables
  <2>2. \A s \in Keys(StrategiesOf(of)) :
          costs.by_strategy[s].trades = Len(RowsAt(of, At(StrategiesOf(of), s)))
    BY <1>3, <1>7, WindowTables
  <2> QED
    BY <2>1, <2>2
<1>11. ASSUME NEW s \in DOMAIN byStrategy
       PROVE  byStrategy[s].n_trades <= costs.by_strategy[s].trades
  <2>1. /\ s \in Keys(StrategiesOf(om))
        /\ byStrategy[s].n_trades = Len(Pnls(RowsAt(om, At(StrategiesOf(om), s))))
    BY <1>3, <1>7, WindowTables
  <2>2. /\ s \in Keys(StrategiesOf(of))
        /\ Len(RowsAt(om, At(StrategiesOf(om), s)))
             <= Len(RowsAt(of, At(StrategiesOf(of), s)))
    BY <1>2, <1>3, <2>1, StrategiesNest
  <2>3. costs.by_strategy[s].trades = Len(RowsAt(of, At(StrategiesOf(of), s)))
    BY <1>3, <1>7, <2>2, WindowTables
  <2>4. Len(Pnls(RowsAt(om, At(StrategiesOf(om), s)))) =
          Len(RowsAt(om, At(StrategiesOf(om), s)))
    <3>1. RowsAt(om, At(StrategiesOf(om), s)) \in Seq(ClosedTrade)
      BY <1>4, KeyOfEach, GroupParts
    <3> QED
      BY <3>1, TradesHavePnl, PnlsParts
  <2> QED
    BY <2>1, <2>2, <2>3, <2>4
<1>12. PICK sectors, months :
         /\ sectors = GetSectorPerformance(trades, now, days)
         /\ months = GetMonthlyPnl(trades, now, days)
         /\ sectors = SectorPerformance(om) /\ months = MonthlyPnl(om)
  BY <1>3, WindowTables
<1>13. /\ Total([s \in DOMAIN sectors |-> sectors[s].n_trades]) = Len(om)
       /\ Total([m \in DOMAIN months |-> months[m].n_trades]) = Len(om)
  BY <1>4, <1>12, SectorsAddUp
<1>14. Len(om) \in (Len(of) - Len(first))..Len(of)
  BY <1>5
<1>15. ASSUME NEW regimes \in GetRegimePerformance(trades, now, days)
       PROVE  /\ Total([r \in DOMAIN regimes |-> regimes[r].trades]) = Len(of)
              /\ Total([r \in DOMAIN regimes |-> regimes[r].avg_pnl[1]]) = Total(Pnls(of))
  <2>1. PICK ts \in WithRegime(of) : regimes = RegimePerformance(ts)
    BY <1>3, WindowTables
  <2> QED
    BY <1>4, <2>1, RegimesAddUp
<1> QED
  BY <1>3, <1>7, <1>8, <1>9, <1>10, <1>11, <1>12, <1>13, <1>14, <1>15 DEF Nested


-----------------------------------------------------------------------------
(* The trades of a validation, in the order of closing                      *)

WindowDays == WindowMonths * DaysPerMonth
Opens(i) == ranges[i].start * DaysPerMonth

(* A window opens when the one before it is over.                           *)
LEMMA WindowsApart ==
  ASSUME WindowsInv
  PROVE  /\ WindowDays \in Nat
         /\ \A i \in DOMAIN windows : i \in Int /\ Opens(i) \in Nat
         /\ \A i, j \in DOMAIN windows : i < j => Opens(i) + WindowDays <= Opens(j)
<1> DEFINE W == WindowMonths
           D == DaysPerMonth
<1>1. W \in Nat /\ D \in Nat
  BY WalkForwardAssumption, AnalyticsAssumption
<1>2. PICK a \in Nat : a = WindowDays
  <2> HIDE DEF W, D
  <2>1. W * D \in Nat
    BY <1>1, Z3
  <2> QED
    BY <2>1 DEF WindowDays, W, D
<1>3. ASSUME NEW i \in DOMAIN windows
      PROVE  i \in Nat \ {0} /\ ranges[i].start = (i - 1) * W
  <2>1. wf # Idle
    BY NoWindows DEF WindowsInv
  <2>2. PICK years \in Years : ranges = DateRanges(years)
    BY <2>1 DEF WindowsInv
  <2> DEFINE n == (years * MonthsPerYear + W - 1) \div W
  <2>3. i \in 1..n /\ ranges[i].start = (i - 1) * W
    <3>1. i \in DOMAIN ranges
      BY DEF WindowsInv
    <3> QED
      BY <2>2, <3>1 DEF DateRanges
  <2> HIDE DEF n
  <2>4. i \in Nat \ {0}
    BY <2>3
  <2> QED
    BY <2>3, <2>4
<1>4. ASSUME NEW i \in DOMAIN windows
      PROVE  i \in Nat \ {0} /\ Opens(i) = (i - 1) * a /\ Opens(i) \in Nat
  <2>1. i \in Nat \ {0} /\ ranges[i].start = (i - 1) * W
    BY <1>3
  <2>2. PICK k \in Nat : k = i - 1
    BY <2>1
  <2>3. (k * W) * D = k * (W * D) /\ k * (W * D) \in Nat
    <3> HIDE DEF W, D
    <3> QED
      BY <1>1, Z3
  <2> QED
    BY <1>2, <2>1, <2>2, <2>3 DEF Opens, WindowDays
<1>5. ASSUME NEW i \in DOMAIN windows, NEW j \in DOMAIN windows, i < j
      PROVE  Opens(i) + a <= Opens(j)
  <2>1. PICK k \in Nat, l \in Nat : k = i - 1 /\ l = j - 1 /\ k + 1 <= l
    <3>1. i \in Nat \ {0} /\ j \in Nat \ {0}
      BY <1>4
    <3>2. i - 1 \in Nat /\ j - 1 \in Nat /\ (i - 1) + 1 <= j - 1
      BY <1>5, <3>1
    <3> QED
      BY <3>2
  <2>2. k * a + a <= l * a
    BY <2>1, Z3
  <2>3. Opens(i) = k * a /\ Opens(j) = l * a
    BY <1>4, <2>1
  <2> QED
    BY <2>2, <2>3
<1> QED
  BY <1>2, <1>4, <1>5

(* The trades of a window close in it, one after the other.                 *)
LEMMA TradesOfParts ==
  ASSUME WindowsInv, ResultsInv, NEW i \in DOMAIN windows
  PROVE  /\ TradesOf(i) \in Seq(ClosedTrade) /\ InClosingOrder(TradesOf(i))
         /\ \A k \in DOMAIN TradesOf(i) :
              Opens(i) <= TradesOf(i)[k].closed /\ TradesOf(i)[k].closed <= Opens(i) + WindowDays
<1>1. PICK s, o, w : /\ s = windows[i].trades /\ o = Opens(i) /\ w = WindowDays
                     /\ o \in Nat /\ w \in Nat
  BY WindowsApart
<1>2. PICK N \in Nat : /\ s \in Seq(ClosedTrade) /\ N = Len(s) /\ DOMAIN s = 1..N
  BY <1>1, ResultsAssumption DEF ResultsInv
<1>3. /\ \A k \in 1..N : s[k].closed <= w
      /\ \A k, j \in 1..N : j <= k => s[j].closed <= s[k].closed
  <2>1. PICK result : result = windows[i] /\ result \in Results \ {NoBars} /\ s = result.trades
    BY <1>1 DEF ResultsInv
  <2>2. \A k \in DOMAIN s : /\ s[k].closed <= w
                            /\ \A j \in 1..k : s[j].closed <= s[k].closed
    BY <1>1, <2>1, ResultsAssumption DEF WindowDays
  <2> QED
    BY <1>2, <2>2
<1>4. PICK t : t = TradesOf(i)
  OBVIOUS
<1>5. t = [k \in 1..N |-> [s[k] EXCEPT !.closed = @ + o]]
  BY <1>1, <1>2, <1>4 DEF TradesOf, Opens
<1>6. ASSUME NEW k \in 1..N
      PROVE  /\ t[k] \in ClosedTrade /\ t[k].closed = s[k].closed + o
             /\ s[k].closed \in Nat
  <2>1. PICK r : r = s[k] /\ r \in ClosedTrade
    BY <1>2
  <2>2. r.closed \in Nat /\ r.closed + o \in Nat
    BY <1>1, <2>1 DEF ClosedTrade
  <2>3. t[k] = [r EXCEPT !.closed = @ + o]
    BY <1>5, <2>1
  <2> QED
    BY <2>1, <2>2, <2>3 DEF ClosedTrade
<1>7. t \in Seq(ClosedTrade) /\ DOMAIN t = 1..N
  <2>1. DOMAIN t = 1..N /\ \A k \in 1..N : t[k] \in ClosedTrade
    BY <1>5, <1>6
  <2>2. t \in [1..N -> ClosedTrade]
    BY <1>5, <2>1
  <2> QED
    BY <1>2, <2>1, <2>2
<1>8. \A k \in 1..N : o <= t[k].closed /\ t[k].closed <= o + w
  BY <1>1, <1>3, <1>6
<1>9. \A k, j \in 1..N : j <= k => t[j].closed <= t[k].closed
  BY <1>1, <1>3, <1>6
<1> QED
  BY <1>1, <1>4, <1>7, <1>8, <1>9 DEF InClosingOrder

(* What has closed before the windows that are still to come.               *)
Chains(n, N) ==
  {s \in Seq(ClosedTrade) :
     /\ InClosingOrder(s)
     /\ \A k \in DOMAIN s, m \in (n + 1)..N : s[k].closed <= Opens(InOrder[m])}

(* Another window closes its trades after all that came before.             *)
LEMMA ChainGrows ==
  ASSUME WindowsInv, ResultsInv, NEW N \in Nat, InOrder \in [1..N -> DOMAIN windows],
         \A k, l \in 1..N : k < l => InOrder[k] < InOrder[l],
         NEW n \in 1..N, NEW s \in Chains(n - 1, N)
  PROVE  s \o TradesOf(InOrder[n]) \in Chains(n, N)
<1>1. PICK i, t : i = InOrder[n] /\ i \in DOMAIN windows /\ t = TradesOf(i)
  OBVIOUS
<1>2. PICK o, w : o = Opens(i) /\ w = WindowDays /\ o \in Nat /\ w \in Nat
  BY <1>1, WindowsApart
<1>3. /\ t \in Seq(ClosedTrade) /\ InClosingOrder(t)
      /\ \A k \in DOMAIN t : o <= t[k].closed /\ t[k].closed <= o + w
  BY <1>1, <1>2, TradesOfParts
<1>4. s \in Seq(ClosedTrade) /\ InClosingOrder(s)
      /\ \A k \in DOMAIN s, m \in n..N : s[k].closed <= Opens(InOrder[m])
  <2>1. (n - 1) + 1 = n
    OBVIOUS
  <2> QED
    BY <2>1 DEF Chains
<1>5. \A r \in ClosedTrade : r.closed \in Nat
  BY DEF ClosedTrade
<1>6. PICK a \in Nat, b \in Nat : a = Len(s) /\ b = Len(t) /\ DOMAIN s = 1..a /\ DOMAIN t = 1..b
  BY <1>3, <1>4
<1>7. PICK c : /\ c = s \o t /\ c \in Seq(ClosedTrade) /\ DOMAIN c = 1..(a + b)
               /\ \A k \in 1..a : c[k] = s[k]
               /\ \A k \in 1..(a + b) : k > a => k - a \in 1..b /\ c[k] = t[k - a]
  <2>1. s \o t \in Seq(ClosedTrade) /\ Len(s \o t) = a + b
        /\ \A k \in 1..(a + b) : (s \o t)[k] = IF k <= a THEN s[k] ELSE t[k - a]
    BY <1>3, <1>4, <1>6
  <2>2. \A k \in 1..a : k \in 1..(a + b) /\ k <= a
    BY <1>6
  <2>3. \A k \in 1..(a + b) : k > a => k - a \in 1..b /\ ~(k <= a)
    BY <1>6
  <2>4. DOMAIN (s \o t) = 1..(a + b)
    BY <2>1
  <2> QED
    BY <2>1, <2>2, <2>3, <2>4
<1>8. \A k \in 1..a : s[k].closed \in Nat /\ s[k].closed <= o
  <2>1. n \in n..N
    OBVIOUS
  <2>2. \A k \in 1..a : s[k] \in ClosedTrade
    BY <1>4, <1>6
  <2> QED
    BY <1>1, <1>2, <1>4, <1>5, <1>6, <2>1, <2>2
<1>9. \A k \in 1..b : t[k].closed \in Nat /\ o <= t[k].closed /\ t[k].closed <= o + w
  <2>1. \A k \in 1..b : t[k] \in ClosedTrade
    BY <1>3, <1>6
  <2> QED
    BY <1>3, <1>5, <1>6, <2>1
<1>10. ASSUME NEW k \in 1..(a + b), NEW l \in 1..(a + b), k <= l
       PROVE  c[k].closed <= c[l].closed
  <2>1. CASE l <= a
    <3>1. k \in 1..a /\ l \in 1..a
      BY <1>6, <1>10, <2>1
    <3>2. s[k].closed <= s[l].closed
      BY <1>4, <1>6, <1>10, <3>1 DEF InClosingOrder
    <3> QED
      BY <1>7, <3>1, <3>2
  <2>2. CASE k <= a /\ l > a
    <3>1. k \in 1..a
      BY <1>6, <2>2
    <3>2. c[k] = s[k] /\ l - a \in 1..b /\ c[l] = t[l - a]
      BY <1>7, <2>2, <3>1
    <3>3. PICK x, y : /\ x = s[k].closed /\ y = t[l - a].closed
                      /\ x \in Nat /\ y \in Nat /\ x <= o /\ o <= y
      BY <1>8, <1>9, <3>1, <3>2
    <3>4. x <= y
      BY <1>2, <3>3
    <3> QED
      BY <3>2, <3>3, <3>4
  <2>3. CASE k > a
    <3>1. k - a \in 1..b /\ l - a \in 1..b /\ k - a <= l - a
      BY <1>6, <1>7, <1>10, <2>3
    <3>2. c[k] = t[k - a] /\ c[l] = t[l - a]
      BY <1>6, <1>7, <1>10, <2>3
    <3> QED
      BY <1>3, <1>6, <3>1, <3>2 DEF InClosingOrder
  <2> QED
    BY <1>6, <1>10, <2>1, <2>2, <2>3
<1>11. ASSUME NEW k \in 1..(a + b), NEW m \in (n + 1)..N
       PROVE  c[k].closed <= Opens(InOrder[m])
  <2>1. m \in 1..N /\ n < m /\ m \in n..N
    OBVIOUS
  <2>2. PICK p : p = Opens(InOrder[m]) /\ p \in Nat /\ o + w <= p
    <3>1. PICK j : j = InOrder[m] /\ j \in DOMAIN windows /\ i < j
      BY <1>1, <2>1
    <3> QED
      BY <1>1, <1>2, <3>1, WindowsApart
  <2>3. CASE k <= a
    <3>1. k \in 1..a
      BY <1>6, <2>3
    <3> QED
      BY <1>4, <1>6, <1>7, <2>1, <3>1
  <2>4. CASE k > a
    <3>1. k - a \in 1..b /\ c[k] = t[k - a]
      BY <1>7, <2>4
    <3>2. PICK x : x = t[k - a].closed /\ x \in Nat /\ x <= o + w
      BY <1>9, <3>1
    <3>3. x <= p
      BY <1>2, <2>2, <3>2
    <3> QED
      BY <2>2, <3>1, <3>2, <3>3
  <2> QED
    BY <1>6, <2>3, <2>4
<1> QED
  BY <1>1, <1>7, <1>10, <1>11 DEF Chains, InClosingOrder


(* The windows' trades are appended one window after the other.             *)
LEMMA TradesInOrder ==
  ASSUME WindowsInv, ResultsInv
  PROVE  AllTrades \in Seq(ClosedTrade) /\ InClosingOrder(AllTrades)
<1>1. PICK N \in Nat : /\ InOrder \in [1..N -> DOMAIN windows] /\ DOMAIN InOrder = 1..N
                       /\ \A k, l \in 1..N : k < l => InOrder[k] < InOrder[l]
  <2>1. DOMAIN windows \in SUBSET Int /\ IsFiniteSet(DOMAIN windows)
    BY ResultsAreCurves DEF CurvesFine
  <2>2. PICK n, a : n = Cardinality(DOMAIN windows) /\ a = Ascending(DOMAIN windows)
    OBVIOUS
  <2>3. /\ n \in Nat /\ a \in [1..n -> DOMAIN windows]
        /\ \A k, l \in 1..n : k < l => a[k] < a[l]
    BY <2>1, <2>2, AscendingCovers
  <2>4. InOrder = a /\ DOMAIN a = 1..n
    BY <2>2, <2>3 DEF InOrder
  <2> QED
    BY <2>3, <2>4
<1> DEFINE Acc == Seq(ClosedTrade)
           Chain(s, i) == s \o TradesOf(i)
           step == [p \in Acc \X (1..N) |-> Chain(p[1], InOrder[p[2]])]
           Solves(g) == g = [s \in SUBSET (1..N) |->
                               IF s = {} THEN <<>>
                               ELSE Chain(g[s \ {Greatest(s)}], InOrder[Greatest(s)])]
<1>2. ASSUME NEW c \in Acc, NEW n \in 1..N
      PROVE  Chain(c, InOrder[n]) \in Acc
  <2>1. PICK i : i = InOrder[n] /\ i \in DOMAIN windows
    BY <1>1
  <2>2. PICK t : t = TradesOf(i) /\ t \in Acc
    BY <2>1, TradesOfParts
  <2>3. c \o t \in Acc
    BY <2>2
  <2> QED
    BY <2>1, <2>2, <2>3
<1> HIDE DEF Acc, Chain
<1>3. step \in [Acc \X (1..N) -> Acc]
  BY <1>2
<1>4. <<>> \in Acc
  BY DEF Acc
<1>5. PICK g \in [SUBSET (1..N) -> Acc] : FoldsBy(g, N, <<>>, step)
  <2> HIDE DEF step
  <2> QED
    BY <1>3, <1>4, FoldSolved
<1>6. Solves(g)
  <2>1. ASSUME NEW s \in SUBSET (1..N), s # {}
        PROVE  step[<<g[s \ {Greatest(s)}], Greatest(s)>>]
                 = Chain(g[s \ {Greatest(s)}], InOrder[Greatest(s)])
    <3>1. Greatest(s) \in 1..N
      BY <2>1, GreatestIsElement
    <3>2. g[s \ {Greatest(s)}] \in Acc
      OBVIOUS
    <3> QED
      BY <3>1, <3>2
  <2> HIDE DEF step
  <2> QED
    BY <1>5, <2>1 DEF FoldsBy
<1>7. AllTrades = (CHOOSE f : Solves(f))[1..N]
  BY <1>1 DEF AllTrades, FoldLeft, MapThenFoldSet, Max, Greatest, Chain
<1>8. PICK f : Solves(f) /\ AllTrades = f[1..N]
  <2> HIDE DEF Solves
  <2> QED
    BY <1>6, <1>7
<1> DEFINE h == [n \in 0..N |-> f[1..n]]
<1>9. h[0] = <<>> /\ h[N] = AllTrades
  <2>1. 1..0 = {} /\ 1..0 \in SUBSET (1..N) /\ 0 \in 0..N /\ N \in 0..N
    OBVIOUS
  <2> QED
    BY <1>8, <2>1
<1>10. ASSUME NEW n \in 1..N
       PROVE  h[n] = Chain(h[n - 1], InOrder[n])
  <2>1. f[1..n] = Chain(f[(1..n) \ {Greatest(1..n)}], InOrder[Greatest(1..n)])
    <3> HIDE DEF Greatest
    <3> QED
      BY <1>8, FoldPrefix
  <2> QED
    BY <2>1, FoldPrefix
<1> HIDE DEF h
<1> DEFINE C == {n \in 0..N : h[n] \in Chains(n, N)}
<1>11. 0 \in C
  <2>1. <<>> \in Seq(ClosedTrade) /\ DOMAIN <<>> = {}
    OBVIOUS
  <2>2. <<>> \in Chains(0, N)
    BY <2>1 DEF Chains, InClosingOrder
  <2> QED
    BY <1>9, <2>2
<1>12. ASSUME NEW n \in 1..N, n - 1 \in C
       PROVE  n \in C
  <2>1. h[n - 1] \in Chains(n - 1, N) /\ n \in 0..N
    BY <1>12
  <2>2. h[n - 1] \o TradesOf(InOrder[n]) \in Chains(n, N)
    BY <1>1, <2>1, ChainGrows
  <2> QED
    BY <1>10, <2>1, <2>2 DEF Chain
<1>13. \A n \in 0..N : n \in C
  <2> HIDE DEF C
  <2> QED
    BY <1>11, <1>12, IntervalCovered
<1>14. h[N] \in Chains(N, N)
  <2>1. N \in 0..N
    OBVIOUS
  <2> QED
    BY <1>13, <2>1
<1> QED
  BY <1>9, <1>14 DEF Chains


-----------------------------------------------------------------------------
(* What the reports say of a list of trades                                 *)

(* Of the trades of a validation: the tables.                               *)
LEMMA NumbersAreSame ==
  ASSUME AllTrades \in Seq(ClosedTrade)
  PROVE  SameNumbers
<1>1. PICK trades, table, attribution, eod :
        /\ trades = AllTrades
        /\ table = StrategyPerformance(trades) /\ attribution = StrategyAttribution(trades)
        /\ eod = ReportStrategyPerf(trades)
  OBVIOUS
<1>2. /\ DOMAIN table = Keys(StrategiesOf(trades))
      /\ DOMAIN attribution = DOMAIN table /\ DOMAIN eod = DOMAIN table
  BY <1>1, StrategyTables
<1>3. ASSUME NEW s \in DOMAIN table
      PROVE  /\ table[s].win_rate = attribution[s].win_rate
             /\ table[s].win_rate = eod[s].win_rate
             /\ table[s].net_pnl = eod[s].net_pnl
             /\ table[s].net_pnl = attribution[s].total_pnl
             /\ eod[s].profit_factor = attribution[s].profit_factor
             /\ attribution[s].largest_loss < 0 => table[s].profit_factor = eod[s].profit_factor
  BY <1>1, <1>2, StrategiesAgree
<1>4. \A a, b : a = b => Same(a, b)
  BY DEF Same
<1>5. ASSUME NEW s \in DOMAIN table
      PROVE  /\ Same(table[s].win_rate, attribution[s].win_rate)
             /\ Same(table[s].win_rate, eod[s].win_rate)
             /\ table[s].net_pnl = eod[s].net_pnl
             /\ table[s].net_pnl = attribution[s].total_pnl
             /\ Same(eod[s].profit_factor, attribution[s].profit_factor)
             /\ attribution[s].largest_loss < 0 =>
                  Same(table[s].profit_factor, eod[s].profit_factor)
  BY <1>3, <1>4
<1>6. MonthlySummary(trades) = MonthlyPnl(trades)
  BY <1>1, MonthsAgree
<1> QED
  BY <1>1, <1>2, <1>5, <1>6 DEF SameNumbers, Reported

(* The drawdowns.                                                           *)
LEMMA DrawdownsAgree ==
  ASSUME AllTrades \in Seq(ClosedTrade)
  PROVE  EpisodesCoverDrawdown
<1>1. PICK trades, c, days, p :
        /\ trades = AllTrades /\ trades \in Seq(ClosedTrade) /\ p = Pnls(trades)
        /\ c = ClosedOf(trades) /\ days = TradingDays(trades)
  OBVIOUS
<1>2. PICK D \in Nat : Calendar(days, D)
  <2>1. PICK D \in Nat : /\ days \in [1..D -> Nat]
                         /\ \A k, l \in 1..D : k < l => days[k] < days[l]
    BY <1>1, TradingDaysParts
  <2> QED
    BY <2>1 DEF Calendar
<1>3. EquityCurve(trades) \in Seq(Int)
  BY <1>1, <1>2, CurveIsSums
<1>4. PICK curve : curve = EquityCurve(trades) /\ curve \in Seq(Int)
  BY <1>3
<1>5. LET episodes == Episodes(curve)
      IN  /\ Total([k \in DOMAIN episodes |-> episodes[k].length])
               = Cardinality({i \in DOMAIN curve : Underwater(curve, i)[1] > 0})
          /\ Same(MaxDdPct(curve), GreatestOf([k \in DOMAIN episodes |-> episodes[k].worst]))
  BY <1>4, EpisodesAgree
<1> QED
  BY <1>1, <1>4, <1>5 DEF EpisodesCoverDrawdown, Reported

(* What is written between the two queries of a page.                       *)
UnreadAfter(n, trades, limit, offset) ==
  LET page   == ApiPage(n, trades, limit, offset)
      unread == Len(trades) - (page.offset + Len(page.data))
  IN  IF page.has_more THEN unread > 0 ELSE unread <= Len(trades) - n

(* It hides at most as many rows, and has_more has a row to follow.         *)
LEMMA InsertionsHideAsMany ==
  ASSUME NEW T, NEW rows \in Seq(T), NEW limit \in Int,
         NEW n \in 0..Len(rows), NEW offset \in 0..Len(rows)
  PROVE  UnreadAfter(n, rows, limit, offset)
<1>1. PICK quiet, page : /\ quiet = QuietPage(rows, limit, offset)
                         /\ page = ApiPage(n, rows, limit, offset)
  OBVIOUS
<1>2. PICK to \in offset..Len(rows) : Len(quiet.data) = to - offset
  BY ONLY rows \in Seq(T), limit \in Int, offset \in 0..Len(rows), <1>1, PageParts
<1>3. /\ page.data = quiet.data /\ page.offset = offset
      /\ page.has_more = (offset + Len(page.data) < n)
  <2>1. (IF offset < 0 THEN 0 ELSE offset) = offset
    OBVIOUS
  <2> QED
    BY <1>1, <2>1 DEF QuietPage, ApiPage, Page
<1>4. PICK read \in Nat, N \in Nat : /\ read = offset + Len(page.data)
                                     /\ N = Len(rows) /\ n \in Nat /\ n <= N
  BY <1>2, <1>3
<1>5. IF read < n THEN N - read > 0 ELSE N - read <= N - n
  <2>1. n \in Nat /\ n <= N /\ read \in Nat /\ N \in Nat
    BY <1>4
  <2> QED
    BY ONLY <2>1
<1> QED
  BY ONLY <1>1, <1>3, <1>4, <1>5 DEF UnreadAfter

(* The pages.                                                               *)
LEMMA PagesAreComplete ==
  ASSUME AllTrades \in Seq(ClosedTrade)
  PROVE  PagesComplete
<1> SUFFICES ASSUME AllTrades # <<>>, NEW limit \in 0..(MaxPage + 1)
             PROVE  /\ FollowPages(AllTrades, limit) = Reverse(AllTrades)
                    /\ \A n \in 1..Len(AllTrades) :
                         LET before == SubSeq(AllTrades, 1, n)
                             first  == QuietPage(before, limit, 0)
                             second == QuietPage(AllTrades, limit, Len(first.data))
                         IN  IsSuffix(SubSeq(Reverse(before), Len(first.data) + 1, n),
                                      SubSeq(Reverse(AllTrades), second.offset + 1, second.total))
                    /\ \A n \in 0..Len(AllTrades), offset \in 0..Len(AllTrades) :
                         UnreadAfter(n, AllTrades, limit, offset)
  BY DEF PagesComplete, Reported, UnreadAfter
<1>1. PICK trades, N : /\ trades = AllTrades /\ trades \in Seq(ClosedTrade)
                       /\ trades # <<>> /\ N = Len(trades) /\ N \in Nat
  OBVIOUS
<1>2. limit \in Int
  BY ReportsAssumption
<1>3. FollowPages(trades, limit) = Reverse(trades)
  BY <1>1, <1>2, EverythingIsRead
<1>4. ASSUME NEW n \in 1..N
      PROVE  LET before == SubSeq(trades, 1, n)
                 first  == QuietPage(before, limit, 0)
                 second == QuietPage(trades, limit, Len(first.data))
             IN  IsSuffix(SubSeq(Reverse(before), Len(first.data) + 1, n),
                          SubSeq(Reverse(trades), second.offset + 1, second.total))
  BY <1>1, <1>2, NothingHidden
<1>5. \A n \in 0..Len(trades), offset \in 0..Len(trades) :
        UnreadAfter(n, trades, limit, offset)
  BY ONLY <1>1, <1>2, InsertionsHideAsMany
<1> QED
  BY <1>1, <1>3, <1>4, <1>5

(* The windows of days.                                                     *)
LEMMA WindowsAreNested ==
  ASSUME AllTrades \in Seq(ClosedTrade)
  PROVE  WindowsNest
<1>1. ASSUME AllTrades # <<>>,
             NEW now \in {Last(AllTrades).closed, Last(AllTrades).closed + 1} \X {0, 1},
             NEW days \in 1..2
      PROVE  Nested(AllTrades, now, days)
  <2>1. Last(AllTrades) \in ClosedTrade
    BY <1>1 DEF Last
  <2>2. Last(AllTrades).closed \in Int
    BY <2>1 DEF ClosedTrade
  <2>3. now \in Int \X Int /\ days \in Nat \ {0}
    BY <2>2
  <2> QED
    BY <2>3, WindowsAgree
<1> QED
  BY <1>1 DEF WindowsNest, Reported, Nested

(* The trades of a validation are such a list.                              *)
LEMMA TradesAreReported ==
  ASSUME WindowsInv, ResultsInv
  PROVE  ReportsAgree
<1>1. AllTrades \in Seq(ClosedTrade) /\ InClosingOrder(AllTrades)
  BY TradesInOrder
<1>2. NothingUnattributed
  BY <1>1, AllAttributed DEF NothingUnattributed, Reported
<1>3. StreakWithinLongest
  BY <1>1, StreaksAgree DEF StreakWithinLongest, Reported
<1>4. ScanBoundsDaily
  BY <1>1, ScanBounds DEF ScanBoundsDaily, Reported
<1> QED
  BY <1>1, <1>2, <1>3, <1>4, NumbersAreSame, DrawdownsAgree, PagesAreComplete,
     WindowsAreNested, SignalsAgree
     DEF ReportsAgree

(* Whatever the validation and the order its windows finish in, the reports *)
(* agree on its trades: five tables by strategy and two by month have the   *)
(* same numbers, four ways to attribute the trades lose none, no streak     *)
(* exceeds the longest, the episodes of a drawdown account for it, the      *)
(* pages show every trade once and a trade that closes between two of them  *)
(* hides none, and the windows of days lie in one another                   *)
(* (core/analytics/metrics.py, performance_report.py, api/main.py,          *)
(* mcp_server/tools.py).                                                    *)
THEOREM ReportsAreAlike == WalkForwardSpec => []ReportsAgree
<1>1. WalkForwardInit => ResultsInv
  BY NoWindows DEF WalkForwardInit, ResultsInv
<1>2. ResultsInv /\ [WalkForwardNext]_wfVars => ResultsInv'
  BY ResultsStep
<1>3. WalkForwardSpec => []ResultsInv
  BY <1>1, <1>2, PTL DEF WalkForwardSpec
<1>4. ResultsInv /\ WindowsAccounted => ReportsAgree
  BY TradesAreReported DEF WindowsAccounted
<1> QED
  BY <1>3, <1>4, EveryWindowCounts, PTL
=============================================================================
