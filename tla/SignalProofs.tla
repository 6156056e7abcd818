------------------------------ MODULE SignalProofs ------------------------------
(***************************************************************************)
(* Proofs about the signals, for every series of bars, every length of the  *)
(* periods in their order, every account and every limit: what the fifteen  *)
(* strategies hand on can be traded as it is, what was sized is never       *)
(* rejected for its size, and the stored checklist names the rule that      *)
(* rejected.                                                                *)
(***************************************************************************)
EXTENDS SignalProps, SumTheorems, TLAPS

-----------------------------------------------------------------------------
(* Sizing and the limits                                                    *)

(* A whole number of units that fits in a budget costs at most the budget.  *)
LEMMA FloorFits ==
  ASSUME NEW budget \in Int, NEW unit \in Int, unit > 0,
         NEW qty \in Int, qty <= budget \div unit
  PROVE  qty * unit <= budget
  <1>1. (budget \div unit) * unit <= budget
    BY Z3
  <1>2. qty * unit <= (budget \div unit) * unit
    BY Z3
  <1> QED
    BY <1>1, <1>2, Z3

(* One unit more than fits costs more than the budget.                      *)
LEMMA FloorIsTight ==
  ASSUME NEW budget \in Int, NEW unit \in Int, unit > 0,
         NEW qty \in Int, qty = budget \div unit
  PROVE  (qty + 1) * unit > budget
  BY Z3

(* The types that sizing relies on survive every change of the equity.      *)
THEOREM SizingTyped == SizingSpec => []SizingInv
  <1>1. SizingInit => SizingInv
    BY SizingAssumption DEF SizingInit, SizingInv
  <1>2. SizingInv /\ [Gain \/ Lose \/ Offer]_sizing => SizingInv'
    BY SizingAssumption DEF SizingInv, Gain, Lose, Offer, sizing
  <1> QED
    BY <1>1, <1>2, PTL DEF SizingSpec

(* What sizing takes for granted of an order.                               *)
Sizeable ==
  /\ equity \in Int
  /\ signal.entry \in Nat \ {0} /\ signal.stop \in Int

(* What is offered to the sizing can be sized.                              *)
LEMMA OfferedSizeable == SizingInv => Sizeable
  BY SizingAssumption DEF SizingInv, Signals, Sizeable

(* A sized quantity is within both floors, and neither divisor is zero.     *)
LEMMA SizedWithinFloors ==
  ASSUME Sizeable, Sized > 0
  PROVE  /\ Sized \in Nat
         /\ RiskPerShare(signal) \in Nat \ {0}
         /\ signal.entry \in Nat \ {0}
         /\ Sized <= (equity * Risk.per_trade_risk_pct)
                       \div (100 * RiskPerShare(signal))
         /\ Sized <= (equity * Risk.max_position_pct) \div (100 * signal.entry)
  <1> DEFINE risk   == RiskPerShare(signal)
             byRisk == (equity * Risk.per_trade_risk_pct) \div (100 * risk)
             bySize == (equity * Risk.max_position_pct) \div (100 * signal.entry)
  <1>1. /\ signal.entry \in Nat \ {0} /\ signal.stop \in Int
        /\ equity \in Int
        /\ Risk.per_trade_risk_pct \in Nat /\ Risk.max_position_pct \in Nat
    BY GuardrailsAssumption DEF Sizeable
  <1>2. risk \in Nat
    BY <1>1 DEF RiskPerShare
  <1>3. Sized = IF risk <= 0 THEN 0
                ELSE AtLeastZero(IF byRisk < bySize THEN byRisk ELSE bySize)
    BY DEF Sized, PositionSize
  <1>4. risk \in Nat \ {0}
    BY <1>2, <1>3
  <1>5. byRisk \in Int /\ bySize \in Int
    <2>1. /\ equity * Risk.per_trade_risk_pct \in Int
          /\ equity * Risk.max_position_pct \in Int
      BY <1>1
    <2>2. 100 * risk \in Nat \ {0} /\ 100 * signal.entry \in Nat \ {0}
      BY <1>1, <1>4
    <2> QED
      BY <2>1, <2>2
  <1>6. Sized = AtLeastZero(IF byRisk < bySize THEN byRisk ELSE bySize)
    BY <1>3, <1>4
  <1> HIDE DEF risk, byRisk, bySize
  <1>7. Sized \in Nat /\ Sized <= byRisk /\ Sized <= bySize
    BY <1>5, <1>6 DEF AtLeastZero
  <1> QED
    BY <1>1, <1>4, <1>7 DEF risk, byRisk, bySize

(* What was sized is within the risk budget and the position cap.           *)
LEMMA SizedWithinLimits ==
  ASSUME Sizeable, Sized > 0
  PROVE  WithinLimits(Sized)
  <1>1. /\ equity \in Int /\ Risk.per_trade_risk_pct \in Nat
        /\ Risk.max_position_pct \in Nat
    BY GuardrailsAssumption DEF Sizeable
  <1> DEFINE qty == Sized
             risk == RiskPerShare(signal)
             budget == equity * Risk.per_trade_risk_pct
             cap == equity * Risk.max_position_pct
  <1>2. /\ qty \in Nat /\ risk \in Nat \ {0} /\ signal.entry \in Nat \ {0}
        /\ qty <= budget \div (100 * risk)
        /\ qty <= cap \div (100 * signal.entry)
    BY SizedWithinFloors
  <1>3. budget \in Int /\ cap \in Int
    BY <1>1
  <1> HIDE DEF qty, risk, budget, cap
  <1>4. qty * (100 * risk) <= budget
    BY <1>2, <1>3, FloorFits
  <1>5. qty * (100 * signal.entry) <= cap
    BY <1>2, <1>3, FloorFits
  <1>6. qty * risk * 100 <= budget /\ qty * signal.entry * 100 <= cap
    BY <1>2, <1>3, <1>4, <1>5
  <1> QED
    BY <1>6 DEF WithinLimits, qty, risk, budget, cap

(* At any equity, price or percentage.                                      *)
LEMMA SizedFit == Sizeable => SizedOrdersFit
<1> SUFFICES ASSUME Sizeable, Sized > 0
             PROVE  /\ ~TooMuchRisk(signal, Sized, [equity |-> equity])
                    /\ ~TooLarge(signal, Sized, [equity |-> equity])
  BY DEF SizedOrdersFit
<1> DEFINE qty == Sized
           cost == Sized * RiskPerShare(signal)
           value == Sized * signal.entry
           budget == equity * Risk.per_trade_risk_pct
           cap == equity * Risk.max_position_pct
<1>1. /\ Sized \in Nat /\ RiskPerShare(signal) \in Nat \ {0}
      /\ signal.entry \in Nat \ {0}
  BY SizedWithinFloors
<1>2. cost \in Nat /\ value \in Nat
  BY <1>1
<1>3. budget \in Int /\ cap \in Int
  BY GuardrailsAssumption DEF Sizeable
<1>4. cost * 100 <= budget /\ value * 100 <= cap
  BY SizedWithinLimits DEF WithinLimits
<1>5. TooMuchRisk(signal, Sized, [equity |-> equity])
        <=> cost * 100000 > budget * 1001
  BY DEF TooMuchRisk
<1>6. TooLarge(signal, Sized, [equity |-> equity])
        <=> value * 100000 > cap * 1001
  BY DEF TooLarge
<1> HIDE DEF cost, value, budget, cap
<1>7. ~(cost * 100000 > budget * 1001) /\ ~(value * 100000 > cap * 1001)
  BY <1>2, <1>3, <1>4
<1> QED
  BY <1>5, <1>6, <1>7

(* The two floors of sizing.py never leave an order that guardrails.py:159  *)
(* or guardrails.py:169 turns away, at any equity, price or percentage.     *)
THEOREM SizingFits == SizingSpec => []SizedOrdersFit
BY SizingTyped, OfferedSizeable, SizedFit, PTL

(* The two floors are exact: the quantity is within the budget and the cap  *)
(* and one share more is not (sizing.py:14), at any equity and price.       *)
THEOREM SizingExact == SizingSpec => []SizingIsExact
<1>1. SizingInv => SizingIsExact
  <2> SUFFICES ASSUME SizingInv PROVE SizingIsExact
    OBVIOUS
  <2> DEFINE risk   == RiskPerShare(signal)
             budget == equity * Risk.per_trade_risk_pct
             cap    == equity * Risk.max_position_pct
             byRisk == budget \div (100 * risk)
             bySize == cap \div (100 * signal.entry)
             lower  == IF byRisk < bySize THEN byRisk ELSE bySize
  <2>1. /\ equity \in Int /\ signal.entry \in Nat \ {0} /\ signal.stop \in Int
        /\ Risk.per_trade_risk_pct \in Nat /\ Risk.max_position_pct \in Nat
    BY OfferedSizeable, GuardrailsAssumption DEF Sizeable
  <2>2. risk \in Nat /\ budget \in Int /\ cap \in Int
    BY <2>1 DEF RiskPerShare
  <2>3. Sized = IF risk <= 0 THEN 0 ELSE AtLeastZero(lower)
    BY DEF Sized, PositionSize
  <2>4. CASE risk = 0
    BY <2>2, <2>3, <2>4 DEF SizingIsExact
  <2>5. CASE risk > 0 /\ equity < 0
    <3>1. byRisk <= 0 /\ byRisk \in Int /\ bySize \in Int
      <4>1. budget <= 0
        BY <2>1, <2>5
      <4> HIDE DEF budget, cap, risk
      <4>2. 100 * risk \in Nat \ {0} /\ 100 * signal.entry \in Nat \ {0}
        BY <2>1, <2>2, <2>5
      <4> QED
        BY <2>2, <4>1, <4>2, Z3
    <3>2. lower <= 0
      BY <3>1
    <3>3. Sized = 0
      BY <2>2, <2>3, <2>5, <3>1, <3>2 DEF AtLeastZero
    <3> QED
      BY <2>5, <3>3 DEF SizingIsExact
  <2>6. CASE risk > 0 /\ equity >= 0
    <3>1. budget >= 0 /\ cap >= 0
      BY <2>1, <2>6
    <3>2. 100 * risk \in Nat \ {0} /\ 100 * signal.entry \in Nat \ {0}
      BY <2>1, <2>2, <2>6
    <3> HIDE DEF budget, cap, risk
    <3>3. byRisk \in Nat /\ bySize \in Nat
      BY <2>2, <3>1, <3>2, Z3
    <3>4. (byRisk + 1) * (100 * risk) > budget /\ (bySize + 1) * (100 * signal.entry) > cap
      BY <2>2, <3>2, <3>3, FloorIsTight
    <3> HIDE DEF byRisk, bySize
    <3>5. /\ Sized \in Nat /\ Sized <= byRisk /\ Sized <= bySize
          /\ Sized = byRisk \/ Sized = bySize
      BY <2>3, <2>6, <2>2, <3>3 DEF AtLeastZero
    <3>6. Sized * (100 * risk) <= budget /\ Sized * (100 * signal.entry) <= cap
      BY <2>2, <3>2, <3>5, FloorFits DEF byRisk, bySize
    <3> DEFINE qty == Sized
    <3> HIDE DEF qty
    <3>7. qty * risk * 100 <= budget /\ qty * signal.entry * 100 <= cap
      BY <2>1, <2>2, <3>5, <3>6 DEF qty
    <3>8. (qty + 1) * risk * 100 > budget \/ (qty + 1) * signal.entry * 100 > cap
      BY <2>1, <2>2, <3>4, <3>5 DEF qty
    <3>9. WithinLimits(qty) /\ ~WithinLimits(qty + 1)
      BY <2>1, <2>2, <3>5, <3>7, <3>8 DEF WithinLimits, risk, budget, cap, qty
    <3>10. ~(risk = 0 \/ equity < 0)
      BY <2>1, <2>2, <2>6
    <3> QED
      BY <3>9, <3>10 DEF SizingIsExact, qty, risk
  <2> QED
    BY <2>1, <2>2, <2>4, <2>5, <2>6
<1> QED
  BY <1>1, SizingTyped, PTL

-----------------------------------------------------------------------------
(* The greatest element of a finite set of integers, and sums over bars     *)

IsGreatest(m, S) == m \in S /\ \A x \in S : m >= x

(* The maximum of a finite set of numbers is its greatest.                  *)
LEMMA GreatestExists ==
  ASSUME NEW S, IsFiniteSet(S), S \subseteq Int, S # {}
  PROVE  IsGreatest(Max(S), S)
<1> DEFINE Wrong == {s \in SUBSET S : s # {} /\ ~ \E m \in s : IsGreatest(m, s)}
<1>1. Wrong = {}
  <2> SUFFICES ASSUME Wrong # {} PROVE FALSE
    OBVIOUS
  <2>2. PICK s \in Wrong : \A t \in Wrong : t \subseteq s => t = s
    <3>1. Wrong \subseteq SUBSET S
      OBVIOUS
    <3> HIDE DEF Wrong
    <3> QED
      BY ONLY IsFiniteSet(S), Wrong # {}, <3>1, SmallestSubset
  <2> HIDE DEF Wrong
  <2>3. s \in SUBSET S /\ s # {} /\ ~ \E m \in s : IsGreatest(m, s)
    BY <2>2 DEF Wrong
  <2>4. PICK a \in s : TRUE
    BY <2>3
  <2> DEFINE rest == s \ {a}
  <2>5. rest \notin Wrong
    BY <2>2, <2>4
  <2>6. CASE rest = {}
    <3>1. \A x \in s : x = a
      BY <2>6
    <3>2. a \in Int
      BY <2>3, <2>4
    <3> QED
      BY <2>3, <2>4, <3>1, <3>2 DEF IsGreatest
  <2>7. CASE rest # {}
    <3>1. PICK m \in rest : IsGreatest(m, rest)
      BY <2>3, <2>5, <2>7 DEF Wrong
    <3>2. m \in Int /\ a \in Int /\ m \in s /\ \A x \in s : x \in Int /\ (x = a \/ m >= x)
      BY <2>3, <2>4, <3>1 DEF IsGreatest
    <3>3. CASE m >= a
      BY <2>3, <3>2, <3>3 DEF IsGreatest
    <3>4. CASE a > m
      <4>1. \A x \in s : a >= x
        BY <3>2, <3>4
      <4> QED
        BY <2>3, <2>4, <4>1 DEF IsGreatest
    <3> QED
      BY <3>2, <3>3, <3>4
  <2> QED
    BY <2>6, <2>7
<1>2. \E m \in S : IsGreatest(m, S)
  BY <1>1
<1> QED
  BY <1>2 DEF Max, IsGreatest

(* A window of bars is finite.                                              *)
LEMMA WindowFinite ==
  ASSUME NEW n \in Int, NEW i \in Int
  PROVE  IsFiniteSet(Window(n, i))
BY FS_Interval DEF Window

(* What is summed over a window is a number.                                *)
LEMMA WindowSum ==
  ASSUME NEW n \in Int, NEW i \in Int, NEW f, DOMAIN f = Window(n, i),
         \A j \in Window(n, i) : f[j] \in Int
  PROVE  SumFunction(f) \in Int
BY WindowFinite, SumOfElements DEF SumFunction

(* A sum of what is not negative is not.                                    *)
LEMMA WindowSumNat ==
  ASSUME NEW n \in Int, NEW i \in Int, NEW f, DOMAIN f = Window(n, i),
         \A j \in Window(n, i) : f[j] \in Nat
  PROVE  SumFunction(f) \in Nat
<1> DEFINE W == Window(n, i)
           zero == [j \in W |-> 0]
<1>1. IsFiniteSet(W)
  BY WindowFinite
<1>2. SumFunctionOnSet(zero, W) = 0
  BY <1>1, SumOfZeros
<1>3. \A j \in W : zero[j] \in Int /\ f[j] \in Int /\ zero[j] <= f[j]
  OBVIOUS
<1> HIDE DEF W, zero
<1>4. SumFunctionOnSet(zero, W) <= SumFunctionOnSet(f, W)
  BY <1>1, <1>3, SumMonotone
<1>5. SumFunctionOnSet(f, W) \in Int
  BY <1>1, <1>3, SumOfElements
<1>6. SumFunctionOnSet(f, W) \in Nat
  BY <1>2, <1>4, <1>5
<1> QED
  BY <1>6 DEF SumFunction, W

(* Some naturals have a smallest.                                           *)
LEMMA SmallestNumber ==
  ASSUME NEW T, T \subseteq Nat, T # {}
  PROVE  \E n \in T : \A m \in T : n <= m
<1>1. PICK n \in T : \A m \in T : ~ (<<m, n>> \in OpToRel(<, Nat))
  BY NatLessThanWellFounded, WFMin
<1>2. \A m \in T : ~(m < n)
  BY <1>1 DEF OpToRel
<1> QED
  BY <1>2

-----------------------------------------------------------------------------
(* The indicators of a sound series of bars                                 *)

Sound(c) == c \in Seq(BarType) /\ \A i \in 1..Len(c) : IsBar(c[i])

(* The prices of a bar are in order and positive.                           *)
LEMMA BarNumbers ==
  ASSUME NEW c, Sound(c), NEW i \in 1..Len(c)
  PROVE  /\ c[i].open \in Nat /\ c[i].close \in Nat /\ c[i].high \in Nat
         /\ c[i].low \in Nat /\ c[i].volume \in Nat
         /\ 0 < c[i].low /\ c[i].low <= c[i].close /\ c[i].close <= c[i].high
BY DEF Sound, IsBar, BarType

(* A window that has its bars lies within them.                             *)
LEMMA WindowInside ==
  ASSUME NEW n \in Nat \ {0}, NEW i \in Nat, n <= i, NEW j \in Window(n, i)
  PROVE  j \in 1..i
BY DEF Window

(* A true range is a number.                                                *)
LEMMA TrueRangeType ==
  ASSUME NEW c, Sound(c), NEW i \in 1..Len(c)
  PROVE  TrueRange(c, i) \in Int
<1>1. Len(c) \in Nat
  BY DEF Sound
<1>2. CASE i = 1
  BY <1>2, BarNumbers DEF TrueRange
<1>3. CASE i # 1
  <2>1. i - 1 \in 1..Len(c)
    BY <1>1, <1>3
  <2> DEFINE a == c[i].high - c[i].low
             b == Abs(c[i].high - c[i - 1].close)
             d == Abs(c[i].low - c[i - 1].close)
  <2>2. a \in Int /\ b \in Int /\ d \in Int
    <3>1. /\ c[i].high \in Nat /\ c[i].low \in Nat /\ c[i - 1].close \in Nat
      BY <2>1, BarNumbers
    <3> QED
      BY SMTT(30), <3>1 DEF Abs
  <2>3. TrueRange(c, i) = Max({a, b, d})
    BY <1>3 DEF TrueRange
  <2> HIDE DEF a, b, d
  <2>4. IsFiniteSet({a, b, d})
    <3>1. IsFiniteSet({a})
      BY FS_Singleton
    <3>2. IsFiniteSet({a} \cup {b})
      BY <3>1, FS_AddElement
    <3>3. IsFiniteSet(({a} \cup {b}) \cup {d})
      BY <3>2, FS_AddElement
    <3>4. ({a} \cup {b}) \cup {d} = {a, b, d}
      OBVIOUS
    <3> QED
      BY <3>3, <3>4
  <2>5. Max({a, b, d}) \in {a, b, d}
    BY <2>2, <2>4, GreatestExists DEF IsGreatest
  <2> QED
    BY <2>2, <2>3, <2>5
<1> QED
  BY <1>2, <1>3

(* So is their average.                                                     *)
LEMMA AtrType ==
  ASSUME NEW c, Sound(c), NEW n \in Nat \ {0}, NEW i \in 1..Len(c), n <= i
  PROVE  Atr(c, n, i) \in Int
<1> DEFINE f == [j \in Window(n, i) |-> TrueRange(c, j)]
<1>1. Len(c) \in Nat
  BY DEF Sound
<1>2. \A j \in Window(n, i) : j \in 1..Len(c)
  BY <1>1, WindowInside
<1>3. \A j \in Window(n, i) : f[j] \in Int
  BY <1>2, TrueRangeType
<1>4. DOMAIN f = Window(n, i)
  OBVIOUS
<1> HIDE DEF f
<1>5. SumFunction(f) \in Int
  BY <1>3, <1>4, WindowSum
<1>6. (100 * SumFunction(f)) \div n \in Int
  BY <1>5
<1> QED
  BY <1>6 DEF Atr, f

(* What is cut off at zero is a natural.                                    *)
LEMMA MaxWithZero ==
  ASSUME NEW x \in Int
  PROVE  Max({x, 0}) \in Nat
<1>1. IsFiniteSet({x, 0})
  <2>1. IsFiniteSet({x}) /\ {x} \cup {0} = {x, 0}
    BY FS_Singleton
  <2> QED
    BY <2>1, FS_AddElement
<1>2. Max({x, 0}) \in {x, 0} /\ Max({x, 0}) >= 0
  BY <1>1, GreatestExists DEF IsGreatest
<1> QED
  BY <1>2

(* The relative strength is a number where there is one.                    *)
LEMMA RsiType ==
  ASSUME NEW c, Sound(c), NEW n \in Nat \ {0}, NEW i \in 1..Len(c), HasRsi(c, n, i)
  PROVE  Rsi(c, n, i) \in Int
<1> DEFINE up == [j \in Window(n, i) |-> Max({Change(c, j), 0})]
           down == [j \in Window(n, i) |-> Max({-Change(c, j), 0})]
<1>1. Len(c) \in Nat /\ n <= i
  BY DEF Sound, HasRsi
<1>2. \A j \in Window(n, i) : Change(c, j) \in Int /\ -Change(c, j) \in Int
  <2> TAKE j \in Window(n, i)
  <2>1. j \in 1..Len(c)
    BY <1>1, WindowInside
  <2>2. j # 1 => j - 1 \in 1..Len(c)
    BY <1>1, <2>1
  <2>3. CASE j = 1
    BY <2>3 DEF Change
  <2>4. CASE j # 1
    <3>1. c[j].close \in Nat /\ c[j - 1].close \in Nat
      BY <2>1, <2>2, <2>4, BarNumbers
    <3> QED
      BY <2>4, <3>1 DEF Change
  <2> QED
    BY <2>3, <2>4
<1>3. \A j \in Window(n, i) : up[j] \in Nat /\ down[j] \in Nat
  BY <1>2, MaxWithZero
<1>4. DOMAIN up = Window(n, i) /\ DOMAIN down = Window(n, i)
  OBVIOUS
<1> HIDE DEF up, down
<1>5. SumFunction(up) \in Nat /\ SumFunction(down) \in Nat
  BY <1>3, <1>4, WindowSumNat
<1>6. Gains(c, n, i) \in Nat /\ Losses(c, n, i) \in Nat /\ Losses(c, n, i) > 0
  BY <1>5 DEF Gains, Losses, up, down, HasRsi
<1> DEFINE g == Gains(c, n, i)
           l == Losses(c, n, i)
<1> HIDE DEF g, l
<1>7. (10000 * g) \div (g + l) \in Int
  BY <1>6 DEF g, l
<1> QED
  BY <1>7 DEF Rsi, g, l

(* No bar of the window is higher than the channel.                         *)
LEMMA HighestIsAbove ==
  ASSUME NEW c, Sound(c), NEW n \in Nat \ {0}, NEW i \in 1..Len(c), n <= i,
         NEW j \in Window(n, i)
  PROVE  Highest(c, n, i) \in Int /\ c[j].high <= Highest(c, n, i)
<1> DEFINE highs == {c[k].high : k \in Window(n, i)}
<1>1. Len(c) \in Nat
  BY DEF Sound
<1>2. \A k \in Window(n, i) : c[k].high \in Nat
  BY <1>1, WindowInside, BarNumbers
<1>3. IsFiniteSet(highs)
  <2> DEFINE f == [k \in Window(n, i) |-> c[k].high]
  <2>1. f \in Surjection(Window(n, i), highs)
    BY DEF Surjection
  <2> QED
    BY <2>1, WindowFinite, FS_Surjection
<1>4. highs \subseteq Int /\ c[j].high \in highs
  BY <1>2
<1> HIDE DEF highs
<1>5. IsGreatest(Max(highs), highs)
  BY <1>3, <1>4, GreatestExists
<1>6. Max(highs) \in Int /\ c[j].high <= Max(highs)
  BY <1>4, <1>5 DEF IsGreatest
<1> QED
  BY <1>6 DEF Highest, highs

-----------------------------------------------------------------------------
(* The lines of the supertrend: the recursion has a solution, and it is     *)
(* made of numbers.                                                         *)

LineType == [upper: Int, lower: Int, direction: {-1, 1}]

FirstLine(c, n, mult) ==
  LET first == 50 * (c[n].high + c[n].low)
  IN  NextLine(c, n, [upper |-> first + mult * Atr(c, n, n),
                      lower |-> first - mult * Atr(c, n, n), direction |-> 1], n, mult)

Lined(g, c, n, mult, last) ==
  g = [i \in n..last |-> IF i = n THEN FirstLine(c, n, mult)
                         ELSE NextLine(c, i, g[i - 1], n, mult)]

(* Supertrend is chosen among the solutions of its recursion.               *)
LEMMA SupertrendIsLined ==
  ASSUME NEW c, NEW n, NEW mult
  PROVE  Supertrend(c, n, mult) = CHOOSE g : Lined(g, c, n, mult, Len(c))
BY DEF Supertrend, Lined, FirstLine

(* Its recursion has a solution over any number of bars.                    *)
LEMMA LinesExist ==
  ASSUME NEW c, NEW n \in Nat, NEW mult, NEW more \in Nat
  PROVE  \E g : Lined(g, c, n, mult, n + more)
<1> DEFINE Wrong == {k \in Nat : ~ \E g : Lined(g, c, n, mult, n + k)}
<1> SUFFICES ASSUME Wrong # {} PROVE FALSE
  OBVIOUS
<1>1. PICK k \in Wrong : \A m \in Wrong : k <= m
  <2>1. Wrong \subseteq Nat
    OBVIOUS
  <2> HIDE DEF Wrong
  <2> QED
    BY ONLY Wrong # {}, <2>1, SmallestNumber
<1>2. CASE k = 0
  <2> DEFINE g == [i \in n..n |-> FirstLine(c, n, mult)]
  <2>1. g = [i \in n..n |-> IF i = n THEN FirstLine(c, n, mult)
                            ELSE NextLine(c, i, g[i - 1], n, mult)]
    OBVIOUS
  <2>2. n + k = n
    BY <1>2
  <2> HIDE DEF g
  <2>3. Lined(g, c, n, mult, n + k)
    BY <2>1, <2>2 DEF Lined
  <2> QED
    BY <2>3
<1>3. CASE k # 0
  <2>1. k \in Nat /\ k - 1 \in Nat /\ k - 1 \notin Wrong
    <3>1. k \in Nat
      BY <1>1
    <3>2. k - 1 \in Nat /\ ~(k <= k - 1)
      BY <1>3, <3>1
    <3> HIDE DEF Wrong
    <3> QED
      BY <1>1, <3>1, <3>2
  <2>2. PICK h : Lined(h, c, n, mult, n + (k - 1))
    BY <2>1
  <2> DEFINE last == n + k
             g == [i \in n..last |-> IF i = last THEN NextLine(c, last, h[last - 1], n, mult)
                                     ELSE h[i]]
  <2>3. last \in Nat /\ last > n /\ n + (k - 1) = last - 1
    BY <1>3, <2>1
  <2>4. \A i \in n..(last - 1) :
          /\ h[i] = IF i = n THEN FirstLine(c, n, mult) ELSE NextLine(c, i, h[i - 1], n, mult)
          /\ i \in n..last /\ i # last
    <3>1. h = [i \in n..(last - 1) |-> IF i = n THEN FirstLine(c, n, mult)
                                      ELSE NextLine(c, i, h[i - 1], n, mult)]
      BY <2>2, <2>3 DEF Lined
    <3> QED
      BY <2>3, <3>1
  <2> HIDE DEF last
  <2>5. \A i \in n..(last - 1) : g[i] = h[i]
    BY <2>4
  <2>6. \A i \in n..last :
          g[i] = IF i = n THEN FirstLine(c, n, mult) ELSE NextLine(c, i, g[i - 1], n, mult)
    <3> TAKE i \in n..last
    <3>1. CASE i = last
      <4>1. g[i] = NextLine(c, last, h[last - 1], n, mult)
        BY <3>1
      <4>2. last - 1 \in n..(last - 1) /\ i # n
        BY <2>3, <3>1
      <4>3. h[last - 1] = g[i - 1]
        BY <2>5, <3>1, <4>2
      <4> QED
        BY <3>1, <4>1, <4>2, <4>3
    <3>2. CASE i # last
      <4>1. i \in n..(last - 1) /\ (i # n => i - 1 \in n..(last - 1))
        BY <2>3, <3>2
      <4>2. g[i] = h[i] /\ (i # n => g[i - 1] = h[i - 1])
        BY <2>5, <4>1
      <4> HIDE DEF g
      <4> QED
        BY <2>4, <4>1, <4>2
    <3> QED
      BY <3>1, <3>2
  <2>7. g = [i \in n..last |-> g[i]]
    OBVIOUS
  <2> HIDE DEF g
  <2>8. Lined(g, c, n, mult, last)
    BY <2>6, <2>7 DEF Lined
  <2> QED
    BY <2>8, <1>1 DEF last
<1> QED
  BY <1>1, <1>2, <1>3

(* A line goes on as a line.                                                *)
LEMMA NextLineType ==
  ASSUME NEW c, Sound(c), NEW n \in Nat, n > 1, NEW mult \in Nat,
         NEW i \in n..Len(c), NEW was \in LineType
  PROVE  NextLine(c, i, was, n, mult) \in LineType
<1>1. /\ Len(c) \in Nat /\ i \in 1..Len(c) /\ i - 1 \in 1..Len(c) /\ n <= i
      /\ n \in Nat \ {0}
  BY DEF Sound
<1> DEFINE atr == Atr(c, n, i)
           middle == 50 * (c[i].high + c[i].low)
<1>2. atr \in Int
  BY <1>1, AtrType
<1>3. /\ c[i].high \in Nat /\ c[i].low \in Nat /\ c[i].close \in Nat
      /\ c[i - 1].close \in Nat
  BY <1>1, BarNumbers
<1>4. middle \in Int /\ mult * atr \in Int
  BY SMTT(30), <1>2, <1>3
<1> HIDE DEF middle
<1>5. middle + mult * atr \in Int /\ middle - mult * atr \in Int
  BY <1>4
<1>6. was.upper \in Int /\ was.lower \in Int /\ was.direction \in {-1, 1}
  BY DEF LineType
<1> DEFINE upper == middle + mult * atr
           lower == middle - mult * atr
<1>7. NextLine(c, i, was, n, mult) =
        [upper |-> IF upper < was.upper \/ 100 * c[i - 1].close > was.upper
                   THEN upper ELSE was.upper,
         lower |-> IF lower > was.lower \/ 100 * c[i - 1].close < was.lower
                   THEN lower ELSE was.lower,
         direction |-> IF 100 * c[i].close > was.upper THEN 1
                       ELSE IF 100 * c[i].close < was.lower THEN -1 ELSE was.direction]
  BY DEF NextLine, middle
<1> HIDE DEF upper, lower
<1> QED
  BY <1>5, <1>6, <1>7 DEF LineType, upper, lower

(* The first line is one.                                                   *)
LEMMA FirstLineType ==
  ASSUME NEW c, Sound(c), NEW n \in Nat, n > 1, n <= Len(c), NEW mult \in Nat
  PROVE  FirstLine(c, n, mult) \in LineType
<1>1. Len(c) \in Nat /\ n \in 1..Len(c) /\ n \in n..Len(c) /\ n \in Nat \ {0}
  BY DEF Sound
<1> DEFINE first == 50 * (c[n].high + c[n].low)
           range == mult * Atr(c, n, n)
           was == [upper |-> first + range, lower |-> first - range, direction |-> 1]
<1>2. c[n].high \in Nat /\ c[n].low \in Nat /\ Atr(c, n, n) \in Int
  BY <1>1, BarNumbers, AtrType
<1>3. first \in Int /\ range \in Int
  BY <1>2
<1>4. FirstLine(c, n, mult) = NextLine(c, n, was, n, mult)
  BY DEF FirstLine
<1> HIDE DEF first, range
<1>5. was \in LineType
  BY <1>3 DEF LineType
<1> HIDE DEF was
<1> QED
  BY <1>1, <1>4, <1>5, NextLineType

(* All of Supertrend are lines.                                             *)
LEMMA SupertrendType ==
  ASSUME NEW c, Sound(c), NEW n \in Nat, n > 1, NEW mult \in Nat, NEW i \in n..Len(c)
  PROVE  Supertrend(c, n, mult)[i] \in LineType
<1> DEFINE line == Supertrend(c, n, mult)
           Wrong == {k \in Nat : k \in n..Len(c) /\ line[k] \notin LineType}
<1>1. Len(c) \in Nat /\ n <= Len(c) /\ Len(c) - n \in Nat /\ n + (Len(c) - n) = Len(c)
  BY DEF Sound
<1>2. Lined(line, c, n, mult, Len(c))
  <2>1. \E g : Lined(g, c, n, mult, Len(c))
    BY <1>1, LinesExist
  <2> QED
    BY <2>1, SupertrendIsLined
<1> HIDE DEF line
<1>3. \A k \in n..Len(c) :
        line[k] = IF k = n THEN FirstLine(c, n, mult) ELSE NextLine(c, k, line[k - 1], n, mult)
  BY <1>2 DEF Lined
<1>4. Wrong = {}
  <2> SUFFICES ASSUME Wrong # {} PROVE FALSE
    OBVIOUS
  <2>1. PICK k \in Wrong : \A m \in Wrong : k <= m
    <3>1. Wrong \subseteq Nat
      OBVIOUS
    <3> HIDE DEF Wrong
    <3> QED
      BY ONLY Wrong # {}, <3>1, SmallestNumber
  <2>2. k \in n..Len(c) /\ line[k] \notin LineType
    BY <2>1
  <2>3. k # n
    BY <1>1, <1>3, <2>2, FirstLineType
  <2>4. k - 1 \in n..Len(c) /\ k - 1 \in Nat /\ k - 1 < k
    BY <1>1, <2>2, <2>3
  <2>5. line[k - 1] \in LineType
    BY <2>1, <2>4
  <2> QED
    BY <1>3, <2>2, <2>3, <2>5, NextLineType
<1> QED
  BY <1>4, <1>1 DEF line

-----------------------------------------------------------------------------
(* The bands are there for every series: a variance is not negative, and    *)
(* every number has a root.                                                 *)

(* No square is negative.                                                   *)
LEMMA SquareIsNat ==
  ASSUME NEW a \in Int
  PROVE  a * a \in Nat
BY Z3

(* The squared distances of some numbers from one, multiplied out.          *)
LEMMA SpreadStep ==
  ASSUME NEW q \in Int, NEW sum \in Int, NEW k \in Int, NEW a \in Int, NEW b \in Int,
         q + k * (a * a) - 2 * (a * sum) >= 0
  PROVE  (q + b * b) + (k + 1) * (a * a) - 2 * (a * (sum + b)) >= 0
<1>1. (a - b) * (a - b) >= 0
  BY SquareIsNat
<1>2. (q + b * b) + (k + 1) * (a * a) - 2 * (a * (sum + b))
        = (q + k * (a * a) - 2 * (a * sum)) + (a - b) * (a - b)
  BY Z3
<1> QED
  BY <1>1, <1>2, Z3

(* The arithmetic of a variance with one more number.                       *)
LEMMA VarianceStep ==
  ASSUME NEW q \in Int, NEW sum \in Int, NEW k \in Int, NEW a \in Int,
         k * q - sum * sum >= 0, q + k * (a * a) - 2 * (a * sum) >= 0
  PROVE  (k + 1) * (q + a * a) - (sum + a) * (sum + a) >= 0
<1>1. (k + 1) * (q + a * a) - (sum + a) * (sum + a)
        = (k * q - sum * sum) + (q + k * (a * a) - 2 * (a * sum))
  BY Z3
<1> QED
  BY <1>1, Z3

(* A natural has a whole root, rounded down.                                *)
LEMMA RootExists ==
  ASSUME NEW v \in Nat
  PROVE  \E r \in 0..v : r * r <= v /\ v < (r + 1) * (r + 1)
<1> DEFINE R == {r \in 0..v : r * r <= v}
<1>1. IsFiniteSet(R)
  <2>1. IsFiniteSet(0..v) /\ R \subseteq 0..v
    BY FS_Interval
  <2> QED
    BY <2>1, FS_Subset
<1>2. 0 \in R
  BY Z3
<1>3. R \subseteq Int /\ R # {}
  BY <1>2
<1> DEFINE r == Max(R)
<1>4. r \in R /\ \A x \in R : r >= x
  <2> HIDE DEF R
  <2> QED
    BY <1>1, <1>3, GreatestExists DEF IsGreatest
<1>5. r \in 0..v /\ r * r <= v /\ r + 1 \notin R
  <2>1. r \in 0..v /\ r * r <= v
    BY <1>4
  <2>2. ~(r >= r + 1)
    BY <2>1
  <2> HIDE DEF R
  <2> QED
    BY <1>4, <2>1, <2>2
<1>6. v < (r + 1) * (r + 1)
  <2>1. r \in Nat /\ (r + 1 \in 0..v => ~((r + 1) * (r + 1) <= v))
    BY <1>5
  <2> HIDE DEF r, R
  <2>2. (r + 1) * (r + 1) \in Int /\ (r + 1) * (r + 1) >= r + 1
    BY <2>1, Z3
  <2>3. CASE r + 1 <= v
    <3>1. r + 1 \in 0..v
      BY <2>1, <2>3
    <3> QED
      BY <2>1, <2>2, <3>1
  <2>4. CASE r + 1 > v
    BY <2>1, <2>2, <2>4
  <2> QED
    BY <2>1, <2>3, <2>4
<1> QED
  BY <1>5, <1>6

SquaresOf(x, s) == [j \in s |-> x[j] * x[j]]
Q(x, s) == SumFunctionOnSet(SquaresOf(x, s), s)
Sum(x, s) == SumFunctionOnSet(x, s)

(* The sum and the sum of squares with one more number.                     *)
LEMMA SumsGrow ==
  ASSUME NEW s, IsFiniteSet(s), NEW x, \A j \in s : x[j] \in Int, NEW b \in s
  PROVE  /\ Q(x, s) \in Int /\ Sum(x, s) \in Int /\ Cardinality(s) \in Nat
         /\ Q(x, s) = Q(x, s \ {b}) + x[b] * x[b]
         /\ Sum(x, s) = Sum(x, s \ {b}) + x[b]
         /\ Cardinality(s) = Cardinality(s \ {b}) + 1
         /\ Q(x, s \ {b}) \in Int /\ Sum(x, s \ {b}) \in Int
         /\ Cardinality(s \ {b}) \in Nat
<1> DEFINE rest == s \ {b}
           f == SquaresOf(x, s)
           g == SquaresOf(x, rest)
<1>1. \A j \in s : f[j] \in Int
  <2>1. \A j \in s : x[j] * x[j] \in Int
    OBVIOUS
  <2> QED
    BY <2>1 DEF SquaresOf
<1>2. f[b] = x[b] * x[b] /\ \A j \in rest : f[j] = g[j]
  BY DEF SquaresOf
<1>3. IsFiniteSet(rest) /\ Cardinality(rest) = Cardinality(s) - 1
  BY FS_RemoveElement
<1>4. Cardinality(s) \in Nat /\ Cardinality(rest) \in Nat
  BY <1>3, FS_CardinalityType
<1> HIDE DEF f, g
<1>5. /\ SumFunctionOnSet(f, s) \in Int
      /\ SumFunctionOnSet(f, s) = f[b] + SumFunctionOnSet(f, rest)
  BY <1>1, SumOfElements
<1>6. /\ SumFunctionOnSet(x, s) \in Int
      /\ SumFunctionOnSet(x, s) = x[b] + SumFunctionOnSet(x, rest)
  BY SumOfElements
<1>7. SumFunctionOnSet(f, rest) \in Int /\ SumFunctionOnSet(x, rest) \in Int
  BY <1>1, <1>3, SumOfElements
<1>8. SumFunctionOnSet(f, rest) = SumFunctionOnSet(g, rest)
  BY <1>1, <1>2, <1>3, SumsAgree
<1>9. x[b] \in Int /\ x[b] * x[b] \in Int
  OBVIOUS
<1>10. Q(x, s) = SumFunctionOnSet(f, s) /\ Q(x, rest) = SumFunctionOnSet(g, rest)
  BY DEF Q, f, g
<1> HIDE DEF rest
<1>11. /\ Q(x, s) = Q(x, rest) + x[b] * x[b] /\ Q(x, s) \in Int /\ Q(x, rest) \in Int
  BY <1>2, <1>5, <1>7, <1>8, <1>9, <1>10
<1>12. /\ Sum(x, s) = Sum(x, rest) + x[b] /\ Sum(x, s) \in Int /\ Sum(x, rest) \in Int
  BY <1>6, <1>7, <1>9 DEF Sum
<1> QED
  BY <1>3, <1>4, <1>11, <1>12 DEF rest

(* Of no numbers they are zero.                                             *)
LEMMA NothingSpreads ==
  ASSUME NEW x
  PROVE  Q(x, {}) = 0 /\ Sum(x, {}) = 0 /\ Cardinality({}) = 0
BY FS_EmptySet, SumOfElements DEF Q, Sum

(* The squares of differences to a number sum up to no less than zero.      *)
LEMMA SpreadNotNegative ==
  ASSUME NEW S, IsFiniteSet(S), NEW x, \A j \in S : x[j] \in Int, NEW a \in Int
  PROVE  Q(x, S) + Cardinality(S) * (a * a) - 2 * (a * Sum(x, S)) >= 0
<1> DEFINE Fine(s) == Q(x, s) + Cardinality(s) * (a * a) - 2 * (a * Sum(x, s)) >= 0
           Wrong == {s \in SUBSET S : ~Fine(s)}
<1> SUFFICES ASSUME Wrong # {} PROVE FALSE
  OBVIOUS
<1>1. PICK s \in Wrong : \A t \in Wrong : t \subseteq s => t = s
  <2>1. Wrong \subseteq SUBSET S
    OBVIOUS
  <2> HIDE DEF Wrong
  <2> QED
    BY ONLY IsFiniteSet(S), Wrong # {}, <2>1, SmallestSubset
<1>2. s \in SUBSET S /\ ~Fine(s) /\ IsFiniteSet(s) /\ \A j \in s : x[j] \in Int
  BY <1>1, FS_Subset
<1>3. CASE s = {}
  <2>1. Fine({})
    BY NothingSpreads
  <2> QED
    BY <1>2, <1>3, <2>1
<1>4. CASE s # {}
  <2>1. PICK b \in s : TRUE
    BY <1>4
  <2>2. s \ {b} \in SUBSET S /\ s \ {b} # s /\ s \ {b} \subseteq s
    BY <1>2, <2>1
  <2>3. Fine(s \ {b})
    <3>1. s \ {b} \notin Wrong
      <4> HIDE DEF Wrong
      <4> QED
        BY <1>1, <2>2
    <3> QED
      BY <2>2, <3>1
  <2> DEFINE q == Q(x, s \ {b})
             sum == Sum(x, s \ {b})
             k == Cardinality(s \ {b})
  <2>4. /\ q \in Int /\ sum \in Int /\ k \in Int /\ x[b] \in Int
        /\ Q(x, s) = q + x[b] * x[b] /\ Sum(x, s) = sum + x[b] /\ Cardinality(s) = k + 1
    BY <1>2, <2>1, SumsGrow
  <2>5. q + k * (a * a) - 2 * (a * sum) >= 0
    BY <2>3
  <2> HIDE DEF q, sum, k
  <2>6. (q + x[b] * x[b]) + (k + 1) * (a * a) - 2 * (a * (sum + x[b])) >= 0
    BY <2>4, <2>5, SpreadStep
  <2>7. Fine(s)
    BY <2>4, <2>6
  <2> QED
    BY <1>2, <2>7
<1> QED
  BY <1>3, <1>4

(* So no variance is negative.                                              *)
LEMMA VarianceNotNegative ==
  ASSUME NEW S, IsFiniteSet(S), NEW x, \A j \in S : x[j] \in Int
  PROVE  Cardinality(S) * Q(x, S) - Sum(x, S) * Sum(x, S) >= 0
<1> DEFINE Fine(s) == Cardinality(s) * Q(x, s) - Sum(x, s) * Sum(x, s) >= 0
           Wrong == {s \in SUBSET S : ~Fine(s)}
<1> SUFFICES ASSUME Wrong # {} PROVE FALSE
  OBVIOUS
<1>1. PICK s \in Wrong : \A t \in Wrong : t \subseteq s => t = s
  <2>1. Wrong \subseteq SUBSET S
    OBVIOUS
  <2> HIDE DEF Wrong
  <2> QED
    BY ONLY IsFiniteSet(S), Wrong # {}, <2>1, SmallestSubset
<1>2. s \in SUBSET S /\ ~Fine(s) /\ IsFiniteSet(s) /\ \A j \in s : x[j] \in Int
  BY <1>1, FS_Subset
<1>3. CASE s = {}
  <2>1. Fine({})
    BY NothingSpreads
  <2> QED
    BY <1>2, <1>3, <2>1
<1>4. CASE s # {}
  <2>1. PICK b \in s : TRUE
    BY <1>4
  <2>2. s \ {b} \in SUBSET S /\ s \ {b} # s /\ s \ {b} \subseteq s
    BY <1>2, <2>1
  <2>3. Fine(s \ {b})
    <3>1. s \ {b} \notin Wrong
      <4> HIDE DEF Wrong
      <4> QED
        BY <1>1, <2>2
    <3> QED
      BY <2>2, <3>1
  <2> DEFINE q == Q(x, s \ {b})
             sum == Sum(x, s \ {b})
             k == Cardinality(s \ {b})
  <2>4. /\ q \in Int /\ sum \in Int /\ k \in Int /\ x[b] \in Int
        /\ Q(x, s) = q + x[b] * x[b] /\ Sum(x, s) = sum + x[b] /\ Cardinality(s) = k + 1
    BY SMTT(30), <1>2, <2>1, SumsGrow
  <2>5. k * q - sum * sum >= 0
    BY <2>3
  <2>6. q + k * (x[b] * x[b]) - 2 * (x[b] * sum) >= 0
    <3>1. IsFiniteSet(s \ {b}) /\ \A j \in s \ {b} : x[j] \in Int
      BY <1>2, FS_Subset
    <3> QED
      BY <2>4, <3>1, SpreadNotNegative
  <2> HIDE DEF q, sum, k
  <2>7. (k + 1) * (q + x[b] * x[b]) - (sum + x[b]) * (sum + x[b]) >= 0
    BY <2>4, <2>5, <2>6, VarianceStep
  <2>8. Fine(s)
    BY <2>4, <2>7
  <2> QED
    BY <1>2, <2>8
<1> QED
  BY <1>3, <1>4

(* The bands are numbers.                                                   *)
LEMMA BandsType ==
  ASSUME NEW c, Sound(c), NEW n \in Nat, n > 1, NEW i \in 1..Len(c), n <= i
  PROVE  /\ Middle(c, n, i) \in Int /\ Deviation(c, n, i) \in Int
         /\ LowerBand(c, n, i) \in Int
<1> DEFINE W == Window(n, i)
           x == [j \in W |-> c[j].close]
           variance == (10000 * (n * Q(x, W) - Sum(x, W) * Sum(x, W))) \div (n * (n - 1))
<1>1. Len(c) \in Nat
  BY DEF Sound
<1>2. \A j \in W : x[j] \in Int
  BY <1>1, WindowInside, BarNumbers
<1>3. IsFiniteSet(W) /\ Cardinality(W) = n
  <2>1. i - n + 1 \in Int /\ i \in Int /\ ~(i - n + 1 > i) /\ i - (i - n + 1) + 1 = n
    OBVIOUS
  <2> QED
    BY <2>1, FS_Interval DEF Window
<1>4. CloseSum(c, n, i) = Sum(x, W)
  BY DEF CloseSum, SumFunction, Sum
<1>5. SumFunction([j \in W |-> c[j].close * c[j].close]) = Q(x, W)
  <2>1. SquaresOf(x, W) = [j \in W |-> c[j].close * c[j].close]
    BY DEF SquaresOf
  <2> HIDE DEF x
  <2> QED
    BY <2>1 DEF SumFunction, Q
<1>6. Sum(x, W) \in Int /\ Q(x, W) \in Int
  <2>1. \A j \in W : SquaresOf(x, W)[j] \in Int
    <3> HIDE DEF x
    <3>1. \A j \in W : x[j] * x[j] \in Int
      BY <1>2
    <3> QED
      BY <3>1 DEF SquaresOf
  <2> HIDE DEF x, W
  <2> QED
    BY <1>2, <1>3, <2>1, SumOfElements DEF Sum, Q
<1>7. n * Q(x, W) - Sum(x, W) * Sum(x, W) >= 0
  <2> HIDE DEF x, W
  <2> QED
    BY <1>2, <1>3, VarianceNotNegative
<1>8. variance \in Nat
  <2> DEFINE top == n * Q(x, W) - Sum(x, W) * Sum(x, W)
             bottom == n * (n - 1)
  <2>1. top \in Nat
    <3> HIDE DEF x, W
    <3> QED
      BY <1>6, <1>7
  <2>2. bottom \in Nat \ {0}
    <3>1. n - 1 \in Nat /\ n - 1 > 0 /\ n > 0
      OBVIOUS
    <3> QED
      BY <3>1, Z3
  <2> HIDE DEF top, bottom
  <2>3. (10000 * top) \div bottom \in Nat
    BY <2>1, <2>2, Z3
  <2> QED
    BY <2>3 DEF top, bottom
<1>9. \E v \in Nat : Deviation(c, n, i)
        = CHOOSE r \in 0..v : r * r <= v /\ v < (r + 1) * (r + 1)
  <2> DEFINE squares == SumFunction([j \in W |-> c[j].close * c[j].close])
             v == (10000 * (n * squares - CloseSum(c, n, i) * CloseSum(c, n, i)))
                    \div (n * (n - 1))
  <2>1. Deviation(c, n, i) = CHOOSE r \in 0..v : r * r <= v /\ v < (r + 1) * (r + 1)
    BY DEF Deviation
  <2>2. v = variance
    <3> HIDE DEF W, x
    <3> QED
      BY <1>4, <1>5
  <2> HIDE DEF v
  <2>3. v \in Nat
    BY <1>8, <2>2
  <2> QED
    BY <2>1, <2>3
<1>10. Deviation(c, n, i) \in Int
  <2>1. PICK v \in Nat : Deviation(c, n, i)
          = CHOOSE r \in 0..v : r * r <= v /\ v < (r + 1) * (r + 1)
    BY <1>9
  <2> DEFINE root == CHOOSE r \in 0..v : r * r <= v /\ v < (r + 1) * (r + 1)
  <2>2. root \in 0..v
    BY RootExists
  <2> QED
    BY ONLY <2>1, <2>2, v \in Nat
<1>11. Middle(c, n, i) \in Int
  <2>1. CloseSum(c, n, i) \in Int
    BY <1>4, <1>6
  <2>2. (100 * CloseSum(c, n, i)) \div n \in Int
    BY <2>1
  <2> QED
    BY <2>2 DEF Middle
<1> QED
  BY <1>10, <1>11 DEF LowerBand

-----------------------------------------------------------------------------
(* What a strategy finds in a sound series                                  *)

LegalPrices(x) ==
  /\ x.side = "BUY" => x.stop < x.entry /\ x.entry < x.target
  /\ x.side = "SELL" => x.target < x.entry /\ x.entry < x.stop

FoundOf(x, c) ==
  /\ Len(c) >= 1
  /\ x.side \in {"BUY", "SELL"}
  /\ x.entry = 100 * Latest(c).close /\ x.entry \in Nat \ {0}
  /\ x.stop \in Int
  /\ LegalPrices(x)

SoundSignal(x, c) == x = NoSignal \/ FoundOf(x, c)

(* The periods are positive, and in the order that is assumed.              *)
LEMMA PeriodsType ==
  /\ Periods.atr \in Nat \ {0} /\ Periods.volume \in Nat \ {0}
  /\ Periods.emaFast \in Nat \ {0} /\ Periods.emaSlow \in Nat \ {0}
  /\ Periods.supertrend \in Nat \ {0} /\ Periods.multiplier \in Nat \ {0}
  /\ Periods.dmaShort \in Nat \ {0} /\ Periods.dma \in Nat \ {0}
  /\ Periods.dmaLong \in Nat \ {0} /\ Periods.lookback \in Nat \ {0}
  /\ Periods.rsi \in Nat \ {0} /\ Periods.rsiLong \in Nat \ {0}
  /\ Periods.bollinger \in Nat \ {0} /\ Periods.squeeze \in Nat \ {0}
  /\ Periods.donchian \in Nat \ {0} /\ Periods.donchianShort \in Nat \ {0}
  /\ Periods.obv \in Nat \ {0} /\ Periods.narrow \in Nat \ {0}
  /\ Periods.supertrend > 1 /\ Periods.bollinger > 1
  /\ Periods.lookback <= Periods.donchian /\ Periods.lookback <= Periods.donchianShort
  /\ Periods.lookback <= Periods.obv
BY StrategiesAssumption

(* Sets written out are finite.                                             *)
LEMMA FewAreFinite ==
  ASSUME NEW a, NEW b, NEW d, NEW e
  PROVE  IsFiniteSet({a, b}) /\ IsFiniteSet({a, b, d}) /\ IsFiniteSet({a, b, d, e})
<1>1. IsFiniteSet({a})
  BY FS_Singleton
<1>2. IsFiniteSet({a} \cup {b})
  BY <1>1, FS_AddElement
<1>3. IsFiniteSet(({a} \cup {b}) \cup {d})
  BY <1>2, FS_AddElement
<1>4. IsFiniteSet((({a} \cup {b}) \cup {d}) \cup {e})
  BY <1>3, FS_AddElement
<1>5. /\ {a} \cup {b} = {a, b} /\ ({a} \cup {b}) \cup {d} = {a, b, d}
      /\ (({a} \cup {b}) \cup {d}) \cup {e} = {a, b, d, e}
  OBVIOUS
<1> QED
  BY <1>2, <1>3, <1>4, <1>5

(* Whoever asks for so many bars has those of every period asked for.       *)
LEMMA LongEnough ==
  ASSUME NEW c, Sound(c), NEW S, IsFiniteSet(S), S \subseteq Int, NEW p \in S,
         NEW more \in Nat, AtLeastBars(c, S, more)
  PROVE  p + more <= Len(c)
<1>1. Max(S) \in Int /\ p <= Max(S)
  BY GreatestExists DEF IsGreatest
<1>2. Len(c) \in Nat
  BY DEF Sound
<1> QED
  BY <1>1, <1>2 DEF AtLeastBars

(* The latest prices are numbers.                                           *)
LEMMA LatestNumbers ==
  ASSUME NEW c, Sound(c), Len(c) >= 1
  PROVE  /\ Len(c) \in 1..Len(c) /\ Latest(c).close \in Nat \ {0}
         /\ Latest(c).low \in Nat /\ Latest(c).high \in Nat
<1>1. Len(c) \in Nat /\ Len(c) \in 1..Len(c)
  BY DEF Sound
<1> QED
  BY <1>1, BarNumbers DEF Latest

(* A long with a stop by the range has legal prices.                        *)
LEMMA LongByAtrSound ==
  ASSUME NEW c, Sound(c), Periods.atr <= Len(c),
         NEW atrs \in {15, 20}, NEW reward \in {15, 20, 25}
  PROVE  SoundSignal(LongByAtr(c, atrs, reward), c)
<1> DEFINE atr == Atr(c, Periods.atr, Len(c))
           entry == 100 * Latest(c).close
           risk == (atrs * atr) \div 10
           gain == (reward * (entry - (entry - risk))) \div 10
<1>1. Len(c) \in 1..Len(c) /\ Len(c) >= 1
  BY SMTT(30), PeriodsType DEF Sound
<1>2. atr \in Int /\ entry \in Nat \ {0}
  <2>1. Periods.atr \in Nat \ {0}
    BY PeriodsType
  <2>2. atr \in Int
    BY <1>1, <2>1, AtrType
  <2> QED
    BY <1>1, <2>2, LatestNumbers
<1>3. LongByAtr(c, atrs, reward) =
        IF atr <= 0 THEN NoSignal
        ELSE [side |-> "BUY", entry |-> entry, stop |-> entry - risk, target |-> entry + gain]
  BY DEF LongByAtr
<1>4. CASE atr > 0
  <2> HIDE DEF atr, entry
  <2>1. risk \in Int /\ risk > 0
    BY <1>2, <1>4, Z3
  <2>2. entry - (entry - risk) = risk
    BY <1>2, <2>1
  <2> HIDE DEF risk
  <2>3. gain \in Int /\ gain > 0
    BY <2>1, <2>2, Z3
  <2> HIDE DEF gain
  <2>4. /\ entry - risk \in Int /\ entry - risk < entry /\ entry < entry + gain
    BY <1>2, <2>1, <2>3
  <2> DEFINE x == LongByAtr(c, atrs, reward)
  <2>5. x = [side |-> "BUY", entry |-> entry, stop |-> entry - risk, target |-> entry + gain]
    BY <1>2, <1>3, <1>4
  <2> HIDE DEF x
  <2>6. LegalPrices(x)
    BY <2>4, <2>5 DEF LegalPrices
  <2>7. FoundOf(x, c)
    BY <1>1, <1>2, <2>4, <2>5, <2>6 DEF FoundOf, entry
  <2> QED
    BY <2>7 DEF SoundSignal, x
<1>5. CASE atr <= 0
  BY <1>3, <1>5 DEF SoundSignal
<1> QED
  BY <1>2, <1>4, <1>5

(* A long with a given stop has, if the stop is below its entry.            *)
LEMMA LongWithStopSound ==
  ASSUME NEW c, Sound(c), Len(c) >= 1, NEW stop \in Int
  PROVE  SoundSignal(LongWithStop(c, stop, 20), c)
<1> DEFINE entry == 100 * Latest(c).close
           gain == (20 * (entry - stop)) \div 10
           x == LongWithStop(c, stop, 20)
<1>1. entry \in Nat \ {0}
  BY LatestNumbers
<1>2. x = IF stop >= entry THEN NoSignal
          ELSE [side |-> "BUY", entry |-> entry, stop |-> stop, target |-> entry + gain]
  BY DEF LongWithStop
<1>3. CASE stop < entry
  <2> HIDE DEF entry
  <2>1. gain \in Int /\ gain > 0
    BY <1>1, <1>3, Z3
  <2> HIDE DEF gain, x
  <2>2. x = [side |-> "BUY", entry |-> entry, stop |-> stop, target |-> entry + gain]
    BY <1>1, <1>2, <1>3
  <2>3. entry < entry + gain
    BY <1>1, <2>1
  <2>4. FoundOf(x, c)
    BY <1>1, <1>3, <2>2, <2>3 DEF FoundOf, LegalPrices, entry
  <2> QED
    BY <2>4 DEF SoundSignal, x
<1>4. CASE stop >= entry
  BY <1>2, <1>4 DEF SoundSignal
<1> QED
  BY <1>1, <1>3, <1>4

(* Those that stop at a multiple of the range of the bars, after as many    *)
(* bars as the range needs.                                                 *)
LEMMA ByRange ==
  ASSUME NEW c, Sound(c), NEW S, IsFiniteSet(S), S \subseteq Int, NEW p \in S,
         NEW more \in Nat, Periods.atr <= p + more, NEW x,
         NEW atrs \in {15, 20}, NEW reward \in {15, 20, 25},
         x # NoSignal => AtLeastBars(c, S, more) /\ x = LongByAtr(c, atrs, reward)
  PROVE  SoundSignal(x, c) /\ (x # NoSignal => x.side = "BUY")
<1>1. CASE x = NoSignal
  BY <1>1 DEF SoundSignal
<1>2. CASE x # NoSignal
  <2>1. Len(c) \in Nat /\ p \in Int
    BY DEF Sound
  <2>2. Periods.atr <= Len(c)
    <3>1. AtLeastBars(c, S, more)
      BY <1>2
    <3>2. p + more <= Len(c)
      BY <3>1, LongEnough
    <3>3. Periods.atr \in Nat
      BY PeriodsType
    <3> HIDE DEF AtLeastBars
    <3> QED
      BY <2>1, <3>2, <3>3
  <2>3. SoundSignal(x, c)
    BY <1>2, <2>2, LongByAtrSound
  <2>4. x.side = "BUY"
    BY <1>2 DEF LongByAtr
  <2> QED
    BY <2>3, <2>4
<1> QED
  BY <1>1, <1>2

(* A buy with its prices in order, or nothing.                              *)
Bought(x, c) == SoundSignal(x, c) /\ (x # NoSignal => x.side = "BUY")

(* The ten strategies that place stop and target by the range.              *)
LEMMA LongsByRange ==
  ASSUME NEW c, Sound(c)
  PROVE  /\ Bought(EmaCrossover(c), c)
         /\ Bought(TrendBreakout(c), c)
         /\ Bought(VolumeBreakoutConfirm(c), c)
         /\ Bought(ObvTrend(c), c)
         /\ Bought(MomentumStrength(c), c)
         /\ Bought(RsiMomentum(c), c)
         /\ Bought(BbSqueeze(c), c)
         /\ Bought(VolatilityCompression(c), c)
         /\ Bought(RsiBounce(c), c)
         /\ Bought(VixSpikeBounce(c), c)
<1>1. Bought(EmaCrossover(c), c)
  <2> DEFINE S == {Periods.emaSlow, Periods.atr}
             x == EmaCrossover(c)
  <2>1. IsFiniteSet(S)
    BY FewAreFinite
  <2>2. S \subseteq Int /\ Periods.atr \in S /\ Periods.atr <= Periods.atr + 3
    BY PeriodsType
  <2>3. x # NoSignal => AtLeastBars(c, S, 3) /\ x = LongByAtr(c, 15, 20)
    BY DEF EmaCrossover
  <2> HIDE DEF S, x
  <2>4. SoundSignal(x, c) /\ (x # NoSignal => x.side = "BUY")
    BY <2>1, <2>2, <2>3, ByRange
  <2> QED
    BY <2>4 DEF Bought, x
<1>2. Bought(TrendBreakout(c), c)
  <2> DEFINE S == {Periods.donchian, Periods.atr, Periods.volume}
             x == TrendBreakout(c)
  <2>1. IsFiniteSet(S)
    BY FewAreFinite
  <2>2. S \subseteq Int /\ Periods.atr \in S /\ Periods.atr <= Periods.atr + 2
    BY PeriodsType
  <2>3. x # NoSignal => AtLeastBars(c, S, 2) /\ x = LongByAtr(c, 20, 25)
    BY DEF TrendBreakout
  <2> HIDE DEF S, x
  <2>4. SoundSignal(x, c) /\ (x # NoSignal => x.side = "BUY")
    BY <2>1, <2>2, <2>3, ByRange
  <2> QED
    BY <2>4 DEF Bought, x
<1>3. Bought(VolumeBreakoutConfirm(c), c)
  <2> DEFINE S == {Periods.donchianShort, Periods.volume, Periods.dma, Periods.atr}
             x == VolumeBreakoutConfirm(c)
  <2>1. IsFiniteSet(S)
    BY FewAreFinite
  <2>2. S \subseteq Int /\ Periods.atr \in S /\ Periods.atr <= Periods.atr + 3
    BY PeriodsType
  <2>3. x # NoSignal => AtLeastBars(c, S, 3) /\ x = LongByAtr(c, 15, 20)
    BY DEF VolumeBreakoutConfirm
  <2> HIDE DEF S, x
  <2>4. SoundSignal(x, c) /\ (x # NoSignal => x.side = "BUY")
    BY <2>1, <2>2, <2>3, ByRange
  <2> QED
    BY <2>4 DEF Bought, x
<1>4. Bought(ObvTrend(c), c)
  <2> DEFINE S == {Periods.obv, Periods.atr}
             x == ObvTrend(c)
  <2>1. IsFiniteSet(S)
    BY FewAreFinite
  <2>2. S \subseteq Int /\ Periods.atr \in S /\ Periods.atr <= Periods.atr + 3
    BY PeriodsType
  <2>3. x # NoSignal => AtLeastBars(c, S, 3) /\ x = LongByAtr(c, 15, 25)
    BY DEF ObvTrend
  <2> HIDE DEF S, x
  <2>4. SoundSignal(x, c) /\ (x # NoSignal => x.side = "BUY")
    BY <2>1, <2>2, <2>3, ByRange
  <2> QED
    BY <2>4 DEF Bought, x
<1>5. Bought(MomentumStrength(c), c)
  <2> DEFINE S == {Periods.rsiLong, Periods.dma, Periods.dmaShort, Periods.atr}
             x == MomentumStrength(c)
  <2>1. IsFiniteSet(S)
    BY FewAreFinite
  <2>2. S \subseteq Int /\ Periods.atr \in S /\ Periods.atr <= Periods.atr + 5
    BY PeriodsType
  <2>3. x # NoSignal => AtLeastBars(c, S, 5) /\ x = LongByAtr(c, 15, 25)
    BY DEF MomentumStrength
  <2> HIDE DEF S, x
  <2>4. SoundSignal(x, c) /\ (x # NoSignal => x.side = "BUY")
    BY <2>1, <2>2, <2>3, ByRange
  <2> QED
    BY <2>4 DEF Bought, x
<1>6. Bought(RsiMomentum(c), c)
  <2> DEFINE S == {Periods.rsi, Periods.dma, Periods.atr}
             x == RsiMomentum(c)
  <2>1. IsFiniteSet(S)
    BY FewAreFinite
  <2>2. S \subseteq Int /\ Periods.atr \in S /\ Periods.atr <= Periods.atr + 3
    BY PeriodsType
  <2>3. x # NoSignal => AtLeastBars(c, S, 3) /\ x = LongByAtr(c, 15, 20)
    BY DEF RsiMomentum
  <2> HIDE DEF S, x
  <2>4. SoundSignal(x, c) /\ (x # NoSignal => x.side = "BUY")
    BY <2>1, <2>2, <2>3, ByRange
  <2> QED
    BY <2>4 DEF Bought, x
<1>7. Bought(BbSqueeze(c), c)
  <2> DEFINE S == {Periods.bollinger, Periods.squeeze, Periods.atr}
             x == BbSqueeze(c)
  <2>1. IsFiniteSet(S)
    BY FewAreFinite
  <2>2. S \subseteq Int /\ Periods.atr \in S /\ Periods.atr <= Periods.atr + 3
    BY PeriodsType
  <2>3. x # NoSignal => AtLeastBars(c, S, 3) /\ x = LongByAtr(c, 15, 20)
    BY DEF BbSqueeze
  <2> HIDE DEF S, x
  <2>4. SoundSignal(x, c) /\ (x # NoSignal => x.side = "BUY")
    BY <2>1, <2>2, <2>3, ByRange
  <2> QED
    BY <2>4 DEF Bought, x
<1>8. Bought(VolatilityCompression(c), c)
  <2> DEFINE S == {Periods.narrow, Periods.atr - 5}
             x == VolatilityCompression(c)
  <2>1. IsFiniteSet(S)
    BY FewAreFinite
  <2>2. S \subseteq Int /\ Periods.atr - 5 \in S /\ Periods.atr <= Periods.atr - 5 + 5
    BY PeriodsType
  <2>3. x # NoSignal => AtLeastBars(c, S, 5) /\ x = LongByAtr(c, 15, 20)
    BY DEF VolatilityCompression
  <2> HIDE DEF S, x
  <2>4. SoundSignal(x, c) /\ (x # NoSignal => x.side = "BUY")
    BY <2>1, <2>2, <2>3, ByRange
  <2> QED
    BY <2>4 DEF Bought, x
<1>9. Bought(RsiBounce(c), c)
  <2> DEFINE S == {Periods.rsi, Periods.dmaLong, Periods.atr}
             x == RsiBounce(c)
  <2>1. IsFiniteSet(S)
    BY FewAreFinite
  <2>2. S \subseteq Int /\ Periods.atr \in S /\ Periods.atr <= Periods.atr + 3
    BY PeriodsType
  <2>3. x # NoSignal => AtLeastBars(c, S, 3) /\ x = LongByAtr(c, 15, 20)
    BY DEF RsiBounce, Reversal
  <2> HIDE DEF S, x
  <2>4. SoundSignal(x, c) /\ (x # NoSignal => x.side = "BUY")
    BY <2>1, <2>2, <2>3, ByRange
  <2> QED
    BY <2>4 DEF Bought, x
<1>10. Bought(VixSpikeBounce(c), c)
  <2> DEFINE S == {Periods.rsi, Periods.dmaLong, Periods.atr}
             x == VixSpikeBounce(c)
  <2>1. IsFiniteSet(S)
    BY FewAreFinite
  <2>2. S \subseteq Int /\ Periods.atr \in S /\ Periods.atr <= Periods.atr + 3
    BY PeriodsType
  <2>3. x # NoSignal => AtLeastBars(c, S, 3) /\ x = LongByAtr(c, 20, 15)
    BY DEF VixSpikeBounce, Reversal
  <2> HIDE DEF S, x
  <2>4. SoundSignal(x, c) /\ (x # NoSignal => x.side = "BUY")
    BY <2>1, <2>2, <2>3, ByRange
  <2> QED
    BY <2>4 DEF Bought, x
<1> QED
  BY <1>1, <1>2, <1>3, <1>4, <1>5, <1>6, <1>7, <1>8, <1>9, <1>10

(* The distance of a stop from the line is a number.                        *)
LEMMA LineNumbers ==
  ASSUME NEW c, Sound(c), Periods.supertrend <= Len(c)
  PROVE  /\ LineDistance(c) \in Int
         /\ LineOf(c)[Len(c)] \in LineType
<1>1. /\ Len(c) \in 1..Len(c) /\ Len(c) \in Periods.supertrend..Len(c)
      /\ Periods.supertrend \in Nat \ {0} /\ Periods.multiplier \in Nat
      /\ Periods.supertrend > 1
  BY SMTT(30), PeriodsType DEF Sound
<1>2. Atr(c, Periods.supertrend, Len(c)) \in Int
  BY <1>1, AtrType
<1>3. LineDistance(c) \in Int
  <2> DEFINE atr == Atr(c, Periods.supertrend, Len(c))
  <2>1. atr \in Int
    BY <1>2
  <2> HIDE DEF atr
  <2>2. atr \div 10 \in Int
    BY <2>1
  <2> QED
    BY <2>2 DEF LineDistance, atr
<1>4. LineOf(c)[Len(c)] \in LineType
  BY <1>1, SupertrendType DEF LineOf
<1> QED
  BY <1>3, <1>4

(* The three that place the stop at a price of the past.                    *)
LEMMA LongsWithStop ==
  ASSUME NEW c, Sound(c), NEW trends
  PROVE  /\ Bought(SupertrendLong(c, trends), c)
         /\ Bought(NRPatternBreakout(c), c)
         /\ Bought(GapAndHold(c), c)
<1>0. Len(c) \in Nat
  BY DEF Sound
<1>1. ASSUME NEW stop \in Int, NEW x, Len(c) >= 1,
             x # NoSignal => x = LongWithStop(c, stop, 20)
      PROVE  Bought(x, c)
  <2>1. CASE x = NoSignal
    BY <2>1 DEF Bought, SoundSignal
  <2>2. CASE x # NoSignal
    <3>1. SoundSignal(x, c)
      BY <1>1, <2>2, LongWithStopSound
    <3>2. x.side = "BUY"
      BY <1>1, <2>2 DEF LongWithStop
    <3> QED
      BY <3>1, <3>2 DEF Bought
  <2> QED
    BY <2>1, <2>2
<1>2. ASSUME NEW x, x = NoSignal
      PROVE  Bought(x, c)
  BY <1>2 DEF Bought, SoundSignal
<1>3. Bought(SupertrendLong(c, trends), c)
  <2> DEFINE S == {Periods.supertrend, Periods.atr, Periods.volume,
                   Periods.dma + Periods.lookback}
             x == SupertrendLong(c, trends)
             stop == LineOf(c)[Len(c)].lower - LineDistance(c)
  <2>1. IsFiniteSet(S)
    BY FewAreFinite
  <2>2. S \subseteq Int /\ Periods.supertrend \in S /\ Periods.supertrend \in Nat
    BY PeriodsType
  <2>3. x # NoSignal => AtLeastBars(c, S, 5) /\ x = LongWithStop(c, stop, 20)
    BY DEF SupertrendLong
  <2>4. CASE x # NoSignal
    <3>1. Periods.supertrend + 5 <= Len(c)
      <4> HIDE DEF S, x, stop
      <4> QED
        BY <2>1, <2>2, <2>3, <2>4, LongEnough
    <3>2. Len(c) >= 1 /\ Periods.supertrend <= Len(c)
      BY <1>0, <2>2, <3>1
    <3>3. stop \in Int
      BY <3>2, LineNumbers DEF LineType
    <3> HIDE DEF x, stop
    <3>4. Bought(x, c)
      BY <1>1, <2>3, <3>2, <3>3
    <3> QED
      BY <3>4 DEF x
  <2> QED
    BY <1>2, <2>4
<1>4. Bought(NRPatternBreakout(c), c)
  <2> DEFINE S == {Periods.narrow, Periods.atr}
             x == NRPatternBreakout(c)
             stop == 100 * Latest(c).low
  <2>1. IsFiniteSet(S)
    BY FewAreFinite
  <2>2. S \subseteq Int /\ Periods.atr \in S /\ Periods.atr \in Nat
    BY PeriodsType
  <2>3. x # NoSignal => AtLeastBars(c, S, 3) /\ x = LongWithStop(c, stop, 20)
    BY DEF NRPatternBreakout
  <2>4. CASE x # NoSignal
    <3>1. Periods.atr + 3 <= Len(c)
      <4> HIDE DEF S, x, stop
      <4> QED
        BY <2>1, <2>2, <2>3, <2>4, LongEnough
    <3>2. Len(c) >= 1
      BY <1>0, <2>2, <3>1
    <3>3. stop \in Int
      BY <3>2, LatestNumbers
    <3> HIDE DEF x, stop
    <3>4. Bought(x, c)
      BY <1>1, <2>3, <3>2, <3>3
    <3> QED
      BY <3>4 DEF x
  <2> QED
    BY <1>2, <2>4
<1>5. Bought(GapAndHold(c), c)
  <2> DEFINE S == {Periods.volume, Periods.atr}
             x == GapAndHold(c)
             atr == Atr(c, Periods.atr, Len(c))
             stop == 100 * Before(c).close - atr \div 2
  <2>1. IsFiniteSet(S)
    BY FewAreFinite
  <2>2. S \subseteq Int /\ Periods.atr \in S /\ Periods.atr \in Nat \ {0}
    BY PeriodsType
  <2>3. x # NoSignal => AtLeastBars(c, S, 3) /\ x = LongWithStop(c, stop, 20)
    BY DEF GapAndHold
  <2>4. CASE x # NoSignal
    <3>1. Periods.atr + 3 <= Len(c)
      <4> HIDE DEF S, x, stop
      <4> QED
        BY <2>1, <2>2, <2>3, <2>4, LongEnough
    <3>2. Len(c) >= 1 /\ Len(c) - 1 \in 1..Len(c) /\ Len(c) \in 1..Len(c) /\ Periods.atr <= Len(c)
      BY <1>0, <2>2, <3>1
    <3>3. Before(c).close \in Nat
      BY <3>2, BarNumbers DEF Before
    <3>4. atr \in Int
      BY <2>2, <3>2, AtrType
    <3>5. stop \in Int
      <4> HIDE DEF atr
      <4> QED
        BY <3>3, <3>4
    <3> HIDE DEF x, stop
    <3>6. Bought(x, c)
      BY <1>1, <2>3, <3>2, <3>5
    <3> QED
      BY <3>6 DEF x
  <2> QED
    BY <1>2, <2>4
<1> QED
  BY <1>3, <1>4, <1>5

(* The one that aims at the middle of the band.                             *)
LEMMA MeanReversionSound ==
  ASSUME NEW c, Sound(c)
  PROVE  Bought(MeanReversion(c), c)
<1> DEFINE S == {Periods.rsi, Periods.bollinger, Periods.dma}
           x == MeanReversion(c)
           entry == 100 * Latest(c).close
           lower == LowerBand(c, Periods.bollinger, Len(c))
           ma == Middle(c, Periods.bollinger, Len(c))
           stop == (98 * lower) \div 100
<1>1. IsFiniteSet(S)
  BY FewAreFinite
<1>2. S \subseteq Int /\ Periods.bollinger \in S /\ Periods.bollinger \in Nat
      /\ Periods.bollinger > 1
  BY PeriodsType
<1>3. x # NoSignal => /\ AtLeastBars(c, S, 2)
                      /\ x = [side |-> "BUY", entry |-> entry, stop |-> stop, target |-> ma]
                      /\ ma > entry /\ stop < entry
  BY DEF MeanReversion
<1>4. CASE x # NoSignal
  <2>1. Periods.bollinger + 2 <= Len(c) /\ Len(c) \in Nat
    <3>1. Len(c) \in Nat
      BY DEF Sound
    <3> HIDE DEF S, x, stop, entry, ma
    <3> QED
      BY <1>1, <1>2, <1>3, <1>4, <3>1, LongEnough
  <2>2. Len(c) >= 1 /\ Len(c) \in 1..Len(c) /\ Periods.bollinger <= Len(c)
    BY <1>2, <2>1
  <2>3. lower \in Int
    BY <1>2, <2>2, BandsType
  <2>4. stop \in Int
    <3> HIDE DEF lower
    <3> QED
      BY <2>3
  <2>5. entry \in Nat \ {0}
    BY <2>2, LatestNumbers
  <2> HIDE DEF x, stop, ma
  <2>6. FoundOf(x, c)
    BY <1>3, <1>4, <2>2, <2>4, <2>5 DEF FoundOf, LegalPrices
  <2>7. Bought(x, c)
    BY <1>3, <1>4, <2>6 DEF Bought, SoundSignal
  <2> QED
    BY <2>7 DEF x
<1>5. CASE x = NoSignal
  BY <1>5 DEF Bought, SoundSignal
<1> QED
  BY <1>4, <1>5

(* The one that sells.                                                      *)
LEMMA ShortSound ==
  ASSUME NEW c, Sound(c), SupertrendShort(c) # NoSignal
  PROVE  /\ FoundOf(SupertrendShort(c), c) /\ SupertrendShort(c).side = "SELL"
         /\ Periods.dma + Periods.lookback + 5 <= Len(c)
         /\ Periods.supertrend + 5 <= Len(c)
<1> DEFINE S == {Periods.supertrend, Periods.dma + Periods.lookback, Periods.volume}
           x == SupertrendShort(c)
           entry == 100 * Latest(c).close
           stop == LineOf(c)[Len(c)].upper + LineDistance(c)
           target == entry - 2 * (stop - entry)
<1>1. IsFiniteSet(S)
  BY FewAreFinite
<1>2. S \subseteq Int /\ Periods.supertrend \in S /\ Periods.dma + Periods.lookback \in S
      /\ Periods.supertrend \in Nat
  BY PeriodsType
<1>3. /\ AtLeastBars(c, S, 5)
      /\ x = [side |-> "SELL", entry |-> entry, stop |-> stop, target |-> target]
      /\ stop > entry
  BY DEF SupertrendShort
<1>4. Len(c) \in Nat
  BY DEF Sound
<1>5. /\ Periods.supertrend + 5 <= Len(c)
      /\ Periods.dma + Periods.lookback + 5 <= Len(c)
  <2> HIDE DEF S, x, entry, stop, target
  <2> QED
    BY <1>1, <1>2, <1>3, LongEnough
<1>6. Len(c) >= 1 /\ Periods.supertrend <= Len(c)
  BY <1>2, <1>4, <1>5
<1>7. stop \in Int
  BY <1>6, LineNumbers DEF LineType
<1>8. entry \in Nat \ {0}
  BY <1>6, LatestNumbers
<1>9. target < entry
  <2> HIDE DEF entry, stop
  <2> QED
    BY <1>3, <1>7, <1>8
<1> HIDE DEF x, stop, target
<1>10. FoundOf(x, c) /\ x.side = "SELL"
  BY <1>3, <1>6, <1>7, <1>8, <1>9 DEF FoundOf, LegalPrices
<1> QED
  BY <1>5, <1>10 DEF x

-----------------------------------------------------------------------------
(* Strategies that exclude each other, or that find the same                *)

(* A close above the channel is above every close it looks back on.         *)
LEMMA AboveChannel ==
  ASSUME NEW c, Sound(c), NEW n \in Nat \ {0}, n + 1 <= Len(c),
         Latest(c).close > Highest(c, n, Len(c) - 1), NEW back \in 1..n
  PROVE  c[Len(c) - back].close < Latest(c).close
<1>1. /\ Len(c) - 1 \in 1..Len(c) /\ n <= Len(c) - 1
      /\ Len(c) - back \in Window(n, Len(c) - 1)
      /\ Len(c) - back \in 1..Len(c) /\ Len(c) \in 1..Len(c) /\ Len(c) >= 1
  BY DEF Sound, Window
<1>2. /\ Highest(c, n, Len(c) - 1) \in Int
      /\ c[Len(c) - back].high <= Highest(c, n, Len(c) - 1)
  BY <1>1, HighestIsAbove
<1>3. /\ c[Len(c) - back].close <= c[Len(c) - back].high
      /\ c[Len(c) - back].close \in Nat /\ c[Len(c) - back].high \in Nat
      /\ Latest(c).close \in Nat
  BY <1>1, BarNumbers, LatestNumbers
<1> QED
  BY <1>2, <1>3

(* So is one above the highest close of some bars before it.                *)
LEMMA AboveCloses ==
  ASSUME NEW c, Sound(c), NEW n \in Nat \ {0}, n + 1 <= Len(c),
         Latest(c).close > Max({c[j].close : j \in (Len(c) - n)..(Len(c) - 1)}),
         NEW back \in 1..n
  PROVE  c[Len(c) - back].close < Latest(c).close
<1> DEFINE past == (Len(c) - n)..(Len(c) - 1)
           closes == {c[j].close : j \in past}
<1>1. /\ Len(c) \in Nat /\ Len(c) - n \in Int /\ Len(c) - 1 \in Int
      /\ past \subseteq 1..Len(c) /\ Len(c) - back \in past /\ Len(c) >= 1
  BY DEF Sound
<1>2. \A j \in past : c[j].close \in Nat
  BY <1>1, BarNumbers
<1>3. IsFiniteSet(closes)
  <2> DEFINE f == [j \in past |-> c[j].close]
  <2>1. f \in Surjection(past, closes)
    BY DEF Surjection
  <2>2. IsFiniteSet(past)
    BY <1>1, FS_Interval
  <2> QED
    BY <2>1, <2>2, FS_Surjection
<1>4. closes \subseteq Int /\ c[Len(c) - back].close \in closes
  BY <1>1, <1>2
<1>5. Latest(c).close > Max(closes)
  OBVIOUS
<1>6. Latest(c).close \in Nat
  BY <1>1, LatestNumbers
<1> HIDE DEF closes
<1>7. IsGreatest(Max(closes), closes)
  BY <1>3, <1>4, GreatestExists
<1>8. Max(closes) \in Int /\ c[Len(c) - back].close <= Max(closes)
  BY <1>4, <1>7 DEF IsGreatest
<1>9. c[Len(c) - back].close \in Nat
  BY <1>1, <1>2
<1> QED
  BY <1>5, <1>6, <1>8, <1>9

(* Where it sells, no strategy that buys a breakout fires.                  *)
LEMMA NoShortAtBreakout ==
  ASSUME NEW c, Sound(c), NEW trends, SupertrendShort(c) # NoSignal
  PROVE  /\ SupertrendLong(c, trends) = NoSignal
         /\ TrendBreakout(c) = NoSignal
         /\ VolumeBreakoutConfirm(c) = NoSignal
         /\ ObvTrend(c) = NoSignal
<1> DEFINE back == Periods.lookback
           then == c[Len(c) - back].close
           now == Latest(c).close
<1>1. /\ 100 * now < 97 * then
      /\ LineOf(c)[Len(c)].direction = -1
  BY DEF SupertrendShort
<1>2. /\ back \in Nat \ {0} /\ Periods.dma \in Nat
      /\ Periods.donchian \in Nat \ {0} /\ back <= Periods.donchian
      /\ Periods.donchianShort \in Nat \ {0} /\ back <= Periods.donchianShort
      /\ Periods.obv \in Nat \ {0} /\ back <= Periods.obv
  BY PeriodsType
<1>9. Len(c) \in Nat /\ Periods.dma + back + 5 <= Len(c)
  <2>1. Len(c) \in Nat
    BY DEF Sound
  <2>2. Periods.dma + Periods.lookback + 5 <= Len(c)
    BY ShortSound
  <2> QED
    BY <2>1, <2>2
<1>3. now \in Nat /\ then \in Nat
  <2>1. Len(c) - back \in 1..Len(c) /\ Len(c) >= 1
    BY SMTT(30), <1>2, <1>9
  <2> QED
    BY <2>1, BarNumbers, LatestNumbers
<1>4. ~(then < now)
  <2> HIDE DEF then, now
  <2> QED
    BY <1>1, <1>3
<1>5. SupertrendLong(c, trends) = NoSignal
  BY <1>1 DEF SupertrendLong
<1>6. TrendBreakout(c) = NoSignal
  <2> DEFINE S == {Periods.donchian, Periods.atr, Periods.volume}
  <2>1. IsFiniteSet(S) /\ S \subseteq Int /\ Periods.donchian \in S
    <3>1. IsFiniteSet(S)
      BY FewAreFinite
    <3> QED
      BY <3>1, PeriodsType
  <2>2. SUFFICES ASSUME TrendBreakout(c) # NoSignal PROVE FALSE
    OBVIOUS
  <2>3. AtLeastBars(c, S, 2) /\ now > Highest(c, Periods.donchian, Len(c) - 1)
    BY <2>2 DEF TrendBreakout
  <2> HIDE DEF S
  <2>4. Periods.donchian + 2 <= Len(c)
    BY <2>1, <2>3, LongEnough
  <2>5. Periods.donchian + 1 <= Len(c) /\ back \in 1..Periods.donchian
        /\ Periods.donchian \in Nat \ {0}
    BY <1>2, <1>9, <2>4
  <2>6. then < now
    BY <2>3, <2>5, AboveChannel
  <2> QED
    BY <1>4, <2>6
<1>7. VolumeBreakoutConfirm(c) = NoSignal
  <2> DEFINE S == {Periods.donchianShort, Periods.volume, Periods.dma, Periods.atr}
  <2>1. IsFiniteSet(S) /\ S \subseteq Int /\ Periods.donchianShort \in S
    <3>1. IsFiniteSet(S)
      BY FewAreFinite
    <3> QED
      BY <3>1, PeriodsType
  <2>2. SUFFICES ASSUME VolumeBreakoutConfirm(c) # NoSignal PROVE FALSE
    OBVIOUS
  <2>3. AtLeastBars(c, S, 3) /\ now > Highest(c, Periods.donchianShort, Len(c) - 1)
    BY <2>2 DEF VolumeBreakoutConfirm
  <2> HIDE DEF S
  <2>4. Periods.donchianShort + 3 <= Len(c)
    BY <2>1, <2>3, LongEnough
  <2>5. Periods.donchianShort + 1 <= Len(c) /\ back \in 1..Periods.donchianShort
        /\ Periods.donchianShort \in Nat \ {0}
    BY <1>2, <1>9, <2>4
  <2>6. then < now
    BY <2>3, <2>5, AboveChannel
  <2> QED
    BY <1>4, <2>6
<1>8. ObvTrend(c) = NoSignal
  <2> DEFINE S == {Periods.obv, Periods.atr}
  <2>1. IsFiniteSet(S) /\ S \subseteq Int /\ Periods.obv \in S
    <3>1. IsFiniteSet(S)
      BY FewAreFinite
    <3> QED
      BY <3>1, PeriodsType
  <2>2. SUFFICES ASSUME ObvTrend(c) # NoSignal PROVE FALSE
    OBVIOUS
  <2>3. /\ AtLeastBars(c, S, 3)
        /\ now > Max({c[j].close : j \in (Len(c) - Periods.obv)..(Len(c) - 1)})
    BY <2>2 DEF ObvTrend
  <2> HIDE DEF S
  <2>4. Periods.obv + 3 <= Len(c)
    BY <2>1, <2>3, LongEnough
  <2>5. Periods.obv + 1 <= Len(c) /\ back \in 1..Periods.obv /\ Periods.obv \in Nat \ {0}
    BY <1>2, <1>9, <2>4
  <2>6. then < now
    BY <2>3, <2>5, AboveCloses
  <2> QED
    BY <1>4, <2>6
<1> QED
  BY <1>5, <1>6, <1>7, <1>8

(* The looser threshold, where the volume is enough for both.               *)
LEMMA LooserFindsIt ==
  ASSUME NEW c, Sound(c), RsiBounce(c) # NoSignal,
         VolumeRatioAtLeast(c, Periods.volume, Len(c), 15)
  PROVE  VixSpikeBounce(c) # NoSignal /\ VixSpikeBounce(c).side = "BUY"
<1> DEFINE n == Len(c)
<1>1. Reversal(c) /\ Oversold(c, 30) /\ RsiBounce(c) = LongByAtr(c, 15, 20)
  BY DEF RsiBounce
<1>2. ~(Atr(c, Periods.atr, n) <= 0)
  BY <1>1 DEF LongByAtr
<1>3. Oversold(c, 35)
  <2>1. HasRsi(c, Periods.rsi, n) /\ Rsi(c, Periods.rsi, n) < 3000
    BY <1>1 DEF Oversold
  <2>2. n \in Nat /\ Periods.rsi \in Nat \ {0} /\ Periods.rsi <= n
    <3>1. n \in Nat
      BY DEF Sound
    <3>2. n >= Periods.rsi
      BY <2>1 DEF HasRsi
    <3>3. Periods.rsi \in Nat \ {0}
      BY PeriodsType
    <3> QED
      BY <3>1, <3>2, <3>3
  <2>3. n \in 1..n
    BY <2>2
  <2>4. Rsi(c, Periods.rsi, n) \in Int
    BY <2>1, <2>2, <2>3, RsiType
  <2> QED
    BY <2>1, <2>4 DEF Oversold
<1>4. VixSpikeBounce(c) = LongByAtr(c, 20, 15)
  BY <1>1, <1>3 DEF VixSpikeBounce
<1>5. LongByAtr(c, 20, 15).side = "BUY"
  BY <1>2 DEF LongByAtr
<1> QED
  BY <1>4, <1>5 DEF NoSignal

-----------------------------------------------------------------------------
(* What the handler hands on                                                *)

Sought(c, r) ==
  [ema_crossover |-> EmaCrossover(c), trend_breakout |-> TrendBreakout(c),
   volume_breakout_confirm |-> VolumeBreakoutConfirm(c), obv_trend |-> ObvTrend(c),
   momentum_strength |-> MomentumStrength(c), rsi_momentum |-> RsiMomentum(c),
   supertrend |-> SupertrendLong(c, r.trends), supertrend_short |-> SupertrendShort(c),
   mean_reversion |-> MeanReversion(c), bb_squeeze |-> BbSqueeze(c),
   volatility_compression |-> VolatilityCompression(c),
   nr_pattern |-> NRPatternBreakout(c), gap_and_hold |-> GapAndHold(c),
   rsi_bounce |-> RsiBounce(c), vix_spike_bounce |-> VixSpikeBounce(c)]

(* The fifteen strategies.                                                  *)
LEMMA Names ==
  StrategyNames =
    {"ema_crossover", "trend_breakout", "volume_breakout_confirm", "obv_trend",
     "momentum_strength", "rsi_momentum", "supertrend", "supertrend_short",
     "mean_reversion", "bb_squeeze", "volatility_compression", "nr_pattern",
     "gap_and_hold", "rsi_bounce", "vix_spike_bounce"}
BY DEF StrategyNames, Supports

(* A strategy is asked if it supports the regime.                           *)
LEMMA EvaluatedIs ==
  ASSUME NEW c, NEW r, NEW name \in StrategyNames
  PROVE  Evaluated(c, RegimeOf(r), r.trends)[name] =
           IF RegimeOf(r) \in Supports[name] THEN Sought(c, r)[name] ELSE NoSignal
BY Names DEF Evaluated, Sought

(* What it found is handed on if there is enough history and the index      *)
(* admits it.                                                               *)
LEMMA HandedIs ==
  ASSUME NEW c, NEW r, NEW name \in StrategyNames
  PROVE  /\ Handed(c, r)[name] \in {NoSignal, Sought(c, r)[name]}
         /\ Handed(c, r)[name] # NoSignal =>
              /\ RegimeOf(r) \in Supports[name]
              /\ Len(c) >= MinHistory
              /\ Admitted(Sought(c, r)[name], r)
         /\ (/\ RegimeOf(r) \in Supports[name]
             /\ Len(c) >= MinHistory
             /\ Admitted(Sought(c, r)[name], r)) => Handed(c, r)[name] = Sought(c, r)[name]
BY EvaluatedIs DEF Handed

(* What any strategy finds is sound.                                        *)
LEMMA SoughtIsSound ==
  ASSUME NEW c, Sound(c), NEW r, NEW name \in StrategyNames
  PROVE  SoundSignal(Sought(c, r)[name], c)
<1>1. /\ SoundSignal(EmaCrossover(c), c) /\ SoundSignal(TrendBreakout(c), c)
      /\ SoundSignal(VolumeBreakoutConfirm(c), c) /\ SoundSignal(ObvTrend(c), c)
      /\ SoundSignal(MomentumStrength(c), c) /\ SoundSignal(RsiMomentum(c), c)
      /\ SoundSignal(BbSqueeze(c), c) /\ SoundSignal(VolatilityCompression(c), c)
      /\ SoundSignal(RsiBounce(c), c) /\ SoundSignal(VixSpikeBounce(c), c)
  BY LongsByRange DEF Bought
<1>2. /\ SoundSignal(SupertrendLong(c, r.trends), c)
      /\ SoundSignal(NRPatternBreakout(c), c) /\ SoundSignal(GapAndHold(c), c)
  BY LongsWithStop DEF Bought
<1>3. SoundSignal(MeanReversion(c), c)
  BY MeanReversionSound DEF Bought
<1>4. SoundSignal(SupertrendShort(c), c)
  BY ShortSound DEF SoundSignal
<1> QED
  BY <1>1, <1>2, <1>3, <1>4, Names DEF Sought

(* What is handed on is sound.                                              *)
LEMMA HandedIsSound ==
  ASSUME NEW c, Sound(c), NEW r, NEW name \in StrategyNames
  PROVE  SoundSignal(Handed(c, r)[name], c)
<1>1. SoundSignal(Sought(c, r)[name], c)
  BY SoughtIsSound
<1>2. SoundSignal(NoSignal, c)
  BY DEF SoundSignal
<1> QED
  BY <1>1, <1>2, HandedIs

(* At the beginning nothing is handed on.                                   *)
LEMMA NothingIsHanded ==
  ASSUME NEW name \in StrategyNames
  PROVE  NothingHanded[name] = NoSignal
BY DEF NothingHanded

-----------------------------------------------------------------------------
(* The inductive invariant of the pipeline                                  *)

LegalOrder ==
  /\ signal.symbol = "symbol" /\ signal.side \in {"BUY", "SELL"}
  /\ signal.side = "BUY" => signal.stop < signal.entry
  /\ signal.side = "SELL" => signal.stop > signal.entry

PipelineInv ==
  /\ Sizeable
  /\ Sound(candles)
  /\ context = NoContext => Len(candles) >= 2
  /\ handed = Handed(candles, reading) \/ handed = NothingHanded
  /\ context # NoContext => LegalOrder

(* The larger and the smaller of two numbers.                               *)
LEMMA TwoNumbers ==
  ASSUME NEW a \in Int, NEW b \in Int
  PROVE  /\ Max({a, b}) \in {a, b} /\ a <= Max({a, b}) /\ b <= Max({a, b})
         /\ Min({a, b}) \in {a, b} /\ Min({a, b}) <= a /\ Min({a, b}) <= b
<1>1. \E x \in {a, b} : \A y \in {a, b} : x >= y
  OBVIOUS
<1>2. \E x \in {a, b} : \A y \in {a, b} : x =< y
  OBVIOUS
<1>3. Max({a, b}) \in {a, b} /\ \A y \in {a, b} : Max({a, b}) >= y
  BY <1>1 DEF Max
<1>4. Min({a, b}) \in {a, b} /\ \A y \in {a, b} : Min({a, b}) =< y
  BY <1>2 DEF Min
<1> QED
  BY <1>3, <1>4

(* A shape above zero is a bar.                                             *)
LEMMA ShapedIsABar ==
  ASSUME NEW close \in Nat, NEW shape \in Bars, Shaped(close, shape).low > 0
  PROVE  IsBar(Shaped(close, shape))
<1> DEFINE bar == Shaped(close, shape)
           open == close + shape.gap
           end == open + shape.body
<1>1. /\ shape.gap \in Int /\ shape.body \in Int /\ shape.upper \in Nat
      /\ shape.lower \in Nat /\ shape.volume \in Nat
  BY PipelineAssumption
<1>2. open \in Int /\ end \in Int
  BY <1>1
<1>3. bar = [open |-> open, close |-> end, high |-> Max({open, end}) + shape.upper,
             low |-> Min({open, end}) - shape.lower, volume |-> shape.volume]
  BY DEF Shaped
<1> HIDE DEF open, end
<1>4. /\ Max({open, end}) \in Int /\ open <= Max({open, end}) /\ end <= Max({open, end})
      /\ Min({open, end}) \in Int /\ Min({open, end}) <= open /\ Min({open, end}) <= end
  BY <1>2, TwoNumbers
<1> HIDE DEF bar
<1>5. bar.low > 0
  BY DEF bar
<1>6. /\ bar.low \in Int /\ bar.low <= open /\ bar.low <= end
      /\ bar.high \in Int /\ open <= bar.high /\ end <= bar.high
  <2> DEFINE top == Max({open, end})
             bottom == Min({open, end})
  <2>1. /\ top \in Int /\ open <= top /\ end <= top
        /\ bottom \in Int /\ bottom <= open /\ bottom <= end
    BY <1>4
  <2>2. bar.high = top + shape.upper /\ bar.low = bottom - shape.lower
    BY <1>3
  <2> HIDE DEF top, bottom
  <2> QED
    BY <1>1, <1>2, <2>1, <2>2
<1>7. bar.open = open /\ bar.close = end
  BY <1>3
<1>8. /\ bar.open \in Nat /\ bar.close \in Nat /\ bar.high \in Nat /\ bar.low \in Nat
  BY <1>2, <1>5, <1>6, <1>7
<1>9. bar \in BarType
  BY <1>1, <1>3, <1>8 DEF BarType
<1> QED
  BY <1>5, <1>6, <1>7, <1>9 DEF IsBar, bar

(* Sound bars stay sound with one more.                                     *)
LEMMA AppendIsSound ==
  ASSUME NEW c, Sound(c), NEW bar, IsBar(bar)
  PROVE  Sound(Append(c, bar)) /\ Len(Append(c, bar)) = Len(c) + 1
<1>1. c \in Seq(BarType) /\ bar \in BarType
  BY DEF Sound, IsBar
<1>2. /\ Append(c, bar) \in Seq(BarType) /\ Len(Append(c, bar)) = Len(c) + 1
      /\ Len(c) \in Nat
  BY <1>1
<1>3. ASSUME NEW i \in 1..Len(Append(c, bar))
      PROVE  IsBar(Append(c, bar)[i])
  <2>1. CASE i = Len(c) + 1
    <3>1. Append(c, bar)[i] = bar
      BY <1>1, <2>1
    <3> QED
      BY <3>1
  <2>2. CASE i # Len(c) + 1
    <3>1. i \in 1..Len(c)
      BY <1>2, <1>3, <2>2
    <3>2. Append(c, bar)[i] = c[i]
      BY <1>1, <3>1
    <3> QED
      BY <3>1, <3>2 DEF Sound
  <2> QED
    BY <2>1, <2>2
<1> QED
  BY <1>2, <1>3 DEF Sound

(* The invariant holds at the beginning.                                    *)
LEMMA PipelineInitInv == PipelineInit => PipelineInv
<1> SUFFICES ASSUME PipelineInit PROVE PipelineInv
  OBVIOUS
<1>1. Sizeable
  <2> DEFINE price == CHOOSE p \in EntryPrices : p \in StopPrices
  <2>1. price \in EntryPrices
    BY PipelineAssumption
  <2>2. price \in Nat \ {0}
    BY <2>1, SizingAssumption
  <2>3. signal = [symbol |-> "symbol", side |-> "BUY", entry |-> price, stop |-> price]
    BY DEF PipelineInit, NoOrder
  <2> HIDE DEF price
  <2>4. signal.entry = price /\ signal.stop = price
    BY <2>3
  <2>5. equity \in Int
    BY SizingAssumption DEF PipelineInit
  <2> QED
    BY <2>2, <2>4, <2>5 DEF Sizeable
<1>2. Sound(candles) /\ Len(candles) >= 2
  BY PipelineAssumption DEF PipelineInit, Sound
<1>3. handed = Handed(candles, reading) /\ context = NoContext
  BY DEF PipelineInit
<1> QED
  BY <1>1, <1>2, <1>3 DEF PipelineInv

(* Every step keeps it.                                                     *)
LEMMA PipelineStepInv == PipelineInv /\ [PipelineNext]_pipeline => PipelineInv'
<1> SUFFICES ASSUME PipelineInv, [PipelineNext]_pipeline PROVE PipelineInv'
  OBVIOUS
<1>1. CASE CandleClose
  <2>1. context = NoContext /\ context' = NoContext /\ UNCHANGED sizing
    BY <1>1 DEF CandleClose
  <2>2. PICK shape \in Bars :
          /\ Shaped(Latest(candles).close, shape).low > 0
          /\ candles' = Append(candles, Shaped(Latest(candles).close, shape))
    BY <1>1 DEF CandleClose
  <2> DEFINE bar == Shaped(Latest(candles).close, shape)
  <2>3. Sound(candles) /\ Len(candles) >= 2 /\ Len(candles) \in Nat
    BY <2>1 DEF PipelineInv, Sound
  <2>4. Latest(candles).close \in Nat
    BY <2>3, LatestNumbers
  <2>5. IsBar(bar)
    BY <2>2, <2>4, ShapedIsABar
  <2>6. Sound(candles') /\ Len(candles') >= 2
    <3> HIDE DEF bar
    <3>1. Sound(Append(candles, bar)) /\ Len(Append(candles, bar)) = Len(candles) + 1
      BY <2>3, <2>5, AppendIsSound
    <3>2. candles' = Append(candles, bar)
      BY <2>2 DEF bar
    <3> QED
      BY <2>3, <3>1, <3>2
  <2>7. handed' = Handed(candles', reading')
    BY <1>1 DEF CandleClose
  <2>8. Sizeable'
    BY <2>1 DEF PipelineInv, Sizeable, sizing
  <2> QED
    BY <2>1, <2>6, <2>7, <2>8 DEF PipelineInv, Sound, IsBar, BarType, Handed
<1>2. CASE HandleOne
  <2>1. PICK name \in AgentBuilds :
          /\ Fires(handed[name])
          /\ signal' = [symbol |-> "symbol", side |-> handed[name].side,
                        entry |-> handed[name].entry, stop |-> handed[name].stop]
    BY <1>2 DEF HandleOne
  <2>2. name \in StrategyNames
    BY <2>1, PipelineAssumption DEF AgentBuilds
  <2>3. handed[name] # NoSignal
    BY <2>1 DEF Fires
  <2>4. FoundOf(handed[name], candles)
    <3>1. handed = Handed(candles, reading)
      BY <2>2, <2>3, NothingIsHanded DEF PipelineInv
    <3>2. SoundSignal(Handed(candles, reading)[name], candles)
      BY <2>2, HandedIsSound DEF PipelineInv
    <3> QED
      BY <2>3, <3>1, <3>2 DEF SoundSignal
  <2>5. /\ signal'.symbol = "symbol" /\ signal'.side = handed[name].side
        /\ signal'.entry = handed[name].entry /\ signal'.stop = handed[name].stop
    BY <2>1
  <2>6. /\ handed[name].side \in {"BUY", "SELL"} /\ handed[name].entry \in Nat \ {0}
        /\ handed[name].stop \in Int
        /\ handed[name].side = "BUY" => handed[name].stop < handed[name].entry
        /\ handed[name].side = "SELL" => handed[name].stop > handed[name].entry
    BY <2>4 DEF FoundOf, LegalPrices
  <2>7. Sizeable'
    <3>1. equity' \in Int
      BY <1>2 DEF HandleOne, PipelineInv, Sizeable
    <3> QED
      BY <2>5, <2>6, <3>1 DEF Sizeable
  <2>8. LegalOrder'
    BY <2>5, <2>6 DEF LegalOrder
  <2>9. candles' = <<>> /\ handed' = NothingHanded
    BY <1>2 DEF HandleOne
  <2>10. Sound(candles')
    BY <2>9 DEF Sound
  <2>11. context' # NoContext
    BY <1>2, PipelineAssumption DEF HandleOne, NoContext
  <2>12. handed' = NothingHanded'
    BY <2>9 DEF NothingHanded
  <2> QED
    BY <2>7, <2>8, <2>10, <2>11, <2>12 DEF PipelineInv
<1>3. CASE EquityMoves
  <2>1. /\ equity' \in Int /\ UNCHANGED <<signal, candles, reading, handed, context>>
    <3>1. equity \in Int
      BY DEF PipelineInv, Sizeable
    <3> QED
      BY <1>3, <3>1, SizingAssumption DEF EquityMoves, Gain, Lose
  <2>2. Sizeable' /\ (LegalOrder => LegalOrder')
    BY <2>1 DEF PipelineInv, Sizeable, LegalOrder
  <2> QED
    BY <2>1, <2>2 DEF PipelineInv
<1>4. CASE UNCHANGED pipeline
  <2>1. UNCHANGED <<equity, signal, candles, reading, handed, context>>
    BY <1>4 DEF pipeline, sizing
  <2>2. Sizeable' /\ (LegalOrder => LegalOrder')
    BY <2>1 DEF PipelineInv, Sizeable, LegalOrder
  <2> QED
    BY <2>1, <2>2 DEF PipelineInv
<1> QED
  BY <1>1, <1>2, <1>3, <1>4 DEF PipelineNext

(* Bars, orders and what is handed on stay sound.                           *)
THEOREM PipelineSound == PipelineSpec => []PipelineInv
BY PipelineInitInv, PipelineStepInv, PTL DEF PipelineSpec

(* What is sized from a signal is not rejected for its size                 *)
(* (core/risk/sizing.py, guardrails.py:159 and :169).                       *)
THEOREM PipelineFits == PipelineSpec => []SizedOrdersFit
<1>1. PipelineInv => SizedOrdersFit
  BY SizedFit DEF PipelineInv
<1> QED
  BY <1>1, PipelineSound, PTL

(* A signal that is there was handed on for the bars and the index of now.  *)
LEMMA WhatIsHanded ==
  ASSUME PipelineInv, NEW name \in StrategyNames, handed[name] # NoSignal
  PROVE  handed = Handed(candles, reading)
BY NothingIsHanded DEF PipelineInv

(* What is handed on can be traded.                                         *)
LEMMA HandedIsLegal == PipelineInv => SignalsAreLegal
<1> SUFFICES ASSUME PipelineInv, NEW name \in StrategyNames
             PROVE  LegalPrices(handed[name])
  BY DEF SignalsAreLegal, LegalPrices
<1>1. CASE handed[name] = NoSignal
  BY <1>1 DEF LegalPrices, NoSignal
<1>2. CASE handed[name] # NoSignal
  <2>1. SoundSignal(Handed(candles, reading)[name], candles)
    BY HandedIsSound DEF PipelineInv
  <2>2. handed = Handed(candles, reading)
    BY <1>2, WhatIsHanded
  <2> QED
    BY <1>2, <2>1, <2>2 DEF SoundSignal, FoundOf
<1> QED
  BY <1>1, <1>2

(* No short is handed on beside a breakout.                                 *)
LEMMA HandedShortIsAlone == PipelineInv => ShortAgainstNoBreakout
<1> SUFFICES ASSUME PipelineInv, handed["supertrend_short"] # NoSignal,
                    NEW name \in Breakouts, handed[name] # NoSignal
             PROVE  FALSE
  BY DEF ShortAgainstNoBreakout, Fires
<1>1. "supertrend_short" \in StrategyNames /\ name \in StrategyNames
  BY Names DEF Breakouts
<1>2. handed = Handed(candles, reading)
  BY <1>1, WhatIsHanded
<1>3. Sought(candles, reading)["supertrend_short"] # NoSignal
  BY <1>1, <1>2, HandedIs
<1>4. Sought(candles, reading)[name] # NoSignal
  BY <1>1, <1>2, HandedIs
<1>5. SupertrendShort(candles) # NoSignal
  BY <1>3 DEF Sought
<1>6. /\ SupertrendLong(candles, reading.trends) = NoSignal
      /\ TrendBreakout(candles) = NoSignal
      /\ VolumeBreakoutConfirm(candles) = NoSignal
      /\ ObvTrend(candles) = NoSignal
  BY <1>5, NoShortAtBreakout DEF PipelineInv
<1> QED
  BY <1>4, <1>6 DEF Sought, Breakouts

(* The looser threshold finds what the tighter does.                        *)
LEMMA HandedLooserFinds == PipelineInv => VixSpikeSeesMore
<1> SUFFICES ASSUME PipelineInv, RegimeOf(reading) = "VOLATILE",
                    handed["rsi_bounce"] # NoSignal,
                    VolumeRatioAtLeast(candles, Periods.volume, Len(candles), 15)
             PROVE  handed["vix_spike_bounce"] # NoSignal
  BY DEF VixSpikeSeesMore, Fires
<1>1. "rsi_bounce" \in StrategyNames /\ "vix_spike_bounce" \in StrategyNames
  BY Names
<1>2. handed = Handed(candles, reading)
  BY <1>1, WhatIsHanded
<1> DEFINE bounce == Sought(candles, reading)["rsi_bounce"]
           spike == Sought(candles, reading)["vix_spike_bounce"]
<1>3. bounce = RsiBounce(candles) /\ spike = VixSpikeBounce(candles)
  BY DEF Sought
<1>4. bounce # NoSignal /\ Len(candles) >= MinHistory /\ Admitted(bounce, reading)
  BY <1>1, <1>2, HandedIs
<1>5. spike # NoSignal /\ spike.side = "BUY"
  BY <1>3, <1>4, LooserFindsIt DEF PipelineInv
<1>6. bounce.side = "BUY"
  BY <1>3, <1>4, LongsByRange DEF PipelineInv, Bought
<1>7. Admitted(spike, reading)
  BY <1>4, <1>5, <1>6 DEF Admitted
<1>8. RegimeOf(reading) \in Supports["vix_spike_bounce"]
  BY DEF Supports
<1>9. Handed(candles, reading)["vix_spike_bounce"] = spike
  BY <1>1, <1>4, <1>7, <1>8, HandedIs
<1> QED
  BY <1>2, <1>5, <1>9

(* What is handed on the engine has tried, but for one strategy.            *)
LEMMA HandedWasTried == PipelineInv => TradedWasTried
<1> SUFFICES ASSUME PipelineInv, NEW name \in AgentBuilds \ EngineBuilds,
                    handed[name] # NoSignal
             PROVE  RegimeOf(reading) = "VOLATILE" /\ name = "vix_spike_bounce"
  BY DEF TradedWasTried, Fires
<1>1. name = "vix_spike_bounce"
  BY DEF AgentBuilds, EngineBuilds
<1>2. name \in StrategyNames
  BY <1>1, Names
<1>3. handed = Handed(candles, reading)
  BY <1>2, WhatIsHanded
<1>4. RegimeOf(reading) \in Supports[name]
  BY <1>2, <1>3, HandedIs
<1> QED
  BY <1>1, <1>4 DEF Supports

(* Whatever the bars, the index and the configuration say: the prices of a  *)
(* signal are in order, a short is never handed on beside a breakout, the   *)
(* looser threshold finds what the tighter one does, and only the bounce    *)
(* after a spike is traded untried (core/strategies, orchestrator.py).      *)
THEOREM PipelineSignals == PipelineSpec => []SignalsAreSound
<1>1. PipelineInv => SignalsAreSound
  BY HandedIsLegal, HandedShortIsAlone, HandedLooserFinds, HandedWasTried
     DEF SignalsAreSound
<1> QED
  BY <1>1, PipelineSound, PTL

-----------------------------------------------------------------------------
(* The checklist of a stored decision                                       *)

(* The sixteen rules, each once.                                            *)
LEMMA RulesAreDistinct ==
  /\ Len(CheckOrderOfRules) = 16 /\ Len(RuleOrder) = 16
  /\ RuleOrder = CheckOrderOfRules
  /\ \A i \in 1..16 : CheckOrderOfRules[i] # NoRule
  /\ \A i, j \in 1..16 : CheckOrderOfRules[i] = CheckOrderOfRules[j] => i = j
<1> DEFINE place == [global_halt |-> 1, qty_positive |-> 2, stop_loss_required |-> 3,
                     market_window |-> 4, stale_data |-> 5, black_swan_nifty |-> 6,
                     black_swan_vix |-> 7, max_open_positions |-> 8,
                     per_trade_risk |-> 9, max_position_size |-> 10, liquidity |-> 11,
                     spread |-> 12, daily_loss_circuit |-> 13, drawdown_circuit |-> 14,
                     signal_cooldown |-> 15, duplicate_position |-> 16]
<1>1. \A i \in 1..16 : \/ i = 1 \/ i = 2 \/ i = 3 \/ i = 4 \/ i = 5 \/ i = 6 \/ i = 7 \/ i = 8
                       \/ i = 9 \/ i = 10 \/ i = 11 \/ i = 12 \/ i = 13 \/ i = 14
                       \/ i = 15 \/ i = 16
  OBVIOUS
<1>2. Len(CheckOrderOfRules) = 16 /\ Len(RuleOrder) = 16
  BY DEF CheckOrderOfRules, RuleOrder
<1>3. RuleOrder = CheckOrderOfRules
  BY DEF CheckOrderOfRules, RuleOrder
<1>4. ASSUME NEW i \in 1..16
      PROVE  place[CheckOrderOfRules[i]] = i /\ CheckOrderOfRules[i] # NoRule
  BY <1>1 DEF CheckOrderOfRules, NoRule
<1> HIDE DEF place
<1> QED
  BY <1>2, <1>3, <1>4

(* A rule is at its place.                                                  *)
LEMMA PositionIs ==
  ASSUME NEW i \in 1..16
  PROVE  Position(CheckOrderOfRules[i]) = i
<1> DEFINE rule == CheckOrderOfRules[i]
<1>1. \A j \in 1..16 : CheckOrderOfRules[j] = rule => j = i
  BY RulesAreDistinct
<1>2. Position(rule) = CHOOSE j \in 1..16 : CheckOrderOfRules[j] = rule
  BY RulesAreDistinct DEF Position
<1> QED
  BY <1>1, <1>2

(* What no rule rejects is allowed.                                         *)
LEMMA AllowedIffNoneRejects ==
  ASSUME NEW s, NEW qty, NEW portfolio, NEW market
  PROVE  Allowed(s, qty, portfolio, market) <=>
           \A i \in 1..16 : ~Rejects(CheckOrderOfRules[i], s, qty, portfolio, market)
<1> DEFINE R(rule) == Rejects(rule, s, qty, portfolio, market)
<1>1. /\ CheckOrderOfRules[1] = "global_halt" /\ CheckOrderOfRules[2] = "qty_positive"
      /\ CheckOrderOfRules[3] = "stop_loss_required"
      /\ CheckOrderOfRules[4] = "market_window" /\ CheckOrderOfRules[5] = "stale_data"
      /\ CheckOrderOfRules[6] = "black_swan_nifty"
      /\ CheckOrderOfRules[7] = "black_swan_vix"
      /\ CheckOrderOfRules[8] = "max_open_positions"
      /\ CheckOrderOfRules[9] = "per_trade_risk"
      /\ CheckOrderOfRules[10] = "max_position_size"
      /\ CheckOrderOfRules[11] = "liquidity" /\ CheckOrderOfRules[12] = "spread"
      /\ CheckOrderOfRules[13] = "daily_loss_circuit"
      /\ CheckOrderOfRules[14] = "drawdown_circuit"
      /\ CheckOrderOfRules[15] = "signal_cooldown"
      /\ CheckOrderOfRules[16] = "duplicate_position"
  BY DEF CheckOrderOfRules
<1>2. (\A i \in 1..16 : ~R(CheckOrderOfRules[i])) <=>
        /\ ~R(CheckOrderOfRules[1]) /\ ~R(CheckOrderOfRules[2])
        /\ ~R(CheckOrderOfRules[3]) /\ ~R(CheckOrderOfRules[4])
        /\ ~R(CheckOrderOfRules[5]) /\ ~R(CheckOrderOfRules[6])
        /\ ~R(CheckOrderOfRules[7]) /\ ~R(CheckOrderOfRules[8])
        /\ ~R(CheckOrderOfRules[9]) /\ ~R(CheckOrderOfRules[10])
        /\ ~R(CheckOrderOfRules[11]) /\ ~R(CheckOrderOfRules[12])
        /\ ~R(CheckOrderOfRules[13]) /\ ~R(CheckOrderOfRules[14])
        /\ ~R(CheckOrderOfRules[15]) /\ ~R(CheckOrderOfRules[16])
  <2> HIDE DEF R
  <2> QED
    OBVIOUS
<1>3. /\ R("global_halt") <=> GlobalHalt(portfolio)
      /\ R("qty_positive") <=> QtyNotPositive(qty)
      /\ R("stop_loss_required") <=> NoStopLoss(s)
      /\ R("market_window") <=> OutsideMarketWindow(market)
      /\ R("stale_data") <=> StaleData(market)
      /\ R("black_swan_nifty") <=> NiftyMoved(market)
      /\ R("black_swan_vix") <=> (BlackSwan(market) /\ ~NiftyMoved(market))
      /\ R("max_open_positions") <=> TooManyPositions(s, portfolio)
      /\ R("per_trade_risk") <=> TooMuchRisk(s, qty, portfolio)
      /\ R("max_position_size") <=> TooLarge(s, qty, portfolio)
      /\ R("liquidity") <=> Illiquid(qty, market)
      /\ R("spread") <=> WideSpread(market)
      /\ R("daily_loss_circuit") <=> DailyLossCircuit(portfolio)
      /\ R("drawdown_circuit") <=> DrawdownCircuit(portfolio)
      /\ R("signal_cooldown") <=> CoolingDown(s, portfolio, market)
      /\ ~R("duplicate_position")
  BY DEF Rejects
<1>4. NiftyMoved(market) => BlackSwan(market)
  BY DEF NiftyMoved, BlackSwan
<1> HIDE DEF R
<1>5. (\A i \in 1..16 : ~R(CheckOrderOfRules[i])) <=>
        Allowed(s, qty, portfolio, market)
  BY <1>1, <1>2, <1>3, <1>4 DEF Allowed
<1> QED
  BY <1>5 DEF R

(* The first of the rejecting rules is the reason; without one there is none. *)
LEMMA ReasonIs ==
  ASSUME NEW s, NEW qty, NEW portfolio, NEW market
  PROVE  \/ /\ Allowed(s, qty, portfolio, market)
            /\ FirstRejection(s, qty, portfolio, market) = NoRule
         \/ /\ ~Allowed(s, qty, portfolio, market)
            /\ \E i \in 1..16 :
                 /\ FirstRejection(s, qty, portfolio, market) = CheckOrderOfRules[i]
                 /\ Rejects(CheckOrderOfRules[i], s, qty, portfolio, market)
<1> DEFINE T == {i \in 1..16 : Rejects(CheckOrderOfRules[i], s, qty, portfolio, market)}
<1>1. FirstRejection(s, qty, portfolio, market)
        = IF T = {} THEN NoRule
          ELSE CheckOrderOfRules[CHOOSE i \in T : \A j \in T : i <= j]
  BY RulesAreDistinct DEF FirstRejection
<1>2. Allowed(s, qty, portfolio, market) <=> T = {}
  BY AllowedIffNoneRejects
<1>3. CASE T = {}
  BY <1>1, <1>2, <1>3
<1>4. CASE T # {}
  <2>1. T \subseteq Nat
    OBVIOUS
  <2>2. \E i \in T : \A j \in T : i <= j
    <3> HIDE DEF T
    <3> QED
      BY <1>4, <2>1, SmallestNumber
  <2> DEFINE first == CHOOSE i \in T : \A j \in T : i <= j
  <2>3. first \in T
    <3> HIDE DEF T
    <3> QED
      BY <2>2
  <2>4. FirstRejection(s, qty, portfolio, market) = CheckOrderOfRules[first]
    BY <1>1, <1>4
  <2> HIDE DEF first
  <2>5. first \in 1..16 /\ Rejects(CheckOrderOfRules[first], s, qty, portfolio, market)
    BY <2>3
  <2> QED
    BY <1>2, <1>4, <2>4, <2>5
<1> QED
  BY <1>3, <1>4

(* What the checklist shows of a rule, when the stop is on its side.        *)
LEMMA ShownIs ==
  ASSUME LegalOrder, NEW reason, NEW rule
  PROVE  LET row == SignalRow(signal, reason)
         IN  /\ Passed(row, rule) \in {"yes", "no", "unknown"}
             /\ Passed(row, rule) = "no" <=> rule = reason
             /\ reason = NoRule /\ rule # NoRule => Passed(row, rule) = "yes"
             /\ reason # NoRule /\ Passed(row, rule) = "yes" =>
                  rule = "stop_loss_required"
<1> DEFINE row == SignalRow(signal, reason)
<1>1. /\ row.reason = reason /\ (row.accepted <=> reason = NoRule)
      /\ row.side = signal.side /\ row.entry = signal.entry /\ row.stop = signal.stop
  BY DEF SignalRow
<1>2. /\ row.side = "BUY" => row.stop < row.entry
      /\ row.side # "BUY" => row.stop > row.entry
  BY <1>1 DEF LegalOrder
<1> HIDE DEF row
<1>3. /\ Passed(row, rule) \in {"yes", "no", "unknown"}
      /\ Passed(row, rule) = "no" <=> rule = reason
      /\ reason = NoRule /\ rule # NoRule => Passed(row, rule) = "yes"
      /\ reason # NoRule /\ Passed(row, rule) = "yes" => rule = "stop_loss_required"
  BY <1>1, <1>2 DEF Passed
<1> QED
  BY <1>3 DEF row

(* The trace names the rule that rejected the order.                        *)
LEMMA TraceIsTrue == PipelineInv => TraceNamesTheRule
<1> SUFFICES ASSUME PipelineInv, context # NoContext
             PROVE  LET row    == Stored
                        list   == Checklist(row)
                        says(i) == Rejects(list[i].rule, signal, Sized, PortfolioNow,
                                           context.market)
                        cutoff == CHOOSE i \in 1..Len(list) : list[i].rule = row.reason
                    IN  /\ row.accepted <=> Allowed(signal, Sized, PortfolioNow, context.market)
                        /\ row.accepted =>
                             \A i \in 1..Len(list) : list[i].passed = "yes" /\ list[i].reached
                        /\ ~row.accepted =>
                             /\ list[cutoff].passed = "no"
                             /\ \A i \in 1..(cutoff - 1) : list[i].passed # "no"
                             /\ \A i \in 1..Len(list) :
                                  /\ list[i].passed = "no" => says(i)
                                  /\ list[i].passed = "yes" /\ signal.stop > 0 => ~says(i)
                                  /\ list[i].passed = "unknown" =>
                                       (list[i].reached <=> i < cutoff)
  BY DEF TraceNamesTheRule
<1> DEFINE reason == FirstRejection(signal, Sized, PortfolioNow, context.market)
           row == Stored
           list == Checklist(row)
           rule(i) == CheckOrderOfRules[i]
           says(i) == Rejects(rule(i), signal, Sized, PortfolioNow, context.market)
           allowed == Allowed(signal, Sized, PortfolioNow, context.market)
           reached(i) == ~(/\ ~row.accepted
                           /\ Position(rule(i)) > Position(row.reason)
                           /\ Passed(row, rule(i)) = "unknown")
<1>1. row = SignalRow(signal, reason) /\ row.reason = reason
      /\ (row.accepted <=> reason = NoRule)
  BY DEF Stored, SignalRow
<1>2. LegalOrder
  BY DEF PipelineInv
<1>3. /\ list = [i \in 1..16 |-> [rule |-> rule(i), passed |-> Passed(row, rule(i)),
                                  reached |-> reached(i)]]
      /\ Len(list) = 16
  BY RulesAreDistinct DEF Checklist
<1>4. \A i \in 1..16 : /\ list[i].rule = rule(i) /\ list[i].passed = Passed(row, rule(i))
                       /\ (list[i].reached <=> reached(i))
  <2> HIDE DEF list, rule, reached, row
  <2> QED
    BY <1>3
<1>5. \/ allowed /\ reason = NoRule
      \/ ~allowed /\ \E i \in 1..16 : reason = rule(i) /\ says(i)
  BY ReasonIs
<1>6. \A i \in 1..16 : rule(i) # NoRule /\ Position(rule(i)) = i
  BY RulesAreDistinct, PositionIs
<1>7. \A i, j \in 1..16 : rule(i) = rule(j) => i = j
  BY RulesAreDistinct
<1>8. \A i \in 1..16 :
        /\ Passed(row, rule(i)) = "no" <=> rule(i) = reason
        /\ reason = NoRule => Passed(row, rule(i)) = "yes"
        /\ reason # NoRule /\ Passed(row, rule(i)) = "yes" => rule(i) = "stop_loss_required"
  <2> HIDE DEF rule, reason
  <2> QED
    BY <1>1, <1>2, <1>6, ShownIs
<1>9. \A i \in 1..16 : rule(i) = "stop_loss_required" /\ signal.stop > 0 => ~says(i)
  <2>1. signal.stop \in Int /\ signal.entry \in Nat
    BY DEF PipelineInv, Sizeable
  <2>2. signal.stop > 0 => ~NoStopLoss(signal)
    BY <1>2, <2>1 DEF LegalOrder, NoStopLoss
  <2>3. Rejects("stop_loss_required", signal, Sized, PortfolioNow, context.market)
          <=> NoStopLoss(signal)
    BY DEF Rejects
  <2> QED
    BY <2>2, <2>3
<1> HIDE DEF list, says, allowed, reason, row, rule
<1>10. CASE allowed /\ reason = NoRule
  <2>1. \A i \in 1..16 : list[i].passed = "yes" /\ list[i].reached
    BY <1>1, <1>4, <1>8, <1>10
  <2> QED
    BY <1>1, <1>3, <1>10, <2>1 DEF list, says, allowed, reason, row
<1>11. CASE ~allowed /\ \E i \in 1..16 : reason = rule(i) /\ says(i)
  <2>1. PICK k \in 1..16 : reason = rule(k) /\ says(k)
    BY <1>11
  <2>2. ~row.accepted
    BY <1>1, <1>6, <2>1
  <2> DEFINE cutoff == CHOOSE i \in 1..16 : list[i].rule = row.reason
  <2>3. cutoff = k
    <3>1. \A i \in 1..16 : list[i].rule = row.reason <=> i = k
      BY <1>1, <1>4, <1>7, <2>1
    <3> QED
      BY <3>1
  <2> HIDE DEF cutoff
  <2>4. \A i \in 1..16 : list[i].passed = "no" <=> i = k
    BY <1>4, <1>7, <1>8, <2>1
  <2>5. list[cutoff].passed = "no" /\ \A i \in 1..(cutoff - 1) : list[i].passed # "no"
    <3>1. \A i \in 1..(cutoff - 1) : i \in 1..16 /\ i # k
      BY <2>3
    <3> QED
      BY <2>3, <2>4, <3>1
  <2>6. \A i \in 1..16 : list[i].passed = "no" => says(i)
    BY <2>1, <2>4
  <2>7. \A i \in 1..16 : list[i].passed = "yes" /\ signal.stop > 0 => ~says(i)
    <3>1. reason # NoRule
      BY <1>1, <2>2
    <3> QED
      BY <1>4, <1>8, <1>9, <3>1
  <2>8. \A i \in 1..16 : list[i].passed = "unknown" => (list[i].reached <=> i < cutoff)
    <3> SUFFICES ASSUME NEW i \in 1..16, list[i].passed = "unknown"
                 PROVE  list[i].reached <=> i < cutoff
      OBVIOUS
    <3>1. i # k
      BY <2>4
    <3>2. Position(rule(i)) = i /\ Position(row.reason) = k
      BY <1>1, <1>6, <2>1
    <3>3. Passed(row, rule(i)) = "unknown"
      BY <1>4
    <3>4. reached(i) <=> ~(i > k)
      BY <2>2, <3>2, <3>3
    <3> HIDE DEF reached
    <3>5. list[i].reached <=> ~(i > k)
      BY <1>4, <3>4
    <3> QED
      BY <2>3, <3>1, <3>5
  <2> HIDE DEF reached
  <2>9. \A i \in 1..16 : says(i) <=> Rejects(list[i].rule, signal, Sized, PortfolioNow,
                                             context.market)
    BY <1>4 DEF says
  <2> QED
    BY <1>3, <1>11, <2>2, <2>5, <2>6, <2>7, <2>8, <2>9 DEF list, allowed, row, cutoff
<1> QED
  BY <1>5, <1>10, <1>11

(* The stored checklist tells the truth about the check                     *)
(* (decision_trace.py:270), for any configuration, market and account: the  *)
(* strategies' stops being on their side is what the proof needs of them.   *)
THEOREM PipelineTraces == PipelineSpec => []TraceNamesTheRule
BY PipelineSound, TraceIsTrue, PTL

-----------------------------------------------------------------------------
(* A series and the same with one bar more: what an indicator said of a bar *)
(* it says of it still.                                                     *)

Longer(d, c) ==
  /\ Sound(c) /\ Sound(d) /\ Len(d) = Len(c) + 1
  /\ \A i \in 1..Len(c) : d[i] = c[i]

(* Sums and averages over a window stay when bars are added.                *)
LEMMA SumsStay ==
  ASSUME NEW c, NEW d, Longer(d, c), NEW n \in Nat \ {0}, NEW i \in 1..Len(c), n <= i
  PROVE  CloseSum(d, n, i) = CloseSum(c, n, i) /\ Atr(d, n, i) = Atr(c, n, i)
<1>1. Len(c) \in Nat
  BY DEF Longer, Sound
<1>2. ASSUME NEW j \in Window(n, i)
      PROVE  d[j] = c[j] /\ (j # 1 => d[j - 1] = c[j - 1])
  <2>1. j \in 1..Len(c) /\ (j # 1 => j - 1 \in 1..Len(c))
    BY <1>1, WindowInside
  <2> QED
    BY <2>1 DEF Longer
<1>3. [j \in Window(n, i) |-> d[j].close] = [j \in Window(n, i) |-> c[j].close]
  BY <1>2
<1>4. [j \in Window(n, i) |-> TrueRange(d, j)] = [j \in Window(n, i) |-> TrueRange(c, j)]
  <2>1. ASSUME NEW j \in Window(n, i)
        PROVE  TrueRange(d, j) = TrueRange(c, j)
    <3>1. CASE j = 1
      BY <1>2, <3>1 DEF TrueRange
    <3>2. CASE j # 1
      <4>1. d[j] = c[j] /\ d[j - 1] = c[j - 1]
        BY <1>2, <3>2
      <4> QED
        BY <3>2, <4>1 DEF TrueRange
    <3> QED
      BY <3>1, <3>2
  <2> QED
    BY <2>1
<1> QED
  BY <1>3, <1>4 DEF CloseSum, Atr

(* So does the band.                                                        *)
LEMMA BandStays ==
  ASSUME NEW c, NEW d, Longer(d, c), NEW n \in Nat \ {0}, NEW i \in 1..Len(c), n <= i
  PROVE  UpperBand(d, n, i) = UpperBand(c, n, i)
<1>1. Len(c) \in Nat
  BY DEF Longer, Sound
<1>2. \A j \in Window(n, i) : d[j] = c[j]
  BY <1>1, WindowInside DEF Longer
<1>3. [j \in Window(n, i) |-> d[j].close * d[j].close]
        = [j \in Window(n, i) |-> c[j].close * c[j].close]
  BY <1>2
<1>4. CloseSum(d, n, i) = CloseSum(c, n, i)
  BY SumsStay
<1>5. Deviation(d, n, i) = Deviation(c, n, i)
  <2> DEFINE squares(x) == SumFunction([j \in Window(n, i) |-> x[j].close * x[j].close])
             sum(x) == CloseSum(x, n, i)
             variance(x) == (10000 * (n * squares(x) - sum(x) * sum(x))) \div (n * (n - 1))
  <2>1. \A x : Deviation(x, n, i)
                 = CHOOSE r \in 0..variance(x) : r * r <= variance(x)
                                                 /\ variance(x) < (r + 1) * (r + 1)
    BY DEF Deviation
  <2>2. squares(d) = squares(c) /\ sum(d) = sum(c)
    BY <1>3, <1>4
  <2>3. variance(d) = variance(c)
    <3> HIDE DEF squares, sum
    <3> QED
      BY <2>2
  <2> HIDE DEF variance
  <2> QED
    BY <2>1, <2>3
<1> QED
  BY <1>4, <1>5 DEF UpperBand, Middle

(* The exponential mean: its recursion has a solution.                      *)
NextMean(c, i, before, span) ==
  before + (2 * (100 * c[i].close - before)) \div (span + 1)

Averaged(g, c, span, last) ==
  g = [i \in 1..last |-> IF i = 1 THEN 100 * c[1].close
                         ELSE NextMean(c, i, g[i - 1], span)]

(* Ewm is chosen among the solutions of its recursion.                      *)
LEMMA EwmIsAveraged ==
  ASSUME NEW c, NEW span
  PROVE  Ewm(c, span) = CHOOSE g : Averaged(g, c, span, Len(c))
BY DEF Ewm, Averaged, NextMean

(* Its recursion has a solution.                                            *)
LEMMA MeansExist ==
  ASSUME NEW c, NEW span, NEW n \in Nat
  PROVE  \E g : Averaged(g, c, span, n)
<1> DEFINE Wrong == {k \in Nat : ~ \E g : Averaged(g, c, span, k)}
<1> SUFFICES ASSUME Wrong # {} PROVE FALSE
  OBVIOUS
<1>1. PICK k \in Wrong : \A m \in Wrong : k <= m
  <2>1. Wrong \subseteq Nat
    OBVIOUS
  <2> HIDE DEF Wrong
  <2> QED
    BY ONLY Wrong # {}, <2>1, SmallestNumber
<1>2. CASE k = 0
  <2> DEFINE g == [i \in 1..0 |-> 0]
  <2>1. g = [i \in 1..0 |-> IF i = 1 THEN 100 * c[1].close
                            ELSE NextMean(c, i, g[i - 1], span)]
    OBVIOUS
  <2> HIDE DEF g
  <2>2. Averaged(g, c, span, k)
    BY <1>2, <2>1 DEF Averaged
  <2> QED
    BY <1>1, <2>2
<1>3. CASE k # 0
  <2>1. k \in Nat /\ k - 1 \in Nat /\ k - 1 \notin Wrong
    <3>1. k \in Nat
      BY <1>1
    <3>2. k - 1 \in Nat /\ ~(k <= k - 1)
      BY <1>3, <3>1
    <3> HIDE DEF Wrong
    <3> QED
      BY <1>1, <3>1, <3>2
  <2>2. PICK h : Averaged(h, c, span, k - 1)
    BY <2>1
  <2> DEFINE g == [i \in 1..k |-> IF i = k
                     THEN IF k = 1 THEN 100 * c[1].close ELSE NextMean(c, k, h[k - 1], span)
                     ELSE h[i]]
  <2>3. \A i \in 1..(k - 1) :
          h[i] = IF i = 1 THEN 100 * c[1].close ELSE NextMean(c, i, h[i - 1], span)
    BY <2>2 DEF Averaged
  <2>4. \A i \in 1..(k - 1) : g[i] = h[i]
    BY <2>1
  <2>5. \A i \in 1..k :
          g[i] = IF i = 1 THEN 100 * c[1].close ELSE NextMean(c, i, g[i - 1], span)
    <3> TAKE i \in 1..k
    <3>1. CASE i = k
      <4>1. g[i] = IF k = 1 THEN 100 * c[1].close ELSE NextMean(c, k, h[k - 1], span)
        BY <3>1
      <4>2. k # 1 => k - 1 \in 1..(k - 1)
        BY <2>1
      <4>3. k # 1 => h[k - 1] = g[i - 1]
        BY <2>4, <3>1, <4>2
      <4> HIDE DEF g
      <4> QED
        BY <3>1, <4>1, <4>3
    <3>2. CASE i # k
      <4>1. i \in 1..(k - 1) /\ (i # 1 => i - 1 \in 1..(k - 1))
        BY <2>1, <3>2
      <4>2. g[i] = h[i] /\ (i # 1 => g[i - 1] = h[i - 1])
        BY <2>4, <4>1
      <4> HIDE DEF g
      <4> QED
        BY <2>3, <4>1, <4>2
    <3> QED
      BY <3>1, <3>2
  <2>6. g = [i \in 1..k |-> g[i]]
    OBVIOUS
  <2> HIDE DEF g
  <2>7. Averaged(g, c, span, k)
    BY <2>5, <2>6 DEF Averaged
  <2> QED
    BY <1>1, <2>7
<1> QED
  BY <1>2, <1>3

(* The means of the first bars stay when bars are added.                    *)
LEMMA MeansStay ==
  ASSUME NEW c, NEW d, Longer(d, c), NEW span, NEW i \in 1..Len(c)
  PROVE  Ewm(d, span)[i] = Ewm(c, span)[i]
<1> DEFINE old == Ewm(c, span)
           new == Ewm(d, span)
           Wrong == {k \in Nat : k \in 1..Len(c) /\ new[k] # old[k]}
<1>1. /\ Len(c) \in Nat /\ Len(d) \in Nat /\ Len(d) = Len(c) + 1
      /\ \A k \in 1..Len(c) : d[k] = c[k]
  BY DEF Longer, Sound
<1>2. Averaged(old, c, span, Len(c)) /\ Averaged(new, d, span, Len(d))
  <2>1. /\ \E g : Averaged(g, c, span, Len(c))
        /\ \E g : Averaged(g, d, span, Len(d))
    BY <1>1, MeansExist
  <2> QED
    BY <2>1, EwmIsAveraged
<1> HIDE DEF old, new
<1>3. \A k \in 1..Len(c) :
        old[k] = IF k = 1 THEN 100 * c[1].close ELSE NextMean(c, k, old[k - 1], span)
  BY <1>2 DEF Averaged
<1>4. \A k \in 1..Len(d) :
        new[k] = IF k = 1 THEN 100 * d[1].close ELSE NextMean(d, k, new[k - 1], span)
  BY <1>2 DEF Averaged
<1>5. Wrong = {}
  <2> SUFFICES ASSUME Wrong # {} PROVE FALSE
    OBVIOUS
  <2>1. PICK k \in Wrong : \A m \in Wrong : k <= m
    <3>1. Wrong \subseteq Nat
      OBVIOUS
    <3> HIDE DEF Wrong
    <3> QED
      BY ONLY Wrong # {}, <3>1, SmallestNumber
  <2>2. k \in 1..Len(c) /\ k \in 1..Len(d) /\ new[k] # old[k] /\ d[k] = c[k]
    BY <1>1, <2>1
  <2>3. k # 1
    <3>1. 1 \in 1..Len(c) /\ 1 \in 1..Len(d)
      BY <1>1, <2>2
    <3> QED
      BY <1>1, <1>3, <1>4, <2>2, <3>1
  <2>4. k - 1 \in 1..Len(c) /\ k - 1 \in Nat /\ ~(k <= k - 1)
    BY <1>1, <2>2, <2>3
  <2>5. new[k - 1] = old[k - 1]
    BY <2>1, <2>4
  <2>6. NextMean(d, k, new[k - 1], span) = NextMean(c, k, old[k - 1], span)
    BY <2>2, <2>5 DEF NextMean
  <2> QED
    BY <1>3, <1>4, <2>2, <2>3, <2>6
<1> QED
  BY <1>1, <1>5 DEF old, new

(* So do the lines of Supertrend.                                           *)
LEMMA LinesStay ==
  ASSUME NEW c, NEW d, Longer(d, c), NEW n \in Nat, n > 1, NEW mult,
         NEW i \in n..Len(c)
  PROVE  Supertrend(d, n, mult)[i] = Supertrend(c, n, mult)[i]
<1> DEFINE old == Supertrend(c, n, mult)
           new == Supertrend(d, n, mult)
           Wrong == {k \in Nat : k \in n..Len(c) /\ new[k] # old[k]}
<1>1. /\ Len(c) \in Nat /\ Len(d) \in Nat /\ Len(d) = Len(c) + 1
      /\ n <= Len(c) /\ n \in Nat \ {0} /\ n \in 1..Len(c)
      /\ \A k \in 1..Len(c) : d[k] = c[k]
  BY DEF Longer, Sound
<1>2. Lined(old, c, n, mult, Len(c)) /\ Lined(new, d, n, mult, Len(d))
  <2>1. /\ Len(c) - n \in Nat /\ n + (Len(c) - n) = Len(c)
        /\ Len(d) - n \in Nat /\ n + (Len(d) - n) = Len(d)
    BY <1>1
  <2>2. \E g : Lined(g, c, n, mult, Len(c))
    BY <2>1, LinesExist
  <2>3. \E g : Lined(g, d, n, mult, Len(d))
    BY <2>1, LinesExist
  <2> QED
    BY <2>2, <2>3, SupertrendIsLined
<1> HIDE DEF old, new
<1>3. \A k \in n..Len(c) :
        old[k] = IF k = n THEN FirstLine(c, n, mult) ELSE NextLine(c, k, old[k - 1], n, mult)
  BY <1>2 DEF Lined
<1>4. \A k \in n..Len(d) :
        new[k] = IF k = n THEN FirstLine(d, n, mult) ELSE NextLine(d, k, new[k - 1], n, mult)
  BY <1>2 DEF Lined
<1>5. ASSUME NEW k \in n..Len(c), NEW was
      PROVE  NextLine(d, k, was, n, mult) = NextLine(c, k, was, n, mult)
  <2>1. k \in 1..Len(c) /\ k - 1 \in 1..Len(c) /\ n <= k
    BY <1>1
  <2>2. d[k] = c[k] /\ d[k - 1] = c[k - 1]
    BY <1>1, <2>1
  <2>3. Atr(d, n, k) = Atr(c, n, k)
    BY <1>1, <2>1, SumsStay
  <2> QED
    BY <2>2, <2>3 DEF NextLine
<1>6. FirstLine(d, n, mult) = FirstLine(c, n, mult)
  <2>1. d[n] = c[n] /\ Atr(d, n, n) = Atr(c, n, n)
    BY <1>1, SumsStay
  <2>2. n \in n..Len(c)
    BY <1>1
  <2> QED
    BY <1>5, <2>1, <2>2 DEF FirstLine
<1>7. Wrong = {}
  <2> SUFFICES ASSUME Wrong # {} PROVE FALSE
    OBVIOUS
  <2>1. PICK k \in Wrong : \A m \in Wrong : k <= m
    <3>1. Wrong \subseteq Nat
      OBVIOUS
    <3> HIDE DEF Wrong
    <3> QED
      BY ONLY Wrong # {}, <3>1, SmallestNumber
  <2>2. k \in n..Len(c) /\ k \in n..Len(d) /\ new[k] # old[k]
    BY <1>1, <2>1
  <2>3. k # n
    BY <1>3, <1>4, <1>6, <2>2
  <2>4. k - 1 \in n..Len(c) /\ k - 1 \in Nat /\ ~(k <= k - 1)
    BY <1>1, <2>2, <2>3
  <2>5. new[k - 1] = old[k - 1]
    BY <2>1, <2>4
  <2> QED
    BY <1>3, <1>4, <1>5, <2>2, <2>3, <2>5
<1> QED
  BY <1>1, <1>7 DEF old, new

(* A turn, a cross and a break out of a band are not found twice running.   *)
LEMMA FoundOnce ==
  ASSUME NEW c, NEW d, Longer(d, c), NEW before, NEW now
  PROVE  /\ ~(EmaCrossover(c) # NoSignal /\ EmaCrossover(d) # NoSignal)
         /\ ~(SupertrendLong(c, before) # NoSignal /\ SupertrendLong(d, now) # NoSignal)
         /\ ~(SupertrendShort(c) # NoSignal /\ SupertrendShort(d) # NoSignal)
         /\ ~(BbSqueeze(c) # NoSignal /\ BbSqueeze(d) # NoSignal)
<1>1. /\ Len(c) \in Nat /\ Sound(c) /\ Sound(d)
      /\ Len(d) - 1 = Len(c) /\ \A i \in 1..Len(c) : d[i] = c[i]
  BY DEF Longer, Sound
<1>2. ~(EmaCrossover(c) # NoSignal /\ EmaCrossover(d) # NoSignal)
  <2> SUFFICES ASSUME EmaCrossover(c) # NoSignal, EmaCrossover(d) # NoSignal PROVE FALSE
    OBVIOUS
  <2>1. CrossedAt(c, Len(c)) /\ ~CrossedAt(d, Len(d) - 1)
    BY DEF EmaCrossover
  <2>2. Len(c) \in 1..Len(c)
    <3> DEFINE S == {Periods.emaSlow, Periods.atr}
    <3>1. IsFiniteSet(S) /\ S \subseteq Int /\ Periods.atr \in S
      <4>1. IsFiniteSet(S)
        BY FewAreFinite
      <4> QED
        BY <4>1, PeriodsType
    <3>2. AtLeastBars(c, S, 3)
      BY DEF EmaCrossover
    <3> HIDE DEF S
    <3>3. Periods.atr + 3 <= Len(c)
      BY <1>1, <3>1, <3>2, LongEnough
    <3>4. Periods.atr \in Nat
      BY PeriodsType
    <3> QED
      BY <1>1, <3>3, <3>4
  <2>3. /\ Ewm(d, Periods.emaFast)[Len(c)] = Ewm(c, Periods.emaFast)[Len(c)]
        /\ Ewm(d, Periods.emaSlow)[Len(c)] = Ewm(c, Periods.emaSlow)[Len(c)]
    BY <2>2, MeansStay
  <2> QED
    BY <1>1, <2>1, <2>3 DEF CrossedAt
<1>3. ~(SupertrendLong(c, before) # NoSignal /\ SupertrendLong(d, now) # NoSignal)
  <2> SUFFICES ASSUME SupertrendLong(c, before) # NoSignal, SupertrendLong(d, now) # NoSignal
               PROVE FALSE
    OBVIOUS
  <2>1. LineOf(c)[Len(c)].direction = 1 /\ LineOf(d)[Len(d) - 1].direction # 1
    BY DEF SupertrendLong
  <2>2. Periods.supertrend + 5 <= Len(c)
    <3> DEFINE S == {Periods.supertrend, Periods.atr, Periods.volume,
                     Periods.dma + Periods.lookback}
    <3>1. IsFiniteSet(S) /\ S \subseteq Int /\ Periods.supertrend \in S
      <4>1. IsFiniteSet(S)
        BY FewAreFinite
      <4> QED
        BY <4>1, PeriodsType
    <3>2. AtLeastBars(c, S, 5)
      BY DEF SupertrendLong
    <3> HIDE DEF S
    <3> QED
      BY <1>1, <3>1, <3>2, LongEnough
  <2>3. Periods.supertrend \in Nat /\ Periods.supertrend > 1
    BY PeriodsType
  <2>4. Len(c) \in Periods.supertrend..Len(c)
    BY <1>1, <2>2, <2>3
  <2>5. LineOf(d)[Len(c)] = LineOf(c)[Len(c)]
    BY <2>3, <2>4, LinesStay DEF LineOf
  <2> QED
    BY <1>1, <2>1, <2>5
<1>4. ~(SupertrendShort(c) # NoSignal /\ SupertrendShort(d) # NoSignal)
  <2> SUFFICES ASSUME SupertrendShort(c) # NoSignal, SupertrendShort(d) # NoSignal
               PROVE FALSE
    OBVIOUS
  <2> DEFINE dma == Periods.dma
             back == Periods.lookback
  <2>1. /\ FallingAt(c, dma, back, Len(c)) /\ ~FallingAt(d, dma, back, Len(d) - 1)
    BY DEF SupertrendShort
  <2>2. dma + back + 5 <= Len(c)
    BY <1>1, ShortSound
  <2>3. dma \in Nat \ {0} /\ back \in Nat
    BY PeriodsType
  <2> HIDE DEF dma, back
  <2>4. /\ Len(c) \in 1..Len(c) /\ dma <= Len(c)
        /\ Len(c) - back \in 1..Len(c) /\ dma <= Len(c) - back
    BY <1>1, <2>2, <2>3
  <2>5. /\ CloseSum(d, dma, Len(c)) = CloseSum(c, dma, Len(c))
        /\ CloseSum(d, dma, Len(c) - back) = CloseSum(c, dma, Len(c) - back)
    BY <2>3, <2>4, SumsStay
  <2> QED
    BY <1>1, <2>1, <2>5 DEF FallingAt
<1>5. ~(BbSqueeze(c) # NoSignal /\ BbSqueeze(d) # NoSignal)
  <2> SUFFICES ASSUME BbSqueeze(c) # NoSignal, BbSqueeze(d) # NoSignal PROVE FALSE
    OBVIOUS
  <2> DEFINE n == Periods.bollinger
             band == UpperBand(c, n, Len(c))
             close == 100 * Latest(c).close
  <2>1. close > band /\ 100 * Before(d).close <= UpperBand(d, n, Len(d) - 1)
    BY DEF BbSqueeze
  <2>2. n + 3 <= Len(c)
    <3> DEFINE S == {Periods.bollinger, Periods.squeeze, Periods.atr}
    <3>1. IsFiniteSet(S) /\ S \subseteq Int /\ n \in S
      <4>1. IsFiniteSet(S)
        BY FewAreFinite
      <4> QED
        BY <4>1, PeriodsType
    <3>2. AtLeastBars(c, S, 3)
      BY DEF BbSqueeze
    <3> HIDE DEF S, n
    <3> QED
      BY <1>1, <3>1, <3>2, LongEnough
  <2>3. n \in Nat \ {0} /\ n > 1
    BY PeriodsType
  <2>4. Len(c) \in 1..Len(c) /\ n <= Len(c) /\ Len(c) >= 1
    BY <1>1, <2>2, <2>3
  <2>5. UpperBand(d, n, Len(d) - 1) = band
    BY <1>1, <2>3, <2>4, BandStays
  <2>6. Before(d).close = Latest(c).close
    BY <1>1, <2>4 DEF Before, Latest
  <2>7. band \in Int
    <3>1. Middle(c, n, Len(c)) \in Int /\ Deviation(c, n, Len(c)) \in Int
      BY <1>1, <2>3, <2>4, BandsType
    <3> HIDE DEF n
    <3> QED
      BY <3>1 DEF UpperBand
  <2>8. close \in Int
    BY <1>1, <2>4, LatestNumbers
  <2> HIDE DEF band, close
  <2>9. close <= band
    BY <2>1, <2>5, <2>6 DEF close
  <2> QED
    BY <2>1, <2>7, <2>8, <2>9
<1> QED
  BY <1>2, <1>3, <1>4, <1>5

(* What fires once does not fire at two closes running.                     *)
LEMMA FreshStep ==
  PipelineInv /\ [PipelineNext]_pipeline =>
    (Len(candles') > Len(candles) =>
       \A name \in OnceOnly : ~(Fires(handed[name]) /\ Fires(handed'[name])))
<1> SUFFICES ASSUME PipelineInv, [PipelineNext]_pipeline, Len(candles') > Len(candles),
                    NEW name \in OnceOnly, handed[name] # NoSignal, handed'[name] # NoSignal
             PROVE  FALSE
  BY DEF Fires
<1>0. Len(candles) \in Nat /\ name \in StrategyNames
  BY Names DEF PipelineInv, Sound, OnceOnly
<1>1. CASE CandleClose
  <2>1. handed = Handed(candles, reading)
    BY <1>0, WhatIsHanded
  <2>2. handed' = Handed(candles', reading')
    BY <1>1 DEF CandleClose
  <2>3. context = NoContext
    BY <1>1 DEF CandleClose
  <2>4. Sound(candles) /\ Sound(candles')
    BY PipelineStepInv DEF PipelineInv, Sound, IsBar, BarType
  <2>5. PICK bar : IsBar(bar) /\ candles' = Append(candles, bar)
    <3>1. PICK shape \in Bars :
            /\ Shaped(Latest(candles).close, shape).low > 0
            /\ candles' = Append(candles, Shaped(Latest(candles).close, shape))
      BY <1>1 DEF CandleClose
    <3>2. Latest(candles).close \in Nat
      BY <1>0, <2>3, <2>4, LatestNumbers DEF PipelineInv
    <3>3. IsBar(Shaped(Latest(candles).close, shape))
      BY <3>1, <3>2, ShapedIsABar
    <3> QED
      BY <3>1, <3>3
  <2>6. Longer(candles', candles)
    <3>1. candles \in Seq(BarType) /\ bar \in BarType
      BY <2>4, <2>5 DEF Sound, IsBar
    <3>2. /\ Len(candles') = Len(candles) + 1
          /\ \A i \in 1..Len(candles) : candles'[i] = candles[i]
      BY <2>5, <3>1
    <3> QED
      BY <2>4, <3>2 DEF Longer
  <2>7. /\ Sought(candles, reading)[name] # NoSignal
        /\ Sought(candles', reading')[name] # NoSignal
    BY <1>0, <2>1, <2>2, HandedIs
  <2>8. /\ ~(EmaCrossover(candles) # NoSignal /\ EmaCrossover(candles') # NoSignal)
        /\ ~(/\ SupertrendLong(candles, reading.trends) # NoSignal
             /\ SupertrendLong(candles', reading'.trends) # NoSignal)
        /\ ~(SupertrendShort(candles) # NoSignal /\ SupertrendShort(candles') # NoSignal)
        /\ ~(BbSqueeze(candles) # NoSignal /\ BbSqueeze(candles') # NoSignal)
    BY <2>6, FoundOnce
  <2> QED
    BY <2>7, <2>8 DEF Sought, OnceOnly
<1>2. CASE HandleOne
  <2>1. Len(candles') = 0
    BY <1>2 DEF HandleOne
  <2> QED
    BY <1>0, <2>1
<1>3. CASE EquityMoves
  <2>1. Len(candles') = Len(candles)
    BY <1>3 DEF EquityMoves
  <2> QED
    BY <1>0, <2>1
<1>4. CASE UNCHANGED pipeline
  <2>1. Len(candles') = Len(candles)
    BY <1>4 DEF pipeline
  <2> QED
    BY <1>0, <2>1
<1> QED
  BY <1>1, <1>2, <1>3, <1>4 DEF PipelineNext

(* A strategy that asks for a turn, a cross or a break out of a band never  *)
(* signals at two closes running (core/strategies/supertrend.py:68,         *)
(* supertrend_short.py:101, ema_crossover.py, bb_squeeze.py), however the   *)
(* lines and means are computed anew over the longer series.                *)
THEOREM SignalsStayFresh == PipelineSpec => FreshSignals
<1>1. PipelineInv /\ [PipelineNext]_pipeline =>
        [Len(candles') > Len(candles) =>
           \A name \in OnceOnly : ~(Fires(handed[name]) /\ Fires(handed'[name]))]_pipeline
  BY FreshStep
<1> QED
  BY <1>1, PipelineSound, PTL DEF PipelineSpec, FreshSignals

=============================================================================
