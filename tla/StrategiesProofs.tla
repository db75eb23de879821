--------------------------- MODULE StrategiesProofs ---------------------------
(***************************************************************************)
(* Proofs about Strategies, for any market: what the Fibonacci strategy    *)
(* carries from candle to candle is an up-leg as its comments describe it, *)
(* and each leg is bought once; what is booked is what the wallet holds, so *)
(* that nothing is sold short and no position is without its stop.         *)
(***************************************************************************)
EXTENDS Strategies, PaperWalletProofs, SequenceTheorems

-----------------------------------------------------------------------------
(* The legs of FibonacciLegs.                                              *)

BarType == [low : Nat, high : Nat]
LegType == [ok : BOOLEAN, lowIdx : Nat, highIdx : Nat, pivot : Nat]

(* A candle of the history has two prices.                                  *)
LEMMA BarFields ==
  ASSUME NEW b \in Seq(BarType)
  PROVE  /\ Len(b) \in Nat
         /\ \A i \in 1..Len(b) : b[i] \in BarType /\ b[i].low \in Nat /\ b[i].high \in Nat
<1>1. Len(b) \in Nat /\ \A i \in 1..Len(b) : b[i] \in BarType
  OBVIOUS
<1>2. \A x \in BarType : x.low \in Nat /\ x.high \in Nat
  BY DEF BarType
<1> QED BY <1>1, <1>2

(* h is the first of the highest candles from i to k.                       *)
FirstHighest(b, i, k, h) ==
    /\ h \in i..k
    /\ \A n \in i..k : b[n].high < b[h].high \/ (b[n].high = b[h].high /\ h <= n)

(* There is one, and only one.                                              *)
LEMMA HighestIsFirst ==
  ASSUME NEW b \in Seq(BarType), NEW i \in 1..Len(b), NEW k \in i..Len(b)
  PROVE  /\ FirstHighest(b, i, k, Highest(b, i, k))
         /\ \A h : FirstHighest(b, i, k, h) => h = Highest(b, i, k)
<1> DEFINE R == {r \in Nat : i + r <= Len(b) => \E h : FirstHighest(b, i, i + r, h)}
<1>1. /\ Len(b) \in Nat /\ i \in Nat /\ k \in Nat /\ 1 <= i /\ i <= k /\ k <= Len(b)
      /\ \A n \in 1..Len(b) : b[n].high \in Nat
  <2>1. Len(b) \in Nat /\ \A n \in 1..Len(b) : b[n].high \in Nat
    BY BarFields
  <2> HIDE DEF R
  <2> QED BY <2>1
<1>2. 0 \in R
  <2>1. FirstHighest(b, i, i + 0, i)
    BY <1>1 DEF FirstHighest
  <2> QED BY <2>1
<1>3. ASSUME NEW r \in Nat, r \in R PROVE r + 1 \in R
  <2> SUFFICES ASSUME i + (r + 1) <= Len(b) PROVE \E h : FirstHighest(b, i, i + (r + 1), h)
    OBVIOUS
  <2>1. i + r <= Len(b)
    BY <1>1
  <2>2. PICK h : FirstHighest(b, i, i + r, h)
    BY <1>3, <2>1
  <2>3. PICK e : e = i + (r + 1)
    OBVIOUS
  <2>4. e \in 1..Len(b) /\ \A n \in i..e : n = e \/ n \in i..(i + r)
    BY <1>1, <2>3
  <2>5. h \in i..(i + r) /\ h \in i..e /\ h < e /\ e \in i..e /\ h \in 1..Len(b)
    BY <1>1, <2>2, <2>3, <2>4 DEF FirstHighest
  <2>6. \A n \in i..(i + r) : n \in 1..Len(b) /\ n < e
    BY <1>1, <2>3, <2>4
  <2>7. CASE b[e].high > b[h].high
    <3>1. ASSUME NEW n \in i..e PROVE b[n].high < b[e].high \/ (b[n].high = b[e].high /\ e <= n)
      <4>1. CASE n = e
        BY <2>4, <4>1
      <4>2. CASE n \in i..(i + r)
        <5>1. b[n].high <= b[h].high
          BY <1>1, <2>2, <2>5, <2>6, <4>2 DEF FirstHighest
        <5>2. b[n].high \in Nat /\ b[h].high \in Nat /\ b[e].high \in Nat
          BY <1>1, <2>4, <2>5, <2>6, <4>2
        <5> QED BY <2>7, <5>1, <5>2
      <4> QED BY <2>4, <4>1, <4>2
    <3>2. FirstHighest(b, i, e, e)
      BY <2>5, <3>1 DEF FirstHighest
    <3> QED BY <2>3, <3>2
  <2>8. CASE ~(b[e].high > b[h].high)
    <3>1. ASSUME NEW n \in i..e PROVE b[n].high < b[h].high \/ (b[n].high = b[h].high /\ h <= n)
      <4>1. CASE n = e
        <5>1. b[h].high \in Nat /\ b[e].high \in Nat /\ h <= e
          BY <1>1, <2>4, <2>5
        <5> QED BY <2>8, <4>1, <5>1
      <4>2. CASE n \in i..(i + r)
        BY <2>2, <4>2 DEF FirstHighest
      <4> QED BY <2>4, <4>1, <4>2
    <3>2. FirstHighest(b, i, e, h)
      BY <2>5, <3>1 DEF FirstHighest
    <3> QED BY <2>3, <3>2
  <2> QED BY <2>7, <2>8
<1>4. Nat \subseteq R
  <2> HIDE DEF R
  <2> QED BY <1>2, <1>3, NatSetInduction
<1>5. \E h : FirstHighest(b, i, k, h)
  <2>1. k - i \in Nat /\ i + (k - i) = k
    BY <1>1
  <2>2. k - i \in R
    BY <1>4, <2>1
  <2> QED BY <1>1, <2>1, <2>2
<1>6. ASSUME NEW h, NEW g, FirstHighest(b, i, k, h), FirstHighest(b, i, k, g) PROVE h = g
  <2>1. h \in i..k /\ g \in i..k /\ h \in 1..Len(b) /\ g \in 1..Len(b)
    BY <1>1, <1>6 DEF FirstHighest
  <2>2. /\ b[g].high < b[h].high \/ (b[g].high = b[h].high /\ h <= g)
        /\ b[h].high < b[g].high \/ (b[h].high = b[g].high /\ g <= h)
    BY <1>6, <2>1 DEF FirstHighest
  <2> QED BY <1>1, <2>1, <2>2
<1>7. Highest(b, i, k) = CHOOSE h \in i..k :
        \A n \in i..k : b[n].high < b[h].high \/ (b[n].high = b[h].high /\ h <= n)
  BY DEF Highest
<1>8. FirstHighest(b, i, k, Highest(b, i, k))
  BY <1>5, <1>7 DEF FirstHighest
<1> QED BY <1>6, <1>8

(* A swing low of b, and none of the candles since is lower.                *)
SwingLow(b, j) ==
    /\ j >= 1 /\ j + Pivot <= Len(b)
    /\ IsPivotLow(b, j)
    /\ \A k \in j..Len(b) : b[k].low >= b[j].low

(* A leg as the doc comment describes it, and the last swing low that has   *)
(* not been undercut.                                                       *)
LegInv(l, b) ==
    /\ l \in LegType
    /\ l.ok => SwingLow(b, l.lowIdx) /\ FirstHighest(b, l.lowIdx, Len(b), l.highIdx)
    /\ l.pivot # 0 => SwingLow(b, l.pivot)

(* The same when the last candle of b has not extended it yet.              *)
LegBefore(l, b) ==
    /\ l \in LegType
    /\ l.ok => SwingLow(b, l.lowIdx) /\ FirstHighest(b, l.lowIdx, Len(b) - 1, l.highIdx)
    /\ l.pivot # 0 => SwingLow(b, l.pivot)

(* A swing low stays one until a candle is lower.                           *)
LEMMA SwingStays ==
  ASSUME NEW b \in Seq(BarType), NEW x \in BarType, NEW j \in Nat, SwingLow(b, j),
         ~(x.low < Append(b, x)[j].low)
  PROVE  SwingLow(Append(b, x), j)
<1>1. PICK c, n : c = Append(b, x) /\ n = Len(b)
  OBVIOUS
<1>2. /\ n \in Nat /\ Len(c) = n + 1 /\ c[n + 1] = x
      /\ \A i \in 1..n : c[i] = b[i] /\ b[i].low \in Nat
      /\ x.low \in Nat
  <2>1. \A i \in 1..n : b[i].low \in Nat
    BY <1>1, BarFields
  <2>2. x.low \in Nat
    BY DEF BarType
  <2> QED BY <1>1, <2>1, <2>2
<1>3. /\ 1 <= j /\ j + Pivot <= n /\ j - Pivot >= 1 /\ Pivot \in Nat
      /\ \A k \in (j - Pivot)..(j + Pivot) :
            (k < j => b[k].low > b[j].low) /\ (k > j => b[k].low >= b[j].low)
      /\ \A k \in j..n : b[k].low >= b[j].low
  BY <1>1, PivotAssumption DEF SwingLow, IsPivotLow
<1>4. j \in 1..n /\ \A k \in (j - Pivot)..(j + Pivot) : k \in 1..n
  BY <1>2, <1>3
<1>5. IsPivotLow(c, j)
  <2>1. j - Pivot >= 1 /\ j + Pivot <= Len(c)
    BY <1>2, <1>3
  <2>2. ASSUME NEW k \in (j - Pivot)..(j + Pivot)
        PROVE  (k < j => c[k].low > c[j].low) /\ (k > j => c[k].low >= c[j].low)
    <3>1. c[k] = b[k] /\ c[j] = b[j]
      BY <1>2, <1>4
    <3>2. (k < j => b[k].low > b[j].low) /\ (k > j => b[k].low >= b[j].low)
      BY <1>3
    <3> QED BY ONLY <3>1, <3>2
  <2> QED BY <2>1, <2>2 DEF IsPivotLow
<1>6. \A k \in j..(n + 1) : c[k].low >= c[j].low
  <2> SUFFICES ASSUME NEW k \in j..(n + 1) PROVE c[k].low >= c[j].low
    OBVIOUS
  <2>1. k = n + 1 \/ (k \in j..n /\ k \in 1..n)
    BY <1>2, <1>4
  <2> QED BY <1>1, <1>2, <1>3, <1>4, <2>1
<1>7. j + Pivot <= n + 1
  BY <1>2, <1>3
<1> QED BY <1>1, <1>2, <1>3, <1>5, <1>6, <1>7 DEF SwingLow

(* A candle below the swing low ends the leg; the rest is kept.             *)
LEMMA BrokenLeg ==
  ASSUME NEW b \in Seq(BarType), NEW x \in BarType, NEW l, LegInv(l, b)
  PROVE  /\ LegBefore(Broken(l, Append(b, x)), Append(b, x))
         /\ Broken(l, Append(b, x)).ok => l.ok /\ Broken(l, Append(b, x)).lowIdx = l.lowIdx
<1>1. PICK c, n : c = Append(b, x) /\ n = Len(b)
  OBVIOUS
<1>2. n \in Nat /\ Len(c) = n + 1 /\ c[n + 1] = x /\ \A i \in 1..n : c[i] = b[i]
  BY <1>1
<1>3. l \in LegType /\ NoLeg \in LegType
  BY DEF LegInv, NoLeg, LegType
<1>4. PICK pivot : pivot = IF l.pivot # 0 /\ x.low < c[l.pivot].low THEN 0 ELSE l.pivot
  OBVIOUS
<1>5. PICK m : m = Broken(l, c)
  OBVIOUS
<1>6. m = IF l.ok /\ x.low < c[l.lowIdx].low THEN [NoLeg EXCEPT !.pivot = pivot]
          ELSE [l EXCEPT !.pivot = pivot]
  BY <1>2, <1>4, <1>5 DEF Broken
<1>7. pivot \in Nat /\ (pivot # 0 => pivot = l.pivot /\ ~(x.low < c[l.pivot].low))
  BY <1>3, <1>4 DEF LegType
<1>8. /\ m \in LegType /\ m.pivot = pivot
      /\ m.ok => /\ l.ok /\ m.lowIdx = l.lowIdx /\ m.highIdx = l.highIdx
                 /\ ~(x.low < c[l.lowIdx].low)
  BY <1>3, <1>6, <1>7 DEF LegType, NoLeg
<1>9. m.pivot # 0 => SwingLow(c, m.pivot)
  BY <1>1, <1>3, <1>7, <1>8, SwingStays DEF LegInv, LegType
<1>10. ASSUME m.ok
       PROVE  SwingLow(c, m.lowIdx) /\ FirstHighest(c, m.lowIdx, n, m.highIdx)
  <2>1. l.lowIdx \in Nat /\ SwingLow(b, l.lowIdx) /\ FirstHighest(b, l.lowIdx, n, l.highIdx)
    BY <1>1, <1>3, <1>8, <1>10 DEF LegInv, LegType
  <2>2. SwingLow(c, l.lowIdx)
    BY <1>1, <1>8, <1>10, <2>1, SwingStays
  <2>3. \A k \in l.lowIdx..n : c[k] = b[k]
    BY <1>2, <2>1 DEF SwingLow
  <2>4. FirstHighest(c, l.lowIdx, n, l.highIdx)
    BY <2>1, <2>3 DEF FirstHighest
  <2> QED BY <1>8, <1>10, <2>2, <2>4
<1>11. Len(c) - 1 = n
  BY <1>2
<1> QED BY <1>1, <1>5, <1>8, <1>9, <1>10, <1>11 DEF LegBefore

(* A higher high extends the leg, from the later swing low if there is one. *)
LEMMA ExtendedLeg ==
  ASSUME NEW b \in Seq(BarType), b # <<>>, NEW l, LegBefore(l, b)
  PROVE  /\ LegInv(Extended(l, b), b)
         /\ Extended(l, b).ok = l.ok
         /\ l.ok => Extended(l, b).lowIdx >= l.lowIdx
<1>1. PICK n : n = Len(b) /\ n \in Nat \ {0} /\ n \in 1..n
  BY EmptySeq
<1>2. \A i \in 1..n : b[i].high \in Nat /\ b[i].low \in Nat
  BY <1>1, BarFields
<1>3. l \in LegType /\ l.lowIdx \in Nat /\ l.highIdx \in Nat /\ l.pivot \in Nat /\ l.ok \in BOOLEAN
  BY DEF LegBefore, LegType
<1>4. PICK m : m = Extended(l, b)
  OBVIOUS
<1>5. CASE ~l.ok
  <2>1. m = l
    BY <1>4, <1>5 DEF Extended
  <2> QED BY <1>4, <1>5, <2>1 DEF LegBefore, LegInv
<1>6. CASE l.ok
  <2>1. SwingLow(b, l.lowIdx) /\ FirstHighest(b, l.lowIdx, n - 1, l.highIdx)
    BY <1>1, <1>6 DEF LegBefore
  <2>2. /\ 1 <= l.lowIdx /\ l.lowIdx <= l.highIdx /\ l.highIdx <= n - 1
        /\ l.highIdx \in 1..n
        /\ \A k \in l.lowIdx..n : k \in 1..n /\ (k = n \/ k \in l.lowIdx..(n - 1))
    BY <1>1, <1>3, <2>1 DEF SwingLow, FirstHighest
  <2>3. CASE ~(b[n].high > b[l.highIdx].high)
    <3>1. m = l
      BY <1>1, <1>4, <2>3 DEF Extended
    <3>2. FirstHighest(b, l.lowIdx, n, l.highIdx)
      BY <1>1, <1>2, <1>3, <2>1, <2>2, <2>3 DEF FirstHighest
    <3> QED BY <1>1, <1>3, <1>4, <2>1, <3>1, <3>2 DEF LegBefore, LegInv
  <2>4. CASE b[n].high > b[l.highIdx].high
    <3>1. PICK low : low = IF l.pivot > l.highIdx THEN l.pivot ELSE l.lowIdx
      OBVIOUS
    <3>2. m = [l EXCEPT !.highIdx = n, !.lowIdx = low]
      BY <1>1, <1>4, <1>6, <2>4, <3>1 DEF Extended
    <3>3. low \in Nat /\ low >= l.lowIdx
      BY <1>3, <2>2, <3>1
    <3>4. m \in LegType /\ m.ok = l.ok /\ m.lowIdx = low /\ m.highIdx = n /\ m.pivot = l.pivot
      BY <1>1, <1>3, <3>2, <3>3 DEF LegType
    <3>5. SwingLow(b, low)
      <4>1. l.pivot > l.highIdx => l.pivot # 0
        BY <1>3
      <4> QED BY <2>1, <3>1, <4>1 DEF LegBefore
    <3>6. \A k \in l.lowIdx..n : k = n \/ b[k].high < b[n].high
      BY <1>1, <1>2, <2>1, <2>2, <2>4 DEF FirstHighest
    <3>7. low <= n
      BY <1>1, <3>3, <3>5, PivotAssumption DEF SwingLow
    <3>8. FirstHighest(b, low, n, n)
      BY <1>1, <1>3, <3>3, <3>6, <3>7 DEF FirstHighest
    <3>9. m.pivot # 0 => SwingLow(b, m.pivot)
      BY <3>4 DEF LegBefore
    <3>10. LegInv(m, b)
      BY <1>1, <3>4, <3>5, <3>8, <3>9 DEF LegInv
    <3> QED BY <1>4, <3>3, <3>4, <3>10
  <2> QED BY <2>3, <2>4
<1> QED BY <1>3, <1>5, <1>6

(* A swing low that the last candle confirms is remembered, and starts a    *)
(* leg when there is none.                                                  *)
LEMMA StartedLeg ==
  ASSUME NEW b \in Seq(BarType), b # <<>>, NEW l, LegInv(l, b)
  PROVE  /\ LegInv(Started(l, b), b)
         /\ l.ok => Started(l, b).ok /\ Started(l, b).lowIdx = l.lowIdx
         /\ Started(l, b).ok /\ ~l.ok => Started(l, b).lowIdx = Len(b) - Pivot
<1>1. PICK n : n = Len(b) /\ n \in Nat \ {0} /\ n \in 1..n
  BY EmptySeq
<1>2. \A i \in 1..n : b[i].high \in Nat /\ b[i].low \in Nat
  BY <1>1, BarFields
<1>3. l \in LegType /\ Pivot \in Nat
  BY PivotAssumption DEF LegInv
<1>4. PICK j, m : j = n - Pivot /\ m = Started(l, b)
  OBVIOUS
<1>5. CASE ~IsPivotLow(b, j) \/ l.pivot >= j
  <2>1. m = l
    BY <1>1, <1>4, <1>5 DEF Started
  <2> QED BY <1>4, <2>1
<1>6. CASE IsPivotLow(b, j) /\ ~(l.pivot >= j)
  <2>1. /\ j - Pivot >= 1 /\ j + Pivot <= n /\ j \in Nat /\ j \in 1..n
        /\ \A k \in (j - Pivot)..(j + Pivot) : k > j => b[k].low >= b[j].low
    BY <1>1, <1>3, <1>4, <1>6 DEF IsPivotLow
  <2>2. \A k \in j..n : b[k].low >= b[j].low
    <3> SUFFICES ASSUME NEW k \in j..n PROVE b[k].low >= b[j].low
      OBVIOUS
    <3>1. k = j \/ (k > j /\ k \in (j - Pivot)..(j + Pivot))
      BY <1>1, <1>3, <1>4, <2>1
    <3> QED BY <1>2, <2>1, <3>1
  <2>3. SwingLow(b, j)
    BY <1>1, <1>6, <2>1, <2>2 DEF SwingLow
  <2>4. CASE l.ok
    <3>1. m = [l EXCEPT !.pivot = j]
      BY <1>1, <1>4, <1>6, <2>4 DEF Started
    <3>2. /\ m \in LegType /\ m.ok = l.ok /\ m.lowIdx = l.lowIdx /\ m.highIdx = l.highIdx
          /\ m.pivot = j
      BY <1>3, <2>1, <3>1 DEF LegType
    <3>3. LegInv(m, b)
      BY <2>3, <3>2 DEF LegInv
    <3> QED BY <1>4, <2>4, <3>2, <3>3
  <2>5. CASE ~l.ok
    <3>1. PICK h : h = HighSince(b, j)
      OBVIOUS
    <3>2. m = [ok |-> TRUE, lowIdx |-> j, highIdx |-> h, pivot |-> j]
      BY <1>1, <1>4, <1>6, <2>5, <3>1 DEF Started
    <3>3. FirstHighest(b, j, n, h)
      <4>1. n \in j..n
        BY <1>1, <2>1
      <4> QED BY <1>1, <2>1, <3>1, <4>1, HighestIsFirst DEF HighSince
    <3>4. h \in Nat
      BY <2>1, <3>3 DEF FirstHighest
    <3>5. m \in LegType /\ m.ok /\ m.lowIdx = j /\ m.highIdx = h /\ m.pivot = j
      BY <2>1, <3>2, <3>4 DEF LegType
    <3>6. LegInv(m, b)
      BY <1>1, <2>3, <3>3, <3>5 DEF LegInv
    <3> QED BY <1>1, <1>4, <2>5, <3>5, <3>6
  <2> QED BY <2>4, <2>5
<1> QED BY <1>5, <1>6

(* One candle: the leg stays a leg, and its swing low never goes back       *)
(* behind one that an earlier leg had.                                      *)
LEMMA NextLegInv ==
  ASSUME NEW b \in Seq(BarType), NEW x \in BarType, NEW l, LegInv(l, b),
         NEW m \in Nat, m = 0 \/ m + Pivot <= Len(b), l.ok => m <= l.lowIdx
  PROVE  /\ LegInv(NextLeg(l, Append(b, x)), Append(b, x))
         /\ NextLeg(l, Append(b, x)).ok => m <= NextLeg(l, Append(b, x)).lowIdx
<1>1. PICK c : c = Append(b, x)
  OBVIOUS
<1>2. c \in Seq(BarType) /\ c # <<>> /\ Len(c) = Len(b) + 1 /\ Len(b) \in Nat
  BY <1>1
<1>3. PICK l1, l2, l3 : l1 = Broken(l, c) /\ l2 = Extended(l1, c) /\ l3 = Started(l2, c)
  OBVIOUS
<1>4. NextLeg(l, c) = l3
  BY <1>3 DEF NextLeg
<1>5. LegBefore(l1, c) /\ (l1.ok => l.ok /\ l1.lowIdx = l.lowIdx)
  BY <1>1, <1>3, BrokenLeg
<1>6. LegInv(l2, c) /\ l2.ok = l1.ok /\ (l1.ok => l2.lowIdx >= l1.lowIdx)
  BY <1>2, <1>3, <1>5, ExtendedLeg
<1>7. /\ LegInv(l3, c)
      /\ l2.ok => l3.ok /\ l3.lowIdx = l2.lowIdx
      /\ l3.ok /\ ~l2.ok => l3.lowIdx = Len(c) - Pivot
  BY <1>2, <1>3, <1>6, StartedLeg
<1>8. l.lowIdx \in Nat /\ l2.lowIdx \in Nat /\ l3.lowIdx \in Nat
  BY <1>6, <1>7 DEF LegInv, LegType
<1>9. ASSUME l3.ok PROVE m <= l3.lowIdx
  <2>1. CASE l2.ok
    BY <1>5, <1>6, <1>7, <1>8, <2>1
  <2>2. CASE ~l2.ok
    BY <1>2, <1>7, <1>8, <1>9, <2>2, PivotAssumption
  <2> QED BY <2>1, <2>2
<1> QED BY <1>1, <1>4, <1>7, <1>9

-----------------------------------------------------------------------------
(* The legs of each pair, and the ones that were bought.                    *)
LegTypeOK ==
    /\ bars \in [Pairs -> Seq(BarType)]
    /\ leg \in [Pairs -> LegType] /\ next \in [Pairs -> LegType]
    /\ traded \in [Pairs -> Nat] /\ bought \in [Pairs -> Seq(Nat)]

(* next is a leg of the candles so far; the swing low of the leg before was *)
(* confirmed before, and the legs move forward.                            *)
LegsFollow ==
    \A p \in Pairs :
       /\ LegInv(next[p], bars[p])
       /\ leg[p].ok => leg[p].lowIdx + Pivot <= Len(bars[p]) /\ leg[p].highIdx \in 1..Len(bars[p])
       /\ leg[p].ok /\ next[p].ok => leg[p].lowIdx <= next[p].lowIdx

(* No leg starts before the one that was traded last, which is the latest   *)
(* that was bought.                                                         *)
BoughtBefore ==
    \A p \in Pairs :
       /\ traded[p] = 0 \/ traded[p] + Pivot <= Len(bars[p])
       /\ leg[p].ok => traded[p] <= leg[p].lowIdx
       /\ next[p].ok => traded[p] <= next[p].lowIdx
       /\ \A i \in 1..Len(bought[p]) : bought[p][i] <= traded[p]
       /\ \A i, j \in 1..Len(bought[p]) : i < j => bought[p][i] < bought[p][j]

LegsInv == LegTypeOK /\ LegsFollow /\ BoughtBefore

(* No leg.                                                                  *)
LEMMA NoLegType == NoLeg \in LegType /\ ~NoLeg.ok /\ NoLeg.pivot = 0
  BY DEF NoLeg, LegType

(* Nothing has been recorded or bought.                                     *)
LEMMA InitLegs ==
  ASSUME AllInit
  PROVE  LegsInv
<1>1. /\ \A p \in Pairs : bars[p] = <<>> /\ leg[p] = NoLeg /\ next[p] = NoLeg
                          /\ traded[p] = 0 /\ bought[p] = <<>>
      /\ LegTypeOK
  BY NoLegType DEF AllInit, LegTypeOK
<1>2. Len(<<>>) = 0
  OBVIOUS
<1>3. LegsFollow
  BY <1>1, NoLegType DEF LegsFollow, LegInv
<1>4. BoughtBefore
  BY <1>1, <1>2, NoLegType DEF BoughtBefore
<1> QED BY <1>1, <1>3, <1>4 DEF LegsInv

(* A candle.                                                                *)
LEMMA CandleLegs ==
  ASSUME LegsInv, NEW p \in Pairs, NEW c \in Shapes, NEW complete, NEW again,
         Candle(p, c, complete, again)
  PROVE  LegsInv'
<1>1. UNCHANGED <<traded, bought>> /\ Record(p, c)
  BY DEF Candle, memory
<1>2. CASE kind # "fibonacci"
  <2>1. UNCHANGED <<bars, leg, next>>
    BY <1>1, <1>2 DEF Record
  <2> QED BY <1>1, <2>1 DEF LegsInv, LegTypeOK, LegsFollow, BoughtBefore
<1>3. CASE kind = "fibonacci"
  <2>1. PICK x : x = [low |-> c.low, high |-> c.high]
    OBVIOUS
  <2>2. x \in BarType
    <3>1. c \in [low : Prices, close : Prices, high : Prices]
      BY StrategiesAssumption DEF Candles
    <3>2. c.low \in Nat /\ c.high \in Nat
      BY <3>1, WalletAssumption
    <3> QED BY <2>1, <3>2 DEF BarType
  <2>3. PICK b, l, m : b = bars[p] /\ l = next[p] /\ m = NextLeg(l, Append(b, x))
    OBVIOUS
  <2>4. LegTypeOK /\ LegsFollow /\ BoughtBefore
    BY DEF LegsInv
  <2>5. b \in Seq(BarType) /\ l \in LegType /\ LegInv(l, b) /\ traded[p] \in Nat
    BY <2>3, <2>4 DEF LegTypeOK, LegsFollow
  <2>6. Append(b, x) \in Seq(BarType) /\ Len(Append(b, x)) = Len(b) + 1 /\ Len(b) \in Nat
    BY <2>2, <2>5
  <2>7. l.ok => l.lowIdx \in Nat /\ l.lowIdx + Pivot <= Len(b)
    BY <2>5 DEF LegInv, LegType, SwingLow
  <2>8. /\ LegInv(m, Append(b, x))
        /\ m.ok => traded[p] <= m.lowIdx
    BY <2>2, <2>3, <2>4, <2>5, NextLegInv DEF BoughtBefore
  <2>9. l.ok /\ m.ok => l.lowIdx <= m.lowIdx
    BY <2>2, <2>3, <2>5, <2>7, NextLegInv
  <2>10. m \in LegType
    BY <2>8 DEF LegInv
  <2>11. /\ bars' = [bars EXCEPT ![p] = Append(b, x)]
         /\ leg' = [leg EXCEPT ![p] = l]
         /\ next' = [next EXCEPT ![p] = m]
    <3>1. /\ bars' = [bars EXCEPT ![p] = Append(b, x)] /\ leg' = [leg EXCEPT ![p] = l]
          /\ next' = [next EXCEPT ![p] = NextLeg(l, bars'[p])]
      BY <1>1, <1>3, <2>1, <2>3 DEF Record
    <3>2. bars'[p] = Append(b, x)
      BY <2>4, <3>1 DEF LegTypeOK
    <3> QED BY <2>3, <3>1, <3>2
  <2>12. /\ bars'[p] = Append(b, x) /\ leg'[p] = l /\ next'[p] = m
         /\ \A r \in Pairs \ {p} : bars'[r] = bars[r] /\ leg'[r] = leg[r] /\ next'[r] = next[r]
    BY <2>4, <2>11 DEF LegTypeOK
  <2>13. LegTypeOK'
    BY <1>1, <2>4, <2>5, <2>6, <2>10, <2>11 DEF LegTypeOK
  <2>14. LegsFollow'
    <3> SUFFICES ASSUME NEW r \in Pairs
                 PROVE  /\ LegInv(next'[r], bars'[r])
                        /\ leg'[r].ok => leg'[r].lowIdx + Pivot <= Len(bars'[r])
                                         /\ leg'[r].highIdx \in 1..Len(bars'[r])
                        /\ leg'[r].ok /\ next'[r].ok => leg'[r].lowIdx <= next'[r].lowIdx
      BY DEF LegsFollow, LegInv, SwingLow, FirstHighest, IsPivotLow
    <3>1. CASE r = p
      <4>1. l.ok => l.lowIdx + Pivot <= Len(Append(b, x)) /\ l.highIdx \in 1..Len(Append(b, x))
        <5>1. l.ok => l.highIdx \in l.lowIdx..Len(b) /\ l.lowIdx >= 1
          BY <2>5, PivotAssumption DEF LegInv, FirstHighest, SwingLow, LegType
        <5> QED BY <2>6, <2>7, <5>1, PivotAssumption
      <4> QED BY ONLY <2>8, <2>9, <2>12, <3>1, <4>1
    <3>2. CASE r # p
      BY <2>4, <2>12, <3>2 DEF LegsFollow
    <3> QED BY <3>1, <3>2
  <2>15. BoughtBefore'
    <3> SUFFICES ASSUME NEW r \in Pairs
                 PROVE  /\ traded[r] = 0 \/ traded[r] + Pivot <= Len(bars'[r])
                        /\ leg'[r].ok => traded[r] <= leg'[r].lowIdx
                        /\ next'[r].ok => traded[r] <= next'[r].lowIdx
                        /\ \A i \in 1..Len(bought[r]) : bought[r][i] <= traded[r]
                        /\ \A i, j \in 1..Len(bought[r]) : i < j => bought[r][i] < bought[r][j]
      BY <1>1 DEF BoughtBefore
    <3>1. /\ \A i \in 1..Len(bought[r]) : bought[r][i] <= traded[r]
          /\ \A i, j \in 1..Len(bought[r]) : i < j => bought[r][i] < bought[r][j]
      BY <2>4 DEF BoughtBefore
    <3>2. CASE r = p
      <4>1. traded[p] = 0 \/ traded[p] + Pivot <= Len(b)
        BY <2>3, <2>4 DEF BoughtBefore
      <4>2. l.ok => traded[p] <= l.lowIdx
        BY <2>3, <2>4 DEF BoughtBefore
      <4>3. traded[p] = 0 \/ traded[p] + Pivot <= Len(bars'[p])
        BY <2>5, <2>6, <2>12, <4>1, PivotAssumption
      <4> QED BY <2>8, <2>12, <3>1, <3>2, <4>2, <4>3
    <3>3. CASE r # p
      BY <2>4, <2>12, <3>1, <3>3 DEF BoughtBefore
    <3> QED BY <3>2, <3>3
  <2> QED BY <2>13, <2>14, <2>15 DEF LegsInv
<1> QED BY <1>2, <1>3

(* A purchase of Fibonacci: of a leg after the one that was traded last.    *)
LEMMA FibonacciLegsInv ==
  ASSUME LegsInv, NEW p \in Pairs, Fibonacci(p)
  PROVE  LegsInv'
<1>1. UNCHANGED <<bars, leg, next>>
  BY DEF Fibonacci, chart
<1>2. LegTypeOK /\ LegsFollow /\ BoughtBefore
  BY DEF LegsInv
<1>3. CASE UNCHANGED <<traded, bought>>
  BY <1>1, <1>2, <1>3 DEF LegsInv, LegTypeOK, LegsFollow, BoughtBefore
<1>4. CASE ~UNCHANGED <<traded, bought>>
  <2>1. PICK v, w : v = leg[p].lowIdx /\ w = bought[p]
    OBVIOUS
  <2>2. /\ leg[p].ok /\ traded[p] # v
        /\ traded' = [traded EXCEPT ![p] = v]
        /\ bought' = [bought EXCEPT ![p] = Append(w, v)]
    BY <1>4, <2>1 DEF Fibonacci, Pullback, TradedLeg
  <2>3. leg[p] \in LegType /\ next[p] \in LegType /\ traded[p] \in Nat /\ w \in Seq(Nat)
    BY <1>2, <2>1 DEF LegTypeOK
  <2>4. v \in Nat /\ next[p].lowIdx \in Nat
    BY <2>1, <2>3 DEF LegType
  <2>5. traded[p] < v
    BY <1>2, <2>1, <2>2, <2>3, <2>4 DEF BoughtBefore
  <2>6. /\ traded'[p] = v /\ bought'[p] = Append(w, v)
        /\ \A r \in Pairs \ {p} : traded'[r] = traded[r] /\ bought'[r] = bought[r]
    BY <1>2, <2>2 DEF LegTypeOK
  <2>7. LegTypeOK'
    <3>1. Append(w, v) \in Seq(Nat)
      BY <2>3, <2>4
    <3> QED BY <1>1, <1>2, <2>2, <2>4, <3>1 DEF LegTypeOK
  <2>8. LegsFollow'
    BY <1>1, <1>2 DEF LegsFollow
  <2>9. v + Pivot <= Len(bars[p]) /\ (next[p].ok => v <= next[p].lowIdx)
    BY <1>2, <2>1, <2>2 DEF LegsFollow
  <2>10. /\ \A i \in 1..Len(Append(w, v)) : Append(w, v)[i] <= v
         /\ \A i, j \in 1..Len(Append(w, v)) : i < j => Append(w, v)[i] < Append(w, v)[j]
    <3>1. PICK k, u : k = Len(w) /\ u = Append(w, v)
      OBVIOUS
    <3>2. k \in Nat /\ Len(u) = k + 1 /\ u[k + 1] = v /\ \A i \in 1..k : u[i] = w[i] /\ w[i] \in Nat
      BY <2>3, <2>4, <3>1
    <3>3. \A i \in 1..k : u[i] <= traded[p]
      BY <1>2, <2>1, <3>1, <3>2 DEF BoughtBefore
    <3>4. \A i, j \in 1..k : i < j => u[i] < u[j]
      BY <1>2, <2>1, <3>1, <3>2 DEF BoughtBefore
    <3>5. \A i \in 1..(k + 1) : i = k + 1 \/ i \in 1..k
      BY <3>2
    <3>6. \A i \in 1..k : u[i] < v
      BY <2>3, <2>4, <2>5, <3>2, <3>3
    <3>7. \A i \in 1..(k + 1) : u[i] <= v
      BY <2>4, <3>2, <3>5, <3>6
    <3>8. ASSUME NEW i \in 1..(k + 1), NEW j \in 1..(k + 1), i < j PROVE u[i] < u[j]
      <4>1. i \in 1..k
        BY <3>2, <3>8
      <4> QED BY <3>2, <3>4, <3>5, <3>6, <3>8, <4>1
    <3> QED BY <3>1, <3>2, <3>7, <3>8
  <2>11. BoughtBefore'
    <3> SUFFICES ASSUME NEW r \in Pairs
                 PROVE  /\ traded'[r] = 0 \/ traded'[r] + Pivot <= Len(bars[r])
                        /\ leg[r].ok => traded'[r] <= leg[r].lowIdx
                        /\ next[r].ok => traded'[r] <= next[r].lowIdx
                        /\ \A i \in 1..Len(bought'[r]) : bought'[r][i] <= traded'[r]
                        /\ \A i, j \in 1..Len(bought'[r]) : i < j => bought'[r][i] < bought'[r][j]
      BY <1>1 DEF BoughtBefore
    <3>1. CASE r = p
      <4>1. PICK n, u : n = Len(bars[p]) /\ u = Append(w, v)
        OBVIOUS
      <4>2. traded'[r] = v /\ bought'[r] = u /\ v + Pivot <= n /\ leg[p].lowIdx = v /\ v <= v
        BY <2>1, <2>4, <2>6, <2>9, <3>1, <4>1
      <4>3. /\ \A i \in 1..Len(u) : u[i] <= v
            /\ \A i, j \in 1..Len(u) : i < j => u[i] < u[j]
        BY <2>10, <4>1
      <4> QED BY ONLY <2>9, <3>1, <4>1, <4>2, <4>3
    <3>2. CASE r # p
      BY <1>2, <2>6, <3>2 DEF BoughtBefore
    <3> QED BY <3>1, <3>2
  <2> QED BY <2>7, <2>8, <2>11 DEF LegsInv
<1> QED BY <1>3, <1>4

(* Only candles and the Fibonacci strategy touch the legs.                  *)
LEMMA LegsStep ==
  ASSUME LegsInv, [AllNext]_allVars
  PROVE  LegsInv'
<1>1. CASE UNCHANGED <<bars, leg, next, traded, bought>>
  BY <1>1 DEF LegsInv, LegTypeOK, LegsFollow, BoughtBefore
<1>2. CASE UNCHANGED allVars
  <2>1. UNCHANGED <<bars, leg, next, traded, bought>>
    BY <1>2 DEF allVars, chart, memory
  <2> QED BY <1>1, <2>1
<1>3. CASE PlaceExit
  <2>1. UNCHANGED <<bars, leg, next, traded, bought>>
    BY <1>3 DEF PlaceExit, chart, memory
  <2> QED BY <1>1, <2>1
<1>4. ASSUME NEW p \in Pairs, NEW c \in Shapes, NEW complete \in BOOLEAN,
             NEW again \in BOOLEAN, Candle(p, c, complete, again)
      PROVE  LegsInv'
  BY <1>4, CandleLegs
<1>5. ASSUME NEW p \in Pairs, Strategy(p) PROVE LegsInv'
  <2>1. CASE Fibonacci(p)
    BY <2>1, FibonacciLegsInv
  <2>2. CASE OCOSell(p) \/ DCA(p) \/ CrossEMA(p) \/ Turtle(p) \/ Enter(p) \/ Trail(p) \/ Nothing(p)
    <3>1. UNCHANGED <<bars, leg, next, traded, bought>>
      BY <2>2 DEF OCOSell, DCA, CrossEMA, Turtle, Enter, Trail, Nothing, chart, memory
    <3> QED BY <1>1, <3>1
  <2> QED BY <1>5, <2>1, <2>2 DEF Strategy
<1> QED BY <1>2, <1>3, <1>4, <1>5 DEF AllNext

(* What the next theorems rest on.                                          *)
LEMMA LegsInvariant == AllSpec => []LegsInv
  BY InitLegs, LegsStep, PTL DEF AllSpec

(* "from a swing low to the highest high after it": however fibLegs extends *)
(* a leg, anchors it at a later low or starts another, what the strategy    *)
(* trades is such a leg.                                                    *)
THEOREM LegIsSwingCorrect == AllSpec => []LegIsSwing
<1>1. ASSUME LegsInv, NEW p \in Pairs, next[p].ok PROVE IsSwing(next[p], bars[p])
  <2>1. PICK l, b : l = next[p] /\ b = bars[p] /\ l.ok
    BY <1>1
  <2>2. b \in Seq(BarType) /\ LegInv(l, b)
    BY <1>1, <2>1 DEF LegsInv, LegTypeOK, LegsFollow
  <2>3. SwingLow(b, l.lowIdx) /\ FirstHighest(b, l.lowIdx, Len(b), l.highIdx)
    BY <2>1, <2>2 DEF LegInv
  <2>4. l.lowIdx \in 1..Len(b) /\ Len(b) \in l.lowIdx..Len(b)
    BY <2>2, <2>3, PivotAssumption DEF SwingLow, LegInv, LegType
  <2>5. l.highIdx = Highest(b, l.lowIdx, Len(b))
    BY <2>2, <2>3, <2>4, HighestIsFirst
  <2> QED BY <2>1, <2>3, <2>5 DEF IsSwing, SwingLow
<1>2. LegsInv => LegIsSwing
  BY <1>1 DEF LegIsSwing, IsSwing
<1> QED BY <1>2, LegsInvariant, PTL

(* "each leg is traded once": remembering the last leg is enough, because   *)
(* no later leg starts before it.                                           *)
THEOREM EachLegOnceCorrect == AllSpec => []EachLegOnce
<1>1. ASSUME LegsInv, NEW p \in Pairs, NEW i \in 1..clock, NEW j \in 1..clock,
             i < j, j <= Len(bought[p])
      PROVE  bought[p][i] < bought[p][j]
  <2>1. Len(bought[p]) \in Nat
    BY <1>1 DEF LegsInv, LegTypeOK
  <2>2. i \in 1..Len(bought[p]) /\ j \in 1..Len(bought[p])
    BY <1>1, <2>1
  <2> QED BY <1>1, <2>2 DEF LegsInv, BoughtBefore
<1>2. LegsInv => EachLegOnce
  BY <1>1 DEF EachLegOnce
<1> QED BY <1>2, LegsInvariant, PTL

-----------------------------------------------------------------------------
(* The trades and the positions.                                           *)

(* What Controller.position and Results hold of a pair, and what is booked. *)
PositionType == {NoPosition} \cup [side : OrderSides, qty : Nat \ {0}, cost : Int]
BooksType    == [position : PositionType, results : Seq(Int)]
FillType     == {o \in OrderType : o.qty > 0}

(* An open position has a quantity to divide by. *)
LEMMA PositionFields ==
  ASSUME NEW pos \in PositionType
  PROVE  /\ pos.qty \in Nat /\ pos.cost \in Int /\ pos.side \in OrderSides \cup {"none"}
         /\ pos = NoPosition <=> pos.side = "none"
         /\ pos = NoPosition <=> pos.qty = 0
  BY DEF PositionType, NoPosition, OrderSides

(* A fill.                                                                  *)
LEMMA FillFields ==
  ASSUME NEW o \in FillType
  PROVE  /\ o \in OrderType /\ o.qty \in Nat \ {0} /\ o.price \in Nat /\ o.stop \in Nat
         /\ o.side \in OrderSides /\ TradePrice(o) \in Nat
  BY DEF FillType, OrderType, OrderSides, TradePrice

(* A fill of the same side adds to a long position, one of the other side   *)
(* that is not larger takes from it.                                        *)
LEMMA UpdatedTyped ==
  ASSUME NEW pos \in PositionType, NEW o \in FillType
  PROVE  /\ Updated(pos, o) \in PositionType
         /\ pos.side \in {"none", "BUY"} /\ o.side = "BUY" =>
               Updated(pos, o).side = "BUY" /\ Updated(pos, o).qty = pos.qty + o.qty
         /\ pos.side = "BUY" /\ o.side = "SELL" /\ o.qty <= pos.qty =>
               Updated(pos, o).side \in {"none", "BUY"} /\ Updated(pos, o).qty = pos.qty - o.qty
<1>1. /\ pos.qty \in Nat /\ pos.cost \in Int /\ pos.side \in OrderSides \cup {"none"}
      /\ pos = NoPosition <=> pos.side = "none"
      /\ pos = NoPosition <=> pos.qty = 0
  BY PositionFields
<1>2. /\ o.qty \in Nat \ {0} /\ o.price \in Nat /\ o.side \in OrderSides /\ TradePrice(o) \in Nat
  BY FillFields
<1>3. CASE pos = NoPosition
  <2>1. Updated(pos, o) = Opened(o)
    BY <1>1, <1>3 DEF Updated
  <2>2. o.qty * o.price \in Int
    BY <1>2
  <2>3. Opened(o) \in PositionType /\ Opened(o).side = o.side /\ Opened(o).qty = o.qty
    BY <1>2, <2>2 DEF Opened, PositionType
  <2> QED BY <1>1, <1>2, <1>3, <2>1, <2>3
<1>4. CASE pos # NoPosition
  <2>0. pos \in [side : OrderSides, qty : Nat \ {0}, cost : Int] /\ pos.side \in OrderSides
        /\ pos.qty \in Nat \ {0} /\ pos.side # "none"
    BY <1>4 DEF PositionType, OrderSides
  <2>1. CASE pos.side = o.side
    <3>1. Updated(pos, o) = Increased(pos, o)
      BY <1>4, <2>1 DEF Updated
    <3>2. o.qty * TradePrice(o) \in Int
      BY <1>2
    <3>3. PICK x \in Int : x = o.qty * TradePrice(o)
      BY <3>2
    <3>4. Increased(pos, o) = [pos EXCEPT !.qty = pos.qty + o.qty, !.cost = pos.cost + x]
      BY <3>3 DEF Increased
    <3>5. pos.qty + o.qty \in Nat \ {0} /\ pos.cost + x \in Int
      BY <1>1, <1>2, <3>3
    <3>6. /\ Increased(pos, o) \in [side : OrderSides, qty : Nat \ {0}, cost : Int]
          /\ Increased(pos, o).side = pos.side /\ Increased(pos, o).qty = pos.qty + o.qty
      BY <2>0, <3>4, <3>5
    <3> QED BY <1>1, <1>2, <2>0, <2>1, <3>1, <3>6 DEF PositionType, OrderSides
  <2>2. CASE pos.side # o.side /\ pos.qty > o.qty
    <3>1. Updated(pos, o) = Reduced(pos, o)
      BY <1>4, <2>0, <2>2 DEF Updated
    <3>2. PICK x : x = (pos.cost * (pos.qty - o.qty)) \div pos.qty
      OBVIOUS
    <3>3. x \in Int
      <4>1. PICK y \in Int : y = pos.cost * (pos.qty - o.qty)
        BY <1>1, <1>2
      <4> QED BY <2>0, <3>2, <4>1
    <3>4. Reduced(pos, o) = [pos EXCEPT !.qty = pos.qty - o.qty, !.cost = x]
      BY <3>2 DEF Reduced
    <3>5. pos.qty - o.qty \in Nat \ {0}
      BY <1>1, <1>2, <2>2
    <3>6. /\ Reduced(pos, o) \in [side : OrderSides, qty : Nat \ {0}, cost : Int]
          /\ Reduced(pos, o).side = pos.side /\ Reduced(pos, o).qty = pos.qty - o.qty
      BY <2>0, <3>3, <3>4, <3>5
    <3> QED BY <2>0, <2>2, <3>1, <3>6 DEF PositionType, OrderSides
  <2>3. CASE pos.side # o.side /\ pos.qty = o.qty
    <3>1. Updated(pos, o) = NoPosition
      BY <1>4, <2>0, <2>3 DEF Updated
    <3>2. NoPosition \in PositionType /\ NoPosition.side = "none" /\ NoPosition.qty = 0
      BY DEF NoPosition, PositionType
    <3> QED BY <1>1, <1>2, <2>0, <2>3, <3>1, <3>2 DEF OrderSides
  <2>4. CASE pos.side # o.side /\ pos.qty < o.qty
    <3>1. Updated(pos, o) = Flipped(pos, o)
      BY <1>2, <1>4, <2>0, <2>4 DEF Updated
    <3>2. o.qty - pos.qty \in Nat \ {0}
      BY <1>1, <1>2, <2>4
    <3>3. (o.qty - pos.qty) * TradePrice(o) \in Int
      BY <1>2, <3>2
    <3>4. Flipped(pos, o) \in PositionType
      BY <1>2, <3>2, <3>3 DEF Flipped, PositionType
    <3> QED BY <1>1, <1>2, <2>0, <2>4, <3>1, <3>4 DEF OrderSides
  <2> QED BY <1>1, <1>2, <2>1, <2>2, <2>3, <2>4
<1> QED BY <1>3, <1>4

(* What is realized is an amount.                                           *)
LEMMA ProcessedTyped ==
  ASSUME NEW acc \in BooksType, NEW o \in FillType
  PROVE  /\ Processed(acc, o) \in BooksType /\ Processed(acc, o).position = Updated(acc.position, o)
         /\ Len(acc.results) \in Nat
         /\ Realizes(acc.position, o) =>
               /\ ProfitValue(acc.position, o) \in Int
               /\ Processed(acc, o).results = Append(acc.results, ProfitValue(acc.position, o))
               /\ Len(Processed(acc, o).results) = Len(acc.results) + 1
         /\ ~Realizes(acc.position, o) => Processed(acc, o).results = acc.results
<1>1. acc.position \in PositionType /\ acc.results \in Seq(Int)
  BY DEF BooksType
<1>2. PICK pos : pos = acc.position
  OBVIOUS
<1>3. /\ pos.qty \in Nat /\ pos.cost \in Int
      /\ Realizes(pos, o) => pos.qty > 0
  BY <1>1, <1>2, PositionFields DEF Realizes
<1>4. o.qty \in Nat \ {0} /\ TradePrice(o) \in Nat
  BY FillFields
<1>5. ASSUME Realizes(pos, o) PROVE ProfitValue(pos, o) \in Int
  <2>1. PICK q : q = IF pos.qty = o.qty THEN o.qty ELSE Min({pos.qty - o.qty, o.qty})
    OBVIOUS
  <2>2. q \in Int
    <3>1. Min({pos.qty - o.qty, o.qty}) \in Int
      <4>1. PICK a, b : a = pos.qty - o.qty /\ b = o.qty
        OBVIOUS
      <4>2. a \in Int /\ b \in Int
        BY <1>3, <1>4, <4>1
      <4>3. Min({a, b}) = IF a <= b THEN a ELSE b
        BY <4>2, TwoNumbers
      <4> QED BY <4>1, <4>2, <4>3
    <3> QED BY <1>4, <2>1, <3>1
  <2>3. PICK x : x = (TradePrice(o) * pos.qty - pos.cost) * q
    OBVIOUS
  <2>4. x \in Int
    <3>1. TradePrice(o) * pos.qty - pos.cost \in Int
      BY <1>3, <1>4
    <3> QED BY <2>2, <2>3, <3>1
  <2>5. x \div pos.qty \in Int
    BY <1>3, <1>5, <2>4
  <2>6. ProfitValue(pos, o) = IF o.qty > pos.qty THEN 0 ELSE x \div pos.qty
    BY <2>1, <2>3 DEF ProfitValue
  <2> QED BY <2>5, <2>6
<1>6. PICK r : r = IF Realizes(pos, o) THEN Append(acc.results, ProfitValue(pos, o)) ELSE acc.results
  OBVIOUS
<1>7. r \in Seq(Int)
  BY <1>1, <1>5, <1>6
<1>8. Processed(acc, o) = [position |-> Updated(pos, o), results |-> r]
  BY <1>2, <1>6 DEF Processed
<1>9. Processed(acc, o) \in BooksType /\ Processed(acc, o).position = Updated(acc.position, o)
  BY <1>1, <1>2, <1>7, <1>8, UpdatedTyped DEF BooksType
<1>10. Processed(acc, o).results = r /\ Len(acc.results) \in Nat
  BY <1>1, <1>8
<1>11. ASSUME Realizes(pos, o)
       PROVE  r = Append(acc.results, ProfitValue(pos, o)) /\ Len(r) = Len(acc.results) + 1
  <2>1. PICK s, v : s = acc.results /\ v = ProfitValue(pos, o)
    OBVIOUS
  <2>2. s \in Seq(Int) /\ v \in Int /\ r = Append(s, v)
    BY <1>1, <1>5, <1>6, <1>11, <2>1
  <2> QED BY <2>1, <2>2
<1> QED BY <1>2, <1>5, <1>6, <1>9, <1>10, <1>11

(* What ProcessTrades books.                                                *)
Booked(base, s) == FoldLeft(Processed, base, s)

(* The fills of an iteration of UpdateOrders are booked one after the other. *)
LEMMA TradesInOrder ==
  ASSUME NEW base \in BooksType, NEW n \in Nat, NEW s \in [1..n -> FillType]
  PROVE  \E acc \in [0..n -> BooksType] :
            /\ acc[0] = base /\ acc[n] = Booked(base, s)
            /\ \A k \in 1..n : acc[k] = Processed(acc[k - 1], s[k])
<1> DEFINE S == 1..n
           ch == [t \in SUBSET S |-> Max(t)]
           step == [i \in S |-> [v \in BooksType |-> Processed(v, s[i])]]
           Folds(f) == f = [t \in SUBSET S |-> IF t = {} THEN base
                                               ELSE Processed(f[t \ {Max(t)}], s[Max(t)])]
<1>1. IsFiniteSet(S) /\ \A t \in SUBSET S : t # {} => Max(t) \in t
  <2>1. ASSUME NEW t \in SUBSET S PROVE IsFiniteSet(t) /\ t \in SUBSET Nat
    <3>1. IsFiniteSet(t)
      BY SetOfIndices
    <3> QED BY <3>1
  <2>2. \A t \in SUBSET S : t # {} => Max(t) \in t
    <3> HIDE DEF S
    <3> QED BY <2>1, MaxIsThere
  <2>3. S \in SUBSET S
    OBVIOUS
  <2> HIDE DEF S
  <2> QED BY <2>1, <2>2, <2>3
<1>2. \A v \in BooksType, i \in S : Processed(v, s[i]) \in BooksType
  BY ProcessedTyped
<1>3. Iterable(S, ch, step, base, BooksType)
  <2> HIDE DEF S
  <2> QED BY <1>1, <1>2 DEF Iterable
<1>4. PICK it \in [SUBSET S -> BooksType] : Iterates(it, S, ch, step, base)
  <2> HIDE DEF S, ch, step
  <2> QED BY <1>1, <1>3, IterationExists
<1>5. Folds(it)
  <2> HIDE DEF S
  <2>1. ASSUME NEW t \in SUBSET S, t # {}
        PROVE  step[ch[t]][it[t \ {ch[t]}]] = Processed(it[t \ {Max(t)}], s[Max(t)])
    <3>1. ch[t] = Max(t) /\ Max(t) \in S /\ it[t \ {Max(t)}] \in BooksType
      BY <1>1, <2>1
    <3> QED BY <3>1
  <2> HIDE DEF ch, step
  <2> QED BY <1>4, <2>1 DEF Iterates
<1> DEFINE fold == CHOOSE f : Folds(f)
<1>6. Booked(base, s) = fold[S]
  BY DEF Booked, FoldLeft, MapThenFoldSet
<1>7. Folds(fold)
  <2> HIDE DEF Folds
  <2> QED BY <1>5
<1> DEFINE acc == [k \in 0..n |-> fold[1..k]]
<1>8. acc[0] = base /\ acc[n] = fold[S]
  <2>1. 1..0 = {} /\ {} \in SUBSET S /\ 0 \in 0..n /\ n \in 0..n
    OBVIOUS
  <2>2. fold[{}] = base
    <3> HIDE DEF S, fold
    <3> QED BY <1>7, <2>1
  <2> HIDE DEF fold
  <2> QED BY <2>1, <2>2
<1>9. ASSUME NEW k \in 1..n
      PROVE  acc[k] = Processed(acc[k - 1], s[k])
  <2>1. PICK t : t = 1..k
    OBVIOUS
  <2>2. t \in SUBSET S /\ t # {} /\ t \in SUBSET Nat
    BY <2>1
  <2>3. Max(t) \in t /\ Max(t) \in Nat
    <3> HIDE DEF S
    <3> QED BY <1>1, <2>2
  <2>4. Max(t) = k
    <3>1. \E x \in t : \A y \in t : x >= y
      <4>1. k \in t /\ \A y \in t : k >= y
        BY <2>1
      <4> QED BY <4>1
    <3>2. \A y \in t : Max(t) >= y
      BY <3>1 DEF Max
    <3> QED BY <2>1, <2>3, <3>2
  <2>5. t \ {k} = 1..(k - 1) /\ k \in 0..n /\ k - 1 \in 0..n
    BY <2>1
  <2>6. fold[t] = Processed(fold[t \ {k}], s[k])
    <3> HIDE DEF S, fold
    <3> QED BY <1>7, <2>2, <2>4
  <2> HIDE DEF fold
  <2> QED BY <2>1, <2>5, <2>6
<1>10. \A k \in 0..n : acc[k] \in BooksType
  <2> HIDE DEF acc, fold
  <2> DEFINE G == {k \in Nat : k <= n => acc[k] \in BooksType}
  <2>1. 0 \in G
    BY <1>8
  <2>2. ASSUME NEW k \in Nat, k \in G PROVE k + 1 \in G
    <3> SUFFICES ASSUME k + 1 <= n PROVE acc[k + 1] \in BooksType
      OBVIOUS
    <3>1. k + 1 \in 1..n /\ (k + 1) - 1 = k /\ acc[k] \in BooksType
      BY <2>2
    <3>2. acc[k + 1] = Processed(acc[k], s[k + 1])
      BY <1>9, <3>1
    <3> QED BY <1>2, <3>1, <3>2
  <2>3. Nat \subseteq G
    <3> HIDE DEF G
    <3> QED BY <2>1, <2>2, NatSetInduction
  <2> QED BY <2>3
<1>11. acc \in [0..n -> BooksType]
  <2>1. DOMAIN acc = 0..n /\ acc = [k \in 0..n |-> acc[k]]
    OBVIOUS
  <2> HIDE DEF acc
  <2> QED BY <1>10, <2>1
<1> HIDE DEF acc, fold
<1> QED BY <1>6, <1>8, <1>9, <1>11

(* Sales of what a position has reduce it by what they sell.                *)
LEMMA SalesReduce ==
  ASSUME NEW pos \in PositionType, pos.side \in {"none", "BUY"},
         NEW n \in Nat, NEW acc \in [0..n -> BooksType], NEW s \in [1..n -> FillType],
         acc[0].position = pos,
         \A k \in 1..n : acc[k] = Processed(acc[k - 1], s[k]) /\ s[k].side = "SELL",
         NEW sum \in [0..n -> Nat], sum[0] = 0,
         \A k \in 1..n : sum[k] = sum[k - 1] + s[k].qty,
         sum[n] <= pos.qty
  PROVE  /\ acc[n].position.side \in {"none", "BUY"} /\ acc[n].position.qty = pos.qty - sum[n]
         /\ Len(acc[n].results) = Len(acc[0].results) + n
<1> DEFINE Good(k) == /\ acc[k].position.side \in {"none", "BUY"}
                      /\ acc[k].position.qty = pos.qty - sum[k]
                      /\ Len(acc[k].results) = Len(acc[0].results) + k
           Low == {k \in Nat : \A j \in 0..n : j + k <= n => sum[j] <= sum[j + k]}
           G == {k \in Nat : k <= n => Good(k)}
<1>0. \A k \in 1..n : s[k].qty \in Nat \ {0} /\ s[k] \in FillType /\ k - 1 \in 0..n /\ k \in 0..n
  BY FillFields
<1>1. \A k \in 0..n : sum[k] <= pos.qty
  <2>1. 0 \in Low
    OBVIOUS
  <2>2. ASSUME NEW k \in Nat, k \in Low PROVE k + 1 \in Low
    <3> SUFFICES ASSUME NEW j \in 0..n, j + (k + 1) <= n PROVE sum[j] <= sum[j + (k + 1)]
      OBVIOUS
    <3>1. sum[j] <= sum[j + k]
      BY <2>2
    <3>2. PICK e : e = j + (k + 1)
      OBVIOUS
    <3>3. e \in 1..n /\ e - 1 = j + k /\ j + k \in 0..n /\ e \in 0..n
      BY <3>2
    <3>4. sum[e] = sum[e - 1] + s[e].qty /\ s[e].qty \in Nat
      BY <1>0, <3>3
    <3>5. sum[j] \in Nat /\ sum[j + k] \in Nat /\ sum[e] \in Nat
      BY <3>3
    <3> QED BY <3>1, <3>2, <3>3, <3>4, <3>5
  <2>3. Nat \subseteq Low
    <3> HIDE DEF Low
    <3> QED BY <2>1, <2>2, NatSetInduction
  <2> SUFFICES ASSUME NEW k \in 0..n PROVE sum[k] <= pos.qty
    OBVIOUS
  <2>4. PICK d : d = n - k
    OBVIOUS
  <2>7. d \in Nat /\ k + d = n /\ k + d <= n
    BY <2>4
  <2>8. d \in Low
    <3> HIDE DEF Low
    <3> QED BY <2>3, <2>7
  <2>5. sum[k] <= sum[k + d]
    BY <2>7, <2>8
  <2>6. sum[k] \in Nat /\ sum[n] \in Nat /\ pos.qty \in Nat
    BY PositionFields
  <2>9. sum[k + d] = sum[n]
    BY <2>7
  <2> HIDE DEF Low
  <2> QED BY <2>5, <2>6, <2>9
<1>5. Len(acc[0].results) \in Nat
  <2>1. acc[0].results \in Seq(Int)
    BY DEF BooksType
  <2> QED BY <2>1
<1>2. 0 \in G
  BY <1>5, PositionFields
<1>3. ASSUME NEW k \in Nat, k \in G PROVE k + 1 \in G
  <2> HIDE DEF Good
  <2> SUFFICES ASSUME k + 1 <= n PROVE Good(k + 1)
    OBVIOUS
  <2> USE DEF Good
  <2>1. PICK e, o, a, b : e = k + 1 /\ o = s[e] /\ a = acc[k] /\ b = acc[e]
    OBVIOUS
  <2>2. e \in 1..n /\ e - 1 = k /\ k \in 0..n /\ e \in 0..n
    BY <2>1
  <2>3. o \in FillType /\ o.side = "SELL" /\ o.qty \in Nat \ {0} /\ a \in BooksType
    BY <1>0, <2>1, <2>2
  <2>4. a.position.side \in {"none", "BUY"} /\ a.position.qty = pos.qty - sum[k]
    BY <1>3, <2>1, <2>2
  <2>5. sum[e] = sum[k] + o.qty /\ sum[e] <= pos.qty /\ sum[k] \in Nat /\ sum[e] \in Nat /\ pos.qty \in Nat
    BY <1>1, <2>1, <2>2, PositionFields
  <2>6. a.position \in PositionType
    BY <2>3 DEF BooksType
  <2>11. b = Processed(a, o)
    <3>1. acc[e] = Processed(acc[e - 1], s[e])
      BY <2>2
    <3> QED BY <2>1, <2>2, <3>1
  <2>7. b = Processed(a, o) /\ b.position = Updated(a.position, o)
    BY <2>3, <2>11, ProcessedTyped
  <2>8. a.position.qty \in Nat /\ o.qty <= a.position.qty /\ a.position.side = "BUY"
    <3>1. o.qty <= a.position.qty
      BY <2>3, <2>4, <2>5
    <3> QED BY <2>3, <2>4, <2>6, <3>1, PositionFields
  <2>9. /\ Updated(a.position, o).side \in {"none", "BUY"}
        /\ Updated(a.position, o).qty = a.position.qty - o.qty
    BY <2>3, <2>6, <2>8, UpdatedTyped
  <2>10. b.position.side \in {"none", "BUY"} /\ b.position.qty = pos.qty - sum[e]
    BY <2>4, <2>5, <2>3, <2>7, <2>9
  <2>12. Len(b.results) = Len(acc[0].results) + e
    <3>1. Realizes(a.position, o)
      BY <2>3, <2>8 DEF Realizes
    <3>2. Len(a.results) = Len(acc[0].results) + k
      BY <1>3, <2>1, <2>2
    <3>3. Len(b.results) = Len(a.results) + 1
      BY <2>3, <2>11, <3>1, ProcessedTyped
    <3>4. PICK z \in Nat : z = Len(acc[0].results)
      BY <1>5
    <3>5. e = k + 1
      BY <2>1
    <3>6. Len(a.results) = z + k /\ Len(b.results) = (z + k) + 1
      BY <3>2, <3>3, <3>4
    <3>7. (z + k) + 1 = z + e
      BY ONLY <3>4, <3>5, k \in Nat
    <3> QED BY <3>4, <3>6, <3>7
  <2> QED BY <2>1, <2>10, <2>12
<1>4. n \in G
  <2>1. Nat \subseteq G
    <3> HIDE DEF G
    <3> QED BY <1>2, <1>3, NatSetInduction
  <2> QED BY <2>1
<1> QED BY <1>4

-----------------------------------------------------------------------------
(* What the strategies do with the wallet.                                  *)

(* The orders account for the balances of the wallet (PaperWalletProofs).   *)
MoneyInv == WalletInv /\ LongOrders /\ Funds /\ Books

(* The position is what the wallet holds of a pair, and never short.        *)
HoldInv ==
    /\ position \in [Pairs -> PositionType] /\ results \in [Pairs -> Seq(Int)]
    /\ \A p \in Pairs : position[p].side # "SELL" /\ position[p].qty = AssetPosition(p)

OcoKinds == {"ocosell", "fibonacci"}
ExitType == [pair : Pairs, size : Nat \ {0}, price : Nat, stop : Nat]

(* Only sales wait, of strategies with OCO orders; what the next one sells  *)
(* has just been bought.                                                    *)
ExitInv ==
    /\ \A i \in DOMAIN orders : New(i) => orders[i].side = "SELL" /\ kind \in OcoKinds
    /\ phase = "exit" => /\ kind \in OcoKinds /\ exit \in ExitType
                         /\ exit.size <= assets[exit.pair].free

(* Amounts of a wallet.                                                     *)
LEMMA MoneyTyped ==
  ASSUME MoneyInv
  PROVE  /\ WalletTypeOK
         /\ quote.free \in Nat /\ quote.lock \in Nat /\ QuotePosition \in Nat
         /\ \A p \in Pairs : /\ assets[p].free \in Nat /\ assets[p].lock \in Nat
                             /\ AssetPosition(p) \in Nat /\ last[p] \in Nat
<1>1. WalletTypeOK /\ Funds
  BY DEF MoneyInv, WalletInv
<1>2. BuysLocked \in Nat /\ \A p \in Pairs : OnSale(p) \in Nat
  BY <1>1, BooksTyped
<1>3. /\ quote.free \in Int /\ quote.lock \in Int
      /\ \A p \in Pairs : assets[p].free \in Int /\ assets[p].lock \in Int /\ last[p] \in Nat
  BY <1>1 DEF WalletTypeOK, BalanceType
<1>4. quote.free \in Nat /\ quote.lock \in Nat
  BY <1>1, <1>2, <1>3 DEF Funds
<1>5. \A p \in Pairs : assets[p].free \in Nat /\ assets[p].lock \in Nat
  BY <1>1, <1>2, <1>3 DEF Funds
<1> QED BY <1>1, <1>3, <1>4, <1>5 DEF QuotePosition, AssetPosition

(* Nothing is locked when nothing waits.                                    *)
LEMMA NothingLocked ==
  ASSUME MoneyInv, \A i \in DOMAIN orders : ~New(i), NEW p \in Pairs
  PROVE  assets[p].lock = 0
<1>1. WaitingSales(p) = {}
  BY DEF WaitingSales, Waiting
<1>2. OnSale(p) = 0
  BY <1>1, SumEmpty DEF OnSale
<1> QED BY <1>2 DEF MoneyInv, Funds

(* What a trade o makes of the books of its pair.                           *)
TradeBooked(p, o) ==
    LET after == Processed([position |-> position[p], results |-> results[p]], o) IN
    /\ position' = [position EXCEPT ![p] = after.position]
    /\ results' = [results EXCEPT ![p] = after.results]
    /\ parts' = IF SoldWhole(p, after) THEN parts ELSE parts \cup {p}

(* A trade at the market is made at the last price, and booked.             *)
LEMMA MarketFill ==
  ASSUME MoneyInv, HoldInv, NEW p \in Pairs, NEW side \in OrderSides, NEW size \in Nat,
         Market(p, side, size)
  PROVE  \E o \in FillType :
            /\ Trade(p, o) /\ o.side = side /\ o.qty = size /\ o.price = last[p]
            /\ TradePrice(o) = o.price /\ TradeBooked(p, o)
<1>0. /\ WalletTypeOK /\ orders \in Seq(OrderType)
      /\ position \in [Pairs -> PositionType] /\ results \in [Pairs -> Seq(Int)]
  BY DEF MoneyInv, WalletInv, HoldInv, WalletTypeOK
<1>1. CreateOrderMarket(p, side, size)
  BY DEF Market
<1>2. PICK o \in OrderType : Trade(p, o) /\ o.side = side /\ o.qty = size /\ o.price = last[p]
  BY <1>0, <1>1, MarketIsTrade
<1>3. orders' = Append(orders, o) /\ o \in FillType
  BY <1>2 DEF Trade, FillType
<1>4. orders'[Len(orders')] = o
  BY <1>0, <1>3
<1>5. TradePrice(o) = o.price
  <2>1. orders' = Append(orders, Order(p, side, "MARKET", "FILLED", last[p], 0, size, 0))
    BY <1>1 DEF CreateOrderMarket
  <2>2. PICK x : x = Order(p, side, "MARKET", "FILLED", last[p], 0, size, 0)
    OBVIOUS
  <2>3. x.type = "MARKET"
    BY <2>2 DEF Order
  <2>4. orders'[Len(orders) + 1] = o
    BY <1>0, <1>3
  <2>5. orders'[Len(orders) + 1] = x
    <3>1. orders' = Append(orders, x) /\ orders \in Seq(OrderType)
      BY <1>0, <2>1, <2>2
    <3> QED BY ONLY <3>1, AppendProperties
  <2> QED BY <2>3, <2>4, <2>5 DEF TradePrice, StopTypes
<1>6. ProcessTrades(p, <<o>>)
  BY <1>4 DEF Market
<1>7. PICK base : base = [position |-> position[p], results |-> results[p]]
  OBVIOUS
<1>8. base \in BooksType
  BY <1>0, <1>7 DEF BooksType
<1>9. Booked(base, <<o>>) = Processed(base, o)
  <2>1. PICK s : s = <<o>>
    OBVIOUS
  <2>2. s \in [1..1 -> FillType] /\ s[1] = o
    BY <1>3, <1>8, <2>1
  <2>5. PICK n \in Nat : n = 1
    OBVIOUS
  <2>6. s \in [1..n -> FillType]
    BY <2>2, <2>5
  <2>3. PICK acc \in [0..n -> BooksType] :
           /\ acc[0] = base /\ acc[n] = Booked(base, s)
           /\ \A k \in 1..n : acc[k] = Processed(acc[k - 1], s[k])
    <3>1. n \in Nat /\ base \in BooksType
      BY <1>3, <1>8
    <3> QED BY ONLY <2>6, <3>1, TradesInOrder, Zenon
  <2>4. n \in 1..n /\ n - 1 = 0
    BY <2>5
  <2>7. acc[n] = Processed(acc[n - 1], s[n])
    BY <2>3, <2>4
  <2> QED BY <2>1, <2>2, <2>3, <2>4, <2>5, <2>7
<1>10. TradeBooked(p, o)
  BY <1>6, <1>7, <1>9 DEF ProcessTrades, Booked, TradeBooked
<1> QED BY <1>2, <1>3, <1>5, <1>10

(* A trade at the market is booked as it happens.                           *)
LEMMA MarketTrades ==
  ASSUME MoneyInv, HoldInv, NEW p \in Pairs, NEW side \in OrderSides, NEW size \in Nat,
         Market(p, side, size), side = "SELL" => size <= assets[p].free
  PROVE  /\ MoneyInv' /\ HoldInv' /\ size > 0
         /\ position'[p].qty = position[p].qty + (IF side = "BUY" THEN size ELSE 0 - size)
         /\ \A q \in Pairs : q # p => position'[q] = position[q]
         /\ assets'[p].free = assets[p].free + (IF side = "BUY" THEN size ELSE 0 - size)
         /\ \A i \in DOMAIN orders' : (i \in DOMAIN orders /\ orders'[i] = orders[i])
                                       \/ orders'[i].status = "FILLED"
         /\ orders'[Len(orders')].qty = size
         /\ last' = last /\ last[p] # 0
<1>0. /\ WalletInv /\ WalletTypeOK /\ LongOrders /\ Funds /\ Books
      /\ position \in [Pairs -> PositionType] /\ results \in [Pairs -> Seq(Int)]
  BY DEF MoneyInv, WalletInv, HoldInv
<1>1. CreateOrderMarket(p, side, size) /\ last[p] # 0 /\ size > 0 /\ last' = last
  BY DEF Market, CreateOrderMarket
<1>2. PICK o \in FillType : /\ Trade(p, o) /\ o.side = side /\ o.qty = size /\ o.price = last[p]
                            /\ TradeBooked(p, o)
  BY MarketFill
<1>11. o \in OrderType
  BY DEF FillType
<1>3. Covered(p, o)
  BY <1>2 DEF Covered
<1>4. MoneyInv'
  BY <1>0, <1>2, <1>3, <1>11, LongTrade, PlaceKeepsInv DEF MoneyInv
<1>5. PICK m : m = NextIndex(1)
  OBVIOUS
<1>6. /\ orders' = Append(orders, o) /\ orders \in Seq(OrderType)
      /\ Grown({m}) /\ orders'[m] = o /\ o.status = "FILLED"
  BY <1>0, <1>2, <1>5, <1>11, TradeTyped DEF Trade, WalletTypeOK
<1>7. orders'[Len(orders')] = o
  BY <1>6
<1>8. \A i \in DOMAIN orders' : (i \in DOMAIN orders /\ orders'[i] = orders[i])
                                \/ orders'[i].status = "FILLED"
  BY <1>6 DEF Grown
<1>10. PICK base : base = [position |-> position[p], results |-> results[p]]
  OBVIOUS
<1>12. base \in BooksType /\ base.position = position[p]
  BY <1>0, <1>10 DEF BooksType
<1>13. PICK b : b = Processed(base, o)
  OBVIOUS
<1>14. b \in BooksType /\ b.position = Updated(position[p], o)
  BY <1>12, <1>13, ProcessedTyped
<1>15. /\ position' = [position EXCEPT ![p] = b.position]
       /\ results' = [results EXCEPT ![p] = b.results]
  BY <1>2, <1>10, <1>13 DEF TradeBooked
<1>16. /\ position' \in [Pairs -> PositionType] /\ results' \in [Pairs -> Seq(Int)]
       /\ position'[p] = Updated(position[p], o)
       /\ \A q \in Pairs : q # p => position'[q] = position[q]
  BY <1>0, <1>14, <1>15 DEF BooksType
<1>17. /\ \A q \in Pairs :
             /\ assets'[q].free = assets[q].free + (IF q # p THEN 0
                                                    ELSE IF side = "SELL" THEN 0 - size ELSE size)
             /\ assets'[q].lock = assets[q].lock
  <2>1. assets[p].free >= 0
    BY <1>0 DEF Funds
  <2>2. FillFunds(p, side, size, last[p])
    BY <1>1 DEF CreateOrderMarket
  <2>3. last[p] \in Nat
    BY <1>0 DEF WalletTypeOK
  <2> QED BY <1>0, <2>1, <2>2, <2>3, LongFill
<1>18. /\ \A q \in Pairs : /\ assets[q].free \in Nat /\ assets[q].lock \in Nat
                            /\ position[q].qty = assets[q].free + assets[q].lock
                            /\ position[q].side # "SELL"
       /\ position[p].qty \in Nat /\ position[p].side \in {"none", "BUY"}
  <2>1. position[p].qty \in Nat /\ position[p].side \in {"none", "BUY"}
    BY <1>0, PositionFields DEF HoldInv, OrderSides
  <2> QED BY <2>1, MoneyTyped DEF HoldInv, AssetPosition
<1>19. /\ position'[p].side # "SELL"
       /\ position'[p].qty = position[p].qty + (IF side = "BUY" THEN size ELSE 0 - size)
  <2>1. CASE side = "BUY"
    BY <1>0, <1>2, <1>11, <1>16, <1>18, <2>1, UpdatedTyped
  <2>2. CASE side = "SELL"
    <3>3. position[p] \in PositionType
      BY <1>0
    <3>4. size <= position[p].qty /\ position[p].qty # 0
      BY <1>1, <1>18, <2>2
    <3>1. size <= position[p].qty /\ position[p].side = "BUY"
      BY <1>18, <3>3, <3>4, PositionFields
    <3>2. /\ Updated(position[p], o).side \in {"none", "BUY"}
          /\ Updated(position[p], o).qty = position[p].qty - size
      BY <1>0, <1>2, <1>11, <2>2, <3>1, UpdatedTyped
    <3> QED BY <1>16, <1>18, <2>2, <3>2
  <2> QED BY <2>1, <2>2 DEF OrderSides
<1>20. assets'[p].free = assets[p].free + (IF side = "BUY" THEN size ELSE 0 - size)
  BY <1>17 DEF OrderSides
<1>21. HoldInv'
  <2> SUFFICES ASSUME NEW q \in Pairs
               PROVE  position'[q].side # "SELL" /\ position'[q].qty = assets'[q].free + assets'[q].lock
    BY <1>16 DEF HoldInv, AssetPosition
  <2>1. CASE q = p
    BY <1>17, <1>18, <1>19, <1>20, <2>1
  <2>2. CASE q # p
    <3>1. position'[q] = position[q]
      BY <1>16, <2>2
    <3>2. assets'[q].free = assets[q].free + 0 /\ assets'[q].lock = assets[q].lock
      BY <1>17, <2>2
    <3>3. /\ assets[q].free \in Nat /\ assets[q].lock \in Nat
          /\ position[q].qty = assets[q].free + assets[q].lock /\ position[q].side # "SELL"
      BY <1>18
    <3> QED BY <3>1, <3>2, <3>3
  <2> QED BY <2>1, <2>2
<1>22. orders'[Len(orders')].qty = size
  BY <1>2, <1>7
<1> QED BY <1>1, <1>4, <1>8, <1>16, <1>19, <1>20, <1>21, <1>22

(* What a candle fills is what the trades of the pair are booked from.      *)
LEMMA FilledIsSold ==
  ASSUME MoneyInv, \A i \in DOMAIN orders : New(i) => orders[i].side = "SELL",
         NEW p \in Pairs, NEW c \in Candles, OnCandle(p, c)
  PROVE  /\ NewlyFilled = Sold(Fired(p, c)) /\ Bought(Fired(p, c)) = {}
         /\ \A i \in DOMAIN orders' : i \in DOMAIN orders /\ orders'[i].side = orders[i].side
                                      /\ (orders'[i].status = "NEW" => New(i))
<1>0. /\ WalletInv /\ WalletTypeOK /\ OrdersAreLegs /\ PendingIsIndex /\ LongOrders
  BY DEF MoneyInv, WalletInv
<1>1. PICK fired, sold, gone :
         fired = Fired(p, c) /\ sold = Sold(Fired(p, c)) /\ gone = CancelledBy(Fired(p, c))
  OBVIOUS
<1>2. fired \in SUBSET DOMAIN orders /\ \A i \in fired : New(i)
  BY <1>0, <1>1, FiredWaits
<1>3. /\ Kept /\ DOMAIN orders' = DOMAIN orders
      /\ \A i \in DOMAIN orders :
            /\ i \in gone => orders'[i].status = "CANCELED"
            /\ i \in sold => orders'[i].status = "FILLED"
            /\ i \notin fired /\ i \notin gone => orders'[i].status = orders[i].status
            /\ i \in fired => orders'[i].status # "NEW"
  BY <1>0, <1>1, CandleOrders
<1>4. sold = fired /\ Bought(fired) = {}
  BY <1>1, <1>2 DEF Sold, Bought
<1>5. NewlyFilled = sold
  <2>1. ASSUME NEW i \in sold PROVE i \in NewlyFilled
    BY <1>2, <1>3, <1>4, <2>1 DEF NewlyFilled
  <2>2. ASSUME NEW i \in NewlyFilled PROVE i \in sold
    BY <1>3, <1>4, <2>2 DEF NewlyFilled, New
  <2> QED BY <2>1, <2>2
<1>6. ASSUME NEW i \in DOMAIN orders'
      PROVE  i \in DOMAIN orders /\ orders'[i].side = orders[i].side
             /\ (orders'[i].status = "NEW" => New(i))
  <2>1. i \in DOMAIN orders
    BY <1>3
  <2>2. orders'[i].side = orders[i].side
    BY <1>0, <1>3, <2>1, KeptFields
  <2>3. ASSUME orders'[i].status = "NEW" PROVE New(i)
    BY <1>3, <2>1, <2>3 DEF New
  <2> QED BY <2>1, <2>2, <2>3
<1> QED BY <1>1, <1>4, <1>5, <1>6

(* The orders of a set, each of them once.                                  *)
LEMMA AllById ==
  ASSUME NEW N \in Nat, NEW S \in SUBSET (1..N)
  PROVE  /\ ById(S) \in [1..Cardinality(S) -> S] /\ Cardinality(S) \in Nat
         /\ \A x \in S : \E i \in 1..Cardinality(S) : ById(S)[i] = x
         /\ \A i, j \in 1..Cardinality(S) : ById(S)[i] = ById(S)[j] => i = j
<1>1. \E s \in [1..Cardinality(S) -> S] : Ascending(s)
  BY AscendingExists
<1>2. ById(S) \in [1..Cardinality(S) -> S] /\ Ascending(ById(S))
  BY <1>1 DEF ById, Ascending
<1>3. /\ Cardinality(S) \in Nat
      /\ \A x \in S : \E i \in 1..Cardinality(S) : ById(S)[i] = x
      /\ \A i, j \in 1..Cardinality(S) : ById(S)[i] = ById(S)[j] => i = j
  BY <1>2, AscendingIsWhole
<1> QED BY <1>2, <1>3

(* The list of fills, and what it sells altogether.                         *)
LEMMA FillsInOrder ==
  ASSUME MoneyInv, NEW S \in SUBSET DOMAIN orders
  PROVE  \E n \in Nat : \E ids \in [1..n -> S] :
            /\ ids = ById(S)
            /\ \E sum \in [0..n -> Nat] :
                  /\ sum[0] = 0 /\ sum[n] = SumFunctionOnSet(Quantity, S)
                  /\ \A k \in 1..n : sum[k] = sum[k - 1] + orders[ids[k]].qty
<1>0. WalletTypeOK /\ orders \in Seq(OrderType)
  BY DEF MoneyInv, WalletInv, WalletTypeOK
<1>1. PICK N \in Nat : N = Len(orders) /\ DOMAIN orders = 1..N
  BY <1>0
<1>2. PICK n : n = Cardinality(S)
  OBVIOUS
<1>3. n \in Nat /\ S \in SUBSET (1..N)
  BY <1>1, <1>2, SetOfIndices
<1>5. PICK ids : ids = ById(S)
  OBVIOUS
<1>6. ids \in [1..n -> S]
  BY <1>2, <1>3, <1>5, AllById
<1>7. /\ \A x \in S : \E i \in 1..n : ids[i] = x
      /\ \A i, j \in 1..n : ids[i] = ids[j] => i = j
  BY <1>2, <1>3, <1>5, AllById
<1> DEFINE part(k) == {ids[j] : j \in 1..k}
           sum == [k \in 0..n |-> SumFunctionOnSet(Quantity, part(k))]
<1>8. \A k \in 0..n : part(k) \in SUBSET S /\ part(k) \in SUBSET DOMAIN orders
  BY <1>3, <1>6
<1>9. part(0) = {} /\ part(n) = S
  BY <1>3, <1>6, <1>7
<1>10. \A k \in 1..n : part(k) = part(k - 1) \cup {ids[k]} /\ ids[k] \notin part(k - 1) /\ k - 1 \in 0..n
  <2> SUFFICES ASSUME NEW k \in 1..n
               PROVE  part(k) = part(k - 1) \cup {ids[k]} /\ ids[k] \notin part(k - 1) /\ k - 1 \in 0..n
    OBVIOUS
  <2>1. 1..k = (1..(k - 1)) \cup {k} /\ \A j \in 1..(k - 1) : j \in 1..n /\ j # k
    BY <1>3
  <2>2. part(k) = part(k - 1) \cup {ids[k]}
    BY <2>1
  <2>3. ids[k] \notin part(k - 1)
    BY <1>7, <2>1
  <2> QED BY <1>3, <2>2, <2>3
<1>11. sum \in [0..n -> Nat]
  <2>1. \A k \in 0..n : SumFunctionOnSet(Quantity, part(k)) \in Nat
    <3> HIDE DEF part
    <3> QED BY <1>0, <1>8, SumsTyped
  <2> HIDE DEF part
  <2> QED BY <2>1
<1>12. sum[0] = 0 /\ sum[n] = SumFunctionOnSet(Quantity, S)
  <2>1. sum[0] = SumFunctionOnSet(Quantity, part(0)) /\ sum[n] = SumFunctionOnSet(Quantity, part(n))
    <3> HIDE DEF part
    <3> QED BY <1>3
  <2> HIDE DEF part, sum
  <2> QED BY <1>9, <2>1, SumEmpty
<1>13. ASSUME NEW k \in 1..n
       PROVE  sum[k] = sum[k - 1] + orders[ids[k]].qty
  <2>1. k \in 0..n /\ k - 1 \in 0..n /\ ids[k] \in DOMAIN orders
    BY <1>3, <1>6
  <2>2. /\ sum[k] = SumFunctionOnSet(Quantity, part(k))
        /\ sum[k - 1] = SumFunctionOnSet(Quantity, part(k - 1))
    <3> HIDE DEF part
    <3> QED BY <2>1
  <2>3. PICK T, x : T = part(k - 1) /\ x = ids[k]
    OBVIOUS
  <2> HIDE DEF part, sum
  <2>4. T \in SUBSET DOMAIN orders /\ x \notin T /\ part(k) = T \cup {x}
    BY <1>8, <1>10, <2>1, <2>3
  <2>5. IsFiniteSet(T) /\ IntOn(Quantity, T)
    BY <1>0, <2>4, SumsTyped
  <2>6. Quantity[x] = orders[x].qty /\ Quantity[x] \in Int
    <3>1. Quantity[x] = orders[x].qty
      BY <2>1, <2>3 DEF Quantity
    <3>2. {x} \in SUBSET DOMAIN orders
      BY <2>1, <2>3
    <3>3. IntOn(Quantity, {x})
      BY <1>0, <3>2, SumsTyped
    <3> QED BY <3>1, <3>3 DEF IntOn
  <2>7. SumFunctionOnSet(Quantity, T \cup {x}) = SumFunctionOnSet(Quantity, T) + Quantity[x]
    BY <2>4, <2>5, <2>6, SumAdd
  <2> QED BY <2>2, <2>3, <2>4, <2>6, <2>7
<1> HIDE DEF sum
<1> QED BY <1>2, <1>3, <1>5, <1>6, <1>11, <1>12, <1>13

(* What the trades of a candle make of the books of its pair: n sales are   *)
(* booked one after the other, of what the wallet had locked.               *)
SalesBooked(p, n, ids, acc) ==
    LET sales == SumFunctionOnSet(Quantity, NewlyFilled) IN
    /\ ids = ById(NewlyFilled)
    /\ acc[0] = [position |-> position[p], results |-> results[p]]
    /\ \A k \in 1..n : acc[k] = Processed(acc[k - 1], orders'[ids[k]])
    /\ position' = [position EXCEPT ![p] = acc[n].position]
    /\ results' = [results EXCEPT ![p] = acc[n].results]
    /\ parts' = IF SoldWhole(p, acc[n]) THEN parts ELSE parts \cup {p}
    /\ sales <= assets[p].lock
    /\ acc[n].position.side \in {"none", "BUY"}
    /\ acc[n].position.qty = position[p].qty - sales
    /\ Len(acc[n].results) = Len(results[p]) + n

(* The fills of a candle are covered sales, and booked as such.             *)
LEMMA CandleFills ==
  ASSUME MoneyInv, HoldInv, \A i \in DOMAIN orders : New(i) => orders[i].side = "SELL",
         NEW p \in Pairs, NEW c \in Candles, OnCandle(p, c),
         ProcessTrades(p, LET ids == ById(NewlyFilled) IN [k \in DOMAIN ids |-> orders'[ids[k]]])
  PROVE  \E n \in Nat : \E ids \in [1..n -> NewlyFilled] :
            \E acc \in [0..n -> BooksType] : SalesBooked(p, n, ids, acc)
<1>0. /\ WalletInv /\ WalletTypeOK /\ OrdersAreLegs /\ PendingIsIndex /\ LongOrders /\ Funds /\ Books
      /\ position \in [Pairs -> PositionType] /\ results \in [Pairs -> Seq(Int)]
  BY DEF MoneyInv, WalletInv, HoldInv
<1>1. MoneyInv' /\ WalletTypeOK'
  BY <1>0, LongCandle, CandleKeepsInv DEF MoneyInv, WalletInv
<1>2. PICK sold : sold = Sold(Fired(p, c))
  OBVIOUS
<1>3. sold \in SUBSET DOMAIN orders /\ \A i \in sold : orders[i].side = "SELL"
  BY <1>0, <1>2, FiredWaits DEF Sold
<1>4. NewlyFilled = sold /\ Bought(Fired(p, c)) = {}
  BY <1>2, FilledIsSold
<1>5. PICK n \in Nat : \E ids \in [1..n -> sold] :
         /\ ids = ById(sold)
         /\ \E sum \in [0..n -> Nat] :
               /\ sum[0] = 0 /\ sum[n] = SumFunctionOnSet(Quantity, sold)
               /\ \A k \in 1..n : sum[k] = sum[k - 1] + orders[ids[k]].qty
  BY <1>3, FillsInOrder
<1>6. PICK ids \in [1..n -> sold] :
         /\ ids = ById(sold)
         /\ \E sum \in [0..n -> Nat] :
               /\ sum[0] = 0 /\ sum[n] = SumFunctionOnSet(Quantity, sold)
               /\ \A k \in 1..n : sum[k] = sum[k - 1] + orders[ids[k]].qty
  BY <1>5
<1>7. PICK sum \in [0..n -> Nat] :
         /\ sum[0] = 0 /\ sum[n] = SumFunctionOnSet(Quantity, sold)
         /\ \A k \in 1..n : sum[k] = sum[k - 1] + orders[ids[k]].qty
  BY <1>6
<1>8. PICK fills : fills = [k \in 1..n |-> orders'[ids[k]]]
  OBVIOUS
<1>9. PICK base : base = [position |-> position[p], results |-> results[p]]
  OBVIOUS
<1>10. PICK b : b = Booked(base, fills)
  OBVIOUS
<1>11. /\ position' = [position EXCEPT ![p] = b.position]
       /\ results' = [results EXCEPT ![p] = b.results]
       /\ parts' = IF SoldWhole(p, b) THEN parts ELSE parts \cup {p}
  <2>1. DOMAIN ids = 1..n
    BY <1>6
  <2>2. (LET is == ById(NewlyFilled) IN [k \in DOMAIN is |-> orders'[is[k]]]) = fills
    BY <1>4, <1>6, <1>8, <2>1
  <2>3. ProcessTrades(p, fills)
    BY <2>2
  <2> QED BY <1>9, <1>10, <2>3 DEF ProcessTrades, Booked
<1>12. /\ fills \in [1..n -> FillType]
       /\ \A k \in 1..n : fills[k].side = "SELL" /\ fills[k].qty = orders[ids[k]].qty
  <2> SUFFICES ASSUME NEW k \in 1..n
               PROVE  /\ fills[k] \in FillType
                      /\ fills[k].side = "SELL" /\ fills[k].qty = orders[ids[k]].qty
    BY <1>8
  <2>1. PICK i : i = ids[k]
    OBVIOUS
  <2>2. i \in sold /\ i \in DOMAIN orders /\ orders[i].side = "SELL"
    BY <1>3, <1>6, <2>1
  <2>3. Kept /\ DOMAIN orders' = DOMAIN orders
    BY <1>0, CandleOrders
  <2>4. orders'[i] \in OrderType
    BY <1>1, <2>2, <2>3 DEF WalletTypeOK
  <2>5. orders'[i].side = "SELL" /\ orders'[i].qty = orders[i].qty
    BY <1>0, <2>2, <2>3, KeptFields
  <2>6. orders[i].qty > 0
    BY <1>0, <2>2 DEF LongOrders
  <2> QED BY <1>8, <2>1, <2>4, <2>5, <2>6 DEF FillType
<1>13. base \in BooksType /\ base.position = position[p] /\ position[p] \in PositionType
  BY <1>0, <1>9 DEF BooksType
<1>14. PICK acc \in [0..n -> BooksType] :
          /\ acc[0] = base /\ acc[n] = Booked(base, fills)
          /\ \A k \in 1..n : acc[k] = Processed(acc[k - 1], fills[k])
  BY ONLY <1>12, <1>13, TradesInOrder, Zenon
<1>15. b \in BooksType /\ b = acc[n]
  BY <1>10, <1>14
<1>16. PICK sales \in Nat : sales = SumFunctionOnSet(Quantity, sold)
  BY <1>0, <1>3, SumsTyped
<1>17. assets[p].free \in Nat /\ assets[p].lock \in Nat /\ sales <= assets[p].lock
  <2>1. assets[p].free \in Nat /\ assets[p].lock \in Nat
    BY MoneyTyped
  <2>2. /\ WaitingSales(p) \ (Sold(Fired(p, c)) \cup CancelledBy(Fired(p, c))) \in SUBSET DOMAIN orders
        /\ assets[p].lock = OnSale(p)
    BY <1>0 DEF WaitingSales, Waiting, Funds
  <2>3. PICK rest \in Nat :
           rest = SumFunctionOnSet(Quantity, WaitingSales(p) \ (Sold(Fired(p, c)) \cup CancelledBy(Fired(p, c))))
    BY <1>0, <2>2, SumsTyped
  <2>4. rest = OnSale(p) - sales
    BY <1>0, <1>2, <1>16, <2>3, CandleFrees
  <2> QED BY <2>1, <2>2, <2>3, <2>4
<1>18. position[p].qty = assets[p].free + assets[p].lock /\ position[p].side \in {"none", "BUY"}
  <2>1. position[p].side \in OrderSides \cup {"none"}
    BY <1>13, PositionFields
  <2> QED BY <2>1 DEF HoldInv, AssetPosition, OrderSides
<1>19. /\ b.position.side \in {"none", "BUY"} /\ b.position.qty = position[p].qty - sales
       /\ Len(b.results) = Len(results[p]) + n
  <2>1. sum[n] = sales /\ sum[n] <= position[p].qty
    BY <1>7, <1>16, <1>17, <1>18
  <2>2. acc[0].position = position[p]
    BY <1>13, <1>14
  <2>3. \A k \in 1..n : acc[k] = Processed(acc[k - 1], fills[k]) /\ fills[k].side = "SELL"
    BY <1>12, <1>14
  <2>4. \A k \in 1..n : sum[k] = sum[k - 1] + fills[k].qty
    BY <1>7, <1>12
  <2>5. /\ acc[n].position.side \in {"none", "BUY"} /\ acc[n].position.qty = position[p].qty - sum[n]
        /\ Len(acc[n].results) = Len(acc[0].results) + n
    BY ONLY <1>7, <1>12, <1>13, <1>18, <2>1, <2>2, <2>3, <2>4, SalesReduce
  <2>6. acc[0].results = results[p]
    BY <1>9, <1>14
  <2> QED BY <1>15, <2>1, <2>5, <2>6
<1>20. \A k \in 1..n : acc[k] = Processed(acc[k - 1], orders'[ids[k]])
  BY <1>8, <1>14
<1>21. SalesBooked(p, n, ids, acc)
  BY <1>4, <1>6, <1>9, <1>11, <1>14, <1>15, <1>16, <1>17, <1>19, <1>20 DEF SalesBooked
<1> QED BY <1>4, <1>6, <1>14, <1>21

(* The trades of a candle leave what the wallet holds.                      *)
LEMMA CandleTrades ==
  ASSUME MoneyInv, HoldInv, \A i \in DOMAIN orders : New(i) => orders[i].side = "SELL",
         NEW p \in Pairs, NEW c \in Candles, OnCandle(p, c),
         ProcessTrades(p, LET ids == ById(NewlyFilled) IN [k \in DOMAIN ids |-> orders'[ids[k]]])
  PROVE  /\ MoneyInv' /\ HoldInv'
         /\ (\A i \in DOMAIN orders : ~New(i)) => \A q \in Pairs : position'[q].qty = position[q].qty
<1>0. /\ WalletInv /\ WalletTypeOK /\ OrdersAreLegs /\ PendingIsIndex /\ LongOrders /\ Funds /\ Books
      /\ position \in [Pairs -> PositionType] /\ results \in [Pairs -> Seq(Int)]
  BY DEF MoneyInv, WalletInv, HoldInv
<1>1. MoneyInv'
  BY <1>0, LongCandle, CandleKeepsInv DEF MoneyInv, WalletInv
<1>2. PICK sold : sold = Sold(Fired(p, c))
  OBVIOUS
<1>3. sold \in SUBSET DOMAIN orders
  BY <1>0, <1>2, FiredWaits
<1>4. NewlyFilled = sold /\ Bought(Fired(p, c)) = {}
  BY <1>2, FilledIsSold
<1>5. PICK n \in Nat : \E ids \in [1..n -> NewlyFilled] :
         \E acc \in [0..n -> BooksType] : SalesBooked(p, n, ids, acc)
  BY CandleFills
<1>6. PICK acc \in [0..n -> BooksType] : \E ids : SalesBooked(p, n, ids, acc)
  BY <1>5
<1>7. PICK b : b = acc[n]
  OBVIOUS
<1>8. b \in BooksType
  BY <1>6, <1>7
<1>9. PICK sales \in Nat : sales = SumFunctionOnSet(Quantity, sold)
  BY <1>0, <1>3, SumsTyped
<1>10. /\ position' = [position EXCEPT ![p] = b.position]
       /\ results' = [results EXCEPT ![p] = b.results]
       /\ b.position.side \in {"none", "BUY"} /\ b.position.qty = position[p].qty - sales
       /\ sales <= assets[p].lock
  BY <1>4, <1>6, <1>7, <1>9 DEF SalesBooked
<1>11. assets[p].free \in Nat /\ assets[p].lock \in Nat
  BY MoneyTyped
<1>12. position[p].qty = assets[p].free + assets[p].lock
  BY DEF HoldInv, AssetPosition
<1>13. assets' = [assets EXCEPT ![p] = [free |-> assets[p].free, lock |-> assets[p].lock - sales]]
  <2>1. SumFunctionOnSet(Quantity, Bought(Fired(p, c))) = 0
    BY <1>4, SumEmpty
  <2>2. assets' = [assets EXCEPT ![p] = [free |-> assets[p].free + 0, lock |-> assets[p].lock - sales]]
    BY <1>2, <1>9, <2>1 DEF OnCandle
  <2>3. assets[p].free + 0 = assets[p].free
    BY <1>11
  <2> QED BY <2>2, <2>3
<1>14. /\ position' \in [Pairs -> PositionType] /\ results' \in [Pairs -> Seq(Int)]
       /\ position'[p] = b.position /\ \A q \in Pairs : q # p => position'[q] = position[q]
  BY <1>0, <1>10, <1>8 DEF BooksType
<1>15. /\ assets \in [Pairs -> BalanceType]
       /\ assets'[p].free = assets[p].free /\ assets'[p].lock = assets[p].lock - sales
       /\ \A q \in Pairs : q # p => assets'[q] = assets[q]
  BY <1>0, <1>13 DEF WalletTypeOK
<1>16. ASSUME NEW q \in Pairs
       PROVE  position'[q].side # "SELL" /\ position'[q].qty = assets'[q].free + assets'[q].lock
  <2>1. CASE q = p
    <3>1. position'[q].side # "SELL" /\ position'[q].qty = position[p].qty - sales
      BY <1>10, <1>14, <2>1
    <3> QED BY <1>9, <1>11, <1>12, <1>15, <2>1, <3>1
  <2>2. CASE q # p
    BY <1>14, <1>15, <2>2 DEF HoldInv, AssetPosition
  <2> QED BY <2>1, <2>2
<1>17. HoldInv'
  BY <1>14, <1>16 DEF HoldInv, AssetPosition
<1>18. ASSUME \A i \in DOMAIN orders : ~New(i), NEW q \in Pairs
       PROVE  position'[q].qty = position[q].qty
  <2>1. sold = {}
    BY <1>0, <1>2, <1>3, <1>18, FiredWaits DEF Sold
  <2>2. sales = 0
    BY <1>9, <2>1, SumEmpty
  <2>3. CASE q = p
    <3>1. position[p].qty \in Nat /\ position'[q].qty = position[p].qty - 0
      BY <1>11, <1>12, <1>10, <1>14, <2>2, <2>3
    <3> QED BY <2>3, <3>1
  <2> QED BY <1>14, <2>3
<1> QED BY <1>1, <1>17, <1>18

(* The state of a trailing stop; an armed one protects, as StopProtects     *)
(* says, a position that is open, and it has seen no price above its peak.  *)
StopType   == [active : BOOLEAN, current : Int, stop : Int, peak : Int, risk : Int]
CandleType == [pair : Pairs, low : Nat, complete : BOOLEAN]

StopInv ==
    /\ trailing \in [Pairs -> StopType]
    /\ phase = "strategy" => candle \in CandleType
    /\ kind = "trailing" => \A p \in Pairs :
          /\ trailing[p].active <=> position[p].qty > 0
          /\ trailing[p].active => /\ trailing[p].stop >= trailing[p].peak - trailing[p].risk
                                   /\ trailing[p].current <= trailing[p].peak

(* What is booked, held and protected: neither NeverShort nor StopProtects  *)
(* is inductive without it.  A fill reduces a position, instead of turning  *)
(* it round, because what was on sale is part of what it holds.             *)
TradeInv == MoneyInv /\ HoldInv /\ ExitInv /\ StopInv

(* What steps that leave the wallet or the books alone keep.                *)
LEMMA MoneyKept ==
  ASSUME MoneyInv, UNCHANGED walletVars
  PROVE  MoneyInv'
<1>1. UNCHANGED vars
  BY DEF vars, walletVars
<1>2. WalletInv'
  BY <1>1, WalletInvNext DEF MoneyInv
<1> QED BY <1>1, <1>2, LongBooksKept DEF MoneyInv

(* A step that leaves the wallet and the books alone.                       *)
LEMMA HoldKept ==
  ASSUME HoldInv, UNCHANGED walletVars, UNCHANGED books
  PROVE  HoldInv'
<1>1. assets' = assets /\ position' = position /\ results' = results
  BY DEF walletVars, balVars, books
<1>2. \A p \in Pairs : AssetPosition(p)' = AssetPosition(p)
  BY <1>1 DEF AssetPosition
<1> QED BY <1>1, <1>2 DEF HoldInv

(* After a step of a strategy nothing waits that did not, and phase says    *)
(* whether an exit follows.                                                 *)
OrdersFill ==
    \A i \in DOMAIN orders' : (i \in DOMAIN orders /\ orders'[i] = orders[i])
                              \/ orders'[i].status = "FILLED"

(* No exit follows, and nothing waits that did not.                         *)
LEMMA ExitKept ==
  ASSUME ExitInv, OrdersFill, kind' = kind, phase' # "exit"
  PROVE  ExitInv'
  BY DEF ExitInv, OrdersFill, New

(* An exit follows that is covered.                                         *)
LEMMA ExitSet ==
  ASSUME ExitInv, OrdersFill, kind' = kind, kind \in OcoKinds,
         exit' \in ExitType, exit'.size <= assets'[exit'.pair].free
  PROVE  ExitInv'
  BY DEF ExitInv, OrdersFill, New

(* No order is made.                                                        *)
LEMMA FillNothing ==
  ASSUME UNCHANGED walletVars
  PROVE  OrdersFill
  BY DEF OrdersFill, walletVars

(* No stop moves, and in the trailing strategy no position.                 *)
LEMMA StopKept ==
  ASSUME StopInv, kind' = kind, trailing' = trailing, phase' # "strategy",
         kind = "trailing" => \A p \in Pairs : position'[p].qty = position[p].qty
  PROVE  StopInv'
  BY DEF StopInv

(* A quantity that an amount of the base coin buys.                         *)
LEMMA Affordable ==
  ASSUME NEW amount \in Nat, NEW price \in Nat, price # 0
  PROVE  amount \div price \in Nat
  OBVIOUS

(* An order for an amount of the base coin is one for a quantity.           *)
LEMMA QuoteIsMarket ==
  ASSUME MoneyInv, NEW p \in Pairs, NEW side, NEW amount \in Nat, MarketQuote(p, side, amount)
  PROVE  amount \div last[p] \in Nat /\ Market(p, side, amount \div last[p])
<1>1. last[p] # 0 /\ last[p] \in Nat
  BY MoneyTyped DEF MarketQuote, CreateOrderMarketQuote
<1>2. amount \div last[p] \in Nat
  BY <1>1
<1>3. Market(p, side, amount \div last[p])
  BY DEF MarketQuote, CreateOrderMarketQuote, Market
<1> QED BY <1>2, <1>3

(* Strategies that trade at the market alone have nothing locked, so what   *)
(* they hold is what they may sell.                                         *)
LEMMA AllIsFree ==
  ASSUME TradeInv, kind \notin OcoKinds
  PROVE  /\ \A i \in DOMAIN orders : ~New(i)
         /\ \A p \in Pairs : /\ AssetPosition(p) \in Nat /\ AssetPosition(p) = assets[p].free
                             /\ position[p].qty = AssetPosition(p)
<1>1. \A i \in DOMAIN orders : ~New(i)
  BY DEF TradeInv, ExitInv
<1>2. ASSUME NEW p \in Pairs PROVE AssetPosition(p) \in Nat /\ AssetPosition(p) = assets[p].free
  <2>1. assets[p].lock = 0
    BY <1>1, NothingLocked DEF TradeInv
  <2>2. assets[p].free \in Nat
    BY MoneyTyped DEF TradeInv
  <2> QED BY <2>1, <2>2 DEF AssetPosition
<1> QED BY <1>1, <1>2 DEF TradeInv, HoldInv

(* A trade at the market, buying anything or selling all.                   *)
LEMMA MarketKeeps ==
  ASSUME TradeInv, kind \notin OcoKinds, kind # "trailing", kind' = kind, trailing' = trailing,
         phase' = "market", NEW p \in Pairs, NEW side \in OrderSides, NEW size \in Nat,
         Market(p, side, size), side = "SELL" => size = AssetPosition(p)
  PROVE  TradeInv'
<1>1. MoneyInv /\ HoldInv /\ ExitInv /\ StopInv
  BY DEF TradeInv
<1>2. side = "SELL" => size <= assets[p].free
  BY AllIsFree
<1>3. MoneyInv' /\ HoldInv' /\ OrdersFill
  BY <1>1, <1>2, MarketTrades DEF OrdersFill
<1>4. ExitInv' /\ StopInv'
  BY <1>1, <1>3, ExitKept, StopKept
<1> QED BY <1>3, <1>4 DEF TradeInv

(* No trade.                                                                *)
LEMMA NothingKeeps ==
  ASSUME TradeInv, UNCHANGED <<walletVars, kind, trailing, books>>,
         phase' = "market"
  PROVE  TradeInv'
<1>1. MoneyInv /\ HoldInv /\ ExitInv /\ StopInv
  BY DEF TradeInv
<1>2. MoneyInv' /\ HoldInv'
  BY <1>1, MoneyKept, HoldKept
<1>3. ExitInv'
  BY <1>1, FillNothing, ExitKept
<1>4. position' = position
  BY DEF books
<1>5. StopInv'
  BY <1>1, <1>4, StopKept
<1> QED BY <1>2, <1>3, <1>5 DEF TradeInv

(* DCA buys.                                                                *)
LEMMA DCAKeeps ==
  ASSUME TradeInv, NEW p \in Pairs, DCA(p)
  PROVE  TradeInv'
<1>1. PICK amount : amount = IF QuotePosition >= BuyAmount THEN BuyAmount ELSE QuotePosition
  OBVIOUS
<1>2. /\ kind = "dca" /\ Market(p, "BUY", amount \div Close(p))
      /\ phase' = "market" /\ kind' = kind /\ trailing' = trailing
  BY <1>1 DEF DCA, Goto
<1>3. amount \div Close(p) \in Nat
  <2>1. last[p] # 0
    BY <1>2 DEF Market, CreateOrderMarket
  <2>2. last[p] \in Nat /\ QuotePosition \in Nat /\ BuyAmount \in Nat
    BY MoneyTyped, StrategiesAssumption DEF TradeInv
  <2>3. amount \in Nat
    BY <1>1, <2>2
  <2> QED BY <2>1, <2>2, <2>3, Affordable DEF Close
<1>4. PICK size \in Nat : size = amount \div Close(p)
  BY <1>3
<1> QED BY <1>2, <1>4, MarketKeeps DEF OcoKinds, OrderSides

(* CrossEMA buys with all it has, or sells it all.                          *)
LEMMA CrossEMAKeeps ==
  ASSUME TradeInv, NEW p \in Pairs, CrossEMA(p)
  PROVE  TradeInv'
<1>1. kind = "emacross" /\ phase' = "market" /\ kind' = kind /\ trailing' = trailing
  BY DEF CrossEMA, Goto, memory
<1>2. kind \notin OcoKinds /\ kind # "trailing"
  BY <1>1 DEF OcoKinds
<1>3. CASE MarketQuote(p, "BUY", QuotePosition)
  <2>1. PICK size \in Nat : Market(p, "BUY", size)
    BY <1>3, MoneyTyped, QuoteIsMarket DEF TradeInv
  <2> QED BY <1>1, <1>2, <2>1, MarketKeeps DEF OrderSides
<1>4. CASE Market(p, "SELL", AssetPosition(p))
  <2>1. PICK size \in Nat : size = AssetPosition(p)
    BY <1>2, AllIsFree
  <2> QED BY <1>1, <1>2, <1>4, <2>1, MarketKeeps DEF OrderSides
<1> QED BY <1>3, <1>4 DEF CrossEMA

(* Turtle buys with half of it, or sells it all.                            *)
LEMMA TurtleKeeps ==
  ASSUME TradeInv, NEW p \in Pairs, Turtle(p)
  PROVE  TradeInv'
<1>1. kind = "turtle" /\ phase' = "market" /\ kind' = kind /\ trailing' = trailing
  BY DEF Turtle, Goto, memory
<1>2. kind \notin OcoKinds /\ kind # "trailing"
  BY <1>1 DEF OcoKinds
<1>3. CASE MarketQuote(p, "BUY", QuotePosition \div 2)
  <2>1. QuotePosition \div 2 \in Nat
    BY MoneyTyped DEF TradeInv
  <2>2. PICK size \in Nat : Market(p, "BUY", size)
    BY <1>3, <2>1, QuoteIsMarket DEF TradeInv
  <2> QED BY <1>1, <1>2, <2>2, MarketKeeps DEF OrderSides
<1>4. CASE Market(p, "SELL", AssetPosition(p))
  <2>1. PICK size \in Nat : size = AssetPosition(p)
    BY <1>2, AllIsFree
  <2> QED BY <1>1, <1>2, <1>4, <2>1, MarketKeeps DEF OrderSides
<1> QED BY <1>3, <1>4 DEF Turtle

(* The entry arms the stop at the candle's low, with the price as its peak. *)
LEMMA EnterKeeps ==
  ASSUME TradeInv, NEW p \in Pairs, Enter(p), phase = "strategy"
  PROVE  TradeInv'
<1>1. MoneyInv /\ HoldInv /\ ExitInv /\ StopInv
  BY DEF TradeInv
<1>2. PICK stop : stop = [active |-> TRUE, current |-> Close(p), stop |-> candle.low,
                          peak |-> Close(p), risk |-> Close(p) - candle.low]
  OBVIOUS
<1>3. /\ kind = "trailing" /\ kind' = kind /\ phase' = "market"
      /\ MarketQuote(p, "BUY", QuotePosition) /\ trailing' = [trailing EXCEPT ![p] = stop]
  BY <1>2 DEF Enter, Goto
<1>4. PICK size \in Nat : Market(p, "BUY", size)
  BY <1>1, <1>3, MoneyTyped, QuoteIsMarket
<1>5. /\ MoneyInv' /\ HoldInv' /\ OrdersFill /\ size > 0
      /\ position'[p].qty = position[p].qty + size
      /\ \A q \in Pairs : q # p => position'[q] = position[q]
  BY <1>1, <1>4, MarketTrades DEF OrderSides, OrdersFill
<1>6. ExitInv'
  BY <1>1, <1>3, <1>5, ExitKept
<1>7. /\ stop.active /\ stop.stop >= stop.peak - stop.risk /\ stop.current <= stop.peak
      /\ stop \in StopType
  <2>1. Close(p) \in Nat /\ candle.low \in Nat
    BY <1>1, MoneyTyped DEF Close, StopInv, CandleType
  <2> QED BY <1>2, <2>1 DEF StopType
<1>8. position[p].qty \in Nat
  BY <1>1, MoneyTyped DEF HoldInv
<1>9. /\ trailing' \in [Pairs -> StopType] /\ trailing'[p] = stop
      /\ \A q \in Pairs : q # p => trailing'[q] = trailing[q]
  BY <1>1, <1>3, <1>7 DEF StopInv
<1>10. ASSUME NEW q \in Pairs
       PROVE  /\ trailing'[q].active <=> position'[q].qty > 0
              /\ trailing'[q].active => /\ trailing'[q].stop >= trailing'[q].peak - trailing'[q].risk
                                        /\ trailing'[q].current <= trailing'[q].peak
  <2>1. CASE q = p
    <3>1. position'[q].qty > 0
      BY <1>5, <1>8, <2>1
    <3> QED BY <1>7, <1>9, <2>1, <3>1
  <2>2. CASE q # p
    BY <1>1, <1>3, <1>5, <1>9, <2>2 DEF StopInv
  <2> QED BY <2>1, <2>2
<1>11. StopInv'
  BY <1>3, <1>9, <1>10 DEF StopInv
<1> QED BY <1>5, <1>6, <1>11 DEF TradeInv

(* A stop follows the price up, and stays as close to its peak as it was.   *)
LEMMA FollowedProtects ==
  ASSUME NEW t \in StopType, NEW close \in Nat
  PROVE  /\ Followed(t, close) \in StopType /\ Followed(t, close).active = t.active
         /\ t.stop >= t.peak - t.risk /\ t.current <= t.peak =>
               /\ Followed(t, close).stop >= Followed(t, close).peak - Followed(t, close).risk
               /\ Followed(t, close).current <= Followed(t, close).peak
<1>1. t.active \in BOOLEAN /\ t.current \in Int /\ t.stop \in Int /\ t.peak \in Int /\ t.risk \in Int
  BY DEF StopType
<1>2. PICK peak : peak = Max({t.peak, close})
  OBVIOUS
<1>3. peak = IF t.peak >= close THEN t.peak ELSE close
  <2>1. close \in Int
    OBVIOUS
  <2> QED BY <1>1, <1>2, <2>1, TwoNumbers
<1>4. PICK stop : stop = IF close > t.current THEN t.stop + (close - t.current) ELSE t.stop
  OBVIOUS
<1>5. peak \in Int /\ stop \in Int
  BY <1>1, <1>3, <1>4
<1>6. Followed(t, close) = [t EXCEPT !.stop = stop, !.current = close, !.peak = peak]
  BY <1>2, <1>4 DEF Followed
<1>7. /\ Followed(t, close) \in StopType /\ Followed(t, close).active = t.active
      /\ Followed(t, close).stop = stop /\ Followed(t, close).current = close
      /\ Followed(t, close).peak = peak /\ Followed(t, close).risk = t.risk
  <2>1. t \in [active : BOOLEAN, current : Int, stop : Int, peak : Int, risk : Int] /\ close \in Int
    BY DEF StopType
  <2>2. PICK u : u = [t EXCEPT !.stop = stop, !.current = close, !.peak = peak]
    OBVIOUS
  <2>3. u \in [active : BOOLEAN, current : Int, stop : Int, peak : Int, risk : Int]
    BY ONLY <1>5, <2>1, <2>2
  <2>4. /\ u.active = t.active /\ u.stop = stop /\ u.current = close /\ u.peak = peak
        /\ u.risk = t.risk
    BY ONLY <2>1, <2>2
  <2> QED BY ONLY <1>6, <2>2, <2>3, <2>4 DEF StopType
<1>8. ASSUME t.stop >= t.peak - t.risk, t.current <= t.peak
      PROVE  stop >= peak - t.risk /\ close <= peak
  BY <1>1, <1>3, <1>4, <1>8
<1> QED BY <1>7, <1>8

(* The stop follows, or closes the position, or tries to.                   *)
LEMMA TrailKeeps ==
  ASSUME TradeInv, NEW p \in Pairs, Trail(p)
  PROVE  TradeInv'
<1>1. MoneyInv /\ HoldInv /\ ExitInv /\ StopInv
  BY DEF TradeInv
<1>2. PICK t, followed : t = trailing[p] /\ followed = IF t.active THEN Followed(t, Close(p)) ELSE t
  OBVIOUS
<1>3. kind = "trailing" /\ kind' = kind /\ phase' = "market" /\ kind \notin OcoKinds
  BY DEF Trail, Goto, OcoKinds
<1>4. t \in StopType /\ followed \in StopType /\ followed.active = t.active
      /\ (t.active => followed.stop >= followed.peak - followed.risk /\ followed.current <= followed.peak)
  <2>1. t \in StopType /\ Close(p) \in Nat
    BY <1>1, <1>2, MoneyTyped DEF StopInv, Close
  <2>2. t.active => t.stop >= t.peak - t.risk /\ t.current <= t.peak
    BY <1>1, <1>2, <1>3 DEF StopInv
  <2> QED BY <1>2, <2>1, <2>2, FollowedProtects
<1>5. CASE trailing' = [trailing EXCEPT ![p] = followed] /\ UNCHANGED <<walletVars, books>>
  <2>1. MoneyInv' /\ HoldInv'
    BY <1>1, <1>5, MoneyKept, HoldKept
  <2>2. ExitInv'
    BY <1>1, <1>3, <1>5, FillNothing, ExitKept
  <2>3. position' = position
    BY <1>5 DEF books
  <2>4. /\ trailing' \in [Pairs -> StopType] /\ trailing'[p] = followed
        /\ \A q \in Pairs : q # p => trailing'[q] = trailing[q]
    BY <1>1, <1>4, <1>5 DEF StopInv
  <2>5. ASSUME NEW q \in Pairs
        PROVE  /\ trailing'[q].active <=> position[q].qty > 0
               /\ trailing'[q].active => /\ trailing'[q].stop >= trailing'[q].peak - trailing'[q].risk
                                         /\ trailing'[q].current <= trailing'[q].peak
    <3>1. CASE q = p
      BY <1>1, <1>2, <1>3, <1>4, <2>4, <3>1 DEF StopInv
    <3>2. CASE q # p
      BY <1>1, <1>3, <2>4, <3>2 DEF StopInv
    <3> QED BY <3>1, <3>2
  <2>6. StopInv'
    BY <1>3, <2>3, <2>4, <2>5 DEF StopInv
  <2> QED BY <2>1, <2>2, <2>6 DEF TradeInv
<1>6. CASE /\ Market(p, "SELL", AssetPosition(p))
           /\ trailing' = [trailing EXCEPT ![p] = [followed EXCEPT !.active = FALSE]]
  <2>1. PICK size \in Nat : size = AssetPosition(p)
    BY <1>3, AllIsFree
  <2>2. size <= assets[p].free /\ position[p].qty = size
    BY <1>3, <2>1, AllIsFree
  <2>3. Market(p, "SELL", size)
    BY <1>6, <2>1
  <2>4. /\ MoneyInv' /\ HoldInv' /\ OrdersFill
        /\ position'[p].qty = position[p].qty + (0 - size)
        /\ \A q \in Pairs : q # p => position'[q] = position[q]
    BY <1>1, <2>2, <2>3, MarketTrades DEF OrderSides, OrdersFill
  <2>5. ExitInv'
    BY <1>1, <1>3, <2>4, ExitKept
  <2>6. PICK off : off = [followed EXCEPT !.active = FALSE]
    OBVIOUS
  <2>7. off \in StopType /\ ~off.active
    BY <1>4, <2>6 DEF StopType
  <2>8. /\ trailing' \in [Pairs -> StopType] /\ trailing'[p] = off
        /\ \A q \in Pairs : q # p => trailing'[q] = trailing[q]
    BY <1>1, <1>6, <2>6, <2>7 DEF StopInv
  <2>9. ASSUME NEW q \in Pairs
        PROVE  /\ trailing'[q].active <=> position'[q].qty > 0
               /\ trailing'[q].active => /\ trailing'[q].stop >= trailing'[q].peak - trailing'[q].risk
                                         /\ trailing'[q].current <= trailing'[q].peak
    <3>1. CASE q = p
      <4>1. position'[q].qty = 0
        BY <2>2, <2>4, <3>1
      <4> QED BY <2>7, <2>8, <3>1, <4>1
    <3>2. CASE q # p
      BY <1>1, <1>3, <2>4, <2>8, <3>2 DEF StopInv
    <3> QED BY <3>1, <3>2
  <2>10. StopInv'
    BY <1>3, <2>8, <2>9 DEF StopInv
  <2> QED BY <2>4, <2>5, <2>10 DEF TradeInv
<1> QED BY <1>2, <1>5, <1>6 DEF Trail

(* A purchase that an OCO sale follows, of what it has bought.              *)
LEMMA BuyThenExit ==
  ASSUME TradeInv, kind \in OcoKinds, kind' = kind, trailing' = trailing, phase' = "exit",
         NEW p \in Pairs, NEW size \in Nat, Market(p, "BUY", size),
         NEW price \in Nat, NEW stop \in Nat, exit' = Exit(p, size, price, stop)
  PROVE  TradeInv'
<1>1. MoneyInv /\ HoldInv /\ ExitInv /\ StopInv
  BY DEF TradeInv
<1>2. /\ MoneyInv' /\ HoldInv' /\ OrdersFill /\ size > 0
      /\ assets'[p].free = assets[p].free + size
  BY <1>1, MarketTrades DEF OrderSides, OrdersFill
<1>3. /\ exit'.pair = p /\ exit'.size = size /\ exit' \in ExitType
      /\ size <= assets'[p].free
  <2>1. assets[p].free \in Nat
    BY <1>1, MoneyTyped
  <2>2. exit'.pair = p /\ exit'.size = size /\ exit' \in ExitType
    BY <1>2 DEF Exit, ExitType
  <2> QED BY <1>2, <2>1, <2>2
<1>4. ExitInv'
  BY <1>1, <1>2, <1>3, ExitSet
<1>5. StopInv'
  BY <1>1, StopKept DEF OcoKinds
<1> QED BY <1>2, <1>4, <1>5 DEF TradeInv

(* OCOSell buys what the OCO order sells, or neither.                       *)
LEMMA OCOSellKeeps ==
  ASSUME TradeInv, NEW p \in Pairs, OCOSell(p)
  PROVE  TradeInv'
<1>1. PICK size : size = Min({MaxSpend, QuotePosition}) \div Close(p)
  OBVIOUS
<1>2. kind = "ocosell" /\ kind' = kind /\ trailing' = trailing /\ kind \in OcoKinds
  BY DEF OCOSell, memory, OcoKinds
<1>3. PICK take \in Prices, stop \in Prices :
         /\ stop < Close(p)
         /\ \/ Market(p, "BUY", size) /\ exit' = Exit(p, size, take, stop) /\ Goto("exit")
            \/ /\ exit' = ExitIfRejected(Exit(p, size, take, stop))
               /\ Goto(IF exit' = NoExit THEN "market" ELSE "exit")
               /\ UNCHANGED <<walletVars, books>>
  BY <1>1 DEF OCOSell
<1>4. CASE Market(p, "BUY", size) /\ exit' = Exit(p, size, take, stop) /\ Goto("exit")
  <2>1. size \in Nat
    <3>1. MaxSpend \in Nat /\ QuotePosition \in Nat /\ last[p] \in Nat
      BY MoneyTyped, StrategiesAssumption DEF TradeInv
    <3>2. last[p] # 0
      BY <1>4 DEF Market, CreateOrderMarket
    <3>3. Min({MaxSpend, QuotePosition}) \in Nat
      <4>1. PICK a \in Int, b \in Int : a = MaxSpend /\ b = QuotePosition
        BY <3>1
      <4>2. Min({a, b}) = IF a <= b THEN a ELSE b
        BY TwoNumbers
      <4> QED BY <3>1, <4>1, <4>2
    <3> QED BY <1>1, <3>1, <3>2, <3>3, Affordable DEF Close
  <2>2. take \in Nat /\ stop \in Nat
    BY WalletAssumption
  <2> QED BY <1>2, <1>4, <2>1, <2>2, BuyThenExit DEF Goto
<1>5. CASE /\ exit' = ExitIfRejected(Exit(p, size, take, stop))
           /\ Goto(IF exit' = NoExit THEN "market" ELSE "exit")
           /\ UNCHANGED <<walletVars, books>>
  <2>1. phase' = "market"
    BY <1>5 DEF ExitIfRejected, Goto
  <2> QED BY <1>2, <1>5, <2>1, NothingKeeps
<1> QED BY <1>3, <1>4, <1>5

(* So does Fibonacci, whose take profit is the high of a candle.            *)
LEMMA FibonacciKeeps ==
  ASSUME TradeInv, LegsInv, NEW p \in Pairs, Fibonacci(p)
  PROVE  TradeInv'
<1>1. PICK high : high = bars[p][leg[p].highIdx].high
  OBVIOUS
<1>2. kind = "fibonacci" /\ kind' = kind /\ trailing' = trailing /\ kind \in OcoKinds
  BY DEF Fibonacci, OcoKinds
<1>3. PICK stop \in Prices :
         /\ Pullback(p, stop)
         /\ \/ /\ MarketQuote(p, "BUY", QuotePosition)
               /\ exit' = Exit(p, orders'[Len(orders')].qty, high, stop)
               /\ Goto("exit")
            \/ /\ exit' = ExitIfRejected(Exit(p, QuotePosition \div Close(p), high, stop))
               /\ Goto(IF exit' = NoExit THEN "market" ELSE "exit")
               /\ UNCHANGED <<walletVars, books>>
  BY <1>1 DEF Fibonacci
<1>4. CASE /\ MarketQuote(p, "BUY", QuotePosition)
           /\ exit' = Exit(p, orders'[Len(orders')].qty, high, stop)
           /\ Goto("exit")
  <2>1. PICK size \in Nat : Market(p, "BUY", size)
    BY <1>4, MoneyTyped, QuoteIsMarket DEF TradeInv
  <2>2. orders'[Len(orders')].qty = size
    BY <2>1, MarketTrades DEF TradeInv, OrderSides
  <2>3. high \in Nat
    <3>1. leg[p].ok
      BY <1>3 DEF Pullback
    <3>2. leg[p].highIdx \in 1..Len(bars[p]) /\ bars[p] \in Seq(BarType)
      BY <3>1 DEF LegsInv, LegsFollow, LegTypeOK
    <3> QED BY <1>1, <3>2, BarFields
  <2>4. stop \in Nat
    BY WalletAssumption
  <2> QED BY <1>2, <1>4, <2>1, <2>2, <2>3, <2>4, BuyThenExit DEF Goto
<1>5. CASE /\ exit' = ExitIfRejected(Exit(p, QuotePosition \div Close(p), high, stop))
           /\ Goto(IF exit' = NoExit THEN "market" ELSE "exit")
           /\ UNCHANGED <<walletVars, books>>
  <2>1. phase' = "market"
    BY <1>5 DEF ExitIfRejected, Goto
  <2> QED BY <1>2, <1>5, <2>1, NothingKeeps
<1> QED BY <1>3, <1>4, <1>5

(* The OCO sale of what has just been bought.                               *)
LEMMA PlaceExitKeeps ==
  ASSUME TradeInv, PlaceExit
  PROVE  TradeInv'
<1>r. CASE UNCHANGED walletVars
  BY <1>r, NothingKeeps DEF PlaceExit, Goto, memory
<1>s. SUFFICES ASSUME CreateOrderOCO(exit.pair, "SELL", exit.size, exit.price, exit.stop, exit.stop)
               PROVE  TradeInv'
  BY <1>r DEF PlaceExit
<1>1. /\ MoneyInv /\ HoldInv /\ ExitInv /\ StopInv
      /\ WalletInv /\ WalletTypeOK /\ LongOrders /\ Funds /\ Books
  BY DEF TradeInv, MoneyInv, WalletInv
<1>2. PICK p, size, price, stop :
         p = exit.pair /\ size = exit.size /\ price = exit.price /\ stop = exit.stop
  OBVIOUS
<1>3. /\ kind \in OcoKinds /\ p \in Pairs /\ size \in Nat /\ size # 0 /\ price \in Nat /\ stop \in Nat
      /\ size <= assets[p].free
  BY <1>1, <1>2 DEF PlaceExit, ExitInv, ExitType
<1>4. /\ CreateOrderOCO(p, "SELL", size, price, stop, stop)
      /\ phase' = "market" /\ kind' = kind /\ trailing' = trailing /\ UNCHANGED books
  BY <1>s, <1>2 DEF PlaceExit, Goto, memory
<1>5. PICK o \in OrderType, l \in OrderType :
         PlaceTwo(p, o, l) /\ o.side = "SELL" /\ o.qty = size /\ LegsSell(o, l)
  BY <1>1, <1>3, <1>4, OcoIsPlaced DEF OrderSides
<1>6. MoneyInv'
  <2>1. Covered(p, o)
    BY <1>3, <1>5 DEF Covered
  <2>2. WalletInv'
    BY <1>1, <1>3, <1>5, OcoKeepsInv
  <2>3. LongOrders' /\ Funds' /\ Books'
    BY <1>1, <1>3, <1>5, <2>1, LongPlaceTwo
  <2> QED BY <2>2, <2>3 DEF MoneyInv
<1>7. \A q \in Pairs : AssetPosition(q)' = AssetPosition(q)
  <2>1. LockFunds(p, "SELL", size, price)
    BY <1>4 DEF CreateOrderOCO
  <2>2. assets[p].free >= 0
    BY <1>1, <1>3 DEF Funds
  <2>3. \A q \in Pairs :
           /\ assets'[q].free = assets[q].free - (IF q = p THEN size ELSE 0)
           /\ assets'[q].lock = assets[q].lock + (IF q = p THEN size ELSE 0)
    BY <1>1, <1>3, <2>1, <2>2, LongLock DEF OrderSides
  <2>4. \A q \in Pairs : assets[q].free \in Nat /\ assets[q].lock \in Nat
    BY <1>1, MoneyTyped
  <2>5. ASSUME NEW q \in Pairs
        PROVE  assets'[q].free + assets'[q].lock = assets[q].free + assets[q].lock
    <3>1. PICK d \in Nat : d = IF q = p THEN size ELSE 0
      BY <1>3
    <3> QED BY <2>3, <2>4, <3>1
  <2> QED BY <2>5 DEF AssetPosition
<1>8. HoldInv'
  BY <1>1, <1>4, <1>7 DEF HoldInv, books
<1>9. ExitInv'
  <2>1. /\ DOMAIN orders' = DOMAIN orders \cup {NextIndex(1), NextIndex(2)}
        /\ \A i \in DOMAIN orders : orders'[i] = orders[i]
        /\ orders'[NextIndex(1)] = o /\ orders'[NextIndex(2)] = l
    BY <1>1, <1>3, <1>5, PlaceTwoTyped DEF Grown
  <2>2. o.side = "SELL" /\ l.side = "SELL"
    BY <1>5 DEF LegsSell
  <2>3. ASSUME NEW i \in DOMAIN orders', orders'[i].status = "NEW" PROVE orders'[i].side = "SELL"
    <3>1. CASE i \in DOMAIN orders
      BY <1>1, <2>1, <2>3, <3>1 DEF ExitInv, New
    <3>2. CASE i \in {NextIndex(1), NextIndex(2)}
      BY <2>1, <2>2, <3>2
    <3> QED BY <2>1, <3>1, <3>2
  <2> QED BY <1>3, <1>4, <2>3 DEF ExitInv, New
<1>10. StopInv'
  <2>1. position' = position
    BY <1>4 DEF books
  <2> QED BY <1>1, <1>4, <2>1, StopKept
<1> QED BY <1>6, <1>8, <1>9, <1>10 DEF TradeInv

(* A candle fills sales of what was bought.                                 *)
LEMMA CandleKeeps ==
  ASSUME TradeInv, NEW p \in Pairs, NEW c \in Shapes, NEW complete \in BOOLEAN,
             NEW again \in BOOLEAN, Candle(p, c, complete, again)
  PROVE  TradeInv'
<1>1. MoneyInv /\ HoldInv /\ ExitInv /\ StopInv
  BY DEF TradeInv
<1>2. /\ OnCandle(p, c) /\ c \in Candles
      /\ ProcessTrades(p, LET ids == ById(NewlyFilled) IN [k \in DOMAIN ids |-> orders'[ids[k]]])
  BY StrategiesAssumption DEF Candle
<1>3. /\ candle' = [pair |-> p, low |-> c.low, complete |-> complete]
      /\ phase' = "strategy" /\ kind' = kind /\ trailing' = trailing
  BY DEF Candle, memory
<1>4. \A i \in DOMAIN orders : New(i) => orders[i].side = "SELL" /\ kind \in OcoKinds
  BY <1>1 DEF ExitInv
<1>5. /\ MoneyInv' /\ HoldInv'
      /\ (\A i \in DOMAIN orders : ~New(i)) => \A q \in Pairs : position'[q].qty = position[q].qty
  BY <1>1, <1>2, <1>4, CandleTrades
<1>6. ExitInv'
  <2>1. \A i \in DOMAIN orders' : i \in DOMAIN orders /\ orders'[i].side = orders[i].side
                                  /\ (orders'[i].status = "NEW" => New(i))
    BY <1>1, <1>2, <1>4, FilledIsSold
  <2> QED BY <1>3, <1>4, <2>1 DEF ExitInv, New
<1>7. candle' \in CandleType
  <2>1. c \in [low : Prices, close : Prices, high : Prices]
    BY <1>2 DEF Candles
  <2>2. c.low \in Nat
    BY <2>1, WalletAssumption
  <2> QED BY <1>3, <2>2 DEF CandleType
<1>8. kind = "trailing" => \A q \in Pairs : position'[q].qty = position[q].qty
  BY <1>4, <1>5 DEF OcoKinds
<1>9. StopInv'
  BY <1>1, <1>3, <1>7, <1>8 DEF StopInv
<1> QED BY <1>5, <1>6, <1>9 DEF TradeInv

(* Nothing is held, nothing is on sale, no stop is armed.                   *)
LEMMA TradeInit ==
  ASSUME InitAsset = 0, AllInit
  PROVE  TradeInv
<1>1. Init /\ phase = "market"
  BY DEF AllInit
<1>2. MoneyInv
  BY <1>1, WalletInvInit, LongBooksInit DEF MoneyInv
<1>3. HoldInv
  <2>1. NoPosition \in PositionType /\ NoPosition.side = "none" /\ NoPosition.qty = 0
    BY DEF NoPosition, PositionType
  <2>2. \A p \in Pairs : assets[p].free = 0 /\ assets[p].lock = 0
    BY <1>1 DEF Init
  <2>3. \A p \in Pairs : AssetPosition(p) = 0
    BY <2>2 DEF AssetPosition
  <2>4. position = [p \in Pairs |-> NoPosition] /\ results = [p \in Pairs |-> <<>>]
    BY DEF AllInit
  <2> QED BY <2>1, <2>3, <2>4 DEF HoldInv
<1>4. ExitInv
  <2>1. DOMAIN orders = {}
    BY <1>1 DEF Init
  <2> QED BY <1>1, <2>1 DEF ExitInv
<1>5. StopInv
  <2>1. Unarmed \in StopType /\ ~Unarmed.active
    BY DEF Unarmed, StopType
  <2>2. trailing = [p \in Pairs |-> Unarmed] /\ \A p \in Pairs : position[p].qty = 0
    BY DEF AllInit, NoPosition
  <2> QED BY <1>1, <2>1, <2>2 DEF StopInv
<1> QED BY <1>2, <1>3, <1>4, <1>5 DEF TradeInv

(* And every step keeps the invariant.                                      *)
LEMMA TradeStep ==
  ASSUME TradeInv, LegsInv, [AllNext]_allVars
  PROVE  TradeInv'
<1>1. CASE UNCHANGED allVars
  <2>1. /\ UNCHANGED <<walletVars, books>> /\ kind' = kind /\ trailing' = trailing
        /\ phase' = phase /\ exit' = exit /\ candle' = candle
    BY <1>1 DEF allVars, memory, chart
  <2>2. MoneyInv' /\ HoldInv'
    BY <2>1, MoneyKept, HoldKept DEF TradeInv
  <2>3. ExitInv' /\ StopInv'
    <3>1. orders' = orders /\ assets' = assets /\ position' = position
      BY <2>1 DEF walletVars, balVars, books
    <3> QED BY <2>1, <3>1 DEF TradeInv, ExitInv, StopInv, New
  <2> QED BY <2>2, <2>3 DEF TradeInv
<1>2. CASE PlaceExit
  BY <1>2, PlaceExitKeeps
<1>3. ASSUME NEW p \in Pairs, NEW c \in Shapes, NEW complete \in BOOLEAN,
             NEW again \in BOOLEAN, Candle(p, c, complete, again)
      PROVE  TradeInv'
  BY <1>3, CandleKeeps
<1>4. ASSUME NEW p \in Pairs, Strategy(p) PROVE TradeInv'
  <2>0. phase = "strategy"
    BY <1>4 DEF Strategy
  <2>1. CASE OCOSell(p)
    BY <2>1, OCOSellKeeps
  <2>2. CASE DCA(p)
    BY <2>2, DCAKeeps
  <2>3. CASE CrossEMA(p)
    BY <2>3, CrossEMAKeeps
  <2>4. CASE Turtle(p)
    BY <2>4, TurtleKeeps
  <2>5. CASE Enter(p)
    BY <2>0, <2>5, EnterKeeps
  <2>6. CASE Trail(p)
    BY <2>6, TrailKeeps
  <2>7. CASE Fibonacci(p)
    BY <2>7, FibonacciKeeps
  <2>8. CASE Nothing(p)
    <3>1. UNCHANGED <<walletVars, kind, trailing, books>> /\ phase' = "market"
      BY <2>8 DEF Nothing, Goto, memory
    <3> QED BY <3>1, NothingKeeps
  <2> QED BY <1>4, <2>1, <2>2, <2>3, <2>4, <2>5, <2>6, <2>7, <2>8 DEF Strategy
<1> QED BY <1>1, <1>2, <1>3, <1>4 DEF AllNext

(* However many orders a candle fills, and whatever the strategy does with  *)
(* it, the open position of a pair is what the wallet holds of it, and only *)
(* covered sales wait.  The wallet is given the base coin alone, as that of *)
(* a backtest is: it would sell an asset that no position accounts for.     *)
THEOREM TradeInvCorrect == InitAsset = 0 /\ AllSpec => []TradeInv
<1>1. InitAsset = 0 /\ AllInit => TradeInv
  BY TradeInit
<1>2. TradeInv /\ LegsInv /\ [AllNext]_allVars => TradeInv'
  BY TradeStep
<1> QED BY <1>1, <1>2, LegsInvariant, PTL DEF AllSpec

(* "Without the asset, the OCO sell would open a short position": although  *)
(* the wallet would let it, no strategy, at any prices and whichever of its *)
(* orders are rejected, ever sells what it does not hold or spends what it  *)
(* does not have.                                                           *)
THEOREM NeverShortCorrect == InitAsset = 0 /\ AllSpec => []NeverShort
<1>1. TradeInv => NeverShort
  <2> SUFFICES ASSUME TradeInv PROVE NeverShort
    OBVIOUS
  <2>1. /\ quote.free \in Nat /\ quote.lock \in Nat
        /\ \A p \in Pairs : assets[p].free \in Nat /\ assets[p].lock \in Nat
    BY MoneyTyped DEF TradeInv
  <2> QED BY <2>1 DEF NeverShort, TradeInv, HoldInv
<1> QED BY <1>1, TradeInvCorrect, PTL

(* The trailing stop is never further below the highest price it was shown, *)
(* at the entry and by partial candles, than it was below the entry,        *)
(* however the price moves after it; no position is left without it.        *)
THEOREM StopProtectsCorrect == InitAsset = 0 /\ AllSpec => []StopProtects
<1>1. TradeInv => StopProtects
  BY DEF TradeInv, StopInv, StopProtects
<1> QED BY <1>1, TradeInvCorrect, PTL

-----------------------------------------------------------------------------
(* BooksMatchWallet.  First, folds over sets of indices.                    *)

(* A fold that takes the largest index off.                                 *)
FoldsByMax(it, S, base, step) ==
    \A t \in SUBSET S : it[t] = IF t = {} THEN base ELSE step[Max(t)][it[t \ {Max(t)}]]

(* There is one with values in V, if the steps stay in V.                   *)
LEMMA MaxFold ==
  ASSUME NEW N \in Nat, NEW S \in SUBSET (1..N), NEW V, NEW base \in V, NEW step \in [S -> [V -> V]]
  PROVE  \E it \in [SUBSET S -> V] : FoldsByMax(it, S, base, step)
<1> DEFINE ch == [t \in SUBSET S |-> Max(t)]
<1>1. IsFiniteSet(S) /\ \A t \in SUBSET S : t # {} => Max(t) \in t
  <2>1. ASSUME NEW t \in SUBSET S PROVE IsFiniteSet(t) /\ t \in SUBSET Nat
    <3>1. t \in SUBSET (1..N)
      OBVIOUS
    <3>2. IsFiniteSet(t)
      BY <3>1, SetOfIndices
    <3> QED BY <3>1, <3>2
  <2> QED BY <2>1, MaxIsThere
<1>2. Iterable(S, ch, step, base, V)
  BY <1>1 DEF Iterable
<1>3. PICK it \in [SUBSET S -> V] : Iterates(it, S, ch, step, base)
  <2> HIDE DEF ch
  <2> QED BY <1>1, <1>2, IterationExists
<1>4. ASSUME NEW t \in SUBSET S
      PROVE  it[t] = IF t = {} THEN base ELSE step[Max(t)][it[t \ {Max(t)}]]
  <2>1. ch[t] = Max(t)
    OBVIOUS
  <2>2. it[t] = IF t = {} THEN base ELSE step[ch[t]][it[t \ {ch[t]}]]
    <3> HIDE DEF ch
    <3> QED BY <1>3 DEF Iterates
  <2> HIDE DEF ch
  <2> QED BY <2>1, <2>2
<1> QED BY <1>4 DEF FoldsByMax

(* What starts in V and whose steps stay in V does.                         *)
LEMMA MaxFoldStays ==
  ASSUME NEW N \in Nat, NEW S \in SUBSET (1..N), NEW V, NEW fold, fold[{}] \in V,
         \A t \in SUBSET S : t # {} /\ fold[t \ {Max(t)}] \in V => fold[t] \in V
  PROVE  \A t \in SUBSET S : fold[t] \in V
<1> DEFINE G == {t \in SUBSET S : fold[t] \in V}
<1>1. IsFiniteSet(S) /\ \A t \in SUBSET S : t # {} => Max(t) \in t
  <2>1. ASSUME NEW t \in SUBSET S PROVE IsFiniteSet(t) /\ t \in SUBSET Nat
    <3>1. t \in SUBSET (1..N)
      OBVIOUS
    <3>2. IsFiniteSet(t)
      BY <3>1, SetOfIndices
    <3> QED BY <3>1, <3>2
  <2> QED BY <2>1, MaxIsThere
<1>2. Inductive(S, G)
  BY <1>1 DEF Inductive
<1>3. SUBSET S \subseteq G
  <2> HIDE DEF G
  <2> QED BY <1>1, <1>2, SubsetInduction
<1> QED BY <1>3

(* The largest of the indices up to k.                                      *)
LEMMA LargestIndex ==
  ASSUME NEW k \in Nat, k # 0
  PROVE  Max(1..k) = k /\ (1..k) \ {k} = 1..(k - 1)
<1>1. PICK t : t = 1..k
  OBVIOUS
<1>2. k \in t /\ (\A y \in t : k >= y) /\ t \in SUBSET Int
  BY <1>1
<1>3. Max(t) \in t /\ \A y \in t : Max(t) >= y
  <2>1. \E x \in t : \A y \in t : x >= y
    BY <1>2
  <2> QED BY <2>1 DEF Max
<1>4. Max(t) = k
  BY <1>1, <1>2, <1>3
<1> QED BY <1>1, <1>4

-----------------------------------------------------------------------------
(* The largest fall of a list of values.                                    *)

(* The window of MaxDrawdown.                                               *)
WindowType == [prev : Int, local : Int, base : Int, drop : Int, start : Int]

(* What a step of MaxDrawdown makes of the window.                          *)
LEMMA ChangeTyped ==
  ASSUME NEW d \in WindowType, NEW v \in Int
  PROVE  /\ Change(d, v) \in WindowType /\ Change(d, v).prev = v
         /\ Change(d, v).local = (IF d.local > 0 THEN 0 ELSE d.local) + v - d.prev
         /\ Change(d, v).base = IF d.local > 0 THEN d.prev ELSE d.base
         /\ Change(d, v).drop = IF Change(d, v).local <= d.drop THEN Change(d, v).local ELSE d.drop
         /\ Change(d, v).start = IF Change(d, v).local < d.drop THEN Change(d, v).base ELSE d.start
<1>1. /\ d.prev \in Int /\ d.local \in Int /\ d.base \in Int /\ d.drop \in Int /\ d.start \in Int
  BY DEF WindowType
<1>2. PICK local : local = (IF d.local > 0 THEN 0 ELSE d.local) + v - d.prev
  OBVIOUS
<1>3. PICK base : base = IF d.local > 0 THEN d.prev ELSE d.base
  OBVIOUS
<1>4. local \in Int /\ base \in Int
  BY <1>1, <1>2, <1>3
<1>5. PICK drop : drop = Min({local, d.drop})
  OBVIOUS
<1>6. drop = IF local <= d.drop THEN local ELSE d.drop
  BY <1>1, <1>4, <1>5, TwoNumbers
<1>7. PICK start : start = IF local < d.drop THEN base ELSE d.start
  OBVIOUS
<1>8. Change(d, v) = [prev |-> v, local |-> local, base |-> base, drop |-> drop, start |-> start]
  BY <1>2, <1>3, <1>5, <1>7 DEF Change
<1>9. drop \in Int /\ start \in Int
  BY <1>1, <1>4, <1>6, <1>7
<1>10. PICK c : c = Change(d, v)
  OBVIOUS
<1>11. /\ c.prev = v /\ c.local = local /\ c.base = base /\ c.drop = drop /\ c.start = start
       /\ c \in WindowType
  BY <1>4, <1>8, <1>9, <1>10 DEF WindowType
<1> QED BY <1>2, <1>3, <1>6, <1>7, <1>10, <1>11

(* The steps over a list of values, one after the other.                    *)
Changes(first, s) == FoldLeft(Change, first, s)

(* They are taken in order.                                                 *)
LEMMA ChangesInOrder ==
  ASSUME NEW first \in WindowType, NEW n \in Nat, NEW s \in [1..n -> Int]
  PROVE  \E acc \in [0..n -> WindowType] :
            /\ acc[0] = first /\ acc[n] = Changes(first, s)
            /\ \A k \in 1..n : acc[k] = Change(acc[k - 1], s[k])
<1> DEFINE S == 1..n
           step == [i \in S |-> [d \in WindowType |-> Change(d, s[i])]]
           Folds(f) == f = [t \in SUBSET S |-> IF t = {} THEN first
                                               ELSE Change(f[t \ {Max(t)}], s[Max(t)])]
           fold == CHOOSE f : Folds(f)
<1>1. \A d \in WindowType, i \in S : Change(d, s[i]) \in WindowType
  BY ChangeTyped
<1>2. S \in SUBSET (1..n) /\ \A t \in SUBSET S : t # {} => Max(t) \in t /\ Max(t) \in S
  <2>1. ASSUME NEW t \in SUBSET S PROVE IsFiniteSet(t) /\ t \in SUBSET Nat
    <3>1. t \in SUBSET (1..n)
      OBVIOUS
    <3>2. IsFiniteSet(t)
      BY <3>1, SetOfIndices
    <3> QED BY <3>1, <3>2
  <2> QED BY <2>1, MaxIsThere
<1>3. PICK it \in [SUBSET S -> WindowType] : FoldsByMax(it, S, first, step)
  <2>1. step \in [S -> [WindowType -> WindowType]]
    BY <1>1
  <2>2. n \in Nat /\ first \in WindowType /\ S \in SUBSET (1..n)
    BY <1>2
  <2> HIDE DEF S, step, Folds, fold
  <2> QED BY ONLY <2>1, <2>2, MaxFold, Zenon
<1>4. Folds(it)
  <2>1. ASSUME NEW t \in SUBSET S, t # {}
        PROVE  step[Max(t)][it[t \ {Max(t)}]] = Change(it[t \ {Max(t)}], s[Max(t)])
    <3>1. Max(t) \in S /\ it[t \ {Max(t)}] \in WindowType
      BY <1>2, <2>1
    <3> HIDE DEF S
    <3> QED BY <3>1
  <2> HIDE DEF S, step
  <2> QED BY <1>3, <2>1 DEF FoldsByMax
<1>5. Folds(fold)
  <2> HIDE DEF Folds
  <2> QED BY <1>4
<1>6. Changes(first, s) = fold[S]
  BY DEF Changes, FoldLeft, MapThenFoldSet
<1>7. \A t \in SUBSET S : fold[t] = IF t = {} THEN first ELSE Change(fold[t \ {Max(t)}], s[Max(t)])
  <2> HIDE DEF S, fold
  <2> QED BY <1>5
<1> HIDE DEF fold
<1>8. \A t \in SUBSET S : fold[t] \in WindowType
  <2>1. fold[{}] \in WindowType
    BY <1>7
  <2>2. \A t \in SUBSET S : t # {} /\ fold[t \ {Max(t)}] \in WindowType => fold[t] \in WindowType
    <3> SUFFICES ASSUME NEW t \in SUBSET S, t # {}, fold[t \ {Max(t)}] \in WindowType
                 PROVE  fold[t] \in WindowType
      OBVIOUS
    <3>1. Max(t) \in S /\ fold[t] = Change(fold[t \ {Max(t)}], s[Max(t)])
      BY <1>2, <1>7
    <3> HIDE DEF S
    <3> QED BY <1>1, <3>1
  <2> HIDE DEF S
  <2> QED BY <1>2, <2>1, <2>2, MaxFoldStays
<1> DEFINE acc == [k \in 0..n |-> fold[1..k]]
<1>9. acc \in [0..n -> WindowType] /\ acc[n] = fold[S] /\ acc[0] = first
  <2>1. \A k \in 0..n : 1..k \in SUBSET S
    OBVIOUS
  <2>2. 1..0 = {} /\ 0 \in 0..n /\ n \in 0..n /\ {} \in SUBSET S
    OBVIOUS
  <2>3. fold[{}] = first
    BY <1>7, <2>2
  <2> QED BY <1>8, <2>1, <2>2, <2>3
<1>10. ASSUME NEW k \in 1..n PROVE acc[k] = Change(acc[k - 1], s[k])
  <2>1. 1..k \in SUBSET S /\ 1..k # {} /\ k \in 0..n /\ k - 1 \in 0..n
    OBVIOUS
  <2>2. Max(1..k) = k /\ (1..k) \ {k} = 1..(k - 1)
    BY LargestIndex
  <2>3. fold[1..k] = Change(fold[1..(k - 1)], s[k])
    BY <1>7, <2>1, <2>2
  <2> QED BY <2>1, <2>3
<1> HIDE DEF acc
<1> QED BY <1>6, <1>9, <1>10

(* What MaxDrawdown knows after k + 1 of the values v: the window that ends  *)
(* there began at the highest value before, and its largest fall is one.    *)
Knows(d, v, k) ==
    /\ d.prev = v[k + 1]
    /\ k = 0 => d.local = 1
    /\ k > 0 => /\ d.local = d.prev - d.base
                /\ \E i \in 1..k : d.base = v[i]
                /\ \A i \in 1..k : v[i] <= d.base
    /\ d.drop <= 0
    /\ \A j \in 1..(k + 1) : \A i \in 1..(j - 1) : d.drop <= v[j] - v[i]
    /\ d.drop < 0 => \E j \in 1..(k + 1) : \E i \in 1..(j - 1) :
                        d.drop = v[j] - v[i] /\ d.start = v[i]

(* It does so after another value.                                          *)
LEMMA KnowsNext ==
  ASSUME NEW n \in Nat, NEW v \in [1..n -> Int], NEW k \in Nat, k + 2 <= n,
         NEW d \in WindowType, Knows(d, v, k)
  PROVE  Knows(Change(d, v[k + 2]), v, k + 1)
<1>1. PICK e, new : e = k + 1 /\ new = v[k + 2]
  OBVIOUS
<1>2. /\ e \in Nat /\ e >= 1 /\ e + 1 <= n /\ e \in 1..n /\ e + 1 \in 1..n /\ k = e - 1
      /\ v[e + 1] = new /\ new \in Int
  BY <1>1
<1>3. PICK c : c = Change(d, new)
  OBVIOUS
<1>4. /\ c.prev = new
      /\ c.local = (IF d.local > 0 THEN 0 ELSE d.local) + new - d.prev
      /\ c.base = IF d.local > 0 THEN d.prev ELSE d.base
      /\ c.drop = IF c.local <= d.drop THEN c.local ELSE d.drop
      /\ c.start = IF c.local < d.drop THEN c.base ELSE d.start
  BY <1>2, <1>3, ChangeTyped
<1>5. /\ d.prev \in Int /\ d.local \in Int /\ d.base \in Int /\ d.drop \in Int
      /\ \A i \in 1..n : v[i] \in Int
  BY DEF WindowType
<1>6. /\ d.prev = v[e] /\ d.drop <= 0 /\ (k = 0 => d.local = 1)
      /\ k > 0 => /\ d.local = d.prev - d.base
                  /\ \E i \in 1..k : d.base = v[i]
                  /\ \A i \in 1..k : v[i] <= d.base
  BY <1>1 DEF Knows
<1>7. /\ \A j \in 1..e : \A i \in 1..(j - 1) : d.drop <= v[j] - v[i]
      /\ d.drop < 0 => \E j \in 1..e : \E i \in 1..(j - 1) :
                          d.drop = v[j] - v[i] /\ d.start = v[i]
  BY <1>1 DEF Knows
<1>8. /\ c.local = new - c.base
      /\ \E i \in 1..e : c.base = v[i]
      /\ \A i \in 1..e : v[i] <= c.base
  <2>1. \A i \in 1..e : i = e \/ i \in 1..k
    BY <1>2
  <2>2. k \in Nat /\ \A i \in 1..k : i \in 1..e /\ i \in 1..n
    BY <1>2
  <2>3. CASE d.local > 0
    <3>1. c.base = v[e] /\ c.local = new - c.base
      BY <1>2, <1>4, <1>5, <1>6, <2>3
    <3>2. \A i \in 1..k : v[i] <= v[e]
      BY <1>2, <1>5, <1>6, <2>2, <2>3
    <3>3. v[e] <= v[e] /\ e \in 1..e
      BY <1>2, <1>5
    <3> QED BY <2>1, <3>1, <3>2, <3>3
  <2>4. CASE ~(d.local > 0)
    <3>1. k > 0
      BY <1>6, <2>2, <2>4
    <3>2. c.base = d.base /\ c.local = d.local + new - d.prev
      BY <1>4, <2>4
    <3>3. d.local = d.prev - d.base
      BY <1>6, <3>1
    <3>4. new \in Int /\ d.prev \in Int /\ d.base \in Int
      BY <1>2, <1>5
    <3>5. c.base = d.base /\ c.local = new - c.base
      BY ONLY <3>2, <3>3, <3>4
    <3>6. v[e] <= d.base
      BY <1>2, <1>5, <1>6, <2>4, <3>1
    <3> QED BY <1>6, <2>1, <2>2, <3>1, <3>5, <3>6
  <2> QED BY <2>3, <2>4
<1>9. PICK i0 \in 1..e : c.base = v[i0]
  BY <1>8
<1>10. c.base \in Int /\ c.local \in Int /\ c.drop \in Int /\ i0 \in 1..n
  BY <1>2, <1>4, <1>5, <1>8, <1>9
<1>11. c.drop <= c.local /\ c.drop <= d.drop /\ c.drop <= 0
  BY <1>4, <1>5, <1>6, <1>10
<1>12. ASSUME NEW j \in 1..(e + 1), NEW i \in 1..(j - 1) PROVE c.drop <= v[j] - v[i]
  <2>1. CASE j = e + 1
    <3>1. i \in 1..e /\ i \in 1..n
      BY <1>2, <2>1
    <3>2. v[i] <= c.base /\ v[j] = new
      BY <1>2, <1>8, <2>1, <3>1
    <3> QED BY <1>2, <1>5, <1>8, <1>10, <1>11, <3>1, <3>2
  <2>2. CASE j # e + 1
    <3>1. j \in 1..e /\ j \in 1..n /\ i \in 1..n
      BY <1>2, <2>2
    <3>2. d.drop <= v[j] - v[i]
      BY <1>7, <3>1
    <3> QED BY <1>5, <1>10, <1>11, <3>1, <3>2
  <2> QED BY <2>1, <2>2
<1>13. ASSUME c.drop < 0
       PROVE  \E j \in 1..(e + 1) : \E i \in 1..(j - 1) : c.drop = v[j] - v[i] /\ c.start = v[i]
  <2>1. CASE c.local < d.drop
    <3>1. c.drop = new - c.base /\ c.start = c.base
      BY <1>4, <1>5, <1>8, <1>10, <2>1
    <3>2. e + 1 \in 1..(e + 1) /\ (e + 1) - 1 = e
      BY <1>2
    <3> QED BY <1>2, <1>9, <3>1, <3>2
  <2>2. CASE ~(c.local < d.drop)
    <3>1. c.drop = d.drop /\ c.start = d.start
      BY <1>4, <1>5, <1>10, <2>2
    <3>2. PICK j \in 1..e : \E i \in 1..(j - 1) : d.drop = v[j] - v[i] /\ d.start = v[i]
      BY <1>7, <1>13, <3>1
    <3>3. j \in 1..(e + 1)
      BY <1>2
    <3> QED BY <3>1, <3>2, <3>3
  <2> QED BY <2>1, <2>2
<1>14. e # 0 /\ e > 0 /\ k + 2 = e + 1
  BY <1>1, <1>2
<1>15. Knows(c, v, e)
  BY <1>2, <1>4, <1>8, <1>11, <1>12, <1>13, <1>14 DEF Knows
<1> QED BY <1>1, <1>3, <1>15

(* MaxDrawdown finds the largest fall, of any values.                       *)
LEMMA LargestFall ==
  ASSUME NEW values \in Seq(Int)
  PROVE  /\ \A j \in DOMAIN values : \A i \in 1..(j - 1) :
               MaxDrawdown(values).drop <= values[j] - values[i]
         /\ MaxDrawdown(values).drop < 0 =>
               \E j \in DOMAIN values : \E i \in 1..(j - 1) :
                  MaxDrawdown(values) = [drop |-> values[j] - values[i], start |-> values[i]]
<1>1. CASE values = <<>>
  <2>1. DOMAIN values = {} /\ MaxDrawdown(values) = [drop |-> 0, start |-> 0]
    BY <1>1 DEF MaxDrawdown
  <2> QED BY <2>1
<1>2. CASE values # <<>>
  <2>1. PICK N : N = Len(values) - 1
    OBVIOUS
  <2>2. /\ N \in Nat /\ Len(values) = N + 1 /\ DOMAIN values = 1..(N + 1)
        /\ values \in [1..(N + 1) -> Int] /\ 1 \in 1..(N + 1) /\ values[1] \in Int
    <3>1. Len(values) \in Nat /\ Len(values) # 0 /\ DOMAIN values = 1..Len(values)
      BY <1>2, EmptySeq
    <3>2. N \in Nat /\ Len(values) = N + 1
      BY <2>1, <3>1
    <3>3. \A i \in 1..(N + 1) : values[i] \in Int
      BY <3>2
    <3> QED BY <3>1, <3>2, <3>3
  <2>3. PICK s : s = Tail(values)
    OBVIOUS
  <2>4. s \in [1..N -> Int] /\ \A k \in 1..N : s[k] = values[k + 1]
    <3>1. s \in Seq(Int) /\ Len(s) = N /\ \A k \in 1..N : s[k] = values[k + 1]
      BY <1>2, <2>2, <2>3, HeadTailProperties
    <3> QED BY <3>1
  <2>5. PICK first : first = [prev |-> values[1], local |-> 1, base |-> 0, drop |-> 0, start |-> 0]
    OBVIOUS
  <2>6. first \in WindowType
    BY <2>2, <2>5 DEF WindowType
  <2>7. PICK acc \in [0..N -> WindowType] :
           /\ acc[0] = first /\ acc[N] = Changes(first, s)
           /\ \A k \in 1..N : acc[k] = Change(acc[k - 1], s[k])
    BY ONLY <2>2, <2>4, <2>6, ChangesInOrder, Zenon
  <2> DEFINE G == {k \in Nat : k <= N => Knows(acc[k], values, k)}
  <2>8. 0 \in G
    <3>1. /\ first.prev = values[1] /\ first.local = 1 /\ first.drop = 0
      BY <2>5
    <3>2. \A j \in 1..(0 + 1) : 1..(j - 1) = {}
      OBVIOUS
    <3> QED BY <2>7, <3>1, <3>2 DEF Knows
  <2>9. ASSUME NEW k \in Nat, k \in G PROVE k + 1 \in G
    <3> SUFFICES ASSUME k + 1 <= N PROVE Knows(acc[k + 1], values, k + 1)
      OBVIOUS
    <3>1. k \in 0..N /\ k + 1 \in 1..N /\ (k + 1) - 1 = k /\ k + 2 <= N + 1 /\ (k + 1) + 1 = k + 2
          /\ N + 1 \in Nat /\ k <= N
      BY <2>2
    <3>2. acc[k + 1] = Change(acc[k], values[k + 2])
      BY <2>4, <2>7, <3>1
    <3>3. acc[k] \in WindowType /\ Knows(acc[k], values, k)
      BY <2>7, <2>9, <3>1
    <3>4. Knows(Change(acc[k], values[k + 2]), values, k + 1)
      BY <2>2, <3>1, <3>3, KnowsNext
    <3> QED BY <3>2, <3>4
  <2>10. Knows(acc[N], values, N)
    <3>1. Nat \subseteq G
      <4> HIDE DEF G
      <4> QED BY <2>8, <2>9, NatSetInduction
    <3> QED BY <2>2, <3>1
  <2>11. PICK d : d = acc[N]
    OBVIOUS
  <2>12. MaxDrawdown(values) = [drop |-> d.drop, start |-> d.start]
    BY <1>2, <2>3, <2>5, <2>7, <2>11 DEF MaxDrawdown, Changes
  <2>13. /\ \A j \in 1..(N + 1) : \A i \in 1..(j - 1) : d.drop <= values[j] - values[i]
         /\ d.drop < 0 => \E j \in 1..(N + 1) : \E i \in 1..(j - 1) :
                            d.drop = values[j] - values[i] /\ d.start = values[i]
    BY <2>10, <2>11 DEF Knows
  <2>14. PICK m : m = MaxDrawdown(values)
    OBVIOUS
  <2>15. m = [drop |-> d.drop, start |-> d.start] /\ m.drop = d.drop
    BY <2>12, <2>14
  <2>16. \A j \in 1..(N + 1) : \A i \in 1..(j - 1) : m.drop <= values[j] - values[i]
    BY <2>13, <2>15
  <2>17. ASSUME m.drop < 0
         PROVE  \E j \in 1..(N + 1) : \E i \in 1..(j - 1) :
                   m = [drop |-> values[j] - values[i], start |-> values[i]]
    <3>1. d.drop < 0
      BY <2>15, <2>17
    <3>2. PICK j \in 1..(N + 1) : \E i \in 1..(j - 1) :
             d.drop = values[j] - values[i] /\ d.start = values[i]
      BY <2>13, <3>1
    <3>3. PICK i \in 1..(j - 1) : d.drop = values[j] - values[i] /\ d.start = values[i]
      BY <3>2
    <3> QED BY <2>15, <3>3
  <2> HIDE DEF G
  <2> QED BY <2>2, <2>14, <2>16, <2>17
<1> QED BY <1>1, <1>2

(* The same in the words of the property.                                   *)
LEMMA DrawdownKnown ==
  ASSUME equity \in Seq(Int)
  PROVE  DrawdownIsLargest
<1>1. PICK worst, v, n : worst = MaxDrawdown(equity) /\ v = equity /\ n = Len(equity)
  OBVIOUS
<1>2. v \in Seq(Int) /\ n \in Nat /\ n = Len(v) /\ DOMAIN v = 1..n
  BY <1>1
<1>3. /\ \A j \in 1..n : \A i \in 1..(j - 1) : worst.drop <= v[j] - v[i]
      /\ worst.drop < 0 => \E j \in 1..n : \E i \in 1..(j - 1) :
                              worst = [drop |-> v[j] - v[i], start |-> v[i]]
  BY <1>1, <1>2, LargestFall
<1> DEFINE falls == UNION {{[drop |-> v[j] - v[i], start |-> v[i]] : j \in (i + 1)..n} : i \in DOMAIN v}
<1>4. \A fall \in falls : \E j \in 1..n : \E i \in 1..(j - 1) :
         fall = [drop |-> v[j] - v[i], start |-> v[i]]
  <2> SUFFICES ASSUME NEW fall \in falls
               PROVE  \E j \in 1..n : \E i \in 1..(j - 1) :
                         fall = [drop |-> v[j] - v[i], start |-> v[i]]
    OBVIOUS
  <2>1. PICK i \in 1..n : \E j \in (i + 1)..n : fall = [drop |-> v[j] - v[i], start |-> v[i]]
    BY <1>2
  <2>2. PICK j \in (i + 1)..n : fall = [drop |-> v[j] - v[i], start |-> v[i]]
    BY <2>1
  <2>3. j \in 1..n /\ i \in 1..(j - 1)
    BY <1>2
  <2> QED BY <2>2, <2>3
<1>5. ASSUME NEW j \in 1..n, NEW i \in 1..(j - 1)
      PROVE  [drop |-> v[j] - v[i], start |-> v[i]] \in falls
  <2>1. i \in DOMAIN v /\ j \in (i + 1)..n
    BY <1>2
  <2> QED BY <2>1
<1> HIDE DEF falls
<1>6. \A fall \in falls : worst.drop <= fall.drop
  <2> SUFFICES ASSUME NEW fall \in falls PROVE worst.drop <= fall.drop
    OBVIOUS
  <2>1. PICK j \in 1..n : \E i \in 1..(j - 1) : fall = [drop |-> v[j] - v[i], start |-> v[i]]
    BY <1>4
  <2>2. PICK i \in 1..(j - 1) : fall = [drop |-> v[j] - v[i], start |-> v[i]]
    BY <2>1
  <2>3. fall.drop = v[j] - v[i]
    BY <2>2
  <2> QED BY <1>3, <2>3
<1>7. worst.drop < 0 => worst \in falls
  <2> SUFFICES ASSUME worst.drop < 0 PROVE worst \in falls
    OBVIOUS
  <2>1. PICK j \in 1..n : \E i \in 1..(j - 1) : worst = [drop |-> v[j] - v[i], start |-> v[i]]
    BY <1>3
  <2>2. PICK i \in 1..(j - 1) : worst = [drop |-> v[j] - v[i], start |-> v[i]]
    BY <2>1
  <2> QED BY <1>5, <2>2
<1> QED BY <1>1, <1>6, <1>7 DEF DrawdownIsLargest, falls

-----------------------------------------------------------------------------
(* What RestorePositions replays.                                           *)

(* A position as a signed quantity, and what a fill adds to it.             *)
Signed(pos) == IF pos.side = "SELL" THEN 0 - pos.qty ELSE pos.qty
SignedFill(o) == IF o.side = "BUY" THEN o.qty ELSE 0 - o.qty

(* Every fill changes a position by its quantity, also one that turns it    *)
(* round.                                                                   *)
LEMMA UpdatedSigned ==
  ASSUME NEW pos \in PositionType, NEW o \in FillType
  PROVE  Signed(Updated(pos, o)) = Signed(pos) + SignedFill(o)
<1>1. /\ pos.qty \in Nat /\ pos.cost \in Int /\ pos.side \in OrderSides \cup {"none"}
      /\ pos = NoPosition <=> pos.side = "none"
      /\ pos = NoPosition <=> pos.qty = 0
  BY PositionFields
<1>2. /\ o.qty \in Nat \ {0} /\ o.side \in OrderSides
  BY FillFields
<1>3. CASE pos = NoPosition
  <2>1. Updated(pos, o) = Opened(o)
    BY <1>1, <1>3 DEF Updated
  <2>2. Opened(o).side = o.side /\ Opened(o).qty = o.qty
    BY DEF Opened
  <2> QED BY <1>1, <1>2, <1>3, <2>1, <2>2 DEF Signed, SignedFill, OrderSides
<1>4. CASE pos # NoPosition
  <2>0. pos \in [side : OrderSides, qty : Nat \ {0}, cost : Int] /\ pos.side \in OrderSides
        /\ pos.side # "none"
    BY <1>4 DEF PositionType, OrderSides
  <2>1. CASE pos.side = o.side
    <3>1. Updated(pos, o) = Increased(pos, o)
      BY <1>4, <2>1 DEF Updated
    <3>2. Increased(pos, o).side = pos.side /\ Increased(pos, o).qty = pos.qty + o.qty
      BY <2>0 DEF Increased
    <3> QED BY <1>1, <1>2, <2>0, <2>1, <3>1, <3>2 DEF Signed, SignedFill, OrderSides
  <2>2. CASE pos.side # o.side /\ pos.qty > o.qty
    <3>1. Updated(pos, o) = Reduced(pos, o)
      BY <1>4, <2>0, <2>2 DEF Updated
    <3>2. Reduced(pos, o).side = pos.side /\ Reduced(pos, o).qty = pos.qty - o.qty
      BY <2>0 DEF Reduced
    <3> QED BY <1>1, <1>2, <2>0, <2>2, <3>1, <3>2 DEF Signed, SignedFill, OrderSides
  <2>3. CASE pos.side # o.side /\ pos.qty = o.qty
    <3>1. Updated(pos, o) = NoPosition
      BY <1>4, <2>0, <2>3 DEF Updated
    <3>2. NoPosition.side = "none" /\ NoPosition.qty = 0
      BY DEF NoPosition
    <3> QED BY <1>1, <1>2, <2>0, <2>3, <3>1, <3>2 DEF Signed, SignedFill, OrderSides
  <2>4. CASE pos.side # o.side /\ pos.qty < o.qty
    <3>1. Updated(pos, o) = Flipped(pos, o)
      BY <1>2, <1>4, <2>0, <2>4 DEF Updated
    <3>2. Flipped(pos, o).side = o.side /\ Flipped(pos, o).qty = o.qty - pos.qty
      BY DEF Flipped
    <3> QED BY <1>1, <1>2, <2>0, <2>4, <3>1, <3>2 DEF Signed, SignedFill, OrderSides
  <2> QED BY <1>1, <1>2, <2>1, <2>2, <2>3, <2>4
<1> QED BY <1>3, <1>4

(* What RestorePositions does with the orders of a set.                     *)
Replayed(os, S) ==
    MapThenFoldSet(LAMBDA i, pos : Updated(pos, os[i]), NoPosition, LAMBDA i : i, Max, S)

(* The recursive function by which the community modules define it.         *)
Replays(it, os, S) ==
    it = [t \in SUBSET S |-> IF t = {} THEN NoPosition
                             ELSE Updated(it[t \ {Max(t)}], os[Max(t)])]

(* A set of indices.                                                        *)
IndexSet(S) == IsFiniteSet(S) /\ S \in SUBSET Nat

(* Those of orders are one.                                                 *)
LEMMA IndicesAre ==
  ASSUME NEW N \in Nat, NEW S \in SUBSET (1..N) PROVE IndexSet(S)
<1>1. IsFiniteSet(S)
  BY SetOfIndices
<1>2. S \in SUBSET Nat
  OBVIOUS
<1> QED BY <1>1, <1>2 DEF IndexSet

(* The orders of a set are the same.                                        *)
SameOrders(os, ps, T) == \A i \in T : os[i] = ps[i]

(* Two replays that agree on the parts of a set.                            *)
AgreeOn(a, b, T) == \A t \in SUBSET T : a[t] = b[t]

(* It depends on the orders of a set only, not on the set they are in.      *)
LEMMA ReplaysAgree ==
  ASSUME NEW S, NEW T, NEW os, NEW ps, NEW a, NEW b,
         IndexSet(S), T \subseteq S, SameOrders(os, ps, T),
         Replays(a, os, S), Replays(b, ps, T)
  PROVE  AgreeOn(a, b, T)
<1> DEFINE G == {t \in SUBSET T : a[t] = b[t]}
<1>1. IsFiniteSet(T) /\ \A t \in SUBSET T : t # {} => Max(t) \in t
  <2>1. ASSUME NEW t \in SUBSET T PROVE IsFiniteSet(t) /\ t \in SUBSET Nat
    BY FS_Subset DEF IndexSet
  <2> QED BY <2>1, MaxIsThere
<1>2. ASSUME NEW t \in SUBSET T, \A x \in t : t \ {x} \in G PROVE t \in G
  <2>1. /\ a[t] = IF t = {} THEN NoPosition ELSE Updated(a[t \ {Max(t)}], os[Max(t)])
        /\ b[t] = IF t = {} THEN NoPosition ELSE Updated(b[t \ {Max(t)}], ps[Max(t)])
    <3>1. t \in SUBSET S
      OBVIOUS
    <3> QED BY <3>1 DEF Replays
  <2>2. t # {} => Max(t) \in t /\ os[Max(t)] = ps[Max(t)]
    BY <1>1 DEF SameOrders
  <2> QED BY <1>2, <2>1, <2>2
<1>3. SUBSET T \subseteq G
  <2>1. Inductive(T, G)
    BY <1>2 DEF Inductive
  <2> HIDE DEF G
  <2> QED BY <1>1, <2>1, SubsetInduction
<1> QED BY <1>3 DEF AgreeOn

(* There is such a function, with positions as values.                      *)
LEMMA ReplaysExist ==
  ASSUME NEW N \in Nat, NEW S \in SUBSET (1..N), NEW os, \A i \in S : os[i] \in FillType
  PROVE  \E it \in [SUBSET S -> PositionType] : Replays(it, os, S)
<1> DEFINE step == [i \in S |-> [pos \in PositionType |-> Updated(pos, os[i])]]
<1>1. \A pos \in PositionType, i \in S : Updated(pos, os[i]) \in PositionType
  BY UpdatedTyped
<1>2. \A t \in SUBSET S : t # {} => Max(t) \in t /\ Max(t) \in S
  <2>1. ASSUME NEW t \in SUBSET S PROVE IsFiniteSet(t) /\ t \in SUBSET Nat
    <3>1. t \in SUBSET (1..N)
      OBVIOUS
    <3>2. IsFiniteSet(t)
      BY <3>1, SetOfIndices
    <3> QED BY <3>1, <3>2
  <2> QED BY <2>1, MaxIsThere
<1>3. PICK it \in [SUBSET S -> PositionType] : FoldsByMax(it, S, NoPosition, step)
  <2>1. step \in [S -> [PositionType -> PositionType]]
    BY <1>1
  <2>2. N \in Nat /\ NoPosition \in PositionType /\ S \in SUBSET (1..N)
    BY DEF PositionType
  <2> HIDE DEF step
  <2> QED BY ONLY <2>1, <2>2, MaxFold, Zenon
<1>4. ASSUME NEW t \in SUBSET S
      PROVE  it[t] = IF t = {} THEN NoPosition ELSE Updated(it[t \ {Max(t)}], os[Max(t)])
  <2>1. CASE t = {}
    BY <1>3, <2>1 DEF FoldsByMax
  <2>2. CASE t # {}
    <3>1. Max(t) \in S /\ it[t \ {Max(t)}] \in PositionType
      BY <1>2, <2>2
    <3>2. step[Max(t)][it[t \ {Max(t)}]] = Updated(it[t \ {Max(t)}], os[Max(t)])
      BY <3>1
    <3> HIDE DEF step
    <3> QED BY <1>3, <2>2, <3>2 DEF FoldsByMax
  <2> QED BY <2>1, <2>2
<1>5. it = [t \in SUBSET S |-> IF t = {} THEN NoPosition
                               ELSE Updated(it[t \ {Max(t)}], os[Max(t)])]
  <2> HIDE DEF step
  <2> QED BY <1>4
<1> QED BY <1>5 DEF Replays

(* The orders of a set are booked one by one, the latest last.              *)
LEMMA ReplayedStep ==
  ASSUME NEW N \in Nat, NEW S \in SUBSET (1..N), NEW os, \A i \in S : os[i] \in FillType
  PROVE  /\ Replayed(os, S) \in PositionType
         /\ S = {} => Replayed(os, S) = NoPosition
         /\ S # {} => Replayed(os, S) = Updated(Replayed(os, S \ {Max(S)}), os[Max(S)])
<1>1. PICK it \in [SUBSET S -> PositionType] : Replays(it, os, S)
  BY ReplaysExist
<1>2. ASSUME NEW T \in SUBSET S PROVE Replayed(os, T) = it[T]
  <2>0. T \in SUBSET (1..N) /\ \A i \in T : os[i] \in FillType
    OBVIOUS
  <2>1. \E b \in [SUBSET T -> PositionType] : Replays(b, os, T)
    BY <2>0, ReplaysExist
  <2> DEFINE c == CHOOSE b : Replays(b, os, T)
  <2>2. Replays(c, os, T)
    BY <2>1
  <2>3. Replayed(os, T) = c[T]
    BY DEF Replayed, MapThenFoldSet, Replays
  <2> HIDE DEF c
  <2>4. IndexSet(S) /\ T \subseteq S /\ SameOrders(os, os, T)
    BY IndicesAre DEF SameOrders
  <2>5. AgreeOn(it, c, T)
    BY ONLY <1>1, <2>2, <2>4, ReplaysAgree, Zenon
  <2> QED BY <2>3, <2>5 DEF AgreeOn
<1>3. it[S] = IF S = {} THEN NoPosition ELSE Updated(it[S \ {Max(S)}], os[Max(S)])
  BY <1>1 DEF Replays
<1>4. Replayed(os, S) = it[S] /\ Replayed(os, S \ {Max(S)}) = it[S \ {Max(S)}]
  BY <1>2
<1>5. it[S] \in PositionType
  OBVIOUS
<1> QED BY <1>3, <1>4, <1>5

(* Only the orders of the set count.                                        *)
LEMMA ReplayedSame ==
  ASSUME NEW N \in Nat, NEW S \in SUBSET (1..N), NEW os, NEW ps,
         \A i \in S : os[i] \in FillType /\ ps[i] = os[i]
  PROVE  Replayed(ps, S) = Replayed(os, S)
<1> DEFINE a == CHOOSE it : Replays(it, os, S)
           b == CHOOSE it : Replays(it, ps, S)
<1>1. (\E it : Replays(it, os, S)) /\ (\E it : Replays(it, ps, S))
  <2>1. (\A i \in S : os[i] \in FillType) /\ (\A i \in S : ps[i] \in FillType)
    OBVIOUS
  <2> QED BY <2>1, ReplaysExist
<1>2. Replays(a, os, S) /\ Replays(b, ps, S)
  BY <1>1
<1>3. Replayed(os, S) = a[S] /\ Replayed(ps, S) = b[S]
  BY DEF Replayed, MapThenFoldSet, Replays
<1> HIDE DEF a, b
<1>4. IndexSet(S) /\ S \subseteq S /\ SameOrders(os, ps, S)
  BY IndicesAre DEF SameOrders
<1>5. AgreeOn(a, b, S)
  BY ONLY <1>2, <1>4, ReplaysAgree, Zenon
<1> QED BY <1>3, <1>4, <1>5 DEF AgreeOn

(* The orders that are booked last were made last.                          *)
LEMMA ReplayedMore ==
  ASSUME NEW N \in Nat, NEW S \in SUBSET (1..N), NEW m \in 1..N, \A i \in S : i < m,
         NEW os, os[m] \in FillType, \A i \in S : os[i] \in FillType
  PROVE  Replayed(os, S \cup {m}) = Updated(Replayed(os, S), os[m])
<1>1. PICK T : T = S \cup {m}
  OBVIOUS
<1>2. T \in SUBSET (1..N) /\ T # {} /\ T \ {m} = S /\ \A i \in T : os[i] \in FillType
  BY <1>1
<1>3. Max(T) = m
  <2>1. m \in T /\ m \in Int /\ \A y \in T : y \in Int /\ m >= y
    BY <1>1
  <2>2. Max(T) \in T /\ \A y \in T : Max(T) >= y
    <3>1. \E x \in T : \A y \in T : x >= y
      BY <2>1
    <3> QED BY <3>1 DEF Max
  <2>3. PICK x : x = Max(T)
    OBVIOUS
  <2>4. x \in Int /\ m >= x /\ x >= m
    BY <2>1, <2>2, <2>3
  <2>5. x = m
    BY ONLY <2>1, <2>4
  <2> QED BY <2>3, <2>5
<1> QED BY <1>1, <1>2, <1>3, ReplayedStep

(* The orders of a pair that have filled.                                   *)
FillsOf(p) == {i \in DOMAIN orders : orders[i].pair = p /\ orders[i].status = "FILLED"}

(* The position that is restored is what the orders of the set bought and   *)
(* sold.                                                                    *)
LEMMA ReplayedQuantity ==
  ASSUME NEW N \in Nat, NEW S \in SUBSET (1..N), NEW os, \A i \in S : os[i] \in FillType,
         NEW f, \A i \in S : f[i] = SignedFill(os[i])
  PROVE  Signed(Replayed(os, S)) = SumFunctionOnSet(f, S)
<1> DEFINE Sum(t) == SumFunctionOnSet(f, t)
           G == {t \in SUBSET S : Signed(Replayed(os, t)) = Sum(t)}
<1>1. IsFiniteSet(S)
  BY SetOfIndices
<1>2. \A o \in FillType : SignedFill(o) \in Int
  BY FillFields DEF SignedFill
<1>3. IntOn(f, S)
  BY <1>2 DEF IntOn
<1>4. ASSUME NEW t \in SUBSET S, \A x \in t : t \ {x} \in G PROVE t \in G
  <2>1. t \in SUBSET (1..N) /\ \A i \in t : os[i] \in FillType
    OBVIOUS
  <2>2. CASE t = {}
    <3>1. Replayed(os, {}) = NoPosition
      BY <2>1, <2>2, ReplayedStep
    <3>2. Signed(NoPosition) = 0
      BY DEF Signed, NoPosition
    <3> QED BY <2>2, <3>1, <3>2, SumEmpty
  <2>3. CASE t # {}
    <3>1. PICK m : m = Max(t)
      OBVIOUS
    <3>2. m \in t
      <4>1. IsFiniteSet(t)
        BY <2>1, SetOfIndices
      <4>2. t \in SUBSET Nat
        BY <2>1
      <4> QED BY <2>3, <3>1, <4>1, <4>2, MaxIsThere
    <3>3. Replayed(os, t) = Updated(Replayed(os, t \ {m}), os[m])
      BY <2>1, <2>3, <3>1, ReplayedStep
    <3>4. PICK u : u = t \ {m}
      OBVIOUS
    <3>5. Replayed(os, u) \in PositionType
      <4>1. u \in SUBSET (1..N) /\ \A i \in u : os[i] \in FillType
        BY <2>1, <3>4
      <4> QED BY <4>1, ReplayedStep
    <3>6. Signed(Replayed(os, t)) = Signed(Replayed(os, u)) + f[m]
      BY <3>2, <3>3, <3>4, <3>5, UpdatedSigned
    <3>7. Signed(Replayed(os, u)) = Sum(u)
      BY <1>4, <3>2, <3>4
    <3>8. Sum(t) = f[m] + Sum(u) /\ Sum(u) \in Int /\ f[m] \in Int
      <4>1. IsFiniteSet(t) /\ IntOn(f, t)
        BY <1>1, <1>3, IntOnParts
      <4>2. u \in SUBSET S
        BY <3>4
      <4> QED BY <1>1, <1>3, <3>2, <3>4, <4>1, <4>2, SumRemove, IntOnParts DEF IntOn
    <3>9. Signed(Replayed(os, t)) = Sum(t)
      <4> HIDE DEF Sum, G
      <4> QED BY <3>6, <3>7, <3>8
    <3> QED BY <3>9
  <2> QED BY <2>2, <2>3
<1>5. SUBSET S \subseteq G
  <2>1. Inductive(S, G)
    BY <1>4 DEF Inductive
  <2> HIDE DEF G
  <2> QED BY <1>1, <2>1, SubsetInduction
<1> QED BY <1>5

(* What is restored of a pair is what its filled orders bought and sold.    *)
LEMMA FillsTyped ==
  ASSUME MoneyInv, NEW p \in Pairs
  PROVE  /\ FillsOf(p) \in SUBSET DOMAIN orders /\ \A i \in FillsOf(p) : orders[i] \in FillType
         /\ FillsOf(p) = FilledOf("BUY", p) \cup FilledOf("SELL", p)
         /\ FilledOf("BUY", p) \cap FilledOf("SELL", p) = {}
         /\ Restored(p) = Replayed(orders, FillsOf(p))
<1>1. \A i \in DOMAIN orders : orders[i] \in OrderType /\ orders[i].qty > 0
  BY DEF MoneyInv, LongOrders, WalletInv, WalletTypeOK
<1>2. \A i \in DOMAIN orders : orders[i] \in FillType /\ orders[i].side \in {"BUY", "SELL"}
  BY <1>1 DEF FillType, OrderType
<1>3. Restored(p) = Replayed(orders, FillsOf(p))
  BY DEF Restored, Replayed, FillsOf
<1> QED BY <1>2, <1>3 DEF FillsOf, FilledOf, Filled

(* The position that is restored has the quantity that the wallet holds.    *)
LEMMA RestoredQuantity ==
  ASSUME InitAsset = 0, MoneyInv, HoldInv, NEW p \in Pairs
  PROVE  Restored(p).qty = position[p].qty
<1>0. WalletTypeOK
  BY DEF MoneyInv, WalletInv
<1>1. PICK N \in Nat : N = Len(orders) /\ DOMAIN orders = 1..N
  BY <1>0, OrdersTyped
<1>2. PICK B, S : B = FilledOf("BUY", p) /\ S = FilledOf("SELL", p)
  OBVIOUS
<1>3. PICK f : f = [i \in DOMAIN orders |-> SignedFill(orders[i])]
  OBVIOUS
<1>4. B \in SUBSET DOMAIN orders /\ S \in SUBSET DOMAIN orders /\ B \cup S \in SUBSET DOMAIN orders
  BY <1>2 DEF FilledOf, Filled
<1>5. /\ FillsOf(p) = B \cup S /\ B \cap S = {} /\ \A i \in B \cup S : orders[i] \in FillType
      /\ Restored(p) = Replayed(orders, B \cup S)
  BY <1>2, FillsTyped
<1>6. /\ IsFiniteSet(B) /\ IsFiniteSet(S) /\ IsFiniteSet(B \cup S)
      /\ IntOn(Quantity, B) /\ IntOn(Quantity, S)
  BY <1>0, <1>4, SumsTyped
<1>7. /\ \A i \in B : f[i] = Quantity[i] /\ f[i] \in Int
      /\ \A i \in S : f[i] = 0 - Quantity[i] /\ f[i] \in Int
  <2>1. \A i \in B \cup S : orders[i].qty \in Nat
    BY <1>5, FillFields
  <2>2. (\A i \in B : orders[i].side = "BUY") /\ (\A i \in S : orders[i].side = "SELL")
    BY <1>2 DEF FilledOf, Filled
  <2> QED BY <1>3, <1>4, <2>1, <2>2 DEF SignedFill, Quantity
<1>8. IntOn(f, B) /\ IntOn(f, S) /\ IntOn(f, B \cup S)
  BY <1>7 DEF IntOn
<1>9. SumFunctionOnSet(f, B \cup S) = SumFunctionOnSet(f, B) + SumFunctionOnSet(f, S)
  BY <1>5, <1>6, <1>8, SumUnion
<1>10. SumFunctionOnSet(f, B) = BoughtOf(p)
  BY <1>2, <1>6, <1>7, <1>8, SumSame DEF BoughtOf
<1>11. SumFunctionOnSet(f, S) + SoldOf(p) = 0
  <2>1. PICK h : h = [i \in S |-> 0]
    OBVIOUS
  <2>2. \A i \in S : h[i] = f[i] + Quantity[i]
    <3>1. \A i \in S : Quantity[i] \in Int
      BY <1>6 DEF IntOn
    <3> QED BY <1>7, <2>1, <3>1
  <2>3. SumFunctionOnSet(h, S) = SumFunctionOnSet(f, S) + SumFunctionOnSet(Quantity, S)
    BY <1>6, <1>8, <2>2, SumPlus
  <2>4. \A i \in S : h[i] = 0
    BY <2>1
  <2>5. SumFunctionOnSet(h, S) = 0
    BY <1>6, <2>4, SumZero
  <2> QED BY <1>2, <2>3, <2>5 DEF SoldOf
<1>12. Signed(Restored(p)) = SumFunctionOnSet(f, B \cup S)
  <2>1. \A i \in B \cup S : f[i] = SignedFill(orders[i])
    BY <1>3, <1>4
  <2>2. B \cup S \in SUBSET (1..N)
    BY <1>1, <1>4
  <2> QED BY <1>1, <1>5, <2>1, <2>2, ReplayedQuantity
<1>13. PICK q \in Nat : q = position[p].qty
  BY PositionFields DEF HoldInv
<1>14. BoughtOf(p) - SoldOf(p) = q /\ BoughtOf(p) \in Nat /\ SoldOf(p) \in Nat
  <2>1. BoughtOf(p) \in Nat /\ SoldOf(p) \in Nat
    BY <1>0, BooksTyped
  <2>2. InitAsset + BoughtOf(p) - SoldOf(p) = q
    BY <1>13 DEF MoneyInv, Books, HoldInv, AssetPosition
  <2> QED BY <2>1, <2>2
<1>15. Signed(Restored(p)) = q
  <2>1. SumFunctionOnSet(f, S) \in Int
    BY <1>6, <1>8, SumTaken
  <2> QED BY <1>9, <1>10, <1>11, <1>12, <1>14, <2>1
<1>16. Restored(p) \in PositionType
  <2>1. B \cup S \in SUBSET (1..N)
    BY <1>1, <1>4
  <2> QED BY <1>1, <1>5, <2>1, ReplayedStep
<1>17. PICK pos \in PositionType : pos = Restored(p)
  BY <1>16
<1>18. pos.qty \in Nat
  BY PositionFields
<1>19. pos.qty = q
  BY <1>13, <1>15, <1>17, <1>18 DEF Signed
<1> QED BY <1>13, <1>17, <1>19

-----------------------------------------------------------------------------
(* The profits.                                                             *)

(* What was realized with a position, and what was paid for it: the sum is  *)
(* what the trades of the pair have brought in and cost.                    *)
Balance(acc) == SumFunction(acc.results) - acc.position.cost

(* What a trade brings in, or costs.                                        *)
Flow(o) == IF o.side = "BUY" THEN 0 - TradePrice(o) * o.qty ELSE TradePrice(o) * o.qty

(* A purchase, and a sale of the whole position, book what is paid.         *)
LEMMA FlowIsBooked ==
  ASSUME NEW acc \in BooksType, acc.position.side # "SELL",
         NEW o \in FillType,
         o.side = "BUY" => TradePrice(o) = o.price,
         o.side = "SELL" => o.qty = acc.position.qty
  PROVE  Balance(acc) \in Int /\ Balance(Processed(acc, o)) = Balance(acc) + Flow(o)
<1>1. PICK pos, r : pos = acc.position /\ r = acc.results
  OBVIOUS
<1>2. /\ pos \in PositionType /\ r \in Seq(Int) /\ pos.qty \in Nat /\ pos.cost \in Int
      /\ pos.side \in {"none", "BUY"}
      /\ pos = NoPosition <=> pos.side = "none"
      /\ pos = NoPosition <=> pos.qty = 0
  BY <1>1, PositionFields DEF BooksType, OrderSides
<1>3. o.qty \in Nat \ {0} /\ o.side \in OrderSides /\ TradePrice(o) \in Nat
  BY FillFields
<1>4. PICK price \in Nat, qty \in Nat : price = TradePrice(o) /\ qty = o.qty /\ qty # 0
  BY <1>3
<1>5. PICK sum \in Int : sum = SumFunction(r)
  BY <1>2, 0 \in Int, SumAppend
<1>6. PICK cost \in Int : cost = pos.cost
  BY <1>2
<1>7. PICK paid \in Int : paid = price * qty
  OBVIOUS
<1>8. Balance(acc) = sum - cost
  BY <1>1, <1>5, <1>6 DEF Balance
<1>9. CASE o.side = "BUY"
  <2>1. ~Realizes(pos, o)
    BY <1>2, <1>9 DEF Realizes
  <2>2. Processed(acc, o).results = r /\ Processed(acc, o).position = Updated(pos, o)
    BY <1>1, <2>1, ProcessedTyped
  <2>3. Updated(pos, o).cost = cost + paid
    <3>1. CASE pos = NoPosition
      <4>1. Updated(pos, o) = Opened(o)
        BY <1>2, <3>1 DEF Updated
      <4>2. Opened(o).cost = o.qty * o.price
        BY DEF Opened
      <4>3. cost = 0
        BY <1>6, <3>1 DEF NoPosition
      <4>4. qty * price = paid
        BY <1>7
      <4> QED BY <1>4, <1>9, <4>1, <4>2, <4>3, <4>4
    <3>2. CASE pos # NoPosition
      <4>1. pos.side = o.side
        BY <1>2, <1>9, <3>2
      <4>2. Updated(pos, o) = Increased(pos, o)
        BY <3>2, <4>1 DEF Updated
      <4>3. pos \in [side : OrderSides, qty : Nat \ {0}, cost : Int]
        BY <1>2, <3>2 DEF PositionType
      <4>4. Increased(pos, o).cost = pos.cost + o.qty * TradePrice(o)
        BY <4>3 DEF Increased
      <4>5. qty * price = paid
        BY <1>7
      <4> QED BY <1>4, <1>6, <4>2, <4>4, <4>5
    <3> QED BY <3>1, <3>2
  <2>4. Flow(o) = 0 - paid
    BY <1>4, <1>7, <1>9 DEF Flow
  <2>5. Balance(Processed(acc, o)) = sum - (cost + paid)
    BY <1>5, <2>2, <2>3 DEF Balance
  <2> QED BY ONLY <1>8, <2>4, <2>5, sum \in Int, cost \in Int, paid \in Int
<1>10. CASE o.side = "SELL"
  <2>1. pos.qty = qty /\ pos.side = "BUY" /\ pos # NoPosition
    BY <1>1, <1>2, <1>4, <1>10
  <2>2. Realizes(pos, o)
    BY <1>10, <2>1 DEF Realizes
  <2>3. PICK v \in Int : v = ProfitValue(pos, o) /\ Processed(acc, o).results = Append(r, v)
    BY <1>1, <2>2, ProcessedTyped
  <2>4. Processed(acc, o).position = NoPosition
    <3>1. Updated(pos, o) = NoPosition
      BY <1>4, <1>10, <2>1 DEF Updated
    <3> QED BY <1>1, <3>1, ProcessedTyped
  <2>5. v = paid - cost
    <3>1. ProfitValue(pos, o) = ((price * qty - cost) * qty) \div qty
      BY <1>4, <1>6, <2>1 DEF ProfitValue
    <3>2. \A x \in Int, y \in Nat : y # 0 => (x * y) \div y = x
      OBVIOUS
    <3>3. PICK x \in Int : x = paid - cost
      OBVIOUS
    <3>4. (x * qty) \div qty = x
      BY <1>4, <3>2
    <3> QED BY <1>7, <2>3, <3>1, <3>3, <3>4
  <2>6. SumFunction(Append(r, v)) = sum + v
    BY <1>2, <1>5, SumAppend
  <2>7. Flow(o) = paid
    BY <1>4, <1>7, <1>10 DEF Flow
  <2>8. NoPosition.cost = 0
    BY DEF NoPosition
  <2>9. Balance(Processed(acc, o)) = (sum + v) - 0
    BY <2>3, <2>4, <2>6, <2>8 DEF Balance
  <2> QED BY ONLY <1>8, <2>5, <2>7, <2>9, sum \in Int, cost \in Int, paid \in Int, v \in Int
<1> QED BY <1>3, <1>8, <1>9, <1>10 DEF OrderSides

(* If something is sold, and of the pair nothing was ever sold in parts, it *)
(* is the whole position.                                                   *)
LEMMA WholeIsSold ==
  ASSUME HoldInv, NEW p \in Pairs, NEW o \in FillType, o.side = "SELL", o.qty <= position[p].qty,
         TradeBooked(p, o), p \notin parts'
  PROVE  o.qty = position[p].qty /\ position'[p] = NoPosition
<1>1. PICK acc : acc = [position |-> position[p], results |-> results[p]]
  OBVIOUS
<1>2. /\ acc \in BooksType /\ acc.position = position[p] /\ acc.results = results[p]
      /\ position \in [Pairs -> PositionType]
  BY <1>1 DEF HoldInv, BooksType
<1>3. PICK after : after = Processed(acc, o)
  OBVIOUS
<1>4. /\ position[p] \in PositionType /\ position[p].side # "SELL"
      /\ position[p].qty \in Nat /\ o.qty \in Nat \ {0}
  BY PositionFields, FillFields DEF HoldInv
<1>5. position[p].side = "BUY"
  <2>1. position[p].qty # 0
    BY <1>4
  <2> QED BY <1>4, <2>1, PositionFields DEF OrderSides
<1>6. Realizes(position[p], o)
  BY <1>5 DEF Realizes
<1>7. Len(after.results) = Len(results[p]) + 1 /\ Len(results[p]) \in Nat
  BY <1>2, <1>3, <1>6, ProcessedTyped
<1>8. after.position = Updated(position[p], o)
  BY <1>2, <1>3, ProcessedTyped
<1>9. SoldWhole(p, after) /\ position'[p] = after.position
  BY <1>1, <1>2, <1>3 DEF TradeBooked
<1>10. after.position = NoPosition
  BY <1>7, <1>9 DEF SoldWhole
<1>11. Updated(position[p], o).qty = position[p].qty - o.qty
  BY <1>4, <1>5, UpdatedTyped
<1>12. NoPosition.qty = 0
  BY DEF NoPosition
<1>13. position[p].qty - o.qty = 0
  BY <1>8, <1>10, <1>11, <1>12
<1> QED BY <1>4, <1>9, <1>10, <1>13

-----------------------------------------------------------------------------
(* The books of a pair of which no position was sold in parts.              *)

(* What was bought of a pair after an order was made.                       *)
BoughtSince(i, p) == SumFunctionOnSet(Quantity, {j \in FilledOf("BUY", p) : i < j})

(* A sale that waits was made after all that were filled, and sells no more *)
(* than was held then.                                                      *)
SaleIsLast(i, p) ==
    /\ \A j \in FilledOf("SELL", p) : j < i
    /\ orders[i].qty + BoughtSince(i, p) <= position[p].qty

(* The position is restored as it is.                                       *)
Tracked(p) ==
    /\ Restored(p) = position[p]
    /\ \A i \in DOMAIN orders : New(i) /\ orders[i].pair = p => SaleIsLast(i, p)

(* What was won, less what is paid for the positions, is in the wallet.     *)
GainsAddUp ==
    parts = {} =>
        SumFunction([p \in Pairs |-> Profit(p) - position[p].cost]) = QuotePosition - InitQuote

(* What BooksMatchWallet rests on.  That the orders replay in the order of  *)
(* their creation is not inductive without what waits: a sale that fills    *)
(* later was made before what was bought meanwhile, and then it does not    *)
(* sell the whole position.                                                 *)
BooksInv ==
    /\ equity \in Seq(Int)
    /\ \A p \in Pairs : p \notin parts => Tracked(p)
    /\ GainsAddUp

(* A sale stays the last one if nothing fills.                              *)
LEMMA LastKept ==
  ASSUME WalletTypeOK, AmountsKept, NEW p \in Pairs, position'[p] = position[p],
         FilledOf("BUY", p)' = FilledOf("BUY", p), FilledOf("SELL", p)' = FilledOf("SELL", p),
         NEW i \in DOMAIN orders, SaleIsLast(i, p)
  PROVE  SaleIsLast(i, p)'
<1>1. PICK X : X = {j \in FilledOf("BUY", p) : i < j}
  OBVIOUS
<1>2. X \in SUBSET DOMAIN orders
  BY <1>1 DEF FilledOf, Filled
<1>3. SumFunctionOnSet(Quantity', X) = SumFunctionOnSet(Quantity, X)
  BY <1>2, SumsKept
<1>4. BoughtSince(i, p)' = BoughtSince(i, p)
  BY <1>1, <1>3 DEF BoughtSince
<1>5. orders'[i].qty = orders[i].qty
  BY DEF AmountsKept
<1> QED BY <1>4, <1>5 DEF SaleIsLast

(* Nothing is filled, and nothing waits that did not.                       *)
LEMMA TrackedKept ==
  ASSUME MoneyInv, AmountsKept, NEW p \in Pairs, Tracked(p), position'[p] = position[p],
         FillsOf(p)' = FillsOf(p), \A i \in FillsOf(p) : orders'[i] = orders[i]
  PROVE  /\ Restored(p)' = position'[p]
         /\ \A i \in DOMAIN orders : New(i) /\ orders[i].pair = p => SaleIsLast(i, p)'
<1>0. WalletTypeOK
  BY DEF MoneyInv, WalletInv
<1>1. PICK N \in Nat : N = Len(orders) /\ DOMAIN orders = 1..N
  BY <1>0, OrdersTyped
<1>2. /\ FillsOf(p) \in SUBSET (1..N) /\ \A i \in FillsOf(p) : orders[i] \in FillType
      /\ Restored(p) = Replayed(orders, FillsOf(p))
  BY <1>1, FillsTyped
<1>3. Restored(p)' = Replayed(orders', FillsOf(p))
  <2>1. Restored(p)' = Replayed(orders', FillsOf(p)')
    BY DEF Restored, Replayed, FillsOf, MapThenFoldSet
  <2> QED BY <2>1
<1>4. Replayed(orders', FillsOf(p)) = Replayed(orders, FillsOf(p))
  <2>1. PICK S : S = FillsOf(p)
    OBVIOUS
  <2>2. S \in SUBSET (1..N) /\ \A i \in S : orders[i] \in FillType /\ orders'[i] = orders[i]
    BY <1>2, <2>1
  <2> QED BY <2>1, <2>2, ReplayedSame
<1>5. Restored(p)' = position'[p]
  BY <1>2, <1>3, <1>4 DEF Tracked
<1>6. /\ FilledOf("BUY", p)' = FilledOf("BUY", p)
      /\ FilledOf("SELL", p)' = FilledOf("SELL", p)
  <2>1. ASSUME NEW side PROVE FilledOf(side, p)' = FilledOf(side, p)
    <3>1. FilledOf(side, p) = {i \in FillsOf(p) : orders[i].side = side}
      BY DEF FilledOf, Filled, FillsOf
    <3>2. FilledOf(side, p)' = {i \in FillsOf(p)' : orders'[i].side = side}
      BY DEF FilledOf, Filled, FillsOf
    <3>3. PICK S : S = FillsOf(p)
      OBVIOUS
    <3>4. {i \in S : orders'[i].side = side} = {i \in S : orders[i].side = side}
      BY <3>3
    <3> QED BY <3>1, <3>2, <3>3, <3>4
  <2> QED BY <2>1
<1>7. \A i \in DOMAIN orders : New(i) /\ orders[i].pair = p => SaleIsLast(i, p)'
  BY <1>0, <1>6, LastKept DEF Tracked
<1> QED BY <1>5, <1>7

(* One order of the pair is filled, which was made after those before.      *)
LEMMA OneFillTracked ==
  ASSUME MoneyInv, NEW p \in Pairs, Restored(p) = position[p],
         NEW N \in Nat, DOMAIN orders \subseteq 1..N,
         NEW m \in 1..N, \A i \in FillsOf(p) : i < m,
         FillsOf(p)' = FillsOf(p) \cup {m},
         \A i \in FillsOf(p) : orders'[i] = orders[i],
         NEW o \in FillType, orders'[m] = o, position'[p] = Updated(position[p], o)
  PROVE  Restored(p)' = position'[p]
<1>1. PICK S, os : S = FillsOf(p) /\ os = orders'
  OBVIOUS
<1>2. /\ S \in SUBSET (1..N) /\ \A i \in S : orders[i] \in FillType
      /\ Restored(p) = Replayed(orders, S)
  BY <1>1, FillsTyped
<1>3. Restored(p)' = Replayed(os, S \cup {m})
  <2>1. Restored(p)' = Replayed(orders', FillsOf(p)')
    BY DEF Restored, Replayed, FillsOf, MapThenFoldSet
  <2> QED BY <1>1, <2>1
<1>4. os[m] = o /\ \A i \in S : os[i] = orders[i] /\ os[i] \in FillType /\ i < m
  BY <1>1, <1>2
<1>5. Replayed(os, S) = Replayed(orders, S)
  <2>1. \A i \in S : orders[i] \in FillType /\ os[i] = orders[i]
    BY <1>2, <1>4
  <2> QED BY <1>2, <2>1, ReplayedSame
<1>6. Replayed(os, S \cup {m}) = Updated(Replayed(os, S), os[m])
  BY <1>2, <1>4, ReplayedMore
<1> QED BY <1>2, <1>3, <1>4, <1>5, <1>6

(* The gains follow a trade of one pair.                                    *)
LEMMA GainsFollow ==
  ASSUME HoldInv, MoneyInv, HoldInv', GainsAddUp, parts' = {} => parts = {},
         NEW p \in Pairs, NEW d \in Int, QuotePosition' = QuotePosition + d,
         parts' = {} => Profit(p)' - position'[p].cost = (Profit(p) - position[p].cost) + d,
         \A q \in Pairs : q # p => results'[q] = results[q] /\ position'[q] = position[q]
  PROVE  GainsAddUp'
<1> SUFFICES ASSUME parts' = {}
             PROVE  SumFunction([q \in Pairs |-> Profit(q)' - position'[q].cost]) = QuotePosition' - InitQuote
  BY DEF GainsAddUp
<1>1. PICK f, g : /\ f = [q \in Pairs |-> Profit(q) - position[q].cost]
                  /\ g = [q \in Pairs |-> Profit(q)' - position'[q].cost]
  OBVIOUS
<1>2. DOMAIN f = Pairs /\ DOMAIN g = Pairs /\ g[p] = f[p] + d
  BY <1>1
<1>3. \A q \in Pairs : f[q] \in Int /\ (q # p => g[q] = f[q])
  <2> SUFFICES ASSUME NEW q \in Pairs PROVE f[q] \in Int /\ (q # p => g[q] = f[q])
    OBVIOUS
  <2>1. results[q] \in Seq(Int) /\ position[q].cost \in Int
    BY PositionFields DEF HoldInv
  <2>2. PICK r \in Seq(Int) : r = results[q]
    BY <2>1
  <2>3. SumFunction(r) \in Int
    BY 0 \in Int, SumAppend
  <2>4. q # p => Profit(q)' = Profit(q)
    BY DEF Profit
  <2> QED BY <1>1, <2>1, <2>2, <2>3, <2>4 DEF Profit
<1>4. IntOn(f, Pairs) /\ IntOn(g, Pairs) /\ IsFiniteSet(Pairs)
  <2>1. g[p] \in Int
    BY <1>2, <1>3
  <2> QED BY <1>3, <2>1, WalletAssumption DEF IntOn
<1>5. SumFunctionOnSet(g, Pairs) = SumFunctionOnSet(f, Pairs) + (g[p] - f[p])
  BY <1>3, <1>4, SumChange
<1>6. SumFunctionOnSet(f, Pairs) = QuotePosition - InitQuote
  BY <1>1, <1>2 DEF GainsAddUp, SumFunction
<1>7. QuotePosition \in Int /\ InitQuote \in Int /\ f[p] \in Int
  BY <1>3, MoneyTyped, WalletAssumption
<1>8. SumFunctionOnSet(g, Pairs) = QuotePosition' - InitQuote
  BY <1>2, <1>5, <1>6, <1>7
<1> QED BY <1>1, <1>2, <1>8 DEF SumFunction

(* The gains after a trade that moves as much quote as it is worth.         *)
LEMMA GainsOfTrade ==
  ASSUME HoldInv, MoneyInv, HoldInv', GainsAddUp,
         NEW p \in Pairs, NEW o \in FillType, TradeBooked(p, o),
         o.side = "BUY" => TradePrice(o) = o.price,
         o.side = "SELL" => o.qty <= position[p].qty,
         QuotePosition' = QuotePosition + Flow(o)
  PROVE  GainsAddUp'
<1>1. PICK acc : acc = [position |-> position[p], results |-> results[p]]
  OBVIOUS
<1>2. /\ acc \in BooksType /\ acc.position = position[p] /\ acc.results = results[p]
      /\ position \in [Pairs -> PositionType] /\ results \in [Pairs -> Seq(Int)]
      /\ position[p].side # "SELL"
  BY <1>1 DEF HoldInv, BooksType
<1>3. PICK after : after = Processed(acc, o)
  OBVIOUS
<1>4. /\ position' = [position EXCEPT ![p] = after.position]
      /\ results' = [results EXCEPT ![p] = after.results]
      /\ parts' = IF SoldWhole(p, after) THEN parts ELSE parts \cup {p}
  BY <1>1, <1>3 DEF TradeBooked
<1>5. Flow(o) \in Int
  <2>1. PICK x \in Nat, y \in Nat : x = TradePrice(o) /\ y = o.qty
    BY FillFields
  <2> QED BY <2>1 DEF Flow
<1>6. ASSUME parts' = {}
      PROVE  Profit(p)' - position'[p].cost = (Profit(p) - position[p].cost) + Flow(o)
  <2>1. o.side = "SELL" => o.qty = acc.position.qty
    BY <1>2, <1>6, WholeIsSold
  <2>2. Balance(Processed(acc, o)) = Balance(acc) + Flow(o)
    BY <1>2, <2>1, FlowIsBooked
  <2>3. Balance(acc) = Profit(p) - position[p].cost
    BY <1>2 DEF Balance, Profit
  <2>4. position'[p] = after.position /\ results'[p] = after.results
    BY <1>2, <1>4
  <2>5. Balance(after) = Profit(p)' - position'[p].cost
    BY <2>4 DEF Balance, Profit
  <2> QED BY <1>3, <2>2, <2>3, <2>5
<1>7. \A q \in Pairs : q # p => results'[q] = results[q] /\ position'[q] = position[q]
  BY <1>2, <1>4
<1>8. parts' = {} => parts = {}
  BY <1>4
<1> QED BY <1>5, <1>6, <1>7, <1>8, GainsFollow

(* Where nothing is held nothing waits to be sold.                          *)
NothingOnSale ==
    \A p \in Pairs : AssetPosition(p) = 0 =>
        \A i \in DOMAIN orders : ~(New(i) /\ orders[i].pair = p /\ orders[i].side = "SELL")

(* So it is when the books of the wallet are right.                         *)
LEMMA EmptySellsNothing == MoneyInv => NothingOnSale
<1> SUFFICES ASSUME MoneyInv, NEW p \in Pairs, AssetPosition(p) = 0, NEW k \in DOMAIN orders,
                    New(k), orders[k].pair = p, orders[k].side = "SELL"
             PROVE  FALSE
  BY DEF NothingOnSale
<1>0. WalletTypeOK /\ OrdersAreLegs /\ LongOrders /\ Funds
  BY DEF MoneyInv, WalletInv
<1>1. \E i \in WaitingSales(p) : TRUE
  <2>1. CASE \A j \in Siblings(k) : New(j) => k < j
    BY <2>1 DEF WaitingSales, Waiting
  <2>2. CASE \E j \in Siblings(k) : New(j) /\ ~(k < j)
    <3>1. PICK j \in Siblings(k) : New(j) /\ ~(k < j)
      BY <2>2
    <3>2. /\ j \in DOMAIN orders /\ j # k /\ Siblings(j) = {k}
          /\ orders[j].pair = p /\ orders[j].side = "SELL" /\ k \in Int /\ j \in Int
      BY <1>0, <3>1, OneSibling
    <3>3. \A x \in Siblings(j) : j < x
      BY <3>1, <3>2
    <3> QED BY <3>1, <3>2, <3>3 DEF WaitingSales, Waiting
  <2> QED BY <2>1, <2>2
<1>2. PICK i, W : i \in W /\ W = WaitingSales(p)
  BY <1>1
<1>3. W \in SUBSET DOMAIN orders /\ W \ {i} \in SUBSET DOMAIN orders /\ i \in DOMAIN orders
  BY <1>2 DEF WaitingSales, Waiting
<1>4. SumFunctionOnSet(Quantity, W) = Quantity[i] + SumFunctionOnSet(Quantity, W \ {i})
  BY <1>0, <1>2, <1>3, SumsTyped, SumRemove
<1>5. SumFunctionOnSet(Quantity, W \ {i}) \in Nat
  BY <1>0, <1>3, SumsTyped
<1>6. Quantity[i] > 0 /\ Quantity[i] \in Nat
  <2>1. orders[i].qty > 0 /\ orders[i] \in OrderType
    BY <1>0, <1>3 DEF LongOrders, WalletTypeOK
  <2> QED BY <1>3, <2>1 DEF Quantity, OrderType
<1>7. assets[p].lock > 0
  BY <1>0, <1>2, <1>4, <1>5, <1>6 DEF Funds, OnSale
<1>8. assets[p].free \in Nat /\ assets[p].lock \in Nat
  BY MoneyTyped
<1> QED BY <1>7, <1>8 DEF AssetPosition

(* The same after a step.                                                   *)
LEMMA EmptySellsNothingNext == MoneyInv' => NothingOnSale'
BY EmptySellsNothing, PTL

-----------------------------------------------------------------------------
(* The steps.                                                               *)

(* What a candle leaves of the orders of a pair.                            *)
LEMMA CandleHistory ==
  ASSUME MoneyInv, \A i \in DOMAIN orders : New(i) => orders[i].side = "SELL",
         NEW p \in Pairs, NEW c \in Candles, OnCandle(p, c)
  PROVE  /\ AmountsKept /\ DOMAIN orders' = DOMAIN orders
         /\ \A q \in Pairs : \A i \in FillsOf(q) : orders'[i] = orders[i]
         /\ FillsOf(p)' = FillsOf(p) \cup NewlyFilled
         /\ \A q \in Pairs : q # p => FillsOf(q)' = FillsOf(q)
         /\ \A i \in NewlyFilled : /\ i \in DOMAIN orders /\ New(i) /\ orders[i].pair = p
                                   /\ orders[i].side = "SELL"
                                   /\ orders'[i].side = "SELL" /\ orders'[i].qty = orders[i].qty
                                   /\ orders'[i] \in FillType
                                   /\ TradePrice(orders'[i]) = FillPrice(orders[i])
         /\ \A i \in DOMAIN orders : /\ orders'[i].pair = orders[i].pair
                                     /\ orders'[i].status = "NEW" => New(i)
<1>0. /\ WalletInv /\ WalletTypeOK /\ OrdersAreLegs /\ PendingIsIndex /\ LongOrders
  BY DEF MoneyInv, WalletInv
<1>1. PICK fired, sold, gone :
         fired = Fired(p, c) /\ sold = Sold(Fired(p, c)) /\ gone = CancelledBy(Fired(p, c))
  OBVIOUS
<1>2. NewlyFilled = sold /\ Bought(Fired(p, c)) = {}
  BY <1>1, FilledIsSold
<1>3. /\ Kept /\ DOMAIN orders' = DOMAIN orders
      /\ \A i \in DOMAIN orders :
            /\ i \in gone => orders'[i].status = "CANCELED"
            /\ i \in sold => orders'[i].status = "FILLED"
            /\ i \notin fired /\ i \notin gone => orders'[i].status = orders[i].status
            /\ i \in fired => orders'[i].status # "NEW"
  BY <1>0, <1>1, CandleOrders
<1>4. /\ \A i \in sold : /\ i \in DOMAIN orders /\ New(i) /\ orders[i].side = "SELL"
                         /\ orders[i].pair = p
      /\ \A i \in fired : i \in sold
      /\ \A i \in gone : New(i)
  <2>1. \A i \in fired : i \in sold
    BY <1>0, <1>1, <1>2, CandleSides
  <2> QED BY <1>0, <1>1, <2>1, CandleSides
<1>5. \A i \in DOMAIN orders : /\ orders'[i].qty = orders[i].qty /\ orders'[i].side = orders[i].side
                               /\ orders'[i].price = orders[i].price /\ orders'[i].pair = orders[i].pair
                               /\ FillPrice(orders'[i]) = FillPrice(orders[i])
  BY <1>0, <1>3, KeptFields
<1>6. AmountsKept
  BY <1>0, <1>3, KeptAmounts
<1>7. ASSUME NEW i \in DOMAIN orders
      PROVE  orders'[i].status = "FILLED" <=> orders[i].status = "FILLED" \/ i \in sold
  BY <1>3, <1>4 DEF New
<1>8. ASSUME NEW i \in DOMAIN orders, orders[i].status = "FILLED" PROVE orders'[i] = orders[i]
  <2>1. orders'[i] = [orders[i] EXCEPT !.status = orders'[i].status]
    BY <1>3 DEF Kept
  <2>2. orders'[i].status = orders[i].status
    BY <1>7, <1>8
  <2>3. orders[i] \in OrderType
    BY <1>0 DEF WalletTypeOK
  <2> QED BY <2>1, <2>2, <2>3 DEF OrderType
<1>9. \A q \in Pairs : \A i \in FillsOf(q) : orders'[i] = orders[i]
  BY <1>8 DEF FillsOf
<1>10. ASSUME NEW q \in Pairs
       PROVE  FillsOf(q)' = FillsOf(q) \cup {i \in sold : q = p}
  <2>1. FillsOf(q)' = {i \in DOMAIN orders : orders'[i].pair = q /\ orders'[i].status = "FILLED"}
    BY <1>3 DEF FillsOf
  <2>2. \A i : i \in FillsOf(q)' <=> i \in FillsOf(q) \cup {j \in sold : q = p}
    BY <1>4, <1>5, <1>7, <2>1 DEF FillsOf
  <2> QED BY <2>2
<1>11. ASSUME NEW i \in sold
       PROVE  orders'[i] \in FillType /\ TradePrice(orders'[i]) = FillPrice(orders[i])
  <2>1. PICK o : o = orders'[i]
    OBVIOUS
  <2>2. i \in DOMAIN orders /\ o.side = "SELL" /\ o.qty = orders[i].qty /\ orders[i].qty > 0
    BY <1>0, <1>4, <1>5, <2>1 DEF LongOrders
  <2>3. o \in OrderType
    <3>1. WalletTypeOK'
      BY <1>0, CandleTyped
    <3> QED BY <1>3, <2>1, <2>2, <3>1 DEF WalletTypeOK
  <2>4. TradePrice(o) = FillPrice(o)
    BY <2>2 DEF TradePrice, FillPrice
  <2> QED BY <1>5, <2>1, <2>2, <2>3, <2>4 DEF FillType
<1>12. /\ FillsOf(p)' = FillsOf(p) \cup NewlyFilled
       /\ \A q \in Pairs : q # p => FillsOf(q)' = FillsOf(q)
  <2>1. {i \in sold : p = p} = sold
    OBVIOUS
  <2>2. ASSUME NEW q \in Pairs, q # p PROVE FillsOf(q)' = FillsOf(q)
    <3>1. {i \in sold : q = p} = {}
      BY <2>2
    <3>2. FillsOf(q)' = FillsOf(q) \cup {i \in sold : q = p}
      BY <1>10
    <3> QED BY <3>1, <3>2
  <2> QED BY <1>2, <1>10, <2>1, <2>2
<1>13. \A i \in DOMAIN orders : orders'[i].status = "NEW" => New(i)
  BY <1>3, <1>4 DEF New
<1>14. \A i \in NewlyFilled : /\ i \in DOMAIN orders /\ New(i) /\ orders[i].pair = p
                              /\ orders[i].side = "SELL"
                              /\ orders'[i].side = "SELL" /\ orders'[i].qty = orders[i].qty
                              /\ orders'[i] \in FillType
                              /\ TradePrice(orders'[i]) = FillPrice(orders[i])
  BY <1>2, <1>4, <1>5, <1>11
<1> QED BY <1>3, <1>5, <1>6, <1>9, <1>12, <1>13, <1>14

(* If of the pair nothing was ever sold in parts, a candle sells nothing of *)
(* it or all at once.                                                       *)
LEMMA CandleWhole ==
  ASSUME MoneyInv, HoldInv, \A i \in DOMAIN orders : New(i) => orders[i].side = "SELL",
         NEW p \in Pairs, NEW c \in Candles, OnCandle(p, c),
         ProcessTrades(p, LET ids == ById(NewlyFilled) IN [k \in DOMAIN ids |-> orders'[ids[k]]]),
         p \notin parts'
  PROVE  \/ NewlyFilled = {} /\ position'[p] = position[p] /\ results'[p] = results[p]
         \/ \E i \in DOMAIN orders :
               /\ NewlyFilled = {i} /\ orders[i].qty = position[p].qty
               /\ TradeBooked(p, orders'[i]) /\ position'[p] = NoPosition
<1>0. /\ WalletTypeOK /\ position \in [Pairs -> PositionType] /\ results \in [Pairs -> Seq(Int)]
  BY DEF MoneyInv, WalletInv, HoldInv
<1>1. PICK n \in Nat : \E ids \in [1..n -> NewlyFilled] :
         \E acc \in [0..n -> BooksType] : SalesBooked(p, n, ids, acc)
  BY CandleFills
<1>2. PICK ids \in [1..n -> NewlyFilled] : \E acc \in [0..n -> BooksType] : SalesBooked(p, n, ids, acc)
  BY <1>1
<1>3. PICK acc \in [0..n -> BooksType] : SalesBooked(p, n, ids, acc)
  BY <1>2
<1>4. PICK after : after = acc[n]
  OBVIOUS
<1>5. /\ acc[0] = [position |-> position[p], results |-> results[p]]
      /\ \A k \in 1..n : acc[k] = Processed(acc[k - 1], orders'[ids[k]])
      /\ position' = [position EXCEPT ![p] = after.position]
      /\ results' = [results EXCEPT ![p] = after.results]
      /\ parts' = IF SoldWhole(p, after) THEN parts ELSE parts \cup {p}
      /\ after.position.qty = position[p].qty - SumFunctionOnSet(Quantity, NewlyFilled)
      /\ Len(after.results) = Len(results[p]) + n
      /\ ids = ById(NewlyFilled)
  BY <1>3, <1>4 DEF SalesBooked
<1>6. SoldWhole(p, after)
  BY <1>5
<1>7. Len(results[p]) \in Nat /\ position[p] \in PositionType /\ position[p].qty \in Nat
  BY <1>0, PositionFields
<1>8. \/ n = 0
      \/ n = 1 /\ after.position = NoPosition
  BY <1>5, <1>6, <1>7 DEF SoldWhole
<1>9. \A x \in NewlyFilled : \E k \in 1..n : ids[k] = x
  <2>1. PICK N \in Nat : N = Len(orders) /\ DOMAIN orders = 1..N
    BY <1>0, OrdersTyped
  <2>2. NewlyFilled \in SUBSET (1..N)
    BY <2>1 DEF NewlyFilled
  <2>3. PICK S : S = NewlyFilled
    OBVIOUS
  <2>4. /\ ById(S) \in [1..Cardinality(S) -> S]
        /\ \A x \in S : \E k \in 1..Cardinality(S) : ById(S)[k] = x
    BY <2>1, <2>2, <2>3, AllById
  <2>5. 1..Cardinality(S) = 1..n
    BY <1>5, <2>3, <2>4
  <2> QED BY <1>5, <2>3, <2>4, <2>5
<1>10. position'[p] = after.position /\ results'[p] = after.results
  BY <1>0, <1>5
<1>11. CASE n = 0
  <2>1. NewlyFilled = {}
    BY <1>9, <1>11
  <2>2. after = [position |-> position[p], results |-> results[p]]
    BY <1>4, <1>5, <1>11
  <2> QED BY <1>10, <2>1, <2>2
<1>12. CASE n = 1 /\ after.position = NoPosition
  <2>1. 1 \in 1..n
    BY <1>12
  <2>2. PICK i : i = ids[1]
    OBVIOUS
  <2>3. i \in NewlyFilled /\ i \in DOMAIN orders
    BY <2>1, <2>2 DEF NewlyFilled
  <2>4. NewlyFilled = {i}
    <3>1. \A k \in 1..n : k = 1
      BY <1>12
    <3> QED BY <1>9, <2>2, <2>3, <3>1
  <2>5. after = Processed([position |-> position[p], results |-> results[p]], orders'[i])
    <3>1. acc[1] = Processed(acc[1 - 1], orders'[ids[1]])
      BY <1>5, <2>1
    <3>2. acc[1 - 1] = acc[0] /\ acc[n] = acc[1]
      BY <1>12
    <3> QED BY <1>4, <1>5, <2>2, <3>1, <3>2
  <2>6. TradeBooked(p, orders'[i])
    BY <1>5, <2>5 DEF TradeBooked
  <2>7. orders[i].qty = position[p].qty
    <3>1. PICK X : X = {i}
      OBVIOUS
    <3>2. X \in SUBSET DOMAIN orders /\ {} \in SUBSET DOMAIN orders /\ X \ {i} = {} /\ i \in X
      BY <2>3, <3>1
    <3>3. SumFunctionOnSet(Quantity, X) = Quantity[i] + SumFunctionOnSet(Quantity, X \ {i})
      BY <1>0, <3>2, SumsTyped, SumRemove
    <3>4. SumFunctionOnSet(Quantity, X \ {i}) = 0
      BY <3>2, SumEmpty
    <3>5. Quantity[i] = orders[i].qty /\ orders[i].qty \in Nat
      <4>1. orders[i] \in OrderType
        BY <1>0, <2>3 DEF WalletTypeOK
      <4> QED BY <2>3, <4>1 DEF Quantity, OrderType
    <3>6. SumFunctionOnSet(Quantity, NewlyFilled) = orders[i].qty
      BY <2>4, <3>1, <3>3, <3>4, <3>5
    <3>7. NoPosition.qty = 0
      BY DEF NoPosition
    <3>8. 0 = position[p].qty - orders[i].qty
      BY <1>5, <1>12, <3>6, <3>7
    <3> QED BY <1>7, <3>5, <3>8
  <2> QED BY <1>10, <1>12, <2>3, <2>4, <2>6, <2>7
<1> QED BY <1>8, <1>11, <1>12

(* A trade at the market adds one fill, the last one.                       *)
LEMMA OneMoreFill ==
  ASSUME MoneyInv, NEW p \in Pairs, NEW o \in FillType, Trade(p, o)
  PROVE  \E N \in Nat : \E m \in 1..N :
            /\ DOMAIN orders \subseteq 1..N /\ DOMAIN orders' = DOMAIN orders \cup {m}
            /\ \A i \in DOMAIN orders : i < m /\ orders'[i] = orders[i]
            /\ orders'[m] = o /\ AmountsKept
            /\ FillsOf(p)' = FillsOf(p) \cup {m}
            /\ \A q \in Pairs : q # p => FillsOf(q)' = FillsOf(q)
<1>0. WalletTypeOK /\ o \in OrderType /\ o.pair = p /\ o.status = "FILLED"
  BY DEF MoneyInv, WalletInv, FillType, Trade
<1>1. PICK m : m = NextIndex(1)
  OBVIOUS
<1>2. Grown({m}) /\ orders'[m] = o
  BY <1>0, <1>1, TradeTyped
<1>3. PICK n \in Nat : n = Len(orders) /\ DOMAIN orders = 1..n
  BY <1>0, OrdersTyped
<1>4. m = n + 1
  BY <1>1, <1>3 DEF NextIndex
<1>5. /\ DOMAIN orders' = DOMAIN orders \cup {m} /\ m \notin DOMAIN orders
      /\ \A i \in DOMAIN orders : i < m /\ orders'[i] = orders[i]
  BY <1>2, <1>3, <1>4 DEF Grown
<1>6. AmountsKept
  BY <1>5 DEF AmountsKept
<1>7. ASSUME NEW q \in Pairs
      PROVE  FillsOf(q)' = {i \in DOMAIN orders \cup {m} : orders'[i].pair = q /\ orders'[i].status = "FILLED"}
  BY <1>5 DEF FillsOf
<1>8. FillsOf(p)' = FillsOf(p) \cup {m}
  <2>1. \A i : i \in FillsOf(p)' <=> i \in FillsOf(p) \cup {m}
    BY <1>0, <1>2, <1>5, <1>7 DEF FillsOf
  <2> QED BY <2>1
<1>9. \A q \in Pairs : q # p => FillsOf(q)' = FillsOf(q)
  <2> SUFFICES ASSUME NEW q \in Pairs, q # p PROVE FillsOf(q)' = FillsOf(q)
    OBVIOUS
  <2>1. \A i : i \in FillsOf(q)' <=> i \in FillsOf(q)
    BY <1>0, <1>2, <1>5, <1>7 DEF FillsOf
  <2> QED BY <2>1
<1>10. n + 1 \in Nat /\ m \in 1..(n + 1) /\ DOMAIN orders \subseteq 1..(n + 1)
  BY <1>3, <1>4
<1> QED BY <1>2, <1>5, <1>6, <1>8, <1>9, <1>10

(* A trade at the market moves as much quote as it is worth.                *)
LEMMA MarketFlow ==
  ASSUME MoneyInv, MoneyInv', NEW p \in Pairs, NEW o \in FillType, Trade(p, o),
         TradePrice(o) = o.price, o.side = "SELL" => o.qty <= assets[p].free
  PROVE  QuotePosition' = QuotePosition + Flow(o)
<1>1. /\ WalletTypeOK /\ FillFunds(p, o.side, o.qty, o.price)
      /\ o.side \in OrderSides /\ o.qty \in Nat /\ o.price \in Nat /\ assets[p].free >= 0
  <2>1. WalletTypeOK /\ assets[p].free \in Nat
    BY MoneyTyped
  <2>2. assets[p].free >= 0
    BY <2>1
  <2> QED BY <2>1, <2>2, FillFields DEF Trade
<1>2. PICK side \in OrderSides, qty \in Nat, price \in Nat :
         side = o.side /\ qty = o.qty /\ price = o.price
  BY <1>1
<1>3. /\ quote'.free = quote.free + (IF side = "BUY" THEN 0 - qty * price ELSE qty * price)
      /\ quote'.lock = quote.lock
  BY <1>1, <1>2, LongFill
<1>4. PICK worth \in Int : worth = qty * price
  OBVIOUS
<1>5. Flow(o) = IF side = "BUY" THEN 0 - worth ELSE worth
  <2>1. price * qty = qty * price
    OBVIOUS
  <2> QED BY <1>2, <1>4, <2>1 DEF Flow
<1>6. quote.free \in Nat /\ quote.lock \in Nat
  BY MoneyTyped
<1> QED BY <1>3, <1>4, <1>5, <1>6 DEF QuotePosition

(* A trade at the market, of what is free, keeps the books of its pair: a   *)
(* sale is the last one, and there is none that waits.                      *)
LEMMA MarketTracked ==
  ASSUME MoneyInv, HoldInv, MoneyInv', NEW p \in Pairs, Tracked(p), NEW o \in FillType,
         Trade(p, o), TradeBooked(p, o), position'[p] = Updated(position[p], o),
         o.side = "SELL" => \A i \in DOMAIN orders : ~New(i)
  PROVE  Tracked(p)'
<1>0. WalletTypeOK /\ WalletTypeOK'
  BY DEF MoneyInv, WalletInv
<1>1. PICK N \in Nat : \E m \in 1..N :
            /\ DOMAIN orders \subseteq 1..N /\ DOMAIN orders' = DOMAIN orders \cup {m}
            /\ \A i \in DOMAIN orders : i < m /\ orders'[i] = orders[i]
            /\ orders'[m] = o /\ AmountsKept
            /\ FillsOf(p)' = FillsOf(p) \cup {m}
  BY OneMoreFill
<1>2. PICK m \in 1..N :
            /\ DOMAIN orders \subseteq 1..N /\ DOMAIN orders' = DOMAIN orders \cup {m}
            /\ \A i \in DOMAIN orders : i < m /\ orders'[i] = orders[i]
            /\ orders'[m] = o /\ AmountsKept
            /\ FillsOf(p)' = FillsOf(p) \cup {m}
  BY <1>1
<1>3. FillsOf(p) \in SUBSET DOMAIN orders
  BY FillsTyped
<1>4. Restored(p)' = position'[p]
  <2>1. \A i \in FillsOf(p) : i < m /\ orders'[i] = orders[i]
    BY <1>2, <1>3
  <2> QED BY <1>2, <2>1, OneFillTracked DEF Tracked
<1>5. ASSUME NEW i \in DOMAIN orders', orders'[i].status = "NEW", orders'[i].pair = p
      PROVE  SaleIsLast(i, p)'
  <2>1. o.status = "FILLED" /\ o.pair = p /\ o.qty \in Nat /\ o.side \in OrderSides
    BY FillFields DEF Trade
  <2>2. i \in DOMAIN orders /\ New(i) /\ orders[i].pair = p /\ orders'[i].qty = orders[i].qty
    BY <1>2, <1>5, <2>1 DEF New
  <2>3. o.side = "BUY"
    BY <2>1, <2>2 DEF OrderSides
  <2>4. SaleIsLast(i, p)
    BY <2>2 DEF Tracked
  <2>5. ASSUME NEW side
        PROVE  FilledOf(side, p)' = FilledOf(side, p) \cup {j \in {m} : side = "BUY"}
    <3>1. FilledOf(side, p)' = {j \in FillsOf(p)' : orders'[j].side = side}
      BY DEF FilledOf, Filled, FillsOf
    <3>2. FilledOf(side, p) = {j \in FillsOf(p) : orders[j].side = side}
      BY DEF FilledOf, Filled, FillsOf
    <3>3. \A j : j \in FilledOf(side, p)' <=> j \in FilledOf(side, p) \cup {k \in {m} : side = "BUY"}
      BY <1>2, <1>3, <2>3, <3>1, <3>2
    <3> QED BY <3>3
  <2>6. FilledOf("SELL", p)' = FilledOf("SELL", p)
    <3>1. {k \in {m} : "SELL" = "BUY"} = {}
      OBVIOUS
    <3> QED BY <2>5, <3>1
  <2>7. PICK X : X = {j \in FilledOf("BUY", p) : i < j}
    OBVIOUS
  <2>8. X \in SUBSET DOMAIN orders
    BY <2>7 DEF FilledOf, Filled
  <2>9. {j \in FilledOf("BUY", p)' : i < j} = X \cup {m}
    <3>1. FilledOf("BUY", p)' = FilledOf("BUY", p) \cup {m}
      <4>1. {k \in {m} : "BUY" = "BUY"} = {m}
        OBVIOUS
      <4> QED BY <2>5, <4>1
    <3>2. i < m
      BY <1>2, <2>2
    <3> QED BY <2>7, <3>1, <3>2
  <2>10. m \in DOMAIN orders' /\ m \notin DOMAIN orders
    BY <1>2
  <2>11. SumFunctionOnSet(Quantity', X \cup {m}) = SumFunctionOnSet(Quantity, X) + o.qty
    BY <1>0, <1>2, <2>8, <2>10, SumsGrow
  <2>12. BoughtSince(i, p)' = BoughtSince(i, p) + o.qty /\ BoughtSince(i, p) \in Nat
    <3>1. BoughtSince(i, p)' = SumFunctionOnSet(Quantity', {j \in FilledOf("BUY", p)' : i < j})
      BY DEF BoughtSince
    <3>2. SumFunctionOnSet(Quantity, X) \in Nat
      BY <1>0, <2>8, SumsTyped
    <3> QED BY <2>7, <2>9, <2>11, <3>1, <3>2 DEF BoughtSince
  <2>13. position'[p].qty = position[p].qty + o.qty /\ position[p].qty \in Nat
    <3>1. position[p] \in PositionType /\ position[p].side # "SELL"
      BY DEF HoldInv
    <3>2. position[p].side \in {"none", "BUY"} /\ position[p].qty \in Nat
      BY <3>1, PositionFields DEF OrderSides
    <3>3. Updated(position[p], o).qty = position[p].qty + o.qty
      BY <2>3, <3>1, <3>2, UpdatedTyped
    <3> QED BY <3>2, <3>3
  <2>14. orders[i].qty \in Nat
    <3>1. orders[i] \in OrderType
      BY <1>0, <2>2 DEF WalletTypeOK
    <3> QED BY <3>1 DEF OrderType
  <2>15. orders[i].qty + BoughtSince(i, p) <= position[p].qty /\ \A j \in FilledOf("SELL", p) : j < i
    BY <2>4 DEF SaleIsLast
  <2>16. orders'[i].qty + BoughtSince(i, p)' <= position'[p].qty
    BY <2>1, <2>2, <2>12, <2>13, <2>14, <2>15
  <2>17. \A j \in FilledOf("SELL", p)' : j < i
    BY <2>6, <2>15
  <2> QED BY <2>16, <2>17 DEF SaleIsLast
<1> QED BY <1>4, <1>5 DEF Tracked, New

(* A pair of which nothing fills, and nothing waits that did not.           *)
LEMMA StillTracked ==
  ASSUME MoneyInv, AmountsKept, NEW p \in Pairs, Tracked(p), position'[p] = position[p],
         FillsOf(p)' = FillsOf(p), \A i \in FillsOf(p) : orders'[i] = orders[i],
         \A i \in DOMAIN orders' : orders'[i].status = "NEW" /\ orders'[i].pair = p
            => i \in DOMAIN orders /\ New(i) /\ orders[i].pair = p
  PROVE  Tracked(p)'
<1>1. Restored(p)' = position'[p]
  BY TrackedKept
<1>2. \A i \in DOMAIN orders : New(i) /\ orders[i].pair = p => SaleIsLast(i, p)'
  BY TrackedKept
<1>3. ASSUME NEW i \in DOMAIN orders', orders'[i].status = "NEW", orders'[i].pair = p
      PROVE  SaleIsLast(i, p)'
  BY <1>2, <1>3
<1> QED BY <1>1, <1>3 DEF Tracked, New

(* A trade of a strategy keeps the books.                                   *)
LEMMA BooksMarket ==
  ASSUME MoneyInv, HoldInv, BooksInv, NEW p \in Pairs, NEW side \in OrderSides, NEW size \in Nat,
         Market(p, side, size), equity' = equity,
         side = "SELL" => size <= assets[p].free /\ \A i \in DOMAIN orders : ~New(i)
  PROVE  BooksInv'
<1>0. WalletTypeOK
  BY DEF MoneyInv, WalletInv
<1>1. PICK o \in FillType :
            /\ Trade(p, o) /\ o.side = side /\ o.qty = size /\ o.price = last[p]
            /\ TradePrice(o) = o.price /\ TradeBooked(p, o)
  BY MarketFill
<1>2. /\ MoneyInv' /\ HoldInv' /\ \A q \in Pairs : q # p => position'[q] = position[q]
  BY MarketTrades
<1>3. PICK N \in Nat : \E m \in 1..N :
            /\ DOMAIN orders \subseteq 1..N /\ DOMAIN orders' = DOMAIN orders \cup {m}
            /\ \A i \in DOMAIN orders : i < m /\ orders'[i] = orders[i]
            /\ orders'[m] = o /\ AmountsKept
            /\ FillsOf(p)' = FillsOf(p) \cup {m}
            /\ \A q \in Pairs : q # p => FillsOf(q)' = FillsOf(q)
  BY <1>1, OneMoreFill
<1>4. PICK m \in 1..N :
            /\ DOMAIN orders' = DOMAIN orders \cup {m}
            /\ \A i \in DOMAIN orders : i < m /\ orders'[i] = orders[i]
            /\ orders'[m] = o /\ AmountsKept
            /\ \A q \in Pairs : q # p => FillsOf(q)' = FillsOf(q)
  BY <1>3
<1>5. PICK acc : acc = [position |-> position[p], results |-> results[p]]
  OBVIOUS
<1>6. /\ acc \in BooksType /\ acc.position = position[p]
      /\ position \in [Pairs -> PositionType]
  BY <1>5 DEF HoldInv, BooksType
<1>7. /\ position' = [position EXCEPT ![p] = Processed(acc, o).position]
      /\ parts \subseteq parts'
  BY <1>1, <1>5 DEF TradeBooked
<1>8. position'[p] = Updated(position[p], o)
  <2>1. Processed(acc, o).position = Updated(position[p], o)
    BY <1>6, ProcessedTyped
  <2> QED BY <1>6, <1>7, <2>1
<1>9. GainsAddUp'
  <2>1. QuotePosition' = QuotePosition + Flow(o)
    BY <1>1, <1>2, MarketFlow
  <2>2. o.side = "SELL" => o.qty <= position[p].qty
    <3>1. assets[p].free \in Nat /\ assets[p].lock \in Nat
      BY MoneyTyped
    <3>2. position[p].qty = assets[p].free + assets[p].lock
      BY DEF HoldInv, AssetPosition
    <3> QED BY <1>1, <3>1, <3>2
  <2> QED BY <1>1, <1>2, <2>1, <2>2, GainsOfTrade DEF BooksInv
<1>10. ASSUME NEW q \in Pairs, q \notin parts' PROVE Tracked(q)'
  <2>1. Tracked(q)
    BY <1>7, <1>10 DEF BooksInv
  <2>2. CASE q = p
    BY <1>1, <1>2, <1>8, <2>1, <2>2, MarketTracked
  <2>3. CASE q # p
    <3>1. FillsOf(q)' = FillsOf(q) /\ \A i \in FillsOf(q) : orders'[i] = orders[i]
      <4>1. FillsOf(q) \in SUBSET DOMAIN orders
        BY FillsTyped
      <4> QED BY <1>4, <2>3, <4>1
    <3>2. ASSUME NEW i \in DOMAIN orders', orders'[i].status = "NEW", orders'[i].pair = q
          PROVE  i \in DOMAIN orders /\ New(i) /\ orders[i].pair = q
      <4>1. o.pair = p
        BY <1>1 DEF Trade
      <4> QED BY <1>4, <2>3, <3>2, <4>1 DEF New
    <3> QED BY <1>2, <1>4, <2>1, <2>3, <3>1, <3>2, StillTracked
  <2> QED BY <2>2, <2>3
<1>11. equity' \in Seq(Int)
  BY DEF BooksInv
<1> QED BY <1>9, <1>10, <1>11 DEF BooksInv

(* A step that leaves the wallet, the books and the equity alone.           *)
LEMMA BooksKept ==
  ASSUME MoneyInv, BooksInv, UNCHANGED walletVars, UNCHANGED books, equity' = equity
  PROVE  BooksInv'
<1>1. orders' = orders /\ quote' = quote /\ position' = position /\ results' = results /\ parts' = parts
  BY DEF walletVars, balVars, books
<1>2. AmountsKept
  BY <1>1 DEF AmountsKept
<1>3. ASSUME NEW q \in Pairs, q \notin parts' PROVE Tracked(q)'
  <2>1. Tracked(q)
    BY <1>1, <1>3 DEF BooksInv
  <2>2. FillsOf(q)' = FillsOf(q)
    BY <1>1 DEF FillsOf
  <2> QED BY <1>1, <1>2, <2>1, <2>2, StillTracked DEF New
<1>4. GainsAddUp'
  <2>1. QuotePosition' = QuotePosition /\ \A q \in Pairs : Profit(q)' = Profit(q)
    BY <1>1 DEF QuotePosition, Profit
  <2>2. [q \in Pairs |-> Profit(q)' - position'[q].cost] = [q \in Pairs |-> Profit(q) - position[q].cost]
    BY <1>1, <2>1
  <2>3. GainsAddUp
    BY DEF BooksInv
  <2> QED BY <1>1, <2>1, <2>2, <2>3 DEF GainsAddUp
<1> QED BY <1>3, <1>4 DEF BooksInv

(* The legs of an exit are made after everything that filled, and sell no   *)
(* more than is held.                                                       *)
LEMMA BooksExit ==
  ASSUME TradeInv, BooksInv, PlaceExit
  PROVE  BooksInv'
<1>r. CASE UNCHANGED walletVars
  BY <1>r, BooksKept DEF PlaceExit, chart, TradeInv
<1>s. SUFFICES ASSUME CreateOrderOCO(exit.pair, "SELL", exit.size, exit.price, exit.stop, exit.stop)
               PROVE  BooksInv'
  BY <1>r DEF PlaceExit
<1>1. MoneyInv /\ HoldInv /\ ExitInv /\ WalletTypeOK
  BY DEF TradeInv, MoneyInv, WalletInv
<1>2. PICK p, size, price, stop :
         p = exit.pair /\ size = exit.size /\ price = exit.price /\ stop = exit.stop
  OBVIOUS
<1>3. /\ p \in Pairs /\ size \in Nat /\ size # 0 /\ price \in Nat /\ stop \in Nat
      /\ size <= assets[p].free /\ assets[p].free \in Nat /\ assets[p].lock \in Nat
  <2>1. exit \in ExitType /\ exit.size <= assets[exit.pair].free
    BY <1>1 DEF PlaceExit, ExitInv
  <2> QED BY <1>1, <1>2, <2>1, MoneyTyped DEF ExitType
<1>4. /\ CreateOrderOCO(p, "SELL", size, price, stop, stop)
      /\ UNCHANGED books /\ equity' = equity
  BY <1>s, <1>2 DEF PlaceExit, chart
<1>5. PICK o \in OrderType, l \in OrderType :
         PlaceTwo(p, o, l) /\ o.side = "SELL" /\ o.qty = size /\ LegsSell(o, l)
  BY <1>1, <1>3, <1>4, OcoIsPlaced DEF OrderSides
<1>6. PICK n \in Nat : n = Len(orders) /\ DOMAIN orders = 1..n
  BY <1>1, OrdersTyped
<1>7. /\ Grown({n + 1, n + 2}) /\ orders'[n + 1] = o /\ orders'[n + 2] = l
  BY <1>1, <1>3, <1>5, <1>6, PlaceTwoTyped DEF NextIndex
<1>8. /\ DOMAIN orders' = DOMAIN orders \cup {n + 1, n + 2}
      /\ \A i \in DOMAIN orders : orders'[i] = orders[i]
      /\ \A i \in {n + 1, n + 2} : /\ orders'[i].pair = p /\ orders'[i].status = "NEW"
                                   /\ orders'[i].qty = size
                                   /\ i \notin DOMAIN orders /\ \A j \in DOMAIN orders : j < i
  <2>1. \A x \in {o, l} : x.pair = p /\ x.status = "NEW" /\ x.qty = size
    BY <1>5 DEF PlaceTwo
  <2> QED BY <1>6, <1>7, <2>1 DEF Grown
<1>9. AmountsKept
  BY <1>8 DEF AmountsKept
<1>10. position' = position /\ results' = results /\ parts' = parts
  BY <1>4 DEF books
<1>11. ASSUME NEW q \in Pairs
       PROVE  /\ FillsOf(q)' = FillsOf(q) /\ \A i \in FillsOf(q) : orders'[i] = orders[i]
              /\ \A side : FilledOf(side, q)' = FilledOf(side, q)
  <2>1. \A i : i \in FillsOf(q)' <=> i \in FillsOf(q)
    BY <1>8 DEF FillsOf
  <2>2. ASSUME NEW side PROVE FilledOf(side, q)' = FilledOf(side, q)
    <3>1. \A i : i \in FilledOf(side, q)' <=> i \in FilledOf(side, q)
      BY <1>8 DEF FilledOf, Filled
    <3> QED BY <3>1
  <2>3. \A i \in FillsOf(q) : orders'[i] = orders[i]
    BY <1>8 DEF FillsOf
  <2> QED BY <2>1, <2>2, <2>3
<1>12. ASSUME NEW q \in Pairs, q \notin parts' PROVE Tracked(q)'
  <2>1. Tracked(q) /\ position'[q] = position[q]
    BY <1>10, <1>12 DEF BooksInv
  <2>2. /\ Restored(q)' = position'[q]
        /\ \A i \in DOMAIN orders : New(i) /\ orders[i].pair = q => SaleIsLast(i, q)'
    BY <1>1, <1>9, <1>11, <2>1, TrackedKept
  <2>3. ASSUME NEW i \in DOMAIN orders', orders'[i].status = "NEW", orders'[i].pair = q
        PROVE  SaleIsLast(i, q)'
    <3>1. CASE i \in DOMAIN orders
      BY <1>8, <2>2, <2>3, <3>1 DEF New
    <3>2. CASE i \in {n + 1, n + 2}
      <4>1. q = p /\ orders'[i].qty = size
        BY <1>8, <2>3, <3>2
      <4>2. FilledOf("BUY", q) \in SUBSET DOMAIN orders /\ FilledOf("SELL", q) \in SUBSET DOMAIN orders
        BY DEF FilledOf, Filled
      <4>3. {j \in FilledOf("BUY", q)' : i < j} = {}
        <5>1. i \in Nat /\ \A j \in DOMAIN orders : j \in Nat /\ j < i
          BY <1>6, <1>8, <3>2
        <5>2. \A j \in DOMAIN orders : ~(i < j)
          BY <5>1
        <5> QED BY <1>11, <4>2, <5>2
      <4>4. BoughtSince(i, q)' = 0
        <5>1. BoughtSince(i, q)' = SumFunctionOnSet(Quantity', {j \in FilledOf("BUY", q)' : i < j})
          BY DEF BoughtSince
        <5> QED BY <4>3, <5>1, SumEmpty
      <4>5. size <= position'[q].qty
        <5>1. position[p].qty = assets[p].free + assets[p].lock
          BY <1>1, <1>3 DEF HoldInv, AssetPosition
        <5> QED BY <1>3, <1>10, <4>1, <5>1
      <4>6. \A j \in FilledOf("SELL", q)' : j < i
        BY <1>8, <1>11, <3>2, <4>2
      <4>7. orders'[i].qty + BoughtSince(i, q)' <= position'[q].qty
        BY <1>3, <4>1, <4>4, <4>5
      <4> QED BY <4>6, <4>7 DEF SaleIsLast
    <3> QED BY <1>8, <3>1, <3>2
  <2> QED BY <2>2, <2>3 DEF Tracked, New
<1>13. GainsAddUp'
  <2>1. QuotePosition' = QuotePosition
    <3>1. LockFunds(p, "SELL", size, price)
      BY <1>4 DEF CreateOrderOCO
    <3>2. assets[p].free >= 0
      BY <1>3
    <3>3. quote'.free = quote.free - 0 /\ quote'.lock = quote.lock + 0
      BY <1>1, <1>3, <3>1, <3>2, LongLock DEF OrderSides
    <3>4. quote.free \in Nat /\ quote.lock \in Nat
      BY <1>1, MoneyTyped
    <3> QED BY <3>3, <3>4 DEF QuotePosition
  <2>2. \A q \in Pairs : Profit(q)' = Profit(q)
    BY <1>10 DEF Profit
  <2>3. [q \in Pairs |-> Profit(q)' - position'[q].cost] = [q \in Pairs |-> Profit(q) - position[q].cost]
    BY <1>10, <2>2
  <2>4. GainsAddUp
    BY DEF BooksInv
  <2> QED BY <1>10, <2>1, <2>3, <2>4 DEF GainsAddUp
<1>14. equity' \in Seq(Int)
  BY <1>4 DEF BooksInv
<1> QED BY <1>12, <1>13, <1>14 DEF BooksInv

(* What the wallet is worth is a number.                                    *)
WorthIsInt == Worth \in Int

(* So it is when the books of the wallet are right.                         *)
LEMMA WorthTyped == MoneyInv => WorthIsInt
<1> SUFFICES ASSUME MoneyInv PROVE Worth \in Int
  BY DEF WorthIsInt
<1>1. PICK f : f = [p \in Pairs |-> AssetPosition(p) * last[p]]
  OBVIOUS
<1>2. QuotePosition \in Nat /\ \A p \in Pairs : AssetPosition(p) \in Nat /\ last[p] \in Nat
  BY MoneyTyped
<1>3. \A x, y \in Nat : x * y \in Int
  OBVIOUS
<1>4. IntOn(f, Pairs) /\ IsFiniteSet(Pairs) /\ DOMAIN f = Pairs
  BY <1>1, <1>2, <1>3, WalletAssumption DEF IntOn
<1>5. SumFunctionOnSet(f, Pairs) \in Int
  BY <1>4, SumTaken
<1>6. SumFunction(f) = SumFunctionOnSet(f, Pairs)
  BY <1>4 DEF SumFunction
<1> QED BY <1>1, <1>2, <1>5, <1>6 DEF Worth

(* The same after a step.                                                   *)
LEMMA WorthTypedNext == MoneyInv' => WorthIsInt'
BY WorthTyped, PTL

(* A candle brings in what the orders that it fills are worth.              *)
LEMMA CandleFlow ==
  ASSUME MoneyInv, \A i \in DOMAIN orders : New(i) => orders[i].side = "SELL",
         NEW p \in Pairs, NEW c \in Candles, OnCandle(p, c)
  PROVE  QuotePosition' = QuotePosition + SumFunctionOnSet(Volume, NewlyFilled)
<1>1. NewlyFilled = Sold(Fired(p, c)) /\ Bought(Fired(p, c)) = {}
  BY FilledIsSold
<1>2. PICK sum : sum = SumFunctionOnSet(Volume, NewlyFilled)
  OBVIOUS
<1>3. sum \in Int
  <2>1. NewlyFilled \in SUBSET DOMAIN orders
    BY DEF NewlyFilled
  <2> QED BY <1>2, <2>1, MoneyTyped, SumsTyped
<1>4. SumFunctionOnSet(Volume, Bought(Fired(p, c))) = 0
  BY <1>1, SumEmpty
<1>5. quote' = [free |-> quote.free + sum, lock |-> quote.lock - 0]
  BY <1>1, <1>2, <1>4 DEF OnCandle
<1>6. quote.free \in Nat /\ quote.lock \in Nat
  BY MoneyTyped
<1> QED BY <1>2, <1>3, <1>5, <1>6 DEF QuotePosition

(* A sale of everything that is held was made after all that was filled.    *)
LEMMA WholeSaleIsLast ==
  ASSUME MoneyInv, HoldInv, NEW p \in Pairs, NEW i \in DOMAIN orders, New(i), SaleIsLast(i, p),
         orders[i].qty = position[p].qty
  PROVE  \A j \in FillsOf(p) : j < i
<1>0. WalletTypeOK
  BY DEF MoneyInv, WalletInv
<1>1. PICK X : X = {j \in FilledOf("BUY", p) : i < j}
  OBVIOUS
<1>2. X \in SUBSET DOMAIN orders
  BY <1>1 DEF FilledOf, Filled
<1>3. SumFunctionOnSet(Quantity, X) <= 0
  <2>1. BoughtSince(i, p) = SumFunctionOnSet(Quantity, X)
    BY <1>1 DEF BoughtSince
  <2>2. SumFunctionOnSet(Quantity, X) \in Nat /\ orders[i].qty \in Nat
    <3>1. orders[i] \in OrderType
      BY <1>0 DEF WalletTypeOK
    <3> QED BY <1>0, <1>2, <3>1, SumsTyped DEF OrderType
  <2> QED BY <2>1, <2>2 DEF SaleIsLast
<1>4. X = {}
  <2> SUFFICES ASSUME NEW j \in X PROVE FALSE
    OBVIOUS
  <2>1. SumFunctionOnSet(Quantity, X) = Quantity[j] + SumFunctionOnSet(Quantity, X \ {j})
    BY <1>0, <1>2, SumsTyped, SumRemove
  <2>2. SumFunctionOnSet(Quantity, X \ {j}) \in Nat
    <3>1. X \ {j} \in SUBSET DOMAIN orders
      BY <1>2
    <3> QED BY <1>0, <3>1, SumsTyped
  <2>3. Quantity[j] \in Nat /\ Quantity[j] > 0
    <3>1. j \in DOMAIN orders
      BY <1>2
    <3>2. orders[j].qty > 0 /\ orders[j] \in OrderType
      BY <1>0, <3>1 DEF MoneyInv, LongOrders, WalletTypeOK
    <3> QED BY <3>1, <3>2 DEF Quantity, OrderType
  <2> QED BY <1>3, <2>1, <2>2, <2>3
<1>5. FillsOf(p) = FilledOf("BUY", p) \cup FilledOf("SELL", p) /\ FillsOf(p) \in SUBSET DOMAIN orders
  BY FillsTyped
<1>6. ASSUME NEW j \in FilledOf("BUY", p) PROVE j < i
  <2>1. ~(i < j)
    BY <1>1, <1>4
  <2>2. j # i
    BY DEF FilledOf, Filled, New
  <2>3. j \in Nat /\ i \in Nat
    BY <1>0, <1>5, OrdersTyped
  <2> QED BY <2>1, <2>2, <2>3
<1> QED BY <1>5, <1>6 DEF SaleIsLast

(* What is worth a fill of a sale.                                          *)
LEMMA SaleFlow ==
  ASSUME MoneyInv, NEW i \in DOMAIN orders, orders'[i].side = "SELL", orders'[i].qty = orders[i].qty,
         TradePrice(orders'[i]) = FillPrice(orders[i])
  PROVE  SumFunctionOnSet(Volume, {i}) = Flow(orders'[i])
<1>0. WalletTypeOK
  BY DEF MoneyInv, WalletInv
<1>1. PICK X : X = {i}
  OBVIOUS
<1>2. X \in SUBSET DOMAIN orders /\ i \in X /\ X \ {i} = {}
  BY <1>1
<1>3. SumFunctionOnSet(Volume, X) = Volume[i] + SumFunctionOnSet(Volume, X \ {i}) /\ Volume[i] \in Int
  BY <1>0, <1>2, SumsTyped, SumRemove DEF IntOn
<1>4. SumFunctionOnSet(Volume, X \ {i}) = 0
  BY <1>2, SumEmpty
<1>5. Volume[i] = FillPrice(orders[i]) * orders[i].qty
  BY DEF Volume
<1>6. Flow(orders'[i]) = FillPrice(orders[i]) * orders[i].qty
  BY DEF Flow
<1> QED BY <1>1, <1>3, <1>4, <1>5, <1>6

(* A candle keeps the books of its pair: of it nothing is sold, or all.     *)
LEMMA CandleTracked ==
  ASSUME MoneyInv, HoldInv, MoneyInv', HoldInv',
         \A i \in DOMAIN orders : New(i) => orders[i].side = "SELL",
         NEW p \in Pairs, Tracked(p), NEW c \in Candles, OnCandle(p, c),
         ProcessTrades(p, LET ids == ById(NewlyFilled) IN [k \in DOMAIN ids |-> orders'[ids[k]]]),
         p \notin parts'
  PROVE  Tracked(p)'
<1>0. WalletTypeOK /\ position \in [Pairs -> PositionType] /\ results \in [Pairs -> Seq(Int)]
  BY DEF MoneyInv, WalletInv, HoldInv
<1>1. /\ AmountsKept /\ DOMAIN orders' = DOMAIN orders
      /\ \A i \in FillsOf(p) : orders'[i] = orders[i]
      /\ FillsOf(p)' = FillsOf(p) \cup NewlyFilled
      /\ \A i \in NewlyFilled : /\ i \in DOMAIN orders /\ New(i) /\ orders[i].pair = p
                                /\ orders'[i] \in FillType
      /\ \A i \in DOMAIN orders : /\ orders'[i].pair = orders[i].pair
                                  /\ orders'[i].status = "NEW" => New(i)
  BY CandleHistory
<1>2. CASE NewlyFilled = {} /\ position'[p] = position[p]
  <2>1. FillsOf(p)' = FillsOf(p)
    BY <1>1, <1>2
  <2>2. \A i \in DOMAIN orders' : orders'[i].status = "NEW" /\ orders'[i].pair = p
            => i \in DOMAIN orders /\ New(i) /\ orders[i].pair = p
    BY <1>1
  <2> QED BY <1>1, <1>2, <2>1, <2>2, StillTracked
<1>3. ASSUME NEW i \in DOMAIN orders, NewlyFilled = {i}, orders[i].qty = position[p].qty,
             TradeBooked(p, orders'[i]), position'[p] = NoPosition
      PROVE  Tracked(p)'
  <2>1. PICK N \in Nat : N = Len(orders) /\ DOMAIN orders = 1..N
    BY <1>0, OrdersTyped
  <2>2. PICK o \in FillType : o = orders'[i]
    BY <1>1, <1>3
  <2>3. New(i) /\ SaleIsLast(i, p)
    BY <1>1, <1>3 DEF Tracked
  <2>4. \A j \in FillsOf(p) : j < i
    BY <1>3, <2>3, WholeSaleIsLast
  <2>5. position'[p] = Updated(position[p], o)
    <3>1. PICK acc : acc = [position |-> position[p], results |-> results[p]]
      OBVIOUS
    <3>2. acc \in BooksType /\ acc.position = position[p]
      BY <1>0, <3>1 DEF BooksType
    <3>3. position' = [position EXCEPT ![p] = Processed(acc, o).position]
      BY <1>3, <2>2, <3>1 DEF TradeBooked
    <3> QED BY <1>0, <3>2, <3>3, ProcessedTyped
  <2>6. Restored(p)' = position'[p]
    <3>1. FillsOf(p)' = FillsOf(p) \cup {i}
      BY <1>1, <1>3
    <3>2. DOMAIN orders \subseteq 1..N /\ i \in 1..N /\ orders'[i] = o
      BY <2>1, <2>2
    <3>3. Restored(p) = position[p]
      BY DEF Tracked
    <3> QED BY <1>1, <2>4, <2>5, <3>1, <3>2, <3>3, OneFillTracked
  <2>7. AssetPosition(p)' = 0
    <3>1. position'[p].qty = AssetPosition(p)'
      BY DEF HoldInv
    <3> QED BY <1>3, <3>1 DEF NoPosition
  <2>8. \A j \in DOMAIN orders' : ~(orders'[j].status = "NEW" /\ orders'[j].pair = p)
    <3>1. \A j \in DOMAIN orders' : ~(orders'[j].status = "NEW" /\ orders'[j].pair = p
                                      /\ orders'[j].side = "SELL")
      BY <2>7, EmptySellsNothingNext DEF NothingOnSale, New
    <3>2. \A j \in DOMAIN orders' : j \in DOMAIN orders /\ orders'[j].side = orders[j].side
                                    /\ (orders'[j].status = "NEW" => New(j))
      BY FilledIsSold
    <3> QED BY <3>1, <3>2
  <2> QED BY <2>6, <2>8 DEF Tracked, New
<1>4. \/ NewlyFilled = {} /\ position'[p] = position[p] /\ results'[p] = results[p]
      \/ \E i \in DOMAIN orders :
               /\ NewlyFilled = {i} /\ orders[i].qty = position[p].qty
               /\ TradeBooked(p, orders'[i]) /\ position'[p] = NoPosition
  BY CandleWhole
<1> QED BY <1>2, <1>3, <1>4

(* And what it sells is in the wallet.                                      *)
LEMMA CandleGains ==
  ASSUME MoneyInv, HoldInv, MoneyInv', HoldInv', GainsAddUp,
         \A i \in DOMAIN orders : New(i) => orders[i].side = "SELL",
         NEW p \in Pairs, NEW c \in Candles, OnCandle(p, c),
         ProcessTrades(p, LET ids == ById(NewlyFilled) IN [k \in DOMAIN ids |-> orders'[ids[k]]]),
         parts' = {} => parts = {},
         \A q \in Pairs : q # p => results'[q] = results[q] /\ position'[q] = position[q]
  PROVE  GainsAddUp'
<1>1. QuotePosition' = QuotePosition + SumFunctionOnSet(Volume, NewlyFilled)
  BY CandleFlow
<1>2. CASE NewlyFilled = {} /\ position'[p] = position[p] /\ results'[p] = results[p]
  <2>1. SumFunctionOnSet(Volume, NewlyFilled) = 0
    BY <1>2, SumEmpty
  <2>2. PICK d \in Int : d = 0
    OBVIOUS
  <2>3. QuotePosition' = QuotePosition + d
    BY <1>1, <2>1, <2>2
  <2>4. Profit(p)' - position'[p].cost = (Profit(p) - position[p].cost) + d
    <3>1. results[p] \in Seq(Int) /\ position[p].cost \in Int
      BY PositionFields DEF HoldInv
    <3>2. PICK r \in Seq(Int) : r = results[p]
      BY <3>1
    <3>3. SumFunction(r) \in Int
      BY 0 \in Int, SumAppend
    <3>4. Profit(p)' = Profit(p) /\ Profit(p) \in Int
      BY <1>2, <3>2, <3>3 DEF Profit
    <3> QED BY <1>2, <2>2, <3>1, <3>4
  <2> QED BY <2>3, <2>4, GainsFollow
<1>3. ASSUME NEW i \in DOMAIN orders, NewlyFilled = {i}, orders[i].qty = position[p].qty,
             TradeBooked(p, orders'[i])
      PROVE  GainsAddUp'
  <2>1. /\ orders'[i].side = "SELL" /\ orders'[i].qty = orders[i].qty
        /\ orders'[i] \in FillType /\ TradePrice(orders'[i]) = FillPrice(orders[i])
    BY <1>3, CandleHistory
  <2>2. QuotePosition' = QuotePosition + Flow(orders'[i])
    BY <1>1, <1>3, <2>1, SaleFlow
  <2>3. PICK o \in FillType : o = orders'[i]
    BY <2>1
  <2>4. o.side = "SELL" /\ o.qty = position[p].qty /\ position[p].qty \in Nat
    BY <1>3, <2>1, <2>3, PositionFields DEF HoldInv
  <2>5. o.qty <= position[p].qty /\ ~(o.side = "BUY")
    BY <2>4
  <2> QED BY <1>3, <2>2, <2>3, <2>5, GainsOfTrade
<1>4. CASE parts' # {}
  BY <1>4 DEF GainsAddUp
<1>5. CASE parts' = {}
  <2>1. p \notin parts'
    BY <1>5
  <2>2. \/ NewlyFilled = {} /\ position'[p] = position[p] /\ results'[p] = results[p]
        \/ \E i \in DOMAIN orders :
               /\ NewlyFilled = {i} /\ orders[i].qty = position[p].qty
               /\ TradeBooked(p, orders'[i]) /\ position'[p] = NoPosition
    BY <2>1, CandleWhole
  <2> QED BY <1>2, <1>3, <2>2
<1> QED BY <1>4, <1>5

(* A candle keeps the books.                                                *)
LEMMA BooksCandle ==
  ASSUME TradeInv, BooksInv, NEW p \in Pairs, NEW c \in Shapes, NEW complete \in BOOLEAN,
         NEW again \in BOOLEAN, Candle(p, c, complete, again)
  PROVE  BooksInv'
<1>1. MoneyInv /\ HoldInv /\ ExitInv
  BY DEF TradeInv
<1>2. /\ OnCandle(p, c) /\ c \in Candles
      /\ ProcessTrades(p, LET ids == ById(NewlyFilled) IN [k \in DOMAIN ids |-> orders'[ids[k]]])
      /\ equity' = EquityAfter(complete, again)
  BY StrategiesAssumption DEF Candle
<1>3. \A i \in DOMAIN orders : New(i) => orders[i].side = "SELL"
  BY <1>1 DEF ExitInv
<1>4. MoneyInv' /\ HoldInv'
  BY CandleKeeps DEF TradeInv
<1>5. PICK n \in Nat : \E ids \in [1..n -> NewlyFilled] :
         \E acc \in [0..n -> BooksType] : SalesBooked(p, n, ids, acc)
  BY <1>1, <1>2, <1>3, CandleFills
<1>6. PICK acc \in [0..n -> BooksType] : \E ids : SalesBooked(p, n, ids, acc)
  BY <1>5
<1>7. /\ position' = [position EXCEPT ![p] = acc[n].position]
      /\ results' = [results EXCEPT ![p] = acc[n].results]
      /\ parts \subseteq parts'
  BY <1>6 DEF SalesBooked
<1>8. /\ \A q \in Pairs : q # p => results'[q] = results[q] /\ position'[q] = position[q]
      /\ parts' = {} => parts = {}
  BY <1>1, <1>7 DEF HoldInv
<1>9. GainsAddUp'
  BY <1>1, <1>2, <1>3, <1>4, <1>8, CandleGains DEF BooksInv
<1>10. ASSUME NEW q \in Pairs, q \notin parts' PROVE Tracked(q)'
  <2>1. Tracked(q)
    BY <1>7, <1>10 DEF BooksInv
  <2>2. CASE q = p
    <3>1. Tracked(p) /\ p \notin parts'
      BY <1>10, <2>1, <2>2
    <3>2. Tracked(p)'
      BY <1>1, <1>2, <1>3, <1>4, <3>1, CandleTracked
    <3> QED BY <2>2, <3>2
  <2>3. CASE q # p
    <3>1. /\ AmountsKept /\ DOMAIN orders' = DOMAIN orders
          /\ FillsOf(q)' = FillsOf(q) /\ \A i \in FillsOf(q) : orders'[i] = orders[i]
          /\ \A i \in DOMAIN orders : /\ orders'[i].pair = orders[i].pair
                                      /\ orders'[i].status = "NEW" => New(i)
      BY <1>1, <1>2, <1>3, <2>3, CandleHistory
    <3>2. \A i \in DOMAIN orders' : orders'[i].status = "NEW" /\ orders'[i].pair = q
            => i \in DOMAIN orders /\ New(i) /\ orders[i].pair = q
      BY <3>1
    <3> QED BY <1>1, <1>8, <2>1, <2>3, <3>1, <3>2, StillTracked
  <2> QED BY <2>2, <2>3
<1>11. equity' \in Seq(Int)
  <2>1. equity \in Seq(Int)
    BY DEF BooksInv
  <2>2. Worth' \in Int
    BY <1>4, WorthTypedNext DEF WorthIsInt
  <2>3. PICK w \in Int : w = Worth'
    BY <2>2
  <2>4. Append(equity, w) \in Seq(Int) /\ [equity EXCEPT ![Len(equity)] = w] \in Seq(Int)
    BY <2>1
  <2> QED BY <1>2, <2>1, <2>3, <2>4 DEF EquityAfter
<1> QED BY <1>9, <1>10, <1>11 DEF BooksInv

(* What a strategy may do with the wallet: nothing, buy, or sell what is    *)
(* free while nothing waits.                                                *)
Trades(p) ==
    \/ UNCHANGED walletVars /\ UNCHANGED books
    \/ \E side \in OrderSides, size \in Nat :
          /\ Market(p, side, size)
          /\ side = "SELL" => size <= assets[p].free /\ \A i \in DOMAIN orders : ~New(i)

(* A purchase for an amount of the base coin.                               *)
LEMMA QuoteBuys ==
  ASSUME MoneyInv, NEW p \in Pairs, NEW amount \in Nat, MarketQuote(p, "BUY", amount)
  PROVE  Trades(p)
<1>1. PICK size \in Nat : Market(p, "BUY", size)
  BY QuoteIsMarket
<1> QED BY <1>1 DEF Trades, OrderSides

(* A sale of all that is held, by a strategy without OCO orders.            *)
LEMMA AllIsSold ==
  ASSUME TradeInv, kind \notin OcoKinds, NEW p \in Pairs, Market(p, "SELL", AssetPosition(p))
  PROVE  Trades(p)
<1>1. AssetPosition(p) \in Nat /\ AssetPosition(p) = assets[p].free /\ \A i \in DOMAIN orders : ~New(i)
  BY AllIsFree
<1>2. PICK size \in Nat : size = AssetPosition(p)
  BY <1>1
<1>3. Market(p, "SELL", size) /\ size <= assets[p].free
  BY <1>1, <1>2
<1> QED BY <1>1, <1>3 DEF Trades, OrderSides

(* Every strategy does one of these.                                        *)
LEMMA StrategyTrades ==
  ASSUME TradeInv, NEW p \in Pairs, Strategy(p)
  PROVE  Trades(p) /\ equity' = equity
<1>0. /\ MoneyInv /\ QuotePosition \in Nat /\ last[p] \in Nat
      /\ MaxSpend \in Nat /\ BuyAmount \in Nat
  BY MoneyTyped, StrategiesAssumption DEF TradeInv
<1>1. CASE OCOSell(p)
  <2>1. equity' = equity
    BY <1>1 DEF OCOSell, chart
  <2>2. PICK size : size = Min({MaxSpend, QuotePosition}) \div Close(p)
    OBVIOUS
  <2>3. CASE Market(p, "BUY", size)
    <3>1. last[p] # 0
      BY <2>3 DEF Market, CreateOrderMarket
    <3>2. Min({MaxSpend, QuotePosition}) \in Nat
      <4>1. PICK a \in Int, b \in Int : a = MaxSpend /\ b = QuotePosition
        BY <1>0
      <4>2. Min({a, b}) = IF a <= b THEN a ELSE b
        BY TwoNumbers
      <4> QED BY <1>0, <4>1, <4>2
    <3>3. size \in Nat
      BY <1>0, <2>2, <3>1, <3>2, Affordable DEF Close
    <3> QED BY <2>1, <2>3, <3>3 DEF Trades, OrderSides
  <2>4. CASE UNCHANGED <<walletVars, books>>
    BY <2>1, <2>4 DEF Trades
  <2>5. Market(p, "BUY", size) \/ UNCHANGED <<walletVars, books>>
    BY <1>1, <2>2 DEF OCOSell
  <2> QED BY <2>3, <2>4, <2>5
<1>2. CASE DCA(p)
  <2>1. PICK amount : amount = IF QuotePosition >= BuyAmount THEN BuyAmount ELSE QuotePosition
    OBVIOUS
  <2>2. Market(p, "BUY", amount \div Close(p)) /\ equity' = equity
    BY <1>2, <2>1 DEF DCA, chart
  <2>3. last[p] # 0 /\ amount \in Nat
    BY <1>0, <2>1, <2>2 DEF Market, CreateOrderMarket
  <2>4. PICK size \in Nat : size = amount \div Close(p)
    BY <1>0, <2>3, Affordable DEF Close
  <2> QED BY <2>2, <2>4 DEF Trades, OrderSides
<1>3. CASE CrossEMA(p)
  <2>1. equity' = equity /\ kind \notin OcoKinds
    BY <1>3 DEF CrossEMA, chart, OcoKinds
  <2>2. MarketQuote(p, "BUY", QuotePosition) \/ Market(p, "SELL", AssetPosition(p))
    BY <1>3 DEF CrossEMA
  <2> QED BY <1>0, <2>1, <2>2, QuoteBuys, AllIsSold
<1>4. CASE Turtle(p)
  <2>1. equity' = equity /\ kind \notin OcoKinds
    BY <1>4 DEF Turtle, chart, OcoKinds
  <2>2. MarketQuote(p, "BUY", QuotePosition \div 2) \/ Market(p, "SELL", AssetPosition(p))
    BY <1>4 DEF Turtle
  <2>3. QuotePosition \div 2 \in Nat
    BY <1>0
  <2> QED BY <1>0, <2>1, <2>2, <2>3, QuoteBuys, AllIsSold
<1>5. CASE Enter(p)
  <2>1. equity' = equity /\ MarketQuote(p, "BUY", QuotePosition)
    BY <1>5 DEF Enter, chart
  <2> QED BY <1>0, <2>1, QuoteBuys
<1>6. CASE Trail(p)
  <2>1. equity' = equity /\ kind \notin OcoKinds
    BY <1>6 DEF Trail, chart, OcoKinds
  <2>2. Market(p, "SELL", AssetPosition(p)) \/ UNCHANGED <<walletVars, books>>
    BY <1>6 DEF Trail
  <2>3. CASE UNCHANGED <<walletVars, books>>
    BY <2>1, <2>3 DEF Trades
  <2> QED BY <2>1, <2>2, <2>3, AllIsSold
<1>7. CASE Fibonacci(p)
  <2>1. equity' = equity
    BY <1>7 DEF Fibonacci, chart
  <2>2. MarketQuote(p, "BUY", QuotePosition) \/ UNCHANGED <<walletVars, books>>
    BY <1>7 DEF Fibonacci
  <2>3. CASE UNCHANGED <<walletVars, books>>
    BY <2>1, <2>3 DEF Trades
  <2> QED BY <1>0, <2>1, <2>2, <2>3, QuoteBuys
<1>8. CASE Nothing(p)
  BY <1>8 DEF Nothing, chart, Trades
<1> QED BY <1>1, <1>2, <1>3, <1>4, <1>5, <1>6, <1>7, <1>8 DEF Strategy

(* Nothing is filled, nothing won.                                          *)
LEMMA BooksInit ==
  ASSUME InitAsset = 0, AllInit
  PROVE  BooksInv
<1>0. MoneyInv /\ HoldInv
  BY TradeInit DEF TradeInv
<1>1. /\ DOMAIN orders = {} /\ quote.free = InitQuote /\ quote.lock = 0
      /\ position = [p \in Pairs |-> NoPosition] /\ results = [p \in Pairs |-> <<>>]
      /\ equity = <<>>
  BY DEF AllInit, Init
<1>2. ASSUME NEW p \in Pairs PROVE Tracked(p)
  <2>1. FillsOf(p) = {}
    BY <1>1 DEF FillsOf
  <2>2. PICK S : S = FillsOf(p)
    OBVIOUS
  <2>3. S \in SUBSET (1..0) /\ S = {} /\ \A i \in S : orders[i] \in FillType
    BY <2>1, <2>2
  <2>4. Replayed(orders, S) = NoPosition
    BY <2>3, 0 \in Nat, ReplayedStep
  <2>5. Restored(p) = Replayed(orders, S)
    BY <1>0, <2>2, FillsTyped
  <2> QED BY <1>1, <2>4, <2>5 DEF Tracked
<1>3. GainsAddUp
  <2>1. PICK f : f = [p \in Pairs |-> Profit(p) - position[p].cost]
    OBVIOUS
  <2>2. \A p \in Pairs : f[p] = 0
    <3>1. SumFunction(<<>>) = 0
      <4>1. DOMAIN <<>> = {}
        OBVIOUS
      <4> QED BY <4>1, SumEmpty DEF SumFunction
    <3>2. NoPosition.cost = 0
      BY DEF NoPosition
    <3> QED BY <1>1, <2>1, <3>1, <3>2 DEF Profit
  <2>3. SumFunctionOnSet(f, Pairs) = 0
    BY <2>2, SumZero, WalletAssumption
  <2>4. SumFunction(f) = 0
    BY <2>1, <2>3 DEF SumFunction
  <2>5. QuotePosition = InitQuote /\ InitQuote \in Int
    BY <1>1, WalletAssumption DEF QuotePosition
  <2> QED BY <2>1, <2>4, <2>5 DEF GainsAddUp
<1>4. equity \in Seq(Int)
  BY <1>1
<1> QED BY <1>2, <1>3, <1>4 DEF BooksInv

(* Every step keeps the books.                                              *)
LEMMA BooksStep ==
  ASSUME TradeInv, BooksInv, [AllNext]_allVars
  PROVE  BooksInv'
<1>0. MoneyInv /\ HoldInv
  BY DEF TradeInv
<1>1. CASE UNCHANGED allVars
  <2>1. UNCHANGED walletVars /\ UNCHANGED books /\ equity' = equity
    BY <1>1 DEF allVars, chart
  <2> QED BY <1>0, <2>1, BooksKept
<1>2. CASE PlaceExit
  BY <1>2, BooksExit
<1>3. ASSUME NEW p \in Pairs, NEW c \in Shapes, NEW complete \in BOOLEAN,
             NEW again \in BOOLEAN, Candle(p, c, complete, again)
      PROVE  BooksInv'
  BY <1>3, BooksCandle
<1>4. ASSUME NEW p \in Pairs, Strategy(p) PROVE BooksInv'
  <2>1. Trades(p) /\ equity' = equity
    BY <1>4, StrategyTrades
  <2>2. CASE UNCHANGED walletVars /\ UNCHANGED books
    BY <1>0, <2>1, <2>2, BooksKept
  <2>3. ASSUME NEW side \in OrderSides, NEW size \in Nat, Market(p, side, size),
               side = "SELL" => size <= assets[p].free /\ \A i \in DOMAIN orders : ~New(i)
        PROVE  BooksInv'
    BY <1>0, <2>1, <2>3, BooksMarket
  <2> QED BY <2>1, <2>2, <2>3 DEF Trades
<1> QED BY <1>1, <1>2, <1>3, <1>4 DEF AllNext

(* The gains, with what the open positions are worth.                       *)
LEMMA GainsAreProfits ==
  ASSUME InitAsset = 0, MoneyInv, HoldInv, GainsAddUp
  PROVE  ProfitsAddUp
<1> SUFFICES ASSUME parts = {}
             PROVE  SumFunction([p \in Pairs |-> Profit(p) + Unrealized(p)]) = PnL
  BY DEF ProfitsAddUp
<1>1. PICK f, g, h, z : /\ f = [p \in Pairs |-> Profit(p) - position[p].cost]
                        /\ g = [p \in Pairs |-> AssetPosition(p) * last[p]]
                        /\ h = [p \in Pairs |-> Profit(p) + Unrealized(p)]
                        /\ z = [p \in Pairs |-> InitAsset * last[p]]
  OBVIOUS
<1>2. \A p \in Pairs : f[p] \in Int /\ g[p] \in Int /\ h[p] = f[p] + g[p] /\ z[p] = 0
  <2> SUFFICES ASSUME NEW p \in Pairs
               PROVE  f[p] \in Int /\ g[p] \in Int /\ h[p] = f[p] + g[p] /\ z[p] = 0
    OBVIOUS
  <2>1. results[p] \in Seq(Int) /\ position[p].cost \in Int /\ position[p].qty = AssetPosition(p)
    BY PositionFields DEF HoldInv
  <2>2. PICK r \in Seq(Int) : r = results[p]
    BY <2>1
  <2>3. PICK won \in Int : won = Profit(p)
    BY <2>2, 0 \in Int, SumAppend DEF Profit
  <2>4. PICK cost \in Int, held \in Nat, price \in Nat :
           cost = position[p].cost /\ held = AssetPosition(p) /\ price = last[p]
    BY <2>1, MoneyTyped
  <2>5. PICK worth \in Int : worth = held * price
    OBVIOUS
  <2>6. f[p] = won - cost /\ g[p] = worth
    BY <1>1, <2>3, <2>4, <2>5
  <2>7. h[p] = won + (worth - cost)
    BY <1>1, <2>1, <2>3, <2>4, <2>5 DEF Unrealized
  <2>8. z[p] = 0
    BY <1>1, <2>4
  <2> QED BY ONLY <2>6, <2>7, <2>8, won \in Int, cost \in Int, worth \in Int
<1>3. /\ IsFiniteSet(Pairs) /\ IntOn(f, Pairs) /\ IntOn(g, Pairs)
      /\ DOMAIN f = Pairs /\ DOMAIN g = Pairs /\ DOMAIN h = Pairs /\ DOMAIN z = Pairs
  BY <1>1, <1>2, WalletAssumption DEF IntOn
<1>4. SumFunctionOnSet(h, Pairs) = SumFunctionOnSet(f, Pairs) + SumFunctionOnSet(g, Pairs)
  BY <1>2, <1>3, SumPlus
<1>5. SumFunctionOnSet(z, Pairs) = 0
  BY <1>2, <1>3, SumZero
<1>6. /\ SumFunction(h) = SumFunctionOnSet(h, Pairs) /\ SumFunction(g) = SumFunctionOnSet(g, Pairs)
      /\ SumFunction(f) = SumFunctionOnSet(f, Pairs) /\ SumFunction(z) = SumFunctionOnSet(z, Pairs)
  BY <1>3 DEF SumFunction
<1>7. PICK held \in Int : held = SumFunctionOnSet(g, Pairs)
  BY <1>3, SumTaken
<1>8. QuotePosition \in Int /\ InitQuote \in Int
  BY MoneyTyped, WalletAssumption
<1>9. SumFunctionOnSet(f, Pairs) = QuotePosition - InitQuote
  BY <1>1, <1>6 DEF GainsAddUp
<1>10. PnL = (QuotePosition + held) - (InitQuote + 0)
  BY <1>1, <1>5, <1>6, <1>7 DEF PnL, Worth
<1> QED BY <1>1, <1>4, <1>6, <1>7, <1>8, <1>9, <1>10

(* The books tell what happened to the wallet, whichever orders a candle    *)
(* fills, in whatever order, and whatever the strategy trades: the open     *)
(* positions are the assets held, a session that resumes restores them,     *)
(* what was won and lost adds up to the gain of the wallet, and no fall of  *)
(* the equity is larger than the drawdown that is reported.                 *)
THEOREM BooksMatchWalletCorrect == InitAsset = 0 /\ AllSpec => []BooksMatchWallet
<1> SUFFICES ASSUME InitAsset = 0 PROVE AllSpec => []BooksMatchWallet
  OBVIOUS
<1>1. AllInit => BooksInv
  BY BooksInit
<1>2. TradeInv /\ BooksInv /\ [AllNext]_allVars => BooksInv'
  BY BooksStep
<1>3. TradeInv /\ BooksInv => BooksMatchWallet
  <2> SUFFICES ASSUME TradeInv, BooksInv PROVE BooksMatchWallet
    OBVIOUS
  <2>1. MoneyInv /\ HoldInv
    BY DEF TradeInv
  <2>2. PositionsRestored
    <3> SUFFICES ASSUME NEW p \in Pairs
                 PROVE  /\ position[p].qty = AssetPosition(p) - InitAsset
                        /\ Restored(p).qty = position[p].qty
                        /\ p \notin parts => Restored(p) = position[p]
      BY DEF PositionsRestored
    <3>1. position[p].qty = AssetPosition(p) - InitAsset
      BY <2>1, MoneyTyped DEF HoldInv
    <3> QED BY <2>1, <3>1, RestoredQuantity DEF BooksInv, Tracked
  <2>3. ProfitsAddUp
    BY <2>1, GainsAreProfits DEF BooksInv
  <2>4. DrawdownIsLargest
    BY DrawdownKnown DEF BooksInv
  <2> QED BY <2>2, <2>3, <2>4 DEF BooksMatchWallet
<1>4. AllSpec => []TradeInv
  BY TradeInvCorrect
<1> QED BY <1>1, <1>2, <1>3, <1>4, PTL DEF AllSpec
=============================================================================
