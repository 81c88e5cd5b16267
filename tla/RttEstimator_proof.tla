------------------------- MODULE RttEstimator_proof -------------------------
(***************************************************************************)
(* The round trip estimate and the length of the timer stay between their  *)
(* bounds, for every width of the words, every TCP_RTO_MIN and any clock,  *)
(* as long as no measurement comes near the width of a word.               *)
(***************************************************************************)
EXTENDS RttEstimator, ModularLemmas

LEMMA SizesType == /\ Word \in Nat /\ RtoMin \in Nat /\ Million \in Nat
                   /\ 1 <= RtoMin /\ 2 * RtoMin <= Word /\ Word > 0
BY RttAssumption

(* What fits a word is not changed, and nothing leaves a word. *)
LEMMA Fits == \A n \in 0 .. Word - 1 : U32(n) = n
<1> SUFFICES ASSUME NEW n \in 0 .. Word - 1 PROVE U32(n) = n
  OBVIOUS
<1>1. (Word * 0 + n) % Word = n
  BY SizesType, RemainderOf
<1>2. Word * 0 + n = n
  BY SizesType
<1> QED
  BY <1>1, <1>2 DEF U32

LEMMA WordType == \A n \in Int : U32(n) \in 0 .. Word - 1
BY SizesType, QuotientType DEF U32

(* Only init() assigns the sequence numbers: no period is ever over. *)
LEMMA NeverOver == ~PeriodOver
BY Fits, SizesType DEF PeriodOver, After

(* The deviation stays below four times the longest measurement. *)
LEMMA Deviation ==
  ASSUME mdev \in Nat, NEW err \in Int, NEW high \in Nat,
         err \in 1 - high .. high - 1, mdev <= 4 * high
  PROVE  mdev + Gain(err) \in 0 .. 4 * high
BY DEF Gain

LEMMA MeasurementType == rtt \in 0 .. Word - 1 => Measurement \in 1 .. Word - 1
BY SizesType DEF Measurement
-----------------------------------------------------------------------------
Words == /\ {rtt, srtt, mdev, mdev_max, rttvar, rto} \subseteq 0 .. Word - 1
         /\ estimates \in 0 .. MaxEstimates
         /\ {least, most} \subseteq 0 .. Word - 1

(* The inductive invariant.  The bounds of rto need those of rttvar, they  *)
(* need mdev's, and mdev's that the error of the estimate is bounded: that *)
(* srtt lies between the measurements.                                     *)
Bounds == /\ 1 <= least /\ least <= most
          /\ 8 * least <= srtt /\ srtt <= 8 * most
          /\ mdev <= 4 * most /\ mdev <= mdev_max /\ mdev_max <= rttvar
          /\ RtoMin <= rttvar /\ rttvar <= Larger(4 * most, RtoMin)
          /\ rto = srtt \div 8 + rttvar

Inv == /\ Words
       /\ estimates = 0 => srtt = 0 /\ most = 0
       /\ NoWrap => Bounds

LEMMA InitInv == RttInit => Inv
BY SizesType, RttAssumption DEF RttInit, Inv, Words, NoWrap

LEMMA CalculatedType ==
  ASSUME NEW x \in Times, NEW y \in Times
  PROVE  CalculateRtt(x, y) \in 0 .. Word - 1
<1>1. /\ x.sec \in Int /\ x.usec \in Int /\ y.sec \in Int /\ y.usec \in Int
      /\ Million \in Int
  BY RttAssumption
<1> DEFINE borrowed == x.usec + Million - y.usec + Million * (x.sec - 1 - y.sec)
           plain == x.usec - y.usec + Million * (x.sec - y.sec)
<1>2. borrowed \in Int /\ plain \in Int
  BY <1>1
<1> HIDE DEF borrowed, plain
<1>3. U32(borrowed) \in 0 .. Word - 1 /\ U32(plain) \in 0 .. Word - 1
  BY <1>2, WordType
<1> QED
  BY <1>3 DEF CalculateRtt, borrowed, plain

LEMMA MeasureInv ==
  ASSUME Inv, NEW x \in Times, NEW y \in Times, Measure(x, y)
  PROVE  Inv'
<1>1. rtt' \in 0 .. Word - 1
  BY CalculatedType DEF Measure
<1> QED
  BY <1>1 DEF Measure, Inv, Words, NoWrap, Bounds

(* Whatever the measurement, the fields stay words. *)
LEMMA EstimateType == ASSUME Inv, Estimate PROVE Words'
<1>1. /\ {rtt, srtt, mdev, mdev_max, rttvar, rto, least, most} \subseteq 0 .. Word - 1
      /\ estimates \in 0 .. MaxEstimates /\ MaxEstimates \in Nat
      /\ Measurement \in 1 .. Word - 1
  BY RttAssumption, MeasurementType DEF Inv, Words
<1>2. {srtt', mdev', mdev_max', rttvar'} \subseteq 0 .. Word - 1
  <2>1. CASE FirstEstimate
    <3>1. U32(8 * Measurement) \in 0 .. Word - 1 /\ U32(2 * Measurement) \in 0 .. Word - 1
      BY <1>1, WordType
    <3> QED
      BY <2>1, <3>1, SizesType DEF FirstEstimate, Larger
  <2>2. CASE LaterEstimate
    <3> DEFINE err == Measurement - srtt \div 8
    <3>1. err \in Int /\ srtt + err \in Int /\ mdev + Gain(err) \in Int
      BY <1>1 DEF Gain
    <3> HIDE DEF err
    <3>2. srtt' = U32(srtt + err) /\ mdev' = U32(mdev + Gain(err))
      BY <2>2 DEF LaterEstimate, err
    <3>3. srtt' \in 0 .. Word - 1 /\ mdev' \in 0 .. Word - 1
      BY <3>1, <3>2, WordType
    <3> QED
      BY <1>1, <2>2, <3>3, NeverOver DEF LaterEstimate, Larger
  <2> QED
    BY <2>1, <2>2 DEF Estimate
<1>3. rto' \in 0 .. Word - 1
  <2>1. srtt' \div 8 + rttvar' \in Int
    BY <1>2
  <2> QED
    BY <2>1, WordType DEF Estimate, SetRto
<1>4. {least', most', rtt'} \subseteq 0 .. Word - 1 /\ estimates' \in 0 .. MaxEstimates
  BY <1>1 DEF Estimate, Larger, Smaller
<1> QED
  BY <1>2, <1>3, <1>4 DEF Words

(* The first measurement. *)
LEMMA FirstBounds ==
  ASSUME Inv, Estimate, FirstEstimate, estimates = 0, NoWrap'
  PROVE  Bounds'
<1> DEFINE m == Measurement
<1>1. m \in 1 .. Word - 1 /\ most = 0
  BY MeasurementType DEF Inv, Words
<1>2. least' = m /\ most' = m
  BY <1>1 DEF Estimate, Larger
<1>3. 8 * m \in 0 .. Word - 1 /\ 2 * m \in 0 .. Word - 1
  BY <1>1, <1>2, SizesType DEF NoWrap
<1>4. /\ srtt' = 8 * m /\ mdev' = 2 * m
      /\ rttvar' = Larger(2 * m, RtoMin) /\ mdev_max' = rttvar'
      /\ rto' = U32(srtt' \div 8 + rttvar')
  BY <1>3, Fits DEF FirstEstimate, Estimate, SetRto
<1> HIDE DEF m
<1>5. srtt' \div 8 + rttvar' \in 0 .. Word - 1
  BY <1>1, <1>3, <1>4, SizesType DEF Larger
<1>6. rto' = srtt' \div 8 + rttvar'
  BY <1>4, <1>5, Fits
<1> QED
  BY <1>1, <1>2, <1>3, <1>4, <1>6, SizesType DEF Bounds, Larger

(* A later one.  low, high and the other names picked are the values after *)
(* the step: the arithmetic is then about numbers.                         *)
LEMMA LaterBounds ==
  ASSUME Inv, Bounds, Estimate, LaterEstimate, estimates # 0, NoWrap'
  PROVE  Bounds'
<1> DEFINE m == Measurement
           err == m - srtt \div 8
<1>1. /\ m \in 1 .. Word - 1 /\ least \in Nat /\ most \in Nat /\ Words'
      /\ srtt \in Nat /\ mdev \in Nat /\ mdev_max \in Nat /\ rttvar \in Nat
  BY MeasurementType, SizesType, EstimateType DEF Inv, Words
<1>2. PICK low \in Nat, high \in Nat, s \in Nat, d \in Nat, peak \in Nat,
           v \in Nat, r \in Nat :
        /\ low = least' /\ high = most' /\ s = srtt' /\ d = mdev'
        /\ peak = mdev_max' /\ v = rttvar' /\ r = rto'
  <2>1. /\ least' \in Nat /\ most' \in Nat /\ srtt' \in Nat /\ mdev' \in Nat
        /\ mdev_max' \in Nat /\ rttvar' \in Nat /\ rto' \in Nat
    BY <1>1, SizesType DEF Words
  <2> QED
    BY <2>1, Zenon
<1>3. /\ low = Smaller(least, m) /\ high = Larger(most, m)
      /\ s = U32(srtt + err) /\ d = U32(mdev + Gain(err))
      /\ peak = Larger(d, mdev_max)
      /\ v = IF d > mdev_max THEN Larger(rttvar, peak) ELSE rttvar
  BY <1>2, NeverOver DEF LaterEstimate, Estimate
<1>4. r = U32(s \div 8 + v)
  BY <1>2, Zenon DEF Estimate, SetRto
<1>5. 8 * high < Word
  BY <1>2 DEF NoWrap
<1> HIDE DEF m
<1>6. /\ 1 <= low /\ low <= least /\ most <= high
      /\ low <= m /\ m <= high
  BY <1>1, <1>3 DEF Bounds, Smaller, Larger
<1>7. /\ 8 * low <= srtt + err /\ srtt + err <= 8 * high
      /\ err \in -(high - low) .. high - low
  <2>1. 8 * low <= srtt /\ srtt <= 8 * high
    BY <1>1, <1>6 DEF Bounds
  <2> QED
    BY <1>1, <1>6, <2>1
<1> HIDE DEF err
<1>8. 8 * low <= s /\ s <= 8 * high
  <2>1. err \in Int /\ srtt + err \in 0 .. Word - 1
    BY <1>1, <1>5, <1>7, SizesType
  <2>2. s = srtt + err
    BY <1>3, <2>1, Fits
  <2> QED
    BY <1>7, <2>2
<1>9. d \in 0 .. 4 * high
  <2>1. err \in Int /\ err \in 1 - high .. high - 1
    BY <1>6, <1>7
  <2>2. mdev <= 4 * high
    BY <1>1, <1>6 DEF Bounds
  <2>3. mdev + Gain(err) \in 0 .. 4 * high
    BY <1>1, <2>1, <2>2, Deviation
  <2>4. mdev + Gain(err) \in 0 .. Word - 1
    BY <1>5, <2>3, SizesType
  <2> QED
    BY <1>3, <2>3, <2>4, Fits
<1>10. /\ d <= peak /\ peak <= v /\ RtoMin <= v /\ v <= Larger(4 * high, RtoMin)
  BY <1>1, <1>3, <1>6, <1>9, SizesType DEF Bounds, Larger
<1>11. r = s \div 8 + v
  <2>1. s \div 8 + v \in 0 .. Word - 1
    <3>1. s \div 8 \in 0 .. high
      BY <1>8
    <3>2. v <= 4 * high \/ v <= RtoMin
      BY <1>10, SizesType DEF Larger
    <3> QED
      BY <1>5, <3>1, <3>2, SizesType
  <2> QED
    BY <1>4, <2>1, Fits
<1>12. /\ 1 <= low /\ low <= high
       /\ 8 * low <= s /\ s <= 8 * high
       /\ d <= 4 * high /\ d <= peak /\ peak <= v
       /\ RtoMin <= v /\ v <= Larger(4 * high, RtoMin)
       /\ r = s \div 8 + v
  BY <1>1, <1>6, <1>8, <1>9, <1>10, <1>11
<1> QED
  BY <1>2, <1>12, Zenon DEF Bounds

LEMMA EstimateInv == ASSUME Inv, Estimate PROVE Inv'
<1>1. Words'
  BY EstimateType
<1>2. estimates \in Nat /\ estimates' = estimates + 1
  BY DEF Inv, Words, Estimate
<1>3. ASSUME NoWrap' PROVE Bounds'
  <2>1. CASE estimates = 0
    BY <1>3, <2>1, FirstBounds DEF Estimate, Inv
  <2>2. CASE estimates # 0
    <3>1. NoWrap
      <4>1. PICK high \in Nat : high = most'
        BY <1>1, SizesType DEF Words
      <4>2. most \in Nat /\ most <= high
        BY <4>1, MeasurementType, SizesType DEF Inv, Words, Estimate, Larger
      <4>3. 8 * high < Word
        BY <1>3, <4>1 DEF NoWrap
      <4> QED
        BY <1>2, <2>2, <4>2, <4>3, SizesType DEF NoWrap
    <3>2. Bounds
      BY <3>1 DEF Inv
    <3>3. srtt # 0
      BY <3>2 DEF Inv, Words, Bounds
    <3> QED
      BY <1>3, <2>2, <3>2, <3>3, LaterBounds DEF Estimate
  <2> QED
    BY <2>1, <2>2
<1> QED
  BY <1>1, <1>2, <1>3 DEF Inv

LEMMA NextInv == Inv /\ [RttNext]_rttVars => Inv'
<1> SUFFICES ASSUME Inv, [RttNext]_rttVars PROVE Inv'
  OBVIOUS
<1>1. CASE Estimate
  BY <1>1, EstimateInv
<1>2. ASSUME NEW x \in Times, NEW y \in Times, Measure(x, y) PROVE Inv'
  BY <1>2, MeasureInv
<1>3. CASE UNCHANGED rttVars
  BY <1>3 DEF rttVars, Inv, Words, NoWrap, Bounds
<1> QED
  BY <1>1, <1>2, <1>3 DEF RttNext

LEMMA Invariance == RttSpec => []Inv
BY InitInv, NextInv, PTL DEF RttSpec
-----------------------------------------------------------------------------
(* The smoothed round trip time never leaves the range of what was         *)
(* measured, however often each measurement is fed.                        *)
THEOREM StaysBetween == RttSpec => []SmoothedBetween
<1>1. Inv => SmoothedBetween
  BY DEF Inv, SmoothedBetween, Bounds
<1> QED
  BY <1>1, Invariance, PTL

(* The timer is never shorter than the estimate and its deviation, nor     *)
(* longer than five times the longest measurement.                         *)
THEOREM TimerInBounds == RttSpec => []RtoBounded
<1>1. ASSUME Inv PROVE RtoBounded
  <2> SUFFICES ASSUME NoWrap PROVE RtoBounded
    BY DEF RtoBounded
  <2>1. Bounds
    BY <1>1 DEF Inv
  <2>2. /\ srtt \in Nat /\ mdev \in Nat /\ mdev_max \in Nat /\ rttvar \in Nat
        /\ most \in Nat
    BY <1>1, SizesType DEF Inv, Words
  <2>3. srtt \div 8 \in Nat /\ srtt \div 8 <= most
    BY <2>1, <2>2 DEF Bounds
  <2> QED
    BY <2>1, <2>2, <2>3, SizesType DEF Bounds, RtoBounded, Larger
<1> QED
  BY <1>1, Invariance, PTL
-----------------------------------------------------------------------------
(* The subtraction of calculate_rtt borrows rightly, at any Million.       *)
LEMMA Borrowing ==
  ASSUME NEW x \in Times, NEW y \in Times
  PROVE  CalculateRtt(x, y) = U32(Million * (x.sec - y.sec) + x.usec - y.usec)
<1>1. /\ x.sec - y.sec \in Int /\ x.usec \in Int /\ y.usec \in Int /\ Million \in Int
      /\ x.sec - 1 - y.sec = (x.sec - y.sec) - 1
  BY RttAssumption
<1> DEFINE q == x.sec - y.sec
<1> HIDE DEF q
<1>2. /\ Million * (q - 1) = Million * q - Million * 1
      /\ Million * q \in Int
  BY <1>1, Distribute DEF q
<1>3. /\ x.usec + Million - y.usec + Million * (q - 1) = Million * q + x.usec - y.usec
      /\ x.usec - y.usec + Million * q = Million * q + x.usec - y.usec
  BY <1>1, <1>2
<1> QED
  BY <1>1, <1>3 DEF CalculateRtt, q

(* An acknowledgement's round trip time is the time that went by, for any  *)
(* two readings of the clock less than a word apart.                       *)
THEOREM RttIsElapsed == RttSpec => []MeasuresElapsed
<1>1. RttInit => MeasuresElapsed
  BY DEF RttInit, MeasuresElapsed
<1>2. ASSUME MeasuresElapsed, [RttNext]_rttVars PROVE MeasuresElapsed'
  <2>1. ASSUME NEW x \in Times, NEW y \in Times, Measure(x, y) PROVE MeasuresElapsed'
    <3> DEFINE e == Million * (x.sec - y.sec) + x.usec - y.usec
    <3>1. rtt' = U32(e) /\ elapsed' = e
      BY <2>1, Borrowing DEF Measure
    <3>2. e \in Int
      BY RttAssumption
    <3> HIDE DEF e
    <3>3. 0 <= e /\ e < Word => U32(e) = e
      BY <3>2, SizesType, Fits
    <3> QED
      BY <3>1, <3>3 DEF MeasuresElapsed
  <2>2. CASE Estimate
    BY <1>2, <2>2 DEF Estimate, MeasuresElapsed
  <2>3. CASE UNCHANGED rttVars
    BY <1>2, <2>3 DEF rttVars, MeasuresElapsed
  <2> QED
    BY <1>2, <2>1, <2>2, <2>3 DEF RttNext
<1> QED
  BY <1>1, <1>2, PTL DEF RttSpec
=============================================================================
