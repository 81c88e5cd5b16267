---------------------------- MODULE RttEstimator ----------------------------
(***************************************************************************)
(* The length the driver of tcpd.c gives its timers.  An acknowledgement   *)
(* brings back the time its packet was sent; calculate_rtt makes a round   *)
(* trip time of it.  At every send and resend tcp_rtt_estimator is fed the *)
(* last round trip time, new or not, and __tcp_set_rto gives the timer.    *)
(* All four fields of tp are 32-bit words; the measurement in the          *)
(* estimator is a 64-bit signed one.                                       *)
(***************************************************************************)
EXTENDS Integers

CONSTANTS Word,         \* 2^32
          RtoMin,       \* TCP_RTO_MIN, 2000 microseconds
          Million,      \* microseconds in a second
          Times,        \* the struct timevals the clock may show
          MaxEstimates  \* bound on the sends and resends

ASSUME RttAssumption == /\ Word \in Nat /\ RtoMin \in Nat /\ Million \in Nat
                        /\ 1 <= RtoMin /\ 2 * RtoMin <= Word
                        /\ Times \subseteq [sec : Nat, usec : 0 .. Million - 1]
                        /\ MaxEstimates \in Nat

VARIABLES rtt,       \* the last round trip time, 0 before the first
          srtt,      \* smoothed round trip time, times 8
          mdev,      \* mean deviation
          mdev_max,  \* largest mdev of the last period
          rttvar,    \* smoothed mdev_max
          rto,       \* the length of the next timer
          elapsed,   \* history: what the clock says rtt is, maybe negative,
          estimates, \* how many times the estimator was fed,
          least,     \* and the smallest
          most       \* and the largest round trip time it was fed

rttVars == <<rtt, srtt, mdev, mdev_max, rttvar, rto, elapsed, estimates, least, most>>

RttInit == /\ rtt = 0 /\ elapsed = 0
           /\ srtt = 0 /\ mdev = 0 /\ mdev_max = 0 /\ rttvar = 0
           /\ rto = RtoMin
           /\ estimates = 0 /\ least = 0 /\ most = 0

U32(n) == n % Word

Larger(a, b) == IF a > b THEN a ELSE b

Smaller(a, b) == IF a < b THEN a ELSE b
-----------------------------------------------------------------------------
(* Mutant: the borrow from the seconds is forgotten.                       *)
CalculateRttUnborrowed(x, y) ==
  IF x.usec < y.usec
  THEN U32(x.usec + Million - y.usec + Million * (x.sec - y.sec))
  ELSE U32(x.usec - y.usec + Million * (x.sec - y.sec))

(* calculate_rtt: x - y in microseconds. *)
CalculateRtt(x, y) ==
  IF x.usec < y.usec
  THEN U32(x.usec + Million - y.usec + Million * (x.sec - 1 - y.sec))
  ELSE U32(x.usec - y.usec + Million * (x.sec - y.sec))

(* An acknowledgement comes at time x for a packet sent at time y.  The    *)
(* clock may have been set back in between.                                *)
Measure(x, y) ==
  /\ rtt' = CalculateRtt(x, y)
  /\ elapsed' = Million * (x.sec - y.sec) + x.usec - y.usec
  /\ UNCHANGED <<srtt, mdev, mdev_max, rttvar, rto, estimates, least, most>>
-----------------------------------------------------------------------------
(* The round trip time as the estimator takes it: not 0. *)
Measurement == IF rtt = 0 THEN 1 ELSE rtt

(* Only init() assigns snd_una and rtt_seq. *)
After(seq1, seq2) == U32(seq1 - seq2) > 0
PeriodOver == After(0, 0)

FirstEstimate ==
  LET m == Measurement
  IN  /\ srtt' = U32(8 * m)
      /\ mdev' = U32(2 * m)
      /\ rttvar' = Larger(mdev', RtoMin)
      /\ mdev_max' = rttvar'

(* What is added to mdev when the estimate is off by err. *)
Gain(err) ==
  LET over == err - mdev \div 4
      under == -err - mdev \div 4
  IN  IF err >= 0 THEN over ELSE IF under > 0 THEN under \div 8 ELSE under

(* Mutant: the measurement is added without taking the old estimate off.   *)
LaterEstimateSummed ==
  LET err == Measurement - srtt \div 8
      peak == Larger(mdev', mdev_max)
  IN  /\ srtt' = U32(srtt + Measurement)
      /\ mdev' = U32(mdev + Gain(err))
      /\ mdev_max' = peak
      /\ rttvar' = Larger(rttvar, peak)

LaterEstimate ==
  LET err == Measurement - srtt \div 8
      peak == Larger(mdev', mdev_max)
      raised == IF mdev' > mdev_max THEN Larger(rttvar, peak) ELSE rttvar
  IN  /\ srtt' = U32(srtt + err)
      /\ mdev' = U32(mdev + Gain(err))
      /\ IF PeriodOver
         THEN /\ rttvar' = IF peak < raised THEN raised - (raised - peak) \div 4
                           ELSE raised
              /\ mdev_max' = RtoMin
         ELSE rttvar' = raised /\ mdev_max' = peak

(* Mutant: the smoothed round trip time is not scaled back.                *)
SetRtoScaled == U32(srtt' + rttvar')

(* __tcp_set_rto, after the estimator. *)
SetRto == U32(srtt' \div 8 + rttvar')

(* The driver sends or resends a frame. *)
Estimate ==
  /\ estimates < MaxEstimates
  /\ IF srtt = 0 THEN FirstEstimate ELSE LaterEstimate
  /\ rto' = SetRto
  /\ estimates' = estimates + 1
  /\ least' = IF estimates = 0 THEN Measurement ELSE Smaller(least, Measurement)
  /\ most' = Larger(most, Measurement)
  /\ UNCHANGED <<rtt, elapsed>>

RttNext == Estimate \/ \E x, y \in Times : Measure(x, y)

RttSpec == RttInit /\ [][RttNext]_rttVars
-----------------------------------------------------------------------------
(* No measurement is so long that eight times it does not fit a word.      *)
NoWrap == estimates > 0 /\ 8 * most < Word

(* The smoothed estimate stays among what was measured, although an old    *)
(* measurement is fed again at every send and the first sends, before any  *)
(* acknowledgement, feed 1: no sequence of updates lets it run away.       *)
SmoothedBetween == NoWrap => 8 * least <= srtt /\ srtt <= 8 * most

(* The timer is never shorter than the smoothed estimate and the mean      *)
(* deviation, nor than TCP_RTO_MIN, and never longer than five times the   *)
(* longest measurement or that measurement and TCP_RTO_MIN: a timer that   *)
(* is too short resends for ever, one too long stops the transfer.         *)
RtoBounded == NoWrap => /\ srtt \div 8 + Larger(mdev, RtoMin) <= rto
                        /\ rto <= most + Larger(4 * most, RtoMin)

(* What the estimator is fed is the time that went by, in one second or    *)
(* over several, unless the clock was set back.                            *)
MeasuresElapsed == 0 <= elapsed /\ elapsed < Word => rtt = elapsed
=============================================================================
