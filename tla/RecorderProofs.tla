--------------------------- MODULE RecorderProofs ---------------------------
(***************************************************************************)
(* Proofs about Recorder, for any encoder, travel and margins that satisfy *)
(* ScaleAssumption.                                                        *)
(***************************************************************************)
EXTENDS Recorder, TLAPS

LEMMA RawType ==
    ASSUME NEW o \in Offsets, NEW p \in 0 .. Travel
    PROVE  (o + p) % Rev \in Ticks
BY ScaleAssumption DEF Ticks

LEMMA ClampType ==
    ASSUME NEW n \in Int
    PROVE  ClampTick(n) \in Ticks
BY ScaleAssumption DEF ClampTick, Ticks

\* Unwrapping gives an integer, so a track stays a track.
LEMMA FoldType ==
    ASSUME NEW t \in Track, NEW raw \in Ticks
    PROVE  Fold(t, raw) \in Track
<1>1. Delta(t.lastRaw, raw) \in Int
  BY ScaleAssumption DEF Delta, Track, Ticks
<1>2. DEFINE c == t.cont + Delta(t.lastRaw, raw)
<1>3. c \in Int
  BY <1>1 DEF Track
<1>4. Min2(c, t.contMin) \in Int /\ Max2(c, t.contMax) \in Int
  BY <1>3 DEF Track, Min2, Max2
<1>5. CASE t.started
  <2>1. Fold(t, raw) =
            [started  |-> TRUE,
             lastRaw  |-> raw,
             cont     |-> c,
             contMin  |-> Min2(c, t.contMin),
             contMax  |-> Max2(c, t.contMax),
             rawAtMin |-> IF c < t.contMin THEN raw ELSE t.rawAtMin,
             rawAtMax |-> IF c > t.contMax THEN raw ELSE t.rawAtMax]
    BY <1>5 DEF Fold
  <2> HIDE DEF c
  <2>2. QED
    BY <1>3, <1>4, <2>1 DEF Track
<1>6. CASE ~t.started
  BY <1>6 DEF Fold, Track
<1>7. QED
  BY <1>5, <1>6

LEMMA U16Small == \A n \in Nat : n < 65536 => U16(n) = n
BY DEF U16

\* A window between two ticks that are more than two margins apart: the
\* unsigned arithmetic of its limits does not wrap, and they do not cross.
LEMMA WindowLimits ==
    ASSUME NEW lo \in Ticks, NEW hi \in Ticks, hi - lo > 2 * Margin
    PROVE  /\ Window(lo, hi).rawMin <= Window(lo, hi).softMin
           /\ Window(lo, hi).softMin < Window(lo, hi).softMax
           /\ Window(lo, hi).softMax <= Window(lo, hi).rawMax
<1>1. /\ Rev \in Nat /\ Rev < 65536 /\ Margin \in Nat
      /\ lo \in Nat /\ hi \in Nat /\ hi < Rev
  BY ScaleAssumption DEF Ticks
<1>2. /\ lo + Margin \in Nat /\ lo + Margin < 65536
      /\ hi - Margin \in Nat /\ hi - Margin < 65536
  BY <1>1
<1>3. U16(lo + Margin) = lo + Margin /\ U16(hi - Margin) = hi - Margin
  BY <1>1, <1>2, U16Small
<1>4. /\ lo <= lo + Margin /\ lo + Margin < hi - Margin /\ hi - Margin <= hi
  BY <1>1
<1>5. QED
  BY <1>3, <1>4 DEF Window

\* The window of a stopless joint is wide enough wherever its home is, also
\* where one of its ends is cut at the end of the scale.
LEMMA CenteredWide ==
    ASSUME home \in Ticks
    PROVE  ClampTick(home + Cap) - ClampTick(home - Cap) > 2 * Margin
BY ScaleAssumption DEF ClampTick, Ticks

\* What an accepted result is: a window of ticks around the home, wide enough.
LEMMA ResultWindow ==
    ASSUME TypeOK, Result.ok
    PROVE  /\ home \in Ticks
           /\ \E lo, hi \in Ticks : Result = Window(lo, hi) /\ hi - lo > 2 * Margin
<1>1. home \in Ticks
  BY DEF TypeOK, Result, Flagged
<1>2. CASE ~hasHardStop
  <2>1. Result = Window(ClampTick(home - Cap), ClampTick(home + Cap))
    BY <1>2 DEF Result, Flagged, DeriveCentered
  <2>2. ClampTick(home - Cap) \in Ticks /\ ClampTick(home + Cap) \in Ticks
    BY <1>1, ClampType, ScaleAssumption DEF Ticks
  <2>3. QED
    BY <1>1, <2>1, <2>2, CenteredWide
<1>3. CASE hasHardStop
  <2> DEFINE lo == Lo(track.rawAtMin, track.rawAtMax)
             hi == Hi(track.rawAtMin, track.rawAtMax)
  <2>1. lo \in Ticks /\ hi \in Ticks
    BY DEF TypeOK, Track, Lo, Hi, Min2, Max2
  <2>2. Result = DeriveHome(lo, hi)
    BY <1>3 DEF Result, Flagged
  <2> HIDE DEF lo, hi
  <2>3. Result = Window(lo, hi) /\ ~(hi - lo < MinRange)
    BY <2>2 DEF DeriveHome, Flagged
  <2>4. hi - lo > 2 * Margin
    BY <2>1, <2>3, ScaleAssumption DEF Ticks
  <2>5. QED
    BY <1>1, <2>1, <2>3, <2>4
<1>4. QED
  BY <1>2, <1>3

-----------------------------------------------------------------------------
\* Every reading, home and accepted limit is a tick of the encoder.
THEOREM TypeCorrect == Spec => []TypeOK
<1>1. Init => TypeOK
  <2> SUFFICES ASSUME Init PROVE TypeOK
    OBVIOUS
  <2>1. track \in Track
    BY ScaleAssumption DEF Init, NotStarted, Track, Ticks
  <2>2. swept \in (0 .. Travel) \X (0 .. Travel)
    BY DEF Init
  <2>3. QED
    BY <2>1, <2>2 DEF Init, TypeOK
<1>2. TypeOK /\ [Next]_vars => TypeOK'
  <2> SUFFICES ASSUME TypeOK, [Next]_vars PROVE TypeOK'
    OBVIOUS
  <2>1. ASSUME NEW p \in 0 .. Travel, NEW read \in BOOLEAN, Sample(p, read)
        PROVE  TypeOK'
    <3>1. /\ pos' \in 0 .. Travel
          /\ swept' \in (0 .. Travel) \X (0 .. Travel)
      BY <2>1, ScaleAssumption DEF Sample, TypeOK, Min2, Max2
    <3>2. track' \in Track
      BY <2>1, FoldType, RawType DEF Sample, TypeOK, Raw
    <3>3. readPos' \in 0 .. Travel /\ aliased' \in BOOLEAN
      BY <2>1 DEF Sample, TypeOK
    <3>4. UNCHANGED <<hasHardStop, offset, homePos, home, cal>>
      BY <2>1 DEF Sample
    <3>5. QED
      BY <3>1, <3>2, <3>3, <3>4 DEF TypeOK
  <2>2. CASE SetHome
    <3>1. home' \in Ticks
      BY <2>2, RawType DEF SetHome, TypeOK, Raw
    <3>2. QED
      BY <2>2, <3>1 DEF SetHome, TypeOK
  <2>3. CASE Finish
    <3>1. cal' # NA /\ cal'.ok => {cal'.rawMin, cal'.rawMax, cal'.zero} \subseteq Ticks
      <4> SUFFICES ASSUME Result.ok, cal' = Result
                   PROVE  {cal'.rawMin, cal'.rawMax, cal'.zero} \subseteq Ticks
        BY <2>3 DEF Finish
      <4>1. PICK lo \in Ticks, hi \in Ticks : Result = Window(lo, hi)
        BY ResultWindow
      <4>2. home \in Ticks
        BY ResultWindow
      <4>3. QED
        BY <4>1, <4>2 DEF Window
    <3>2. QED
      BY <2>3, <3>1 DEF Finish, TypeOK
  <2>4. CASE UNCHANGED vars
    BY <2>4 DEF vars, TypeOK
  <2>5. QED
    BY <2>1, <2>2, <2>3, <2>4 DEF Next
<1>3. QED
  BY <1>1, <1>2, PTL DEF Spec

\* The soft limits of an accepted calibration are a proper range inside the
\* recorded one, for every sequence of samples, homes and failed reads.
THEOREM SoftLimitsInsideCorrect == Spec => []SoftLimitsInside
<1>1. Init => SoftLimitsInside
  BY DEF Init, SoftLimitsInside, Accepted
<1>2. TypeOK /\ SoftLimitsInside /\ [Next]_vars => SoftLimitsInside'
  <2> SUFFICES ASSUME TypeOK, SoftLimitsInside, [Next]_vars
               PROVE  SoftLimitsInside'
    OBVIOUS
  <2>1. CASE Finish
    <3> SUFFICES ASSUME Result.ok, cal' = Result
                 PROVE  /\ cal'.rawMin <= cal'.softMin
                        /\ cal'.softMin < cal'.softMax
                        /\ cal'.softMax <= cal'.rawMax
      BY <2>1 DEF Finish, SoftLimitsInside, Accepted
    <3>1. PICK lo \in Ticks, hi \in Ticks :
              Result = Window(lo, hi) /\ hi - lo > 2 * Margin
      BY ResultWindow
    <3>2. QED
      BY <3>1, WindowLimits
  <2>2. CASE UNCHANGED cal
    BY <2>2 DEF SoftLimitsInside, Accepted
  <2>3. QED
    BY <2>1, <2>2 DEF Next, Sample, SetHome, vars
<1>3. QED
  BY <1>1, <1>2, TypeCorrect, PTL DEF Spec

-----------------------------------------------------------------------------
(* Arithmetic modulo a revolution.                                         *)

LEMMA ModDef ==
    ASSUME NEW n \in Nat \ {0}, NEW a \in Int
    PROVE  /\ a % n \in 0 .. n - 1
           /\ \E q \in Int : a = n * q + (a % n)
<1>1. a % n \in 0 .. n - 1
  OBVIOUS
<1>2. a = n * (a \div n) + (a % n) /\ a \div n \in Int
  OBVIOUS
<1>3. QED
  BY <1>1, <1>2

LEMMA SmallMultiple ==
    ASSUME NEW n \in Nat \ {0}, NEW k \in Int, NEW r \in Int,
           n * k = r, -n < r, r < n
    PROVE  k = 0 /\ r = 0
<1>1. k >= 1 => n * k >= n
  OBVIOUS
<1>2. k <= -1 => n * k <= -n
  OBVIOUS
<1>3. QED
  BY <1>1, <1>2

\* Two integers a multiple of n apart have the same remainder.
LEMMA SameRemainder ==
    ASSUME NEW n \in Nat \ {0}, NEW a \in Int, NEW b \in Int, NEW k \in Int,
           a = b + n * k
    PROVE  a % n = b % n
<1>1. PICK p \in Int : a = n * p + (a % n)
  BY ModDef
<1>2. PICK q \in Int : b = n * q + (b % n)
  BY ModDef
<1>3. n * (q + k - p) = (a % n) - (b % n)
  <2>1. n * (q + k - p) = n * q + n * k - n * p
    OBVIOUS
  <2>2. QED
    BY <1>1, <1>2, <2>1
<1>4. a % n \in 0 .. n - 1 /\ b % n \in 0 .. n - 1
  BY ModDef
<1>5. q + k - p = 0
  BY <1>3, <1>4, SmallMultiple
<1>6. QED
  BY <1>3, <1>4, <1>5

\* a and b are whole revolutions apart.
Congruent(a, b) == \E k \in Int : a = b + Rev * k

LEMMA CongruentMod ==
    ASSUME NEW a \in Int, NEW b \in Int, Congruent(a, b)
    PROVE  a % Rev = b % Rev
<1>1. Rev \in Nat \ {0}
  BY ScaleAssumption
<1>2. PICK k \in Int : a = b + Rev * k
  BY DEF Congruent
<1>3. QED
  BY <1>1, <1>2, SameRemainder

LEMMA CongruentSum ==
    ASSUME NEW a \in Int, NEW b \in Int, NEW c \in Int, NEW d \in Int,
           Congruent(a, b), Congruent(c, d)
    PROVE  Congruent(a + c, b + d) /\ Congruent(a - c, b - d)
<1>1. PICK k \in Int : a = b + Rev * k
  BY DEF Congruent
<1>2. PICK l \in Int : c = d + Rev * l
  BY DEF Congruent
<1>3. Rev * (k + l) = Rev * k + Rev * l /\ Rev * (k - l) = Rev * k - Rev * l
  BY ScaleAssumption
<1>4. Rev * k \in Int /\ Rev * l \in Int
  BY ScaleAssumption
<1>5. a + c = (b + d) + Rev * (k + l)
  BY <1>1, <1>2, <1>3, <1>4
<1>6. a - c = (b - d) + Rev * (k - l)
  BY <1>1, <1>2, <1>3, <1>4
<1>7. QED
  BY <1>5, <1>6 DEF Congruent

LEMMA CongruentSelf ==
    ASSUME NEW a \in Int
    PROVE  Congruent(a, a)
<1>1. a = a + Rev * 0
  BY ScaleAssumption
<1>2. QED
  BY <1>1 DEF Congruent

\* The signed distance between two readings is theirs, whole revolutions apart.
LEMMA DeltaCongruent ==
    ASSUME NEW from \in Ticks, NEW to \in Ticks
    PROVE  Delta(from, to) \in Int /\ Congruent(to - from, Delta(from, to))
<1>1. from \in Int /\ to \in Int /\ Rev \in Int
  BY ScaleAssumption DEF Ticks
<1>2. Delta(from, to) \in {to - from, to - from - Rev, to - from + Rev}
  BY DEF Delta
<1> DEFINE d == Delta(from, to)
<1> HIDE DEF d
<1>3. d \in Int
  BY <1>1, <1>2 DEF d
<1>4. to - from = d + Rev * 0 \/ to - from = d + Rev * 1 \/ to - from = d + Rev * (-1)
  BY <1>1, <1>2 DEF d
<1>5. Congruent(to - from, d)
  BY <1>4 DEF Congruent
<1>6. QED
  BY <1>3, <1>5 DEF d

-----------------------------------------------------------------------------
(* The extremes of a track and the raw ticks kept beside them.             *)

Extremes(t) ==
    /\ ~t.started => t.cont = 0 /\ t.contMin = 0 /\ t.contMax = 0
    /\ t.started =>
        /\ t.contMin <= t.cont /\ t.cont <= t.contMax
        /\ Congruent(t.rawAtMax - t.rawAtMin, t.contMax - t.contMin)
        /\ Congruent(t.lastRaw - t.rawAtMin, t.cont - t.contMin)

LEMMA FoldExtremes ==
    ASSUME NEW t \in Track, NEW raw \in Ticks, Extremes(t)
    PROVE  Extremes(Fold(t, raw))
<1> DEFINE u == Fold(t, raw)
<1>1. CASE ~t.started
  <2>1. /\ u.started /\ u.rawAtMin = raw /\ u.rawAtMax = raw /\ u.lastRaw = raw
        /\ u.cont = 0 /\ u.contMin = 0 /\ u.contMax = 0
    BY <1>1 DEF Fold, Track, Extremes
  <2>2. raw - raw = 0 /\ 0 - 0 = 0 /\ Congruent(0, 0)
    BY CongruentSelf DEF Ticks
  <2>3. QED
    BY <2>1, <2>2 DEF Extremes
<1>2. CASE t.started
  <2> DEFINE c == t.cont + Delta(t.lastRaw, raw)
  <2>1. /\ t.cont \in Int /\ t.contMin \in Int /\ t.contMax \in Int
        /\ t.lastRaw \in Int /\ t.rawAtMin \in Int /\ t.rawAtMax \in Int
        /\ t.lastRaw \in Ticks /\ raw \in Int
    BY ScaleAssumption DEF Track, Ticks
  <2>2. /\ Delta(t.lastRaw, raw) \in Int
        /\ Congruent(raw - t.lastRaw, Delta(t.lastRaw, raw))
    BY <2>1, DeltaCongruent
  <2>3. c \in Int /\ Delta(t.lastRaw, raw) = c - t.cont
    BY <2>1, <2>2
  <2>4. /\ u.started /\ u.lastRaw = raw /\ u.cont = c
        /\ u.contMin = Min2(c, t.contMin) /\ u.contMax = Max2(c, t.contMax)
        /\ u.rawAtMin = (IF c < t.contMin THEN raw ELSE t.rawAtMin)
        /\ u.rawAtMax = (IF c > t.contMax THEN raw ELSE t.rawAtMax)
    BY <1>2 DEF Fold
  <2> HIDE DEF c, u
  <2>5. /\ Congruent(t.rawAtMax - t.rawAtMin, t.contMax - t.contMin)
         /\ Congruent(t.lastRaw - t.rawAtMin, t.cont - t.contMin)
         /\ Congruent(raw - t.lastRaw, c - t.cont)
    BY <1>2, <2>2, <2>3 DEF Extremes
  <2>6. /\ t.rawAtMax - t.rawAtMin \in Int /\ t.contMax - t.contMin \in Int
         /\ t.lastRaw - t.rawAtMin \in Int /\ t.cont - t.contMin \in Int
         /\ raw - t.lastRaw \in Int /\ c - t.cont \in Int
         /\ raw - t.rawAtMin \in Int /\ c - t.contMin \in Int
    BY <2>1, <2>3
  \* The new reading from the lower extreme.
  <2>7. Congruent(raw - t.rawAtMin, c - t.contMin)
    <3>1. Congruent((t.lastRaw - t.rawAtMin) + (raw - t.lastRaw),
                    (t.cont - t.contMin) + (c - t.cont))
      BY <2>5, <2>6, CongruentSum
    <3>2. /\ (t.lastRaw - t.rawAtMin) + (raw - t.lastRaw) = raw - t.rawAtMin
          /\ (t.cont - t.contMin) + (c - t.cont) = c - t.contMin
      BY <2>1, <2>3
    <3>3. QED
      BY <3>1, <3>2
  \* The upper extreme from the new reading.
  <2>8. Congruent(t.rawAtMax - raw, t.contMax - c)
    <3>1. Congruent((t.rawAtMax - t.rawAtMin) - (raw - t.rawAtMin),
                    (t.contMax - t.contMin) - (c - t.contMin))
      BY <2>7, <2>5, <2>6, CongruentSum
    <3>2. /\ (t.rawAtMax - t.rawAtMin) - (raw - t.rawAtMin) = t.rawAtMax - raw
          /\ (t.contMax - t.contMin) - (c - t.contMin) = t.contMax - c
      BY <2>1, <2>3
    <3>3. QED
      BY <3>1, <3>2
  <2>9. raw - raw = 0 /\ c - c = 0 /\ Congruent(0, 0)
    BY <2>1, <2>3, CongruentSelf
  <2>10. t.contMin <= t.cont /\ t.cont <= t.contMax
    BY <1>2 DEF Extremes
  <2>11. CASE c < t.contMin
    <3>1. /\ u.contMin = c /\ u.contMax = t.contMax
          /\ u.rawAtMin = raw /\ u.rawAtMax = t.rawAtMax
      BY <2>1, <2>3, <2>4, <2>10, <2>11 DEF Min2, Max2
    <3>2. u.contMin <= u.cont /\ u.cont <= u.contMax
      BY <2>1, <2>3, <2>4, <2>10, <2>11, <3>1
    <3>3. Congruent(u.rawAtMax - u.rawAtMin, u.contMax - u.contMin)
      BY <2>8, <3>1
    <3>4. Congruent(u.lastRaw - u.rawAtMin, u.cont - u.contMin)
      BY <2>4, <2>9, <3>1
    <3>5. Extremes(u)
      BY <2>4, <3>2, <3>3, <3>4 DEF Extremes
    <3>6. QED
      BY <3>5 DEF u
  <2>12. CASE c > t.contMax
    <3>1. /\ u.contMin = t.contMin /\ u.contMax = c
          /\ u.rawAtMin = t.rawAtMin /\ u.rawAtMax = raw
      BY <2>1, <2>3, <2>4, <2>10, <2>12 DEF Min2, Max2
    <3>2. u.contMin <= u.cont /\ u.cont <= u.contMax
      BY <2>1, <2>3, <2>4, <2>10, <2>12, <3>1
    <3>3. Congruent(u.rawAtMax - u.rawAtMin, u.contMax - u.contMin)
      BY <2>7, <3>1
    <3>4. Congruent(u.lastRaw - u.rawAtMin, u.cont - u.contMin)
      BY <2>4, <2>7, <3>1
    <3>5. Extremes(u)
      BY <2>4, <3>2, <3>3, <3>4 DEF Extremes
    <3>6. QED
      BY <3>5 DEF u
  <2>13. CASE ~(c < t.contMin) /\ ~(c > t.contMax)
    <3>1. /\ u.contMin = t.contMin /\ u.contMax = t.contMax
          /\ u.rawAtMin = t.rawAtMin /\ u.rawAtMax = t.rawAtMax
      BY <2>1, <2>3, <2>4, <2>13 DEF Min2, Max2
    <3>2. u.contMin <= u.cont /\ u.cont <= u.contMax
      BY <2>1, <2>3, <2>4, <2>13, <3>1
    <3>3. Congruent(u.rawAtMax - u.rawAtMin, u.contMax - u.contMin)
      BY <2>5, <3>1
    <3>4. Congruent(u.lastRaw - u.rawAtMin, u.cont - u.contMin)
      BY <2>4, <2>7, <3>1
    <3>5. Extremes(u)
      BY <2>4, <3>2, <3>3, <3>4 DEF Extremes
    <3>6. QED
      BY <3>5 DEF u
  <2>14. QED
    BY <2>11, <2>12, <2>13
<1>3. QED
  BY <1>1, <1>2

LEMMA ExtremesCorrect == Spec => []Extremes(track)
<1>1. Init => Extremes(track)
  BY DEF Init, NotStarted, Extremes
<1>2. TypeOK /\ Extremes(track) /\ [Next]_vars => Extremes(track)'
  <2> SUFFICES ASSUME TypeOK, Extremes(track), [Next]_vars
               PROVE  Extremes(track)'
    OBVIOUS
  <2>1. ASSUME NEW p \in 0 .. Travel, NEW read \in BOOLEAN, Sample(p, read)
        PROVE  Extremes(track)'
    <3>1. track' = track \/ track' = Fold(track, Raw(p))
      BY <2>1 DEF Sample
    <3>2. track \in Track /\ Raw(p) \in Ticks
      BY RawType DEF TypeOK, Raw
    <3>3. Extremes(Fold(track, Raw(p)))
      BY <3>2, FoldExtremes
    <3>4. QED
      BY <3>1, <3>3 DEF Extremes
  <2>2. CASE UNCHANGED track
    BY <2>2 DEF Extremes
  <2>3. QED
    BY <2>1, <2>2 DEF Next, SetHome, Finish, vars
<1>3. QED
  BY <1>1, <1>2, TypeCorrect, PTL DEF Spec

\* Whatever the hand does, and however many reads fail, the unwrapped extremes
\* agree with the raw ticks kept beside them, modulo a revolution.
THEOREM ExtremesMatchTicksCorrect == Spec => []ExtremesMatchTicks
<1>1. TypeOK /\ Extremes(track) => ExtremesMatchTicks
  <2> SUFFICES ASSUME TypeOK, Extremes(track), track.started
               PROVE  /\ track.contMin <= track.cont /\ track.cont <= track.contMax
                      /\ (track.rawAtMax - track.rawAtMin) % Rev
                             = (track.contMax - track.contMin) % Rev
                      /\ (track.lastRaw - track.rawAtMin) % Rev
                             = (track.cont - track.contMin) % Rev
    BY DEF ExtremesMatchTicks
  <2>1. /\ track.cont \in Int /\ track.contMin \in Int /\ track.contMax \in Int
        /\ track.lastRaw \in Int /\ track.rawAtMin \in Int /\ track.rawAtMax \in Int
    BY ScaleAssumption DEF TypeOK, Track, Ticks
  <2>2. QED
    BY <2>1, CongruentMod DEF Extremes
<1>2. QED
  BY <1>1, TypeCorrect, ExtremesCorrect, PTL

-----------------------------------------------------------------------------
(* An accepted calibration is right.                                       *)

\* A raw tick is the sum of the offset and the position, less one revolution
\* past the seam.
LEMMA RawCases ==
    ASSUME NEW o \in Offsets, NEW p \in 0 .. Travel
    PROVE  /\ o \in 0 .. Rev - 1
           /\ (o + p) % Rev = IF o + p < Rev THEN o + p ELSE o + p - Rev
<1>1. /\ Rev \in Nat \ {0} /\ o \in 0 .. Rev - 1 /\ p \in 0 .. Rev - 1
      /\ o + p \in Int
  BY ScaleAssumption
<1>2. PICK r \in 0 .. Rev - 1, q \in Int :
          r = (o + p) % Rev /\ o + p = Rev * q + r
  BY <1>1, ModDef
<1>3. CASE o + p < Rev
  <2>1. Rev * q = (o + p) - r
    BY <1>1, <1>2
  <2>2. (o + p) - r = 0
    BY <1>1, <1>3, <2>1, SmallMultiple
  <2>3. QED
    BY <1>1, <1>2, <1>3, <2>2
<1>4. CASE o + p >= Rev
  <2>1. Rev * q = (o + p) - r
    BY <1>1, <1>2
  <2>2. Rev * (q - 1) = Rev * q - Rev
    BY <1>1
  <2>3. Rev * (q - 1) = (o + p) - r - Rev
    BY <2>1, <2>2
  <2>4. (o + p) - r - Rev = 0
    BY <1>1, <1>4, <2>3, SmallMultiple
  <2>5. r = o + p - Rev /\ ~(o + p < Rev)
    BY <1>1, <1>4, <2>4
  <2>6. QED
    BY <1>1, <1>2, <2>5
<1>5. QED
  BY <1>1, <1>3, <1>4

\* Less than half a revolution between two reads is seen as what it is.
LEMMA DeltaTrue ==
    ASSUME NEW o \in Offsets, NEW q \in 0 .. Travel, NEW p \in 0 .. Travel,
           ~(Abs(p - q) >= Rev \div 2)
    PROVE  Delta((o + q) % Rev, (o + p) % Rev) = p - q
<1> DEFINE h == Rev \div 2
           a == (o + q) % Rev
           b == (o + p) % Rev
<1>1. h \in Int /\ Rev = 2 * h
  <2>1. Rev \in Int /\ Rev % 2 = 0
    BY ScaleAssumption
  <2>2. QED
    BY <2>1
<1>2. o \in Int /\ p \in Int /\ q \in Int /\ Rev \in Int
  BY RawCases, ScaleAssumption
<1>3. -h < p - q /\ p - q < h
  <2> HIDE DEF h
  <2>1. ~(Abs(p - q) >= h)
    BY DEF h
  <2>2. QED
    BY <1>1, <1>2, <2>1 DEF Abs
<1>4. b \in {o + p, o + p - Rev} /\ a \in {o + q, o + q - Rev}
  BY RawCases
<1>5. Delta(a, b) = LET d == b - a IN
                    IF d > h THEN d - Rev ELSE IF d < -h THEN d + Rev ELSE d
  BY DEF Delta
<1> HIDE DEF h, a, b
<1>6. b - a \in {p - q, p - q - Rev, p - q + Rev}
  BY <1>2, <1>4
<1>7. Delta(a, b) = p - q
  BY <1>1, <1>2, <1>3, <1>5, <1>6
<1>8. QED
  BY <1>7 DEF a, b

\* As long as no move was missed, the lowest and the highest position read are
\* where the unwrapped extremes say, and their raw ticks are those positions'.
Lowest  == readPos + track.contMin - track.cont
Highest == readPos + track.contMax - track.cont

Traced ==
    /\ swept[1] <= pos /\ pos <= swept[2]
    /\ home # NA => homePos \in 0 .. Travel /\ home = Raw(homePos)
    /\ track.started /\ ~aliased =>
        /\ swept[1] <= Lowest /\ Highest <= swept[2]
        /\ track.rawAtMin = Raw(Lowest) /\ track.rawAtMax = Raw(Highest)
        /\ track.lastRaw = Raw(readPos)

\* One reading of a traced track.
LEMMA TracedSample ==
    ASSUME TypeOK, Extremes(track), Traced, NEW p \in 0 .. Travel,
           Sample(p, TRUE), ~aliased'
    PROVE  /\ swept'[1] <= Lowest' /\ Highest' <= swept'[2]
           /\ track'.rawAtMin = Raw(Lowest)' /\ track'.rawAtMax = Raw(Highest)'
           /\ track'.lastRaw = Raw(readPos)'
<1>1. /\ track' = Fold(track, Raw(p)) /\ readPos' = p /\ offset' = offset
      /\ swept' = <<Min2(p, swept[1]), Max2(p, swept[2])>>
  BY DEF Sample
<1>2. ~aliased /\ (track.started => ~(Abs(p - readPos) >= Rev \div 2))
  BY DEF Sample
<1>3. /\ readPos \in 0 .. Travel /\ swept[1] \in 0 .. Travel
      /\ swept[2] \in 0 .. Travel /\ offset \in Offsets /\ Travel \in Nat
      /\ p \in Int /\ Raw(p) \in Ticks
      /\ track.cont \in Int /\ track.contMin \in Int /\ track.contMax \in Int
      /\ track \in Track
  <2>1. readPos \in 0 .. Travel /\ track \in Track /\ offset \in Offsets
    BY DEF TypeOK
  <2>2. swept[1] \in 0 .. Travel /\ swept[2] \in 0 .. Travel
    BY DEF TypeOK
  <2>3. track.cont \in Int /\ track.contMin \in Int /\ track.contMax \in Int
    BY <2>1 DEF Track
  <2>4. Raw(p) \in Ticks
    BY <2>1, RawType DEF Raw
  <2>5. QED
    BY <2>1, <2>2, <2>3, <2>4, ScaleAssumption
<1>4. /\ swept'[1] <= swept[1] /\ swept'[1] <= p
      /\ swept[2] <= swept'[2] /\ p <= swept'[2]
  BY <1>1, <1>3 DEF Min2, Max2
<1>5. \A x : Raw(x)' = Raw(x)
  BY <1>1 DEF Raw
<1>6. CASE ~track.started
  <2>1. /\ track'.rawAtMin = Raw(p) /\ track'.rawAtMax = Raw(p)
        /\ track'.lastRaw = Raw(p)
        /\ track'.cont = 0 /\ track'.contMin = 0 /\ track'.contMax = 0
    BY <1>1, <1>3, <1>6 DEF Fold, Track, Extremes
  <2>2. Lowest' = p /\ Highest' = p
    BY <1>1, <1>3, <2>1 DEF Lowest, Highest
  <2>3. QED
    BY <1>1, <1>4, <2>1, <2>2 DEF Raw
<1>7. CASE track.started
  <2> DEFINE c == track.cont + (p - readPos)
  <2>1. Delta(track.lastRaw, Raw(p)) = p - readPos
    BY <1>2, <1>3, <1>7, DeltaTrue DEF Traced, Raw
  <2>2. /\ track'.lastRaw = Raw(p) /\ track'.cont = c
        /\ track'.contMin = Min2(c, track.contMin)
        /\ track'.contMax = Max2(c, track.contMax)
        /\ track'.rawAtMin = (IF c < track.contMin THEN Raw(p) ELSE track.rawAtMin)
        /\ track'.rawAtMax = (IF c > track.contMax THEN Raw(p) ELSE track.rawAtMax)
    BY <1>1, <1>7, <2>1 DEF Fold
  <2>3. /\ swept[1] <= Lowest /\ Highest <= swept[2]
        /\ track.rawAtMin = Raw(Lowest) /\ track.rawAtMax = Raw(Highest)
    BY <1>2, <1>7 DEF Traced
  <2>4. Lowest \in Int /\ Highest \in Int
    BY <1>3 DEF Lowest, Highest
  <2>5. swept'[1] <= Lowest' /\ track'.rawAtMin = Raw(Lowest)'
    <3>1. CASE c < track.contMin
      <4>1. track'.contMin = c /\ track'.rawAtMin = Raw(p)
        BY <1>3, <2>2, <3>1 DEF Min2
      <4>2. Lowest' = p
        BY <1>1, <1>3, <2>2, <4>1 DEF Lowest
      <4>3. QED
        BY <1>1, <1>4, <4>1, <4>2 DEF Raw
    <3>2. CASE ~(c < track.contMin)
      <4>1. track'.contMin = track.contMin /\ track'.rawAtMin = track.rawAtMin
        BY <1>3, <2>2, <3>2 DEF Min2
      <4>2. Lowest' = Lowest
        BY <1>1, <1>3, <2>2, <4>1 DEF Lowest
      <4>3. swept'[1] <= Lowest'
        BY <1>1, <1>3, <1>4, <2>3, <2>4, <4>2 DEF Min2
      <4>4. QED
        BY <1>1, <2>3, <4>1, <4>2, <4>3 DEF Raw
    <3>3. QED
      BY <3>1, <3>2
  <2>6. Highest' <= swept'[2] /\ track'.rawAtMax = Raw(Highest)'
    <3>1. CASE c > track.contMax
      <4>1. track'.contMax = c /\ track'.rawAtMax = Raw(p)
        BY <1>3, <2>2, <3>1 DEF Max2
      <4>2. Highest' = p
        BY <1>1, <1>3, <2>2, <4>1 DEF Highest
      <4>3. QED
        BY <1>1, <1>4, <4>1, <4>2 DEF Raw
    <3>2. CASE ~(c > track.contMax)
      <4>1. track'.contMax = track.contMax /\ track'.rawAtMax = track.rawAtMax
        BY <1>3, <2>2, <3>2 DEF Max2
      <4>2. Highest' = Highest
        BY <1>1, <1>3, <2>2, <4>1 DEF Highest
      <4>3. Highest' <= swept'[2]
        BY <1>1, <1>3, <1>4, <2>3, <2>4, <4>2 DEF Max2
      <4>4. QED
        BY <1>1, <2>3, <4>1, <4>2, <4>3 DEF Raw
    <3>3. QED
      BY <3>1, <3>2
  <2>7. QED
    BY <1>1, <2>2, <2>5, <2>6 DEF Raw
<1>8. QED
  BY <1>6, <1>7

LEMMA TracedCorrect == Spec => []Traced
<1>1. Init => Traced
  <2> SUFFICES ASSUME Init PROVE Traced
    OBVIOUS
  <2>1. swept[1] = pos /\ swept[2] = pos /\ pos \in Int
    BY ScaleAssumption DEF Init
  <2>2. ~track.started /\ home = NA
    BY DEF Init, NotStarted
  <2>3. QED
    BY <2>1, <2>2 DEF Traced
<1>2. TypeOK /\ Extremes(track) /\ Traced /\ [Next]_vars => Traced'
  <2> SUFFICES ASSUME TypeOK, Extremes(track), Traced, [Next]_vars
               PROVE  Traced'
    OBVIOUS
  <2>1. ASSUME NEW p \in 0 .. Travel, NEW read \in BOOLEAN, Sample(p, read)
        PROVE  Traced'
    <3>1. /\ swept' = <<Min2(p, swept[1]), Max2(p, swept[2])>> /\ pos' = p
          /\ UNCHANGED <<home, homePos, offset>>
      BY <2>1 DEF Sample
    <3>2. swept[1] \in 0 .. Travel /\ swept[2] \in 0 .. Travel
      BY DEF TypeOK
    <3>3. /\ swept'[1] <= pos' /\ pos' <= swept'[2]
          /\ swept'[1] <= swept[1] /\ swept[2] <= swept'[2]
      BY <3>1, <3>2, ScaleAssumption DEF Min2, Max2
    <3>4. home' # NA => homePos' \in 0 .. Travel /\ home' = Raw(homePos)'
      BY <3>1 DEF Traced, Raw
    <3>5. CASE read
      <4>1. Sample(p, TRUE)
        BY <2>1, <3>5 DEF Sample
      <4>2. QED
        BY <3>3, <3>4, <4>1, TracedSample DEF Traced
    <3>6. CASE ~read
      <4>1. UNCHANGED <<track, readPos, offset>>
        BY <2>1, <3>6 DEF Sample
      <4>2. ~aliased' => ~aliased
        BY <2>1, <3>6 DEF Sample
      <4>3. /\ track.started /\ ~aliased =>
                 swept'[1] <= Lowest /\ Highest <= swept'[2]
        <5>1. Lowest \in Int /\ Highest \in Int
          <6>1. /\ readPos \in Int /\ track.cont \in Int
                /\ track.contMin \in Int /\ track.contMax \in Int
            BY ScaleAssumption DEF TypeOK, Track
          <6>2. QED
            BY <6>1 DEF Lowest, Highest
        <5>2. swept'[1] \in Int /\ swept'[2] \in Int
          BY <3>1, <3>2, ScaleAssumption DEF Min2, Max2
        <5>3. QED
          BY <3>2, <3>3, <5>1, <5>2, ScaleAssumption DEF Traced
      <4>4. QED
        BY <3>3, <3>4, <4>1, <4>2, <4>3 DEF Traced, Lowest, Highest, Raw
    <3>7. QED
      BY <3>5, <3>6
  <2>2. CASE SetHome
    <3>1. /\ homePos' = pos /\ home' = Raw(pos)
          /\ UNCHANGED <<offset, pos, swept, track, readPos>>
      BY <2>2 DEF SetHome
    <3>2. aliased' = aliased
      BY <2>2 DEF SetHome
    <3>3. pos \in 0 .. Travel
      BY DEF TypeOK
    <3>4. QED
      BY <3>1, <3>2, <3>3 DEF Traced, Lowest, Highest, Raw
  <2>3. CASE Finish \/ UNCHANGED vars
    <3>1. UNCHANGED <<offset, pos, swept, homePos, home, track, readPos>>
      BY <2>3 DEF Finish, vars
    <3>2. aliased' = aliased
      BY <2>3 DEF Finish, vars
    <3>3. QED
      BY <3>1, <3>2 DEF Traced, Lowest, Highest, Raw
  <2>4. QED
    BY <2>1, <2>2, <2>3 DEF Next
<1>3. QED
  BY <1>1, <1>2, TypeCorrect, ExtremesCorrect, PTL DEF Spec

\* The arithmetic of an accepted range, for raw ticks ra and rb of the lowest
\* position a and the highest b, with the home tick rh of position h between
\* them and the encoder's zero o: no seam lies in the range.
LEMMA NoSeamInside ==
    ASSUME NEW o \in Offsets, NEW a \in 0 .. Travel, NEW b \in 0 .. Travel,
           NEW h \in 0 .. Travel, NEW ra \in Ticks, NEW rb \in Ticks,
           NEW rh \in Ticks, a <= b,
           ra = (o + a) % Rev, rb = (o + b) % Rev, rh = (o + h) % Rev,
           ~(Abs((b - a) - Abs(rb - ra)) > Slack),
           Abs(2 * (b - a) - Rev) > Slack,
           Lo(ra, rb) <= rh, rh <= Hi(ra, rb),
           NEW raw \in Lo(ra, rb) .. Hi(ra, rb)
    PROVE  \E p \in a .. b : (o + p) % Rev = raw /\ raw - rh = p - h
<1>1. /\ Rev \in Nat /\ Travel \in Nat /\ Travel < Rev /\ Slack \in Nat
      /\ o \in 0 .. Rev - 1
  BY ScaleAssumption
<1>2. /\ ra = (IF o + a < Rev THEN o + a ELSE o + a - Rev)
      /\ rb = (IF o + b < Rev THEN o + b ELSE o + b - Rev)
      /\ rh = (IF o + h < Rev THEN o + h ELSE o + h - Rev)
  BY RawCases
<1>3. rb - ra = b - a
  <2>1. rb - ra \in {b - a, b - a - Rev}
    BY <1>1, <1>2
  <2>2. rb - ra = b - a - Rev => Abs(rb - ra) = Rev - (b - a)
    BY <1>1 DEF Abs, Ticks
  <2>3. rb - ra = b - a - Rev => (b - a) - Abs(rb - ra) = 2 * (b - a) - Rev
    BY <1>1, <2>2
  <2>4. QED
    BY <2>1, <2>3
<1>4. Lo(ra, rb) = ra /\ Hi(ra, rb) = rb
  BY <1>1, <1>3 DEF Lo, Hi, Min2, Max2, Ticks
<1>5. raw \in Int /\ ra <= raw /\ raw <= rb /\ ra <= rh /\ rh <= rb
  BY <1>4 DEF Ticks
<1> DEFINE p == a + (raw - ra)
<1>6. p \in a .. b /\ p \in 0 .. Travel
  BY <1>1, <1>3, <1>5 DEF Ticks
<1>7. (o + p) % Rev = IF o + p < Rev THEN o + p ELSE o + p - Rev
  BY <1>6, RawCases
<1> DEFINE m == (o + p) % Rev
<1>8. m = raw
  <2>1. m = IF o + p < Rev THEN o + p ELSE o + p - Rev
    BY <1>7
  <2> HIDE DEF m
  <2>2. raw < Rev /\ 0 <= raw
    BY <1>1, <1>5 DEF Ticks
  <2>3. QED
    BY <1>1, <1>2, <1>3, <1>5, <2>1, <2>2
<1>9. raw - rh = p - h
  BY <1>1, <1>2, <1>3, <1>5 DEF Ticks
<1>10. QED
  BY <1>6, <1>8, <1>9

\* A calibration accepted by Finish has a true map.
LEMMA FinishTrue ==
    ASSUME TypeOK, Extremes(track), Traced, Finish, Result.ok, hasHardStop,
           ~aliased,
           Abs(2 * (track.contMax - track.contMin) - Rev) > Slack
    PROVE  TrueMap'
<1> DEFINE ra == track.rawAtMin
           rb == track.rawAtMax
           a  == Lowest
           b  == Highest
<1>1. track.started /\ home # NA /\ ~SeamSeen
  BY DEF Result, Flagged
<1>2. /\ Result = DeriveHome(Lo(ra, rb), Hi(ra, rb))
      /\ cal' = Result
      /\ UNCHANGED <<offset, swept, homePos>>
  BY <1>1 DEF Result, Finish, Flagged
<1>3. /\ cal'.rawMin = Lo(ra, rb) /\ cal'.rawMax = Hi(ra, rb) /\ cal'.zero = home
      /\ ~(home < Lo(ra, rb)) /\ ~(home > Hi(ra, rb))
  BY <1>2 DEF DeriveHome, Flagged, Window
<1>4. /\ ra \in Ticks /\ rb \in Ticks /\ home \in Ticks
      /\ homePos \in 0 .. Travel /\ offset \in Offsets
      /\ ra = (offset + a) % Rev /\ rb = (offset + b) % Rev
      /\ home = (offset + homePos) % Rev
  BY <1>1 DEF TypeOK, Track, Traced, Raw
<1>5. /\ readPos \in Int /\ track.cont \in Int
      /\ track.contMin \in Int /\ track.contMax \in Int
  BY ScaleAssumption DEF TypeOK, Track
<1>6. swept[1] \in 0 .. Travel /\ swept[2] \in 0 .. Travel
  BY DEF TypeOK
<1>7. /\ a \in Int /\ b \in Int /\ a <= b
      /\ b - a = track.contMax - track.contMin
  BY <1>1, <1>5 DEF Extremes, Lowest, Highest
<1>8. /\ swept[1] <= a /\ b <= swept[2]
  BY <1>1 DEF Traced
<1> HIDE DEF a, b
<1>9. a \in 0 .. Travel /\ b \in 0 .. Travel
  BY <1>6, <1>7, <1>8, ScaleAssumption
<1>10. /\ ~(Abs((b - a) - Abs(rb - ra)) > Slack)
       /\ Abs(2 * (b - a) - Rev) > Slack
  BY <1>1, <1>7 DEF SeamSeen
<1>11. Lo(ra, rb) <= home /\ home <= Hi(ra, rb)
  BY <1>3, <1>4, ScaleAssumption DEF Ticks, Lo, Hi, Min2, Max2
<1> HIDE DEF ra, rb
<1>12. \A raw \in Lo(ra, rb) .. Hi(ra, rb) :
           \E p \in a .. b : (offset + p) % Rev = raw /\ raw - home = p - homePos
  BY <1>4, <1>7, <1>9, <1>10, <1>11, NoSeamInside
<1>13. \A p \in a .. b : p \in swept[1] .. swept[2]
  BY <1>6, <1>7, <1>8, ScaleAssumption
<1>14. QED
  BY <1>2, <1>3, <1>12, <1>13 DEF TrueMap, Raw

\* The map of an accepted hard-stopped joint is right, for every encoder and
\* every sequence of moves, failed reads and homes without an aliased move, away
\* from half a revolution of travel.
THEOREM AcceptedIsTrueCorrect == Spec => []AcceptedIsTrue
<1>1. Init => AcceptedIsTrue
  BY DEF Init, AcceptedIsTrue, Accepted
<1>2. TypeOK /\ Extremes(track) /\ Traced /\ AcceptedIsTrue /\ [Next]_vars
          => AcceptedIsTrue'
  <2> SUFFICES ASSUME TypeOK, Extremes(track), Traced, AcceptedIsTrue,
                      [Next]_vars
               PROVE  AcceptedIsTrue'
    OBVIOUS
  <2>1. CASE Finish
    <3>1. UNCHANGED track /\ (hasHardStop' <=> hasHardStop) /\ (aliased' <=> aliased)
      BY <2>1 DEF Finish
    <3>2. cal' = Result
      BY <2>1 DEF Finish
    <3>3. QED
      BY <2>1, <3>1, <3>2, FinishTrue DEF AcceptedIsTrue, Accepted
  <2>2. CASE (\E p \in 0 .. Travel, read \in BOOLEAN : Sample(p, read)) \/ SetHome
    <3>1. cal' = NA
      BY <2>2 DEF Sample, SetHome
    <3>2. QED
      BY <3>1 DEF AcceptedIsTrue, Accepted
  <2>3. CASE UNCHANGED vars
    <3>1. /\ UNCHANGED <<track, cal, swept, offset, homePos>>
          /\ hasHardStop' = hasHardStop /\ aliased' = aliased
      BY <2>3 DEF vars
    <3>2. QED
      BY <3>1 DEF AcceptedIsTrue, Accepted, TrueMap, Raw
  <2>4. QED
    BY <2>1, <2>2, <2>3 DEF Next
<1>3. QED
  BY <1>1, <1>2, TypeCorrect, ExtremesCorrect, TracedCorrect, PTL DEF Spec
=============================================================================
