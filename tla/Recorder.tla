------------------------------ MODULE Recorder ------------------------------
(***************************************************************************)
(* One joint of the calibration recorder: record.go, DeriveHome and        *)
(* DeriveCentered of jointmap.go and clampTick of config.go.               *)
(*                                                                         *)
(* The joint is moved by hand between two samples and its encoder read     *)
(* modulo Rev; reads may fail.  Positions and ticks have the same scale,   *)
(* the encoder's zero lies anywhere in the joint's travel, and angles are  *)
(* counted in ticks (TicksPerRad is a fixed factor).  The six joints are   *)
(* independent of each other.                                              *)
(***************************************************************************)
EXTENDS Integers

CONSTANTS
    Rev,          \* TicksPerRev
    Travel,       \* the joint moves between positions 0 and Travel
    Offsets,      \* encoder readings of position 0 to consider
    MaxMove,      \* bound: largest move between two samples
    MaxCont,      \* bound: largest unwrapped position
    Kinds,        \* the kinds of joint: TRUE for a hard stop, FALSE for the wrist roll
    Slack,        \* SeamSlackTicks
    Margin,       \* SoftLimitMarginTicks
    MinRange,     \* MinRangeTicks
    Cap,          \* NoStopCapTicks
    NA

ASSUME ScaleAssumption ==
    /\ Rev \in Nat /\ Rev % 2 = 0 /\ Rev > 0 /\ Rev < 65536
    /\ Travel \in Nat /\ Travel < Rev
    /\ Offsets \subseteq 0 .. Rev - 1
    /\ MaxMove \in Nat /\ MaxCont \in Nat
    /\ Kinds \subseteq BOOLEAN
    /\ Slack \in Nat /\ Margin \in Nat
    /\ MinRange \in Nat /\ MinRange > 2 * Margin
    /\ Cap \in Nat /\ Cap > 2 * Margin /\ Cap < Rev
    /\ NA \notin Int

VARIABLES
    hasHardStop,  \* FALSE if the joint spins freely
    offset,   \* encoder reading of position 0
    pos,      \* where the joint is
    swept,    \* lowest and highest position it has been at in this session
    homePos,  \* where it was when the home was captured, NA before
    home,     \* raw tick at the home pose, NA before
    track,    \* the recorder's track of the joint
    cal,      \* the result, NA until the session is finished
    readPos,  \* where the joint was when it was last read (history)
    aliased   \* it moved half a revolution or more between two reads (history)

vars == <<hasHardStop, offset, pos, swept, homePos, home, track, cal, readPos, aliased>>

Ticks == 0 .. Rev - 1

Raw(p) == (offset + p) % Rev

Abs(n)    == IF n < 0 THEN -n ELSE n
Min2(a, b) == IF a < b THEN a ELSE b
Max2(a, b) == IF a < b THEN b ELSE a

\* uint16 arithmetic.
U16(n) == n % 65536

NotStarted == [started |-> FALSE, lastRaw |-> 0, cont |-> 0, contMin |-> 0,
               contMax |-> 0, rawAtMin |-> 0, rawAtMax |-> 0]

Init ==
    /\ hasHardStop \in Kinds
    /\ offset \in Offsets
    /\ pos \in 0 .. Travel
    /\ swept = <<pos, pos>>
    /\ homePos = NA /\ home = NA
    /\ track = NotStarted
    /\ cal = NA
    /\ readPos = pos /\ aliased = FALSE

-----------------------------------------------------------------------------
(* Sampling.                                                               *)

\* Mutant of Delta: the seam is not unwrapped.
DirectDelta(from, to) == to - from

\* The signed distance between two readings, the shorter way round.
Delta(from, to) ==
    LET d == to - from IN
    IF d > Rev \div 2 THEN d - Rev ELSE IF d < -(Rev \div 2) THEN d + Rev ELSE d

\* Mutant of Fold: the raw tick of the upper extreme is the highest one read.
FoldHighestRaw(t, raw) ==
    IF ~t.started
    THEN [t EXCEPT !.started = TRUE, !.lastRaw = raw, !.rawAtMin = raw,
                   !.rawAtMax = raw]
    ELSE LET c == t.cont + Delta(t.lastRaw, raw) IN
         [started  |-> TRUE,
          lastRaw  |-> raw,
          cont     |-> c,
          contMin  |-> Min2(c, t.contMin),
          contMax  |-> Max2(c, t.contMax),
          rawAtMin |-> IF c < t.contMin THEN raw ELSE t.rawAtMin,
          rawAtMax |-> Max2(raw, t.rawAtMax)]

\* One reading folded into the track: the first only starts it.
Fold(t, raw) ==
    IF ~t.started
    THEN [t EXCEPT !.started = TRUE, !.lastRaw = raw, !.rawAtMin = raw,
                   !.rawAtMax = raw]
    ELSE LET c == t.cont + Delta(t.lastRaw, raw) IN
         [started  |-> TRUE,
          lastRaw  |-> raw,
          cont     |-> c,
          contMin  |-> Min2(c, t.contMin),
          contMax  |-> Max2(c, t.contMax),
          rawAtMin |-> IF c < t.contMin THEN raw ELSE t.rawAtMin,
          rawAtMax |-> IF c > t.contMax THEN raw ELSE t.rawAtMax]

\* The hand moves the joint to p, then it is sampled; a failed read is skipped.
Sample(p, read) ==
    /\ cal = NA
    /\ Abs(p - pos) <= MaxMove
    /\ pos' = p
    /\ swept' = <<Min2(p, swept[1]), Max2(p, swept[2])>>
    /\ IF read
       THEN /\ track' = Fold(track, Raw(p))
            /\ Abs(track'.cont) <= MaxCont
            /\ readPos' = p
            /\ aliased' = (aliased \/ (/\ track.started
                                      /\ Abs(p - readPos) >= Rev \div 2))
       ELSE UNCHANGED <<track, readPos, aliased>>
    /\ UNCHANGED <<hasHardStop, offset, homePos, home, cal>>

\* SetHome, when the joint can be read; it may be captured again.
SetHome ==
    /\ cal = NA
    /\ homePos' = pos
    /\ home' = Raw(pos)
    /\ UNCHANGED <<hasHardStop, offset, pos, swept, track, cal, readPos, aliased>>

-----------------------------------------------------------------------------
(* Results.                                                                *)

Flagged(reason) == [ok |-> FALSE, flag |-> reason]

\* orderRaw.
Lo(a, b) == Min2(a, b)
Hi(a, b) == Max2(a, b)

Window(lo, hi) == [ok |-> TRUE, flag |-> "", rawMin |-> lo, rawMax |-> hi,
                   zero |-> home, softMin |-> U16(lo + Margin),
                   softMax |-> U16(hi - Margin)]

\* Mutant of DeriveHome: small ranges pass.
DeriveHomeAnyRange(lo, hi) ==
    IF home < lo \/ home > hi THEN Flagged("home outside swept range")
    ELSE Window(lo, hi)

DeriveHome(lo, hi) ==
    IF hi - lo < MinRange THEN Flagged("range too small")
    ELSE IF home < lo \/ home > hi THEN Flagged("home outside swept range")
    ELSE Window(lo, hi)

ClampTick(n) == IF n < 0 THEN 0 ELSE IF n > Rev - 1 THEN Rev - 1 ELSE n

\* The fixed fence of a stopless joint.
DeriveCentered == Window(ClampTick(home - Cap), ClampTick(home + Cap))

\* The direct distance of the extremes' raw ticks differs from the unwrapped
\* span by more than the slack.
SeamSeen ==
    Abs((track.contMax - track.contMin) - Abs(track.rawAtMax - track.rawAtMin))
        > Slack

Result ==
    IF ~track.started THEN Flagged("no read")
    ELSE IF home = NA THEN Flagged("no home pose")
    ELSE IF ~hasHardStop THEN DeriveCentered
    ELSE IF SeamSeen THEN Flagged("seam in workspace")
    ELSE DeriveHome(Lo(track.rawAtMin, track.rawAtMax),
                    Hi(track.rawAtMin, track.rawAtMax))

\* FinishRecording.
Finish ==
    /\ cal = NA
    /\ cal' = Result
    /\ UNCHANGED <<hasHardStop, offset, pos, swept, homePos, home, track, readPos, aliased>>

Next == \/ \E p \in 0 .. Travel, read \in BOOLEAN : Sample(p, read)
        \/ SetHome
        \/ Finish

Spec == Init /\ [][Next]_vars

-----------------------------------------------------------------------------
(* Properties.                                                             *)

Track == [started : BOOLEAN, lastRaw : Ticks, cont : Int, contMin : Int,
          contMax : Int, rawAtMin : Ticks, rawAtMax : Ticks]

TypeOK ==
    /\ hasHardStop \in Kinds
    /\ offset \in Offsets
    /\ pos \in 0 .. Travel
    /\ swept \in (0 .. Travel) \X (0 .. Travel)
    /\ homePos \in (0 .. Travel) \cup {NA}
    /\ home \in Ticks \cup {NA}
    /\ track \in Track
    /\ cal # NA /\ cal.ok => {cal.rawMin, cal.rawMax, cal.zero} \subseteq Ticks
    /\ readPos \in 0 .. Travel /\ aliased \in BOOLEAN

\* The unwrapped position and its extremes agree with the raw ticks kept beside
\* them, modulo a revolution, however far the joint moved between two reads.
ExtremesMatchTicks ==
    track.started =>
        /\ track.contMin <= track.cont /\ track.cont <= track.contMax
        /\ (track.rawAtMax - track.rawAtMin) % Rev
               = (track.contMax - track.contMin) % Rev
        /\ (track.lastRaw - track.rawAtMin) % Rev
               = (track.cont - track.contMin) % Rev

Accepted == cal # NA /\ cal.ok

\* The recorded range was swept, and the map gives every tick of it its true
\* angle from the home pose.
TrueMap ==
    \A raw \in cal.rawMin .. cal.rawMax :
        \E p \in swept[1] .. swept[2] :
            Raw(p) = raw /\ raw - cal.zero = p - homePos

\* A hard-stopped joint's calibration is only accepted when its map is right,
\* if no two consecutive reads are half a revolution or more apart and the
\* recorded span is not within Slack of half a revolution.
AcceptedIsTrue ==
    Accepted /\ hasHardStop /\ ~aliased
        /\ Abs(2 * (track.contMax - track.contMin) - Rev) > Slack
    => TrueMap

\* The soft limits of an accepted joint are a proper range of ticks inside the
\* recorded one; the unsigned margin arithmetic does not wrap.
SoftLimitsInside ==
    Accepted => /\ cal.rawMin <= cal.softMin
                /\ cal.softMin < cal.softMax
                /\ cal.softMax <= cal.rawMax
=============================================================================
