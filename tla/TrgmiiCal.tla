----------------------------- MODULE TrgmiiCal ------------------------------
(***************************************************************************)
(* The calibration of the TRGMII link between the MT7623 and the MT7530    *)
(* (trgmii_calibration_7623, trgmii_calibration_7530 of rt2880_eth.c): a   *)
(* delay of the clock that has every lane fail at tap 0, then for each     *)
(* lane the first and the last tap without errors, and the middle of both. *)
(* The two routines differ in steps and in the order of their accesses.    *)
(*                                                                         *)
(* A lane is received without errors at the taps from lo to hi - 1, moved  *)
(* by the delay of the clock.                                              *)
(***************************************************************************)
EXTENDS Integers, FiniteSetsExt

CONSTANTS LaneCount,   \* 5 in the code
          Taps,        \* 128
          CkSteps,     \* the steps of the clock on either side, 4 and 8
          CkEnd,       \* 0x68
          Skip,        \* 4, into the window before its end is searched
          Windows      \* windows that a lane may have

Sides == {"7623", "7530"}

ASSUME CalSizes ==
  /\ LaneCount \in Nat \ {0} /\ Taps \in Nat \ {0} /\ CkEnd \in Nat /\ Skip \in Nat
  /\ CkSteps \in [Sides -> Nat \ {0}]
  /\ Windows \subseteq [lo : Int, hi : Int] /\ Windows # {}

Lanes == 1 .. LaneCount
Unset == -1            \* tap_a[i] is a local variable

VARIABLES cal_lane,   \* the windows of the lanes
          cal_side,   \* which routine runs
          cal         \* its variables
calVars == <<cal_lane, cal_side, cal>>

CkStep == CkSteps[cal_side]

\* EDGE CHK: the error count and the training word after wait_loop.
Good(l, tap) == cal_lane[l].lo + cal.ck <= tap /\ tap < cal_lane[l].hi + cal.ck

\* Faulty variant of AllBad: one bad lane is enough.
AnyBad(flag) == \E l \in Lanes : flag[l]

\* err_total_flag
AllBad(flag) == \A l \in Lanes : flag[l]

Flags == [l \in Lanes |-> ~Good(l, cal.tap[l])]

\* Faulty variant of Turn: the new tap is not written to the register.
TurnLost(l, n) == cal.tap

Turn(l, n) == [cal.tap EXCEPT ![l] = n % Taps]     \* n = 128 sets the bit above the field

AdjustClock ==
  /\ cal.pc = "clock"
  /\ LET ck == IF AllBad(Flags) THEN cal.ck ELSE cal.ck + CkStep
     IN cal' = [cal EXCEPT !.flag = Flags, !.ck = ck,
                  !.seen = Flags,
                  !.pc = IF AllBad(Flags) \/ ck = CkEnd THEN "start" ELSE @]
  /\ UNCHANGED <<cal_lane, cal_side>>

\* The lanes take their turns; one that was good at tap 0 has none.
Current == Min({l \in Lanes : cal.flag[l]})

\* Faulty variant of StartStep: the tap that is written is not the one recorded.
StartStepOff(tap) == tap

StartStep(tap) == tap + 1

FindStart7623 ==
  /\ cal_side = "7623" /\ cal.pc = "start" /\ \E l \in Lanes : cal.flag[l]
  /\ LET l == Current  t == cal.tap[l]
     IN cal' = IF Good(l, t)
               THEN [cal EXCEPT !.flag[l] = FALSE, !.tap = Turn(l, t + Skip)]
               ELSE [cal EXCEPT !.tap = Turn(l, t + 1), !.tap_a[l] = StartStep(t)]
  /\ UNCHANGED <<cal_lane, cal_side>>

\* The 7530 is asked before the check is started: the answer is that of the
\* check before, which the last clock step may have made out of date.
FindStart7530 ==
  /\ cal_side = "7530" /\ cal.pc = "start" /\ \E l \in Lanes : cal.flag[l]
  /\ LET l == Current  t == cal.tap[l]
         n == IF cal.seen[l] THEN t + 1 ELSE t + Skip
     IN cal' = [cal EXCEPT !.flag[l] = cal.seen[l], !.tap = Turn(l, n),
                  !.tap_a[l] = IF cal.seen[l] THEN StartStep(t) ELSE t,
                  !.seen[l] = ~Good(l, n % Taps)]
  /\ UNCHANGED <<cal_lane, cal_side>>

StartsFound ==
  /\ cal.pc = "start" /\ \A l \in Lanes : ~cal.flag[l]
  /\ cal' = [cal EXCEPT !.pc = "end"]
  /\ UNCHANGED <<cal_lane, cal_side>>

Middle(l) == {(a + cal.rd) \div 2 : a \in IF cal.tap_a[l] = Unset THEN {0, Taps} ELSE {cal.tap_a[l]}}

NextLane(l) == \E f \in Middle(l) :
  cal' = [cal EXCEPT !.final[l] = f, !.tap = Turn(l, f), !.i = l + 1, !.rd = 0, !.err = FALSE,
            !.pc = IF l + 1 \in Lanes THEN @ ELSE "done"]

StopAt(rd) == rd = Taps

FindEnd7623 ==
  /\ cal_side = "7623" /\ cal.pc = "end"
  /\ LET l == cal.i  n == cal.tap[l] + 1
     IN IF cal.err \/ StopAt(cal.rd) THEN NextLane(l)
        ELSE cal' = [cal EXCEPT !.tap = Turn(l, n), !.rd = n, !.err = ~Good(l, n % Taps)]
  /\ UNCHANGED <<cal_lane, cal_side>>

FindEnd7530 ==
  /\ cal_side = "7530" /\ cal.pc = "end"
  /\ LET l == cal.i  n == cal.tap[l] + 1
     IN IF cal.err \/ StopAt(cal.rd) THEN NextLane(l)
        ELSE IF cal.seen[l] THEN cal' = [cal EXCEPT !.err = TRUE]
        ELSE cal' = [cal EXCEPT !.tap = Turn(l, n), !.rd = n, !.seen[l] = ~Good(l, n % Taps)]
  /\ UNCHANGED <<cal_lane, cal_side>>

CalInit ==
  /\ cal_lane \in [Lanes -> Windows] /\ cal_side \in Sides
  /\ cal = [pc |-> "clock", ck |-> 0, tap |-> [l \in Lanes |-> 0],
            flag |-> [l \in Lanes |-> FALSE], seen |-> [l \in Lanes |-> FALSE],
            tap_a |-> [l \in Lanes |-> Unset], i |-> 1, rd |-> 0, err |-> FALSE,
            final |-> [l \in Lanes |-> 0]]

CalNext == AdjustClock \/ FindStart7623 \/ FindStart7530 \/ StartsFound
             \/ FindEnd7623 \/ FindEnd7530
-----------------------------------------------------------------------------
\* What the routines can calibrate: every window opens behind tap 0 before
\* the delay of the clock has been raised to its limit, and is wide enough
\* for the skip, which ends before the last tap although the clock is
\* delayed for the sake of another lane.  Others end without a start of the
\* window, or not at all.
Calibratable ==
  \A l \in Lanes :
    LET w == cal_lane[l]
    IN  /\ w.hi > 0 /\ w.lo + CkEnd - CkStep > 0 /\ w.hi - w.lo > Skip
        /\ w.lo + Skip < Taps
        /\ \A m \in Lanes : w.lo - cal_lane[m].lo + CkStep + Skip < Taps

Open(l)  == cal_lane[l].lo + cal.ck
Close(l) == Min({cal_lane[l].hi + cal.ck, Taps})

\* Each lane is left in the middle of its window, on whichever side the
\* calibration runs, also when the window reaches beyond the last tap.
Centred ==
  cal.pc = "done" /\ Calibratable =>
    \A l \in Lanes : cal.final[l] = (Open(l) + Close(l)) \div 2
=============================================================================
