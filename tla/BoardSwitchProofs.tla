-------------------------- MODULE BoardSwitchProofs --------------------------
(***************************************************************************)
(* Proofs about BoardSwitch, for any values of data[0].                    *)
(***************************************************************************)
EXTENDS BoardSwitch, TLAPS

\* Once the thread has decided, it acts on the state it remembers, or a frame has
\* overtaken it.
ActsAsRemembered ==
    switch_pc \in {"adc1", "inside", "adc2"} =>
        overtaken = (target # (last_board_state = BOARD_OPEN))

\* While the handle of ADC1 is locked only the switch thread has changed it.
LockHeld ==
    adc1_locked => switch_pc = "inside" /\ adc1_on = target

\* Once the switch thread has stopped ADC1, a measurement alone can start it, and
\* stops it again: its stop finds the handle free, or ADC1 stopped already.
OffOnlyMeasures ==
    ~target /\ switch_pc # "adc1" => (adc1_on => lcr_pc = "measure")

\* ADC2 is as the last round left it.
Adc2AsDecided ==
    switch_pc \in {"compare", "remember", "decide"} => adc2_on = target

\* What the round before left is what the next one compares with.
RemembersTarget ==
    switch_pc = "compare" => overtaken = (target # (last_board_state = BOARD_OPEN))

IInv ==
    /\ TypeOK /\ ActsAsRemembered /\ RemembersTarget
    /\ LockHeld /\ OffOnlyMeasures /\ Adc2AsDecided

LEMMA InitIInv == Init => IInv
<1> SUFFICES ASSUME Init PROVE IInv
  OBVIOUS
<1>1. /\ BOARD_SWITCH_FLAG \in 0 .. 255 /\ ota_start_flag \in {0, 1}
      /\ last_board_state \in 0 .. 255
  BY DEF Init
<1>2. /\ switch_pc \in {"compare", "remember", "decide", "adc1", "inside", "adc2"}
      /\ lcr_pc \in {"test", "wait", "measure", "judge"}
  BY DEF Init
<1>3. /\ target \in BOOLEAN /\ overtaken \in BOOLEAN
      /\ adc1_on \in BOOLEAN /\ adc1_locked \in BOOLEAN /\ adc2_on \in BOOLEAN
  BY Zenon DEF Init
<1>4. LockHeld /\ OffOnlyMeasures /\ Adc2AsDecided
  BY DEF Init, LockHeld, OffOnlyMeasures, Adc2AsDecided
<1>5. ActsAsRemembered /\ RemembersTarget
  BY DEF Init, ActsAsRemembered, RemembersTarget, BOARD_OPEN
<1> QED
  BY <1>1, <1>2, <1>3, <1>4, <1>5, Zenon DEF IInv, TypeOK

\* A frame changes the flag only, and keeps it a uint8_t.
LEMMA FrameIInv == IInv /\ Frame => IInv'
<1> SUFFICES ASSUME IInv, Frame PROVE IInv'
  OBVIOUS
<1>1. PICK data0 \in Data0 : SwitchFrame(data0)
  BY DEF Frame
<1>2. Flag(data0) \in 0 .. 255
  BY <1>1, Data0Assumption DEF Flag
<1>3. /\ BOARD_SWITCH_FLAG' \in 0 .. 255
      /\ UNCHANGED <<ota_start_flag, last_board_state, switch_pc, target, overtaken,
                     adc1_on, adc1_locked, adc2_on, lcr_pc>>
  BY <1>1, <1>2 DEF SwitchFrame, switch, hal
<1> QED
  BY <1>3 DEF IInv, TypeOK, ActsAsRemembered, RemembersTarget, LockHeld, OffOnlyMeasures, Adc2AsDecided

\* Steps of the measuring thread and an OTA request do not touch what the switch
\* thread remembers, nor ADC2; a stop that finds the handle locked finds ADC1 as
\* the switch thread wants it.
LEMMA OthersIInv == IInv /\ (OtaAsk \/ Lcr) => IInv'
<1> SUFFICES ASSUME IInv, OtaAsk \/ Lcr PROVE IInv'
  OBVIOUS
<1>1. UNCHANGED <<BOARD_SWITCH_FLAG, last_board_state, switch_pc, target, overtaken, adc2_on>>
  BY DEF OtaAsk, Lcr, Test, StartMeasuring, StopMeasuring, Judge, flags, switch, hal
<1>2. /\ ota_start_flag' \in {0, 1} /\ adc1_on' \in BOOLEAN /\ adc1_locked' \in BOOLEAN
      /\ lcr_pc' \in {"test", "wait", "measure", "judge"}
  BY DEF OtaAsk, Lcr, Test, StartMeasuring, StopMeasuring, Judge, flags, switch, hal,
     Adc1AfterMeasure, IInv, TypeOK
<1>3. LockHeld' /\ OffOnlyMeasures'
  <2>1. CASE StartMeasuring
    BY <1>1, <2>1 DEF StartMeasuring, LockHeld, OffOnlyMeasures
  <2>2. CASE StopMeasuring
    BY <1>1, <2>2 DEF StopMeasuring, Adc1AfterMeasure, IInv, TypeOK, LockHeld, OffOnlyMeasures
  <2>3. CASE OtaAsk \/ Test \/ Judge
    <3>1. /\ UNCHANGED <<adc1_on, adc1_locked>>
          /\ lcr_pc = "measure" => lcr_pc' = "measure"
      BY <2>3 DEF OtaAsk, Test, Judge, hal
    <3> QED
      BY <1>1, <3>1 DEF IInv, LockHeld, OffOnlyMeasures
  <2> QED
    BY <2>1, <2>2, <2>3 DEF Lcr
<1> QED
  BY <1>1, <1>2, <1>3 DEF IInv, TypeOK, ActsAsRemembered, RemembersTarget, Adc2AsDecided

LEMMA SwitchThreadIInv == IInv /\ SwitchThread => IInv'
<1> SUFFICES ASSUME IInv, SwitchThread PROVE IInv'
  OBVIOUS
<1> USE DEF IInv, TypeOK, ActsAsRemembered, RemembersTarget, LockHeld, OffOnlyMeasures,
        Adc2AsDecided, flags, switch, hal
<1>1. CASE Compare
  BY <1>1 DEF Compare
<1>2. CASE Remember
  BY <1>2 DEF Remember
<1>3. CASE Decide
  BY <1>3 DEF Decide
<1>4. CASE EnterHal
  BY <1>4 DEF EnterHal
<1>5. CASE LeaveHal
  BY <1>5 DEF LeaveHal
<1>6. CASE Adc2
  BY <1>6 DEF Adc2, Adc2AfterCall
<1> QED
  BY <1>1, <1>2, <1>3, <1>4, <1>5, <1>6 DEF SwitchThread

LEMMA NextIInv == IInv /\ [Next]_vars => IInv'
<1> SUFFICES ASSUME IInv, [Next]_vars PROVE IInv'
  OBVIOUS
<1>1. CASE UNCHANGED vars
  BY <1>1 DEF vars, flags, switch, hal, IInv, TypeOK, ActsAsRemembered,
            RemembersTarget, LockHeld, OffOnlyMeasures, Adc2AsDecided
<1> QED
  BY <1>1, FrameIInv, OthersIInv, SwitchThreadIInv DEF Next

------------------------------------------------------------------------------

\* The inductive invariant of the board switch (board_switch.c:24-71).
THEOREM Invariance == Spec => []IInv
  BY InitIInv, NextIInv, PTL DEF Spec

\* All variables keep their types; BOARD_SWITCH_FLAG stays within a uint8_t.
THEOREM TypeCorrect == Spec => []TypeOK
<1>1. IInv => TypeOK
  BY DEF IInv
<1> QED
  BY Invariance, <1>1, PTL

\* Whatever frames, requests and measurements come between its steps, the switch
\* thread leaves both converters as it remembers to, unless a frame came between
\* its two last loads of the flag.
THEOREM ConvertersSafe == Spec => []ConvertersAsRemembered
<1>1. IInv => ConvertersAsRemembered
  BY DEF IInv, TypeOK, RemembersTarget, OffOnlyMeasures, Adc2AsDecided, ConvertersAsRemembered
<1> QED
  BY Invariance, <1>1, PTL

------------------------------------------------------------------------------
(* Why the converters follow: what FairSpec has to bring about, and that it    *)
(* lasts.  No step but a frame undoes either.                                  *)

\* The switch thread has nothing left to do, and no measurement is under way on a
\* board that is off.
Settled ==
    /\ switch_pc = "compare" /\ BOARD_SWITCH_FLAG = last_board_state
    /\ BoardOpen \/ lcr_pc = "test"

Follows == overtaken \/ (adc2_on = BoardOpen /\ (adc1_on => BoardOpen))

\* The steps the switch thread still has to make: a round of six if the flag is
\* not what the thread remembers, after the round it is in.
Behind == IF BOARD_SWITCH_FLAG = last_board_state THEN 0 ELSE 6
SwitchRank ==
    CASE switch_pc = "compare"  -> Behind
      [] switch_pc = "remember" -> 5
      [] switch_pc = "decide"   -> 4 + Behind
      [] switch_pc = "adc1"     -> 3 + Behind
      [] switch_pc = "inside"   -> 2 + Behind
      [] switch_pc = "adc2"     -> 1 + Behind

\* The steps the measurement under way still has to make.
LcrRank ==
    CASE lcr_pc = "wait" -> 3 [] lcr_pc = "measure" -> 2
      [] lcr_pc = "judge" -> 1 [] lcr_pc = "test" -> 0

Approaches ==
    ~Frame =>
        /\ SwitchRank' <= SwitchRank
        /\ SwitchThread => SwitchRank' < SwitchRank
        /\ ~BoardOpen => LcrRank' <= LcrRank /\ (Lcr => LcrRank' < LcrRank)

LEMMA RanksNat == TypeOK => /\ SwitchRank \in Nat /\ LcrRank \in Nat
                            /\ SwitchRank = 0 /\ LcrRank = 0 => Settled
  BY DEF TypeOK, SwitchRank, LcrRank, Behind, Settled

\* No step of the measuring thread and no request gives the switch thread work,
\* and a measurement that is over is not followed by another on a board that is off.
LEMMA OthersApproach == IInv /\ (OtaAsk \/ Lcr) => Approaches
<1> SUFFICES ASSUME IInv, OtaAsk \/ Lcr PROVE Approaches
  OBVIOUS
<1>1. UNCHANGED <<BOARD_SWITCH_FLAG, last_board_state, switch_pc>> /\ ~SwitchThread
  <2>1. UNCHANGED <<BOARD_SWITCH_FLAG, last_board_state, switch_pc>>
    BY DEF OtaAsk, Lcr, Test, StartMeasuring, StopMeasuring, Judge, flags, switch, hal
  <2>2. SwitchThread => switch_pc' # switch_pc
    BY DEF SwitchThread, Compare, Remember, Decide, EnterHal, LeaveHal, Adc2
  <2> QED
    BY <2>1, <2>2
<1>2. SwitchRank' = SwitchRank /\ SwitchRank \in Nat
  BY <1>1, RanksNat DEF SwitchRank, Behind, IInv
<1>3. ASSUME ~BoardOpen PROVE LcrRank' <= LcrRank /\ (Lcr => LcrRank' < LcrRank)
  <2>1. CASE OtaAsk
    <3>1. lcr_pc' = lcr_pc /\ LcrRank \in Nat /\ LcrRank' = LcrRank
      BY <2>1, RanksNat DEF OtaAsk, LcrRank, IInv
    <3>2. Lcr => lcr_pc' # lcr_pc
      BY DEF Lcr, Test, StartMeasuring, StopMeasuring, Judge
    <3> QED
      BY <3>1, <3>2
  <2>2. CASE Lcr
    BY <1>3, <2>2 DEF Lcr, Test, StartMeasuring, StopMeasuring, Judge, LcrRank, MayMeasure, BoardOpen
  <2> QED
    BY <2>1, <2>2
<1> QED
  BY <1>1, <1>2, <1>3 DEF Approaches

LEMMA SwitchApproaches == IInv /\ SwitchThread => Approaches
<1> SUFFICES ASSUME IInv, SwitchThread PROVE Approaches
  OBVIOUS
<1>1. UNCHANGED <<BOARD_SWITCH_FLAG, lcr_pc>> /\ ~Lcr
  <2>1. UNCHANGED <<BOARD_SWITCH_FLAG, lcr_pc>>
    BY DEF SwitchThread, Compare, Remember, Decide, EnterHal, LeaveHal, Adc2, flags
  <2>2. Lcr => lcr_pc' # lcr_pc
    BY DEF Lcr, Test, StartMeasuring, StopMeasuring, Judge
  <2> QED
    BY <2>1, <2>2
<1>2. SwitchRank' < SwitchRank
  <2> USE DEF SwitchRank, Behind
  <2>1. CASE Compare
    BY <2>1 DEF Compare
  <2>2. CASE Remember
    BY <2>2, <1>1 DEF Remember
  <2>3. CASE Decide
    BY <2>3, <1>1 DEF Decide
  <2>4. CASE EnterHal
    BY <2>4, <1>1 DEF EnterHal
  <2>5. CASE LeaveHal
    BY <2>5, <1>1 DEF LeaveHal
  <2>6. CASE Adc2
    BY <2>6, <1>1 DEF Adc2
  <2> QED
    BY <2>1, <2>2, <2>3, <2>4, <2>5, <2>6 DEF SwitchThread
<1>3. SwitchRank' \in Nat /\ SwitchRank \in Nat /\ LcrRank \in Nat /\ LcrRank' = LcrRank
  <2>1. TypeOK'
    BY SwitchThreadIInv DEF IInv
  <2>2. SwitchRank' \in Nat
    BY <2>1 DEF TypeOK, SwitchRank, Behind
  <2> QED
    BY <1>1, <2>2, RanksNat DEF LcrRank, IInv
<1> QED
  BY <1>1, <1>2, <1>3 DEF Approaches

\* Every step of the switch thread brings it nearer to a flag it has acted on, and
\* while the board is off every step of the measuring thread brings the measurement
\* under way nearer to its end; only a frame takes either back.  With the fairness
\* of FairSpec, this is what makes the converters follow (board_switch.c:26-60,
\* lcr_task.c:165-200).
THEOREM SwitchProgress == Spec => [][Approaches]_vars
<1>1. IInv /\ [Next]_vars => [Approaches]_vars
  <2>1. Frame => Approaches
    BY DEF Approaches
  <2> QED
    BY <2>1, OthersApproach, SwitchApproaches DEF Next
<1> QED
  BY Invariance, <1>1, PTL DEF Spec

\* From a moment on at which the switch thread has acted on the flag and no frame
\* arrives any more, the converters are, and stay, as the flag says, unless a frame
\* had overtaken the thread in the round before (board_switch.c:26-60).
THEOREM SwitchStays == Spec => [](Settled /\ [][~Frame]_vars => [](Settled /\ Follows))
<1>1. IInv /\ Settled => Follows
  BY DEF IInv, TypeOK, Settled, Follows, RemembersTarget, Adc2AsDecided, OffOnlyMeasures,
         BoardOpen
<1>2. IInv /\ Settled /\ [Next]_vars /\ [~Frame]_vars => Settled'
  <2> SUFFICES ASSUME IInv, Settled, [Next]_vars, [~Frame]_vars PROVE Settled'
    OBVIOUS
  <2>1. CASE UNCHANGED vars
    BY <2>1 DEF vars, flags, switch, Settled, BoardOpen
  <2>2. CASE Lcr \/ OtaAsk
    BY <2>2 DEF Lcr, OtaAsk, Test, StartMeasuring, StopMeasuring, Judge, flags, switch,
                Settled, BoardOpen, MayMeasure
  <2>3. CASE SwitchThread
    BY <2>3 DEF SwitchThread, Compare, Remember, Decide, EnterHal, LeaveHal, Adc2, Settled
  <2> QED
    BY <2>1, <2>2, <2>3 DEF Next
<1> QED
  BY Invariance, <1>1, <1>2, PTL DEF Spec

=============================================================================
