----------------------------- MODULE BoardSwitch -----------------------------
(***************************************************************************)
(* Switching the board on and off: the frame of the main board (can.c),    *)
(* BOARD_SWITCH_thread_entry (board_switch.c), which starts and stops both *)
(* converters, and lcr_task_thread (lcr_task.c), which starts and stops    *)
(* ADC1 for every measurement.  They share BOARD_SWITCH_FLAG and the HAL   *)
(* handle of ADC1 without a lock of their own.                             *)
(*                                                                         *)
(* Priorities are can_rx 14, lcr 15, board switch 16: a thread interrupts  *)
(* those after it between any two of their steps.  The program is built    *)
(* without optimisation, so each mention of the flag is a load.            *)
(*                                                                         *)
(*   switch_pc = "compare"  before the test of line 28                     *)
(*             = "remember" the test failed, line 36 comes next            *)
(*             = "decide"   before the test of line 37                     *)
(*             = "adc1"     before the HAL call for ADC1                   *)
(*             = "inside"   in it                                          *)
(*             = "adc2"     before the HAL call for ADC2                   *)
(*   lcr_pc    = "test"     before line 167                                *)
(*             = "wait"     in the delay before ADC1 is started            *)
(*             = "measure"  in the delay while ADC1 samples                *)
(*             = "judge"    the measurement is being computed and judged   *)
(***************************************************************************)
EXTENDS Integers

CONSTANT Data0   \* values of data[0] the main board sends

ASSUME Data0Assumption == Data0 \subseteq 0 .. 255

BOARD_OPEN == 0

VARIABLES
    BOARD_SWITCH_FLAG, ota_start_flag,
    last_board_state, switch_pc,
    target,               \* TRUE if the switch thread starts, FALSE if it stops
    adc1_on, adc2_on,     \* the converter runs, with its DMA
    adc1_locked,          \* hadc1.Lock
    lcr_pc,
    overtaken             \* history: the switch thread acted last on another
                          \* value of the flag than it remembers

flags == <<BOARD_SWITCH_FLAG, ota_start_flag>>
switch == <<last_board_state, switch_pc, target, overtaken>>
hal == <<adc1_on, adc1_locked, adc2_on>>
vars == <<flags, switch, hal, lcr_pc>>

\* adc_dma_init has started both converters.
Init ==
    /\ BOARD_SWITCH_FLAG = 0 /\ ota_start_flag = 0
    /\ last_board_state = 0 /\ switch_pc = "compare" /\ target = TRUE /\ overtaken = FALSE
    /\ adc1_on = TRUE /\ adc1_locked = FALSE /\ adc2_on = TRUE
    /\ lcr_pc = "test"

------------------------------------------------------------------------------
(* Frames of the main board *)

\* BOARD_SWITCH_FLAG = 1-rxmsg.data[0], a uint8_t.
FlagUnwrapped(data0) == 1 - data0
Flag(data0) == (1 - data0) % 256

SwitchFrame(data0) ==
    /\ BOARD_SWITCH_FLAG' = Flag(data0)
    /\ UNCHANGED <<ota_start_flag, switch, hal, lcr_pc>>

OtaAsk ==
    /\ ota_start_flag' = 1
    /\ UNCHANGED <<BOARD_SWITCH_FLAG, switch, hal, lcr_pc>>

------------------------------------------------------------------------------
(* BOARD_SWITCH_thread_entry *)

Compare ==
    /\ switch_pc = "compare" /\ BOARD_SWITCH_FLAG # last_board_state
    /\ switch_pc' = "remember"
    /\ UNCHANGED <<flags, last_board_state, target, overtaken, hal, lcr_pc>>

Remember ==
    /\ switch_pc = "remember"
    /\ last_board_state' = BOARD_SWITCH_FLAG /\ switch_pc' = "decide"
    /\ UNCHANGED <<flags, target, overtaken, hal, lcr_pc>>

Decide ==
    /\ switch_pc = "decide"
    /\ target' = (BOARD_SWITCH_FLAG = BOARD_OPEN)
    /\ overtaken' = (target' # (last_board_state = BOARD_OPEN))
    /\ switch_pc' = "adc1"
    /\ UNCHANGED <<flags, last_board_state, hal, lcr_pc>>

\* HAL_ADC_Start_DMA or HAL_ADC_Stop_DMA for ADC1.  lcr_task_thread can get the
\* handle while the call is inside, so what the call does may come first or last.
EnterHal ==
    /\ switch_pc = "adc1"
    /\ adc1_on' = target /\ adc1_locked' = TRUE /\ switch_pc' = "inside"
    /\ UNCHANGED <<flags, last_board_state, target, overtaken, adc2_on, lcr_pc>>

LeaveHal ==
    /\ switch_pc = "inside"
    /\ adc1_on' \in {adc1_on, target} /\ adc1_locked' = FALSE /\ switch_pc' = "adc2"
    /\ UNCHANGED <<flags, last_board_state, target, overtaken, adc2_on, lcr_pc>>

\* The same call for ADC2, which no other thread uses.
Adc2LeftOn == TRUE
Adc2AfterCall == target
Adc2 ==
    /\ switch_pc = "adc2"
    /\ adc2_on' = Adc2AfterCall /\ switch_pc' = "compare"
    /\ UNCHANGED <<flags, last_board_state, target, overtaken, adc1_on, adc1_locked, lcr_pc>>

SwitchThread == Compare \/ Remember \/ Decide \/ EnterHal \/ LeaveHal \/ Adc2

------------------------------------------------------------------------------
(* lcr_task_thread *)

\* Line 167: measure only while the board is on and no download runs.
MayMeasure == BOARD_SWITCH_FLAG = BOARD_OPEN /\ ota_start_flag = 0

Test ==
    /\ lcr_pc = "test" /\ MayMeasure
    /\ lcr_pc' = "wait"
    /\ UNCHANGED <<flags, switch, hal>>

\* User_Adc_Start: MX_ADC1_Init releases the handle, whoever has locked it, and
\* HAL_ADC_Start_DMA releases it again.
StartMeasuring ==
    /\ lcr_pc = "wait"
    /\ adc1_on' = TRUE /\ adc1_locked' = FALSE
    /\ lcr_pc' = "measure"
    /\ UNCHANGED <<flags, switch, adc2_on>>

\* User_Adc_Stop: HAL_BUSY if the switch thread has locked the handle.
Adc1LeftOn == adc1_on
Adc1AfterMeasure == IF adc1_locked THEN adc1_on ELSE FALSE

StopMeasuring ==
    /\ lcr_pc = "measure"
    /\ adc1_on' = Adc1AfterMeasure /\ lcr_pc' = "judge"
    /\ UNCHANGED <<flags, switch, adc1_locked, adc2_on>>

Judge ==
    /\ lcr_pc = "judge"
    /\ lcr_pc' = "test"
    /\ UNCHANGED <<flags, switch, hal>>

Lcr == Test \/ StartMeasuring \/ StopMeasuring \/ Judge

Frame == \E data0 \in Data0 : SwitchFrame(data0)

Next == Frame \/ OtaAsk \/ SwitchThread \/ Lcr

Spec == Init /\ [][Next]_vars

\* Both threads are scheduled.
FairSpec == Spec /\ WF_vars(SwitchThread) /\ WF_vars(Lcr)

------------------------------------------------------------------------------
(* Properties *)

TypeOK ==
    /\ BOARD_SWITCH_FLAG \in 0 .. 255 /\ ota_start_flag \in {0, 1}
    /\ last_board_state \in 0 .. 255
    /\ switch_pc \in {"compare", "remember", "decide", "adc1", "inside", "adc2"}
    /\ target \in BOOLEAN /\ overtaken \in BOOLEAN
    /\ adc1_on \in BOOLEAN /\ adc1_locked \in BOOLEAN /\ adc2_on \in BOOLEAN
    /\ lcr_pc \in {"test", "wait", "measure", "judge"}

\* Once the frames stop, the converters follow the switch, whatever happened
\* before - unless a frame overtook the thread between its two last loads of the
\* flag.  In particular a measurement that was under way when the board was
\* switched off, or whose stop the HAL refused, does not leave ADC1 on.
FramesStop == <>[][~Frame]_vars
BoardOpen == BOARD_SWITCH_FLAG = BOARD_OPEN
ConvertersFollow ==
    FramesStop => <>[](overtaken \/ (adc2_on = BoardOpen /\ (adc1_on => BoardOpen)))

\* Between two rounds of the switch thread the converters are as the state it
\* remembers asks, or it was overtaken: ADC2 runs exactly if the board is on, and
\* ADC1 of a board that is off runs only while a measurement that began before is
\* under way, whatever the two threads' calls for ADC1 do to each other under the
\* HAL lock (board_switch.c:36-58, lcr_task.c:167-175).
ConvertersAsRemembered ==
    switch_pc = "compare" /\ ~overtaken =>
        /\ adc2_on = (last_board_state = BOARD_OPEN)
        /\ adc1_on => last_board_state = BOARD_OPEN \/ lcr_pc = "measure"

------------------------------------------------------------------------------
(* What comments of the code say and the code does not do. *)

\* board_switch.c:30-32, main.c:22: with the flag at 1 the board is off and its
\* acquisition stopped; 0 is on.
ConvertersAlwaysFollow == FramesStop => <>[](adc2_on = BoardOpen)

=============================================================================
