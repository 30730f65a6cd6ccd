-------------------------------- MODULE Bubble --------------------------------
(***************************************************************************)
(* The bubble sensor: ADC2 with its circular DMA and BD_thread_entry       *)
(* (applications/adc.c), which counts the samples that are out of range    *)
(* while the DMA goes on overwriting them, and raises or takes back the    *)
(* alarm.                                                                  *)
(*                                                                         *)
(*   pc = "test"    before line 70                                         *)
(*   pc = "wait"    before or in the first rt_sem_take                     *)
(*   pc = "count"   in the loop over the buffer, one sample per step       *)
(*   pc = "again"   before or in the second rt_sem_take                    *)
(*   pc = "decide"  before line 103                                        *)
(***************************************************************************)
EXTENDS Integers

CONSTANTS
    BufSize,     \* ADC_BUFFER_SIZE
    SemMax       \* RT_SEM_VALUE_MAX

ASSUME SizeAssumption == BufSize \in 2 .. 255 /\ SemMax \in Nat \ {0}

\* A sample is at most BD_EMPTY, between the limits, or at least BD_FULL.
Levels == {"empty", "good", "full"}
Slots == 0 .. (BufSize - 1)

VARIABLES
    signal,             \* what the sensor delivers
    adc2_on,            \* the converter runs
    adc2_buffer, slot,  \* the buffer and where the DMA writes next
    bd_sem,             \* bd_sem.value
    ota_start_flag,
    pc, i,              \* BD_thread_entry
    zerocount,          \* g_send_info.Bubble_sensor_zerocount
    BD_error_sendflag,
    disturbed           \* history: the signal has been out of range

adc == <<adc2_on, adc2_buffer, slot>>
thread == <<pc, i, zerocount, BD_error_sendflag>>
vars == <<signal, adc, bd_sem, ota_start_flag, thread, disturbed>>

\* The buffer is 0, which is below BD_EMPTY, until it is converted.
Init ==
    /\ signal \in Levels /\ disturbed = (signal # "good")
    /\ adc2_on = TRUE /\ adc2_buffer = [s \in Slots |-> "empty"] /\ slot = 0
    /\ bd_sem = 0 /\ ota_start_flag = 0
    /\ pc = "test" /\ i = 0 /\ zerocount = 0 /\ BD_error_sendflag = 0

------------------------------------------------------------------------------
(* The sensor, the converter and the main board *)

SignalChanges(level) ==
    /\ signal' = level /\ disturbed' = (disturbed \/ level # "good")
    /\ UNCHANGED <<adc, bd_sem, ota_start_flag, thread>>

\* HAL_ADC_ConvCpltCallback: rt_sem_release, which a full semaphore refuses.
Released == IF bd_sem < SemMax THEN bd_sem + 1 ELSE bd_sem

\* One conversion; the last of the buffer completes a transfer.
Convert ==
    /\ adc2_on
    /\ adc2_buffer' = [adc2_buffer EXCEPT ![slot] = signal]
    /\ slot' = (slot + 1) % BufSize
    /\ bd_sem' = IF slot' = 0 THEN Released ELSE bd_sem
    /\ UNCHANGED <<signal, adc2_on, ota_start_flag, thread, disturbed>>

\* The board is switched off or on; a transfer starts afresh.
SwitchOff ==
    /\ adc2_on' = FALSE
    /\ UNCHANGED <<signal, adc2_buffer, slot, bd_sem, ota_start_flag, thread, disturbed>>

SwitchOn ==
    /\ ~adc2_on
    /\ adc2_on' = TRUE /\ slot' = 0
    /\ UNCHANGED <<signal, adc2_buffer, bd_sem, ota_start_flag, thread, disturbed>>

OtaAsk ==
    /\ ota_start_flag' = 1
    /\ UNCHANGED <<signal, adc, bd_sem, thread, disturbed>>

------------------------------------------------------------------------------
(* BD_thread_entry *)

Test ==
    /\ pc = "test" /\ ota_start_flag = 0
    /\ pc' = "wait"
    /\ UNCHANGED <<signal, adc, bd_sem, ota_start_flag, i, zerocount, BD_error_sendflag, disturbed>>

\* rt_sem_take(&bd_sem, RT_WAITING_FOREVER)
Taken == IF bd_sem > 0 THEN bd_sem - 1 ELSE 0
MayTakeAlways == TRUE
MayTake == bd_sem > 0

CountKept == zerocount
CountAtStart == 0

FirstTake ==
    /\ pc = "wait" /\ MayTake
    /\ bd_sem' = Taken
    /\ zerocount' = CountAtStart /\ i' = 0 /\ pc' = "count"
    /\ UNCHANGED <<signal, adc, ota_start_flag, BD_error_sendflag, disturbed>>

\* Line 81 looks at adc2_buffer[i] for the lower limit and at adc2_buffer[1] for
\* the upper one.
OutOfRangeFromOne(s) == s > 0 /\ (adc2_buffer[s] = "empty" \/ adc2_buffer[1] = "full")
OutOfRange(s) == adc2_buffer[s] = "empty" \/ adc2_buffer[1] = "full"

Count ==
    /\ pc = "count" /\ i < BufSize
    /\ zerocount' = IF OutOfRange(i) THEN (zerocount + 1) % 256 ELSE zerocount
    /\ i' = i + 1
    /\ UNCHANGED <<signal, adc, bd_sem, ota_start_flag, pc, BD_error_sendflag, disturbed>>

Counted ==
    /\ pc = "count" /\ i = BufSize
    /\ pc' = "again"
    /\ UNCHANGED <<signal, adc, bd_sem, ota_start_flag, i, zerocount, BD_error_sendflag, disturbed>>

SecondTake ==
    /\ pc = "again" /\ MayTake
    /\ bd_sem' = Taken
    /\ pc' = "decide"
    /\ UNCHANGED <<signal, adc, ota_start_flag, i, zerocount, BD_error_sendflag, disturbed>>

\* GENERATE_ERROR(SET, ..) or GENERATE_ERROR(RESET, ..), and the flag with it.
FlagAfterSet == 1
FlagLeftSet == 1
FlagAfterReset == 0

Decide ==
    /\ pc = "decide"
    /\ BD_error_sendflag' =
          IF zerocount >= BufSize \div 2 /\ BD_error_sendflag = 0 THEN FlagAfterSet
          ELSE IF zerocount <= BufSize \div 16 /\ BD_error_sendflag = 1 THEN FlagAfterReset
          ELSE BD_error_sendflag
    /\ pc' = "test"
    /\ UNCHANGED <<signal, adc, bd_sem, ota_start_flag, i, zerocount, disturbed>>

BdThread == Test \/ FirstTake \/ Count \/ Counted \/ SecondTake \/ Decide

Environment ==
    \/ \E level \in Levels : SignalChanges(level)
    \/ SwitchOff \/ SwitchOn \/ OtaAsk

Next == Environment \/ Convert \/ BdThread

Spec == Init /\ [][Next]_vars

\* TIM8 triggers conversions, and the thread, the last in priority, gets the
\* processor in the delays of the others.
FairSpec == Spec /\ WF_vars(Convert) /\ WF_vars(BdThread)

------------------------------------------------------------------------------
(* Properties *)

TypeOK ==
    /\ signal \in Levels /\ adc2_on \in BOOLEAN
    /\ adc2_buffer \in [Slots -> Levels] /\ slot \in Slots
    /\ bd_sem \in 0 .. SemMax /\ ota_start_flag \in {0, 1}
    /\ pc \in {"test", "wait", "count", "again", "decide"}
    /\ i \in 0 .. BufSize /\ zerocount \in 0 .. BufSize
    /\ BD_error_sendflag \in {0, 1} /\ disturbed \in BOOLEAN

\* As long as the sensor has seen no bubble there is no alarm, although the
\* buffer is all bubbles until it is converted for the first time and starts
\* over in the middle whenever the board is switched (adc.c:74, 103-107).
NoFalseAlarm == ~disturbed => BD_error_sendflag = 0

\* If the sensor settles with the board on and no download, so does the alarm,
\* whatever count, backlog of semaphores or half-written buffer it started from.
Steady(level) == <>[](adc2_on /\ signal = level)
AlarmSettles ==
    [](ota_start_flag = 0) =>
        /\ Steady("empty") \/ Steady("full") => <>[](BD_error_sendflag = 1)
        /\ Steady("good") => <>[](BD_error_sendflag = 0)
\* The report timer sends the count whenever it fires, the one BD_thread_entry is
\* at too (adc.c:76-83, can.c:160): once the sensor has settled only a report from
\* inside the count shows less than all bubbles, and none shows one that is gone.
CountSettles ==
    [](ota_start_flag = 0) =>
        /\ Steady("empty") \/ Steady("full") => <>[](pc # "count" => zerocount = BufSize)
        /\ Steady("good") => <>[](zerocount = 0)

=============================================================================
