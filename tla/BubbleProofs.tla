----------------------------- MODULE BubbleProofs -----------------------------
(***************************************************************************)
(* Proofs about Bubble, for every size of the buffer and every maximum of  *)
(* the semaphore.                                                          *)
(***************************************************************************)
EXTENDS Bubble, TLAPS

Counting == pc \in {"count", "again", "decide"}

\* A count never exceeds the samples it has seen.
CountBounded == Counting => zerocount <= i

\* While no bubble has been seen, every sample the DMA has written is good ...
WrittenGood == ~disturbed => signal = "good" /\ \A s \in 0 .. (slot - 1) : adc2_buffer[s] = "good"

\* ... and a semaphore, pending or taken, says that the buffer is written whole.
SemMeansWritten ==
    ~disturbed /\ (bd_sem > 0 \/ Counting) => \A s \in Slots : adc2_buffer[s] = "good"

\* So nothing is counted.
NothingCounted == ~disturbed /\ Counting => zerocount = 0

IInv ==
    /\ TypeOK /\ CountBounded
    /\ WrittenGood /\ SemMeansWritten /\ NothingCounted /\ NoFalseAlarm

LEMMA Sizes ==
    /\ BufSize \in Nat /\ BufSize >= 2 /\ BufSize <= 255
    /\ SemMax \in Nat /\ SemMax >= 1
    /\ 0 \in Slots /\ 1 \in Slots
    /\ BufSize \div 2 \in Nat /\ BufSize \div 2 >= 1
BY SizeAssumption DEF Slots

LEMMA InitIInv == Init => IInv
<1> SUFFICES ASSUME Init PROVE IInv
  OBVIOUS
<1>1. /\ signal \in Levels /\ adc2_buffer \in [Slots -> Levels]
      /\ slot \in Slots /\ bd_sem \in 0 .. SemMax /\ ota_start_flag \in {0, 1}
  BY Sizes DEF Init, Levels
<1>2. pc \in {"test", "wait", "count", "again", "decide"}
  BY DEF Init
<1>3. i \in 0 .. BufSize /\ zerocount \in 0 .. BufSize /\ BD_error_sendflag \in {0, 1}
  BY Sizes DEF Init
<1>4. adc2_on \in BOOLEAN /\ disturbed \in BOOLEAN
  BY Zenon DEF Init
<1>5. CountBounded /\ NothingCounted
  BY DEF Init, CountBounded, NothingCounted, Counting
<1>6. NoFalseAlarm
  BY Zenon DEF Init, NoFalseAlarm
<1>7. ~disturbed => signal = "good"
  BY Zenon DEF Init
<1>8. \A s \in 0 .. (slot - 1) : adc2_buffer[s] = "good"
  BY DEF Init
<1>9. ~(bd_sem > 0) /\ ~Counting
  BY DEF Init, Counting
<1>10. WrittenGood /\ SemMeansWritten
  BY <1>7, <1>8, <1>9, Zenon DEF WrittenGood, SemMeansWritten
<1> QED
  BY <1>1, <1>2, <1>3, <1>4, <1>5, <1>6, <1>10, Zenon DEF IInv, TypeOK

------------------------------------------------------------------------------
(* The converter *)

LEMMA ConvertIInv == IInv /\ Convert => IInv'
<1> SUFFICES ASSUME IInv, Convert PROVE IInv'
  OBVIOUS
<1>1. TypeOK
  BY DEF IInv
<1>2. /\ slot' = (slot + 1) % BufSize
      /\ slot' \in Slots
  BY <1>1, Sizes DEF Convert, TypeOK, Slots
<1>3. /\ adc2_buffer' \in [Slots -> Levels]
      /\ \A s \in Slots : adc2_buffer'[s] = IF s = slot THEN signal ELSE adc2_buffer[s]
  BY <1>1 DEF Convert, TypeOK
<1>4. bd_sem' \in 0 .. SemMax
  BY <1>1, Sizes DEF Convert, TypeOK, Released
<1>5. UNCHANGED <<signal, adc2_on, ota_start_flag, pc, i, zerocount,
                  BD_error_sendflag, disturbed>>
  BY DEF Convert, thread
<1>6. TypeOK'
  BY <1>1, <1>2, <1>3, <1>4, <1>5, Zenon DEF TypeOK
<1>7. CountBounded' /\ NothingCounted' /\ NoFalseAlarm'
  BY <1>5 DEF IInv, CountBounded, NothingCounted, NoFalseAlarm, Counting
<1>8. ASSUME ~disturbed
      PROVE  \A s \in 0 .. slot : s \in Slots => adc2_buffer'[s] = "good"
  <2>1. signal = "good" /\ \A s \in 0 .. (slot - 1) : adc2_buffer[s] = "good"
    BY <1>8 DEF IInv, WrittenGood
  <2> QED
    BY <2>1, <1>1, <1>3 DEF TypeOK, Slots
<1>9. slot \in Nat /\ slot < BufSize /\ (slot' = 0 \/ slot' = slot + 1)
  BY <1>1, <1>2, Sizes DEF TypeOK, Slots
<1>10. WrittenGood'
  <2> SUFFICES ASSUME ~disturbed
               PROVE  signal' = "good" /\ \A s \in 0 .. (slot' - 1) : adc2_buffer'[s] = "good"
    BY <1>5, Zenon DEF WrittenGood
  <2>1. signal' = "good"
    BY <1>5 DEF IInv, WrittenGood
  <2>2. CASE slot' = 0
    BY <2>1, <2>2
  <2>3. CASE slot' = slot + 1
    BY <2>1, <2>3, <1>8, <1>9, Sizes DEF Slots
  <2> QED
    BY <2>2, <2>3, <1>9
<1>11. SemMeansWritten'
  <2> SUFFICES ASSUME ~disturbed, bd_sem' > 0 \/ Counting'
               PROVE  \A s \in Slots : adc2_buffer'[s] = "good"
    BY <1>5, Zenon DEF SemMeansWritten
  <2>1. CASE slot' = 0
    <3>1. slot = BufSize - 1
      BY <2>1, <1>2, <1>9, Sizes
    <3> QED
      BY <3>1, <1>8, Sizes DEF Slots
  <2>2. CASE slot' # 0
    <3>1. bd_sem' = bd_sem
      BY <2>2 DEF Convert
    <3>2. \A s \in Slots : adc2_buffer[s] = "good"
      BY <3>1, <1>5 DEF IInv, SemMeansWritten, Counting
    <3>3. signal = "good"
      BY DEF IInv, WrittenGood
    <3> QED
      BY <3>2, <3>3, <1>3
  <2> QED
    BY <2>1, <2>2
<1> QED
  BY <1>6, <1>7, <1>10, <1>11, Zenon DEF IInv

------------------------------------------------------------------------------
(* The sensor and the main board *)

LEMMA SignalIInv ==
    ASSUME IInv, NEW level \in Levels, SignalChanges(level)
    PROVE  IInv'
<1>1. /\ signal' = level /\ disturbed' = (disturbed \/ level # "good")
      /\ UNCHANGED <<adc2_on, adc2_buffer, slot, bd_sem, ota_start_flag, pc, i, zerocount,
                     BD_error_sendflag>>
  BY DEF SignalChanges, adc, thread
<1>2. disturbed' \in BOOLEAN
  BY <1>1, Zenon
<1>3. TypeOK'
  BY <1>1, <1>2, Zenon DEF IInv, TypeOK
<1>4. ~disturbed' => ~disturbed /\ level = "good"
  BY <1>1, Zenon
<1>5. WrittenGood'
  BY <1>1, <1>4, Zenon DEF IInv, WrittenGood
<1>6. CountBounded'
  BY <1>1, Zenon DEF IInv, CountBounded, Counting
<1>7. SemMeansWritten'
  BY <1>1, <1>4, Zenon DEF IInv, SemMeansWritten, Counting
<1>8. NothingCounted' /\ NoFalseAlarm'
  BY <1>1, <1>4, Zenon DEF IInv, NothingCounted, NoFalseAlarm, Counting
<1> QED
  BY <1>3, <1>5, <1>6, <1>7, <1>8, Zenon DEF IInv

\* Switching the converter on lets the next transfer start at the first slot.
LEMMA SwitchIInv == IInv /\ (SwitchOff \/ SwitchOn \/ OtaAsk) => IInv'
<1> SUFFICES ASSUME IInv, SwitchOff \/ SwitchOn \/ OtaAsk PROVE IInv'
  OBVIOUS
<1>1. UNCHANGED <<signal, adc2_buffer, bd_sem, pc, i, zerocount, BD_error_sendflag, disturbed>>
  BY DEF SwitchOff, SwitchOn, OtaAsk, adc, thread
<1>2. /\ slot' = slot \/ slot' = 0
      /\ ota_start_flag' = ota_start_flag \/ ota_start_flag' = 1
  BY DEF SwitchOff, SwitchOn, OtaAsk, adc
<1>3. adc2_on' = adc2_on \/ adc2_on' = TRUE \/ adc2_on' = FALSE
  BY Zenon DEF SwitchOff, SwitchOn, OtaAsk, adc
<1>4. slot' \in Slots /\ ota_start_flag' \in {0, 1}
  BY <1>2, Sizes DEF IInv, TypeOK
<1>5. TypeOK'
  BY <1>1, <1>3, <1>4, Zenon DEF IInv, TypeOK
<1>6. (\A s \in 0 .. (slot - 1) : adc2_buffer[s] = "good")
         => \A s \in 0 .. (slot' - 1) : adc2_buffer[s] = "good"
  BY <1>2
<1>7. WrittenGood'
  BY <1>1, <1>6, Zenon DEF IInv, WrittenGood
<1>8. CountBounded' /\ SemMeansWritten' /\ NothingCounted' /\ NoFalseAlarm'
  BY <1>1, Zenon DEF IInv, CountBounded, SemMeansWritten, NothingCounted, NoFalseAlarm, Counting
<1> QED
  BY <1>5, <1>7, <1>8, Zenon DEF IInv

------------------------------------------------------------------------------
(* The thread *)

\* Nothing is written, and no bubble comes, in a step of the thread; a count goes
\* on over a buffer that SemMeansWritten speaks of.
LEMMA BdThreadIInv == IInv /\ BdThread => IInv'
<1> SUFFICES ASSUME IInv, BdThread PROVE IInv'
  OBVIOUS
<1>1. UNCHANGED <<signal, adc2_on, adc2_buffer, slot, ota_start_flag, disturbed>>
  BY DEF BdThread, Test, FirstTake, Count, Counted, SecondTake, Decide, adc
<1>2. WrittenGood'
  BY <1>1, Zenon DEF IInv, WrittenGood
<1>3. /\ i \in 0 .. BufSize /\ zerocount \in 0 .. BufSize /\ bd_sem \in 0 .. SemMax
      /\ CountBounded /\ BD_error_sendflag \in {0, 1}
  BY DEF IInv, TypeOK
<1>4. ~disturbed /\ (bd_sem' > 0 \/ Counting') => bd_sem > 0 \/ Counting
  BY <1>3, Sizes DEF BdThread, Test, FirstTake, Count, Counted, SecondTake, Decide, Counting,
     Taken, MayTake
<1>5. SemMeansWritten'
  BY <1>1, <1>4, Zenon DEF IInv, SemMeansWritten
<1>6. /\ bd_sem' \in 0 .. SemMax
      /\ pc' \in {"test", "wait", "count", "again", "decide"}
      /\ BD_error_sendflag' \in {0, 1}
  BY <1>3, Sizes DEF BdThread, Test, FirstTake, Count, Counted, SecondTake, Decide, Taken, MayTake,
     FlagAfterSet, FlagAfterReset, IInv, TypeOK
<1>7. /\ i' \in 0 .. BufSize /\ zerocount' \in 0 .. BufSize
      /\ CountBounded'
  <2>1. CASE Count
    <3>0. /\ i' = i + 1 /\ i < BufSize /\ pc = "count"
      BY <2>1 DEF Count
    <3>1. /\ i' = i + 1 /\ i + 1 \in 0 .. BufSize /\ zerocount <= i
      BY <3>0, <1>3, Sizes DEF CountBounded, Counting
    <3>2. zerocount' = zerocount \/ zerocount' = (zerocount + 1) % 256
      BY <2>1 DEF Count
    <3>3. (zerocount + 1) % 256 = zerocount + 1
      BY <3>1, <1>3, Sizes
    <3>4. \A z : (z = zerocount \/ z = zerocount + 1) => z \in 0 .. BufSize /\ z <= i + 1
      BY <3>1, <1>3, Sizes
    <3>5. zerocount' = zerocount \/ zerocount' = zerocount + 1
      BY <3>2, <3>3, Zenon
    <3>6. zerocount' \in 0 .. BufSize /\ zerocount' <= i + 1
      BY <3>4, <3>5, Zenon
    <3> QED
      BY <3>1, <3>6, Zenon DEF CountBounded
  <2>2. CASE FirstTake
    BY <2>2, Sizes DEF FirstTake, CountAtStart, CountBounded
  <2>3. CASE Test \/ Counted \/ SecondTake \/ Decide
    <3>1. UNCHANGED <<i, zerocount>> /\ (Counting' => Counting)
      BY <2>3 DEF Test, Counted, SecondTake, Decide, Counting
    <3> QED
      BY <3>1, <1>3, Zenon DEF CountBounded
  <2> QED
    BY <2>1, <2>2, <2>3 DEF BdThread
<1>8. ASSUME ~disturbed, Counting' PROVE zerocount' = 0
  <2>1. CASE Count
    <3>1. \A s \in Slots : adc2_buffer[s] = "good"
      BY <1>8, <2>1 DEF IInv, SemMeansWritten, Counting, Count
    <3>2. i \in Slots
      BY <2>1, <1>3, Sizes DEF Count, Slots
    <3>3. ~OutOfRange(i)
      BY <3>1, <3>2, Sizes DEF OutOfRange
    <3> QED
      BY <1>8, <2>1, <3>3 DEF Count, IInv, NothingCounted, Counting
  <2>2. CASE FirstTake
    BY <2>2 DEF FirstTake, CountAtStart
  <2>3. CASE Test \/ Counted \/ SecondTake \/ Decide
    BY <1>8, <2>3 DEF Test, Counted, SecondTake, Decide, IInv, NothingCounted, Counting
  <2> QED
    BY <2>1, <2>2, <2>3 DEF BdThread
<1>9. NothingCounted'
  BY <1>1, <1>8, Zenon DEF NothingCounted
<1>10. ASSUME ~disturbed PROVE BD_error_sendflag' = 0
  <2>1. BD_error_sendflag = 0
    BY <1>10 DEF IInv, NoFalseAlarm
  <2>2. CASE Decide
    <3>1. zerocount = 0
      BY <1>10, <2>2 DEF IInv, NothingCounted, Counting, Decide
    <3> QED
      BY <2>1, <2>2, <3>1, Sizes DEF Decide
  <2>3. CASE ~Decide
    BY <2>1, <2>3 DEF BdThread, Test, FirstTake, Count, Counted, SecondTake
  <2> QED
    BY <2>2, <2>3
<1>11. NoFalseAlarm'
  BY <1>1, <1>10, Zenon DEF NoFalseAlarm
<1>12. TypeOK'
  BY <1>1, <1>6, <1>7, Zenon DEF IInv, TypeOK
<1> QED
  BY <1>2, <1>5, <1>7, <1>9, <1>11, <1>12, Zenon DEF IInv

LEMMA NextIInv == IInv /\ [Next]_vars => IInv'
<1> SUFFICES ASSUME IInv, [Next]_vars PROVE IInv'
  OBVIOUS
<1>1. CASE UNCHANGED vars
  <2>1. UNCHANGED <<signal, adc2_on, adc2_buffer, slot, bd_sem, ota_start_flag, pc, i, zerocount,
                    BD_error_sendflag, disturbed>>
    BY <1>1 DEF vars, adc, thread
  <2> QED
    BY <2>1, Zenon DEF IInv, TypeOK, CountBounded, WrittenGood, SemMeansWritten, NothingCounted,
       NoFalseAlarm, Counting
<1> QED
  BY <1>1, ConvertIInv, SignalIInv, SwitchIInv, BdThreadIInv DEF Next, Environment

------------------------------------------------------------------------------

\* The inductive invariant of the bubble sensor (adc.c:45-119).
THEOREM Invariance == Spec => []IInv
  BY InitIInv, NextIInv, PTL DEF Spec

\* All variables keep their types; in particular zerocount, a uint8_t, never wraps
\* around for any buffer it can index.
THEOREM TypeCorrect == Spec => []TypeOK
<1>1. IInv => TypeOK
  BY DEF IInv
<1> QED
  BY Invariance, <1>1, PTL

\* No alarm before the first bubble, for every size of the buffer and every
\* maximum of the semaphore, however often the board is switched.
THEOREM NoAlarmWithoutBubble == Spec => []NoFalseAlarm
<1>1. IInv => NoFalseAlarm
  BY DEF IInv
<1> QED
  BY Invariance, <1>1, PTL

------------------------------------------------------------------------------
(* A steady signal *)

\* The buffer holds nothing but the signal there is.
AllSignal == \A s \in Slots : adc2_buffer[s] = signal

\* What has to be counted so far.
Due == IF signal = "good" THEN 0 ELSE IF pc = "count" THEN i ELSE BufSize

\* A count under way is right so far.
Fresh == AllSignal /\ (Counting => zerocount = Due)

\* Count and alarm are those of the signal.
AlarmRight == BD_error_sendflag = IF signal = "good" THEN 0 ELSE 1
Settled == AllSignal /\ zerocount = Due /\ AlarmRight

\* Nothing but the sensor itself makes the buffer differ from the signal again, not
\* even switching the converter.
LEMMA SignalStaysWritten ==
    ASSUME IInv, AllSignal, [Next]_vars, signal' = signal
    PROVE  AllSignal'
<1>1. CASE Convert
  <2>1. \A s \in Slots : adc2_buffer'[s] = IF s = slot THEN signal ELSE adc2_buffer[s]
    BY <1>1 DEF Convert, IInv, TypeOK
  <2> QED
    BY <2>1 DEF AllSignal
<1>2. CASE ~Convert
  <2>1. adc2_buffer' = adc2_buffer
    BY <1>2 DEF Next, Environment, SignalChanges, SwitchOff, SwitchOn, OtaAsk, BdThread, Test,
       FirstTake, Count, Counted, SecondTake, Decide, vars, adc
  <2> QED
    BY <2>1, Zenon DEF AllSignal
<1> QED
  BY <1>1, <1>2

\* The converter, the main board and a step that changes nothing leave the count alone.
LEMMA ThreadAlone ==
    ASSUME [Next]_vars, ~BdThread
    PROVE  UNCHANGED thread
BY DEF Next, Environment, SignalChanges, SwitchOff, SwitchOn, OtaAsk, Convert, vars

\* A sample of a buffer that holds only the signal counts exactly if the signal is bad.
LEMMA CountsSignal ==
    ASSUME IInv, AllSignal, NEW s \in Slots
    PROVE  OutOfRange(s) <=> signal # "good"
BY Sizes DEF IInv, TypeOK, Levels, AllSignal, OutOfRange

\* A step of the thread keeps a right count right; one that begins makes it so.
LEMMA ThreadCounts ==
    ASSUME IInv, AllSignal, BdThread, signal' = signal, Counting => zerocount = Due
    PROVE  /\ Counting' => zerocount' = Due'
           /\ zerocount = Due => zerocount' = Due'
<1>1. i \in 0 .. BufSize /\ zerocount \in 0 .. BufSize /\ BufSize \in Nat /\ BufSize <= 255
  BY Sizes DEF IInv, TypeOK
<1>2. CASE Test
  BY <1>2 DEF Test, Counting, Due
<1>3. CASE FirstTake
  BY <1>3 DEF FirstTake, CountAtStart, Due
<1>4. CASE Count
  <2>1. pc = "count" /\ i \in Slots /\ Counting /\ zerocount = Due /\ i' = i + 1 /\ pc' = pc
    BY <1>1, <1>4 DEF Count, Counting, Slots
  <2>2. CASE signal = "good"
    BY <1>4, <2>1, <2>2, CountsSignal DEF Count, Due
  <2>3. CASE signal # "good"
    <3>1. zerocount = i /\ zerocount' = (zerocount + 1) % 256
      BY <1>4, <2>1, <2>3, CountsSignal DEF Count, Due
    <3>2. (i + 1) % 256 = i + 1
      BY <1>1, <2>1 DEF Slots
    <3> QED
      BY <2>1, <2>3, <3>1, <3>2 DEF Due
  <2> QED
    BY <2>2, <2>3
<1>5. CASE Counted
  BY <1>1, <1>5 DEF Counted, Counting, Due
<1>6. CASE SecondTake \/ Decide
  BY <1>6 DEF SecondTake, Decide, Counting, Due
<1> QED
  BY <1>2, <1>3, <1>4, <1>5, <1>6 DEF BdThread

LEMMA FreshStep ==
    ASSUME IInv, Fresh, [Next]_vars, signal' = signal
    PROVE  Fresh'
<1>1. AllSignal'
  BY SignalStaysWritten DEF Fresh
<1>2. CASE BdThread
  BY <1>1, <1>2, ThreadCounts DEF Fresh
<1>3. CASE ~BdThread
  BY <1>1, <1>3, ThreadAlone DEF Fresh, thread, Counting, Due
<1> QED
  BY <1>2, <1>3

LEMMA DecidesRight ==
    ASSUME IInv, Fresh, Decide, signal' = signal
    PROVE  Settled'
<1>1. zerocount = Due /\ Due = (IF signal = "good" THEN 0 ELSE BufSize)
  BY DEF Fresh, Counting, Decide, Due
<1>2. BufSize \in Nat /\ BufSize >= BufSize \div 2 /\ ~(BufSize <= BufSize \div 16) /\ 0 <= BufSize \div 16
      /\ ~(0 >= BufSize \div 2)
  BY Sizes
<1>3. BD_error_sendflag \in {0, 1}
  BY DEF IInv, TypeOK
<1>4. AlarmRight'
  BY <1>1, <1>2, <1>3 DEF AlarmRight, Decide, FlagAfterSet, FlagAfterReset
<1>5. AllSignal'
  BY SignalStaysWritten DEF Fresh, Next, BdThread
<1>6. zerocount' = Due'
  BY <1>1 DEF Decide, Due
<1> QED
  BY <1>4, <1>5, <1>6 DEF Settled

LEMMA SettledStep ==
    ASSUME IInv, Settled, [Next]_vars, signal' = signal
    PROVE  Settled'
<1>1. Fresh
  BY DEF Settled, Fresh
<1>2. CASE Decide
  BY <1>1, <1>2, DecidesRight
<1>3. CASE BdThread /\ ~Decide
  <2>1. zerocount' = Due'
    BY <1>3, ThreadCounts DEF Settled
  <2>2. BD_error_sendflag' = BD_error_sendflag
    BY <1>3 DEF BdThread, Test, FirstTake, Count, Counted, SecondTake
  <2> QED
    BY <2>1, <2>2, SignalStaysWritten DEF Settled, AlarmRight
<1>4. CASE ~BdThread
  BY <1>4, ThreadAlone, SignalStaysWritten DEF Settled, AlarmRight, Due, thread
<1> QED
  BY <1>2, <1>3, <1>4

\* As long as the signal stays as the whole buffer shows it, a round that starts to
\* count from then on ends with the right count and the right alarm, whatever the
\* alarm was, and however often the board is switched meanwhile (adc.c:76-107).
THEOREM RoundDecidesRight ==
    Spec => [](Fresh /\ [][signal' = signal]_vars => [][Decide => Settled']_vars)
<1>1. IInv /\ Fresh /\ [Next]_vars /\ [signal' = signal]_vars => Fresh' /\ [Decide => Settled']_vars
  <2>1. UNCHANGED vars => signal' = signal
    BY DEF vars
  <2> QED
    BY <2>1, FreshStep, DecidesRight
<1> QED
  BY Invariance, <1>1, PTL DEF Spec

\* ... and from that decision on the alarm stays right, and so does the reported count
\* outside of a count under way, until the signal changes (adc.c:76-107, can.c:160).
THEOREM AlarmStays ==
    Spec => [](Settled /\ [][signal' = signal]_vars => [](AlarmRight /\ zerocount = Due))
<1>1. IInv /\ Settled /\ [Next]_vars /\ [signal' = signal]_vars => Settled'
  <2>1. UNCHANGED vars => signal' = signal
    BY DEF vars
  <2> QED
    BY <2>1, SettledStep
<1>2. Settled => AlarmRight /\ zerocount = Due
  BY DEF Settled
<1> QED
  BY Invariance, <1>1, <1>2, PTL DEF Spec

=============================================================================
