-------------------------------- MODULE CanTx --------------------------------
(***************************************************************************)
(* Transmission of CAN frames: the queue can_tx_mq, what puts messages into*)
(* it, can_tx_thread, which sends them (applications/can.c), and the driver*)
(* with a bus that loses frames.  Retransmission is off in the controller  *)
(* (AutoRetransmission = DISABLE), so a lost arbitration or a missing      *)
(* acknowledge fails the write, and a failed write empties the queue.      *)
(*                                                                         *)
(* The driver has one send box: RT_CANSND_BOX_NUM is 1 (drivers/can.h:20,  *)
(* redefined nowhere, into the configuration by CANDEFAULTCONFIG), so the  *)
(* free list of can.c:313-329 holds box 0 and no other, and it is that box *)
(* which every message takes and gives back.                               *)
(*                                                                         *)
(* can_tx_thread is split where other threads and interrupts come between: *)
(*   pc = "boot"  it has not run yet                                       *)
(*   pc = "recv"  before or in rt_mq_recv(.., FOREVER)                     *)
(*   pc = "send"  in rt_device_write, until the TX interrupt               *)
(*   pc = "sent"  woken up with the result of the write                    *)
(*                                                                         *)
(* The messages are reports of the negative plate's state, bubble alarms   *)
(* (set or reset), and answers (OTA replies, handshakes), which carry      *)
(* nothing here.                                                           *)
(***************************************************************************)
EXTENDS Integers, Sequences

CONSTANTS
    MqSize,     \* length of can_tx_mq
    NegStates,  \* states of the negative plate
    Neg0        \* its state at power-on

ASSUME MqAssumption == MqSize \in Nat \ {0} /\ Neg0 \in NegStates

VARIABLES
    mq,                 \* messages in can_tx_mq
    pc, msg_can,        \* can_tx_thread and the message it holds
    result,             \* tx_tosnd->result: "WAIT", "OK" or "ERR"
    inform_timer,       \* can_inform_timer is active
    ota_start_flag,     \* can.c's ota_start_flag
    neg_state,          \* g_send_info.neg_state
    BD_error_sendflag,  \* the alarm state the board has reported
    main_neg,           \* the state in the last report the main board got
    main_alarm,         \* the last alarm message the main board got
    late,               \* threads in a round begun before ota_start_flag was set
    lost                \* history: how the latest alarm message was lost, or "no"

board == <<inform_timer, ota_start_flag, neg_state, BD_error_sendflag>>
main == <<main_neg, main_alarm>>
vars == <<mq, pc, msg_can, result, board, main, late, lost>>

Inform(s) == [kind |-> "inform", val |-> s]
Alarm(b) == [kind |-> "alarm", val |-> b]
Answer == [kind |-> "answer", val |-> 0]
Nothing == [kind |-> "nothing", val |-> 0]

Messages == {Inform(s) : s \in NegStates} \cup {Alarm(b) : b \in {0, 1}} \cup {Answer}

IsAlarm(m) == m.kind = "alarm"

Init ==
    /\ mq = <<>> /\ pc = "boot" /\ msg_can = Nothing /\ result = "OK"
    /\ inform_timer = FALSE /\ ota_start_flag = 0 /\ neg_state = Neg0 /\ BD_error_sendflag = 0
    /\ main_neg = Neg0 /\ main_alarm = 0 /\ late = {} /\ lost = "no"

------------------------------------------------------------------------------
(* can_tx_mq *)

FullPastEnd == Len(mq) > MqSize
Full == Len(mq) >= MqSize

\* rt_mq_send: a full queue refuses the message (-RT_EFULL).  Nobody looks at
\* what it returns.
SentFirst(m) == IF Full THEN mq ELSE <<m>> \o mq
Sent(m) == IF Full THEN mq ELSE Append(mq, m)

\* rt_mq_control(.., RT_IPC_CMD_RESET, ..) throws every message away.
AlarmIn(messages) == \E i \in DOMAIN messages : IsAlarm(messages[i])

Reset ==
    /\ mq' = <<>>
    /\ lost' = IF lost = "no" /\ AlarmIn(mq) THEN "flush" ELSE lost

------------------------------------------------------------------------------
(* The senders.  The threads that report and alarm look at ota_start_flag  *)
(* at the start of a round, so each may end the one it is in.              *)

MayReport(thread) == ota_start_flag = 0 \/ thread \in late
RoundEnds(thread) == late' = late \ {thread}

\* lcr_info_judge: a new state is published and reported at once.
NegChange(s) ==
    /\ MayReport("lcr") /\ s # neg_state
    /\ neg_state' = s /\ mq' = Sent(Inform(s))
    /\ RoundEnds("lcr")
    /\ UNCHANGED <<pc, msg_can, result, inform_timer, ota_start_flag, BD_error_sendflag, main, lost>>

\* can_inform_timer_timeout, every 25 ms.
InformTimer ==
    /\ inform_timer
    /\ mq' = Sent(Inform(neg_state))
    /\ UNCHANGED <<pc, msg_can, result, board, main, late, lost>>

\* BD_thread_entry: bubbles came or went, which it says once.
BdFlagKept == BD_error_sendflag
BdFlag == 1 - BD_error_sendflag

BdChange ==
    /\ MayReport("BD")
    /\ mq' = Sent(Alarm(1 - BD_error_sendflag))
    /\ lost' = IF Full THEN "full" ELSE "no"
    /\ BD_error_sendflag' = BdFlag
    /\ RoundEnds("BD")
    /\ UNCHANGED <<pc, msg_can, result, inform_timer, ota_start_flag, neg_state, main>>

\* can_rx_thread answers: an OTA reply, a handshake.
SendAnswer ==
    /\ mq' = Sent(Answer)
    /\ UNCHANGED <<pc, msg_can, result, board, main, late, lost>>

\* CAN_ID_MAIN_RF_SWITCH_CONTROL_INFO switches the RF on.
RfSwitchOn ==
    /\ Reset
    /\ UNCHANGED <<pc, msg_can, result, board, main, late>>

\* CAN_ID_MAIN_OTA_ASK_INFO, after its reply: the report pauses.
OtaAsk ==
    /\ inform_timer' = FALSE /\ ota_start_flag' = 1
    /\ mq' = Sent(Answer)
    /\ IF ota_start_flag = 0 THEN late' \in SUBSET {"lcr", "BD"} ELSE UNCHANGED late
    /\ UNCHANGED <<pc, msg_can, result, neg_state, BD_error_sendflag, main, lost>>

------------------------------------------------------------------------------
(* can_tx_thread and the driver *)

Start ==
    /\ pc = "boot"
    /\ inform_timer' = TRUE /\ pc' = "recv"
    /\ UNCHANGED <<mq, msg_can, result, ota_start_flag, neg_state, BD_error_sendflag, main, late, lost>>

Receive ==
    /\ pc = "recv" /\ mq # <<>>
    /\ msg_can' = Head(mq) /\ mq' = Tail(mq)
    /\ pc' = "send" /\ result' = "WAIT"
    /\ UNCHANGED <<board, main, late, lost>>

\* The frame reaches the main board.
Arrive ==
    /\ main_neg' = IF msg_can.kind = "inform" THEN msg_can.val ELSE main_neg
    /\ main_alarm' = IF IsAlarm(msg_can) THEN msg_can.val ELSE main_alarm

\* The TX interrupt says so, or the error interrupt has cleared the flags of
\* the frame first and the TX interrupt, pending since, reports a failure of
\* box 0 (drv_can.c:740), the only one.  A second completion of the same box
\* comes before any thread runs and does nothing (completion.c:129).
BusOk ==
    /\ pc = "send" /\ result = "WAIT"
    /\ Arrive
    /\ result' \in {"OK", "ERR"} /\ pc' = "sent"
    /\ UNCHANGED <<mq, msg_can, board, late, lost>>

\* The frame is lost: arbitration, no acknowledge, a bus error.
BusFails ==
    /\ pc = "send" /\ result = "WAIT"
    /\ result' = "ERR" /\ pc' = "sent"
    /\ lost' = IF lost = "no" /\ IsAlarm(msg_can) /\ ~AlarmIn(mq) THEN "bus" ELSE lost
    /\ UNCHANGED <<mq, msg_can, board, main, late>>

\* A write that failed empties the queue (line 337); the report goes on, the
\* message is not retried.
TimerStopped == FALSE
TimerAfterFailure == inform_timer

Finish ==
    /\ pc = "sent"
    /\ IF result = "OK"
       THEN UNCHANGED <<mq, lost, inform_timer>>
       ELSE Reset /\ inform_timer' = TimerAfterFailure
    /\ pc' = "recv" /\ msg_can' = Nothing
    /\ UNCHANGED <<result, ota_start_flag, neg_state, BD_error_sendflag, main, late>>

Senders ==
    \/ \E s \in NegStates : NegChange(s)
    \/ InformTimer \/ BdChange \/ SendAnswer \/ RfSwitchOn \/ OtaAsk

Bus == BusOk \/ BusFails

Next == Senders \/ Start \/ Receive \/ Bus \/ Finish

Spec == Init /\ [][Next]_vars

\* The thread is scheduled, every attempt to send ends, the timer fires.  An
\* attempt ends because whatever the interrupts find, they complete box 0, on
\* which the thread waits, and the controller neither repeats a frame nor stays
\* off the bus (drv_can.c:138, 140).  Mailbox 0 is empty when the next message
\* comes, so the loop over a refused one (drivers/can/can.c:157-165) is not entered.
FairSpec ==
    /\ Spec
    /\ WF_vars(Start) /\ WF_vars(Receive) /\ WF_vars(Bus) /\ WF_vars(Finish)
    /\ WF_vars(InformTimer)

------------------------------------------------------------------------------
(* Properties *)

TypeOK ==
    /\ mq \in Seq(Messages) /\ Len(mq) <= MqSize
    /\ pc \in {"boot", "recv", "send", "sent"}
    /\ msg_can \in Messages \cup {Nothing}
    /\ result \in {"WAIT", "OK", "ERR"}
    /\ inform_timer \in BOOLEAN /\ ota_start_flag \in {0, 1} /\ neg_state \in NegStates
    /\ BD_error_sendflag \in {0, 1}
    /\ main_neg \in NegStates /\ main_alarm \in {0, 1}
    /\ late \subseteq {"lcr", "BD"}
    /\ lost \in {"no", "full", "flush", "bus"}

\* What is on its way to the main board.
InFlight == IF pc = "send" THEN <<msg_can>> \o mq ELSE mq

\* BD_thread_entry says a change once and remembers in BD_error_sendflag that it
\* did: the last alarm on its way says what the flag says, or nothing is on its
\* way and the main board knows, or this very message was lost - refused, thrown
\* away with the queue, or failed on the bus.
AlarmKnown ==
    lost = "no" =>
        \/ ~AlarmIn(InFlight) /\ main_alarm = BD_error_sendflag
        \/ \E i \in DOMAIN InFlight :
              /\ InFlight[i] = Alarm(BD_error_sendflag)
              /\ \A j \in (i + 1) .. Len(InFlight) : ~IsAlarm(InFlight[j])

\* Once the bubbles stop coming and going the main board learns the alarm state,
\* or the message was lost.
BubblesSettle == <>[][~BdChange]_vars
AlarmArrives ==
    BubblesSettle => <>[](main_alarm = BD_error_sendflag \/ lost # "no")

\* The periodic report heals every loss: whatever was refused, thrown away or
\* lost on the bus before, the main board ends up with the plate's state once
\* nothing disturbs any more, as long as no OTA request pauses the report.
Disturbance ==
    \/ \E s \in NegStates : NegChange(s)
    \/ BdChange \/ SendAnswer \/ RfSwitchOn \/ BusFails
ReportSettles ==
    [](ota_start_flag = 0) /\ <>[][~Disturbance]_vars => <>[](main_neg = neg_state)

=============================================================================
