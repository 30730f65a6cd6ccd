----------------------------- MODULE CanTxProofs -----------------------------
(***************************************************************************)
(* Proofs about CanTx, for every length of the queue and every set of      *)
(* states of the plate.                                                    *)
(***************************************************************************)
EXTENDS CanTx, TLAPS

\* The last alarm among the messages says b.
LastSays(messages, b) ==
    \E i \in 1 .. Len(messages) :
        /\ messages[i] = Alarm(b)
        /\ \A j \in (i + 1) .. Len(messages) : ~IsAlarm(messages[j])

\* A message is on the bus.
OnBus == pc = "send"

\* AlarmKnown with the message on the bus and the queue apart.
Known ==
    lost = "no" =>
        \/ ~AlarmIn(mq) /\ ~(OnBus /\ IsAlarm(msg_can)) /\ main_alarm = BD_error_sendflag
        \/ ~AlarmIn(mq) /\ OnBus /\ msg_can = Alarm(BD_error_sendflag)
        \/ LastSays(mq, BD_error_sendflag)

IInv == TypeOK /\ Known

------------------------------------------------------------------------------
(* Messages and sequences of them *)

Any == Messages \cup {Nothing}

LEMMA Kinds ==
    /\ Answer \in Messages /\ ~IsAlarm(Answer) /\ ~IsAlarm(Nothing)
    /\ \A s \in NegStates : Inform(s) \in Messages /\ ~IsAlarm(Inform(s))
    /\ \A b \in {0, 1} : Alarm(b) \in Messages /\ IsAlarm(Alarm(b)) /\ Alarm(b).val = b
BY DEF Messages, Inform, Alarm, Answer, Nothing, IsAlarm

\* A message is one of the three kinds, and its value is one of that kind.
LEMMA Values ==
    ASSUME NEW m \in Any
    PROVE  /\ m.kind = "inform" => m.val \in NegStates
           /\ IsAlarm(m) => m.val \in {0, 1} /\ m = Alarm(m.val)
BY DEF Any, Messages, Inform, Alarm, Answer, Nothing, IsAlarm

LEMMA EmptySaysNothing == ~AlarmIn(<<>>)
BY DEF AlarmIn

LEMMA AppendSays ==
    ASSUME NEW s \in Seq(Any), NEW m \in Any, NEW b \in {0, 1}
    PROVE  /\ AlarmIn(Append(s, m)) <=> AlarmIn(s) \/ IsAlarm(m)
           /\ ~IsAlarm(m) /\ LastSays(s, b) => LastSays(Append(s, m), b)
           /\ m = Alarm(b) => LastSays(Append(s, m), b)
<1> DEFINE t == Append(s, m)
<1>1. /\ Len(s) \in Nat /\ Len(t) = Len(s) + 1 /\ t[Len(s) + 1] = m
      /\ \A i \in 1 .. Len(s) : t[i] = s[i]
      /\ DOMAIN s = 1 .. Len(s) /\ DOMAIN t = 1 .. Len(t)
  OBVIOUS
<1> HIDE DEF t
<1>2. AlarmIn(t) <=> AlarmIn(s) \/ IsAlarm(m)
  <2>1. ASSUME AlarmIn(s) PROVE AlarmIn(t)
    BY <1>1, <2>1 DEF AlarmIn
  <2>2. ASSUME IsAlarm(m) PROVE AlarmIn(t)
    BY <1>1, <2>2 DEF AlarmIn
  <2>3. ASSUME AlarmIn(t), ~IsAlarm(m) PROVE AlarmIn(s)
    <3>1. PICK i \in 1 .. Len(t) : IsAlarm(t[i])
      BY <1>1, <2>3 DEF AlarmIn
    <3>2. i # Len(s) + 1
      BY <1>1, <2>3, <3>1
    <3> QED
      BY <1>1, <3>1, <3>2 DEF AlarmIn
  <2> QED
    BY <2>1, <2>2, <2>3
<1>3. ASSUME ~IsAlarm(m), LastSays(s, b) PROVE LastSays(t, b)
  <2>1. PICK i \in 1 .. Len(s) : s[i] = Alarm(b) /\ \A j \in (i + 1) .. Len(s) : ~IsAlarm(s[j])
    BY <1>3 DEF LastSays
  <2>2. \A j \in (i + 1) .. Len(t) : ~IsAlarm(t[j])
    <3> TAKE j \in (i + 1) .. Len(t)
    <3>1. CASE j = Len(s) + 1
      BY <1>1, <1>3, <3>1
    <3>2. CASE j # Len(s) + 1
      BY <1>1, <2>1, <3>2
    <3> QED
      BY <3>1, <3>2
  <2> QED
    BY <1>1, <2>1, <2>2 DEF LastSays
<1>4. ASSUME m = Alarm(b) PROVE LastSays(t, b)
  <2>1. \A j \in (Len(s) + 2) .. Len(t) : ~IsAlarm(t[j])
    BY <1>1
  <2> QED
    BY <1>1, <1>4, <2>1 DEF LastSays
<1> QED
  BY <1>2, <1>3, <1>4 DEF t

\* What the queue and its first message say, when the first is taken out.
LEMMA HeadTailSays ==
    ASSUME NEW s \in Seq(Any), s # <<>>, NEW b \in {0, 1}
    PROVE  /\ AlarmIn(s) <=> IsAlarm(Head(s)) \/ AlarmIn(Tail(s))
           /\ LastSays(s, b) => LastSays(Tail(s), b) \/ (~AlarmIn(Tail(s)) /\ Head(s) = Alarm(b))
<1> DEFINE t == Tail(s)
<1>1. /\ Len(s) \in Nat \ {0} /\ Len(t) = Len(s) - 1 /\ s[1] = Head(s)
      /\ \A i \in 1 .. Len(t) : t[i] = s[i + 1]
      /\ DOMAIN s = 1 .. Len(s) /\ DOMAIN t = 1 .. Len(t)
  OBVIOUS
<1> HIDE DEF t
<1>2. AlarmIn(s) <=> IsAlarm(Head(s)) \/ AlarmIn(t)
  <2>1. ASSUME IsAlarm(Head(s)) PROVE AlarmIn(s)
    BY <1>1, <2>1 DEF AlarmIn
  <2>2. ASSUME AlarmIn(t) PROVE AlarmIn(s)
    <3>1. PICK i \in 1 .. Len(t) : IsAlarm(t[i])
      BY <1>1, <2>2 DEF AlarmIn
    <3>2. i + 1 \in 1 .. Len(s) /\ IsAlarm(s[i + 1])
      BY <1>1, <3>1
    <3> QED
      BY <1>1, <3>2 DEF AlarmIn
  <2>3. ASSUME AlarmIn(s), ~IsAlarm(Head(s)) PROVE AlarmIn(t)
    <3>1. PICK i \in 1 .. Len(s) : IsAlarm(s[i])
      BY <1>1, <2>3 DEF AlarmIn
    <3>2. i # 1
      BY <1>1, <2>3, <3>1
    <3>3. i - 1 \in 1 .. Len(t) /\ t[i - 1] = s[i]
      BY <1>1, <3>1, <3>2
    <3> QED
      BY <1>1, <3>1, <3>3 DEF AlarmIn
  <2> QED
    BY <2>1, <2>2, <2>3
<1>3. ASSUME LastSays(s, b) PROVE LastSays(t, b) \/ (~AlarmIn(t) /\ Head(s) = Alarm(b))
  <2>1. PICK i \in 1 .. Len(s) : s[i] = Alarm(b) /\ \A j \in (i + 1) .. Len(s) : ~IsAlarm(s[j])
    BY <1>3 DEF LastSays
  <2>2. CASE i = 1
    <3>1. \A j \in 1 .. Len(t) : ~IsAlarm(t[j])
      <4> TAKE j \in 1 .. Len(t)
      <4>1. j + 1 \in 2 .. Len(s) /\ t[j] = s[j + 1]
        BY <1>1
      <4> QED
        BY <4>1, <2>1, <2>2
    <3> QED
      BY <1>1, <2>1, <2>2, <3>1 DEF AlarmIn
  <2>3. CASE i # 1
    <3>1. i - 1 \in 1 .. Len(t) /\ t[i - 1] = Alarm(b)
      BY <1>1, <2>1, <2>3
    <3>2. \A j \in ((i - 1) + 1) .. Len(t) : ~IsAlarm(t[j])
      <4> TAKE j \in ((i - 1) + 1) .. Len(t)
      <4>1. j \in 1 .. Len(t) /\ j + 1 \in (i + 1) .. Len(s) /\ t[j] = s[j + 1]
        BY <1>1
      <4> QED
        BY <4>1, <2>1
    <3> QED
      BY <3>1, <3>2 DEF LastSays
  <2> QED
    BY <2>2, <2>3
<1> QED
  BY <1>2, <1>3 DEF t

\* The same for a message put in front.
LEMMA InFrontSays ==
    ASSUME NEW s \in Seq(Any), NEW m \in Any, NEW b \in {0, 1}
    PROVE  /\ AlarmIn(<<m>> \o s) => IsAlarm(m) \/ AlarmIn(s)
           /\ LastSays(s, b) => LastSays(<<m>> \o s, b)
           /\ ~AlarmIn(s) /\ m = Alarm(b) => LastSays(<<m>> \o s, b)
<1> DEFINE t == <<m>> \o s
<1>1. /\ Len(s) \in Nat /\ Len(t) = Len(s) + 1 /\ t[1] = m
      /\ \A i \in 1 .. Len(s) : t[i + 1] = s[i]
      /\ DOMAIN s = 1 .. Len(s) /\ DOMAIN t = 1 .. Len(t)
  OBVIOUS
<1> HIDE DEF t
<1>2. \A j \in 2 .. Len(t) : j - 1 \in 1 .. Len(s) /\ t[j] = s[j - 1]
  <2> TAKE j \in 2 .. Len(t)
  <2>1. j - 1 \in 1 .. Len(s) /\ (j - 1) + 1 = j
    BY <1>1
  <2> QED
    BY <1>1, <2>1
<1>3. ASSUME AlarmIn(t), ~IsAlarm(m) PROVE AlarmIn(s)
  <2>1. PICK j \in 1 .. Len(t) : IsAlarm(t[j])
    BY <1>1, <1>3 DEF AlarmIn
  <2>2. j \in 2 .. Len(t)
    BY <1>1, <1>3, <2>1
  <2> QED
    BY <1>1, <1>2, <2>1, <2>2 DEF AlarmIn
<1>4. ASSUME LastSays(s, b) PROVE LastSays(t, b)
  <2>1. PICK i \in 1 .. Len(s) : s[i] = Alarm(b) /\ \A j \in (i + 1) .. Len(s) : ~IsAlarm(s[j])
    BY <1>4 DEF LastSays
  <2>2. i + 1 \in 1 .. Len(t) /\ t[i + 1] = Alarm(b)
    BY <1>1, <2>1
  <2>3. \A j \in ((i + 1) + 1) .. Len(t) : ~IsAlarm(t[j])
    <3> TAKE j \in ((i + 1) + 1) .. Len(t)
    <3>1. j \in 2 .. Len(t) /\ j - 1 \in (i + 1) .. Len(s)
      BY <1>1
    <3> QED
      BY <1>2, <2>1, <3>1
  <2> QED
    BY <2>2, <2>3 DEF LastSays
<1>5. ASSUME ~AlarmIn(s), m = Alarm(b) PROVE LastSays(t, b)
  <2>1. \A j \in (1 + 1) .. Len(t) : ~IsAlarm(t[j])
    BY <1>1, <1>2, <1>5 DEF AlarmIn
  <2>2. 1 \in 1 .. Len(t) /\ t[1] = Alarm(b)
    BY <1>1, <1>5
  <2> QED
    BY <2>1, <2>2 DEF LastSays
<1> QED
  BY <1>3, <1>4, <1>5 DEF t

------------------------------------------------------------------------------
(* The queue *)

LEMMA InitIInv == Init => IInv
<1> SUFFICES ASSUME Init PROVE IInv
  OBVIOUS
<1>1. /\ mq \in Seq(Messages) /\ Len(mq) <= MqSize
      /\ pc \in {"boot", "recv", "send", "sent"} /\ msg_can \in Messages \cup {Nothing}
      /\ result \in {"WAIT", "OK", "ERR"}
      /\ ota_start_flag \in {0, 1} /\ neg_state \in NegStates
      /\ BD_error_sendflag \in {0, 1} /\ main_neg \in NegStates /\ main_alarm \in {0, 1}
      /\ late \subseteq {"lcr", "BD"} /\ lost \in {"no", "full", "flush", "bus"}
  BY MqAssumption DEF Init
<1>2. inform_timer \in BOOLEAN
  BY Zenon DEF Init
<1>3. Known
  BY EmptySaysNothing DEF Init, Known, OnBus
<1> QED
  BY <1>1, <1>2, <1>3, Zenon DEF IInv, TypeOK

\* What the queue is after rt_mq_send, refused or not.
LEMMA SentQueue ==
    ASSUME TypeOK, NEW m \in Messages
    PROVE  /\ Sent(m) \in Seq(Messages) /\ Len(Sent(m)) <= MqSize
           /\ Sent(m) = IF Full THEN mq ELSE Append(mq, m)
<1>1. mq \in Seq(Messages) /\ Len(mq) \in Nat /\ Len(mq) <= MqSize /\ MqSize \in Nat
  BY MqAssumption DEF TypeOK
<1>2. CASE Full
  BY <1>1, <1>2 DEF Sent
<1>3. CASE ~Full
  <2>1. Append(mq, m) \in Seq(Messages) /\ Len(Append(mq, m)) = Len(mq) + 1
    BY <1>1
  <2> QED
    BY <1>1, <1>3, <2>1 DEF Sent, Full
<1> QED
  BY <1>2, <1>3

LEMMA QueueOfAny == TypeOK => mq \in Seq(Any) /\ msg_can \in Any /\ BD_error_sendflag \in {0, 1}
<1>1. Messages \subseteq Any
  BY DEF Any
<1> QED
  BY <1>1 DEF TypeOK, Any

\* A report or an answer, refused or not, says nothing about the alarm.
LEMMA SentKeepsKnown ==
    ASSUME IInv, NEW m \in Messages, ~IsAlarm(m), mq' = Sent(m),
           UNCHANGED <<pc, msg_can, main_alarm, BD_error_sendflag, lost>>
    PROVE  Known'
<1>1. CASE Full
  <2>1. mq' = mq
    BY <1>1 DEF Sent
  <2> QED
    BY <2>1, Zenon DEF IInv, Known, OnBus
<1>2. CASE ~Full
  <2>1. mq' = Append(mq, m)
    BY <1>2 DEF Sent
  <2>2. /\ AlarmIn(mq') <=> AlarmIn(mq)
        /\ LastSays(mq, BD_error_sendflag) => LastSays(mq', BD_error_sendflag)
    BY <2>1, AppendSays, QueueOfAny DEF IInv, Any
  <2> QED
    BY <2>2, Zenon DEF IInv, Known, OnBus
<1> QED
  BY <1>1, <1>2

LEMMA LastIsAlarm ==
    ASSUME NEW s \in Seq(Any), NEW b \in {0, 1}, LastSays(s, b)
    PROVE  AlarmIn(s)
BY Kinds DEF LastSays, AlarmIn

\* Throwing the queue away is noted if it held an alarm.
LEMMA ResetKeepsKnown ==
    ASSUME IInv, Reset, OnBus' <=> OnBus, OnBus => msg_can' = msg_can,
           UNCHANGED <<main_alarm, BD_error_sendflag>>
    PROVE  Known' /\ mq' \in Seq(Messages) /\ Len(mq') <= MqSize
           /\ lost' \in {"no", "full", "flush", "bus"}
<1>1. mq' = <<>> /\ ~AlarmIn(mq')
  BY EmptySaysNothing DEF Reset
<1>2. lost' = "no" => lost = "no" /\ ~AlarmIn(mq)
  BY DEF Reset
<1>3. ~AlarmIn(mq) => ~LastSays(mq, BD_error_sendflag)
  BY LastIsAlarm, QueueOfAny DEF IInv
<1>4. Known'
  BY <1>1, <1>2, <1>3, Zenon DEF IInv, Known
<1> QED
  BY <1>1, <1>4, MqAssumption DEF Reset, IInv, TypeOK

------------------------------------------------------------------------------
(* The senders *)

LEMMA ReportIInv ==
    ASSUME IInv, InformTimer \/ SendAnswer
    PROVE  IInv'
<1>1. PICK m \in Messages : mq' = Sent(m) /\ ~IsAlarm(m)
  BY Kinds DEF InformTimer, SendAnswer, IInv, TypeOK
<1>2. UNCHANGED <<pc, msg_can, result, inform_timer, ota_start_flag, neg_state, BD_error_sendflag,
                  main_neg, main_alarm, late, lost>>
  BY DEF InformTimer, SendAnswer, board, main
<1>3. mq' \in Seq(Messages) /\ Len(mq') <= MqSize
  BY <1>1, SentQueue DEF IInv
<1>4. Known'
  BY <1>1, <1>2, SentKeepsKnown
<1> QED
  BY <1>2, <1>3, <1>4, Zenon DEF IInv, TypeOK

LEMMA NegChangeIInv ==
    ASSUME IInv, NEW s \in NegStates, NegChange(s)
    PROVE  IInv'
<1>1. Inform(s) \in Messages /\ ~IsAlarm(Inform(s)) /\ mq' = Sent(Inform(s))
  BY Kinds DEF NegChange
<1>2. /\ UNCHANGED <<pc, msg_can, result, inform_timer, ota_start_flag, BD_error_sendflag,
                     main_neg, main_alarm, lost>>
      /\ neg_state' = s /\ late' \subseteq late
  BY DEF NegChange, main, RoundEnds
<1>3. mq' \in Seq(Messages) /\ Len(mq') <= MqSize
  BY <1>1, SentQueue DEF IInv
<1>4. Known'
  BY <1>1, <1>2, SentKeepsKnown
<1>5. late' \subseteq {"lcr", "BD"}
  BY <1>2 DEF IInv, TypeOK
<1> QED
  BY <1>2, <1>3, <1>4, <1>5, Zenon DEF IInv, TypeOK

LEMMA OtaAskIInv == IInv /\ OtaAsk => IInv'
<1> SUFFICES ASSUME IInv, OtaAsk PROVE IInv'
  OBVIOUS
<1>1. Answer \in Messages /\ ~IsAlarm(Answer) /\ mq' = Sent(Answer)
  BY Kinds DEF OtaAsk
<1>2. UNCHANGED <<pc, msg_can, result, neg_state, BD_error_sendflag, main_neg, main_alarm, lost>>
  BY DEF OtaAsk, main
<1>3. inform_timer' \in BOOLEAN /\ ota_start_flag' \in {0, 1} /\ late' \subseteq {"lcr", "BD"}
  BY DEF OtaAsk, IInv, TypeOK
<1>4. mq' \in Seq(Messages) /\ Len(mq') <= MqSize
  BY <1>1, SentQueue DEF IInv
<1>5. Known'
  BY <1>1, <1>2, SentKeepsKnown
<1> QED
  BY <1>2, <1>3, <1>4, <1>5, Zenon DEF IInv, TypeOK

\* The alarm that is sent is the last in the queue, or its refusal is noted.
LEMMA BdChangeIInv == IInv /\ BdChange => IInv'
<1> SUFFICES ASSUME IInv, BdChange PROVE IInv'
  OBVIOUS
<1> DEFINE b == 1 - BD_error_sendflag
<1>1. b \in {0, 1} /\ BD_error_sendflag' = b /\ mq' = Sent(Alarm(b))
  BY DEF BdChange, BdFlag, IInv, TypeOK
<1> HIDE DEF b
<1>2. Alarm(b) \in Messages
  BY <1>1, Kinds
<1>3. /\ UNCHANGED <<pc, msg_can, result, inform_timer, ota_start_flag, neg_state,
                     main_neg, main_alarm>>
      /\ late' \subseteq late /\ lost' = IF Full THEN "full" ELSE "no"
  BY DEF BdChange, main, RoundEnds
<1>4. mq' \in Seq(Messages) /\ Len(mq') <= MqSize
  BY <1>1, <1>2, SentQueue DEF IInv
<1>5. ASSUME Full PROVE Known'
  BY <1>3, <1>5 DEF Known
<1>6. ASSUME ~Full PROVE Known'
  <2>1. mq' = Append(mq, Alarm(b))
    BY <1>1, <1>6 DEF Sent
  <2>2. LastSays(mq', b)
    BY <1>1, <1>2, <2>1, AppendSays, QueueOfAny DEF IInv, Any
  <2> QED
    BY <1>1, <2>2, Zenon DEF Known
<1>7. Known'
  BY <1>5, <1>6
<1>8. late' \subseteq {"lcr", "BD"} /\ lost' \in {"no", "full", "flush", "bus"}
  BY <1>3 DEF IInv, TypeOK
<1> QED
  BY <1>1, <1>3, <1>4, <1>7, <1>8, Zenon DEF IInv, TypeOK

LEMMA RfSwitchOnIInv == IInv /\ RfSwitchOn => IInv'
<1> SUFFICES ASSUME IInv, RfSwitchOn PROVE IInv'
  OBVIOUS
<1>1. /\ UNCHANGED <<pc, msg_can, result, inform_timer, ota_start_flag, neg_state,
                     BD_error_sendflag, main_neg, main_alarm, late>>
      /\ Reset
  BY DEF RfSwitchOn, board, main
<1>2. Known' /\ mq' \in Seq(Messages) /\ Len(mq') <= MqSize
      /\ lost' \in {"no", "full", "flush", "bus"}
  BY <1>1, ResetKeepsKnown DEF OnBus
<1> QED
  BY <1>1, <1>2, Zenon DEF IInv, TypeOK

------------------------------------------------------------------------------
(* The thread and the bus *)

LEMMA StartIInv == IInv /\ Start => IInv'
<1> SUFFICES ASSUME IInv, Start PROVE IInv'
  OBVIOUS
<1>1. /\ UNCHANGED <<mq, msg_can, result, ota_start_flag, neg_state, BD_error_sendflag,
                     main_neg, main_alarm, late, lost>>
      /\ pc = "boot" /\ pc' = "recv"
  BY DEF Start, main
<1>2. inform_timer' \in BOOLEAN
  BY Zenon DEF Start
<1>3. ~OnBus /\ ~OnBus'
  BY <1>1 DEF OnBus
<1>4. Known'
  BY <1>1, <1>3, Zenon DEF IInv, Known
<1>5. pc' \in {"boot", "recv", "send", "sent"}
  BY <1>1
<1> QED
  BY <1>1, <1>2, <1>4, <1>5, Zenon DEF IInv, TypeOK

LEMMA ReceiveIInv == IInv /\ Receive => IInv'
<1> SUFFICES ASSUME IInv, Receive PROVE IInv'
  OBVIOUS
<1>1. /\ UNCHANGED <<inform_timer, ota_start_flag, neg_state, BD_error_sendflag,
                     main_neg, main_alarm, late, lost>>
      /\ mq # <<>> /\ msg_can' = Head(mq) /\ mq' = Tail(mq)
      /\ ~OnBus /\ OnBus'
      /\ pc' \in {"boot", "recv", "send", "sent"} /\ result' \in {"WAIT", "OK", "ERR"}
  BY DEF Receive, board, main, OnBus
<1>2. mq \in Seq(Messages) /\ Len(mq) <= MqSize /\ Len(mq) \in Nat /\ MqSize \in Nat
  BY MqAssumption DEF IInv, TypeOK
<1>3. mq' \in Seq(Messages) /\ Len(mq') <= MqSize /\ msg_can' \in Messages
  BY <1>1, <1>2
<1>4. msg_can' \in Messages \cup {Nothing}
  BY <1>3
<1>5. /\ AlarmIn(mq) <=> IsAlarm(msg_can') \/ AlarmIn(mq')
      /\ LastSays(mq, BD_error_sendflag)
            => LastSays(mq', BD_error_sendflag)
               \/ (~AlarmIn(mq') /\ msg_can' = Alarm(BD_error_sendflag))
  BY <1>1, HeadTailSays, QueueOfAny DEF IInv
<1>6. Known'
  BY <1>1, <1>5, Zenon DEF IInv, Known
<1> QED
  BY <1>1, <1>3, <1>4, <1>6, Zenon DEF IInv, TypeOK

\* An alarm that arrives is the last one, or one in the queue will overtake it.
LEMMA BusOkIInv == IInv /\ BusOk => IInv'
<1> SUFFICES ASSUME IInv, BusOk PROVE IInv'
  OBVIOUS
<1>1. /\ UNCHANGED <<mq, msg_can, inform_timer, ota_start_flag, neg_state, BD_error_sendflag,
                     late, lost>>
      /\ OnBus /\ ~OnBus' /\ Arrive
      /\ pc' \in {"boot", "recv", "send", "sent"} /\ result' \in {"WAIT", "OK", "ERR"}
  BY DEF BusOk, board, OnBus
<1>2. msg_can \in Any /\ BD_error_sendflag \in {0, 1}
  BY QueueOfAny DEF IInv
<1>3. main_neg' \in NegStates /\ main_alarm' \in {0, 1}
  BY <1>1, <1>2, Values DEF Arrive, IInv, TypeOK
<1>4. /\ IsAlarm(msg_can) => main_alarm' = msg_can.val
      /\ ~IsAlarm(msg_can) => main_alarm' = main_alarm
  BY <1>1 DEF Arrive
<1>5. msg_can = Alarm(BD_error_sendflag) => main_alarm' = BD_error_sendflag
  <2>1. IsAlarm(Alarm(BD_error_sendflag)) /\ Alarm(BD_error_sendflag).val = BD_error_sendflag
    BY <1>2, Kinds
  <2> QED
    BY <2>1, <1>4
<1>6. Known'
  BY <1>1, <1>4, <1>5, Zenon DEF IInv, Known
<1> QED
  BY <1>1, <1>3, <1>6, Zenon DEF IInv, TypeOK

LEMMA BusFailsIInv == IInv /\ BusFails => IInv'
<1> SUFFICES ASSUME IInv, BusFails PROVE IInv'
  OBVIOUS
<1>1. /\ UNCHANGED <<mq, msg_can, inform_timer, ota_start_flag, neg_state, BD_error_sendflag,
                     main_neg, main_alarm, late>>
      /\ OnBus /\ ~OnBus'
      /\ pc' \in {"boot", "recv", "send", "sent"} /\ result' \in {"WAIT", "OK", "ERR"}
  BY DEF BusFails, board, main, OnBus
<1>2. /\ lost' \in {"no", "full", "flush", "bus"}
      /\ lost' = "no" => lost = "no" /\ (IsAlarm(msg_can) => AlarmIn(mq))
  BY DEF BusFails, IInv, TypeOK
<1>3. IsAlarm(Alarm(BD_error_sendflag))
  BY Kinds, QueueOfAny DEF IInv
<1>4. Known'
  BY <1>1, <1>2, <1>3, Zenon DEF IInv, Known
<1> QED
  BY <1>1, <1>2, <1>4, Zenon DEF IInv, TypeOK

LEMMA FinishIInv == IInv /\ Finish => IInv'
<1> SUFFICES ASSUME IInv, Finish PROVE IInv'
  OBVIOUS
<1>1. /\ UNCHANGED <<result, ota_start_flag, neg_state, BD_error_sendflag, main_neg, main_alarm,
                     late>>
      /\ ~OnBus /\ ~OnBus'
      /\ pc' \in {"boot", "recv", "send", "sent"} /\ msg_can' = Nothing
  BY DEF Finish, main, OnBus
<1>2. inform_timer' = inform_timer
  BY DEF Finish, TimerAfterFailure
<1>3. msg_can' \in Messages \cup {Nothing}
  BY <1>1
<1>4. /\ Known' /\ mq' \in Seq(Messages) /\ Len(mq') <= MqSize
      /\ lost' \in {"no", "full", "flush", "bus"}
  <2>1. CASE Reset
    BY <1>1, <2>1, ResetKeepsKnown
  <2>2. CASE UNCHANGED <<mq, lost>>
    <3>1. Known'
      BY <1>1, <2>2, Zenon DEF IInv, Known
    <3> QED
      BY <2>2, <3>1, Zenon DEF IInv, TypeOK
  <2> QED
    BY <2>1, <2>2 DEF Finish
<1> QED
  BY <1>1, <1>2, <1>3, <1>4, Zenon DEF IInv, TypeOK

LEMMA NextIInv == IInv /\ [Next]_vars => IInv'
<1> SUFFICES ASSUME IInv, [Next]_vars PROVE IInv'
  OBVIOUS
<1>1. CASE UNCHANGED vars
  <2>1. UNCHANGED <<mq, pc, msg_can, result, inform_timer, ota_start_flag, neg_state,
                    BD_error_sendflag, main_neg, main_alarm, late, lost>>
    BY <1>1 DEF vars, board, main
  <2> QED
    BY <2>1, Zenon DEF IInv, TypeOK, Known, OnBus
<1>2. CASE Senders
  BY <1>2, NegChangeIInv, ReportIInv, BdChangeIInv, RfSwitchOnIInv, OtaAskIInv DEF Senders
<1>3. CASE Start \/ Receive \/ Bus \/ Finish
  BY <1>3, StartIInv, ReceiveIInv, BusOkIInv, BusFailsIInv, FinishIInv DEF Bus
<1> QED
  BY <1>1, <1>2, <1>3 DEF Next

------------------------------------------------------------------------------

\* The inductive invariant of the transmission (can.c:305-349).
THEOREM Invariance == Spec => []IInv
  BY InitIInv, NextIInv, PTL DEF Spec

\* All variables keep their types; the queue never holds more than its length.
THEOREM TypeCorrect == Spec => []TypeOK
<1>1. IInv => TypeOK
  BY DEF IInv
<1> QED
  BY Invariance, <1>1, PTL

LEMMA KnownImplies == IInv => AlarmKnown
<1>1. ASSUME IInv PROVE DOMAIN InFlight = 1 .. Len(InFlight)
  <2>1. mq \in Seq(Any) /\ msg_can \in Any
    BY <1>1, QueueOfAny DEF IInv
  <2>2. <<msg_can>> \o mq \in Seq(Any)
    BY <2>1
  <2> QED
    BY <2>1, <2>2 DEF InFlight
<1> SUFFICES ASSUME IInv, lost = "no"
             PROVE  \/ ~AlarmIn(InFlight) /\ main_alarm = BD_error_sendflag
                    \/ LastSays(InFlight, BD_error_sendflag)
  BY <1>1 DEF AlarmKnown, LastSays
<1>2. CASE OnBus
  <2>1. InFlight = <<msg_can>> \o mq
    BY <1>2 DEF InFlight, OnBus
  <2> QED
    BY <1>2, <2>1, InFrontSays, QueueOfAny DEF IInv, Known
<1>3. CASE ~OnBus
  <2>1. InFlight = mq
    BY <1>3 DEF InFlight, OnBus
  <2> QED
    BY <1>3, <2>1, Zenon DEF IInv, Known
<1> QED
  BY <1>2, <1>3

\* For every length of the queue: an alarm message that is neither refused nor
\* thrown away nor failed on the bus is the last alarm on its way or known to the
\* main board, and says what the flag says.
THEOREM AlarmSafe == Spec => []AlarmKnown
  BY Invariance, KnownImplies, PTL

------------------------------------------------------------------------------
(* What stays as it is once it is reached *)

\* The main board knows the alarm state, and no alarm is on its way.
AlarmAtRest == ~AlarmIn(mq) /\ ~(OnBus /\ IsAlarm(msg_can)) /\ main_alarm = BD_error_sendflag

LEMMA QuietSent ==
    ASSUME TypeOK, ~AlarmIn(mq), NEW m \in Messages, ~IsAlarm(m)
    PROVE  ~AlarmIn(Sent(m))
<1>1. CASE Full
  BY <1>1 DEF Sent
<1>2. CASE ~Full
  BY <1>2, AppendSays, QueueOfAny DEF Sent, Any
<1> QED
  BY <1>1, <1>2

LEMMA SendersAtRest ==
    ASSUME IInv, AlarmAtRest, Senders, ~BdChange
    PROVE  AlarmAtRest'
<1>1. UNCHANGED <<pc, msg_can, BD_error_sendflag, main_alarm>>
  BY DEF Senders, NegChange, InformTimer, SendAnswer, RfSwitchOn, OtaAsk, board, main
<1>2. ~AlarmIn(mq')
  <2>1. CASE RfSwitchOn
    BY <2>1, EmptySaysNothing DEF RfSwitchOn, Reset
  <2>2. CASE InformTimer \/ SendAnswer \/ OtaAsk \/ \E s \in NegStates : NegChange(s)
    <3>1. PICK m \in Messages : mq' = Sent(m) /\ ~IsAlarm(m)
      BY <2>2, Kinds DEF InformTimer, SendAnswer, OtaAsk, NegChange, IInv, TypeOK
    <3> QED
      BY <3>1, QuietSent DEF IInv, AlarmAtRest
  <2> QED
    BY <2>1, <2>2 DEF Senders
<1> QED
  BY <1>1, <1>2, Zenon DEF AlarmAtRest, OnBus

LEMMA SendingAtRest ==
    ASSUME IInv, AlarmAtRest, Start \/ Receive \/ Bus \/ Finish
    PROVE  AlarmAtRest'
<1>1. CASE Start
  BY <1>1 DEF Start, AlarmAtRest, OnBus, main
<1>2. CASE Receive
  <2>1. UNCHANGED <<BD_error_sendflag, main_alarm>> /\ mq' = Tail(mq) /\ msg_can' = Head(mq)
    BY <1>2 DEF Receive, board, main
  <2>2. ~IsAlarm(Head(mq)) /\ ~AlarmIn(Tail(mq))
    BY <1>2, HeadTailSays, QueueOfAny DEF Receive, IInv, AlarmAtRest
  <2> QED
    BY <2>1, <2>2, Zenon DEF AlarmAtRest
<1>3. CASE Bus
  <2>1. UNCHANGED <<mq, BD_error_sendflag>> /\ OnBus /\ ~OnBus'
    BY <1>3 DEF Bus, BusOk, BusFails, board, OnBus
  <2>2. main_alarm' = main_alarm
    BY <1>3, <2>1 DEF Bus, BusOk, BusFails, Arrive, main, AlarmAtRest
  <2> QED
    BY <2>1, <2>2, Zenon DEF AlarmAtRest
<1>4. CASE Finish
  <2>1. UNCHANGED <<BD_error_sendflag, main_alarm>> /\ ~OnBus' /\ (mq' = mq \/ mq' = <<>>)
    BY <1>4 DEF Finish, Reset, main, OnBus
  <2> QED
    BY <2>1, EmptySaysNothing DEF AlarmAtRest
<1> QED
  BY <1>1, <1>2, <1>3, <1>4

\* Once the main board knows the alarm state and no alarm is on its way, only a
\* change of the bubbles disturbs that: no report, answer, refusal, reset or lost
\* frame makes the main board forget or see an old alarm again (adc.c:103-107,
\* can.c:305-349).
THEOREM AlarmStays ==
    Spec => [](AlarmAtRest /\ [][~BdChange]_vars => [](main_alarm = BD_error_sendflag))
<1>1. IInv /\ AlarmAtRest /\ [Next]_vars /\ [~BdChange]_vars => AlarmAtRest'
  <2>1. ASSUME AlarmAtRest, UNCHANGED vars PROVE AlarmAtRest'
    <3>1. UNCHANGED <<mq, pc, msg_can, BD_error_sendflag, main_alarm>>
      BY <2>1 DEF vars, board, main
    <3> QED
      BY <2>1, <3>1, Zenon DEF AlarmAtRest, OnBus
  <2> QED
    BY <2>1, SendersAtRest, SendingAtRest DEF Next
<1>2. AlarmAtRest => main_alarm = BD_error_sendflag
  BY DEF AlarmAtRest
<1> QED
  BY Invariance, <1>1, <1>2, PTL DEF Spec

\* Every report says the state s.
Says(m, s) == m.kind = "inform" => m.val = s
AllSay(messages, s) == \A i \in 1 .. Len(messages) : Says(messages[i], s)

\* The main board knows the plate's state, and every report on its way says it.
PlateAtRest == AllSay(mq, neg_state) /\ (OnBus => Says(msg_can, neg_state)) /\ main_neg = neg_state

LEMMA SentSays ==
    ASSUME TypeOK, NEW s \in NegStates, AllSay(mq, s), NEW m \in Messages, Says(m, s)
    PROVE  AllSay(Sent(m), s)
<1>1. CASE Full
  BY <1>1 DEF Sent
<1>2. CASE ~Full
  <2>1. /\ Len(mq) \in Nat /\ Len(Append(mq, m)) = Len(mq) + 1
        /\ \A i \in 1 .. Len(mq) : Append(mq, m)[i] = mq[i]
        /\ Append(mq, m)[Len(mq) + 1] = m
    BY DEF TypeOK
  <2>2. \A i \in 1 .. (Len(mq) + 1) : i \in 1 .. Len(mq) \/ i = Len(mq) + 1
    BY <2>1
  <2> QED
    BY <1>2, <2>1, <2>2, Zenon DEF Sent, AllSay
<1> QED
  BY <1>1, <1>2

LEMMA TakenSays ==
    ASSUME TypeOK, NEW s \in NegStates, AllSay(mq, s), mq # <<>>
    PROVE  AllSay(Tail(mq), s) /\ Says(Head(mq), s)
<1>1. /\ Len(mq) \in Nat /\ 1 \in 1 .. Len(mq) /\ Head(mq) = mq[1]
      /\ \A i \in 1 .. Len(Tail(mq)) : i + 1 \in 1 .. Len(mq) /\ Tail(mq)[i] = mq[i + 1]
  BY DEF TypeOK
<1> QED
  BY <1>1, Zenon DEF AllSay

LEMMA PlateStep ==
    ASSUME IInv, PlateAtRest, Next, ~\E s \in NegStates : NegChange(s)
    PROVE  PlateAtRest'
<1>1. neg_state \in NegStates /\ TypeOK /\ neg_state' = neg_state
  BY DEF IInv, TypeOK, Next, Senders, InformTimer, BdChange, SendAnswer, RfSwitchOn, OtaAsk, Start,
     Receive, Bus, BusOk, BusFails, Finish, board
<1>2. ASSUME Senders PROVE PlateAtRest'
  <2>1. UNCHANGED <<pc, msg_can, main_neg>>
    BY <1>2 DEF Senders, InformTimer, BdChange, SendAnswer, RfSwitchOn, OtaAsk, main
  <2>2. AllSay(mq', neg_state)
    <3>1. CASE RfSwitchOn
      BY <3>1 DEF RfSwitchOn, Reset, AllSay
    <3>2. CASE InformTimer \/ BdChange \/ SendAnswer \/ OtaAsk
      <4>1. 1 - BD_error_sendflag \in {0, 1}
        BY <1>1 DEF TypeOK
      <4>2. PICK m \in Messages : mq' = Sent(m) /\ Says(m, neg_state)
        BY <1>1, <3>2, <4>1, Kinds DEF InformTimer, BdChange, SendAnswer, OtaAsk, Says, Inform,
           Alarm, Answer
      <4> QED
        BY <1>1, <4>2, SentSays DEF PlateAtRest
    <3> QED
      BY <1>2, <3>1, <3>2 DEF Senders
  <2> QED
    BY <1>1, <2>1, <2>2, Zenon DEF PlateAtRest, OnBus
<1>3. ASSUME Start PROVE PlateAtRest'
  BY <1>1, <1>3 DEF Start, PlateAtRest, OnBus, main
<1>4. ASSUME Receive PROVE PlateAtRest'
  <2>1. main_neg' = main_neg /\ mq' = Tail(mq) /\ msg_can' = Head(mq) /\ mq # <<>>
    BY <1>4 DEF Receive, main
  <2> QED
    BY <1>1, <2>1, TakenSays DEF PlateAtRest
<1>5. ASSUME Bus PROVE PlateAtRest'
  <2>1. mq' = mq /\ OnBus /\ ~OnBus'
    BY <1>5 DEF Bus, BusOk, BusFails, OnBus
  <2>2. main_neg' = neg_state
    BY <1>5, <2>1 DEF Bus, BusOk, BusFails, Arrive, main, PlateAtRest, Says
  <2> QED
    BY <1>1, <2>1, <2>2, Zenon DEF PlateAtRest
<1>6. ASSUME Finish PROVE PlateAtRest'
  <2>1. main_neg' = main_neg /\ ~OnBus' /\ (mq' = mq \/ mq' = <<>>)
    BY <1>6 DEF Finish, Reset, main, OnBus
  <2> QED
    BY <1>1, <2>1 DEF PlateAtRest, AllSay
<1> QED
  BY <1>2, <1>3, <1>4, <1>5, <1>6 DEF Next

\* Once the main board knows the plate's state and no older report is on its way,
\* only a change of the plate disturbs that: no other message, no lost frame and no
\* reset of the queue shows the main board an older state (can.c:160, lcr_task.c:146).
THEOREM ReportStays ==
    Spec => [](PlateAtRest /\ [][~\E s \in NegStates : NegChange(s)]_vars => [](main_neg = neg_state))
<1>1. IInv /\ PlateAtRest /\ [Next]_vars /\ [~\E s \in NegStates : NegChange(s)]_vars => PlateAtRest'
  <2>1. ASSUME PlateAtRest, UNCHANGED vars PROVE PlateAtRest'
    <3>1. UNCHANGED <<mq, pc, msg_can, neg_state, main_neg>>
      BY <2>1 DEF vars, board, main
    <3> QED
      BY <2>1, <3>1, Zenon DEF PlateAtRest, OnBus
  <2> QED
    BY <2>1, PlateStep
<1>2. PlateAtRest => main_neg = neg_state
  BY DEF PlateAtRest
<1> QED
  BY Invariance, <1>1, <1>2, PTL DEF Spec

------------------------------------------------------------------------------
(* How a message comes forward *)

SendThread == Start \/ Receive \/ Bus \/ Finish
Place == CASE pc = "recv" -> 0 [] pc = "send" -> 2 [] OTHER -> 1

\* A failed write or an RF-on frame throws the queue away.
ThrownAway == RfSwitchOn \/ (Finish /\ result # "OK")

\* The message at place k of the queue has 3 * k + Place steps of the thread before it;
\* at place 0 it is the one the thread holds.
StandsAt(m, j) == IF j = 0 THEN msg_can' = m ELSE j <= Len(mq') /\ mq'[j] = m
ComesForward ==
    \A k \in 1 .. Len(mq) :
        \/ ThrownAway
        \/ \E j \in {k, k - 1} :
              /\ StandsAt(mq[k], j)
              /\ 3 * j + Place' <= 3 * k + Place
              /\ SendThread => 3 * j + Place' < 3 * k + Place

LEMMA PlaceNat == Place \in 0 .. 2 /\ Place' \in 0 .. 2
BY DEF Place

LEMMA PlaceCounts ==
    \A p, q \in 0 .. 2 : \A j, k \in Int :
        /\ 3 * j + q < 3 * k + p => 3 * j + q <= 3 * k + p
        /\ q < p => 3 * k + q < 3 * k + p
OBVIOUS

LEMMA ThreadMoves == SendThread => pc' # pc
BY DEF SendThread, Start, Receive, Bus, BusOk, BusFails, Finish

\* A message sent stands behind those that are there.
LEMMA SentKeepsPlaces ==
    ASSUME TypeOK, NEW m \in Messages, NEW k \in 1 .. Len(mq)
    PROVE  k <= Len(Sent(m)) /\ Sent(m)[k] = mq[k]
<1>1. CASE Full
  BY <1>1 DEF Sent, TypeOK
<1>2. CASE ~Full
  BY <1>2 DEF Sent, TypeOK
<1> QED
  BY <1>1, <1>2

LEMMA SendersBehind ==
    ASSUME IInv, Senders \/ UNCHANGED vars
    PROVE  ComesForward
<1> SUFFICES ASSUME NEW k \in 1 .. Len(mq), ~ThrownAway
             PROVE  StandsAt(mq[k], k) /\ Place' = Place /\ ~SendThread
  <2>1. \A k \in 1 .. Len(mq) : Place' = Place => 3 * k + Place' <= 3 * k + Place
    BY PlaceNat
  <2> QED
    BY <2>1, Zenon DEF ComesForward
<1>1. TypeOK
  BY DEF IInv
<1>2. pc' = pc
  BY DEF Senders, NegChange, InformTimer, BdChange, SendAnswer, RfSwitchOn, OtaAsk, vars
<1>3. Place' = Place /\ ~SendThread
  BY <1>2, ThreadMoves DEF Place
<1>4. CASE UNCHANGED vars
  BY <1>1, <1>3, <1>4 DEF vars, TypeOK, StandsAt
<1>5. CASE Senders
  <2>1. 1 - BD_error_sendflag \in {0, 1}
    BY <1>1 DEF TypeOK
  <2>2. PICK m \in Messages : mq' = Sent(m)
    BY <1>1, <1>5, <2>1, Kinds DEF Senders, NegChange, InformTimer, BdChange, SendAnswer, OtaAsk,
       ThrownAway, TypeOK
  <2> QED
    BY <1>1, <1>3, <2>2, SentKeepsPlaces DEF StandsAt
<1> QED
  BY <1>4, <1>5

LEMMA ThreadForward ==
    ASSUME IInv, SendThread
    PROVE  ComesForward
<1> SUFFICES ASSUME NEW k \in 1 .. Len(mq), ~ThrownAway
             PROVE  \E j \in {k, k - 1} : StandsAt(mq[k], j) /\ 3 * j + Place' < 3 * k + Place
  <2>1. \A k \in 1 .. Len(mq) : \A j \in {k, k - 1} :
           3 * j + Place' < 3 * k + Place => 3 * j + Place' <= 3 * k + Place
    <3> TAKE k \in 1 .. Len(mq)
    <3> TAKE j \in {k, k - 1}
    <3>1. j \in Int /\ k \in Int
      OBVIOUS
    <3> QED
      BY <3>1, PlaceNat, PlaceCounts, Zenon
  <2> QED
    BY <2>1, Zenon DEF ComesForward
<1>1. mq \in Seq(Messages) /\ Len(mq) \in Nat
  BY DEF IInv, TypeOK
<1>2. CASE Receive
  <2>1. Place = 0 /\ Place' = 2 /\ msg_can' = mq[1] /\ mq' = Tail(mq) /\ Len(mq') = Len(mq) - 1
    BY <1>1, <1>2 DEF Receive, Place
  <2>2. \A n \in 1 .. Len(mq') : mq'[n] = mq[n + 1]
    BY <1>1, <2>1
  <2>3. StandsAt(mq[k], k - 1)
    <3> USE DEF StandsAt
    <3>1. CASE k = 1
      BY <2>1, <3>1
    <3>2. CASE k # 1
      <4>1. k - 1 \in 1 .. Len(mq') /\ (k - 1) + 1 = k /\ k - 1 # 0
        BY <1>1, <2>1, <3>2
      <4> QED
        BY <2>2, <4>1
    <3> QED
      BY <3>1, <3>2
  <2>4. 3 * (k - 1) + Place' < 3 * k + Place
    BY <2>1
  <2> QED
    BY <2>3, <2>4, Zenon
<1>3. CASE Start \/ Bus \/ Finish
  <2>1. mq' = mq /\ Place' < Place
    BY <1>3 DEF Start, Bus, BusOk, BusFails, Finish, ThrownAway, Place
  <2>2. StandsAt(mq[k], k)
    BY <1>1, <2>1 DEF StandsAt
  <2>3. 3 * k + Place' < 3 * k + Place
    <3>1. k \in Int
      OBVIOUS
    <3> QED
      BY <2>1, <3>1, PlaceNat, PlaceCounts, Zenon
  <2> QED
    BY <2>2, <2>3, Zenon
<1> QED
  BY <1>2, <1>3 DEF SendThread

\* A message in the queue, an alarm above all, comes forward with every step of
\* can_tx_thread, however many the senders put behind it, until the thread holds it or
\* the queue is thrown away (can.c:91, 305-349).
THEOREM QueueProgress == Spec => [][ComesForward]_vars
<1>1. IInv /\ [Next]_vars => ComesForward
  BY SendersBehind, ThreadForward DEF Next, SendThread
<1> QED
  BY <1>1, Invariance, PTL DEF Spec

=============================================================================
