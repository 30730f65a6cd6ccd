----------------------------- MODULE CanRxProofs -----------------------------
(***************************************************************************)
(* Proofs about CanRx, for a box and a semaphore of any size: no interrupt *)
(* loses a node or a wake-up, an overrun costs the oldest frames only, and *)
(* the thread handles frames in the order of their arrival.                *)
(***************************************************************************)
EXTENDS CanRx, SequenceTheorems, TLAPS

\* The thread sleeps with rxmsg.hdr reset, so that a semaphore it takes reads
\* the box and not the list of a filter bank; after a frame it has the bank that
\* frame passed.
HdrInStep ==
    /\ pc = "take" => hdr = Any
    /\ pc = "handle" => hdr = Bank

\* What was stored before the callback was registered has arrived.
EarlyArrived == early <= arrived

\* The frames in the box are later than the one read last, which is not before
\* the one handled last, and after it while its handler has not returned.
ReadInOrder ==
    /\ rxmsg <= arrived
    /\ \A i \in 1 .. Len(uselist) : uselist[i] > rxmsg
    /\ handled <= rxmsg
    /\ pc \in {"copy", "handle"} => handled < rxmsg

IInv ==
    /\ TypeOK /\ NodesConserved /\ BoxIsLatest /\ SignalCovers
    /\ HdrInStep /\ EarlyArrived /\ ReadInOrder

\* Everything holds in the initial state: the box is empty.
LEMMA InitIInv == Init => IInv
<1> SUFFICES ASSUME Init PROVE IInv
  OBVIOUS
<1>1. /\ uselist \in Seq(1 .. MaxFrames) /\ Len(uselist) = 0
      /\ arrived = 0 /\ freenumbers = BoxSize /\ rx_indicate = FALSE /\ rx_sem = 0
      /\ pc = "boot" /\ hdr = Any /\ rxmsg = 0 /\ handled = 0 /\ early = 0
  BY DEF Init
<1>2. TypeOK
  <2>1. rx_indicate \in BOOLEAN
    BY <1>1
  <2>2. hdr \in {Any, Bank} /\ pc \in {"boot", "take", "read", "copy", "handle"}
    BY <1>1
  <2>3. /\ arrived \in 0 .. MaxFrames /\ freenumbers \in 0 .. BoxSize /\ rx_sem \in 0 .. SemMax
        /\ rxmsg \in 0 .. MaxFrames /\ handled \in 0 .. MaxFrames /\ early \in 0 .. MaxFrames
    BY <1>1, BoxAssumption
  <2> QED
    BY <1>1, <2>1, <2>2, <2>3 DEF TypeOK
<1>3. NodesConserved /\ SignalCovers
  BY <1>1, BoxAssumption DEF NodesConserved, SignalCovers, InCopy, Awake
<1>4. BoxIsLatest
  BY <1>1 DEF BoxIsLatest
<1>5. HdrInStep /\ EarlyArrived
  BY <1>1 DEF HdrInStep, EarlyArrived
<1>6. ReadInOrder
  <2>1. \A i \in 1 .. Len(uselist) : uselist[i] > rxmsg
    BY <1>1
  <2>2. rxmsg <= arrived /\ handled <= rxmsg /\ ~(pc \in {"copy", "handle"})
    BY <1>1
  <2> QED
    BY <2>1, <2>2 DEF ReadInOrder
<1> QED
  BY <1>2, <1>3, <1>4, <1>5, <1>6 DEF IInv

\* A box of frames without a gap stays one when the next frame is linked behind.
LEMMA LinkedBox ==
    ASSUME NEW box \in Seq(1 .. MaxFrames), NEW n \in Nat, n < MaxFrames,
           \A i \in 1 .. Len(box) : box[i] = n - Len(box) + i
    PROVE  /\ Append(box, n + 1) \in Seq(1 .. MaxFrames)
           /\ Len(Append(box, n + 1)) = Len(box) + 1
           /\ \A i \in 1 .. (Len(box) + 1) : Append(box, n + 1)[i] = n + 1 - (Len(box) + 1) + i
<1>1. n + 1 \in 1 .. MaxFrames
  BY BoxAssumption
<1> QED
  BY <1>1

\* A box without a gap stays one when the oldest frame is taken out.
LEMMA TailBox ==
    ASSUME NEW box \in Seq(1 .. MaxFrames), box # <<>>, NEW n \in Nat,
           \A i \in 1 .. Len(box) : box[i] = n - Len(box) + i
    PROVE  /\ Tail(box) \in Seq(1 .. MaxFrames)
           /\ Len(box) >= 1
           /\ Len(Tail(box)) = Len(box) - 1
           /\ \A i \in 1 .. Len(Tail(box)) : Tail(box)[i] = n - Len(Tail(box)) + i
           /\ Head(box) = n - Len(box) + 1
           /\ Head(box) \in 1 .. MaxFrames
<1>1. Len(box) \in Nat /\ Len(box) >= 1
  OBVIOUS
<1>2. /\ Tail(box) \in Seq(1 .. MaxFrames) /\ Len(Tail(box)) = Len(box) - 1
      /\ \A i \in 1 .. Len(Tail(box)) : Tail(box)[i] = box[i + 1]
  BY <1>1
<1>3. Head(box) = box[1] /\ 1 \in 1 .. Len(box)
  BY <1>1
<1>4. Head(box) \in 1 .. MaxFrames
  BY <1>3, ElementOfSeq
<1>5. Head(box) = n - Len(box) + 1
  BY <1>3
<1>6. ASSUME NEW i \in 1 .. Len(Tail(box))
      PROVE  Tail(box)[i] = n - Len(Tail(box)) + i
  <2>1. i + 1 \in 1 .. Len(box) /\ i \in Int
    BY <1>1, <1>2
  <2>2. box[i + 1] = n - Len(box) + (i + 1)
    BY <2>1
  <2> QED
    BY <1>1, <1>2, <2>1, <2>2
<1> QED
  BY <1>1, <1>2, <1>4, <1>5, <1>6

\* An RX interrupt that finds a free node, or takes that of the oldest frame,
\* keeps the box in order and leaves a semaphore for the frame: if rx_sem is at
\* its maximum there are at least as many semaphores as nodes.
LEMMA InterruptIInv == IInv /\ Interrupt => IInv'
<1> SUFFICES ASSUME IInv, Interrupt PROVE IInv'
  OBVIOUS
<1> USE BoxAssumption
<1>0. TypeOK /\ arrived' = arrived + 1 /\ arrived < MaxFrames /\ arrived \in Nat
      /\ UNCHANGED <<rx_indicate, pc, hdr, rxmsg, handled>>
  BY DEF IInv, Interrupt, TypeOK
<1>1. \E box \in Seq(1 .. MaxFrames) :
        /\ \A i \in 1 .. Len(box) : box[i] = arrived - Len(box) + i
        /\ uselist' = Append(box, arrived + 1)
        /\ Len(box) <= Len(uselist)
        /\ freenumbers' + Len(box) + 1 = freenumbers + Len(uselist)
        /\ freenumbers' \in 0 .. BoxSize
        /\ \A i \in 1 .. Len(box) : box[i] > rxmsg
  <2>1. CASE freenumbers > 0
    <3>1. uselist' = Append(uselist, arrived + 1) /\ freenumbers' = freenumbers - 1
      BY <2>1 DEF Interrupt, Store, Linked
    <3>2. uselist \in Seq(1 .. MaxFrames) /\ Len(uselist) \in Nat /\ freenumbers \in 0 .. BoxSize
      BY <1>0 DEF TypeOK
    <3>3. \A i \in 1 .. Len(uselist) : uselist[i] = arrived - Len(uselist) + i /\ uselist[i] > rxmsg
      BY DEF IInv, BoxIsLatest, ReadInOrder
    <3> QED
      BY <2>1, <3>1, <3>2, <3>3
  <2>2. CASE ~(freenumbers > 0)
    <3>1. uselist' = Append(Tail(uselist), arrived + 1) /\ freenumbers' = freenumbers
      BY <2>2 DEF Interrupt, Store, Linked, GiveUp
    <3>2. uselist \in Seq(1 .. MaxFrames) /\ Len(uselist) \in Nat /\ freenumbers \in 0 .. BoxSize
      BY <1>0 DEF TypeOK
    <3>3. \A i \in 1 .. Len(uselist) : uselist[i] = arrived - Len(uselist) + i
      BY DEF IInv, BoxIsLatest
    <3>4. uselist # <<>>
      BY <2>2, <3>2 DEF IInv, NodesConserved, InCopy
    <3>5. /\ Tail(uselist) \in Seq(1 .. MaxFrames)
          /\ Len(Tail(uselist)) = Len(uselist) - 1
          /\ \A i \in 1 .. Len(Tail(uselist)) : Tail(uselist)[i] = arrived - Len(Tail(uselist)) + i
      BY <1>0, <3>2, <3>3, <3>4, TailBox
    <3>6. \A i \in 1 .. Len(Tail(uselist)) : Tail(uselist)[i] > rxmsg
      <4>1. rxmsg <= arrived - Len(uselist) /\ rxmsg \in Nat
        <5>1. uselist[1] > rxmsg /\ uselist[1] = arrived - Len(uselist) + 1 /\ rxmsg \in Nat
          BY <1>0, <3>2, <3>3, <3>4 DEF IInv, ReadInOrder, TypeOK
        <5> QED
          BY <1>0, <3>2, <5>1
      <4> QED
        BY <1>0, <3>2, <3>5, <4>1
    <3>7. /\ Len(Tail(uselist)) <= Len(uselist)
          /\ freenumbers' + Len(Tail(uselist)) + 1 = freenumbers + Len(uselist)
          /\ freenumbers' \in 0 .. BoxSize
      BY <3>1, <3>2, <3>5
    <3> QED
      BY <3>1, <3>5, <3>6, <3>7
  <2> QED
    BY <2>1, <2>2
<1>2. PICK box \in Seq(1 .. MaxFrames) :
        /\ \A i \in 1 .. Len(box) : box[i] = arrived - Len(box) + i
        /\ uselist' = Append(box, arrived + 1)
        /\ Len(box) <= Len(uselist)
        /\ freenumbers' + Len(box) + 1 = freenumbers + Len(uselist)
        /\ freenumbers' \in 0 .. BoxSize
        /\ \A i \in 1 .. Len(box) : box[i] > rxmsg
  BY <1>1
<1>3. /\ uselist' \in Seq(1 .. MaxFrames)
      /\ Len(uselist') = Len(box) + 1
      /\ \A i \in 1 .. Len(uselist') : uselist'[i] = arrived' - Len(uselist') + i
  <2>1. /\ Append(box, arrived + 1) \in Seq(1 .. MaxFrames)
        /\ Len(Append(box, arrived + 1)) = Len(box) + 1
        /\ \A i \in 1 .. (Len(box) + 1) :
              Append(box, arrived + 1)[i] = arrived + 1 - (Len(box) + 1) + i
    BY <1>0, <1>2, LinkedBox
  <2> QED
    BY <1>0, <1>2, <2>1
<1>4. Len(uselist) \in Nat /\ Len(box) \in Nat
  BY <1>0, <1>2 DEF TypeOK
<1>5. NodesConserved'
  <2>1. InCopy' = InCopy /\ InCopy \in Nat
    BY <1>0 DEF InCopy
  <2>2. freenumbers \in Nat /\ freenumbers + Len(uselist) + InCopy = BoxSize
    BY <1>0 DEF IInv, NodesConserved, TypeOK
  <2>3. freenumbers' + Len(uselist') + InCopy' = BoxSize
    BY <1>2, <1>3, <1>4, <2>1, <2>2
  <2> QED
    BY <2>3 DEF NodesConserved
<1>6. /\ rx_sem' \in 0 .. SemMax /\ early' \in 0 .. MaxFrames
      /\ early' <= arrived'
      /\ \/ rx_sem' + early' = rx_sem + early + 1
         \/ rx_sem' = SemMax /\ early' = early
  <2>1. /\ rx_sem \in 0 .. SemMax /\ early \in 0 .. MaxFrames /\ early <= arrived
        /\ \/ rx_sem' = (IF rx_sem < SemMax THEN rx_sem + 1 ELSE rx_sem) /\ early' = early
           \/ rx_sem' = rx_sem /\ early' = early + 1
    BY <1>0 DEF Interrupt, Released, IInv, EarlyArrived, TypeOK
  <2>2. CASE rx_sem' = rx_sem /\ early' = early + 1
    BY <1>0, <2>1, <2>2
  <2>3. CASE rx_sem < SemMax /\ rx_sem' = rx_sem + 1 /\ early' = early
    BY <1>0, <2>1, <2>3
  <2>4. CASE rx_sem = SemMax /\ rx_sem' = rx_sem /\ early' = early
    BY <1>0, <2>1, <2>4
  <2> QED
    BY <2>1, <2>2, <2>3, <2>4
<1>7. TypeOK'
  <2>1. arrived' \in 0 .. MaxFrames
    BY <1>0
  <2> QED
    BY <1>0, <1>2, <1>3, <1>6, <2>1 DEF TypeOK
<1>8. SignalCovers'
  <2>1. Awake' = Awake /\ Awake \in 0 .. 1 /\ InCopy' \in 0 .. 1
    BY <1>0 DEF Awake, InCopy
  <2>2. Len(uselist') \in Nat /\ Len(uselist') <= BoxSize /\ Len(uselist') <= Len(uselist) + 1
    BY <1>2, <1>3, <1>4, <1>5, <2>1 DEF NodesConserved
  <2>3. /\ rx_sem \in 0 .. SemMax /\ early \in 0 .. MaxFrames
        /\ rx_sem' \in 0 .. SemMax /\ early' \in 0 .. MaxFrames
    BY <1>0, <1>6 DEF TypeOK
  <2>4. Len(uselist) <= rx_sem + Awake + early
    BY DEF IInv, SignalCovers
  <2>5. PICK sem, ea, len : sem = rx_sem' /\ ea = early' /\ len = Len(uselist')
    OBVIOUS
  <2>6. /\ sem \in 0 .. SemMax /\ ea \in 0 .. MaxFrames /\ len \in Nat
        /\ len <= BoxSize /\ len <= Len(uselist) + 1
    BY <2>2, <2>3, <2>5, Zenon
  <2>7. rx_sem' + early' = rx_sem + early + 1 => len <= sem + Awake + ea
    <3> HAVE rx_sem' + early' = rx_sem + early + 1
    <3>1. sem + ea = rx_sem + early + 1
      BY <2>5, Zenon
    <3>2. len <= sem + Awake + ea
      BY <1>4, <2>1, <2>3, <2>4, <2>6, <3>1
    <3> QED
      BY <3>2
  <2>8. rx_sem' = SemMax /\ early' = early => len <= sem + Awake + ea
    <3> HAVE rx_sem' = SemMax /\ early' = early
    <3>1. sem = SemMax /\ ea = early
      BY <2>5, Zenon
    <3>2. len <= sem + Awake + ea
      BY <1>4, <2>1, <2>3, <2>4, <2>6, <3>1
    <3> QED
      BY <3>2
  <2>9. len <= sem + Awake + ea
    BY <1>6, <2>7, <2>8, Zenon
  <2> QED
    BY <2>1, <2>5, <2>9, Zenon DEF SignalCovers
<1>9. BoxIsLatest' /\ HdrInStep' /\ EarlyArrived'
  BY <1>0, <1>3, <1>6 DEF BoxIsLatest, HdrInStep, EarlyArrived, IInv
<1>10. ReadInOrder'
  <2>1. rxmsg \in Nat /\ rxmsg <= arrived
    BY <1>0 DEF IInv, ReadInOrder, TypeOK
  <2>2. \A i \in 1 .. Len(uselist') : uselist'[i] > rxmsg
    BY <1>0, <1>2, <1>3, <1>4, <2>1
  <2> QED
    BY <1>0, <2>1, <2>2 DEF IInv, ReadInOrder
<1> QED
  BY <1>5, <1>7, <1>8, <1>9, <1>10 DEF IInv

\* The steps of the thread that leave the box alone.
LEMMA WaitingIInv == IInv /\ (Register \/ SemTake \/ ReadNothing \/ CopyFrame \/ Handle) => IInv'
<1> SUFFICES ASSUME IInv, Register \/ SemTake \/ ReadNothing \/ CopyFrame \/ Handle
             PROVE  IInv'
  OBVIOUS
<1> USE BoxAssumption
<1>0. TypeOK /\ UNCHANGED <<arrived, uselist, rxmsg, early>> /\ Len(uselist) \in Nat
  BY DEF IInv, TypeOK, Register, SemTake, ReadNothing, CopyFrame, Handle
<1>1. /\ freenumbers' + InCopy' = freenumbers + InCopy
      /\ freenumbers \in 0 .. BoxSize /\ freenumbers' \in 0 .. (BoxSize + 1)
      /\ InCopy \in 0 .. 1 /\ InCopy' \in 0 .. 1
  BY <1>0 DEF TypeOK, Register, SemTake, ReadNothing, CopyFrame, Handle, InCopy, NodeGivenBack
<1>2. freenumbers' + Len(uselist') + InCopy' = BoxSize
  <2>1. freenumbers + Len(uselist) + InCopy = BoxSize
    BY DEF IInv, NodesConserved
  <2>2. PICK free, cp : free = freenumbers' /\ cp = InCopy'
    OBVIOUS
  <2>3. free + cp = freenumbers + InCopy /\ free \in 0 .. (BoxSize + 1) /\ cp \in 0 .. 1
    BY <1>1, <2>2, Zenon
  <2>4. free + Len(uselist) + cp = BoxSize
    BY <1>0, <1>1, <2>1, <2>3
  <2> QED
    BY <1>0, <2>2, <2>4, Zenon
<1>3. rx_sem' + Awake' >= rx_sem + Awake \/ Len(uselist) = 0
  BY <1>0 DEF IInv, HdrInStep, TypeOK, Register, SemTake, ReadNothing, CopyFrame, Handle,
     Awake, MayRead, Any, Bank
<1>4. TypeOK'
  <2>1. freenumbers' \in 0 .. BoxSize
    BY <1>0, <1>1, <1>2
  <2>2. rx_sem' \in 0 .. SemMax /\ handled' \in 0 .. MaxFrames
    BY <1>0 DEF TypeOK, Register, SemTake, ReadNothing, CopyFrame, Handle
  <2>3. rx_indicate' \in BOOLEAN
    BY <1>0 DEF TypeOK, Register, SemTake, ReadNothing, CopyFrame, Handle
  <2>4. pc' \in {"boot", "take", "read", "copy", "handle"} /\ hdr' \in {Any, Bank}
    BY <1>0 DEF TypeOK, Register, SemTake, ReadNothing, CopyFrame, Handle
  <2> QED
    BY <1>0, <2>1, <2>2, <2>3, <2>4 DEF TypeOK
<1>5. SignalCovers'
  <2>1. Len(uselist) <= rx_sem + Awake + early
    BY DEF IInv, SignalCovers
  <2>2. /\ rx_sem \in 0 .. SemMax /\ rx_sem' \in 0 .. SemMax /\ early \in 0 .. MaxFrames
        /\ Awake \in 0 .. 1 /\ Awake' \in 0 .. 1
    BY <1>0, <1>4 DEF TypeOK, Awake
  <2>3. PICK sem, aw : sem = rx_sem' /\ aw = Awake'
    OBVIOUS
  <2>4. /\ sem \in 0 .. SemMax /\ aw \in 0 .. 1
        /\ sem + aw >= rx_sem + Awake \/ Len(uselist) = 0
    BY <1>3, <2>2, <2>3, Zenon
  <2>5. Len(uselist) <= sem + aw + early
    BY <1>0, <2>1, <2>2, <2>4
  <2> QED
    BY <1>0, <2>3, <2>5, Zenon DEF SignalCovers
<1>6. BoxIsLatest' /\ EarlyArrived'
  BY <1>0 DEF IInv, BoxIsLatest, EarlyArrived
<1>7. HdrInStep'
  BY DEF IInv, HdrInStep, Register, SemTake, ReadNothing, CopyFrame, Handle
<1>8. ReadInOrder'
  BY <1>0 DEF IInv, ReadInOrder, TypeOK, Register, SemTake, ReadNothing, CopyFrame, Handle
<1> QED
  BY <1>2, <1>4, <1>5, <1>6, <1>7, <1>8 DEF IInv, NodesConserved

\* Taking the oldest frame out uses up the semaphore the thread has taken.
LEMMA ReadFrameIInv == IInv /\ ReadFrame => IInv'
<1> SUFFICES ASSUME IInv, ReadFrame PROVE IInv'
  OBVIOUS
<1> USE BoxAssumption
<1>0. /\ TypeOK /\ UNCHANGED <<arrived, freenumbers, rx_indicate, rx_sem, hdr, handled, early>>
      /\ pc = "read" /\ pc' = "copy" /\ hdr = Any /\ uselist # <<>>
      /\ uselist' = Tail(uselist) /\ rxmsg' = Head(uselist)
      /\ Len(uselist) \in Nat /\ arrived \in Nat
      /\ uselist \in Seq(1 .. MaxFrames)
  BY DEF IInv, TypeOK, ReadFrame, MayRead, Unlinked
<1>1. \A i \in 1 .. Len(uselist) : uselist[i] = arrived - Len(uselist) + i
  BY DEF IInv, BoxIsLatest
<1>2. /\ uselist' \in Seq(1 .. MaxFrames)
      /\ Len(uselist) >= 1
      /\ Len(uselist') = Len(uselist) - 1
      /\ \A i \in 1 .. Len(uselist') : uselist'[i] = arrived - Len(uselist') + i
      /\ rxmsg' = arrived - Len(uselist) + 1
      /\ rxmsg' \in 1 .. MaxFrames
  BY <1>0, <1>1, TailBox
<1>3. TypeOK'
  BY <1>0, <1>2 DEF TypeOK
<1>4. NodesConserved' /\ BoxIsLatest' /\ HdrInStep' /\ EarlyArrived'
  BY <1>0, <1>2 DEF IInv, NodesConserved, BoxIsLatest, HdrInStep, EarlyArrived, InCopy, TypeOK
<1>5. SignalCovers'
  BY <1>0, <1>2 DEF IInv, SignalCovers, Awake, TypeOK
<1>6. ReadInOrder'
  <2>1. rxmsg < rxmsg' /\ rxmsg \in Nat /\ handled \in Nat /\ handled <= rxmsg
    <3>1. uselist[1] > rxmsg
      BY <1>0, <1>2 DEF IInv, ReadInOrder
    <3> QED
      BY <1>0, <1>1, <1>2, <3>1 DEF IInv, ReadInOrder, TypeOK
  <2>2. \A i \in 1 .. Len(uselist') : uselist'[i] > rxmsg'
    BY <1>0, <1>2
  <2>3. rxmsg' <= arrived' /\ handled' < rxmsg'
    BY <1>0, <1>2, <2>1
  <2> QED
    BY <1>0, <1>2, <2>1, <2>2, <2>3 DEF ReadInOrder
<1> QED
  BY <1>3, <1>4, <1>5, <1>6 DEF IInv

LEMMA NextIInv == IInv /\ [Next]_vars => IInv'
<1> SUFFICES ASSUME IInv, [Next]_vars PROVE IInv'
  OBVIOUS
<1>1. CASE Interrupt
  BY <1>1, InterruptIInv
<1>2. CASE Thread
  BY <1>2, WaitingIInv, ReadFrameIInv DEF Thread
<1>3. CASE UNCHANGED vars
  BY <1>3 DEF vars, IInv, TypeOK, NodesConserved, BoxIsLatest, SignalCovers, HdrInStep,
     EarlyArrived, ReadInOrder, InCopy, Awake
<1> QED
  BY <1>1, <1>2, <1>3 DEF Next

------------------------------------------------------------------------------

\* The inductive invariant of the reception (components/drivers/can/can.c, can.c).
THEOREM Invariance == Spec => []IInv
  BY InitIInv, NextIInv, PTL DEF Spec

\* All variables of the reception keep their types.
THEOREM TypeCorrect == Spec => []TypeOK
<1>1. IInv => TypeOK
  BY DEF IInv
<1> QED
  BY Invariance, <1>1, PTL

\* Whatever interrupts hit the thread in _can_int_rx, no node is lost.
THEOREM NodesSafe == Spec => []NodesConserved
<1>1. IInv => NodesConserved
  BY DEF IInv
<1> QED
  BY Invariance, <1>1, PTL

\* A box of any size holds the latest frames, in order, without a gap.
THEOREM LatestKept == Spec => []BoxIsLatest
<1>1. IInv => BoxIsLatest
  BY DEF IInv
<1> QED
  BY Invariance, <1>1, PTL

\* Every stored frame has a semaphore to fetch it, also when rx_sem saturates, as
\* long as its maximum is not below the number of nodes.
THEOREM NoWakeUpLost == Spec => []SignalCovers
<1>1. IInv => SignalCovers
  BY DEF IInv
<1> QED
  BY Invariance, <1>1, PTL

\* A handler that returns has handled a frame later than all before: the frame in
\* the thread's hands is later than the one handled last (ReadInOrder), since what
\* is read is taken off the list and what is on it is later (can.c:56-149).
THEOREM InOrder == Spec => HandledInOrder
<1>1. IInv /\ [Next]_vars => [pc = "handle" /\ pc' # pc => handled' > handled]_vars
  <2> SUFFICES ASSUME IInv, Next, pc = "handle", pc' # pc PROVE handled' > handled
    OBVIOUS
  <2>1. Handle
    BY DEF Next, Thread, Interrupt, Register, SemTake, ReadFrame, ReadNothing, CopyFrame
  <2> QED
    BY <2>1 DEF Handle, IInv, ReadInOrder, TypeOK
<1> QED
  BY Invariance, <1>1, PTL DEF Spec, HandledInOrder

------------------------------------------------------------------------------
(* The refinement of the mailbox *)

\* An interrupt finds no free node only when all of them, or all but the one
\* being copied, hold frames.
LEMMA InterruptArrives == IInv /\ Interrupt => Mailbox!Arrive
<1> SUFFICES ASSUME IInv, Interrupt PROVE Mailbox!Arrive
  OBVIOUS
<1>1. /\ Len(uselist) \in Nat /\ BoxSize \in Nat /\ BoxSize >= 2 /\ freenumbers \in Nat
      /\ InCopy \in {0, 1} /\ freenumbers + Len(uselist) + InCopy = BoxSize
  BY BoxAssumption DEF IInv, TypeOK, NodesConserved, InCopy
<1>2. CASE freenumbers > 0
  <2>1. Len(uselist) <= BoxSize - 1
    BY <1>1, <1>2
  <2> QED
    BY <1>2, <2>1 DEF Interrupt, Store, Linked, Mailbox!Arrive, Mailbox!Keep
<1>3. CASE ~(freenumbers > 0)
  <2>1. Len(uselist) >= BoxSize - 1 /\ uselist # <<>>
    BY <1>1, <1>3
  <2> QED
    BY <1>3, <2>1 DEF Interrupt, Store, Linked, GiveUp, Mailbox!Arrive, Mailbox!Overrun
<1> QED
  BY <1>2, <1>3

\* For a box of any size the driver and the thread implement a mailbox that
\* keeps the latest BoxSize - 1 frames.
THEOREM Refinement == Spec => ImplementsMailbox
<1>1. Init => Mailbox!Init
  BY DEF Init, Mailbox!Init
<1>2. IInv /\ [Next]_vars => [Mailbox!Next]_<<arrived, uselist, rxmsg>>
  <2> SUFFICES ASSUME IInv, [Next]_vars
               PROVE  Mailbox!Next \/ UNCHANGED <<arrived, uselist, rxmsg>>
    OBVIOUS
  <2>1. CASE Interrupt
    BY <2>1, InterruptArrives DEF Mailbox!Next
  <2>2. CASE ReadFrame
    BY <2>2 DEF ReadFrame, MayRead, Unlinked, Mailbox!Next, Mailbox!Get
  <2>3. CASE Register \/ SemTake \/ ReadNothing \/ CopyFrame \/ Handle \/ UNCHANGED vars
    BY <2>3 DEF Register, SemTake, ReadNothing, CopyFrame, Handle, vars
  <2> QED
    BY <2>1, <2>2, <2>3 DEF Next, Thread
<1> QED
  BY <1>1, <1>2, Invariance, PTL DEF Spec, ImplementsMailbox, Mailbox!Spec

------------------------------------------------------------------------------
(* Why no frame stays: the steps can_rx_thread makes before it sleeps again.   *)
(* A semaphore is worth a round of the two loops, five steps, whether it finds *)
(* a frame or an overrun has left it none.                                     *)

Place ==
    CASE pc = "take" -> 0
      [] pc = "boot" -> 1
      [] pc = "read" /\ hdr = Bank -> 1
      [] pc = "handle" -> 2
      [] pc = "copy" -> 3
      [] pc = "read" /\ hdr = Any -> 4

Work == 5 * rx_sem + Place

Drains ==
    /\ Thread => Work' < Work
    /\ Interrupt => Work' <= Work + 5

LEMMA WorkNat == TypeOK => Place \in 0 .. 4 /\ rx_sem \in Nat /\ Work \in Nat
<1> SUFFICES ASSUME TypeOK PROVE Place \in 0 .. 4 /\ rx_sem \in Nat /\ Work \in Nat
  OBVIOUS
<1>1. Place \in 0 .. 4
  BY DEF TypeOK, Place, Any, Bank
<1>2. rx_sem \in Nat
  BY BoxAssumption DEF TypeOK
<1> QED
  BY <1>1, <1>2 DEF Work

LEMMA ThreadDrains == IInv /\ Thread => Work' < Work
<1> SUFFICES ASSUME IInv, Thread PROVE Work' < Work
  OBVIOUS
<1> USE DEF Work, Place, Any, Bank
<1>1. rx_sem \in Nat
  BY WorkNat DEF IInv
<1>2. CASE Register
  BY <1>1, <1>2 DEF Register
<1>3. CASE SemTake
  <2>1. hdr = Any
    BY <1>3 DEF SemTake, IInv, HdrInStep
  <2> QED
    BY <1>1, <1>3, <2>1 DEF SemTake
<1>4. CASE ReadFrame
  BY <1>1, <1>4 DEF ReadFrame, MayRead, Unlinked
<1>5. CASE ReadNothing
  BY <1>1, <1>5 DEF ReadNothing, IInv, TypeOK
<1>6. CASE CopyFrame
  BY <1>1, <1>6 DEF CopyFrame
<1>7. CASE Handle
  <2>1. hdr = Bank /\ hdr' = hdr
    BY <1>7 DEF Handle, IInv, HdrInStep
  <2> QED
    BY <1>1, <1>7, <2>1 DEF Handle
<1> QED
  BY <1>2, <1>3, <1>4, <1>5, <1>6, <1>7 DEF Thread

LEMMA InterruptCosts == IInv /\ Interrupt => Work' <= Work + 5 /\ ~Thread
<1> SUFFICES ASSUME IInv, Interrupt PROVE Work' <= Work + 5 /\ ~Thread
  OBVIOUS
<1>1. Place \in 0 .. 4 /\ rx_sem \in Nat /\ Place' = Place
  BY WorkNat DEF IInv, Interrupt, Place
<1>2. rx_sem' \in {rx_sem, rx_sem + 1}
  BY DEF Interrupt, Released
<1>3. \A n \in {rx_sem, rx_sem + 1} : 5 * n + Place <= 5 * rx_sem + Place + 5
  BY <1>1
<1>4. Thread => pc' # pc
  BY DEF Thread, Register, SemTake, ReadFrame, ReadNothing, CopyFrame, Handle
<1> QED
  BY <1>1, <1>2, <1>3, <1>4 DEF Work, Interrupt

\* can_rx_thread comes to sleep again after at most five steps for each interrupt:
\* every step of it, also one that finds nothing after an overrun, is progress
\* (can.c:28-54, 151, components/drivers/can/can.c:66-128).
THEOREM DrainProgress == Spec => [][Drains]_vars
<1>1. IInv /\ [Next]_vars => [Drains]_vars
  <2>1. Work \in Int /\ IInv /\ Thread => ~Interrupt
    BY InterruptCosts
  <2> QED
    BY <2>1, InterruptCosts, ThreadDrains, WorkNat DEF Next, Drains, IInv
<1> QED
  BY Invariance, <1>1, PTL DEF Spec

\* The thread is blocked in rt_sem_take.
Asleep == pc = "take" /\ rx_sem = 0

LEMMA NoWorkAsleep == TypeOK => (Work = 0 <=> Asleep)
<1> SUFFICES ASSUME TypeOK PROVE Work = 0 <=> Asleep
  OBVIOUS
<1>1. Place \in Nat /\ rx_sem \in Nat /\ (Place = 0 <=> pc = "take")
  BY WorkNat DEF TypeOK, Place, Any, Bank
<1> QED
  BY <1>1 DEF Work, Asleep

\* Asleep, the thread has left no frame behind, except as many as came before the
\* callback was registered, and only an interrupt changes that: no wake-up is lost
\* between the interrupt and the thread that is about to sleep (can.c:28-54).
THEOREM SleepsEmpty ==
    Spec => [](Asleep /\ [][~Interrupt]_vars => [](Asleep /\ Len(uselist) <= early))
<1>1. IInv /\ Asleep => Len(uselist) <= early
  <2> SUFFICES ASSUME IInv, Asleep PROVE Len(uselist) <= early
    OBVIOUS
  <2>1. early \in Nat /\ Awake = 0
    BY BoxAssumption DEF IInv, TypeOK, Asleep, Awake
  <2>2. Len(uselist) <= 0 + 0 + early
    BY <2>1 DEF IInv, SignalCovers, Asleep
  <2> QED
    BY <2>1, <2>2
<1>2. IInv /\ Asleep /\ [Next]_vars /\ [~Interrupt]_vars => Asleep'
  <2>1. IInv /\ Asleep => ~Thread
    BY DEF Asleep, IInv, TypeOK, Thread, Register, SemTake, ReadFrame, ReadNothing, CopyFrame, Handle
  <2> QED
    BY <2>1 DEF Next, Asleep, vars
<1> QED
  BY Invariance, <1>1, <1>2, PTL DEF Spec

=============================================================================
