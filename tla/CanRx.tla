-------------------------------- MODULE CanRx --------------------------------
(***************************************************************************)
(* Reception of CAN frames: the RX interrupt of the CAN driver, which      *)
(* stores a frame in a box of nodes and calls the registered callback, and *)
(* can_rx_thread (applications/can.c), which takes rx_sem and reads.       *)
(*                                                                         *)
(* Frames are numbered in the order of their interrupts; what they carry   *)
(* is the business of the handlers.  The interrupt is atomic for the       *)
(* thread, and the thread is split where the driver enables interrupts:    *)
(*   pc = "boot"    the device is open, the thread has not run yet         *)
(*   pc = "take"    before or in rt_sem_take(&rx_sem, FOREVER)             *)
(*   pc = "read"    before the first half of rt_device_read (_can_int_rx)  *)
(*   pc = "copy"    a node is unlinked, being copied and given back        *)
(*   pc = "handle"  in the handler of the frame that was read              *)
(* A semaphore handed over to the waiting thread by rt_sem_release is a    *)
(* release followed by a take.                                             *)
(***************************************************************************)
EXTENDS Integers, Sequences

CONSTANTS
    BoxSize,     \* RT_CANMSG_BOX_SZ
    SemMax,      \* RT_SEM_VALUE_MAX
    MaxFrames    \* bound: frames considered

ASSUME BoxAssumption ==
    /\ BoxSize \in Nat /\ BoxSize >= 2
    /\ SemMax \in Nat /\ SemMax >= BoxSize
    /\ MaxFrames \in Nat

VARIABLES
    arrived,      \* frames the RX interrupt has stored so far
    uselist,      \* rx_fifo->uselist
    freenumbers,  \* rx_fifo->freenumbers, the length of rx_fifo->freelist
    rx_indicate,  \* can_rx_call is registered
    rx_sem,       \* rx_sem.value
    pc,           \* where can_rx_thread is
    hdr,          \* rxmsg.hdr: -1, or the bank of the filter the frame passed
    rxmsg,        \* the frame read last, 0 when there is none
    handled,      \* the frame handled last, 0 when there is none
    early         \* history: frames stored before can_rx_call was registered

vars == <<arrived, uselist, freenumbers, rx_indicate, rx_sem, pc, hdr, rxmsg, handled, early>>

Any == -1      \* "read from uselist"
Bank == 0      \* (FilterMatchIndex + 1) >> 1: all frames pass one filter

Init ==
    /\ arrived = 0 /\ uselist = <<>> /\ freenumbers = BoxSize
    /\ rx_indicate = FALSE /\ rx_sem = 0
    /\ pc = "boot" /\ hdr = Any /\ rxmsg = 0 /\ handled = 0 /\ early = 0

------------------------------------------------------------------------------
(* The RX interrupt: rt_hw_can_isr with RT_CAN_EVENT_RX_IND. *)

\* A full box gives up the frame at the head of uselist.
GiveUpNewest(box) == SubSeq(box, 1, Len(box) - 1)
GiveUp(box) == Tail(box)

\* rt_list_insert_before(&rx_fifo->uselist, ..)
Linked(box, frame) == Append(box, frame)

\* A free node if there is one, else the node of the oldest frame.
Store(frame) ==
    IF freenumbers > 0
    THEN uselist' = Linked(uselist, frame) /\ freenumbers' = freenumbers - 1
    ELSE uselist' = Linked(GiveUp(uselist), frame) /\ UNCHANGED freenumbers

\* rt_sem_release
ReleasedOnce == 1
ReleasedUncapped == rx_sem + 1
Released == IF rx_sem < SemMax THEN rx_sem + 1 ELSE rx_sem

Interrupt ==
    /\ arrived < MaxFrames
    /\ arrived' = arrived + 1
    /\ Store(arrived + 1)
    /\ IF rx_indicate
       THEN rx_sem' = Released /\ UNCHANGED early
       ELSE early' = early + 1 /\ UNCHANGED rx_sem
    /\ UNCHANGED <<rx_indicate, pc, hdr, rxmsg, handled>>

------------------------------------------------------------------------------
(* can_rx_thread *)

\* The thread starts: rt_device_set_rx_indicate, then rxmsg.hdr = -1.
Register ==
    /\ pc = "boot"
    /\ rx_indicate' = TRUE /\ hdr' = Any /\ pc' = "take"
    /\ UNCHANGED <<arrived, uselist, freenumbers, rx_sem, rxmsg, handled, early>>

SemTake ==
    /\ pc = "take" /\ rx_sem > 0
    /\ rx_sem' = rx_sem - 1 /\ pc' = "read"
    /\ UNCHANGED <<arrived, uselist, freenumbers, rx_indicate, hdr, rxmsg, handled, early>>

\* _can_int_rx looks into uselist only for hdr = -1: no filter is connected, so
\* the list of any filter bank is empty.
MayRead == hdr = Any /\ uselist # <<>>

\* The node of the frame that is read is taken off uselist.
LeftLinked(box) == box
Unlinked(box) == Tail(box)

ReadFrame ==
    /\ pc = "read" /\ MayRead
    /\ rxmsg' = Head(uselist) /\ uselist' = Unlinked(uselist) /\ pc' = "copy"
    /\ UNCHANGED <<arrived, freenumbers, rx_indicate, rx_sem, hdr, handled, early>>

\* rt_device_read returns 0: back to the outer loop, which resets rxmsg.hdr.
ReadNothing ==
    /\ pc = "read" /\ ~MayRead
    /\ hdr' = Any /\ pc' = "take"
    /\ UNCHANGED <<arrived, uselist, freenumbers, rx_indicate, rx_sem, rxmsg, handled, early>>

\* The message is copied, its hdr with it, and the node is free again.
NodeKept == freenumbers
NodeGivenBack == freenumbers + 1

CopyFrame ==
    /\ pc = "copy"
    /\ freenumbers' = NodeGivenBack
    /\ hdr' = Bank /\ pc' = "handle"
    /\ UNCHANGED <<arrived, uselist, rx_indicate, rx_sem, rxmsg, handled, early>>

\* The handler returns and the inner loop reads again.
Handle ==
    /\ pc = "handle"
    /\ handled' = rxmsg /\ pc' = "read"
    /\ UNCHANGED <<arrived, uselist, freenumbers, rx_indicate, rx_sem, hdr, rxmsg, early>>

Thread == Register \/ SemTake \/ ReadFrame \/ ReadNothing \/ CopyFrame \/ Handle

Next == Interrupt \/ Thread

Spec == Init /\ [][Next]_vars

\* The thread is not starved and every handler returns.
FairSpec == Spec /\ WF_vars(Thread)

------------------------------------------------------------------------------
(* Properties *)

\* A node that is unlinked while it is copied.
InCopy == IF pc = "copy" THEN 1 ELSE 0

\* A semaphore that was taken and whose read is still to come.
Awake == IF pc = "read" /\ hdr = Any THEN 1 ELSE 0

TypeOK ==
    /\ arrived \in 0 .. MaxFrames
    /\ uselist \in Seq(1 .. MaxFrames)
    /\ freenumbers \in 0 .. BoxSize
    /\ rx_indicate \in BOOLEAN
    /\ rx_sem \in 0 .. SemMax
    /\ pc \in {"boot", "take", "read", "copy", "handle"}
    /\ hdr \in {Any, Bank}
    /\ rxmsg \in 0 .. MaxFrames /\ handled \in 0 .. MaxFrames
    /\ early \in 0 .. MaxFrames

\* No node of the box gets lost or is on two lists, whatever interrupts hit the
\* thread while it has unlinked a node (components/drivers/can/can.c:85-115 and
\* 793-829); the driver asserts half of it (freenumbers <= msgboxsz).
NodesConserved == freenumbers + Len(uselist) + InCopy = BoxSize

\* However far the thread is behind, the box holds the latest frames without a
\* gap and in their order: an overrun costs the oldest ones.
BoxIsLatest == \A i \in 1 .. Len(uselist) : uselist[i] = arrived - Len(uselist) + i

\* Whenever a handler returns (can.c:56-149) it has handled a frame later than all
\* handled before: none is handled twice, not even twice in a row by the next
\* semaphore, and none after a later one, although an overrun reuses the oldest
\* node while another is being copied.
HandledInOrder == [][pc = "handle" /\ pc' # pc => handled' > handled]_vars

\* Every frame in the box has a semaphore that will fetch it, except as many as
\* came before the callback was registered: one frame per semaphore is all that
\* the loop of lines 52-151 reads.
SignalCovers == Len(uselist) <= rx_sem + Awake + early

\* When the bus falls silent every frame is read, except as many as came before
\* the callback was registered: no wake-up is lost between the interrupt and the
\* thread that is about to sleep (can.c:28-34, 50-54).
BusSilent == <>[][~Interrupt]_vars
NoFrameStays == BusSilent => <>[](Len(uselist) <= early)
\* All this together is a mailbox: a node that leaked, or that an interrupt took
\* too early, would make it give up frames it still has room for.
Mailbox == INSTANCE CanMailbox WITH
    Capacity <- BoxSize - 1, last <- arrived, box <- uselist, got <- rxmsg
ImplementsMailbox == Mailbox!Spec

==============================================================================
