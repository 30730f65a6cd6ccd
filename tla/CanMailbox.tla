----------------------------- MODULE CanMailbox -----------------------------
(***************************************************************************)
(* What the reception of CAN frames promises, apart from interrupts, nodes *)
(* and semaphores: a mailbox from which the reader gets the frames in the  *)
(* order of their arrival.  When frames come faster than they are read the *)
(* oldest one is given up, but not while there is room: of the latest      *)
(* Capacity frames none is lost.  Whether one more is kept is left open.   *)
(***************************************************************************)
EXTENDS Integers, Sequences

CONSTANT Capacity   \* frames the mailbox keeps for sure

VARIABLES
    last,   \* the frame that came last
    box,    \* the frames that wait to be read
    got     \* the frame the reader got last, 0 when there is none

Init == last = 0 /\ box = <<>> /\ got = 0

Keep == Len(box) <= Capacity /\ box' = Append(box, last + 1)
Overrun == Len(box) >= Capacity /\ box # <<>> /\ box' = Append(Tail(box), last + 1)

Arrive == (Keep \/ Overrun) /\ last' = last + 1 /\ UNCHANGED got

Get ==
    /\ box # <<>>
    /\ got' = Head(box) /\ box' = Tail(box)
    /\ UNCHANGED last

Next == Arrive \/ Get

Spec == Init /\ [][Next]_<<last, box, got>>
=============================================================================
