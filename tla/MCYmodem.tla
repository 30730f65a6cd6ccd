------------------------------ MODULE MCYmodem ------------------------------
(***************************************************************************)
(* A small instance of Ymodem: blocks of two bits, a partition of three     *)
(* blocks in two sectors.  The sender offers a file of two blocks, a batch *)
(* of a full partition and a smaller file, or one that is refused.         *)
(***************************************************************************)
EXTENDS Ymodem

MCBits == {0, 1}
MCSectorOf == [k \in 0 .. (NCells - 1) |-> k \div 2]
Two == <<{1}, {0}>>
Full == <<MCBits, {0}, {}>>
TooLarge == <<{}, {}, {}, {}>>
MCBatches == {<<Two>>, <<Full, Two>>, <<TooLarge>>, <<>>}
=============================================================================
