---------------------------- MODULE MCOtaHandle ----------------------------
(***************************************************************************)
(* A small instance of OtaHandle: blocks of two bits, a partition of two   *)
(* blocks in two sectors, a three-valued CRC that depends on every block   *)
(* and on their order.  As in the firmware the announced size is checked   *)
(* against more than the partition holds (24 bytes against 16).            *)
(***************************************************************************)
EXTENDS OtaRefinement

MCBits == {0, 1}
MCSectorOf == [k \in 0 .. (NCells - 1) |-> (k * NSectors) \div NCells]
MCCrcs == 0 .. 2
MCCrcFrame(c, d) == (2 * c + Cardinality(d) + (IF 0 \in d THEN 1 ELSE 0)) % 3
\* a byte more than one block, a full partition, too large for the partition
\* only, too large for the check
MCSizes == {9, 16, 20, 24}
MCFrameIds == 0 .. NCells
=============================================================================
