--------------------------- MODULE DownloadFlash ---------------------------
(***************************************************************************)
(* The "download" partition in the on-chip flash: what the FAL             *)
(* (components/fal/src/fal_partition.c) and the driver under it            *)
(* (drivers/drv_flash_f4.c) do to its contents.  Two programs write it     *)
(* through these calls, the CAN download (OtaHandle) and the shell command *)
(* ymodem_ota (Ymodem); nothing in the FAL or the driver keeps one off     *)
(* while the other is at work.                                             *)
(*                                                                         *)
(* The partition is divided into cells of one block each, what a download  *)
(* hands over in one write.  A block is the set of its bits that are 1: an *)
(* erased block is Bits, programming only clears bits.                     *)
(***************************************************************************)
EXTENDS Integers, Sequences, FiniteSets

CONSTANTS
    Bits,      \* the bits of a block
    NCells,    \* blocks in the partition
    NSectors,  \* flash sectors in the partition
    SectorOf   \* the sector a cell lies in

Blocks == SUBSET Bits
Cells == 0 .. (NCells - 1)

ASSUME FlashAssumption ==
    /\ NCells \in Nat \ {0}
    /\ NSectors \in Nat \ {0}
    /\ SectorOf \in [Cells -> 0 .. (NSectors - 1)]
    /\ SectorOf[0] = 0 /\ SectorOf[NCells - 1] = NSectors - 1
    /\ \A j, k \in Cells : j <= k => SectorOf[j] <= SectorOf[k]

\* GetSector(addr + size - 1) - GetSector(addr) + 1, the erase starting with the
\* first cell of the partition.
NbOfSectorsOpenEnd(size) == SectorOf[size - 1] - SectorOf[0]
NbOfSectorsPastEnd(size) == SectorOf[size - 1] - SectorOf[0] + 2
NbOfSectors(size) == SectorOf[size - 1] - SectorOf[0] + 1

ErasedSector(f, s) ==
    [k \in Cells |-> IF SectorOf[k] = s THEN Bits ELSE f[k]]

\* An erase of sector s that fails or is cut short raises any of its bits.
HalfErased(f, s) ==
    {g \in [Cells -> Blocks] : \A k \in Cells :
        IF SectorOf[k] = s THEN f[k] \subseteq g[k] ELSE g[k] = f[k]}

\* fal_partition_write refuses what does not end inside the partition.
Fits(id) == id + 1 <= NCells

\* stm32_flash_write reads every word back and compares it.
ReadBackUnchecked(cell, d) == TRUE
ReadBackOk(cell, d) == cell \cap d = d

\* A block whose programming stopped half-way: some bits of ~d are cleared.
HalfProgrammed(cell, d) == {x \in Blocks : cell \cap d \subseteq x /\ x \subseteq cell}

\* All that either downloader does to the partition in one step: erase a sector,
\* or part of it, or clear bits of one block.
FlashStep(f, g) ==
    \/ \E s \in 0 .. (NSectors - 1) : g \in HalfErased(f, s)
    \/ \E k \in Cells : \E x \in SUBSET f[k] : g = [f EXCEPT ![k] = x]
=============================================================================
