---------------------------- MODULE OtaDownload ----------------------------
(***************************************************************************)
(* What the firmware download promises the main board and the boot loader: *)
(* blocks are collected one behind the other, what was collected is neither*)
(* lost nor changed, and the download is declared done exactly when it has *)
(* the announced size and CRC; after that nothing is added before the      *)
(* restart.  A block carries no number here: that none is collected twice  *)
(* is said of OtaHandle itself (AckedBlocksStored).  OtaHandle implements  *)
(* this (OtaRefinement).                                                   *)
(***************************************************************************)
EXTENDS Integers, Sequences

CONSTANTS Blocks, BlockBytes, Sizes, Crcs, CrcInit, CrcFrame(_, _)

VARIABLES
    open,   \* the main board has asked for a download since the last restart
    image,  \* the blocks collected
    size,   \* announced size in bytes
    crc,    \* announced CRC
    done    \* the download was declared done, the board is about to restart

vars == <<open, image, size, crc, done>>

\* c is the CRC of the sequence s of blocks, accumulated from CrcInit.
SeqCrc(s, c) ==
    \E g \in [0 .. Len(s) -> Crcs] :
        /\ g[0] = CrcInit
        /\ \A i \in 1 .. Len(s) : g[i] = CrcFrame(g[i - 1], s[i])
        /\ g[Len(s)] = c

Valid(s, n, c) == BlockBytes * Len(s) >= n /\ SeqCrc(s, c)

Init == ~open /\ image = <<>> /\ size = 0 /\ crc \in Crcs /\ ~done

\* A request gives up what was collected and starts over, accepted or not.
Request ==
    /\ ~done /\ open'
    /\ image' = <<>> /\ size' \in Sizes /\ crc' \in Crcs
    /\ UNCHANGED done

Extend ==
    /\ open /\ ~done
    /\ \E d \in Blocks : image' = Append(image, d)
    /\ done' = Valid(image', size, crc)
    /\ UNCHANGED <<open, size, crc>>

Restart == open' = FALSE /\ image' = <<>> /\ size' = 0 /\ crc' \in Crcs /\ done' = FALSE

Next == Request \/ Extend \/ Restart

Spec == Init /\ [][Next]_vars
=============================================================================
