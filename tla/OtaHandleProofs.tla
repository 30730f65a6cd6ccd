-------------------------- MODULE OtaHandleProofs --------------------------
(***************************************************************************)
(* The safety properties of OtaHandle, for every value of its constants.   *)
(*                                                                         *)
(* SuccessIsVerified and ImageMatchesCrc are not inductive alone: the end  *)
(* of a download compares the RUNNING checksum, so one must know that it   *)
(* is the checksum of what the partition holds now, and that nothing was   *)
(* collected while the partition was being erased; AcceptedIsErased needs  *)
(* to know how far the erase has come.  IInv is their conjunction with     *)
(* these facts.  From it follows that OtaHandle implements OtaDownload.    *)
(***************************************************************************)
EXTENDS OtaRefinement, FiniteSetTheorems, WellFoundedInduction, SequenceTheorems, TLAPS

\* While the partition is being erased nothing is collected.
NothingWhileErasing ==
    pc = "erasing" => written = 0 /\ file_crc_cur = CrcInit

\* The sectors the erase has passed are blank.
PassedSectorsBlank ==
    pc = "erasing" => \A k \in Cells : SectorOf[k] < sector => flash[k] = Bits

IInv ==
    /\ TypeOK
    /\ ImageMatchesCrc
    /\ SuccessIsVerified
    /\ AcceptedIsErased
    /\ NothingWhileErasing
    /\ PassedSectorsBlank

------------------------------------------------------------------------------
\* erase_all erases all sectors of the partition.
LEMMA SectorsOfAll == NbOfSectors(NCells) = NSectors
BY FlashAssumption DEF NbOfSectors

------------------------------------------------------------------------------
(* Lemmas about the checksum of a prefix of the partition *)

\* No block at all has the initial checksum.
LEMMA IsCrcEmpty ==
    ASSUME NEW f
    PROVE  IsCrc(f, 0, CrcInit)
<1> DEFINE g == [i \in 0 .. 0 |-> CrcInit]
<1>1. g \in [0 .. 0 -> Crcs]
  BY ConstantsAssumption
<1>2. g[0] = CrcInit /\ \A i \in 0 .. (0 - 1) : g[i + 1] = CrcFrame(g[i], f[i])
  OBVIOUS
<1> HIDE DEF g
<1> QED
  BY <1>1, <1>2 DEF IsCrc

\* Only the blocks of the prefix matter.
LEMMA IsCrcSamePrefix ==
    ASSUME NEW f, NEW h, NEW n \in Nat, NEW c,
           IsCrc(f, n, c),
           \A i \in 0 .. (n - 1) : h[i] = f[i]
    PROVE  IsCrc(h, n, c)
BY DEF IsCrc

\* modbus_rtu_crc16_frame keeps up with a block appended to the prefix.
LEMMA IsCrcExtend ==
    ASSUME NEW f, NEW h, NEW n \in Nat, NEW c \in Crcs, NEW d \in Blocks,
           IsCrc(f, n, c),
           \A i \in 0 .. (n - 1) : h[i] = f[i],
           h[n] = d
    PROVE  IsCrc(h, n + 1, CrcFrame(c, d))
<1>1. PICK g \in [0 .. n -> Crcs] :
         /\ g[0] = CrcInit
         /\ \A i \in 0 .. (n - 1) : g[i + 1] = CrcFrame(g[i], f[i])
         /\ g[n] = c
  BY DEF IsCrc
<1> DEFINE e == [i \in 0 .. (n + 1) |-> IF i = n + 1 THEN CrcFrame(c, d) ELSE g[i]]
<1>2. e \in [0 .. (n + 1) -> Crcs]
  BY CrcFrameAssumption
<1>3. e[0] = CrcInit /\ e[n + 1] = CrcFrame(c, d)
  BY <1>1
<1>4. \A i \in 0 .. ((n + 1) - 1) : e[i + 1] = CrcFrame(e[i], h[i])
  <2> SUFFICES ASSUME NEW i \in 0 .. ((n + 1) - 1)
               PROVE  e[i + 1] = CrcFrame(e[i], h[i])
    OBVIOUS
  <2>1. CASE i = n
    BY <2>1, <1>1
  <2>2. CASE i \in 0 .. (n - 1)
    BY <2>2, <1>1
  <2> QED
    BY <2>1, <2>2
<1>5. \E x \in [0 .. (n + 1) -> Crcs] :
         /\ x[0] = CrcInit
         /\ \A i \in 0 .. ((n + 1) - 1) : x[i + 1] = CrcFrame(x[i], h[i])
         /\ x[n + 1] = CrcFrame(c, d)
  <2> HIDE DEF e
  <2> QED
    BY <1>2, <1>3, <1>4
<1> QED
  BY <1>5 DEF IsCrc

------------------------------------------------------------------------------
(* The invariant holds initially and is kept by every action *)

\* A board that powers up has no download open, whatever its flash holds
\* (ota_handle.c:41-52, 62-72).
LEMMA InitIInv == Init => IInv
<1> SUFFICES ASSUME Init PROVE IInv
  OBVIOUS
<1> USE ConstantsAssumption, FlashAssumption DEF Init, RamInit
<1>1. TypeOK
  <2>1. flash \in [Cells -> Blocks]
    OBVIOUS
  <2>2. inform_timer \in BOOLEAN /\ tx_started \in BOOLEAN
    OBVIOUS
  <2>3. reply \in Seq(Replies)
    OBVIOUS
  <2>4. written \in 0 .. NCells /\ ota_timer \in 0 .. OtaTicks /\ sector \in 0 .. NSectors
    OBVIOUS
  <2> QED
    BY <2>1, <2>2, <2>3, <2>4 DEF TypeOK
<1>2. ImageMatchesCrc /\ SuccessIsVerified /\ AcceptedIsErased
  BY DEF ImageMatchesCrc, SuccessIsVerified, AcceptedIsErased
<1>3. NothingWhileErasing /\ PassedSectorsBlank
  BY DEF NothingWhileErasing, PassedSectorsBlank
<1> QED
  BY <1>1, <1>2, <1>3 DEF IInv

\* rt_hw_cpu_reset forgets the download (ota_handle.c:58, 186); any partition contents are allowed then.
LEMMA RebootIInv ==
    ASSUME Reboot, flash' \in [Cells -> Blocks]
    PROVE  IInv'
<1> USE ConstantsAssumption, FlashAssumption DEF Reboot
<1>1. TypeOK'
  <2>1. inform_timer' \in BOOLEAN /\ tx_started' \in BOOLEAN
    OBVIOUS
  <2>2. reply' \in Seq(Replies)
    OBVIOUS
  <2>3. written' \in 0 .. NCells /\ ota_timer' \in 0 .. OtaTicks /\ sector' \in 0 .. NSectors
    OBVIOUS
  <2> QED
    BY <2>1, <2>2, <2>3 DEF TypeOK
<1>2. ImageMatchesCrc' /\ SuccessIsVerified' /\ AcceptedIsErased'
  BY DEF ImageMatchesCrc, SuccessIsVerified, AcceptedIsErased
<1>3. NothingWhileErasing' /\ PassedSectorsBlank'
  BY DEF NothingWhileErasing, PassedSectorsBlank
<1> QED
  BY <1>1, <1>2, <1>3 DEF IInv

\* A step that touches neither flash nor the download.
LEMMA FrameIInv ==
    ASSUME IInv, ota_timer' \in 0 .. OtaTicks,
           inform_timer' \in BOOLEAN, tx_started' \in BOOLEAN,
           UNCHANGED <<flash, manage, ota_start_flag, pc, sector, reply>>
    PROVE  IInv'
<1> USE DEF manage
<1>1. TypeOK'
  BY DEF IInv, TypeOK
<1>2. ImageMatchesCrc' /\ SuccessIsVerified'
  BY DEF IInv, ImageMatchesCrc, SuccessIsVerified, IsCrc
<1>3. AcceptedIsErased' /\ NothingWhileErasing' /\ PassedSectorsBlank'
  BY DEF IInv, AcceptedIsErased, NothingWhileErasing, PassedSectorsBlank
<1> QED
  BY <1>1, <1>2, <1>3 DEF IInv

\* ota_timer_timeout restarts the board and so gives the download up; a tick
\* that does not expire it touches nothing else (ota_handle.c:55-59).
LEMMA TickIInv == IInv /\ Tick => IInv'
<1> SUFFICES ASSUME IInv, Tick PROVE IInv'
  OBVIOUS
<1>1. CASE /\ ota_timer > 1 /\ ota_timer' = ota_timer - 1
           /\ UNCHANGED <<flash, manage, can, pc, sector, reply>>
  <2>1. ota_timer' \in 0 .. OtaTicks
    BY <1>1, ConstantsAssumption DEF IInv, TypeOK
  <2>2. inform_timer' \in BOOLEAN /\ tx_started' \in BOOLEAN
    BY <1>1 DEF can, IInv, TypeOK
  <2> QED
    BY <1>1, <2>1, <2>2, FrameIInv DEF can
<1>2. CASE ota_timer = 1 /\ Reboot /\ UNCHANGED flash
  BY <1>2, RebootIInv DEF IInv, TypeOK
<1> QED
  BY <1>1, <1>2 DEF Tick

\* The restart after a verified download forgets it (ota_handle.c:184-187).
LEMMA DelayOverIInv == IInv /\ DelayOver => IInv'
BY RebootIInv DEF DelayOver, IInv, TypeOK

\* A power loss may leave a sector half erased, but forgets the download.
LEMMA PowerLossIInv == IInv /\ PowerLoss => IInv'
<1> SUFFICES ASSUME IInv, PowerLoss PROVE IInv'
  OBVIOUS
<1>1. flash' \in [Cells -> Blocks]
  BY DEF PowerLoss, HalfErased, IInv, TypeOK
<1> QED
  BY <1>1, RebootIInv DEF PowerLoss

\* The start of the periodic report touches no download (can.c:311).
LEMMA TxThreadStartIInv == IInv /\ TxThreadStart => IInv'
<1> SUFFICES ASSUME IInv, TxThreadStart PROVE IInv'
  OBVIOUS
<1>1. inform_timer' \in BOOLEAN /\ tx_started' \in BOOLEAN
  BY DEF TxThreadStart
<1>2. ota_timer' \in 0 .. OtaTicks
  BY DEF TxThreadStart, IInv, TypeOK
<1> QED
  BY <1>1, <1>2, FrameIInv DEF TxThreadStart

\* The three kinds of reply are replies, and only EndReply(1) announces success.
LEMMA ReplyTypes ==
    ASSUME NEW id \in Nat, NEW ok \in {0, 1}
    PROVE  /\ StartReply(ok) \in Replies /\ StartReply(ok) # EndReply(1)
           /\ BlockReply(ok, id) \in Replies /\ BlockReply(ok, id) # EndReply(1)
           /\ EndReply(ok) \in Replies /\ BlockReply(ok, id) # StartReply(1)
           /\ StartReply(0) # StartReply(1) /\ EndReply(0) # EndReply(1)
BY DEF StartReply, BlockReply, EndReply, Replies

\* A request, refused or not, starts from no block and the initial CRC
\* (ota_handle.c:126-137).
LEMMA StartRequestIInv == IInv /\ StartRequest => IInv'
<1> SUFFICES ASSUME IInv, NEW size \in Sizes, NEW crc \in Crcs,
                    StartTooLarge(size, crc) \/ StartErase(size, crc)
             PROVE  IInv'
  BY DEF StartRequest
<1> USE DEF RecordRequest, CrcAtStart
<1>1. size \in Nat /\ CrcInit \in Crcs /\ 0 \in 0 .. NCells /\ 0 \in 0 .. NSectors
  BY ConstantsAssumption, FlashAssumption
<1>2. CASE StartTooLarge(size, crc)
  <2>1. TypeOK'
    <3>1. inform_timer' \in BOOLEAN /\ tx_started' \in BOOLEAN
      BY <1>2 DEF StartTooLarge, EnterOtaMode, IInv, TypeOK
    <3>2. reply' \in Seq(Replies)
      BY <1>2, ReplyTypes DEF StartTooLarge
    <3> QED
      BY <1>1, <1>2, <3>1, <3>2 DEF StartTooLarge, EnterOtaMode, IInv, TypeOK
  <2>2. ImageMatchesCrc'
    BY <1>2, IsCrcEmpty DEF StartTooLarge, ImageMatchesCrc, IsCrc
  <2>3. SuccessIsVerified' /\ AcceptedIsErased'
    BY <1>2, ReplyTypes DEF StartTooLarge, SuccessIsVerified, AcceptedIsErased
  <2>4. NothingWhileErasing' /\ PassedSectorsBlank'
    BY <1>2 DEF StartTooLarge, NothingWhileErasing, PassedSectorsBlank
  <2> QED
    BY <2>1, <2>2, <2>3, <2>4 DEF IInv
<1>3. CASE StartErase(size, crc)
  <2>1. TypeOK'
    <3>1. inform_timer' \in BOOLEAN /\ tx_started' \in BOOLEAN
      BY <1>3 DEF StartErase, can, IInv, TypeOK
    <3>2. reply' \in Seq(Replies)
      BY <1>3 DEF StartErase
    <3> QED
      BY <1>1, <1>3, <3>1, <3>2 DEF StartErase, can, IInv, TypeOK
  <2>2. ImageMatchesCrc'
    BY <1>3, IsCrcEmpty DEF StartErase, ImageMatchesCrc, IsCrc
  <2>3. SuccessIsVerified' /\ AcceptedIsErased'
    BY <1>3 DEF StartErase, SuccessIsVerified, AcceptedIsErased
  <2>4. NothingWhileErasing' /\ PassedSectorsBlank'
    BY <1>3, FlashAssumption DEF StartErase, NothingWhileErasing, PassedSectorsBlank
  <2> QED
    BY <2>1, <2>2, <2>3, <2>4 DEF IInv
<1> QED
  BY <1>2, <1>3

\* Erasing passes one sector after the other, so that at the end all are blank;
\* nothing is written meanwhile (ota_handle.c:144, drv_flash_f4.c:334-337).
LEMMA EraseIInv == IInv /\ Erase => IInv'
<1> SUFFICES ASSUME IInv, Erase PROVE IInv'
  OBVIOUS
<1> USE DEF manage, can
<1>n. NbOfSectors(NCells) = NSectors
  BY SectorsOfAll
<1>1. IsCrc(flash', 0, CrcInit)
  BY IsCrcEmpty
<1>2. CASE EraseSector
  <2>1. flash' \in [Cells -> Blocks]
    BY <1>2 DEF EraseSector, ErasedSector, Blocks, IInv, TypeOK
  <2>2. TypeOK'
    <3>1. inform_timer' \in BOOLEAN /\ tx_started' \in BOOLEAN
      BY <1>2 DEF EraseSector, IInv, TypeOK
    <3>2. sector' \in 0 .. NSectors
      BY <1>2, <1>n, FlashAssumption DEF EraseSector, IInv, TypeOK
    <3> QED
      BY <1>2, <2>1, <3>1, <3>2 DEF EraseSector, IInv, TypeOK
  <2>3. ImageMatchesCrc' /\ NothingWhileErasing'
    BY <1>1, <1>2 DEF EraseSector, IInv, NothingWhileErasing, ImageMatchesCrc, IsCrc
  <2>4. SuccessIsVerified'
    BY <1>2 DEF EraseSector, IInv, SuccessIsVerified
  <2>5. AcceptedIsErased'
    BY <1>2 DEF EraseSector, ErasedSector, IInv, AcceptedIsErased, TypeOK
  <2>6. PassedSectorsBlank'
    <3> SUFFICES ASSUME NEW k \in Cells, SectorOf[k] < sector + 1
                 PROVE  flash'[k] = Bits
      BY <1>2 DEF EraseSector, PassedSectorsBlank
    <3>1. SectorOf[k] = sector \/ SectorOf[k] < sector
      BY FlashAssumption DEF IInv, TypeOK
    <3> QED
      BY <1>2, <3>1 DEF EraseSector, ErasedSector, IInv, PassedSectorsBlank
  <2> QED
    BY <2>2, <2>3, <2>4, <2>5, <2>6 DEF IInv
<1>3. CASE EraseFails
  <2>1. TypeOK'
    <3>1. inform_timer' \in BOOLEAN /\ tx_started' \in BOOLEAN
      BY <1>3 DEF EraseFails, EnterOtaMode, IInv, TypeOK
    <3>2. reply' \in Seq(Replies)
      BY <1>3, ReplyTypes DEF EraseFails
    <3> QED
      BY <1>3, <3>1, <3>2 DEF EraseFails, EnterOtaMode, HalfErased, IInv, TypeOK
  <2>2. ImageMatchesCrc' /\ NothingWhileErasing' /\ PassedSectorsBlank'
    BY <1>1, <1>3 DEF EraseFails, IInv, NothingWhileErasing, PassedSectorsBlank,
                      ImageMatchesCrc, IsCrc
  <2>3. SuccessIsVerified' /\ AcceptedIsErased'
    BY <1>3, ReplyTypes DEF EraseFails, SuccessIsVerified, AcceptedIsErased
  <2> QED
    BY <2>1, <2>2, <2>3 DEF IInv
<1>4. CASE EraseDone
  <2>1. TypeOK'
    <3>1. inform_timer' \in BOOLEAN /\ tx_started' \in BOOLEAN
      BY <1>4 DEF EraseDone, EnterOtaMode, IInv, TypeOK
    <3>2. reply' \in Seq(Replies)
      BY <1>4, ReplyTypes DEF EraseDone
    <3>3. ota_timer' \in 0 .. OtaTicks
      BY <1>4, ConstantsAssumption DEF EraseDone
    <3> QED
      BY <1>4, <3>1, <3>2, <3>3 DEF EraseDone, EnterOtaMode, IInv, TypeOK
  <2>2. ImageMatchesCrc' /\ NothingWhileErasing' /\ PassedSectorsBlank'
    BY <1>1, <1>4 DEF EraseDone, IInv, NothingWhileErasing, PassedSectorsBlank,
                      ImageMatchesCrc, IsCrc
  <2>3. SuccessIsVerified'
    BY <1>4, ReplyTypes DEF EraseDone, SuccessIsVerified
  <2>4. AcceptedIsErased'
    BY <1>4, <1>n, FlashAssumption DEF EraseDone, IInv, AcceptedIsErased, PassedSectorsBlank
  <2> QED
    BY <2>1, <2>2, <2>3, <2>4 DEF IInv
<1> QED
  BY <1>2, <1>3, <1>4 DEF Erase


\* A data frame that is not stored leaves the blocks below file_write_size
\* alone; one that is stored extends them and the running CRC by one block, and
\* the download is declared done on that CRC (ota_handle.c:161-204).
LEMMA DataRequestIInv == IInv /\ DataRequest => IInv'
<1> SUFFICES ASSUME IInv, NEW id \in FrameIds, NEW d \in Blocks,
                    \/ DataUnexpected(id) \/ DataNoPartition(id)
                    \/ DataWriteFails(id, d) \/ DataStored(id, d)
             PROVE  IInv'
  <2>1. {} \in Blocks
    BY DEF Blocks
  <2> QED
    BY <2>1 DEF DataRequest
<1> USE DEF manage, can, DataFrame, Expected
<1>1. id \in Nat /\ written \in Nat /\ file_crc_cur \in Crcs /\ flash \in [Cells -> Blocks]
  BY ConstantsAssumption DEF IInv, TypeOK
<1>2. CASE DataUnexpected(id)
  <2>1. TypeOK'
    <3>1. inform_timer' \in BOOLEAN /\ tx_started' \in BOOLEAN
      BY <1>2 DEF DataUnexpected, IInv, TypeOK
    <3>2. reply' \in Seq(Replies)
      BY <1>1, <1>2, ReplyTypes DEF DataUnexpected
    <3> QED
      BY <1>2, <3>1, <3>2 DEF DataUnexpected, TimerOnRefusedBlock, IInv, TypeOK
  <2>2. ImageMatchesCrc'
    BY <1>2 DEF DataUnexpected, IInv, ImageMatchesCrc, IsCrc
  <2>3. SuccessIsVerified' /\ AcceptedIsErased'
    BY <1>1, <1>2, ReplyTypes DEF DataUnexpected, SuccessIsVerified, AcceptedIsErased
  <2>4. NothingWhileErasing' /\ PassedSectorsBlank'
    BY <1>2 DEF DataUnexpected, NothingWhileErasing, PassedSectorsBlank
  <2> QED
    BY <2>1, <2>2, <2>3, <2>4 DEF IInv
<1>3. CASE DataNoPartition(id)
  <2>1. TypeOK'
    <3>1. inform_timer' \in BOOLEAN /\ tx_started' \in BOOLEAN
      BY <1>3 DEF DataNoPartition, IInv, TypeOK
    <3>2. reply' \in Seq(Replies)
      BY <1>3 DEF DataNoPartition
    <3> QED
      BY <1>3, <3>1, <3>2 DEF DataNoPartition, IInv, TypeOK
  <2>2. ImageMatchesCrc'
    BY <1>3 DEF DataNoPartition, IInv, ImageMatchesCrc, IsCrc
  <2>3. SuccessIsVerified' /\ AcceptedIsErased'
    BY <1>3 DEF DataNoPartition, SuccessIsVerified, AcceptedIsErased
  <2>4. NothingWhileErasing' /\ PassedSectorsBlank'
    BY <1>3 DEF DataNoPartition, NothingWhileErasing, PassedSectorsBlank
  <2> QED
    BY <2>1, <2>2, <2>3, <2>4 DEF IInv
<1>4. CASE DataWriteFails(id, d)
  <2>1. /\ flash' \in [Cells -> Blocks]
        /\ \A i \in 0 .. (written - 1) : flash'[i] = flash[i]
    <3>1. CASE Fits(written)
      <4>1. PICK x \in HalfProgrammed(flash[written], d) : flash' = [flash EXCEPT ![written] = x]
        BY <1>4, <3>1 DEF DataWriteFails
      <4>2. x \in Blocks
        BY <4>1 DEF HalfProgrammed
      <4>3. \A i \in 0 .. (written - 1) : i \in Cells /\ i # written
        BY <1>1, <3>1, FlashAssumption DEF Fits, Cells
      <4> QED
        BY <1>1, <4>1, <4>2, <4>3
    <3>2. CASE ~Fits(written)
      BY <1>1, <1>4, <3>2 DEF DataWriteFails
    <3> QED
      BY <3>1, <3>2
  <2>2. TypeOK'
    <3>1. inform_timer' \in BOOLEAN /\ tx_started' \in BOOLEAN
      BY <1>4 DEF DataWriteFails, IInv, TypeOK
    <3>2. reply' \in Seq(Replies)
      BY <1>1, <1>4, ReplyTypes DEF DataWriteFails
    <3> QED
      BY <1>4, <2>1, <3>1, <3>2 DEF DataWriteFails, TimerOnRefusedBlock, IInv, TypeOK
  <2>3. ImageMatchesCrc'
    <3>1. IsCrc(flash, written, file_crc_cur)
      BY <1>4 DEF DataWriteFails, IInv, ImageMatchesCrc
    <3>2. IsCrc(flash', written, file_crc_cur)
      BY <1>1, <2>1, <3>1, IsCrcSamePrefix
    <3>3. written' = written /\ file_crc_cur' = file_crc_cur
      BY <1>4 DEF DataWriteFails
    <3> QED
      BY <3>2, <3>3 DEF ImageMatchesCrc, IsCrc
  <2>4. SuccessIsVerified' /\ AcceptedIsErased'
    BY <1>1, <1>4, ReplyTypes DEF DataWriteFails, SuccessIsVerified, AcceptedIsErased
  <2>5. NothingWhileErasing' /\ PassedSectorsBlank'
    BY <1>4 DEF DataWriteFails, NothingWhileErasing, PassedSectorsBlank
  <2> QED
    BY <2>2, <2>3, <2>4, <2>5 DEF IInv
<1>5. CASE DataStored(id, d)
  <2>1. id = written /\ written' = written + 1 /\ file_crc_cur' = CrcFrame(file_crc_cur, d)
    BY <1>5 DEF DataStored
  <2>2. written \in Cells /\ written + 1 \in 0 .. NCells
    BY <1>1, <1>5, FlashAssumption DEF DataStored, Fits, Cells
  <2>3. flash' = [flash EXCEPT ![written] = d]
    BY <1>1, <1>5, <2>2 DEF DataStored, ReadBackOk
  <2>4. flash' \in [Cells -> Blocks]
    BY <1>1, <2>3
  <2>5. /\ flash'[written] = d
        /\ \A i \in 0 .. (written - 1) : flash'[i] = flash[i]
    <3>1. \A i \in 0 .. (written - 1) : i \in Cells /\ i # written
      BY <1>1, <2>2, FlashAssumption DEF Cells
    <3> QED
      BY <1>1, <2>2, <2>3, <3>1
  <2>6. IsCrc(flash', written', file_crc_cur')
    <3>1. IsCrc(flash, written, file_crc_cur)
      BY <1>5 DEF DataStored, IInv, ImageMatchesCrc
    <3>2. IsCrc(flash', written + 1, CrcFrame(file_crc_cur, d))
      BY <1>1, <2>5, <3>1, IsCrcExtend
    <3> QED
      BY <2>1, <3>2
  <2>7. TypeOK'
    <3>1. inform_timer' \in BOOLEAN /\ tx_started' \in BOOLEAN
      BY <1>5 DEF DataStored, IInv, TypeOK
    <3>2. BlockReply(1, id) \in Replies /\ EndReply(0) \in Replies /\ EndReply(1) \in Replies
      BY <1>1, ReplyTypes
    <3>3. reply' \in Seq(Replies)
      <4>1. /\ <<BlockReply(1, id)>> \in Seq(Replies)
            /\ <<BlockReply(1, id), EndReply(0)>> \in Seq(Replies)
            /\ <<BlockReply(1, id), EndReply(1)>> \in Seq(Replies)
        BY <3>2
      <4> QED
        BY <1>5, <4>1 DEF DataStored
    <3>4. ota_timer' \in 0 .. OtaTicks
      BY <1>5, ConstantsAssumption DEF DataStored, IInv, TypeOK
    <3>5. CrcFrame(file_crc_cur, d) \in Crcs
      BY <1>1, CrcFrameAssumption
    <3>6. acked' \in Seq(Frames)
      <4>1. acked \in Seq(Frames) /\ [id |-> id, block |-> d] \in Frames
        BY <1>1 DEF Frames, IInv, TypeOK
      <4> QED
        BY <1>5, <4>1, AppendProperties DEF DataStored
    <3>7. ota_on' \in {0, 1} /\ pc' \in {"ready", "erasing", "delay", "assert"}
      BY <1>5 DEF DataStored, IInv, TypeOK
    <3> QED
      BY <1>5, <2>1, <2>2, <2>4, <3>1, <3>3, <3>4, <3>5, <3>6, <3>7 DEF DataStored, IInv, TypeOK
  <2>8. ImageMatchesCrc'
    BY <2>6 DEF ImageMatchesCrc, IsCrc
  <2>9. SuccessIsVerified'
    <3>1. CASE pc' = "delay" /\ Complete(written + 1) /\ file_crc_cur' = file_crc16
      BY <1>5, <2>1, <2>6, <3>1 DEF DataStored, Complete, SuccessIsVerified, IsCrc
    <3>2. CASE reply' = <<BlockReply(1, id)>> /\ pc' = pc
      BY <1>1, <1>5, <3>2, ReplyTypes DEF DataStored, SuccessIsVerified
    <3>3. CASE reply' = <<BlockReply(1, id), EndReply(0)>> /\ pc' = pc
      BY <1>1, <1>5, <3>3, ReplyTypes DEF DataStored, SuccessIsVerified
    <3> QED
      BY <1>5, <3>1, <3>2, <3>3 DEF DataStored
  <2>10. AcceptedIsErased'
    <3>1. reply' # <<StartReply(1)>>
      BY <1>1, <1>5, ReplyTypes DEF DataStored
    <3> QED
      BY <3>1 DEF AcceptedIsErased
  <2>11. NothingWhileErasing' /\ PassedSectorsBlank'
    BY <1>5 DEF DataStored, NothingWhileErasing, PassedSectorsBlank
  <2> QED
    BY <2>7, <2>8, <2>9, <2>10, <2>11 DEF IInv
<1> QED
  BY <1>2, <1>3, <1>4, <1>5

\* Every step of the board keeps the invariant.
LEMMA NextIInv == IInv /\ [Next]_vars => IInv'
<1> SUFFICES ASSUME IInv, [Next]_vars PROVE IInv'
  OBVIOUS
<1>1. CASE UNCHANGED vars
  <2>1. /\ UNCHANGED <<flash, manage, ota_start_flag, pc, sector, reply>>
        /\ ota_timer' \in 0 .. OtaTicks /\ inform_timer' \in BOOLEAN /\ tx_started' \in BOOLEAN
    BY <1>1 DEF vars, can, IInv, TypeOK
  <2> QED
    BY <2>1, FrameIInv
<1>2. CASE Next
  BY <1>2, TxThreadStartIInv, StartRequestIInv, EraseIInv, DataRequestIInv,
     DelayOverIInv, TickIInv, PowerLossIInv DEF Next
<1> QED
  BY <1>1, <1>2

------------------------------------------------------------------------------
(* The theorems *)

\* The inductive invariant holds in every state of the board.
THEOREM Invariance == Spec => []IInv
BY InitIInv, NextIInv, PTL DEF Spec

\* Every variable keeps its type: in particular file_write_size never passes
\* the end of the partition (ota_handle.c:172, fal_partition.c:447-475).
THEOREM TypeCorrect == Spec => []TypeOK
<1>1. IInv => TypeOK
  BY DEF IInv
<1> QED
  BY <1>1, Invariance, PTL

\* The running CRC is that of what the partition holds (ota_handle.c:166-173).
THEOREM RunningCrcIsTrue == Spec => []ImageMatchesCrc
<1>1. IInv => ImageMatchesCrc
  BY DEF IInv
<1> QED
  BY <1>1, Invariance, PTL

\* The board restarts into the new firmware, and says so, only with a partition
\* that holds the announced size and CRC (ota_handle.c:176-188).
THEOREM SuccessSound == Spec => []SuccessIsVerified
<1>1. IInv => SuccessIsVerified
  BY DEF IInv
<1> QED
  BY <1>1, Invariance, PTL

\* A request is accepted only on an erased partition (ota_handle.c:144-157).
THEOREM AcceptedSound == Spec => []AcceptedIsErased
<1>1. IInv => AcceptedIsErased
  BY DEF IInv
<1> QED
  BY <1>1, Invariance, PTL


------------------------------------------------------------------------------
(* The image is what was acknowledged *)

\* A data frame, stored or refused, leaves the blocks below file_write_size alone:
\* it is programmed at file_write_size, past all of them (ota_handle.c:164-166).
LEMMA DataKeepsPrefix ==
    ASSUME TypeOK, NEW id \in FrameIds, NEW d \in Blocks,
           DataWriteFails(id, d) \/ DataStored(id, d)
    PROVE  \A i \in 1 .. written : flash'[i - 1] = flash[i - 1]
<1>1. flash \in [Cells -> Blocks] /\ written \in 0 .. NCells
  BY DEF TypeOK
<1>2. flash' = flash \/ \E x : flash' = [flash EXCEPT ![written] = x]
  BY DEF DataWriteFails, DataStored
<1> QED
  BY <1>1, <1>2, FlashAssumption DEF Cells

\* The frames acknowledged, if the image f of n blocks is made of nothing else.
FramesOf(f, n) == [i \in 1 .. n |-> [id |-> i - 1, block |-> f[i - 1]]]

\* A block stored behind n others stands for one frame more.
LEMMA FramesExtend ==
    ASSUME NEW f, NEW h, NEW n \in Nat, NEW d,
           \A i \in 1 .. n : h[i - 1] = f[i - 1], h[n] = d
    PROVE  FramesOf(h, n + 1) = Append(FramesOf(f, n), [id |-> n, block |-> d])
BY DEF FramesOf

\* Of all steps only the storing of a block acknowledges one, and only a request or
\* a restart, which give up the whole image, or an erase, which runs while there is
\* none, touches what is below file_write_size (ota_handle.c:126-144, 164-174).
LEMMA StepAcked == IInv /\ AckedBlocksStored /\ [Next]_vars => AckedBlocksStored'
<1> SUFFICES ASSUME IInv, acked = FramesOf(flash, written), [Next]_vars
             PROVE  acked' = FramesOf(flash', written')
  BY DEF AckedBlocksStored, FramesOf
<1>1. \A f : FramesOf(f, 0) = <<>>
  BY DEF FramesOf
<1>2. ASSUME UNCHANGED <<acked, written>>, \A i \in 1 .. written : flash'[i - 1] = flash[i - 1]
      PROVE  acked' = FramesOf(flash', written')
  BY <1>2 DEF FramesOf
<1>3. CASE UNCHANGED <<manage, flash>>
  BY <1>2, <1>3 DEF manage
<1>4. CASE StartRequest \/ DelayOver \/ PowerLoss \/ Reboot
  <2>1. written' = 0 /\ acked' = <<>>
    BY <1>4 DEF StartRequest, StartTooLarge, StartErase, RecordRequest,
                DelayOver, PowerLoss, Reboot
  <2> QED
    BY <1>1, <2>1
<1>5. CASE Erase
  <2>1. written = 0 /\ UNCHANGED <<acked, written>>
    BY <1>5 DEF Erase, EraseSector, EraseFails, EraseDone, manage, IInv, NothingWhileErasing
  <2> QED
    BY <1>1, <2>1
<1>6. ASSUME NEW id \in FrameIds, NEW d \in Blocks, DataWriteFails(id, d)
      PROVE  acked' = FramesOf(flash', written')
  BY <1>2, <1>6, DataKeepsPrefix DEF IInv, DataWriteFails, manage
<1>7. ASSUME NEW id \in FrameIds, NEW d \in Blocks, DataStored(id, d)
      PROVE  acked' = FramesOf(flash', written')
  <2>1. /\ id = written /\ written' = written + 1
        /\ acked' = Append(acked, [id |-> id, block |-> d])
    BY <1>7 DEF DataStored, Expected
  <2>2. written \in Cells /\ written \in Nat /\ flash \in [Cells -> Blocks]
    BY <1>7, FlashAssumption DEF DataStored, Fits, IInv, TypeOK, Cells
  <2>3. flash'[written] = d
    BY <1>7, <2>2 DEF DataStored, ReadBackOk
  <2>4. \A i \in 1 .. written : flash'[i - 1] = flash[i - 1]
    BY <1>7, DataKeepsPrefix DEF IInv
  <2>5. FramesOf(flash', written + 1) = Append(FramesOf(flash, written), [id |-> written, block |-> d])
    BY <2>2, <2>3, <2>4, FramesExtend
  <2> QED
    BY <2>1, <2>5
<1>8. CASE DataRequest
  BY <1>3, <1>6, <1>7, <1>8 DEF DataRequest, DataUnexpected, DataNoPartition
<1> QED
  BY <1>3, <1>4, <1>5, <1>8 DEF Next, TxThreadStart, Tick, vars

\* For every partition and all frames in any order the image is, block for block,
\* what was acknowledged: no frame is stored twice, none out of its place, and none
\* is changed once the board has said "go on" (ota_handle.c:161-175).
THEOREM AckedSafe == Spec => []AckedBlocksStored
<1>1. Init => AckedBlocksStored
  BY DEF Init, RamInit, AckedBlocksStored
<1> QED
  BY <1>1, StepAcked, Invariance, PTL DEF Spec

------------------------------------------------------------------------------
(***************************************************************************)
(* OtaHandle implements OtaDownload.  "Done" must hold exactly when the    *)
(* collected blocks have the announced checksum: that a download whose     *)
(* running checksum differs from the announced one is not valid needs the  *)
(* checksum of an image to be unique.                                      *)
(***************************************************************************)

\* A non-empty set of naturals has a least element.
LEMMA LeastOf ==
    ASSUME NEW D \in SUBSET Nat, D # {}
    PROVE  \E m \in D : \A k \in D : m <= k
<1>1. PICK n \in D : TRUE
  OBVIOUS
<1> DEFINE S == 0 .. n
           T == {0 .. i : i \in D \cap S}
<1>2. IsFiniteSet(S)
  BY FS_Interval
<1>3. T # {} /\ T \subseteq SUBSET S
  BY <1>1
<1>4. IsWellFoundedOn(StrictSubsetOrdering(S), FiniteSubsetsOf(S))
  BY <1>2, FS_StrictSubsetOrderingWellFounded
<1>5. T \subseteq FiniteSubsetsOf(S)
  BY <1>2, <1>3, FS_Subset DEF FiniteSubsetsOf
<1>6. PICK x \in T : \A y \in T : ~ (<<y, x>> \in StrictSubsetOrdering(S))
  <2> HIDE DEF T
  <2> QED
    BY <1>3, <1>4, <1>5, WFMin
<1>7. PICK m \in D \cap S : x = 0 .. m
  BY <1>6
<1>8. \A k \in D : m <= k
  <2> SUFFICES ASSUME NEW k \in D, k < m PROVE FALSE
    BY <1>1
  <2>1. k \in D \cap S
    BY <1>1, <1>7
  <2>2. 0 .. k \in T
    BY <2>1
  <2>3. 0 .. k \subseteq 0 .. m /\ m \in 0 .. m /\ m \notin 0 .. k /\ 0 .. m \subseteq S
    BY <1>1, <1>7
  <2> HIDE DEF T, S
  <2>4. <<0 .. k, x>> \in StrictSubsetOrdering(S)
    BY <1>7, <2>3 DEF StrictSubsetOrdering
  <2> QED
    BY <1>6, <2>2, <2>4
<1> QED
  BY <1>7, <1>8

\* An image has only one checksum (modbus_rtu_crc16_frame, normal_calc.c).
LEMMA CrcUnique ==
    ASSUME NEW f, NEW n \in Nat, NEW a, NEW b, IsCrc(f, n, a), IsCrc(f, n, b)
    PROVE  a = b
<1>1. PICK g \in [0 .. n -> Crcs] :
         g[0] = CrcInit /\ (\A i \in 0 .. (n - 1) : g[i + 1] = CrcFrame(g[i], f[i])) /\ g[n] = a
  BY DEF IsCrc
<1>2. PICK h \in [0 .. n -> Crcs] :
         h[0] = CrcInit /\ (\A i \in 0 .. (n - 1) : h[i + 1] = CrcFrame(h[i], f[i])) /\ h[n] = b
  BY DEF IsCrc
<1> DEFINE D == {i \in 0 .. n : g[i] # h[i]}
<1>3. D = {}
  <2> SUFFICES ASSUME D # {} PROVE FALSE
    OBVIOUS
  <2>1. D \in SUBSET Nat
    OBVIOUS
  <2>2. PICK m \in D : \A k \in D : m <= k
    <3> HIDE DEF D
    <3> QED
      BY <2>1, LeastOf
  <2>3. m \in 1 .. n
    BY <1>1, <1>2, <2>2
  <2>4. m - 1 \in 0 .. (n - 1) /\ m - 1 \notin D
    BY <2>2, <2>3
  <2>5. g[m - 1] = h[m - 1]
    BY <2>4
  <2>6. g[(m - 1) + 1] = h[(m - 1) + 1]
    BY <1>1, <1>2, <2>4, <2>5
  <2> QED
    BY <2>2, <2>3, <2>6
<1>4. n \in 0 .. n
  OBVIOUS
<1> QED
  BY <1>1, <1>2, <1>3, <1>4

\* The checksum of the collected sequence is that of the partition's prefix.
LEMMA SeqCrcIsCrc ==
    ASSUME NEW f, NEW n \in Nat, NEW c, NEW s, Len(s) = n,
           \A i \in 1 .. n : s[i] = f[i - 1]
    PROVE  Download!SeqCrc(s, c) <=> IsCrc(f, n, c)
<1>1. ASSUME NEW g \in [0 .. n -> Crcs]
      PROVE  (\A i \in 0 .. (n - 1) : g[i + 1] = CrcFrame(g[i], f[i]))
               <=> (\A i \in 1 .. n : g[i] = CrcFrame(g[i - 1], s[i]))
  <2>1. ASSUME \A i \in 0 .. (n - 1) : g[i + 1] = CrcFrame(g[i], f[i]), NEW i \in 1 .. n
        PROVE  g[i] = CrcFrame(g[i - 1], s[i])
    <3>1. i - 1 \in 0 .. (n - 1) /\ (i - 1) + 1 = i
      OBVIOUS
    <3>2. g[(i - 1) + 1] = CrcFrame(g[i - 1], f[i - 1])
      BY <2>1, <3>1
    <3> QED
      BY <3>1, <3>2
  <2>2. ASSUME \A i \in 1 .. n : g[i] = CrcFrame(g[i - 1], s[i]), NEW i \in 0 .. (n - 1)
        PROVE  g[i + 1] = CrcFrame(g[i], f[i])
    <3>1. i + 1 \in 1 .. n /\ (i + 1) - 1 = i
      OBVIOUS
    <3>2. g[i + 1] = CrcFrame(g[(i + 1) - 1], s[i + 1])
      BY <2>2, <3>1
    <3> QED
      BY <3>1, <3>2
  <2> QED
    BY <2>1, <2>2
<1> QED
  BY <1>1 DEF IsCrc, Download!SeqCrc

\* The first n blocks of a partition are a sequence of blocks.
LEMMA PrefixSeq ==
    ASSUME NEW f \in [Cells -> Blocks], NEW n \in 0 .. NCells
    PROVE  /\ [i \in 1 .. n |-> f[i - 1]] \in Seq(Blocks)
           /\ Len([i \in 1 .. n |-> f[i - 1]]) = n
           /\ \A i \in 1 .. n : [j \in 1 .. n |-> f[j - 1]][i] = f[i - 1]
<1>1. n \in Nat /\ \A i \in 1 .. n : i - 1 \in Cells
  BY FlashAssumption DEF Cells
<1>2. \A i \in 1 .. n : f[i - 1] \in Blocks
  BY <1>1
<1> QED
  BY <1>1, <1>2

\* Nothing is collected before the first block.
LEMMA CollectedEmpty == written = 0 => Collected = <<>>
BY DEF Collected

\* A stored block is appended to the collected image as it was received, and the
\* download is done exactly when the image is then valid (ota_handle.c:163-199).
LEMMA StoredExtends ==
    ASSUME IInv, IInv', NEW id \in FrameIds, NEW d \in Blocks, DataStored(id, d)
    PROVE  Download!Extend
<1>1. id = written /\ written' = written + 1 /\ file_total_size' = file_total_size
      /\ file_crc16' = file_crc16 /\ pc = "ready" /\ ota_start_flag = 1
      /\ ota_start_flag' = 1
  BY DEF DataStored, DataFrame, Expected, can
<1>2. written \in Nat /\ written \in Cells /\ flash \in [Cells -> Blocks]
  BY <1>1, FlashAssumption DEF DataStored, Fits, IInv, TypeOK, Cells
<1>3. flash' = [flash EXCEPT ![written] = d]
  BY <1>1, <1>2 DEF DataStored, ReadBackOk
<1>4. Collected' = Append(Collected, d)
  <2>1. /\ Collected \in Seq(Blocks) /\ Len(Collected) = written
        /\ \A i \in 1 .. written : Collected[i] = flash[i - 1]
    BY PrefixSeq DEF IInv, TypeOK, Collected
  <2>2. /\ Collected' \in Seq(Blocks) /\ Len(Collected') = written + 1
        /\ \A i \in 1 .. (written + 1) : Collected'[i] = flash'[i - 1]
    <3>1. /\ Collected' \in Seq(Blocks) /\ Len(Collected') = written'
          /\ \A i \in 1 .. written' : Collected'[i] = flash'[i - 1]
      BY PrefixSeq DEF IInv, TypeOK, Collected
    <3> QED
      BY <1>1, <3>1
  <2>3. /\ Append(Collected, d) \in Seq(Blocks) /\ Len(Append(Collected, d)) = written + 1
        /\ \A i \in 1 .. written : Append(Collected, d)[i] = flash[i - 1]
        /\ Append(Collected, d)[written + 1] = d
    BY <2>1, AppendProperties
  <2>4. \A i \in 1 .. (written + 1) : Collected'[i] = Append(Collected, d)[i]
    <3> SUFFICES ASSUME NEW i \in 1 .. (written + 1)
                 PROVE  Collected'[i] = Append(Collected, d)[i]
      OBVIOUS
    <3>1. Collected'[i] = flash'[i - 1]
      BY <2>2
    <3>2. CASE i = written + 1
      BY <3>1, <3>2, <1>2, <1>3, <2>3
    <3>3. CASE i \in 1 .. written
      <4>1. flash'[i - 1] = flash[i - 1]
        BY <3>3, DataKeepsPrefix DEF IInv
      <4> QED
        BY <3>1, <3>3, <4>1, <2>3
    <3>4. i = written + 1 \/ i \in 1 .. written
      BY <1>2
    <3> QED
      BY <3>2, <3>3, <3>4
  <2> QED
    BY <2>2, <2>3, <2>4, SeqEqual
<1>5. Download!SeqCrc(Collected', file_crc16) <=> IsCrc(flash', written + 1, file_crc16)
  <2>1. /\ Len(Collected') = written'
        /\ \A i \in 1 .. written' : Collected'[i] = flash'[i - 1]
    BY PrefixSeq DEF IInv, TypeOK, Collected
  <2>2. /\ written + 1 \in Nat /\ Len(Collected') = written + 1
        /\ \A i \in 1 .. (written + 1) : Collected'[i] = flash'[i - 1]
    BY <1>1, <1>2, <2>1
  <2> QED
    BY <2>2, SeqCrcIsCrc
<1>6. IsCrc(flash', written + 1, file_crc_cur')
  BY <1>1 DEF IInv, ImageMatchesCrc
<1>7. IsCrc(flash', written + 1, file_crc16) <=> file_crc_cur' = file_crc16
  BY <1>2, <1>6, CrcUnique
<1>8. Len(Collected') = written + 1
  BY <1>1, PrefixSeq DEF IInv, TypeOK, Collected
<1>9. (pc' = "delay") <=> Download!Valid(Collected', file_total_size, file_crc16)
  <2>1. (pc' = "delay") <=> Complete(written + 1) /\ file_crc_cur' = file_crc16
    BY <1>1 DEF DataStored
  <2> QED
    BY <1>5, <1>7, <1>8, <2>1 DEF Complete, Download!Valid
<1>10. (pc' = "delay") = Download!Valid(Collected', file_total_size, file_crc16)
  BY <1>9 DEF Download!Valid, Download!SeqCrc
<1>11. pc' # "erasing"
  BY <1>1 DEF DataStored
<1>12. (ota_start_flag' = 1 \/ pc' = "erasing") = (ota_start_flag = 1 \/ pc = "erasing")
  BY <1>1, <1>11
<1> QED
  BY <1>1, <1>4, <1>10, <1>12 DEF Download!Extend

Mapped == <<ota_start_flag = 1 \/ pc = "erasing", Collected, file_total_size, file_crc16, pc = "delay">>

\* A power-up or a reset gives up what was collected (ota_handle.c:58, 186).
LEMMA RebootRestarts == Reboot => Download!Restart
BY ConstantsAssumption, CollectedEmpty DEF Reboot, Download!Restart, Collected

\* A request gives it up as well, whether it is accepted or not (ota_handle.c:120-142).
LEMMA StartRequests == StartRequest => Download!Request
<1> SUFFICES ASSUME NEW size \in Sizes, NEW crc \in Crcs,
                    StartTooLarge(size, crc) \/ StartErase(size, crc)
             PROVE  Download!Request
  BY DEF StartRequest
<1>1. /\ file_total_size' = size /\ file_crc16' = crc /\ written' = 0
      /\ pc = "ready" /\ pc' \in {"ready", "erasing"}
      /\ ota_start_flag' = 1 \/ pc' = "erasing"
  BY DEF StartTooLarge, StartErase, RecordRequest, EnterOtaMode
<1>2. Collected' = <<>>
  BY <1>1 DEF Collected
<1> QED
  BY <1>1, <1>2 DEF Download!Request

\* Erasing, refused frames and failed writes change nothing that was promised.
LEMMA OthersStutter ==
    ASSUME IInv,
           \/ TxThreadStart \/ Erase \/ UNCHANGED vars
           \/ \E id \in FrameIds : \/ DataUnexpected(id) \/ DataNoPartition(id)
                                   \/ \E d \in Blocks : DataWriteFails(id, d)
    PROVE  UNCHANGED Mapped
<1>1. CASE TxThreadStart \/ UNCHANGED vars
  BY <1>1 DEF TxThreadStart, vars, manage, can, Mapped, Collected
<1>2. CASE Erase
  <2>1. /\ written = 0 /\ written' = written /\ file_total_size' = file_total_size
        /\ file_crc16' = file_crc16 /\ pc = "erasing" /\ pc' \in {"ready", "erasing"}
        /\ ota_start_flag' = 1 \/ pc' = "erasing"
    BY <1>2 DEF Erase, EraseSector, EraseFails, EraseDone, EnterOtaMode, manage, can,
                IInv, NothingWhileErasing
  <2>2. Collected' = Collected
    BY <2>1 DEF Collected
  <2> QED
    BY <2>1, <2>2 DEF Mapped
<1>3. ASSUME NEW id \in FrameIds, DataUnexpected(id) \/ DataNoPartition(id)
      PROVE  UNCHANGED Mapped
  <2>1. UNCHANGED <<flash, manage, can>> /\ pc = "ready" /\ pc' \in {"ready", "assert"}
    BY <1>3 DEF DataUnexpected, DataNoPartition, DataFrame
  <2> QED
    BY <2>1 DEF Mapped, Collected, manage, can
<1>4. ASSUME NEW id \in FrameIds, NEW d \in Blocks, DataWriteFails(id, d)
      PROVE  UNCHANGED Mapped
  <2>1. /\ UNCHANGED <<manage, can, pc>>
        /\ flash' = flash \/ \E x : flash' = [flash EXCEPT ![written] = x]
    BY <1>4 DEF DataWriteFails, Expected
  <2>2. flash \in [Cells -> Blocks] /\ written \in 0 .. NCells
    BY DEF IInv, TypeOK
  <2>3. \A i \in 1 .. written : flash'[i - 1] = flash[i - 1]
    BY <2>1, <2>2, FlashAssumption DEF Cells
  <2>4. Collected' = Collected
    BY <2>1, <2>3 DEF Collected, manage
  <2> QED
    BY <2>1, <2>4 DEF Mapped, manage, can
<1> QED
  BY <1>1, <1>2, <1>3, <1>4

\* Each step of the board is a step of the promised download, or none of it.
LEMMA StepRefines == IInv /\ IInv' /\ [Next]_vars => [Download!Next]_Mapped
<1> SUFFICES ASSUME IInv, IInv', [Next]_vars
             PROVE  Download!Next \/ UNCHANGED Mapped
  OBVIOUS
<1>1. CASE StartRequest
  BY <1>1, StartRequests DEF Download!Next
<1>2. CASE DelayOver \/ PowerLoss
  BY <1>2, RebootRestarts DEF DelayOver, PowerLoss, Download!Next
<1>3. CASE Tick
  <2>1. CASE Reboot
    BY <2>1, RebootRestarts DEF Download!Next
  <2>2. CASE UNCHANGED <<flash, manage, can, pc, sector, reply>>
    BY <2>2 DEF Mapped, Collected, manage, can
  <2> QED
    BY <1>3, <2>1, <2>2 DEF Tick
<1>4. CASE TxThreadStart \/ Erase \/ UNCHANGED vars
  BY <1>4, OthersStutter
<1>5. CASE DataRequest
  <2>1. ASSUME NEW id \in FrameIds, NEW d \in Blocks, DataStored(id, d)
        PROVE  Download!Next
    BY <2>1, StoredExtends DEF Download!Next
  <2> QED
    BY <1>5, <2>1, OthersStutter DEF DataRequest
<1> QED
  BY <1>1, <1>2, <1>3, <1>4, <1>5 DEF Next

\* For any partition, any images and any checksum the board collects, completes
\* and gives up a download as OtaDownload promises.
THEOREM Refinement == Spec => ImplementsDownload
<1>1. Init => Download!Init
  BY ConstantsAssumption DEF Init, RamInit, Download!Init, Collected
<1>2. IInv /\ IInv' /\ [Next]_vars
        => [Download!Next]_<<ota_start_flag = 1 \/ pc = "erasing", Collected, file_total_size, file_crc16, pc = "delay">>
  BY StepRefines DEF Mapped
<1> QED
  BY <1>1, <1>2, Invariance, PTL DEF Spec, ImplementsDownload, Download!Spec, Download!vars

------------------------------------------------------------------------------
FlashDisciplineStep == FlashStep(flash, flash') \/ flash' = flash

\* All that a step of the board, with power loss and failing flash, does to the
\* partition is to raise bits of one sector or to clear bits of one block
\* (fal_partition.c:447-527, drv_flash_f4.c:210-360).
THEOREM FlashDiscipline == Spec => [][FlashDisciplineStep]_vars
<1>1. ASSUME TypeOK, [Next]_vars PROVE FlashDisciplineStep
  <2> USE DEF FlashDisciplineStep
  <2>1. \A s : ErasedSector(flash, s) \in HalfErased(flash, s)
    BY <1>1 DEF TypeOK, ErasedSector, HalfErased, Blocks
  <2>2. pc = "erasing" /\ sector < NbOfSectors(NCells) => sector \in 0 .. (NSectors - 1)
    BY <1>1, SectorsOfAll, FlashAssumption DEF TypeOK
  <2>3. CASE Erase \/ PowerLoss
    BY <2>1, <2>2, <2>3 DEF Erase, EraseSector, EraseFails, EraseDone, PowerLoss, FlashStep
  <2>4. ASSUME NEW id \in FrameIds, NEW d \in Blocks, DataWriteFails(id, d)
        PROVE  FlashDisciplineStep
    <3>1. CASE Fits(written)
      <4>1. PICK x \in HalfProgrammed(flash[written], d) : flash' = [flash EXCEPT ![written] = x]
        BY <2>4, <3>1 DEF DataWriteFails
      <4>2. written \in Cells
        BY <3>1, <1>1, FlashAssumption DEF Fits, Cells, TypeOK
      <4>3. x \in SUBSET flash[written]
        BY <4>1 DEF HalfProgrammed
      <4> QED
        BY <4>1, <4>2, <4>3 DEF FlashStep
    <3> QED
      BY <2>4, <3>1 DEF DataWriteFails
  <2>5. ASSUME NEW id \in FrameIds, NEW d \in Blocks, DataStored(id, d)
        PROVE  FlashDisciplineStep
    <3>1. written \in Cells
      BY <2>5, <1>1, FlashAssumption DEF Fits, Cells, DataStored, TypeOK
    <3>2. flash' = [flash EXCEPT ![written] = flash[written] \cap d]
      BY <2>5 DEF DataStored
    <3> QED
      BY <3>1, <3>2 DEF FlashStep
  <2>6. CASE DataRequest
    BY <2>4, <2>5, <2>6 DEF DataRequest, DataUnexpected, DataNoPartition
  <2> QED
    BY <1>1, <2>3, <2>6 DEF Next, TxThreadStart, StartRequest, StartTooLarge, StartErase,
                            DelayOver, Tick, vars
<1> QED
  BY <1>1, TypeCorrect, PTL DEF Spec

------------------------------------------------------------------------------
(* Further consequences of the invariant *)

\* A download the board has accepted always has its timer running: EraseDone
\* starts both together and only a verified image or a restart ends ota_on.
AcceptedTimed == ota_on = 1 => ota_timer > 0

LEMMA StepAcceptedTimed == TypeOK /\ AcceptedTimed /\ [Next]_vars => AcceptedTimed'
<1> SUFFICES ASSUME TypeOK, AcceptedTimed, [Next]_vars PROVE AcceptedTimed'
  OBVIOUS
<1> USE ConstantsAssumption DEF AcceptedTimed, TypeOK, manage
<1>1. CASE UNCHANGED vars \/ TxThreadStart
  BY <1>1 DEF vars, TxThreadStart
<1>2. CASE StartRequest
  BY <1>2 DEF StartRequest, StartTooLarge, StartErase
<1>3. CASE Erase
  BY <1>3 DEF Erase, EraseSector, EraseFails, EraseDone
<1>4. CASE DataRequest
  <2>1. CASE UNCHANGED <<ota_on, ota_timer>>
    BY <2>1
  <2>2. CASE ota_on' = 0 \/ ota_timer' = OtaTicks
    BY <2>2
  <2> QED
    BY <1>4, <2>1, <2>2 DEF DataRequest, DataUnexpected, DataNoPartition, DataWriteFails,
                            DataStored, TimerOnRefusedBlock
<1>5. CASE Tick
  BY <1>5 DEF Tick, Reboot
<1>6. CASE DelayOver \/ PowerLoss
  BY <1>6 DEF DelayOver, PowerLoss, Reboot
<1> QED
  BY <1>1, <1>2, <1>3, <1>4, <1>5, <1>6 DEF Next

\* An accepted download is never left without the timer that ends it
\* (ota_handle.c:151-156, 178-187).
THEOREM AcceptedIsTimed == Spec => []AcceptedTimed
<1>1. Init => AcceptedTimed
  BY DEF Init, RamInit, AcceptedTimed
<1> QED
  BY <1>1, StepAcceptedTimed, TypeCorrect, PTL DEF Spec

\* What has been reported done fits into the partition.
DoneFits ==
    (pc = "delay" \/ \E i \in DOMAIN reply : reply[i] = EndReply(1)) =>
        file_total_size <= BlockBytes * NCells

\* Although such an image is accepted, no image larger than the partition is ever
\* reported done (ota_handle.c:132, 176-188).
THEOREM OversizedNeverDone == Spec => []DoneFits
<1>1. IInv => DoneFits
  BY FlashAssumption DEF IInv, TypeOK, SuccessIsVerified, DoneFits, BlockBytes
<1> QED
  BY Invariance, <1>1, PTL

------------------------------------------------------------------------------
(* Why a download with its timer running ends: a bound on the ticks that are   *)
(* left.  Each block that is still to be stored restarts the timer once, and   *)
(* so does the end of an erase; nothing else does.                             *)

Restarts == (NCells - written) + (IF pc = "erasing" THEN 1 ELSE 0)
TicksLeft == Restarts * OtaTicks + ota_timer

Ended == ota_timer = 0 /\ ota_start_flag = 0

Advances ==
    ota_timer > 0 /\ ~StartRequest =>
        \/ Ended'
        \/ /\ ota_timer' > 0
           /\ TicksLeft' <= TicksLeft
           /\ Tick => TicksLeft' < TicksLeft

\* One restart of the timer less is worth a full period.
LEMMA PeriodPerRestart ==
    ASSUME NEW r \in Nat, NEW s \in Nat, s + 1 <= r, NEW t \in Nat
    PROVE  s * t + t <= r * t /\ s * t \in Nat /\ r * t \in Nat
<1>1. PICK k \in Nat : r = s + 1 + k
  <2>1. r - (s + 1) \in Nat /\ r = s + 1 + (r - (s + 1))
    OBVIOUS
  <2> QED
    BY <2>1
<1>2. r * t = s * t + t + k * t /\ k * t \in Nat /\ s * t \in Nat
  BY <1>1
<1> QED
  BY <1>2

LEMMA RestartsNat ==
    TypeOK => Restarts \in 0 .. (NCells + 1) /\ OtaTicks \in Nat /\ ota_timer \in 0 .. OtaTicks
BY FlashAssumption, ConstantsAssumption DEF TypeOK, Restarts

LEMMA OnePeriodLess ==
    ASSUME NEW r \in Nat, NEW s \in Nat, s + 1 <= r, NEW t \in Nat, NEW a \in Nat,
           NEW b \in 0 .. t
    PROVE  s * t + b <= r * t + a
<1> DEFINE after == s * t
           before == r * t
<1>1. after + t <= before /\ after \in Nat /\ before \in Nat
  BY PeriodPerRestart
<1> HIDE DEF after, before
<1>2. after + b <= before + a
  BY <1>1
<1> QED
  BY <1>2 DEF after, before

\* What a step does that counts one restart less and leaves the timer running.
LEMMA OneRestartLess ==
    ASSUME TypeOK, written' \in 0 .. NCells, ota_timer' \in 1 .. OtaTicks,
           Restarts' + 1 <= Restarts
    PROVE  TicksLeft' <= TicksLeft /\ ~Tick
<1>1. Restarts \in Nat /\ OtaTicks \in Nat /\ ota_timer \in Nat
  BY RestartsNat, FlashAssumption
<1>2. Restarts' \in Nat /\ ota_timer' \in 0 .. OtaTicks
  <2>1. \A w \in 0 .. NCells : NCells - w \in Nat
    BY FlashAssumption
  <2>2. NCells - written' \in Nat
    BY <2>1
  <2>3. Restarts' \in {NCells - written', (NCells - written') + 1}
    BY <2>2 DEF Restarts
  <2>4. \A n \in Nat : n + 1 \in Nat
    OBVIOUS
  <2>5. Restarts' \in Nat
    BY <2>2, <2>3, <2>4
  <2> QED
    BY <2>5, ConstantsAssumption
<1>3. TicksLeft' <= TicksLeft
  BY <1>1, <1>2, OnePeriodLess DEF TicksLeft
<1>4. Tick => UNCHANGED <<written, pc>>
  BY DEF Tick, Reboot, manage
<1>5. UNCHANGED <<written, pc>> => Restarts' = Restarts
  BY DEF Restarts
<1> QED
  BY <1>1, <1>3, <1>4, <1>5

LEMMA StepAdvances == IInv /\ [Next]_vars => [Advances]_vars
<1> SUFFICES ASSUME IInv, Next, ota_timer > 0, ~StartRequest,
                    ~Ended'
             PROVE  /\ ota_timer' > 0
                    /\ TicksLeft' <= TicksLeft
                    /\ Tick => TicksLeft' < TicksLeft
  BY DEF Advances
<1>1. TypeOK /\ TypeOK'
  BY NextIInv DEF IInv
<1>2. CASE UNCHANGED <<written, pc, ota_timer>> /\ ~Tick
  <2>1. Restarts \in Nat /\ OtaTicks \in Nat /\ ota_timer \in Nat
    BY <1>1, FlashAssumption, ConstantsAssumption DEF TypeOK, Restarts
  <2>2. TicksLeft' = TicksLeft /\ TicksLeft \in Nat
    BY <1>2, <2>1 DEF TicksLeft, Restarts
  <2> QED
    BY <1>2, <2>2
<1>3. CASE Tick
  <2>1. ota_timer > 1 /\ ota_timer' = ota_timer - 1 /\ UNCHANGED <<written, pc>>
    BY <1>3 DEF Tick, Reboot, Ended, manage
  <2>2. Restarts \in Nat /\ OtaTicks \in Nat /\ ota_timer \in Nat /\ Restarts' = Restarts
    BY <1>1, <2>1, FlashAssumption, ConstantsAssumption DEF TypeOK, Restarts
  <2>3. Restarts * OtaTicks \in Nat
    BY <2>2
  <2> QED
    BY <2>1, <2>2, <2>3 DEF TicksLeft
<1>4. Tick => ota_timer' # ota_timer
  BY <1>1, <1>3 DEF Tick, Reboot, TypeOK
<1>5. CASE DelayOver \/ PowerLoss
  BY <1>5 DEF DelayOver, PowerLoss, Reboot, Ended
<1>6. CASE TxThreadStart
  BY <1>2, <1>4, <1>6 DEF TxThreadStart, manage
<1>7. CASE Erase
  <2>1. CASE EraseSector
    BY <1>2, <1>4, <2>1 DEF EraseSector, manage
  <2>2. CASE EraseFails \/ EraseDone
    <3>1. ota_timer' > 0 /\ written' = written /\ pc = "erasing" /\ pc' = "ready"
      BY <2>2, ConstantsAssumption DEF EraseFails, EraseDone, manage
    <3>2. Restarts' + 1 <= Restarts
      BY <3>1, <1>1, FlashAssumption DEF TypeOK, Restarts
    <3> QED
      BY <3>1, <3>2, <1>1, OneRestartLess DEF TypeOK
  <2> QED
    BY <1>7, <2>1, <2>2 DEF Erase
<1>8. CASE DataRequest
  <2>1. PICK id \in FrameIds :
          \/ DataUnexpected(id) \/ DataNoPartition(id)
          \/ \E d \in Blocks : DataWriteFails(id, d) \/ DataStored(id, d)
    BY <1>8 DEF DataRequest
  <2>2. CASE DataUnexpected(id) \/ \E d \in Blocks : DataWriteFails(id, d)
    BY <1>2, <1>4, <2>2 DEF DataUnexpected, DataWriteFails, TimerOnRefusedBlock, manage
  <2>3. CASE DataNoPartition(id)
    <3>1. UNCHANGED <<written, ota_timer>> /\ pc = "ready" /\ pc' = "assert" /\ ~Tick
      BY <1>4, <2>3 DEF DataNoPartition, DataFrame, manage
    <3>2. Restarts \in Nat /\ OtaTicks \in Nat /\ ota_timer \in Nat
      BY <1>1, FlashAssumption, ConstantsAssumption DEF TypeOK, Restarts
    <3>3. TicksLeft' = TicksLeft /\ TicksLeft \in Nat
      BY <3>1, <3>2 DEF TicksLeft, Restarts
    <3> QED
      BY <3>1, <3>3
  <2>4. CASE \E d \in Blocks : DataStored(id, d)
    <3>1. /\ ota_timer' > 0 /\ written' = written + 1 /\ pc = "ready"
          /\ pc' \in {"ready", "delay"}
      BY <2>4, ConstantsAssumption DEF DataStored, DataFrame
    <3>2. Restarts' + 1 <= Restarts
      BY <3>1, <1>1, FlashAssumption DEF TypeOK, Restarts
    <3> QED
      BY <3>1, <3>2, <1>1, OneRestartLess DEF TypeOK
  <2> QED
    BY <2>1, <2>2, <2>3, <2>4
<1> QED
  BY <1>3, <1>5, <1>6, <1>7, <1>8 DEF Next

\* While its timer runs a download cannot gain time without end: every tick takes
\* one from the at most (NCells + 2) * OtaTicks ticks it has left, no frame,
\* failure or erase gives any back, and only a new request starts anew.  With a
\* SysTick that keeps running, this is what makes the board restart
\* (ota_handle.c:55-59, 156, 175-176).
THEOREM DownloadProgress == Spec => [][Advances]_vars
BY Invariance, StepAdvances, PTL DEF Spec

\* What a download with a running timer has left is never more than that, whatever
\* the sizes of the image and of the partition (ota_handle.c:151-156).
THEOREM TicksBounded ==
    Spec => [](ota_timer > 0 => TicksLeft \in 1 .. (NCells + 2) * OtaTicks)
<1>1. ASSUME TypeOK, ota_timer > 0 PROVE TicksLeft \in 1 .. (NCells + 2) * OtaTicks
  <2>1. /\ Restarts \in Nat /\ Restarts + 1 <= NCells + 2 /\ OtaTicks \in Nat
        /\ ota_timer \in 1 .. OtaTicks /\ NCells + 2 \in Nat
    BY <1>1, FlashAssumption, ConstantsAssumption DEF TypeOK, Restarts
  <2>2. Restarts * OtaTicks + OtaTicks <= (NCells + 2) * OtaTicks
    BY <2>1, PeriodPerRestart
  <2>3. Restarts * OtaTicks \in Nat /\ (NCells + 2) * OtaTicks \in Nat
    BY <2>1
  <2> QED
    BY <2>1, <2>2, <2>3 DEF TicksLeft
<1> QED
  BY <1>1, TypeCorrect, PTL

Idle == Ended /\ pc # "erasing"
PartitionLeft == flash' = flash

\* Once no download is open, and until the main board asks for one, data frames,
\* failing flash and power losses neither open one nor touch the partition
\* (can.c:175-186, ota_handle.c:124-160).
THEOREM IdleStays ==
    Spec => [](Idle /\ [][~StartRequest]_vars => []Idle /\ [][PartitionLeft]_vars)
<1>1. IInv /\ Idle /\ [Next]_vars /\ [~StartRequest]_vars => Idle' /\ [PartitionLeft]_vars
  <2> SUFFICES ASSUME IInv, Idle, [Next]_vars, [~StartRequest]_vars
               PROVE  Idle' /\ PartitionLeft
    OBVIOUS
  <2> USE DEF Idle, Ended, PartitionLeft
  <2>1. CASE UNCHANGED vars
    BY <2>1 DEF vars, can
  <2>2. CASE TxThreadStart
    BY <2>2 DEF TxThreadStart
  <2>3. CASE DelayOver \/ PowerLoss
    BY <2>3 DEF DelayOver, PowerLoss, Reboot
  <2>4. ~Erase /\ ~DataRequest /\ ~Tick
    BY DEF Erase, EraseSector, EraseFails, EraseDone, DataRequest, DataUnexpected,
           DataNoPartition, DataWriteFails, DataStored, DataFrame, Tick
  <2> QED
    BY <2>1, <2>2, <2>3, <2>4 DEF Next
<1> QED
  BY Invariance, <1>1, PTL DEF Spec

=============================================================================
