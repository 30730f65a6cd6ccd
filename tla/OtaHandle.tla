------------------------------ MODULE OtaHandle ------------------------------
(***************************************************************************)
(* The firmware download of the detection board: applications/ota_handle.c *)
(* together with the two branches of can_rx_thread (applications/can.c)    *)
(* that call it, the FAL/flash code that stores the image, and the two     *)
(* timers it arms or stops.                                                *)
(*                                                                         *)
(* The handlers run in can_rx_thread.  They are atomic with respect to     *)
(* each other, but two of them suspend or take seconds and are split where *)
(* timer interrupts, other threads and a power loss get in between:        *)
(*   pc = "ready"    the thread can take the next CAN frame                *)
(*   pc = "erasing"  in fal_partition_erase_all, one flash sector per step *)
(*   pc = "delay"    in rt_thread_delay(2000) after a verified download    *)
(*   pc = "assert"   in the while(1) of a failed FAL assert (FAL_DEBUG 1)  *)
(*                                                                         *)
(* A CAN data frame carries 8 bytes, and the image grows by such blocks    *)
(* only, so file_write_size and flash are counted in blocks here.           *)
(***************************************************************************)
EXTENDS DownloadFlash

CONSTANTS
    RomSize,         \* DEVICE_OTA_ROM_SIZE, in bytes
    Sizes,           \* image sizes (bytes) the main board may announce
    FrameIds,        \* the 16-bit frame numbers the main board may send
    Crcs,            \* CRC-16 values
    CrcInit,         \* 0xFFFF
    CrcZero,         \* 0, the value of an untouched uint16_t
    CrcFrame(_, _),  \* modbus_rtu_crc16_frame: running CRC extended by a block
    OtaTicks         \* period of ota_timer

BlockBytes == 8

ASSUME ConstantsAssumption ==
    /\ RomSize \in Nat
    /\ Sizes \subseteq Nat
    /\ FrameIds \subseteq Nat
    /\ CrcInit \in Crcs
    /\ CrcZero \in Crcs
    /\ OtaTicks \in Nat \ {0}

ASSUME CrcFrameAssumption ==
    \A c \in Crcs, d \in Blocks : CrcFrame(c, d) \in Crcs

VARIABLES
    flash,            \* contents of the "download" partition
    file_total_size,  \* g_ota_manage.file_total_size, in bytes
    file_crc16,       \* g_ota_manage.file_crc16, the announced CRC
    written,          \* g_ota_manage.file_write_size / 8
    file_crc_cur,     \* g_ota_manage.file_crc_cur
    dl_part,          \* g_ota_manage.dl_part: "NULL" or "download"
    ota_on,           \* g_ota_manage.ota_on
    ota_timer,        \* ticks left to ota_timer, 0 when it is not active
    ota_start_flag,   \* can.c's ota_start_flag
    inform_timer,     \* can_inform_timer is active
    tx_started,       \* can_tx_thread has passed its rt_timer_start
    pc,               \* where can_rx_thread is
    sector,           \* the sector erase_all is about to erase
    reply,            \* the replies the last handler put in can_tx_mq
    acked             \* history: the frames acknowledged since the last request

\* g_ota_manage, and with it the history of the download it stands for.
manage == <<file_total_size, file_crc16, written, file_crc_cur, dl_part, ota_on, acked>>
can == <<ota_start_flag, inform_timer, tx_started>>
vars == <<flash, manage, ota_timer, can, pc, sector, reply>>

StartReply(ok) == [kind |-> "start", ok |-> ok, id |-> 0]
BlockReply(ok, id) == [kind |-> "block", ok |-> ok, id |-> id]
EndReply(ok) == [kind |-> "end", ok |-> ok, id |-> 0]

Replies == [kind : {"start", "block", "end"}, ok : {0, 1}, id : Nat]
Frames == [id : Nat, block : Blocks]

(***************************************************************************)
(* IsCrc(f, n, c): c is the CRC of blocks 0 .. n-1 of f, the CRC being     *)
(* accumulated block by block from CrcInit; g lists the running values.    *)
(***************************************************************************)
IsCrc(f, n, c) ==
    \E g \in [0 .. n -> Crcs] :
        /\ g[0] = CrcInit
        /\ \A i \in 0 .. (n - 1) : g[i + 1] = CrcFrame(g[i], f[i])
        /\ g[n] = c

------------------------------------------------------------------------------
(* The values the handlers compute. *)

\* mainboard_ota_start_request restarts the running CRC.
CrcAtStartKept == file_crc_cur
CrcAtStart == CrcInit

\* mainboard_ota_data_request takes a frame only if it is the next one.
ExpectedOrOlder(id) == id <= written
Expected(id) == id = written

\* The image is complete once file_write_size reaches file_total_size.
CompleteEarly(n) == BlockBytes * (n + 1) >= file_total_size
Complete(n) == BlockBytes * n >= file_total_size

\* rt_timer_stop + rt_timer_start at the end of a successful write.
TimerOnNak == OtaTicks
TimerOnRefusedBlock == ota_timer

\* Announced size against the size of the download area.
TooLarge(size) == size >= RomSize

------------------------------------------------------------------------------
RamInit ==
    /\ file_total_size = 0 /\ file_crc16 = CrcZero
    /\ written = 0 /\ file_crc_cur = CrcZero /\ acked = <<>>
    /\ dl_part = "NULL" /\ ota_on = 0
    /\ ota_timer = 0
    /\ ota_start_flag = 0 /\ inform_timer = FALSE /\ tx_started = FALSE
    /\ pc = "ready" /\ sector = 0 /\ reply = <<>>

Init == flash \in [Cells -> Blocks] /\ RamInit

\* rt_hw_cpu_reset, or power off and on: RAM starts afresh, flash stays.
Reboot ==
    /\ file_total_size' = 0 /\ file_crc16' = CrcZero
    /\ written' = 0 /\ file_crc_cur' = CrcZero /\ acked' = <<>>
    /\ dl_part' = "NULL" /\ ota_on' = 0
    /\ ota_timer' = 0
    /\ ota_start_flag' = 0 /\ inform_timer' = FALSE /\ tx_started' = FALSE
    /\ pc' = "ready" /\ sector' = 0 /\ reply' = <<>>

\* can_tx_thread (priority 16) runs for the first time and starts the periodic
\* report; while can_rx_thread (priority 14) computes it does not get the CPU.
TxThreadStart ==
    /\ ~tx_started /\ pc \in {"ready", "delay"}
    /\ tx_started' = TRUE /\ inform_timer' = TRUE
    /\ UNCHANGED <<flash, manage, ota_timer, ota_start_flag, pc, sector, reply>>

\* What can_rx_thread does after mainboard_ota_start_request returns.
EnterOtaMode == inform_timer' = FALSE /\ ota_start_flag' = 1 /\ UNCHANGED tx_started

RecordRequest(size, crc) ==
    /\ file_total_size' = size /\ file_crc16' = crc
    /\ written' = 0 /\ file_crc_cur' = CrcAtStart /\ acked' = <<>>

\* CAN_ID_MAIN_OTA_ASK_INFO with an image the device says is too large.
StartTooLarge(size, crc) ==
    /\ pc = "ready"
    /\ RecordRequest(size, crc)
    /\ TooLarge(size)
    /\ reply' = <<StartReply(0)>>
    /\ EnterOtaMode
    /\ UNCHANGED <<flash, dl_part, ota_on, ota_timer, pc, sector>>

\* The same frame with an acceptable size: find the partition, start erasing.
\* The find cannot fail: the partition table is compiled in (fal_cfg.h) and
\* fal_init has run before can_rx_thread exists (init.c:29): lines 136-140 are dead.
StartErase(size, crc) ==
    /\ pc = "ready"
    /\ RecordRequest(size, crc)
    /\ ~TooLarge(size)
    /\ dl_part' = "download"
    /\ pc' = "erasing" /\ sector' = 0 /\ reply' = <<>>
    /\ UNCHANGED <<flash, ota_on, ota_timer, can>>

EraseSector ==
    /\ pc = "erasing" /\ sector < NbOfSectors(NCells)
    /\ flash' = ErasedSector(flash, sector)
    /\ sector' = sector + 1
    /\ UNCHANGED <<manage, ota_timer, can, pc, reply>>

\* HAL_FLASHEx_Erase reports an error: the request is refused.
EraseFails ==
    /\ pc = "erasing" /\ sector < NbOfSectors(NCells)
    /\ flash' \in HalfErased(flash, sector)
    /\ pc' = "ready" /\ reply' = <<StartReply(0)>>
    /\ EnterOtaMode
    /\ UNCHANGED <<manage, ota_timer, sector>>

\* All sectors are erased: the request is accepted.
EraseDone ==
    /\ pc = "erasing" /\ sector = NbOfSectors(NCells)
    /\ ota_on' = 1 /\ ota_timer' = OtaTicks
    /\ pc' = "ready" /\ reply' = <<StartReply(1)>>
    /\ EnterOtaMode
    /\ UNCHANGED <<flash, file_total_size, file_crc16, written, file_crc_cur, acked, dl_part, sector>>

\* A data frame reaches mainboard_ota_data_request.
DataFrame == pc = "ready" /\ ota_start_flag = 1

\* A frame that is not the next one is refused, whatever it carries.
DataUnexpected(id) ==
    /\ DataFrame /\ ~Expected(id)
    /\ reply' = <<BlockReply(0, id)>>
    /\ ota_timer' = TimerOnRefusedBlock
    /\ UNCHANGED <<flash, manage, can, pc, sector>>

\* fal_partition_write(NULL, ...): assert(part) loops for ever.
DataNoPartition(id) ==
    /\ DataFrame /\ Expected(id) /\ dl_part = "NULL"
    /\ pc' = "assert" /\ reply' = <<>>
    /\ UNCHANGED <<flash, manage, ota_timer, can, sector>>

\* fal_partition_write at file_write_size (whatever the frame's number is) returns
\* an error: out of bounds, or the flash failed.
DataWriteFails(id, d) ==
    /\ DataFrame /\ Expected(id) /\ dl_part = "download"
    /\ IF Fits(written)
       THEN \E x \in HalfProgrammed(flash[written], d) : flash' = [flash EXCEPT ![written] = x]
       ELSE flash' = flash
    /\ reply' = <<BlockReply(0, id)>>
    /\ ota_timer' = TimerOnRefusedBlock
    /\ UNCHANGED <<manage, can, pc, sector>>

\* The block is stored at file_write_size; the last one decides the download.
DataStored(id, d) ==
    /\ DataFrame /\ Expected(id) /\ dl_part = "download"
    /\ Fits(written) /\ ReadBackOk(flash[written], d)
    /\ flash' = [flash EXCEPT ![written] = @ \cap d]
    /\ written' = written + 1
    /\ acked' = Append(acked, [id |-> id, block |-> d])
    /\ file_crc_cur' = CrcFrame(file_crc_cur, d)
    /\ \/ /\ ~Complete(written + 1)
          /\ reply' = <<BlockReply(1, id)>>
          /\ ota_timer' = OtaTicks
          /\ UNCHANGED <<ota_on, pc>>
       \/ /\ Complete(written + 1) /\ file_crc_cur' # file_crc16
          /\ reply' = <<BlockReply(1, id), EndReply(0)>>
          /\ ota_timer' = OtaTicks
          /\ UNCHANGED <<ota_on, pc>>
       \/ /\ Complete(written + 1) /\ file_crc_cur' = file_crc16
          /\ reply' = <<BlockReply(1, id), EndReply(1)>>
          /\ ota_on' = 0 /\ pc' = "delay"
          /\ UNCHANGED ota_timer
    /\ UNCHANGED <<file_total_size, file_crc16, dl_part, can, sector>>

\* rt_thread_delay(2000) is over: rt_hw_cpu_reset starts the new firmware.
DelayOver == pc = "delay" /\ Reboot /\ UNCHANGED flash

\* SysTick moves ota_timer on; when it expires ota_timer_timeout resets.  While a
\* sector is being erased the CPU stalls on the flash bus, so this reset falls
\* between two sectors and leaves flash as it is.
Tick ==
    \/ /\ ota_timer > 1
       /\ ota_timer' = ota_timer - 1
       /\ UNCHANGED <<flash, manage, can, pc, sector, reply>>
    \/ ota_timer = 1 /\ Reboot /\ UNCHANGED flash

\* Power fails; a sector that is being erased is left half erased.  (In the middle
\* of a block write it is DataWriteFails followed by this.)
PowerLoss ==
    /\ Reboot
    /\ IF pc = "erasing" /\ sector < NbOfSectors(NCells)
       THEN flash' \in HalfErased(flash, sector)
       ELSE flash' = flash

StartRequest == \E size \in Sizes, crc \in Crcs : StartTooLarge(size, crc) \/ StartErase(size, crc)

DataRequest ==
    \E id \in FrameIds :
        \/ DataUnexpected(id)
        \/ DataNoPartition(id)
        \/ \E d \in Blocks : DataWriteFails(id, d) \/ DataStored(id, d)

Erase == EraseSector \/ EraseFails \/ EraseDone

Next ==
    \/ TxThreadStart \/ StartRequest \/ Erase \/ DataRequest
    \/ DelayOver \/ Tick \/ PowerLoss

Spec == Init /\ [][Next]_vars

(***************************************************************************)
(* Fairness: SysTick keeps running in every thread state, an erase and a   *)
(* delay end, the highest ready thread runs.  The main board and the power *)
(* supply owe nothing, so no frame and no power loss is fair.              *)
(***************************************************************************)
FairSpec ==
    Spec /\ WF_vars(Tick) /\ WF_vars(Erase) /\ WF_vars(DelayOver) /\ WF_vars(TxThreadStart)

------------------------------------------------------------------------------
(* Properties *)

TypeOK ==
    /\ flash \in [Cells -> Blocks]
    /\ file_total_size \in Nat /\ file_crc16 \in Crcs
    /\ written \in 0 .. NCells /\ file_crc_cur \in Crcs
    /\ dl_part \in {"NULL", "download"} /\ ota_on \in {0, 1}
    /\ ota_timer \in 0 .. OtaTicks
    /\ ota_start_flag \in {0, 1}
    /\ inform_timer \in BOOLEAN /\ tx_started \in BOOLEAN
    /\ pc \in {"ready", "erasing", "delay", "assert"}
    /\ sector \in 0 .. NSectors
    /\ reply \in Seq(Replies)
    /\ acked \in Seq(Frames)

\* The running CRC (line 173) is at all times the CRC of what the partition
\* really holds below file_write_size: whatever order frames, failed writes,
\* refused requests, resets and power losses come in.
ImageMatchesCrc ==
    (ota_start_flag = 1 \/ pc = "erasing") => IsCrc(flash, written, file_crc_cur)

\* When the board says "OTA done" and waits to restart into the new firmware
\* (lines 178-187), the partition holds at least the announced number of bytes
\* and their CRC is the announced one.
SuccessIsVerified ==
    (pc = "delay" \/ \E i \in DOMAIN reply : reply[i] = EndReply(1)) =>
        /\ pc = "delay"
        /\ BlockBytes * written >= file_total_size
        /\ IsCrc(flash, written, file_crc16)

\* When the board answers "you may upgrade" (line 157) every block of the
\* partition is erased: no sector was left out, none was half erased.
AcceptedIsErased ==
    reply = <<StartReply(1)>> => \A k \in Cells : flash[k] = Bits

\* The image is what was acknowledged: of the frames answered with "go on" since
\* the last request (line 174), each stands in the partition exactly once, at the
\* place its number names, as it came, and nothing else does.  A duplicated, late
\* or reordered frame neither touches an acknowledged block nor is stored (and
\* acknowledged) a second time behind the others.
AckedBlocksStored ==
    acked = [i \in 1 .. written |-> [id |-> i - 1, block |-> flash[i - 1]]]

\* If the main board stops asking for new downloads, a download with ota_timer
\* running ends in a restart of the board: neither a main board that repeats a
\* refused frame for ever, nor a full partition, nor failing flash keeps it.
FiniteRequests == <>[][~StartRequest]_vars
DownloadEnds ==
    FiniteRequests => ((ota_timer > 0) ~> (ota_timer = 0 /\ ota_start_flag = 0))

------------------------------------------------------------------------------
(* What comments of the code say and the code does not do. *)

\* ota_handle.c:57: after an OTA request, with no response for too long, the
\* board restarts by itself.
OtaModeEnds ==
    FiniteRequests => ((ota_start_flag = 1) ~> (ota_start_flag = 0))

\* ota_handle.h:27: DEVICE_OTA_ROM_SIZE is the size of the download partition,
\* so an image that is accepted fits.
AcceptedFits ==
    reply = <<StartReply(1)>> => file_total_size <= BlockBytes * NCells

==============================================================================
