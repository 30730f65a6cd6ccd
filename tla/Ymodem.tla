-------------------------------- MODULE Ymodem --------------------------------
(***************************************************************************)
(* The shell command ymodem_ota (packages/ota_downloader): it receives a   *)
(* firmware file over the console with the Ymodem receiver of RT-Thread    *)
(* (components/utilities/ymodem/ymodem.c) and stores it in the "download"  *)
(* partition.                                                              *)
(*                                                                         *)
(* The command runs in tshell (priority 20).  It is split where it waits   *)
(* for the sender and between two sectors of the erase, where can_rx_thread*)
(* (priority 14) and interrupts get in:                                    *)
(*   pc = "shell"    no session                                            *)
(*   pc = "hello"    _rym_do_handshake, waiting for the first packet       *)
(*   pc = "erase"    in ymodem_on_begin, one flash sector per step         *)
(*   pc = "data"     _rym_do_trans, waiting for a block or for EOT         *)
(*   pc = "eot"      _rym_do_fin, waiting for the second EOT               *)
(*   pc = "last"     _rym_do_fin, waiting for the packet that ends the batch *)
(*   pc = "success"  "success" is printed, 200 ms to the reset             *)
(*   pc = "failed"   the second before "Update firmware fail."             *)
(*                                                                         *)
(* Sizes are counted in blocks, the payload of one packet.  The sender is  *)
(* the terminal program of the user: it sends each packet until it hears   *)
(* the answer, discards older input when it sends, and may give up any     *)
(* time.  Packets get lost or damaged and so do answers: the console also  *)
(* carries what other threads print (lcr_task.c:188-191).                  *)
(***************************************************************************)
EXTENDS DownloadFlash

CONSTANT Batches   \* what the sender may offer: sequences of files

Files == Seq(Blocks)

ASSUME BatchAssumption == Batches \subseteq Seq(Files)

VARIABLES
    flash,      \* contents of the "download" partition
    pc,         \* where the command is
    stage,      \* ctx->stage
    cur,        \* update_file_cur_size
    sector,     \* the sector the erase is about to erase
    batch,      \* sender: the files it offers
    file,       \* sender: the file it is at, Len(batch) + 1 for the end of the batch
    pos,        \* sender: 0 at the header, i at block i, one more at EOT
    line,       \* the packet on its way to the board
    answer,     \* the answer on its way to the sender
    receiving,  \* history: the file of the last header taken
    taken,      \* history: the numbers of its blocks that were stored
    disturbed   \* history: somebody else wrote the partition since the header

sender == <<batch, file, pos>>
history == <<receiving, taken, disturbed>>
vars == <<flash, pc, stage, cur, sector, sender, line, answer, history>>

Nothing == [kind |-> "nothing", ok |-> TRUE]

Stages == {"NONE", "ESTABLISHING", "ESTABLISHED", "TRANSMITTING", "FINISHING", "FINISHED"}

------------------------------------------------------------------------------
(* The sender and the line *)

InBatch == file <= Len(batch)

\* The packet the sender is at; the header of no file ends the batch.
Kind ==
    IF pos = 0 THEN (IF InBatch THEN "header" ELSE "end")
    ELSE (IF pos <= Len(batch[file]) THEN "block" ELSE "EOT")

\* It sends, again if it has heard no answer; damage is seen by the checks on
\* length, sequence number and CRC.
Transmit ==
    /\ pc # "shell" /\ line = Nothing /\ file <= Len(batch) + 1
    /\ \E ok \in BOOLEAN : line' = [kind |-> Kind, ok |-> ok]
    /\ answer' = "none"
    /\ UNCHANGED <<flash, pc, stage, cur, sector, sender, history>>

\* It hears an answer.  After NAK it sends the same again, after CAN no more.
Hear ==
    /\ answer # "none" /\ answer' = "none"
    /\ \/ /\ answer = "ACK" /\ Kind \in {"header", "block"}
          /\ pos' = pos + 1 /\ UNCHANGED <<batch, file>>
       \/ /\ answer = "ACK" /\ Kind \in {"EOT", "end"}
          /\ file' = file + 1 /\ pos' = 0 /\ UNCHANGED batch
       \/ answer = "NAK" /\ UNCHANGED sender
       \/ answer = "CAN" /\ file' = Len(batch) + 2 /\ pos' = 0 /\ UNCHANGED batch
    /\ UNCHANGED <<flash, pc, stage, cur, sector, line, history>>

AnswerLost ==
    /\ answer # "none" /\ answer' = "none"
    /\ UNCHANGED <<flash, pc, stage, cur, sector, sender, line, history>>

------------------------------------------------------------------------------
(* The command *)

Init ==
    /\ flash \in [Cells -> Blocks]
    /\ pc = "shell" /\ stage = "NONE" /\ cur = 0 /\ sector = 0
    /\ batch = <<>> /\ file = 1 /\ pos = 0 /\ line = Nothing /\ answer = "none"
    /\ receiving = <<>> /\ taken = <<>> /\ disturbed = FALSE

\* The user enters the command and tells the terminal what to send.
Start ==
    /\ pc = "shell"
    /\ pc' = "hello" /\ stage' = "ESTABLISHING"
    /\ batch' \in Batches /\ file' = 1 /\ pos' = 0
    /\ line' = Nothing /\ answer' = "none"
    /\ UNCHANGED <<flash, cur, sector, history>>

Arrives(kind) == line.kind = kind /\ line.ok

\* The size in the header; an empty file name has none.
Size == IF InBatch THEN Len(batch[file]) ELSE 0

\* ymodem_on_begin compares the size with dl_part->len, and a size of 0 makes
\* stm32_flash_erase fail.
Acceptable(size) == 0 < size /\ size <= NCells

FirstCellKept == cur
FirstCell == 0

\* A header: in the handshake, or of the next file of a batch.
Header ==
    \/ pc = "hello" /\ (Arrives("header") \/ Arrives("end"))
    \/ pc = "last" /\ Arrives("header")

\* ymodem_on_begin starts to erase what the file needs.
Begin ==
    /\ Header /\ Acceptable(Size)
    /\ cur' = FirstCell /\ sector' = SectorOf[0] /\ pc' = "erase"
    /\ line' = Nothing
    /\ receiving' = batch[file] /\ taken' = <<>> /\ disturbed' = FALSE
    /\ UNCHANGED <<flash, stage, sender, answer>>

\* ymodem_on_begin refuses: no answer, the session is over.
BeginRefused ==
    /\ Header /\ ~Acceptable(Size)
    /\ cur' = FirstCell /\ pc' = "failed"
    /\ line' = Nothing
    /\ receiving' = <<>> /\ taken' = <<>>
    /\ UNCHANGED <<flash, stage, sector, sender, answer, disturbed>>

\* An erase the CAN download has disturbed (it locks the flash when it is done)
\* may have no effect.
EraseSector ==
    /\ pc = "erase" /\ sector < NbOfSectors(Size)
    /\ IF disturbed
       THEN flash' \in HalfErased(flash, sector)
       ELSE flash' = ErasedSector(flash, sector)
    /\ sector' = sector + 1
    /\ UNCHANGED <<pc, stage, cur, sender, line, answer, history>>

EraseFails ==
    /\ pc = "erase" /\ sector < NbOfSectors(Size)
    /\ flash' \in HalfErased(flash, sector)
    /\ pc' = "failed"
    /\ UNCHANGED <<stage, cur, sector, sender, line, answer, history>>

\* _rym_do_trans answers ACK and C.
EraseDone ==
    /\ pc = "erase" /\ sector = NbOfSectors(Size)
    /\ answer' = "ACK" /\ stage' = "ESTABLISHED" /\ pc' = "data"
    /\ UNCHANGED <<flash, cur, sector, sender, line, history>>

\* A header the sender has repeated is passed over without an answer, and so is
\* what has lost its first byte before the session.
PassOver ==
    /\ \/ pc = "data" /\ stage = "ESTABLISHED" /\ line.kind = "header"
       \/ pc = "hello" /\ line # Nothing /\ ~line.ok
    /\ line' = Nothing
    /\ UNCHANGED <<flash, pc, stage, cur, sector, sender, answer, history>>

Data == pc = "data" /\ Arrives("block") /\ stage' = "TRANSMITTING" /\ line' = Nothing

Payload == batch[file][pos]

\* ymodem_on_data stores the block after the one before, whatever its number.
BlockStored ==
    /\ Data /\ Fits(cur) /\ ReadBackOk(flash[cur], Payload)
    /\ flash' = [flash EXCEPT ![cur] = @ \cap Payload]
    /\ cur' = cur + 1 /\ answer' = "ACK"
    /\ taken' = Append(taken, pos)
    /\ UNCHANGED <<pc, sector, sender, receiving, disturbed>>

\* The partition is full, or the flash has failed: CAN, seven times.
BlockRefused ==
    /\ Data
    /\ IF Fits(cur)
       THEN \E x \in HalfProgrammed(flash[cur], Payload) : flash' = [flash EXCEPT ![cur] = x]
       ELSE flash' = flash
    /\ answer' = "CAN" /\ pc' = "failed"
    /\ UNCHANGED <<cur, sector, sender, history>>

\* The first EOT is answered NAK.
FirstEot ==
    /\ pc = "data" /\ Arrives("EOT")
    /\ stage' = "FINISHING" /\ answer' = "NAK" /\ pc' = "eot" /\ line' = Nothing
    /\ UNCHANGED <<flash, cur, sector, sender, history>>

SecondEot ==
    /\ pc = "eot" /\ Arrives("EOT")
    /\ answer' = "ACK" /\ pc' = "last" /\ line' = Nothing
    /\ UNCHANGED <<flash, stage, cur, sector, sender, history>>

\* The batch is over: "Download firmware to flash success."
Finish ==
    /\ pc = "last" /\ Arrives("end")
    /\ stage' = "FINISHED" /\ answer' = "ACK" /\ pc' = "success" /\ line' = Nothing
    /\ UNCHANGED <<flash, cur, sector, sender, history>>

\* What each wait takes; anything else, and a damaged packet, ends the session,
\* a block with a wrong CRC after the stage has changed.
Expected ==
    CASE pc = "hello" -> Arrives("header") \/ Arrives("end")
      [] pc = "data" -> \/ Arrives("block") \/ Arrives("EOT")
                        \/ stage = "ESTABLISHED" /\ Arrives("header")
      [] pc = "eot" -> Arrives("EOT")
      [] pc = "last" -> Arrives("header") \/ Arrives("end")
      [] OTHER -> TRUE

Waiting == pc \in {"hello", "data", "eot", "last"}

Unexpected ==
    /\ Waiting /\ line # Nothing /\ ~Expected
    /\ pc' = "failed" /\ line' = Nothing
    /\ stage' \in {stage} \cup (IF pc = "data" /\ line.kind = "block" THEN {"TRANSMITTING"} ELSE {})
    /\ UNCHANGED <<flash, cur, sector, sender, answer, history>>

\* Nothing comes for 3 seconds; the handshake bears that 1000 times.
TimedOutNever == FALSE
TimedOut == line = Nothing

TimeOut ==
    /\ Waiting /\ TimedOut
    /\ pc' = "failed"
    /\ UNCHANGED <<flash, stage, cur, sector, sender, line, answer, history>>

\* Back at the prompt; what is still under way is for nobody.
Leave ==
    /\ pc' = "shell"
    /\ line' = Nothing /\ answer' = "none"
    /\ UNCHANGED <<stage, cur, sector, sender, history>>

FailureTold == pc = "failed" /\ Leave /\ UNCHANGED flash

\* rt_hw_cpu_reset after a success.
Restart == pc = "success" /\ Leave /\ UNCHANGED flash

Receive ==
    \/ Begin \/ BeginRefused \/ PassOver \/ BlockStored \/ BlockRefused
    \/ FirstEot \/ SecondEot \/ Finish \/ Unexpected \/ TimeOut

Erase == EraseSector \/ EraseFails \/ EraseDone

Command == Receive \/ Erase \/ FailureTold \/ Restart

------------------------------------------------------------------------------
(* What happens to the command *)

\* can_rx_thread erases or programs the partition, at any time.
CanDownload ==
    /\ pc # "shell"
    /\ \E g \in [Cells -> Blocks] : FlashStep(flash, g) /\ flash' = g
    /\ disturbed' = TRUE
    /\ UNCHANGED <<pc, stage, cur, sector, sender, line, answer, receiving, taken>>

\* ota_timer resets the board, or the power fails, in the middle of an erase too.
\* (In the middle of a block it is BlockRefused followed by this.)
Reset ==
    /\ pc # "shell" /\ Leave
    /\ IF pc = "erase" /\ sector < NbOfSectors(Size)
       THEN flash' \in HalfErased(flash, sector)
       ELSE flash' = flash

Next == Start \/ Transmit \/ Hear \/ AnswerLost \/ Command \/ CanDownload \/ Reset

Spec == Init /\ [][Next]_vars

(***************************************************************************)
(* Fairness: tshell runs whenever the threads above it wait, and every     *)
(* wait of the command ends by itself.  The sender, the CAN download and   *)
(* the power supply owe nothing.                                           *)
(***************************************************************************)
FairSpec == Spec /\ WF_vars(Command)

------------------------------------------------------------------------------
(* Properties *)

TypeOK ==
    /\ flash \in [Cells -> Blocks]
    /\ pc \in {"shell", "hello", "erase", "data", "eot", "last", "success", "failed"}
    /\ stage \in Stages
    /\ cur \in 0 .. NCells /\ sector \in 0 .. NSectors
    /\ batch \in Batches \cup {<<>>} /\ file \in Nat \ {0} /\ pos \in Nat
    /\ line \in [kind : {"nothing", "header", "block", "EOT", "end"}, ok : BOOLEAN]
    /\ answer \in {"none", "ACK", "NAK", "CAN"}
    /\ receiving \in Files /\ taken \in Seq(Nat) /\ disturbed \in BOOLEAN

\* What an undisturbed transfer has stored is the file in its order and without
\* a gap, each block once or, if its answer was lost, several times in a row; at
\* the end its last block is there (ymodem.c:347-395, ymodem_ota.c:69-81).
NothingSkipped ==
    (pc \in {"data", "eot", "last", "success"} /\ ~disturbed) =>
        /\ Len(taken) = cur
        /\ \A i \in 1 .. cur : flash[i - 1] = receiving[taken[i]]
        /\ cur > 0 => taken[1] = 1
        /\ \A i \in 1 .. (cur - 1) : taken[i + 1] \in {taken[i], taken[i] + 1}
        /\ pc # "data" => cur > 0 /\ taken[cur] = Len(receiving)

\* While blocks come in, the cells the rest of the file needs are erased: the
\* sectors that ymodem_on_begin counts from the size in the header are enough
\* (ymodem_ota.c:60, drv_flash_f4.c:334-337).
RestIsErased ==
    (pc = "data" /\ ~disturbed) =>
        \A k \in cur .. (Len(receiving) - 1) : flash[k] = Bits

\* When the sender falls silent the command comes to an end, whatever was lost
\* before and wherever it waits (ymodem.h:60-67).
SenderSilent == <>[][~Transmit]_vars
SessionEnds == SenderSilent => ((pc # "shell") ~> (pc = "shell"))

------------------------------------------------------------------------------
(* What a message of the command says and the code does not ensure. *)

\* ymodem_ota.c:141: the download to flash was a success, so the partition holds
\* the file when this is printed, unless somebody else has written it.
HoldsFile ==
    /\ cur = Len(receiving)
    /\ \A i \in 1 .. cur : flash[i - 1] = receiving[i]
SuccessIsFile == (pc = "success" /\ ~disturbed) => HoldsFile

==============================================================================
