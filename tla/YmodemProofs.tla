---------------------------- MODULE YmodemProofs ----------------------------
(***************************************************************************)
(* The safety properties of Ymodem, for every value of its constants.      *)
(*                                                                         *)
(* That no block is skipped does not follow from the board alone, which    *)
(* stores what comes: one must know where the sender is.  SenderInStep     *)
(* says how its position, the packet and the answer under way relate to    *)
(* what is stored; ErasedSoFar carries the erase to RestIsErased, without  *)
(* which a block could be programmed over an older one.                    *)
(***************************************************************************)
EXTENDS Ymodem, TLAPS

\* A file is being received or has just been.
Active == pc \in {"data", "eot", "last", "success"}

\* The numbers of the blocks stored so far.
InOrder ==
    Active =>
        /\ Len(taken) = cur
        /\ 0 < Len(receiving) /\ Len(receiving) <= NCells
        /\ \A i \in 1 .. cur : taken[i] \in 1 .. Len(receiving)
        /\ cur > 0 => taken[1] = 1
        /\ \A i \in 1 .. (cur - 1) : taken[i + 1] \in {taken[i], taken[i] + 1}
        /\ pc # "data" => cur > 0 /\ taken[cur] = Len(receiving)

\* The cells below update_file_cur_size hold them.
Stored ==
    (Active /\ ~disturbed) => \A i \in 1 .. cur : flash[i - 1] = receiving[taken[i]]

ErasedSoFar ==
    pc = "erase" =>
        /\ ~disturbed => \A k \in Cells : SectorOf[k] < sector => flash[k] = Bits
        /\ sector <= NbOfSectors(Size)

AtHello ==
    pc = "hello" => pos = 0 /\ answer = "none" /\ line.kind \in {"nothing", "header", "end"}

\* The sender repeats the header or waits for its answer.
AtErase ==
    pc = "erase" =>
        /\ InBatch /\ pos = 0 /\ receiving = batch[file]
        /\ answer = "none" /\ line.kind \in {"nothing", "header"}
        /\ cur = 0 /\ taken = <<>>
        /\ 0 < Len(receiving) /\ Len(receiving) <= NCells

\* It is at the block stored last or at the next one, and while an answer is
\* under way no block is.
AtData ==
    pc = "data" =>
        /\ InBatch /\ receiving = batch[file]
        /\ answer \in {"none", "ACK"}
        /\ line.kind \in {"nothing", "header", "block", "EOT"}
        /\ line.kind = "block" => pos \in 1 .. Len(receiving)
        /\ line.kind = "EOT" => pos = Len(receiving) + 1
        /\ answer = "ACK" => line.kind \in {"nothing", "header"}
        /\ cur = 0 => pos \in {0, 1} /\ (answer = "ACK" => pos = 0)
        /\ cur > 0 => /\ taken[cur] \in {pos - 1, pos}
                      /\ answer = "ACK" => taken[cur] = pos

AtEot ==
    pc = "eot" =>
        /\ InBatch /\ receiving = batch[file] /\ pos = Len(receiving) + 1
        /\ answer \in {"none", "NAK"} /\ line.kind \in {"nothing", "EOT"}

\* It repeats EOT, or has heard the answer and is at the next header.
AtLast ==
    pc = "last" =>
        \/ /\ InBatch /\ receiving = batch[file] /\ pos = Len(receiving) + 1
           /\ answer \in {"none", "ACK"} /\ line.kind \in {"nothing", "EOT"}
           /\ answer = "ACK" => line.kind = "nothing"
        \/ pos = 0 /\ answer = "none" /\ line.kind \in {"nothing", "header", "end"}

SenderInStep == AtHello /\ AtErase /\ AtData /\ AtEot /\ AtLast

IInv == TypeOK /\ InOrder /\ Stored /\ RestIsErased /\ ErasedSoFar /\ SenderInStep
------------------------------------------------------------------------------
(* Lemmas *)

LEMMA BlankIsBlock == Bits \in Blocks
BY DEF Blocks

\* Every file the sender offers is a sequence of blocks.
LEMMA OfferedFile ==
    ASSUME TypeOK, InBatch
    PROVE  batch[file] \in Seq(Blocks) /\ Len(batch[file]) \in Nat
<1>1. batch \in Seq(Seq(Blocks))
  <2>1. CASE batch \in Batches
    BY <2>1, BatchAssumption DEF Files
  <2>2. CASE batch = <<>>
    BY <2>2
  <2> QED
    BY <2>1, <2>2 DEF TypeOK
<1>2. file \in 1 .. Len(batch)
  BY <1>1 DEF TypeOK, InBatch
<1> QED
  BY <1>1, <1>2

\* Steps of the flash keep it a function from cells to blocks.
LEMMA FlashKept ==
    ASSUME TypeOK
    PROVE  /\ \A s : ErasedSector(flash, s) \in [Cells -> Blocks]
           /\ \A s : HalfErased(flash, s) \subseteq [Cells -> Blocks]
           /\ \A k \in Cells, x \in SUBSET Bits :
                 [flash EXCEPT ![k] = x] \in [Cells -> Blocks]
BY DEF TypeOK, ErasedSector, HalfErased, Blocks

LEMMA InitIInv == Init => IInv
<1> SUFFICES ASSUME Init PROVE IInv
  OBVIOUS
<1>1. TypeOK
  <2>1. receiving \in Files /\ taken \in Seq(Nat)
    BY DEF Init, Files
  <2>2. line \in [kind : {"nothing", "header", "block", "EOT", "end"}, ok : BOOLEAN]
    BY DEF Init, Nothing
  <2>3. cur \in 0 .. NCells /\ sector \in 0 .. NSectors
    BY FlashAssumption DEF Init
  <2>4. batch \in Batches \cup {<<>>} /\ file \in Nat \ {0} /\ pos \in Nat
    BY DEF Init
  <2>5. flash \in [Cells -> Blocks] /\ stage \in Stages /\ disturbed \in BOOLEAN
    BY DEF Init, Stages
  <2> QED
    BY <2>1, <2>2, <2>3, <2>4, <2>5 DEF Init, TypeOK
<1> QED
  BY <1>1 DEF Init, IInv, InOrder, Stored, RestIsErased, ErasedSoFar, SenderInStep,
              Active, AtHello, AtErase, AtData, AtEot, AtLast

LEMMA StutterIInv == IInv /\ UNCHANGED vars => IInv'
BY DEF IInv, TypeOK, InOrder, Stored, RestIsErased, ErasedSoFar, SenderInStep, Active,
       AtHello, AtErase, AtData, AtEot, AtLast, Size, InBatch, vars, sender, history

------------------------------------------------------------------------------
(* The sender's steps leave what is stored alone. *)

LEMMA StorageKept ==
    ASSUME IInv, UNCHANGED <<flash, pc, cur, history>>
    PROVE  InOrder' /\ Stored' /\ RestIsErased'
BY DEF IInv, InOrder, Stored, RestIsErased, Active, history

LEMMA TransmitIInv == IInv /\ Transmit => IInv'
<1> SUFFICES ASSUME IInv, Transmit PROVE IInv'
  OBVIOUS
<1> USE DEF Transmit, sender, history
<1>1. InOrder' /\ Stored' /\ RestIsErased'
  BY StorageKept
<1>2. PICK ok \in BOOLEAN : line' = [kind |-> Kind, ok |-> ok]
  OBVIOUS
<1>3. Kind \in {"header", "block", "EOT", "end"}
  BY DEF Kind
<1>4. TypeOK'
  BY <1>2, <1>3 DEF IInv, TypeOK
<1>5. ErasedSoFar'
  BY DEF IInv, ErasedSoFar, Size, InBatch
<1>6. line'.kind = Kind /\ answer' = "none"
  BY <1>2
<1>7. AtHello' /\ AtErase'
  BY <1>6 DEF IInv, SenderInStep, AtHello, AtErase, Kind, InBatch
<1>8. AtData'
  <2> SUFFICES ASSUME pc = "data" PROVE AtData'
    BY DEF AtData
  <2>1. InBatch /\ receiving = batch[file] /\ Len(receiving) \in Nat /\ pos \in Nat
    BY OfferedFile DEF IInv, TypeOK, SenderInStep, AtData
  <2> QED
    BY <1>6, <2>1 DEF IInv, SenderInStep, InOrder, Active, AtData, Kind, InBatch
<1>9. AtEot' /\ AtLast'
  BY <1>6 DEF IInv, TypeOK, SenderInStep, AtEot, AtLast, Kind, InBatch
<1> QED
  BY <1>1, <1>4, <1>5, <1>7, <1>8, <1>9 DEF IInv, SenderInStep

LEMMA HearIInv == IInv /\ (Hear \/ AnswerLost) => IInv'
<1> SUFFICES ASSUME IInv, Hear \/ AnswerLost PROVE IInv'
  OBVIOUS
<1> USE DEF Hear, AnswerLost, sender, history
<1>1. InOrder' /\ Stored' /\ RestIsErased'
  BY StorageKept
<1>2. TypeOK'
  <2>1. Len(batch) \in Nat
    BY BatchAssumption DEF IInv, TypeOK
  <2> QED
    BY <2>1 DEF IInv, TypeOK
<1>3. ErasedSoFar' /\ AtHello' /\ AtErase'
  BY DEF IInv, SenderInStep, ErasedSoFar, AtErase, AtHello, Size, InBatch
<1>4. AtData'
  BY DEF IInv, TypeOK, InOrder, Active, SenderInStep, AtData, Kind, InBatch
<1>5. AtEot' /\ AtLast'
  BY DEF IInv, TypeOK, SenderInStep, AtEot, AtLast, Kind, InBatch
<1> QED
  BY <1>1, <1>2, <1>3, <1>4, <1>5 DEF IInv, SenderInStep
------------------------------------------------------------------------------
(* The command's steps out of a session or into one: the clauses about the    *)
(* states it leaves are void, and only the types and AtHello remain.          *)

\* Outside the states a session goes through.
LEMMA OutsideIInv ==
    ASSUME TypeOK', pc' \in {"shell", "failed"} PROVE IInv'
BY DEF IInv, InOrder, Stored, RestIsErased, ErasedSoFar, SenderInStep, Active,
       AtHello, AtErase, AtData, AtEot, AtLast

LEMMA StartIInv == IInv /\ Start => IInv'
<1> SUFFICES ASSUME IInv, Start PROVE IInv'
  OBVIOUS
<1>1. line'.kind = "nothing" /\ line' \in [kind : {"nothing", "header", "block", "EOT", "end"}, ok : BOOLEAN]
  BY DEF Start, Nothing
<1>2. TypeOK'
  BY <1>1 DEF IInv, Start, TypeOK, Stages, history
<1> QED
  BY <1>1, <1>2 DEF IInv, Start, InOrder, Stored, RestIsErased, ErasedSoFar, SenderInStep, Active,
       AtHello, AtErase, AtData, AtEot, AtLast

\* A step out of a session, refused, failed, timed out or cut off.
Over ==
    \/ BeginRefused \/ Unexpected \/ TimeOut \/ FailureTold \/ Restart
    \/ EraseFails \/ BlockRefused \/ Reset

LEMMA OverIInv == IInv /\ Over => IInv'
<1> SUFFICES ASSUME IInv, Over PROVE IInv'
  OBVIOUS
<1>1. Nothing \in [kind : {"nothing", "header", "block", "EOT", "end"}, ok : BOOLEAN]
  BY DEF Nothing
<1>2. flash' \in [Cells -> Blocks]
  <2>1. CASE BlockRefused
    <3>1. CASE flash' = flash
      BY <3>1 DEF IInv, TypeOK
    <3>2. CASE Fits(cur)
      <4>1. cur \in Cells
        BY <3>2, FlashAssumption DEF IInv, TypeOK, Fits, Cells
      <4>2. PICK x \in SUBSET Bits : flash' = [flash EXCEPT ![cur] = x]
        BY <2>1, <3>2 DEF BlockRefused, HalfProgrammed, Blocks
      <4> QED
        BY <4>1, <4>2, FlashKept DEF IInv
    <3> QED
      BY <2>1, <3>1, <3>2 DEF BlockRefused
  <2>2. CASE ~BlockRefused
    BY <2>2, FlashKept DEF IInv, TypeOK, Over, BeginRefused, Unexpected, TimeOut, FailureTold,
           Restart, EraseFails, Reset, Leave
  <2> QED
    BY <2>1, <2>2
<1>3. pc' \in {"shell", "failed"}
  BY DEF Over, BeginRefused, Unexpected, TimeOut, FailureTold, Restart, EraseFails,
         BlockRefused, Reset, Leave
<1>4. stage' \in Stages /\ answer' \in {"none", "ACK", "NAK", "CAN"}
  BY DEF IInv, TypeOK, Stages, Over, BeginRefused, Unexpected, TimeOut, FailureTold, Restart,
         EraseFails, BlockRefused, Data, Reset, Leave
<1>5. line' \in [kind : {"nothing", "header", "block", "EOT", "end"}, ok : BOOLEAN]
  BY <1>1 DEF IInv, TypeOK, Over, BeginRefused, Unexpected, TimeOut, FailureTold, Restart,
              EraseFails, BlockRefused, Data, Reset, Leave
<1>6. cur' \in 0 .. NCells
  BY FlashAssumption DEF IInv, TypeOK, Over, BeginRefused, FirstCell, Unexpected, TimeOut,
         FailureTold, Restart, EraseFails, BlockRefused, Reset, Leave
<1>7. receiving' \in Files /\ taken' \in Seq(Nat) /\ disturbed' \in BOOLEAN
  <2>1. <<>> \in Files /\ <<>> \in Seq(Nat)
    BY DEF Files
  <2> QED
    BY <2>1 DEF IInv, TypeOK, Over, BeginRefused, Unexpected, TimeOut, FailureTold, Restart,
                EraseFails, BlockRefused, Reset, Leave, history
<1>8. UNCHANGED <<sector, sender>>
  BY DEF Over, BeginRefused, Unexpected, TimeOut, FailureTold, Restart, EraseFails,
         BlockRefused, Reset, Leave
<1>9. TypeOK'
  BY <1>2, <1>3, <1>4, <1>5, <1>6, <1>7, <1>8 DEF IInv, TypeOK, sender
<1> QED
  BY <1>3, <1>9, OutsideIInv

------------------------------------------------------------------------------
(* ymodem_on_begin. *)

\* The sectors the erase passes are the partition's.
LEMMA SectorsInRange ==
    ASSUME NEW n \in 1 .. NCells
    PROVE  /\ NbOfSectors(n) \in 1 .. NSectors
           /\ \A k \in 0 .. (n - 1) : k \in Cells /\ SectorOf[k] < NbOfSectors(n)
<1>1. n - 1 \in Cells /\ 0 \in Cells
  BY FlashAssumption DEF Cells
<1>2. \A k \in 0 .. (n - 1) : k \in Cells /\ k <= n - 1
  BY FlashAssumption DEF Cells
<1>3. SectorOf[n - 1] \in 0 .. (NSectors - 1) /\ SectorOf[0] = 0
  BY <1>1, FlashAssumption
<1>4. \A k \in 0 .. (n - 1) : SectorOf[k] \in Int /\ SectorOf[k] <= SectorOf[n - 1]
  BY <1>1, <1>2, FlashAssumption
<1>5. NSectors \in Nat /\ NbOfSectors(n) = SectorOf[n - 1] + 1
  BY <1>3, FlashAssumption DEF NbOfSectors
<1> QED
  BY <1>2, <1>3, <1>4, <1>5

LEMMA BeginIInv == IInv /\ Begin => IInv'
<1> SUFFICES ASSUME IInv, Begin PROVE IInv'
  OBVIOUS
<1> USE DEF Begin, sender
<1>1. InBatch /\ Size = Len(batch[file]) /\ 0 < Size /\ Size <= NCells
  BY DEF Acceptable, Size
<1>2. batch[file] \in Files /\ Len(batch[file]) \in Nat
  BY <1>1, OfferedFile DEF IInv, Files
<1>3. line'.kind = "nothing" /\ line' \in [kind : {"nothing", "header", "block", "EOT", "end"}, ok : BOOLEAN]
  BY DEF Nothing
<1>4. pos = 0 /\ answer = "none"
  BY DEF IInv, SenderInStep, AtHello, AtLast, Header, Arrives
<1>5. sector' = 0 /\ cur' = 0 /\ 0 \in 0 .. NSectors /\ 0 \in 0 .. NCells
  BY FlashAssumption DEF FirstCell
<1>6. TypeOK'
  <2>1. taken' \in Seq(Nat)
    OBVIOUS
  <2> QED
    BY <1>2, <1>3, <1>5, <2>1 DEF IInv, TypeOK
<1>7. ErasedSoFar'
  <2>1. \A k \in Cells : ~(SectorOf[k] < 0)
    BY FlashAssumption
  <2>2. NbOfSectors(Size) \in 1 .. NSectors
    BY <1>1, <1>2, SectorsInRange, FlashAssumption
  <2>3. Size' = Size
    BY DEF Size, InBatch
  <2> QED
    BY <1>5, <2>1, <2>2, <2>3, FlashAssumption DEF ErasedSoFar
<1>8. AtErase'
  BY <1>1, <1>3, <1>4, <1>5 DEF AtErase, InBatch
<1> QED
  BY <1>6, <1>7, <1>8 DEF IInv, InOrder, Stored, RestIsErased, SenderInStep, Active,
       AtHello, AtData, AtEot, AtLast

LEMMA EraseSectorIInv == IInv /\ EraseSector => IInv'
<1> SUFFICES ASSUME IInv, EraseSector PROVE IInv'
  OBVIOUS
<1> USE DEF EraseSector, sender, history
<1>1. InBatch /\ Size = Len(receiving) /\ Len(receiving) \in 1 .. NCells
  BY OfferedFile DEF IInv, SenderInStep, AtErase, Size, TypeOK
<1>2. NbOfSectors(Size) \in 1 .. NSectors /\ sector \in Nat
  BY <1>1, SectorsInRange DEF IInv, TypeOK
<1>3. Size' = Size
  BY DEF Size, InBatch
<1>4. TypeOK'
  <2>1. flash' \in [Cells -> Blocks]
    BY FlashKept DEF IInv
  <2>2. sector' \in 0 .. NSectors
    BY <1>2, FlashAssumption
  <2> QED
    BY <2>1, <2>2 DEF IInv, TypeOK
<1>5. ErasedSoFar'
  <2>1. ~disturbed => \A k \in Cells : SectorOf[k] < sector + 1 => flash'[k] = Bits
    <3> SUFFICES ASSUME ~disturbed, NEW k \in Cells, SectorOf[k] < sector + 1
                 PROVE  flash'[k] = Bits
      OBVIOUS
    <3>1. SectorOf[k] \in Int
      BY FlashAssumption
    <3>2. SectorOf[k] = sector \/ SectorOf[k] < sector
      BY <1>2, <3>1
    <3> QED
      BY <3>2 DEF IInv, ErasedSoFar, ErasedSector
  <2>2. sector + 1 <= NbOfSectors(Size)
    BY <1>2
  <2> QED
    BY <1>3, <2>1, <2>2 DEF ErasedSoFar
<1>6. AtErase'
  BY DEF IInv, SenderInStep, AtErase, InBatch
<1> QED
  BY <1>4, <1>5, <1>6 DEF IInv, InOrder, Stored, RestIsErased, SenderInStep, Active,
       AtHello, AtData, AtEot, AtLast

LEMMA EraseDoneIInv == IInv /\ EraseDone => IInv'
<1> SUFFICES ASSUME IInv, EraseDone PROVE IInv'
  OBVIOUS
<1> USE DEF EraseDone, sender, history
<1>1. /\ InBatch /\ Size = Len(receiving) /\ Len(receiving) \in 1 .. NCells
      /\ cur = 0 /\ taken = <<>> /\ pos = 0 /\ receiving = batch[file]
      /\ line.kind \in {"nothing", "header"}
  BY OfferedFile DEF IInv, SenderInStep, AtErase, Size, TypeOK
<1>2. TypeOK'
  BY DEF IInv, TypeOK, Stages
<1>3. RestIsErased'
  <2> SUFFICES ASSUME ~disturbed, NEW k \in 0 .. (Len(receiving) - 1) PROVE flash[k] = Bits
    BY <1>1 DEF RestIsErased
  <2> QED
    BY <1>1, SectorsInRange DEF IInv, ErasedSoFar
<1>4. InOrder' /\ Stored'
  BY <1>1 DEF InOrder, Stored, Active
<1>5. AtData'
  BY <1>1 DEF AtData, InBatch
<1> QED
  BY <1>2, <1>3, <1>4, <1>5 DEF IInv, ErasedSoFar, SenderInStep, AtHello, AtErase, AtEot, AtLast

------------------------------------------------------------------------------
(* _rym_do_trans and _rym_do_fin. *)

LEMMA BlockStoredIInv == IInv /\ BlockStored => IInv'
<1> SUFFICES ASSUME IInv, BlockStored PROVE IInv'
  OBVIOUS
<1> USE DEF BlockStored, Data, sender
<1>1. /\ InBatch /\ receiving = batch[file] /\ pos \in 1 .. Len(receiving)
      /\ Len(receiving) \in Nat /\ receiving \in Seq(Blocks)
  BY OfferedFile DEF IInv, TypeOK, SenderInStep, AtData, Arrives
<1>2. cur \in Cells /\ cur \in Nat /\ cur + 1 <= NCells
  BY FlashAssumption DEF IInv, TypeOK, Fits, Cells
<1>3. Payload = receiving[pos] /\ Payload \in Blocks /\ Payload \in SUBSET Bits
  BY <1>1 DEF Payload, Blocks
<1>4. flash' = [flash EXCEPT ![cur] = Payload]
  BY DEF ReadBackOk
<1>5. line'.kind = "nothing" /\ line' \in [kind : {"nothing", "header", "block", "EOT", "end"}, ok : BOOLEAN]
  BY DEF Nothing
<1>6. /\ taken \in Seq(Nat) /\ Len(taken) = cur
      /\ taken' \in Seq(Nat) /\ Len(taken') = cur + 1
      /\ taken'[cur + 1] = pos
      /\ \A i \in 1 .. cur : taken'[i] = taken[i]
  BY <1>1, <1>2 DEF IInv, TypeOK, InOrder, Active
<1>7. TypeOK'
  <2>1. flash' \in [Cells -> Blocks]
    BY <1>2, <1>3, <1>4, FlashKept DEF IInv
  <2>2. cur' \in 0 .. NCells
    BY <1>2, FlashAssumption
  <2> QED
    BY <1>5, <1>6, <2>1, <2>2 DEF IInv, TypeOK, Stages
<1>8. InOrder'
  <2>1. \A i \in 1 .. cur + 1 : taken'[i] \in 1 .. Len(receiving)
    <3> SUFFICES ASSUME NEW i \in 1 .. cur + 1 PROVE taken'[i] \in 1 .. Len(receiving)
      OBVIOUS
    <3>1. i \in 1 .. cur \/ i = cur + 1
      BY <1>2
    <3> QED
      BY <1>1, <1>6, <3>1 DEF IInv, InOrder, Active
  <2>2. taken'[1] = 1
    <3>1. CASE cur = 0
      BY <1>1, <1>6, <3>1 DEF IInv, SenderInStep, AtData
    <3>2. CASE cur > 0
      <4>1. 1 \in 1 .. cur
        BY <1>2, <3>2
      <4> QED
        BY <1>6, <3>2, <4>1 DEF IInv, InOrder, Active
    <3> QED
      BY <1>2, <3>1, <3>2
  <2>3. \A i \in 1 .. cur : taken'[i + 1] \in {taken'[i], taken'[i] + 1}
    <3> SUFFICES ASSUME NEW i \in 1 .. cur
                 PROVE  taken'[i + 1] \in {taken'[i], taken'[i] + 1}
      OBVIOUS
    <3>1. CASE i = cur
      <4>1. taken[cur] \in {pos - 1, pos} /\ taken[cur] \in Nat
        BY <1>1, <1>2, <1>6, <3>1 DEF IInv, SenderInStep, AtData
      <4> QED
        BY <1>1, <1>6, <3>1, <4>1
    <3>2. CASE i \in 1 .. cur - 1
      <4>1. i + 1 \in 1 .. cur
        BY <1>2, <3>2
      <4> QED
        BY <1>6, <3>2, <4>1 DEF IInv, InOrder, Active
    <3>3. i = cur \/ i \in 1 .. cur - 1
      BY <1>2
    <3> QED
      BY <3>1, <3>2, <3>3
  <2>4. cur' = cur + 1 /\ cur' - 1 = cur /\ pc' = "data" /\ pc = "data"
    BY <1>2
  <2>5. Len(taken') = cur' /\ 0 < Len(receiving') /\ Len(receiving') <= NCells
    BY <1>6, <2>4 DEF IInv, InOrder, Active
  <2>6. \A i \in 1 .. cur' : taken'[i] \in 1 .. Len(receiving')
    BY <2>1, <2>4
  <2>7. \A i \in 1 .. (cur' - 1) : taken'[i + 1] \in {taken'[i], taken'[i] + 1}
    BY <2>3, <2>4
  <2> QED
    BY <2>2, <2>4, <2>5, <2>6, <2>7 DEF InOrder
<1>9. Stored'
  <2> SUFFICES ASSUME ~disturbed, NEW i \in 1 .. cur + 1
               PROVE  flash'[i - 1] = receiving[taken'[i]]
    BY DEF Stored
  <2>1. CASE i = cur + 1
    <3>1. i - 1 = cur
      BY <1>2, <2>1
    <3> QED
      BY <1>2, <1>3, <1>4, <1>6, <2>1, <3>1 DEF IInv, TypeOK
  <2>2. CASE i \in 1 .. cur
    <3>1. i - 1 # cur
      BY <1>2, <2>2
    <3> QED
      BY <1>2, <1>4, <1>6, <2>2, <3>1 DEF IInv, TypeOK, Stored, Active
  <2>3. i = cur + 1 \/ i \in 1 .. cur
    BY <1>2
  <2> QED
    BY <2>1, <2>2, <2>3
<1>10. RestIsErased'
  <2> SUFFICES ASSUME ~disturbed, NEW k \in cur + 1 .. Len(receiving) - 1
               PROVE  flash'[k] = Bits
    BY DEF RestIsErased
  <2>1. k \in cur .. Len(receiving) - 1 /\ k # cur
    BY <1>1, <1>2
  <2> QED
    BY <1>2, <1>4, <2>1 DEF IInv, TypeOK, RestIsErased
<1>11. AtData'
  BY <1>1, <1>2, <1>5, <1>6 DEF AtData, InBatch
<1> QED
  BY <1>7, <1>8, <1>9, <1>10, <1>11
     DEF IInv, ErasedSoFar, SenderInStep, AtHello, AtErase, AtEot, AtLast

\* The steps that only answer: what is stored stays.
LEMMA AnswerIInv == IInv /\ (PassOver \/ FirstEot \/ SecondEot \/ Finish) => IInv'
<1> SUFFICES ASSUME IInv, PassOver \/ FirstEot \/ SecondEot \/ Finish PROVE IInv'
  OBVIOUS
<1> USE DEF sender, history
<1>1. /\ line'.kind = "nothing"
      /\ line' \in [kind : {"nothing", "header", "block", "EOT", "end"}, ok : BOOLEAN]
      /\ UNCHANGED <<flash, cur, sector, sender, history>>
  <2>1. line' = Nothing /\ UNCHANGED <<flash, cur, sector, sender, history>>
    BY DEF PassOver, FirstEot, SecondEot, Finish
  <2> QED
    BY <2>1 DEF Nothing
<1>2. TypeOK'
  BY <1>1 DEF IInv, TypeOK, Stages, PassOver, FirstEot, SecondEot, Finish
<1>3. CASE PassOver
  <2>1. UNCHANGED <<pc, stage, answer>> /\ pc \in {"data", "hello"}
    BY <1>3 DEF PassOver
  <2>2. InOrder' /\ Stored' /\ RestIsErased'
    BY <1>1, <2>1, StorageKept
  <2>3. AtHello' /\ AtData'
    BY <1>1, <2>1 DEF IInv, SenderInStep, AtHello, AtData, InBatch
  <2> QED
    BY <1>2, <2>1, <2>2, <2>3 DEF IInv, ErasedSoFar, SenderInStep, AtErase, AtEot, AtLast
<1>4. CASE FirstEot
  <2>1. InBatch /\ receiving = batch[file] /\ pos = Len(receiving) + 1
    BY <1>4 DEF FirstEot, Arrives, IInv, SenderInStep, AtData
  <2>2. InOrder /\ Len(receiving) \in Nat /\ cur \in Nat /\ pos \in Nat
    BY <2>1, OfferedFile DEF IInv, TypeOK
  <2>3. pc = "data" /\ AtData
    BY <1>4 DEF FirstEot, IInv, SenderInStep
  <2>4. cur > 0
    BY <2>1, <2>2, <2>3 DEF AtData, InOrder, Active
  <2>5. cur \in 1 .. cur
    BY <2>2, <2>4
  <2>6. taken[cur] \in 1 .. Len(receiving) /\ taken[cur] \in {pos - 1, pos}
    BY <2>2, <2>3, <2>4, <2>5 DEF InOrder, Active, AtData
  <2>7. taken[cur] = Len(receiving)
    BY <2>1, <2>2, <2>6
  <2>8. InOrder'
    BY <1>1, <1>4, <2>2, <2>3, <2>4, <2>7 DEF InOrder, Active, FirstEot
  <2>9. Stored' /\ AtEot'
    BY <1>1, <1>4, <2>1, <2>3 DEF FirstEot, IInv, Stored, Active, AtEot, InBatch
  <2> QED
    BY <1>2, <1>4, <2>8, <2>9 DEF FirstEot, IInv, RestIsErased, ErasedSoFar, SenderInStep,
       AtHello, AtErase, AtData, AtLast
<1>5. CASE SecondEot
  BY <1>1, <1>2, <1>5 DEF SecondEot, IInv, InOrder, Stored, RestIsErased, ErasedSoFar,
     SenderInStep, Active, AtHello, AtErase, AtData, AtEot, AtLast, InBatch
<1>6. CASE Finish
  BY <1>1, <1>2, <1>6 DEF Finish, IInv, InOrder, Stored, RestIsErased, ErasedSoFar,
     SenderInStep, Active, AtHello, AtErase, AtData, AtEot, AtLast
<1> QED
  BY <1>3, <1>4, <1>5, <1>6

\* The CAN download changes the flash, and from then on nothing is said of it.
LEMMA CanDownloadIInv == IInv /\ CanDownload => IInv'
<1> SUFFICES ASSUME IInv, CanDownload PROVE IInv'
  OBVIOUS
<1>1. TypeOK'
  BY DEF IInv, TypeOK, CanDownload, sender
<1> QED
  BY <1>1 DEF CanDownload, sender, IInv, InOrder, Stored, RestIsErased, ErasedSoFar,
     SenderInStep, Active, AtHello, AtErase, AtData, AtEot, AtLast, InBatch, Size

------------------------------------------------------------------------------
(* Theorems *)

\* IInv is an invariant: every step of the sender, of the command and of its
\* surroundings keeps it.
THEOREM Invariance == Spec => []IInv
<1>1. Init => IInv
  BY InitIInv
<1>2. IInv /\ [Next]_vars => IInv'
  <2>1. CASE UNCHANGED vars
    BY <2>1, StutterIInv
  <2>2. CASE Transmit \/ Hear \/ AnswerLost
    BY <2>2, TransmitIInv, HearIInv
  <2>3. CASE Start \/ CanDownload \/ Begin \/ EraseSector \/ EraseDone
    BY <2>3, StartIInv, CanDownloadIInv, BeginIInv, EraseSectorIInv, EraseDoneIInv
  <2>4. CASE Over
    BY <2>4, OverIInv
  <2>5. CASE BlockStored \/ PassOver \/ FirstEot \/ SecondEot \/ Finish
    BY <2>5, BlockStoredIInv, AnswerIInv
  <2> QED
    BY <2>1, <2>2, <2>3, <2>4, <2>5 DEF Next, Command, Receive, Erase, Over
<1> QED
  BY <1>1, <1>2, PTL DEF Spec

\* Every variable of the command, the line and the sender has its type.
THEOREM TypeCorrect == Spec => []TypeOK
<1>1. IInv => TypeOK
  BY DEF IInv
<1> QED
  BY <1>1, Invariance, PTL

\* However packets and answers are lost, damaged and repeated, _rym_do_trans and
\* ymodem_on_data store an undisturbed file in order and without a gap.
THEOREM NothingIsSkipped == Spec => []NothingSkipped
<1>1. IInv => NothingSkipped
  BY DEF IInv, NothingSkipped, InOrder, Stored, Active
<1> QED
  BY <1>1, Invariance, PTL

\* What ymodem_on_begin erased is enough for the file whose size it was told.
THEOREM RestStaysErased == Spec => []RestIsErased
<1>1. IInv => RestIsErased
  BY DEF IInv
<1> QED
  BY <1>1, Invariance, PTL

------------------------------------------------------------------------------
(* What the success message depends on.  The receiver stores every block that  *)
(* comes, whatever its number; what it stores is the file if every ACK is      *)
(* heard before the sender goes on.                                            *)

PatientStep == answer = "ACK" => ~AnswerLost /\ ~Transmit

\* Then each block is stored once, and the sender is one ahead.
Once ==
    /\ Active => \A i \in 1 .. cur : taken[i] = i
    /\ pc = "data" /\ answer = "none" => pos = cur + 1

\* A block is appended with its own number.
LEMMA BlockStoredOnce == IInv /\ Once /\ BlockStored => Once'
<1> SUFFICES ASSUME IInv, Once, BlockStored PROVE Once'
  OBVIOUS
<1>1. /\ pc = "data" /\ pc' = "data" /\ answer' = "ACK" /\ cur' = cur + 1
      /\ taken' = Append(taken, pos) /\ line.kind = "block"
  BY DEF BlockStored, Data, Arrives
<1>2. taken \in Seq(Nat) /\ Len(taken) = cur /\ pos \in Nat /\ cur \in Nat
  BY <1>1, FlashAssumption DEF IInv, TypeOK, InOrder, Active
<1>3. answer = "none"
  BY <1>1 DEF IInv, SenderInStep, AtData
<1>4. pos = cur + 1
  BY <1>1, <1>3 DEF Once
<1>5. \A i \in 1 .. cur + 1 : taken'[i] = i
  <2> SUFFICES ASSUME NEW i \in 1 .. cur + 1 PROVE taken'[i] = i
    OBVIOUS
  <2>1. CASE i = cur + 1
    BY <1>1, <1>2, <1>4, <2>1
  <2>2. CASE i \in 1 .. cur
    BY <1>1, <1>2, <2>2 DEF Once, Active
  <2>3. i = cur + 1 \/ i \in 1 .. cur
    BY <1>2
  <2> QED
    BY <2>1, <2>2, <2>3
<1> QED
  BY <1>1, <1>5 DEF Once

LEMMA StepOnce == IInv /\ Once /\ [Next]_vars /\ [PatientStep]_vars => Once'
<1> SUFFICES ASSUME IInv, Once, [Next]_vars, [PatientStep]_vars PROVE Once'
  OBVIOUS
<1> USE DEF sender, history
<1>1. CASE UNCHANGED vars
  BY <1>1 DEF vars, Once, Active
<1>2. CASE Transmit
  BY <1>2 DEF Transmit, PatientStep, vars, IInv, TypeOK, SenderInStep, AtData, Once, Active
<1>3. CASE Hear
  <2>1. UNCHANGED <<pc, cur, taken>> /\ answer # "none"
    BY <1>3 DEF Hear
  <2>2. ASSUME pc = "data" PROVE pos' = cur + 1
    <3>1. answer = "ACK"
      BY <2>1, <2>2 DEF IInv, SenderInStep, AtData
    <3>2. /\ InBatch /\ line.kind \in {"nothing", "header"} /\ receiving = batch[file]
          /\ cur = 0 => pos = 0
          /\ cur > 0 => taken[cur] = pos
      BY <2>2, <3>1 DEF IInv, SenderInStep, AtData
    <3>3. cur \in Nat /\ pos \in Nat
      BY FlashAssumption DEF IInv, TypeOK
    <3>4. pos = cur
      <4>1. CASE cur = 0
        BY <3>2, <4>1
      <4>2. CASE cur > 0
        <5>1. cur \in 1 .. cur
          BY <3>3, <4>2
        <5> QED
          BY <2>2, <3>2, <4>2, <5>1 DEF Once, Active
      <4> QED
        BY <3>3, <4>1, <4>2
    <3>5. Len(receiving) \in Nat /\ pos <= Len(receiving) /\ Len(receiving) > 0
      <4>1. Len(receiving) \in Nat /\ Len(receiving) > 0
        BY <2>2, <3>2, OfferedFile DEF IInv, TypeOK, InOrder, Active
      <4>2. cur > 0 => taken[cur] <= Len(receiving)
        <5>1. cur > 0 => cur \in 1 .. cur
          BY <3>3
        <5> QED
          BY <2>2, <4>1, <5>1 DEF IInv, InOrder, Active
      <4> QED
        BY <3>2, <3>3, <4>1, <4>2
    <3>6. Kind \in {"header", "block"}
      BY <3>2, <3>5 DEF Kind
    <3> QED
      BY <1>3, <3>1, <3>4, <3>6 DEF Hear
  <2> QED
    BY <2>1, <2>2 DEF Once, Active
<1>4. CASE AnswerLost
  <2>1. answer # "ACK" \/ UNCHANGED vars
    BY <1>4 DEF PatientStep
  <2>2. pc # "data" \/ UNCHANGED vars
    BY <1>4, <2>1 DEF AnswerLost, IInv, SenderInStep, AtData
  <2> QED
    BY <1>1, <1>4, <2>2 DEF AnswerLost, Once, Active
<1>5. CASE CanDownload
  BY <1>5 DEF CanDownload, Once, Active
<1>6. CASE pc' \in {"shell", "failed", "hello", "erase"}
  BY <1>6 DEF Once, Active
<1>7. CASE BlockStored
  BY <1>7, BlockStoredOnce
<1>8. CASE EraseDone
  BY <1>8, FlashAssumption DEF EraseDone, IInv, TypeOK, SenderInStep, AtErase, Once, Active
<1>9. CASE PassOver
  BY <1>9 DEF PassOver, Once, Active
<1>10. CASE FirstEot \/ SecondEot \/ Finish
  BY <1>10 DEF FirstEot, SecondEot, Finish, Once, Active
<1>11. Start \/ Begin \/ EraseSector \/ Over => pc' \in {"shell", "failed", "hello", "erase"}
  BY DEF Start, Begin, EraseSector, Over, BeginRefused, Unexpected, TimeOut, FailureTold,
         Restart, Leave, EraseFails, BlockRefused, Reset
<1> QED
  BY <1>1, <1>2, <1>3, <1>4, <1>5, <1>6, <1>7, <1>8, <1>9, <1>10, <1>11
     DEF Next, Command, Receive, Erase, Over

\* "Download firmware to flash success." is true of every transfer in which no ACK
\* is lost and the sender waits for it: the only thing that makes it untrue is a
\* block that is sent, and so stored, again (ymodem.c:347-395, ymodem_ota.c:141).
THEOREM PatientSuccess == Spec /\ [][PatientStep]_vars => []SuccessIsFile
<1>1. Init => Once
  BY DEF Init, Once, Active
<1>2. IInv /\ Once => SuccessIsFile
  <2> SUFFICES ASSUME IInv, Once, pc = "success", ~disturbed PROVE HoldsFile
    BY DEF SuccessIsFile
  <2>1. \A i \in 1 .. cur : taken[i] = i /\ flash[i - 1] = receiving[taken[i]]
    BY DEF IInv, Once, Stored, Active
  <2>2. cur > 0 /\ taken[cur] = Len(receiving) /\ cur \in Nat
    BY FlashAssumption DEF IInv, InOrder, Active, TypeOK
  <2>3. cur \in 1 .. cur
    BY <2>2
  <2> QED
    BY <2>1, <2>2, <2>3 DEF HoldsFile
<1> QED
  BY Invariance, <1>1, <1>2, StepOnce, PTL DEF Spec

------------------------------------------------------------------------------
(* Why a session ends: the steps the command still makes before the prompt if  *)
(* the sender is silent.                                                       *)

CommandRank ==
    CASE pc = "shell" -> 0
      [] pc \in {"success", "failed"} -> 1
      [] Waiting /\ line = Nothing -> 2
      [] pc \in {"data", "eot"} /\ line # Nothing -> 3
      [] pc = "erase" -> 4 + (NSectors - sector)
      [] pc \in {"hello", "last"} /\ line # Nothing -> 5 + NSectors

Winds ==
    pc # "shell" /\ ~Transmit =>
        CommandRank' <= CommandRank /\ (Command => CommandRank' < CommandRank)

LEMMA ReceiveWinds == IInv /\ Receive => CommandRank' < CommandRank
<1> SUFFICES ASSUME IInv, Receive PROVE CommandRank' < CommandRank
  OBVIOUS
<1> USE DEF CommandRank, Waiting
<1>1. NSectors \in Nat /\ NSectors > 0
  BY FlashAssumption
<1>2. CASE Begin
  <2>1. sector' = 0 /\ pc' = "erase"
    BY <1>2, FlashAssumption DEF Begin
  <2>2. pc \in {"hello", "last"} /\ line # Nothing
    BY <1>2 DEF Begin, Header, Arrives, Nothing
  <2> QED
    BY <1>1, <2>1, <2>2
<1>3. CASE BeginRefused
  <2>1. pc \in {"hello", "last"} /\ line # Nothing /\ pc' = "failed"
    BY <1>3 DEF BeginRefused, Header, Arrives, Nothing
  <2> QED
    BY <1>1, <2>1
<1>4. CASE PassOver
  <2>1. pc \in {"data", "hello"} /\ line # Nothing /\ line' = Nothing /\ pc' = pc
    BY <1>4 DEF PassOver, Nothing
  <2> QED
    BY <1>1, <2>1
<1>5. CASE BlockStored \/ BlockRefused
  <2>1. pc = "data" /\ line # Nothing /\ line' = Nothing /\ pc' \in {"data", "failed"}
    BY <1>5 DEF BlockStored, BlockRefused, Data, Arrives, Nothing
  <2> QED
    BY <2>1
<1>6. CASE FirstEot \/ SecondEot
  <2>1. pc \in {"data", "eot"} /\ line # Nothing /\ line' = Nothing /\ pc' \in {"eot", "last"}
    BY <1>6 DEF FirstEot, SecondEot, Arrives, Nothing
  <2> QED
    BY <2>1
<1>7. CASE Finish
  <2>1. pc = "last" /\ line # Nothing /\ pc' = "success"
    BY <1>7 DEF Finish, Arrives, Nothing
  <2> QED
    BY <1>1, <2>1
<1>8. CASE Unexpected \/ TimeOut
  <2>1. Waiting /\ pc' = "failed"
    BY <1>8 DEF Unexpected, TimeOut
  <2> QED
    BY <1>1, <2>1
<1> QED
  BY <1>2, <1>3, <1>4, <1>5, <1>6, <1>7, <1>8 DEF Receive

LEMMA EraseWinds == IInv /\ Erase => CommandRank' < CommandRank
<1> SUFFICES ASSUME IInv, Erase PROVE CommandRank' < CommandRank
  OBVIOUS
<1> USE DEF CommandRank, Waiting
<1>1. NSectors \in Nat /\ sector \in Nat /\ sector <= NSectors /\ pc = "erase"
  BY FlashAssumption DEF IInv, TypeOK, Erase, EraseSector, EraseFails, EraseDone
<1>2. CASE EraseSector
  BY <1>1, <1>2 DEF EraseSector
<1>3. CASE EraseFails
  BY <1>1, <1>3 DEF EraseFails
<1>4. CASE EraseDone
  BY <1>1, <1>4 DEF EraseDone
<1> QED
  BY <1>2, <1>3, <1>4 DEF Erase

\* Every step of the command brings it nearer to the prompt, and no answer, no
\* other writer of the flash and no reset takes it back; only a packet of the
\* sender does.  With tshell scheduled, this is what ends a session when the
\* sender falls silent (ymodem.c:540-579, ymodem_ota.c:83-161).
THEOREM SessionProgress == Spec => [][Winds]_vars
<1>1. IInv /\ [Next]_vars => [Winds]_vars
  <2> SUFFICES ASSUME IInv, Next, pc # "shell", ~Transmit
               PROVE  CommandRank' <= CommandRank /\ (Command => CommandRank' < CommandRank)
    BY DEF Winds
  <2>1. CommandRank \in Nat
    <3>1. NSectors - sector \in Nat /\ NSectors \in Nat
      BY FlashAssumption DEF IInv, TypeOK
    <3> QED
      BY <3>1 DEF CommandRank, Waiting, IInv, TypeOK
  <2>2. CASE FailureTold \/ Restart \/ Reset
    <3>1. pc' = "shell"
      BY <2>2 DEF FailureTold, Restart, Reset, Leave
    <3>2. CommandRank' = 0 /\ CommandRank # 0
      <4>1. NSectors - sector \in Nat /\ NSectors \in Nat
        BY FlashAssumption DEF IInv, TypeOK
      <4> QED
        BY <3>1, <4>1 DEF CommandRank, Waiting, IInv, TypeOK
    <3> QED
      BY <2>1, <3>2
  <2>3. CASE Receive \/ Erase
    <3>1. CommandRank' < CommandRank
      BY <2>3, ReceiveWinds, EraseWinds
    <3>2. CommandRank' \in Int
      <4>1. TypeOK'
        BY <2>3, BeginIInv, EraseSectorIInv, EraseDoneIInv, OverIInv, BlockStoredIInv, AnswerIInv
           DEF Receive, Erase, Over, IInv
      <4>2. NSectors \in Int /\ sector' \in Int
        BY <4>1, FlashAssumption DEF TypeOK
      <4> QED
        BY <4>1, <4>2 DEF CommandRank, Waiting, TypeOK
    <3> QED
      BY <2>1, <3>1, <3>2
  <2>4. CASE Hear \/ AnswerLost \/ CanDownload
    <3>1. UNCHANGED <<pc, line, sector>>
      BY <2>4 DEF Hear, AnswerLost, CanDownload
    <3>2. CommandRank' = CommandRank
      BY <3>1 DEF CommandRank, Waiting
    <3>3. ~Command
      <4>1. Command => pc' # pc \/ line' # line \/ sector' # sector
        BY DEF Command, Receive, Erase, Begin, BeginRefused, Header, Arrives, PassOver,
               BlockStored, BlockRefused, Data, FirstEot, SecondEot, Finish, Unexpected, TimeOut,
               Waiting, EraseSector, EraseFails, EraseDone, FailureTold, Restart, Leave, Nothing,
               IInv, TypeOK
      <4> QED
        BY <3>1, <4>1
    <3> QED
      BY <2>1, <3>2, <3>3
  <2>5. ~Start
    BY DEF Start
  <2> QED
    BY <2>2, <2>3, <2>4, <2>5 DEF Next, Command
<1> QED
  BY Invariance, <1>1, PTL DEF Spec

------------------------------------------------------------------------------
(* What the command does to the partition. *)

FlashDisciplineStep == FlashStep(flash, flash') \/ flash' = flash

\* With failing flash, resets and the CAN download, all that a step does to the
\* partition is to raise bits of one sector or to clear bits of one cell: the
\* command keeps to what CanDownload allows the other downloader
\* (fal_partition.c:447-527, drv_flash_f4.c:210-360).
THEOREM FlashDiscipline == Spec => [][FlashDisciplineStep]_vars
<1>1. ASSUME IInv, [Next]_vars PROVE FlashDisciplineStep
  <2> USE DEF FlashDisciplineStep
  <2>1. \A s : ErasedSector(flash, s) \in HalfErased(flash, s)
    BY <1>1 DEF IInv, TypeOK, ErasedSector, HalfErased, Blocks
  <2>2. pc = "erase" /\ sector < NbOfSectors(Size) => sector \in 0 .. (NSectors - 1)
    <3> SUFFICES ASSUME pc = "erase", sector < NbOfSectors(Size)
                 PROVE  sector \in 0 .. (NSectors - 1)
      OBVIOUS
    <3>1. Size = Len(receiving) /\ Len(receiving) \in 1 .. NCells
      BY <1>1, OfferedFile DEF IInv, SenderInStep, AtErase, Size, TypeOK
    <3>2. NbOfSectors(Size) \in 1 .. NSectors
      BY <3>1, SectorsInRange
    <3> QED
      BY <1>1, <3>2, FlashAssumption DEF IInv, TypeOK
  <2>3. CASE Erase \/ Reset
    BY <2>1, <2>2, <2>3 DEF Erase, EraseSector, EraseFails, EraseDone, Reset, FlashStep
  <2>4. CASE BlockStored
    <3>1. cur \in Cells
      BY <1>1, <2>4, FlashAssumption DEF BlockStored, IInv, TypeOK, Fits, Cells
    <3>2. flash' = [flash EXCEPT ![cur] = flash[cur] \cap Payload]
      BY <2>4 DEF BlockStored
    <3> QED
      BY <3>1, <3>2 DEF FlashStep
  <2>5. CASE BlockRefused
    <3>1. CASE Fits(cur)
      <4>1. cur \in Cells
        BY <1>1, <3>1, FlashAssumption DEF IInv, TypeOK, Fits, Cells
      <4>2. PICK x \in SUBSET flash[cur] : flash' = [flash EXCEPT ![cur] = x]
        BY <2>5, <3>1 DEF BlockRefused, HalfProgrammed
      <4> QED
        BY <4>1, <4>2 DEF FlashStep
    <3> QED
      BY <2>5, <3>1 DEF BlockRefused
  <2>6. CASE CanDownload
    BY <2>6 DEF CanDownload
  <2>7. ~Erase /\ ~Reset /\ ~BlockStored /\ ~BlockRefused /\ ~CanDownload => flash' = flash
    BY <1>1 DEF Next, vars, Start, Transmit, Hear, AnswerLost, Command, Receive, Begin,
                BeginRefused, PassOver, FirstEot, SecondEot, Finish, Unexpected, TimeOut,
                FailureTold, Restart
  <2> QED
    BY <2>3, <2>4, <2>5, <2>6, <2>7
<1> QED
  BY Invariance, <1>1, PTL DEF Spec

=============================================================================
