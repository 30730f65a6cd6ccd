# The detection board, as TLA+

The firmware of an STM32F407 detection board on RT-Thread 4.1. The board
measures a negative plate (a capacitance) and a bubble sensor, reports both to a
main board over CAN, shows a light the main board commands, is switched on and
off by it, and takes new firmware from it. The program's own code is
`src/applications` (about 5000 lines); the rest of the tree is RT-Thread, the
STM32 HAL, the FAL flash layer and CubeMX output. There are no tests and there
is no prose documentation: the only claims about behaviour are comments, most of
them in Chinese, which the findings below quote.

## 1. The system

### Threads, interrupts and what they share

| actor | priority (small = first) | does | writes |
|---|---|---|---|
| CAN RX interrupt | interrupt | stores a frame in the driver's box, releases `rx_sem` | box, `rx_sem` |
| CAN TX / error interrupt | interrupt | completes a write, `OK` or failed | `tx_tosnd->result` |
| DMA of ADC1, ADC2 | interrupt | fills `user_adc_buf`, `adc2_buffer` in a circle, releases `adc_sem`, `bd_sem` | the buffers |
| `can_inform_timer`, 25 ms | timer interrupt | queues a report of `g_send_info` | `can_tx_mq` |
| `ota_timer`, 50 000 ticks, one shot | timer interrupt | resets the processor | everything |
| `main` | 10 | creates all the rest | |
| `can_rx_thread` | 14 | reads a frame, runs the handler of its identifier | OTA state, light, switch, queue, timers |
| `lcr_task_thread` | 15 | measures the plate, filters, judges, reports a change | `g_send_info`, ADC1 |
| `can_tx_thread` | 16 | sends what is queued; a failed write empties the queue | `can_tx_mq` |
| `RGB_change_task` | 16 | shows the commanded light | `rgb_change_flag`, LEDs |
| `BOARD_SWITCH_thread_entry` | 16 | starts or stops both converters when the switch changes | ADC1, ADC2 |
| `tshell` with `ymodem_ota` | 20 | takes a firmware file over the console | `download` partition |
| `BD_thread_entry` | 25 | counts samples out of range, raises or takes back the alarm | `BD_error_sendflag`, queue |

No mutex is used anywhere in the application. What protects shared state is
priority (a frame handler is never interrupted by the light task) and nothing
else; the build is not optimised (`.cproject`), so each mention of a shared flag
is a load of its own. `ota_start_flag`, set by the first OTA request and cleared
only by a reset, stops the measuring threads at their next round.

### Components, their state, and what makes them correct

| component | state | operations | correct if |
|---|---|---|---|
| Firmware download (`ota_handle.c`, `can.c`, FAL, flash driver) | `g_ota_manage`, the `download` partition, `ota_timer`, `ota_start_flag` | request, sector erase, data block, completion, timeout, power loss | success is announced only for what flash really holds; acknowledged blocks stay; an accepted download ends |
| CAN reception (`can.c`, RT-Thread CAN driver) | box of 16 nodes, `rx_sem`, `rxmsg.hdr` | RX interrupt, take, read in two halves, handle | no node is lost, an overrun costs only the oldest frames, no wake-up is lost |
| CAN transmission (`can.c`, driver, IPC) | `can_tx_mq` of 50, the message in flight, `can_inform_timer` | five senders, two resets, receive, write, TX/error interrupt | the main board ends up knowing plate state and alarm unless that message was lost |
| Negative plate judgement (`lcr_task.c`, `median_filter.c`) | window, state, predecessor, error hold, published copy | judge, report, timer report | the state is stable against outliers and noise, and every change is reported |
| Light (`WS2812B.c`, `can.c`) | `rgb_change_flag`, command, pin, LEDs | two frames, the task | the last command is what is shown in the end |
| Board switch (`board_switch.c`, `can.c`, `lcr_task.c`, `adc.c`) | `BOARD_SWITCH_FLAG`, the remembered one, ADC1 with its HAL lock, ADC2 | frame, compare/remember/decide, HAL calls, measuring | the converters run exactly while the board is on |
| Bubble sensor (`adc.c`) | DMA buffer, `bd_sem`, count, alarm flag | conversion, count, decide, switching | no alarm without bubbles, the right one once the signal is steady |
| Ymodem download (`ymodem_ota.c`, `ymodem.c`) | stage of the session, `update_file_cur_size`, the `download` partition | handshake, erase, blocks, end of a file and of a batch, failure, timeout, reset | what it stores is the file, in order; it comes to an end when the sender falls silent |
| Impedance (`lcr_calc.c`, `math_calc.c`), DAC, checksums and searches, key check, start-up, shell variables, kernel | see section 7 | | not modelled |

How they interact: `can_rx_thread` calls the OTA handlers, which answer through
the transmit queue; it raises `rgb_change_flag` for the light and
`BOARD_SWITCH_FLAG` for the switch, and empties the queue when the RF is switched
on; the plate and the bubbles put their changes into the same queue; the report
timer reads what the plate publishes; the switch and the plate share ADC1; the CAN
download and the Ymodem download write the same partition, and nothing keeps one
off while the other is at work.

What is hard here: preemption between two loads of one flag; interrupts that hit
a list in the middle of an update; a queue whose refusals and resets nobody
notices; a bus on which a lost frame is not repeated (`AutoRetransmission` is
off); power loss and timer reset in the middle of an erase or a write; duplicated
and late data frames; answers lost on a console other threads print to.
`PROJECT.json` lists these hazards one by one, at their
lines, with the properties that watch them.

## 2. The modules

| module | what it is |
|---|---|
| `DownloadFlash` | the `download` partition: erase by sectors, programming, what FAL refuses; used by both downloads |
| `OtaHandle` | the download: handlers, erase sector by sector, flash that fails, timers, power loss |
| `OtaDownload` | what a download promises, in three actions: `Request`, `Extend`, `Restart` |
| `OtaRefinement` | the mapping under which `OtaHandle` implements `OtaDownload` |
| `OtaHandleProofs` | the inductive invariant of the download and the theorems |
| `CanRx` | RX interrupt against the reading thread |
| `CanMailbox` | what reception promises: a mailbox that keeps the latest frames; `CanRx` implements it |
| `CanTx` | senders, queue, sending thread, bus |
| `NegPlate` | filter, judgement, hysteresis, hold, report |
| `Rgb` | light command against light task |
| `BoardSwitch` | switch thread, measuring thread, ADC1 and ADC2 |
| `Bubble` | DMA, semaphore, counting thread |
| `Ymodem` | the shell command, its sender, the console line, and the CAN download that disturbs it |
| `CanRxProofs`, `CanTxProofs`, `NegPlateProofs`, `RgbProofs`, `BoardSwitchProofs`, `BubbleProofs`, `YmodemProofs` | the inductive invariant of the module of that name and its theorems |
| `MCOtaHandle`, `MCCanTx`, `MCNegPlate`, `MCRgb`, `MCYmodem` | the values of constants that a `.cfg` cannot write |

Every module names in its head what each value of its program counter stands for
in the code. Choices that are not obvious:

**`OtaHandle`.** A data frame carries eight bytes and the image grows by such
blocks only, so flash and `file_write_size` are counted in blocks (`written`). A
block is the set of its one-bits: an erase makes it `Bits`, programming can only
intersect. That is what makes programming over a half-programmed block
meaningful: `stm32_flash_write` reads back every word, so a retry succeeds only if
the old bits allow it. The CRC is a constant operator `CrcFrame`; nothing is
assumed of it but its range, so that every statement holds for the Modbus CRC of
`normal_calc.c` and any other. A handler is one action up to the point where
it suspends or takes seconds: erasing (one action per sector, each of which may
fail half-way), the `rt_thread_delay(2000)` after success, and the endless loop of
a failed FAL assertion. `Tick` lets `ota_timer` expire in all of these.
`PowerLoss` is possible at every moment and leaves the sector being erased with
any of its bits raised; power loss in the middle of a block is a failed write
followed by a power loss. `reply` is what the last handler queued. A block is written
where the code writes it, at `file_write_size` (`ota_handle.c:166`), whatever number the
frame carries; that the two agree is the work of the guard `Expected` and is not built
into the write. `acked` is a history of the frames answered ACK, with their contents.
That the partition is not found (`ota_handle.c:136`) does not happen: the table is
static and `fal_init` runs at start-up (`init.c:29`).

**`CanRx`.** Frames are numbered by arrival. The thread is cut exactly where the
driver re-enables interrupts in `_can_int_rx`. `hdr` is modelled because it
decides how many frames a wake-up reads: the copy overwrites `rxmsg.hdr = -1` by
the filter bank, the inner `while` of `can.c:54` then looks into an empty list,
and one frame per semaphore is read although the comment at `can.c:47` speaks of
reading the fifo. `early` counts the frames stored between opening the device
(`main`, priority 10) and registering the callback (`can_rx_thread`).

**`CanTx`.** Priorities are not used, every sender may come at any point: the
model has more interleavings than the board. `late` is the one exception that
matters: a measuring thread looks at `ota_start_flag` only at the start of a
round, so it may still report once after an OTA request. `lost` is a history
variable: it says how the latest alarm was lost, and the properties say that
nothing else goes wrong. The driver is configured with a single send box
(`RT_CANSND_BOX_NUM` is 1, `rt-thread/components/drivers/include/drivers/can.h:20`,
passed on by `CANDEFAULTCONFIG` and `rt_hw_can_init`, and defined nowhere else in the
tree), so the box in use is always box 0, and a write is one attempt with one
completion.

**`NegPlate`.** The capacitance is an arbitrary integer `mea.C * 1000`. Line 56
compares the unscaled value with the scaled limit; that is modelled as it is
(`RawAboveLimit`). The conversion to `uint32_t`, undefined in C outside the range,
saturates as VCVT does.

**`Rgb`.** A frame handler is one step, as `can_rx_thread` outranks the task; every
access of the task is a step of its own, and the three colour arguments are loaded
in any order.

**`BoardSwitch`.** Line 28, 36 and 37 load `BOARD_SWITCH_FLAG` separately. The HAL
call for ADC1 is two steps with the handle locked in between, because
`lcr_task_thread` outranks the switch thread: a stop by the measuring thread is then
refused (`HAL_BUSY`), a start unlocks the handle, as `MX_ADC1_Init` resets it.

**`Bubble`.** The DMA writes one sample per step, also while they are counted. Line
81 looks at `adc2_buffer[i]` for the lower limit and at `adc2_buffer[1]` for the
upper; this is modelled as it is.

**`Ymodem`.** Sizes are counted in blocks, the payload of one packet. The sender is
the terminal program of the user: it repeats a packet until it hears the answer, may
fall silent at any time, and its packets and the board's answers get lost or damaged.
The command stores a block behind the one before, whatever its number (`ymodem.c:317`
compares the number with its complement only), so `taken` records, as a history, the
numbers of the blocks stored. A header repeated after the session is established is
passed over without an answer, the first EOT is answered with NAK, an unexpected or
damaged packet ends the session. `CanDownload` stands for everything `can_rx_thread`
may do to the partition meanwhile: any `FlashStep`, which is proved of `OtaHandle`
(`FlashDiscipline`). It sets `disturbed`, and since nothing keeps the two downloads
apart the contents are promised only while it is not set. The loss of the flash lock
to the other download is in the erase: a disturbed one may have no effect. The
properties of `OtaHandle` make the converse assumption, that no `ymodem_ota` runs
during a CAN download.

## 3. The runs

| run | instance | states | shows |
|---|---|---|---|
| `ota` | 2 blocks of 2 bits, 2 sectors, 3 CRC values, 4 sizes, timer of 2 ticks | 69 263 | safety of the download, its end, and that it implements `OtaDownload` |
| `can_rx` | box of 3, `SemMax` 4, 8 frames | 2 666 | nodes, order, wake-ups, and that it implements `CanMailbox` |
| `can_tx` | queue of 2, two plate states | 111 816 | alarm and report under refusals, resets, losses |
| `neg` | window of 3, limits 2,4..12, hold 3, 9 measurements | 34 517 | stability and reporting of the plate |
| `rgb` | 2 colour components with 2 levels | 1 936 | the light settles on the last command |
| `board_switch` | `data[0]` in 0..2 | 2 304 | converters follow the switch |
| `bubble` | buffer of 3, `SemMax` 2 | 131 928 | the alarm and the reported count settle |
| `ymodem` | 3 blocks of 2 bits in 2 sectors, 4 batches of at most 2 files | 90 258 | what is stored is the file, the erase reaches far enough, the session ends |
| `ota_mode_ends`, `ota_accepted_fits`, `board_switch_follows`, `ymodem_success` | as above | | the findings of section 6 |

Why these bounds are enough for the cases that matter:

* `ota`: two blocks make a first, a last and an out-of-partition block; the sizes
  are one byte more than a block, exactly full, too large for the partition only
  (20 of 16 bytes, below `RomSize` 24, as 512 KiB against 384 KiB in the firmware),
  and too large for the check. Two bits per block make erased, partly and fully
  programmed blocks; the CRC depends on every block and on their order. Two sectors
  let an erase fail or be cut between and within sectors. Frame numbers are 0..2,
  one beyond the last block. Flash starts with any contents.
* `can_rx`: 8 frames overrun a box of 3 more than twice, and overtake the
  semaphore's maximum of 4, so saturation happens.
* `can_tx`: a queue of two holds two alarms at once, or is full behind a report.
* `neg`: a measurement in every interval of the limits, exactly at the last limit,
  above it, far above it (so that line 56 fires), and negative.
* `rgb`: mixed colours need two components; a third adds nothing but more orders.
* `board_switch`: 2 stands for every value that wraps to neither 0 nor 1.
* `bubble`: with a buffer of 3 the threshold of half the buffer is 1 and of a
  sixteenth is 0, so both alarm decisions have counts below, at and above them;
  `adc2_buffer[1]` is different from the first and the last.
* `ymodem`: a file that needs one sector of the two, one that fills the partition, one
  that is too large, a batch of two (the second file starts over the first) and an
  empty one; each block differs from its neighbours, so a skipped, doubled or exchanged
  one shows. The partition starts with any contents, and the disturbance may be any step
  of the other download.

`MCCanRx.cfg` switches deadlock checking off: after `MaxFrames` frames and all
handling, the model rightly stops. In all others deadlock is checked; the states
from which the board cannot move by itself (the failed assertion, OTA mode after a
refused request) still see power losses and frames.

### Properties

* **Download.** `ImageMatchesCrc`: the running CRC is that of what flash holds below
  `written`. `SuccessIsVerified`: "done" means the announced size and CRC are really
  in flash. `AcceptedIsErased`: an accepted request means every block is erased.
  `AckedBlocksStored`: the blocks below `written` are those acknowledged, each stored
  once, at its place and unchanged, so that a block repeated because its answer was lost
  is neither written over an acknowledged one nor appended to it. `DownloadEnds`: unless
  the main board keeps asking for new downloads, an accepted one ends in a restart.
  `ImplementsDownload`: refinement.
* **Reception.** `NodesConserved`, `BoxIsLatest`, `HandledInOrder` (each handler
  that returns has handled a frame that arrived after all handled before, so that none is
  handled twice, in a row or later), `SignalCovers`
  (a semaphore for every stored frame), `NoFrameStays` (liveness), `ImplementsMailbox`
  (refinement: of the latest `BoxSize - 1` frames none is lost, and none is read twice or
  out of order).
* **Transmission.** `AlarmKnown`: the last alarm on its way, or what the main board
  knows, is what the flag says, or the history variable says how it was lost;
  `AlarmArrives`, `ReportSettles`: the periodic report heals every loss.
* **Plate.** `HoldMeansError`, `ErrorHeld` (an error is kept for a whole hold from the
  last judgement that began it anew: one whose filtered capacitance is above the last
  limit, or, in the error state, one whose raw capacitance passes line 56, that is, is 1000
  times above it), `OutliersIgnored`, `NoFlapping`,
  `SteadyIsStable` (a capacitance that stays what it is changes the state once at most),
  `ChangeReported`, `LastReportCurrent`.
* **Light, switch, bubbles.** `LightIsLastCommand`, `LightSettles`;
  `ConvertersAsRemembered` (between two rounds ADC2 is as the thread remembers, and ADC1
  of a board remembered off, with no measurement in the way), `ConvertersFollow`; `NoFalseAlarm`, `AlarmSettles`,
  `CountSettles` (the count the report timer sends is the right one in the end, except
  from the middle of a count, `adc.c:76`).
* **Ymodem.** `NothingSkipped`: the blocks stored are those of the file in order, each
  once or, after a lost answer, several times in a row. `RestIsErased`: what the file
  still needs is erased. `SessionEnds`: when the sender falls silent the shell comes
  back.

For each of them `PROJECT.json` names a plausible slip in a mapped definition
(defined beside it, before it) under which the run fails.

## 4. Fairness

Nothing is asked of the main board, the sensors, the flash or the power supply.
What is assumed, all of it weak fairness:

* `OtaHandle`: SysTick keeps counting, in an interrupt, in every state of the
  threads, also in the endless loop of the assertion; an erase and a delay end;
  the highest ready thread runs. `DownloadEnds` speaks of an `ota_timer` that runs,
  under the condition that new requests stop coming: each accepted one rewinds it.
* `CanRx`: the thread runs and handlers return.
* `CanTx`: the sending thread runs, each attempt to send ends, the report timer fires.
  An attempt ends because the controller neither repeats a frame nor stays off the bus
  (`AutoRetransmission` off, `AutoBusOff` on, `drv_can.c:138-140`), its TX interrupt is
  pending from then on even if the error interrupt consumes the flags first, and what it
  then completes, box 0 (`drv_can.c:740`), is the box the thread waits on
  (`drivers/can/can.c:168`), because there is no other. Both interrupts have
  the same priority and run before any thread, so a second completion finds the box
  completed and returns (`completion.c:129`). With more than one send box the thread could
  wait for ever, and this assumption would have to go.
* `Rgb`, `BoardSwitch`, `Bubble`: the threads get the processor again and again:
  every thread of the board sleeps in each round. `Bubble` also assumes that a
  converter that is on converts (TIM8 triggers it).
* `Ymodem`: the command runs whenever the threads above it wait, and each of its waits
  ends by itself (three seconds, in the handshake 1000 times).  Nothing is asked of the
  sender; `SessionEnds` speaks of one that has fallen silent.

"Sleeps in each round" has one exception: the endless loop of a failed FAL assertion
(`DataNoPartition` of `OtaHandle`: a data frame after a refused first request), which is
in `can_rx_thread` at priority 14 and from then on leaves no time to any thread of a
larger number: `lcr_task_thread`, `can_tx_thread`, light, switch, shell, bubbles. The
fairness of `CanRx`, `CanTx`, `Rgb`, `BoardSwitch`, `Bubble` and `Ymodem` assumes
that this has not happened; their liveness properties say nothing of a board that hangs in
it. `OtaHandle` models it, and `Tick` is fair there because SysTick is an interrupt.

`FairSpec` is used by the runs with temporal properties; the theorems are about
`Spec`, and so hold for `FairSpec` as well.

## 5. What is proved

TLAPS proves, for every value of the constants, all safety properties the passing runs
check, both refinements, and the safety part of most liveness properties. All theorems are about `Spec`, without fairness.
Each proof module has one inductive invariant `IInv`, a lemma per action (or per group
of actions that touch the same part of it), `NextIInv` that puts them together, the
theorem `Invariance`, and the properties as its consequences.

### The download

`OtaHandleProofs` proves, for every number and layout of sectors, every partition
and block size, every set of sizes and frame numbers and every CRC:

| theorem | says |
|---|---|
| `Invariance` | `Spec => []IInv` |
| `TypeCorrect` | `Spec => []TypeOK`; in particular neither the write position nor the erase passes the partition's end |
| `RunningCrcIsTrue` | `Spec => []ImageMatchesCrc` |
| `SuccessSound` | `Spec => []SuccessIsVerified` |
| `AcceptedSound` | `Spec => []AcceptedIsErased` |
| `AckedSafe` | `Spec => []AckedBlocksStored` |
| `Refinement` | `Spec => ImplementsDownload` |
| `FlashDiscipline` | every step raises bits of one sector, clears bits of one block, or leaves the partition alone |

The assumptions are `ConstantsAssumption` (types of the constants, non-empty
partition, every block in a sector) and `CrcFrameAssumption` (a CRC is a CRC).

The inductive invariant is

    IInv == TypeOK /\ ImageMatchesCrc /\ SuccessIsVerified /\ AcceptedIsErased
            /\ NothingWhileErasing /\ PassedSectorsBlank

The four properties are not inductive alone. `NothingWhileErasing`
says that while sectors are erased nothing has been collected (`written = 0` and the
CRC is the initial one) so that erasing cannot break the running CRC, and that no
accepting reply is outstanding. `PassedSectorsBlank` says that the sectors the erase
has passed hold only erased blocks; at the last sector this is `AcceptedIsErased`.

`IsCrc(f, n, c)` says that a function of running values exists that starts at
`CrcInit`, follows `CrcFrame` and ends in `c`, so that no induction is needed: three
lemmas say that the empty image has the initial CRC (`IsCrcEmpty`), that it depends
only on the blocks below `n` (`IsCrcSamePrefix`), and that appending a block extends
it (`IsCrcExtend`). There is one lemma per action of `Next`, `NextIInv` puts them
together. `AckedSafe` is an invariant beside `IInv`: `FramesExtend` says what one more
block does to the sequence of frames in flash, `DataKeepsPrefix` that a data frame, stored
or failing half-way, leaves the blocks below `written` alone, and `StepAcked` puts the
steps together. It says what the refinement does not: `OtaDownload!Extend` takes any block,
so a doubled one would be an extension too.

`Refinement` maps the partition below `written` to the collected image. A stored block
extends it (`StoredExtends`), a request and a restart give it up (`StartRequests`,
`RebootRestarts`), and everything else, an erase, a refused frame, a half-programmed
block, is a stutter (`OthersStutter`). "Done exactly when valid" has a hard direction:
when the running CRC differs from the announced one, the image must NOT have the
announced one, so an image can have only one CRC (`CrcUnique`). Two sequences of
running values that differ somewhere differ at a least place (`LeastOf`, from the
well-foundedness of the strict subsets of a finite set, since the library's induction
theorems cannot be instantiated here), which is not the first and follows from the
place before.

### Reception: `CanRxProofs`

For every box of at least two nodes, every maximum of the semaphore that is not below
it and every number of frames (`BoxAssumption`): `TypeCorrect`, `NodesSafe` (`NodesConserved`), `LatestKept`
(`BoxIsLatest`), `NoWakeUpLost` (`SignalCovers`), `InOrder` (`HandledInOrder`).
`SignalCovers` is not inductive alone: when the thread takes the semaphore it must be about
to read from any filter bank (`HdrInStep`), and the frames stored before the callback
was registered have arrived (`EarlyArrived`). The frame in the thread's hands is older
than all stored ones (`ReadInOrder`), which is what order comes from. `Refinement`
(`ImplementsMailbox`): an interrupt keeps or gives up the oldest frame as `CanMailbox`
allows (`InterruptArrives`, from the conservation of nodes), a read takes the next one,
and all else is a stutter.

### Transmission: `CanTxProofs`

For every length of the queue: `TypeCorrect`, `AlarmSafe` (`AlarmKnown`). `AlarmKnown`
speaks of the sequence of everything in flight; the invariant `Known` says the same
of the message on the bus and the queue apart, so that each action is an
append, a take or a reset of the queue. Three lemmas about sequences (`AppendSays`,
`HeadTailSays`, `InFrontSays`) say what each does to the last alarm in them, and
`KnownImplies` leads back.

### Plate: `NegPlateProofs`

For all limits in increasing order, every length of the hold and of the window and
all measurements (`LimitsAssumption`): `HoldSafe`, `ChangesReported`, `ReportsCurrent`,
`ErrorStays` (`ErrorHeld`), `Hysteresis` (`NoFlapping`). The strengthening is
`HoldRunsDown`: in the error state, what is left of the hold and the judgements
since it was last to begin together make at least a whole hold. `JudgeOutcome` reduces a
judgement to three outcomes whatever the filter let through, `StepFollows` says that a
change that is no error is a verdict on the remembered state, and
`VerdictHysteresis` is the case analysis over the limits.

`TypeCorrect` and `MajorityNeeded` (`OutliersIgnored`) also need the median: that
an odd window has an element with at most half of the others on either side
(`MiddleExists`). Of the positions with at most half of the window above them take
one of the smallest value; if more than half of the window were below it, the largest
of those (`LargestIn`) would have at most half above it and be smaller still. The
smallest and the largest come from a minimal member of a family of subsets of the
window (`MinimalSubset`), again by well-foundedness. `MedianInWindow` then says of the
value the filter passes on what `MiddleExists` says of the element.

### Light, switch, bubbles

* `RgbProofs` (for any colours): `TypeCorrect`, `LightSafe`. The invariant says for each
  point of the task which parts of the command it has read with the flag down since
  (`ReadIsCurrent`, `LoadsFresh`), and that the task takes down a flag only while it is
  up (`ClearsRaised`). That the components are finitely many (`ColourAssumption`) is
  needed to count what is left to load; the lamp has three.
* `BoardSwitchProofs` (for any bytes the main board sends): `TypeCorrect`,
  `ConvertersSafe` (`ConvertersAsRemembered`). Past its decision the thread acts on the
  state it remembers, or a frame has overtaken it (`ActsAsRemembered`, `RemembersTarget`),
  and ADC2 is as decided last (`Adc2AsDecided`). For ADC1 the two threads that share
  its handle matter: while it is locked, the switch thread is inside the HAL and ADC1 already is
  as that thread wants it (`LockHeld`), so a stop that is refused then does no harm, and
  on a board remembered off ADC1 runs only for a measurement that began before
  (`OffOnlyMeasures`).
* `BubbleProofs` (for any buffer of 2 to 255 samples, any maximum of the semaphore):
  `TypeCorrect`, in which `zerocount` never wraps, and `NoAlarmWithoutBubble`. The
  invariant: without a bubble, what the DMA has written since the last start is good
  (`WrittenGood`), and a semaphore, pending or taken, says that the whole buffer is
  (`SemMeansWritten`), so nothing is counted.

### Ymodem: `YmodemProofs`

For every partition, every batch of files and any disturbance: `TypeCorrect`,
`NothingIsSkipped`, `RestStaysErased`. The board stores whatever block comes, so that
none is skipped depends on the sender: the invariant relates its position, the packet
and the answer under way to the block stored last, for each place the command waits
(`AtHello`, `AtErase`, `AtData`, `AtEot`, ...). `ErasedSoFar` carries the erase to
`RestIsErased`.

### Towards the liveness properties

Liveness itself is beyond the prover, but what makes it true is not. For every
liveness property the variant that runs down is a theorem, and for nearly all of them
that what is reached stays:

| property | variant: every step of the thread is progress, only the environment takes it back | what is reached stays |
|---|---|---|
| `DownloadEnds` | `DownloadProgress`: at most `(NCells + 2) * OtaTicks` ticks are left (`TicksBounded`), each tick takes one, only a new request gives any back; `AcceptedIsTimed`: the timer of an open download runs | `IdleStays` |
| `NoFrameStays` | `DrainProgress`: an interrupt costs the thread at most five steps | `SleepsEmpty` |
| `LightSettles` | `LightProgress`: less than two rounds of the task | `LightStays` |
| `ConvertersFollow` | `SwitchProgress`: the round under way and one more, and the measurement under way | `SwitchStays` |
| `AlarmSettles`, `CountSettles` | `RoundDecidesRight`: one round counted over a buffer that holds the signal only | `AlarmStays` |
| `SessionEnds` | `SessionProgress`: `CommandRank` falls with each step of the command | no theorem: the user starts the command |
| `AlarmArrives`, `ReportSettles` | `QueueProgress`: a message comes forward with each step of the thread, whatever is put behind it, until the thread holds it or the queue is thrown away | `AlarmStays`, `ReportStays` |

The variants depend on the invariants: that `LightProgress` needs no third round, or that
a step that finds the box empty after an overrun is progress too, follows from `IInv` only.
A variant bounds the number of the thread's steps; that these steps are taken is the
fairness of section 4, and the rule that joins the two is what is left to TLC.

### Results beyond the runs

* `OversizedNeverDone` and `PatientSuccess` delimit the findings of section 6. An image
  larger than the partition is accepted, but never reported done. And the success that
  `ymodem_ota` prints is true in every execution in which no ACK is lost and the sender
  waits for each (`PatientStep`): a repeated block is the only cause.
* `FlashDiscipline`, in `OtaHandleProofs` and in `YmodemProofs`, is the guarantee of each
  download towards the other: whatever happens, a step raises bits in one sector or clears
  bits of one block. It is what `CanDownload` relies on.
* `ErrorHysteresis` and `ErrorRunsOut` complete the plate: the error is left only below
  the lower of the last two limits, and below it every judgement shortens the hold or ends
  the error, unless the raw measurement is so large that line 56 refreshes the hold.
* `SteadyStays` (`SteadyIsStable`) rests on `Steady`: between two judgements the state is
  what a judgement of the same capacitance would leave it at.

### Only model-checked

The last step to all liveness (`DownloadEnds`, `NoFrameStays`, `AlarmArrives`,
`ReportSettles`, `LightSettles`, `ConvertersFollow`, `AlarmSettles`, `CountSettles`,
`SessionEnds`): fairness and `ENABLED` are beyond TLAPS. `CrcFrame` and the
floating-point input of the plate are parameters, so nothing is shown of what they
compute.

## 6. Where code and comments part

Each is a run that TLC finishes with a counterexample.

* `ota_mode_ends`: every OTA request, also a refused one, sets `ota_start_flag` and
  stops the report (`can.c:112`), but only an accepted one arms `ota_timer`; the
  comment at `ota_handle.c:57` promises a restart if nothing happens for long.
* `ota_accepted_fits`: the size is checked against 512 KiB (`ota_handle.c:131`), the
  partition has 384 KiB.
* `board_switch_follows`: `board_switch.c:36` and `:37` load the flag separately; three
  frames, one of them in between, leave the converters in the wrong state.
* `ymodem_success`: "Download firmware to flash success." (`ymodem_ota.c:141`) is printed
  although an ACK was lost, its block was repeated and stored a second time
  (`ymodem.c:317` does not compare the number with the expected one), and the size
  received was never compared with the one announced. A block repeated after the lost
  ACK is what the protocol prescribes.

Met on the way, and modelled as the code is: `lcr_task.c:56` compares the raw capacitance
with a limit for the scaled one, so that besides the filtered value only a raw one 1000
times above the limit begins a hold anew; a bad measurement that does not move the median
prolongs nothing. No comment says otherwise, so no run refutes one; `ErrorHeld` and
`ErrorRunsOut` say what the line does achieve.
A flag that the error interrupt consumed makes a frame that arrived count as failed
(`drv_can.c:740`), and the queue is emptied. Data frames after a refused request are
stored all the same, and acknowledged, if an earlier request had found the partition
(`can.c:134`); before any such request they end in the FAL assertion, which on this
build loops for ever (`DataNoPartition`). The inner read loop of `can.c:54` reads one
frame only. A plate between the second limits that was disconnected stays
`DISCONNECT` over all of [50000, 70000) if the filter jumps there directly
(`lcr_task.c:90-95`). `adc.c:81` tests `adc2_buffer[1]` where `[i]` is meant.
`board_switch.c:58` hands the handle of the DAC to a function for ADCs. `can_tx_thread`
starts the report timer when it first runs (`can.c:311`), which may be after an OTA
request that has just stopped it (`can.c:111`). The alarm that `rt_mq_send` accepted (the comment at
`can.c:247` calls it "sent out") is thrown away with the queue by a failed write (`can.c:337`) or an
RF-on frame (`can.c:91`) and not repeated; `AlarmKnown` says through its history
variable that nothing else loses it.

## 7. What is not modelled

* Impedance calculation (`lcr_calc.c`, `math_calc.c`): floating-point demodulation;
  its result is `NegPlate`'s input.
* DAC (`dac.c`): a sine table of floating-point values and a DMA transfer started once.
* Checksums, searches, temperature (`normal_calc.c`): functions without state. No
  thread of the board calls the searches, the temperature or the other checksums;
  the one in use, `modbus_rtu_crc16_frame`, is the constant `CrcFrame`, of which nothing is
  assumed, so that what it computes matters to no theorem.
* Key check: compiled out (`STM32_UID_ENCRY` is 0, `my_encry.c:37`).
* Start-up: straight-line creation; its races (device open before the callback,
  report timer started late) are in `CanRx`, `CanTx` and `OtaHandle`.
* The sending half of the Ymodem component, which the board does not use.
* Shell variables and CubeMX initialisation: no behaviour of their own.
* Kernel, HAL, FAL: third-party, modelled where the applications use them; the
  other OTA consumer, the boot loader, is not in the repository. Most of the
  repository's million lines are these, in several copies, which is why the part of
  all lines that the modules translate is small although they cover nearly all of
  `src/applications` that decides anything.
* Undefined behaviour of `HAL_ADC_Stop_DMA(&hdac)`: what it writes depends on the link
  map.

## 8. What could follow

1. **A download over the real bus**: `OtaHandle` composed with a main board that sends,
   waits for the reply, repeats, and with the lossy queue of `CanTx`. The main
   board's program is not in the repository, so how it repeats would be an assumption;
   `OtaHandle` already admits any frames in any order, and each reply it hands over.
2. **A CAN download disturbed by `ymodem_ota`**: the contents that `OtaHandle` promises
   would hold only while undisturbed, as in `Ymodem`; that success is not announced
   falsely would need reading the image back, which the code does not do.
3. **An abstract queue** that `CanTx` implements: a channel that may lose everything it
   holds promises little beyond `AlarmKnown`.
