# featherflight: a verification project

Flight controller firmware in C for one microcontroller (`config/board.h` selects `F3_EVO`, an STM32F3). One main loop runs
every task to its end, in turn; the only concurrency inside the processor is between that loop and the interrupt handlers of
two serial ports and a timer. Outside it, a flash chip works on its own time, bytes arrive and leave on two wires, and the
power can fail.

All paths below are relative to `src/src/`. The repository has no tests and no documentation beyond a title; what a part
promises is taken from its code, its comments and the MAVLink message definitions.

## Inventory

| Component | State | Operations | Interacts with |
| --- | --- | --- | --- |
| ring buffer, `utils/fifo.c` | head, tail, cnt, size, data | init, write, write_force, read, tests | everything that buffers bytes |
| serial port, `driver/serial.c` | two rings, enable bits, data registers | open, write, read, interrupt handler | main loop against handler |
| heap, `utils/mm.c` | address-ordered free list, remaining | init, malloc, free | scheduler, links, command line |
| flash driver, `driver/spi_flash.c` | is_busy; the chip's pages and its work | isReady, eraseSector, pageProgram, readBytes | mtd |
| mtd, `modules/mtd.c` | write and read address, ring, page buffer, status | write, read, seek, sync, sync_sector | log, parameters, flash |
| flight log, `modules/log.c` | record flag, record timers | init, run, stop, read | mtd; stopped by both links |
| parameters, `modules/param.c` | values in RAM, copy in flash sector 0 | init, get, set, store, load | mtd; set over MAVLink |
| clock, `driver/timer.c` | 64-bit count | tick handler, now, check, timeout, delay | everything timed |
| scheduler and main loop, `modules/scheduler.c`, `main.c` | task table | task_create, scheduler_run | clock, every task |
| MAVLink, `link/link_mavlink.c`, `mavlink_param.c`, `mavlink_log.c` | transfer status, offsets | handle, run, stream | serial, parameters, log, commander, failsafe |
| log download, `link/link_loglink.c` | parser state, package_num | parse, handle | serial, heap, log |
| wwlink, `link/link_wwlink.c` | parser state | parse, stream | not called by `main.c` |
| commander, `pilot/commander.c` | armed, gesture status, times, altitude scene | set sticks, update | MAVLink, clock; its task is commented out |
| failsafe, `modules/failsafe.c` | link deadline, three flags | link_keep, update | MAVLink, clock |
| navigator and modes, `pilot/navigator*` | mode | set_mode, update | commander, controllers |
| I2C and sensors, `driver/i2c.c`, `mpu6050.c`, `ms5611.c`, `hmc5883.c` | last values, conversion phase | transfer, update | scheduler |
| estimators, controllers, mathlib | floating-point state | update | sensors, mixer |
| command line, debug output, battery, motors, LED | text or last value | | |

### What is hard here

- **Interleaving.** `fifo_read` tests for emptiness with interrupts on and takes the byte in a later section; the handler
  moves the tail of a full ring; the transmit interrupt is enabled by one side and disabled by the other.
- **A device that is busy when it likes.** Every flash command can be refused. The log keeps the refused page and goes on;
  the parameter store waits in a loop, except for the erase, which it tries once.
- **Crashes.** Reset and loss of power between any two flash commands, or inside one.
- **Order of calls.** The heap's free list depends on the order in which blocks come back.
- **Boundaries.** The end of a partition is the start of the next sector; unsigned differences; 16-bit counts.
- **Two halves of one clock.** A 64-bit count is read by two loads while a handler increments it.
- **Requests that meet work in progress.** A download reads a log that is still being programmed; a list of parameters is
  sent while reads and sets are answered, and a set waits for the flash.
- **Time.** Deadlines and gestures are looked at now and then; messages are late, or stop. The looks themselves come late, by
  any amount: a turn of a second makes the main loop skip the next one, a parameter that is set waits for the flash, a log
  download holds the loop for the length of the log.
- **A bus that fails.** Every sensor transfer may time out, and the code hardly looks.

`PROJECT.json` lists these hazards one by one, each with the properties that would catch it.

### What makes each component correct

- Serial and rings: each direction is a bounded queue that drops its oldest byte; no wakeup is lost; no count wraps.
- Heap: granted blocks are disjoint and large enough; free memory is coalesced, counted and never lost.
- Log: what flash holds is the beginning of the accepted stream; only erased pages are programmed; the buffer drains.
- Parameters: what is stored was once in RAM as a whole, and is what RAM holds when a call returns, if the chip was free for
  it and the calls before.
- Scheduler: whatever a torn clock read returns, a task is early at most once per overflow of the low half, and a due task is
  passed over at most twice.
- Links: a list of parameters is sent whole, and what the station was told is what the vehicle uses; a download is the log's
  bytes, no fewer than were asked for, and ends.
- Commander and failsafe: arming needs a gesture held for its time and let go before the next, and the first look that finds
  one takes it; a silent link is noticed by the first look after the timeout, and only a silent one.
- Sensors: after a failure of the bus the barometer is right again a bounded number of updates later, provided that its
  coefficients were read when it was initialised; a calibration is of a vehicle at rest, and comes to an end.

## Modules

| Module | Models | Notes |
| --- | --- | --- |
| `Fifo` | `utils/fifo.c` as operators on a record | used by `Serial`; one operator per section run with interrupts off |
| `ByteChannel` | what one direction of a port promises | abstract; refined by `Serial` twice |
| `Serial` | `driver/serial.c`, one port | main loop, handler and wire |
| `SerialProofs` | lemmas about `Fifo`, theorems about `Serial` | proofs |
| `Mm` | `utils/mm.c` | headers at byte offsets |
| `MmProofs` | theorems about `Mm` | proofs |
| `Flash` | `driver/spi_flash.c` and the chip, as operators on a record | used by `MtdLog` and `ParamStore` |
| `MtdLog`, `MCMtdLog` | `modules/log.c` over `mtd_write` and `mtd_sync` | |
| `Download`, `MCDownload` | `link/mavlink_log.c`, the download of `link/link_loglink.c`, `mtd_read` | composes both links with `MtdLog` |
| `DownloadProofs` | theorems about `MtdLog` and `Download` | proofs |
| `ParamStore` | `modules/param.c` over `mtd_write` and `mtd_sync_sector` | |
| `ParamLink` | `link/mavlink_param.c` | composed with `ParamStore` |
| `ParamProofs` | theorems about `ParamStore` and `ParamLink` | proofs |
| `CommonLemmas` | lemmas about division, induction over an interval, `Flash`, `Clock` and `Timers` | proofs |
| `Clock` | reads and differences of `driver/timer.c`, as operators on a count | |
| `Timers` | deadlines and periods of `driver/timer.c` | over `Clock` |
| `Scheduler`, `MCScheduler` | the main loop of `main.c`, `modules/scheduler.c` | one action per look at the clock |
| `SchedulerProofs` | theorems about `Scheduler` | proofs |
| `Failsafe` | the link deadline of `modules/failsafe.c` | over `Timers` |
| `Commander` | `pilot/commander.c` | over `Timers` |
| `Pilot` | HEARTBEAT and MANUAL_CONTROL of `link/link_mavlink.c`, the tasks of both | composes `Failsafe` and `Commander` |
| `PilotProofs` | theorems about `Pilot` | proofs |
| `I2c` | the outcomes of a transfer of `driver/i2c.c` | |
| `Imu` | `driver/mpu6050.c`, the calibration of `pilot/sensor.c` | over `I2c` |
| `Ms5611` | `driver/ms5611.c` | over `I2c` |
| `Sensors` | their tasks | composes `Imu` and `Ms5611` |
| `SensorsProofs` | theorems about `Sensors` | proofs |

Definitions keep the names of the source where they stand for one thing of it; `PROJECT.json` maps each to its lines.
Definitions whose comment starts with "Bug:" are not part of any specification: each is a plausible mistake in the definition
that follows it, kept to show that the properties would notice.

### Serial

One port; the two ports of the firmware share nothing. A main-loop call is as many actions as it has sections with interrupts
off plus register writes: `WriteBegin`, one `WriteByte` per byte, `EnableTx`; `ReadTest`, `ReadTake`. The handler preempts
between any two of them and runs to its end, so it is one action, `Interrupt`, receive half before transmit half. `Arrive` and
`Leave` are the UART's shift registers. A byte that arrives before the previous one was fetched is lost in the UART, outside
this code.

The contents of a ring, read from tail for cnt places, refine `ByteChannel`, with `got` or the transmit register as its
outlet. A dropped byte is therefore always the oldest one, and only when the ring is full. `TestStillHolds` is why
`fifo_read`'s unprotected test is nevertheless safe: the handler never takes from `rx` and the main loop never takes from
`tx`. The size assumption (below 65535) is the exact point where `cnt + 1` would wrap a `uint16_t` before it is compared.

### Heap

`blk` maps header addresses to the two header fields, so an overlap or a lost byte is visible as in memory. `nested` chooses,
once per behaviour, whether callers free in the reverse order of their allocations, as the callers in this repository do.
`Defined` and the guards of `Free` stop the model where C leaves the meaning open (a walk through NULL, a header over foreign
memory), which happens only after the free list was cut; the run therefore allows deadlock, and `Intact` says where the
properties about the list apply.

**Finding.** `block->next->next = NULL` at line 158 comes after `block->next` moved on, and cuts the list behind the following
block (`mm_cut`). `NestedStaysIntact` shows that nested callers never meet it.

### Flash, log and parameters

`Flash` separates the chip's work (`job`) from the driver's belief (`is_busy`): the driver polls only while it believes the
chip busy. A page under work reads as neither old nor new. `FlashDone` may happen at any time, so every interleaving of a slow
chip with the callers is explored. Two things follow from a reset that meets a working chip. The chip does not answer RDID, so
`spi_flash_init` takes its `default:` branch and leaves `is_busy` FALSE (`FlashBoot`): the driver then reads, erases and
programs a chip that ignores it. And what is programmed may meet a page that was not erased, which `Over` describes: bits are
only cleared, so a unit reads back if it held the same before, and as `Junk` if not.

`MtdLog` numbers bytes in the order the ring accepted them; flash is right when page after page holds the numbers that belong
there. `LogRun` is a whole call of the log task: the records that are due, then `mtd_sync`. `LogStop` is what both links call
before a download.

`ParamStore` follows `mtd_sync_sector` step by step, since it waits inside. The log's commands come between two calls
(`LogCommands`), and leave the chip busy for the next one. `missed` records that a call, or the restart's own, found the chip
at work at its erase, whether or not the driver knew: from then on, until the next restart, RAM and flash may differ, and
`StoreMatchesRam` says that this is the only way they do. `unerased` records the worse of the two cases, in which the driver
did not know: the erase was ignored and the page is programmed over what was there, until an erase that the chip obeys.
`StoreIsSnapshot` holds in every other state, also after a call that was refused, when the ring still starts with the older
snapshot: what is behind a good header is one snapshot, never parts of two. A restart that follows an unerased program loads
what the page shows, if its header is good, and that is RAM's content from then on. A power failure in the middle of a page
program leaves a page that reads as neither old nor new or, with `CutsPrograms`, the first bytes of the new one. All of it
rests on a snapshot fitting in one page (54 parameters take 222 of 256 bytes), which `StoreAssumption` states.

`MtdLog` starts on a chip of which the pages in `Cleared` are erased. `EraseReaches` says that every page of the log is one
the erase command reaches or one of these. With a chip that erases whole sectors of `board.h` it is true. The driver's erase
is opcode 0x20, which clears 16 pages of a sector's 256 on every chip of its table that knows it: for them it is true only if
the rest of the log was cleared before, by something that is not in this repository. The run `download` has such a chip, and
`mtd_erase` one that nobody cleared.

**Findings.** The log erases and programs the sector behind its partition when it is full (`mtd_over`). The erase command
clears less than the sector of `board.h`, and pages are programmed that were never erased (`mtd_erase`). A power failure
inside the one page program of the parameters can leave a good header over bad values, which are loaded: there is no checksum
(`param_cut`). A reset while the chip is at work does the same without a power failure: with `CutsPrograms = FALSE` and
`MaxBoots = 2` in the same configuration, the shortest counterexample is a reset while the first defaults are being
programmed.

`common.xml:2601` describes PARAM_SET as a change of RAM only, reset at reboot. `param_set_val` stores it, as every autopilot
does today; the model follows the code, and no run is spent on the difference.

### Downloads

`Download` is the log of `MtdLog`, at work, under two links that read it. A station notes every byte it is sent at the offset
that is sent along, right or wrong. `RequestData` and `RunLog` are the handler and the 20 ms sender of the MAVLink protocol, a
chunk each. `RequestPackages` enters the other link's loop (`pc = "loop"`), which sends a package in each `SendPackage` and
holds the main loop, so that only the chip goes on beside it. Both move the one `read_addr`.

`FileIsLog` and `PackagesAreLog` say that what was sent is the log, `DownloadsComplete` that a transfer ends only when the
station holds every byte it asked for that flash has, also what reached flash meanwhile (of the package loop: all of the log),
and `DownloadsEnd` that it ends. `LogDrains` says what `log_stop` leaves in RAM: a page or less.

The code and `common.xml` disagree about this protocol in two places. LOG_REQUEST_DATA is "Request a chunk of a log", with a
`count`, "Number of bytes" (`common.xml:3485-3490`). `handle_log_request_data` prints the count (`mavlink_log.c:43`) and does
nothing else with it: what is sent goes on to the end of the log. `RequestData(o, n)` takes the count and ignores it, as the
code does, and `DownloadsComplete` claims the half that holds, that no less is sent than was asked for; that no more is sent
is false. LOG_DATA's count is the "Number of bytes (zero for end of log)" (`common.xml:3496-3497`). When the busy chip refuses
a chunk, `log_read` returns -1, which becomes a count of 255 in a message of 90 bytes and moves the offset on by as much: the
station is told of bytes the message does not have, and on a short log the offset goes past the end, the unsigned remainder is
huge, and the sender does not stop. A transfer that asks for more than the log has begins there. The properties follow a
transfer up to that chunk (`spoiled`) and show nothing of what comes behind it; neither disagreement has a run of its own.
With 65536 bytes or more left, `package_size` keeps 16 bits of them, and a package may be read short; `SizeMod` is that bound,
and packages beyond it are excused too.

Not in the model: REQUEST_DATA of the download link does not start at package 0 (only REQUEST_INFO does), which the model has,
but a station that asks twice without it gets the last package again, and nothing says it should not. The wire is not in it
either. A package is 1035 bytes and the loop waits 5 ms between two, in which the port, opened at 921600 baud
(`link_loglink.c:246`), sends about 460: the ring of 5000 is full after some eight packages, and from then on the oldest bytes
are overwritten before they are sent, in the way `TxIsChannel` describes. What `PackagesAreLog` says is of the bytes handed to
the port.

### MAVLink parameters

`ParamLink` adds the protocol to `ParamStore`: a request arrives between two calls, a PARAM_SET runs `param_set_val` to its
end and then answers (`Returns`), and the sender sends a value every 100 ms. The station's `table` holds what it received
since it asked for the list. `TableIsRam` ties the three copies of a value together: what the station was told is what RAM
holds, also after restarts, unless a call met a chip at work (`missed`, as for `StoreMatchesRam`), or a restart came in the
middle of a store or after such a call (`unstored`), until the station asks for the list again. `ListAnswered` is the promise
of `common.xml:2588`; a read request ends a list, which `stopped` excuses, as the code does it on purpose.

### Clock and scheduler

`timer_now` reads a 64-bit count in two loads, and the timer's handler may increment it between them. `Reads` is the set of
values it can then return: they differ from the count by at most a tick, except when the low half overflows, when they are
almost 2^32 ticks off in either direction. `timer_passed` treats a time stamp that lies ahead as one from before the count's
own overflow, so such a stamp makes a task run too early and never makes it wait. `KeepsRate` bounds the first by the number
of overflows; `NoTaskStarves` is the second, with the turns counted that the main loop skips after a turn of a second or more,
and both together in the worst order. A task takes any time up to `Long`. Turns are what is counted: how long they take is
another matter, and a task may be late by the length of two of them and more. `Due` and `early` are measured on the true
count, which the code never sees.

`Timers` gives the outcomes of each call of `driver/timer.c` over such a clock. A read that straddles an overflow may leave a
deadline hours ahead; the properties of `Pilot` name those reads (`Straddles`) and excuse nothing else.

### Failsafe and commander

`Pilot` runs both tasks whenever it likes: early, as a torn read may have it, or late by any amount, since the main loop skips
turns (`main.c:341`), a parameter that is set waits for an erase inside its handler, and a log download holds the loop at 5 ms
a package. Nothing in the code bounds a look's lateness, and nothing in the model does. What the code does keep is an order:
the commander has the period of the link's task and stands before it in `task_tab`, so in the pass that handles a
MANUAL_CONTROL, however late, the commander has looked just before. `LookedFirst` is that: `Lead` ticks are a period, if the
commander was not due, and what stands between the two in a pass, which does not wait. And `task_link` takes one byte per run
and a MANUAL_CONTROL has 19, so there are `LooksBetween` looks at least between two; two are enough.

The two tasks share no variable but the clock, so a station that sends the messages of one of them loses no behaviour of
either; `follows` chooses, and halves the work. `kept`, `watched`, `looked`, `looks`, `changed` and `released` are history.

The properties are therefore about looks and not about spans of time. `LossNoticed`: a look that comes later than the timeout
after the last heartbeat declares the link lost. `LossIsReal`: a link that is declared lost was silent for the whole timeout,
and the first look after a heartbeat takes it back. `HeldToSwitch`: a change of `armed` is by a gesture held for its time, but
for `Lead`. It depends on `LooksBetween`: `arm_time` is set only by looks that find the sticks elsewhere, so with a single
look between two stick messages a gesture could arm at once. `GestureWorks`: a look that finds a gesture held for its time
takes it. `HeldPast` leaves out gestures longer than half the clock, about twelve hours, in which a torn read could put the
look before the gesture's start. The bounds are exact: with `Lead`, a hold or the end of that window off by one, TLC finds a
violation.

The commander's task is commented out at `main.c:326` of this commit: the module is about the code as it is written, not about
this build. The model shows that `ALT_PRE_TAKEOFF` and `ALT_TAKEOFF` are not reached from centred sticks, since the gesture
that arms also holds the thrust down and the scene is `ALT_MOVE_DOWN` by then. The sticks keep their last values when messages
stop; nothing relates `is_link_lose` to them.

### Sensors

`I2c` gives what a transfer can come to: its return value and what happened on the bus, which the code does not tie together.
`Ms5611` abstracts a number to whether it was computed from the conversions it is meant to be computed from. `BaroHeals` is
its self-stabilisation: `Cycle` updates and three more, whatever was lost before, provided that `ms5611_init` read the
coefficients (`prom`). It reads them once, `sensor_init` ignores its result (`sensor.c:157`), and with a word of them lost no
altitude is right again; `BaroInit` has both cases. The bound is exact: with one update less a collection of a temperature
whose conversion was lost can still be behind the altitude. `Imu` has the three states of `imu_gyro_cal` under arming, motion,
failing reads and a timer (`due`). `seen` and `calm` record, without looking at the collection, what a looker at rest would
have seen, and `CalIsOfRest` compares the two when the collection ends. At rest means that the looks found one acceleration,
which a vehicle in motion shows too if the reads fail and the buffer stays as it was. `RestCalibrates` is its liveness. The
result is not used by this commit (the assignment to `gyro_offset` is commented out), but the states are.

**Finding.** `i2c_read` returns `false` when a wait times out, which is 0, and its callers test for a value below 0: a sample
made of what the buffer held before, its initial zeros in the first update, or of some old bytes and some new, is published
(`i2c_unseen`).

## Runs

| Run | Bounds | Shows |
| --- | --- | --- |
| `serial` | 2 byte values, rings of 2 and 3, writes of up to 4 | writes longer than the ring, wraps of both indexes, a full and an empty ring on both sides, the handler between any two steps |
| `mm` | heap of 96 bytes, requests of 4, 12 and 25 | up to six blocks; a split, a remainder too small to split, and every join, in every order of frees |
| `mm_cut` | the same | expected violation of `NothingLost` |
| `download` | pages of 4 bytes, two sectors of 2 pages, an erase that clears one of them and the other cleared before, records of 3 and 1, chunks of 3, packages of 8, requests for 4 bytes or for all, 2 requests | a ring that fills and cuts records, refused pages, both sector boundaries, the full partition, a transfer through each of them, both links at once, an offset in the middle |
| `mtd_over` | the log alone, pages of 5 bytes, two sectors of 4 pages, records of 3, 3 and 1 | expected violation of `OwnPartition` |
| `mtd_erase` | the same as `mtd_over`, an erase clears one page and none was cleared before | expected violation of `ErasedAhead` |
| `param_link` | 2 parameters, one value besides the default, pages of 4 units, 3 pages, 2 restarts, 4 requests | a snapshot smaller than a page, two snapshots in the ring, a restart of a restart, a restart on a chip at work, sets and reads within a list |
| `param_cut` | the store alone, a failing program leaves the first bytes of a page | expected violation of `BrokenIsReset` |
| `scheduler` | halves of 32 values, counts to 70, rates 2 and 4, tasks of 0 to 5 ticks, a second of 5 | two overflows of the low half, reads torn in both directions in every look at the clock, turns skipped |
| `pilot` | halves of 7 values, counts to 12, a timeout of 4, gestures held for 2 and 1, a lead of 1, 5 stick positions | looks at any time, an overflow of the low half in the middle, two gestures in a row, losses and returns of the link |
| `sensors` | 2 accelerations, 3 samples, 3 pressures per temperature as in the code | coefficients read and not, every failure at every place of a cycle, motion and arming at every place of a collection |
| `i2c_unseen` | 2 samples, otherwise the same | expected violation of `FailedReadUnused` |

Bounds. Rings of 2 and 3 slots already have every relation of head, tail and cnt (equal and empty, equal and full, wrapped,
not wrapped), and the theorems remove the bound. The heap's cases are decided by a block and its two neighbours; six blocks
give each of them neighbours of every kind. The log's record lengths keep the proportions of the real ones to the page (55,
55, 19 of 256), so a ring of two pages overflows in the middle of a record. Two restarts let a restart interrupt the reset of
a store that an earlier restart left broken. `MaxBoots`, `MaxRequests` and `MaxCnt` are the only bounds that are not the size
of something. In `scheduler`, two overflows of the low half fit below `MaxCnt`, so that what the first one left behind meets
the second; in `pilot`, a whole sequence of arming, release and disarming, and of loss and return, does. Two requests put any
two transfers in sequence or, one of each link, beside each other.

Fairness. `Serial`: a call that has begun goes on, a requested interrupt is served, a byte in the transmit register is shifted
out; nothing obliges a call to be made or a byte to arrive. `MtdLog`: the scheduler calls the log task for ever and the chip
finishes what it began. `Download`: the same, and the senders' tasks and the loop go on; no station has to ask. `ParamStore`
and `ParamLink`: the call in progress and the list's sender go on, and the chip finishes. `Sensors`: the imu task is given a
turn with its timer over, again and again; no transfer has to succeed. `Pilot`: none; its properties are of looks, and nothing
obliges a look to be made. `Scheduler`: none, since the count is bounded; `NoTaskStarves` counts turns instead. Deadlock is
checked everywhere but in the heap's runs, for the reason given above.

## Proofs

`SerialProofs` proves, for every ring size below 65535, every set of byte values and every write length (`SizeAssumption`,
`ByteAssumption`, the only assumptions):

- `TypeCorrect`, `RingsAgree`, `TestNotStale`, `Wakeup`: `TypeOK`, `RingsOK`, `TestStillHolds` and `NoLostWakeup` are
  invariants of `Spec`;
- `RxRefines`, `TxRefines`: `Spec` implements `ByteChannel` in both directions.

None of the four invariants is inductive alone. `IInv` adds that each ring is well formed (`GoodFifo`: type, agreement of the
indexes, and every slot between tail and head holds a byte, never a blank), that a take has an empty outlet, that a write in
progress has bytes left, and that a port not yet open is idle and empty. There is one lemma per action; the handler's two
halves are proved apart. The refinement needs `IInv` too: dropping the oldest byte is the abstract `Put` only for a
well-formed ring.

Its first part has the facts about rings: what each operator does to the fields, that it keeps `GoodFifo`, and what it does to
`Contents` (`WriteForceIsGood`, `TakeIsGood`), including the wrap of the tail.

`SchedulerProofs` proves `TypesCorrect` and `RatesKept` (`TypeOK`, `KeepsRate`) for every task table and every width of the
clock's halves. `RateInv` keeps an account: a torn read costs one overflow, and pays for one early run, either in the same
look or later, through the `last_run` it leaves behind. `Misled` is the set of tasks that hold such a `last_run`, and `early`
plus its size never exceeds the overflows; `KeepsRate` alone forgets the tasks that may still run early. The task about to be
stamped is left out of the set, since its early run is counted already. `MaxCnt` stays a parameter: the theorems hold for
every bound.

Its third theorem, `NoneStarves` (`NoTaskStarves`), has one hypothesis, `TurnsShort`: a second is at least three ticks (it is
100000), and a task's period, a turn in which every task takes its time, and ten ticks more fit into one half of the clock:
minutes, with a log download in the turn, against twelve hours, and 30 ticks against 32 in the run. It cannot be dropped: with a `Long` of 20 in
the same run, TLC passes a task over three times. `TurnInv` says how long ago each task ran at most, by where the turn stands
(`Position`), and how often each was passed over: looked at and not due means not at all. Two things then make a due task run.
A stamp or a look is off by half the clock at most, either way, and a task that has waited less than that is found due by any
combination of the two (`DueIsElapsed`). And turns are skipped twice in a row at most: the second skip needs a torn read,
which leaves the low half of the clock so small that the next two looks are whole (`LowIsWhole`, `NotSkipped`).

`PilotProofs` proves all five properties of `Pilot` for every timeout, lead, holding time and set of stick positions, however
late the tasks run: `PilotTyped`, `LinkIsWatched`, `SwitchesAreHeld`, `GesturesWork`, `ReleaseNeeded`. None has a hypothesis
beyond the assumptions on the constants, of which `PilotAssumption` says that a deadline fits in the clock's 64 bits.
`LinkInv` ties the deadline to the last heartbeat and the flag to the last look at it; `ArmInv` says that in a state in which
a gesture counts the sticks have been let go, and which way the state agrees with `armed`. `GestureInv` dates the time a
gesture is measured from: the looks that `LooksBetween` puts between stick messages have started it anew (`Fresh`), and the
last of them came `Lead` before the message at most (`LookedFirst`), so that time begins with the gesture (`Starts`), or half
a clock away from it if that look's read was torn (`TornStart`). `HeldInv` adds that no look has found the time over. The step
of a look then has two cases: from a start that was not torn, any read finds a time that has been held for long enough over
(`HeldIsOver`); from a torn one, the next overflow is a whole half of the clock away (`TornApart`), so the look itself is not
torn and finds the time over (`TornStartIsOver`). `HeldPast` is the window in which both are true.

`ParamProofs` proves the safety properties of `ParamLink`, and of `ParamStore` under it, for every number of parameters, set
of values and layout of the chip: `LinkTypesKept`, `SnapshotsWhole`, `CallsStore`, `TableKept`. `LInv` follows a snapshot on
its way: `SoundInv` says that whatever the buffer, the page in the works or the chip's job can bring to the first page is a
value of `held` if its header is good, `DrainInv` that a call empties the buffer within two pages (which needs `SectorPages >
1` of `StoreAssumption`: the firmware's sectors have 256), and one conjunct each ties RAM to the snapshot in progress and the
station's table to RAM. `SnapshotsWhole` has the hypothesis that a program the power cuts short leaves nothing
(`~CutsPrograms`), which is where `param_cut` finds the code and its comment at odds; the other three need none. What a reset
on a chip at work does is in all four: `unerased`, `missed` and `unstored` are the exceptions the properties name.

`DownloadProofs` proves the safety properties of `Download`, and of `MtdLog` under it, for every layout of the flash, record
list, chunk and package size: `DownloadTyped`, `LogInOrder`, `LogErasedAhead`, `FileRight`, `PackagesRight` and the action
property `DownloadsWhole`. `LogInv` is about the log alone: `ChipInv` says page by page what the chip holds, has under work
and will hold, `WaitingInv` that the page which waits is the one at `write_addr`, `BufferInv` that page, buffer and ring are
consecutive pieces of the stream. `FileInv` and `PackagesInv` say that a transfer that is not spoiled holds exactly the
offsets it has passed. All of them have one hypothesis, `EraseReaches`: every page of the log is one the erase command clears
when it is given the sector's address, or was found erased. It is about the chip and what was done to it before, not about the
code, and this code's own erase command does not give it: opcode 0x20 clears 16 of a sector's 256 pages, so the theorems speak
of such a chip only when the other pages were cleared before. Run `mtd_erase` shows that the hypothesis cannot be left out,
and that `board.h` and the chips disagree. `LogWrites`, which puts the due records into the ring one after the other, is a
recursive function over an interval, and the proof shows that it exists and what bounds it keeps by an induction in which the
property is a set of numbers.

`SensorsProofs` proves `SensorsTypes`, `BarometerHeals` and `CalibratesAtRest` (`SensorsTypeOK`, `BaroHeals`, `CalIsOfRest`)
for every number of samples and every ratio of pressures to temperatures. `BaroInv` counts the updates since the last
temperature was collected (`Since`): once that many and two more were clean, the terms are right if the coefficients are, and
so is what is computed from them. `CalInv` follows the sum, the count and the acceleration that the first look of a collection
found.

`MmProofs` proves all seven properties of `Mm` for every size of heap, header, alignment and request, from `HeapAssumption`
alone: `HeapTypes`, `HeapIsTiled`, `GrantsHold`, `HeapIsCoalesced`, `HeapIsAccounted`, `NullMeansFull`,
`NestedCallersKeepTheList`. The properties speak of the list that `Chain` reads, the invariant `IInv` of the headers
themselves: that the blocks tile the heap and each link leads to a later free block (`Heap`), that a grant has the room asked
for, and that free and granted sizes add up. What the stray `NULL` at the end of `mm_free` does to a list is its last
conjunct: either the links have every free block, in order and none touching the next (`Whole`, `JoinedBut`), or there is a
part with `End` in it that no link from outside leads to (`Severed`), and it stays so whatever is carved, freed or joined
later. `WholeIsListed` and `SeveredIsShort` tell the two apart by where the list ends, which is what `Intact` looks at. Behind
a cut, `mm_malloc` may carve a block out of the list's last one although it is too small; a size is then negative, C would
have written a header over memory it does not own, and all that is claimed from there on is `TypeOK`. For nested callers,
`Stacked` says that every grant lies below every free block, in the order of the stack, so there is one free block at most and
the cut finds nothing to cut. Steps are proved on headers first (`SplitKeeps`, `TakeKeeps`, `MergeKeeps`, `LinkKeeps`,
`NextKeeps`), then lifted. Sums of sizes, folds over sets in the model, are shown to be additive (`MeasureExists`,
`MeasureIsSum`) by an induction whose property is a set of numbers, and so is that `Chain` is the path it is meant to be
(`ChainIs`).

`CommonLemmas` has what several of these rest on. About clocks, for `Scheduler` and `Pilot`: a count is its two halves and
they are unique, a tick moves the high half exactly when the low one overflows, and a read either returns the count before or
after it or has met an overflow (`WholeOrCarry`); they need `ClockAssumption` and `TimersAssumption` only. About the chip, for
the two stores: what each command does to a well-formed one (`GoodChip`), whether it is taken or refused. And division, and
induction over an interval.

Model-checked only: liveness (`TxFlows`, `LogDrains`, `DownloadsEnd`, `CallsReturn`, `ListAnswered`, `RestCalibrates`), which
rests on fairness and is out of the prover's reach. Every safety property of a passing run is proved.

## Plan

Done, in this order: `Fifo`, `ByteChannel`, `Serial` and their proofs; `Mm`; `Flash`, `MtdLog`; `ParamStore`; `Clock`,
`Scheduler`; the MAVLink parameter and log protocols and the package download, over the stores they read; `Timers`,
`Failsafe`, `Commander`, `Pilot`; `I2c`, `Imu`, `Ms5611`, `Sensors`; the proofs about `Scheduler`, `Pilot` and `Sensors`, then
those about `ParamLink`, `Download`, the rest of `Pilot`, `Mm`, and the rest of `Scheduler`.

Left: `loglink_parse_char`, only if a reference for what it does with a damaged length can be found.

## Not modelled

Most of the repository's lines are the chip maker's library, the processor's headers and the code the MAVLink generator
writes; what they do is modelled where the firmware's own code uses it (the UART's registers, a bus transfer), and nowhere
else.

- Floating-point estimation and control, and the flight modes over them: out of reach of both tools.
- The byte-wise parser of `link/link_loglink.c`: a damaged length is taken as it is and nothing says what should follow. Frames
  reach `Download` as requests. The MAVLink parser is generated code.
- `link/link_wwlink.c`, whose calls in `main.c` are commented out, and the command line, whose task is.
- The compass, which copies an uninitialised buffer when its transfer fails, as the sensors of the model do not; the delays,
  which are time that passes in their caller; low power and overturn in the failsafe, which compare the last sample with a
  threshold and keep nothing.
- Requests for a parameter by a name or an index that does not exist: the code then reads outside its table, and no outcome
  is better than another.
- Formatting and text, register set-up, and the Linux build, whose branches no longer fit the interfaces they use. The contents
  of log records and messages are abstracted to lengths and identities.
