# Verification of the NP1100 virtual machine

This directory holds TLA+ specifications of the code that makes the *virtual
NP1100*: the QEMU fork that emulates the JZ4740 board (`src/qemu-NP`), and the
boot loader (`src/u-boot-1.1.6-NP1100`) and kernel
(`src/linux-2.6.24.3-NP1100`) that run on it, where they meet the emulated
hardware.  It says what the parts are, which are modelled, what the model
checker (TLC) and the prover (TLAPS) show about them, and what is left.

## 1. Inventory

| part | code | state it keeps | operations | who it talks to |
|---|---|---|---|---|
| NAND chip | `qemu-NP/hw/nand_bpage.c` | page buffer `io`, `ioaddr`, `iolen`, address register, `addr_cycle`, `cmd`, the image file and its length | command, address, data read, data write cycles; start-up | memory-mapped by `mips_pavo.c`; image through `block-raw-posix.c` |
| Board and boot reader | `qemu-NP/hw/mips_pavo.c` | the ready/busy toggle | reads the first 8 KiB of the boot loader from the chip and jumps to it; address decoding | NAND chip |
| Kernel NAND driver | `drivers/mtd/nand/nand_base.c`, `nand_bbt.c`, `jz4740_nand.c` | device lock, two `mtd_info`/`nand_chip` pairs over one chip, shared buffers, cached page number, bad block table | read, write, out-of-band, erase, mark bad, sync | NAND chip; file systems |
| Interrupt controller | `qemu-NP/hw/mips_jz.c` 395-520 | `icsr`, `icmr`, `icpr` | `jz4740_set_irq`, register writes | all devices; processor pin |
| Processor interrupt input | `qemu-NP/hw/mips_int.c`, `cpu-exec.c`, `target-mips/op_helper.c` | `CP0_Cause.IP2`, `CP0_Status.IE/EXL`, `CPU_INTERRUPT_HARD` | pin change, status write, exception, `eret` | controller, guest |
| Kernel interrupt path | `arch/mips/jz4740/irq.c`, `kernel/irq/*.c`, `genex.S` | static `intc_ipr`, descriptor status, the stack of nested interrupts | dispatch, ack, handler, end, softirqs, disable/enable | controller |
| Timer unit (TCU) | `mips_jz.c` 1515-1795, `mips_jz_glue.h` | enable, stop, flag, mask registers, counter, two host timers | register writes, half and full match | controller; boot loader, `time.c` |
| Kernel tick and clock | `arch/mips/jz4740/time.c`, `kernel/time/timekeeping.c` | `jiffies`, the clock source and its `cycle_last` | set-up, tick, update of the wall time, read | timer unit |
| Touch screen converter | `mips_jz.c` 2624-2861 | `TCHEN`, masks `adctrl`, flags `adstate`, the buttons at the last event | pen events of the host, register writes | controller, `sadc.c` |
| Touch screen driver | `drivers/char/jzchar/sadc.c`, `jz_ts.c` | where three flows think the pen is, the acquisition timer, a ring of events | interrupt handler, acquisition timer, open, read, release | converter, a program |
| Boot loader | `u-boot-1.1.6-NP1100` | its timer's `lastdec` and `timestamp`, a NAND reader of its own | timer, loading the kernel | timer unit, NAND chip |
| Clock tree | `mips_jz_clk.c`, `mips_jz.c` | rates, dividers, parents, users | divider/parent/enable changes | TCU, devices |
| DMA, RTC, GPIO, EMC, LCD, CPM | `mips_jz.c` | registers | register writes, host timers, host input | controller, memory |
| Image tools | `nandflash/pavo_nandflash.c`, `yaffs2/utils` | output file | placing partitions, adding out-of-band bytes | NAND image |
| Rest of QEMU, rest of the kernel, file systems | | | | third-party |

What makes it hard, and what makes each part correct:

* the NAND chip is a byte-at-a-time protocol machine whose registers mean
  different things after different commands, over a file accessed in 512-byte
  sectors although pages have 2112 bytes.  It is correct when it is an array of
  pages: an erase or a program touches its block or page only, a load presents
  its page only, no cycle reaches outside the buffer or the image;
* the kernel drives the chip through scripts of dozens of cycles, and the
  emulator exits on any it does not know.  Correct: no script ends the
  emulator, and script by script the chip behaves as the array;
* the driver keeps a page in a buffer, the out-of-band bytes in another and the
  bad blocks in a table, under a lock that two devices share.  Correct: the
  copies say what the flash says, one task is inside, no wake-up is lost;
* devices raise interrupts at any moment between the steps of the kernel's
  handlers; the controller forgets events on masked lines and lowers the pin
  for all lines at once, and the emulated `eret` does not look for requests.
  Correct: a handler runs only for an event, is not re-entered, and what is
  pending is served;
* time passes between any two instructions of the guest and the host runs its
  timers late; the timer is set up twice, by two programs, and its counter is
  also the kernel's clock.  Correct: it is armed while it runs, ticks are not
  counted early, the clock's differences are true, and the boot loader's
  timestamp does not run away from the time;
* the touch screen driver is three flows over one structure: a handler that
  comes between any two steps of the acquisition, the acquisition in a softirq
  with interrupts enabled, and a program that reads and closes.  The handler
  counts the pen's changes, `sadc.c` remembers the last flag and the acquisition
  what it found, and the three differ.  Correct: the softirq never sleeps, a
  closed device has no timer, the next change of the pen is always listened
  for, and what the program is told ends with a lift;
* the emulator can be stopped at any moment over an image it is writing, in the
  middle of an erase, or of a program, whose sectors hold bytes of other pages.
  Correct: the page or block addressed is new up to some byte and old from it,
  and nothing else has changed.

## 2. Modules

| module | models | extends |
|---|---|---|
| `NandFlash` | the chip: one action per bus cycle, start-up, stops between cycles and in the middle of one | Integers |
| `NandBus` / `MCNandBus` | the chip under any sequence of bus cycles | NandFlash |
| `NandArray` | abstract specification: an array of pages; program and erase take effect at one instant, or are torn by a stop | |
| `NandDriver` / `MCNandDriver` | kernel driver, boot ROM reader and the boot loader's reader over the chip; refines `NandArray` | NandFlash |
| `NandAccess` / `MCNandAccess` | the driver as its users see it: lock, buffers, bad block table, errors, restarts | Integers |
| `IrqHardware` | controller, pin, request, status bits: one operator per operation | Integers |
| `IrqKernel` / `MCIrq` | the kernel's interrupt path over it, devices raising lines, threads | IrqHardware |
| `TimerUnit` | channel 0 of the timer unit: one operator per register write, the match | Integers |
| `TimerTick` / `MCTimerTick` | the boot loader, then the kernel, over it | TimerUnit |
| `EventQueue` | abstract specification: a queue that gives up its oldest event | Sequences |
| `TouchQueue` | the driver's ring of events; refines `EventQueue` | Sequences |
| `TouchConverter` | the emulated converter and its line of the controller | |
| `TouchDriver` / `MCTouch` | handler, acquisition timer and program over the two | TouchQueue, TouchConverter |
| `NandProofs`, `NandDriverProofs`, `NandAccessProofs`, `IrqProofs`, `TimerProofs`, `TouchProofs` | theorems about `NandFlash`, `NandDriver`, `NandAccess`, `IrqKernel`, `TimerTick`, `TouchDriver` | these, TLAPS |
| `NandArrayProofs` | `NandDriver` implements `NandArray` | NandDriverProofs |

In each module an operator whose comment begins "Mutant of" is a deliberately
wrong form of the definition that follows it.  No specification uses one; each
shows that some property would notice that mistake.

### 2.1 The NAND chip

`NandFlash` has the fields of `struct nand_bflash_s` as variables, with the two
address words joined in one number `column + ColSpan * row`, and the image with
its length. `WriteCommand`, `WriteAddress`, `ReadData`, `WriteData` are
`nandb_write_command`, `nandb_write_address`, `nandb_read_data8`,
`nandb_write_data8`; each group of `case` labels is one operator
(`StartAddress`, `LoadPage`, `Program`, `Erase`, ...). `Exit` is `exit(-1)`, or
the end of the process on a wild access. A byte is a symbol, as nothing depends
on its value except the status and identification bytes. The window a page
operation reads and writes back (`page_sectors + 2` sectors) and the growth of
the file are kept, since properties are about them.

A cycle is one step for the emulator's other threads and for the guest, which
waits for it. It is not one step for whoever stops the emulator: `StoppedDuring`
is a stop inside `nand_blk_write` or `nandb_blk_erase` and a start over what is
in the file then. Both write the file upwards (the erase in one call for a
sector, the program in one call for its window), so `WrittenUpTo` leaves it new
up to a sector boundary, which may be the first or the last, and old from there.
That a sector is written whole is the model's assumption. A program stopped
beyond the old end of the file leaves it longer, and the start then refuses it.

### 2.2 The driver's scripts

In `NandDriver` a request is a script, the bus cycles that `cmdfunc`,
`read_buf` and `write_buf` issue, in order; `Issue` takes the device lock,
`Finish` releases it. The scripts include the two-plane forms of
`jz4740_nand.c` (`MULTI_PLANE` is set in `arch/mips/configs/pavo_defconfig`, so
a kernel built with it makes two MTD devices of the chip, `jz_mtd` with the
planes paired and `jz_mtd1` without), the boot reader of `mips_pavo.c`, and the
boot loader's own: its page and out-of-band reads (`LoadScript`), its reset and
identification (`IdentifyScript`, `QueryScript`, also the kernel's).
`Restart` stops the emulator between any two cycles, or in the middle of the
script's confirming command, and starts it over the file as it is. The refinement maps the image to the pages of `NandArray` (`Stored`), and
says that an effect has happened (`Effected`) when the confirming command, 0x10
of a program or 0xd0 of an erase, has left the script. A stop before that leaves
the array as it was, after it changed, and in the middle `Torn`: the effect up to
some byte of the array, the old bytes from there.

### 2.3 The driver's interface

`NandAccess` is one level up: the chip is `flash`, and what varies is who is
inside the driver and what the driver remembers.

* Lock. `GetDevice` is one pass of `nand_get_device` under the spin lock (take
  the device, or join the wait queue and sleep); `ReleaseDevice` wakes all.
  `active` is `controller->active`, `state[c]` each chip's own `chip->state`.
* Buffers. `databuf` and `oob_poi` are shared by the `nand_chip`s, since
  `nand_scan_tail` copies the structure with its pointers; `pagebuf[c]` is not.
  `oob_poi` is reduced to whether its bad block mark is set.
* Operations. `ReadPage`, `ReadOob`, `WritePage`, `WriteOob` and `EraseBlock`
  are one round of the loops of `nand_do_read_ops`, `nand_do_read_oob`,
  `nand_do_write_ops`, `nand_do_write_oob` and `nand_erase_nand`, with their
  invalidation of the cached page and their early ends; a request spans pages,
  the first and last of which may be wanted in part. A program or an erase may
  fail and then leaves the page undefined; a failed write of out-of-band bytes
  may have written them or not.
* Bad blocks. `ScanBlock` is `create_bbt` at start-up, through the mark of page
  `FlagPage` of each block; `MarkBad` is `nand_block_markbad`, which changes the
  table first and the flash later, as a request of its own.
* `Restart` starts the kernel anew over the same flash at any moment; `Decay`
  spoils the bits of a page beyond the error correction.

The partitions of `jz_mtd` and `jz_mtd1` are disjoint, so each has pages of its
own. `jz_mtd1` takes no writes of less than a page. The suspend path is left
out: nothing calls it.

### 2.4 Interrupts

`IrqHardware` gives the controller and the processor's input as operators, one
per register write or instruction. In `IrqKernel` the kernel is a stack of
interrupts being handled, the innermost first; a frame records the line and the
point reached, and each point is one access to a device register or to
`CP0_Status`. `Event(l)` is a device that raises its line: `asserted` is the
device's own event flag, cleared when the handler sees to the device (`Serve`).
An interrupt that is due is taken before the next guest step, as `cpu_exec`
does. Register writes of one basic block are separate actions, which allows
more interleavings than the emulator has.

### 2.5 The timer

`TimerUnit` is channel 0 as a record, the only channel whose host timers the
emulator creates, with an operator for each register write: all of them call
`jz4740_tcu_start_half0` and `_full0`, which bring the counter up to date
(`Synced`) and arm or disarm the host timers (`Expiry`). Time is counted in
units in which a count takes `prescale / freq` of them, so the rates are the
constants `SyncStep` (the fixed 46875 Hz of `time_sync`, which is the boot
loader's 12 MHz / 256), `BootStep` and `TickStep` (the kernel's 12 MHz / 16).
`(tdfr - tcnt) * prescale` is computed by the C code in 32 bits: `Word` is
2^32 / prescale. The two rates that are used, 16 and 256, divide 2^32; one
`Word` stands for both, and the proofs hold for any.

`TimerTick` adds the programs. `Script` is the writes of U-Boot's `timer_init`
followed by those of the kernel's `plat_time_init`; between them the boot
loader runs for any time and reads the counter. `Match` is the host timer, run
any time up to `MaxLate` after it is due (`Pass`). The interrupt controller is
reduced to the mask and pending bits of the line, with the same rule as
`IrqHardware`: an event on a masked line is dropped. The kernel's handler is
`Interrupt`, `Ack`, `Tick`, then `UpdateWallTime` or `ChangeClock`, then `End`;
`ReadCounter` is `gettimeofday` at any moment in a thread, which changes the
channel because a read brings the counter up to date. `GetTimer` and
`ResetTimer` are the boot loader's, with its `lastdec` and `timestamp` in
`loader`; the history variable `begun` is when a program last set the counter,
or the timestamp, to zero.

### 2.6 The touch screen

`TouchConverter` keeps a register as the set of its bits, with the converter's
line as its two bits in the controller (the rule of `IrqHardware` again: an
event on a masked line is dropped). `TouchEvent` is `jz4740_touchscreen_event`.
`TouchQueue` is `event_add`, `event_pull` and the flush of `jz_open` over the
ring of `struct jz_ts_t`; it implements `EventQueue` under the mapping
`Waiting`, the sequence the ring stands for.

`TouchDriver` has one program counter for each flow. `handler` walks
`pendown_interrupt` with `ts_irq_callback`: each test and write of the
converter's flags is a step, since pen events come in between, and nothing else
does, as the handler is registered with `IRQF_DISABLED`. `sampler` walks
`jz_acq_timer` and the `jz4740_adc_read` it calls `Samples` times; it runs only
while `handler` is idle, and the handler may come between any two of its steps.
`program` walks open, read and release, and runs only when neither does.
`pen_is_down`, `p` and `was_down` are the static variable of the handler, the
one behind `PenIsDown()` and `ts->pen_is_down`. The coordinates are left out:
`AcquireEvent` accepts the samples or not. `bug` is the end of the kernel at
`add_timer`'s assertion.

## 3. Runs

| run | instance | shows |
|---|---|---|
| `nand_bus` | 4 pages of 5 bytes, 2-byte sectors, 2 images, 6 free cycles or restarts, and a stop in the middle of one | types, `BufferFits`, `EraseExact`, `OnlyTargetChanges`, `LoadExact` |
| `nand_driver` | the same chip, one image, 3 requests of every kind except the two-plane program and erase, the identification and the boot loader's reads among them, 1 restart, between two cycles or inside one | types, `EmulatorRuns`, `ReadsInBuffer`, the driver implements `NandArray` (`ImplementsArray`), every request ends (`RequestsEnd`) |
| `nand_cache` | one task, one `nand_chip`, 4 pages in 2 blocks, 4 requests (read, write, erase, read of out-of-band bytes, marking a block bad), a decaying page, 1 restart | types, `PagebufTrue`, `ReadsCurrent`, `MarkedIsKnown` |
| `nand_lock` | three tasks, two `nand_chip`s, 2 blocks of one page, 3 requests, 1 restart, fairness | `Exclusive`, `SleepersWillWake`, `MarkedIsKnown`, `Served` |
| `irq_flow` | timer, serial port, touch screen, 6 device events, any number of ticks, fairness | types, `NoReentry`, `NestingBounded`, `StaticCopyDue`, `NoSpuriousHandler`, `PendingServed` |
| `timer_tick` | a 3-bit counter, a tick of 5 counts, time to 40 units | types, `TimersArmed`, `JiffiesNeverEarly`, `ClockInRange`, `TimestampAtMostTwice` |
| `touch_screen` | a ring of 2 events, 2 samples, any pen events | types, `NeverSleepsInSoftirq`, `NoTimerAfterRelease`, `ListensForPen`, `LiftIsLast`, `ImplementsQueue` |
| `touch_reader` | a ring of 1 event, 1 sample, fairness | `ReaderWoken` |
| `nand_image_grows` | as `nand_driver`, one write | violation: `ImageKeepsLength` |
| `nand_shared_buffer` | two tasks, two `nand_chip`s, reads and writes | violation: `PagebufTrue` |
| `irq_forgotten` | no disabling | violation: `NoneForgotten` |
| `touch_timer` | as `touch_screen` | violation: `TimerNotPending` |

Bounds. In the chip's instances no page boundary but a block's is a sector
boundary, as in the real geometry (2112 = 4 * 512 + 64; blocks of 64 pages), so
every page shares sectors with its neighbours; two blocks and two images tell
pages, columns and blocks apart. `MaxCycles` is enough for a whole erase or
program sequence with a short address. In `nand_bus` a stop in the middle of a
cycle is the last step: the chip starts anew, over an image with other contents,
and what it does then is what the other behaviours show. Three requests of the driver let what
one script leaves in the chip's registers meet another after a third.

For the driver's interface, four requests allow a page to be cached, changed by
a second, read or cached again by a third and read by a fourth; two blocks of
two pages tell page, block and neighbour apart, and the mark is not on the first
page of a block. The cache does not depend on the number of tasks (one is inside
at a time, which `nand_lock` checks and `LockExclusive` proves), so `nand_cache`
has one. Three tasks are the least in which one holds the device, one waits
through the same `nand_chip` and one through the other; `nand_lock` uses the
requests that keep no page. A page written with out-of-band data in its place is
for the model a page written whole, so the instances write without. Neither
writes in mode `MTD_OOB_AUTO`, for which `MarkedIsKnown` fails (section 5).

In the interrupt instances three lines include one handler that runs with
interrupts enabled and two that do not, the timer's number is the highest as on
the chip, and six events let every line be raised again at every point of its
own handler. Without a bound on the events of other devices `PendingServed`
fails, rightly: the dispatcher serves the lowest line first and one per
exception, so a storm on a low line starves the others.

The timer's instance keeps the order of the real numbers: the kernel counts
faster than `time_sync` does (`TickStep < SyncStep`), a tick is less than the
span of the counter, and the mask of the clock source is more than one span. A
tick is five units and `MaxLate` four: a match may come while the handler of the
one before still runs, or most of a period late, and a counter that wrapped has
counted again before a late match sets it back, without which the boot loader's
timestamp would not be wrong by more than a rounding (with the bound
`TimestampAtMostTwice` halved the run fails). `MaxTime` is enough for the boot
loader's counter to match and wrap and for several of the kernel's ticks after
it.

The touch screen's instance has no bound but its constants: the pen and the
program never stop. A ring of two fills, wraps and drops its oldest event, and
two samples are the least in which the acquisition goes round its loop.
`touch_reader` needs fairness, for which one event and one sample are enough:
the reader that misses a wake-up has one event in the ring and the acquisition
goes round by way of its timer.

Fairness. `FairSpec` of `NandDriver` lets the guest and the emulator run and
asks for nothing of the users of the device. `FairSpec` of `NandAccess` assumes
that a runnable task runs; a sleeping task has no enabled step until the release
wakes it. `IrqFairness` assumes that the timer re-arms itself for ever
(`jz4740_tcu_full_cb` calls `qemu_mod_timer` each time), that the processor
runs, and that threads leave their critical sections. `TouchFairness` is weak
for taking an interrupt and for the handler, which nothing interrupts, and
strong for the timer, the acquisition and the program, which interrupts of the
pen disable again and again but not for ever. It assumes of the host's user that
samples of a resting pen are accepted now and then (`SamplerReports`), and
nothing of the pen or of what the program chooses to call.

Deadlock is not checked in the NAND and timer runs: requests and time are
bounded, the emulator may exit, and tasks may stay idle; nor in those of the
touch screen, where the kernel stops at `add_timer`'s assertion.

## 4. Proofs

### 4.1 The chip

`NandProofs` proves, for every geometry that `NandGeometry` allows, every image
and every sequence of bus cycles, restarts and stops in the middle of a cycle:

* `NandTypeCorrect` and `BufferAlwaysFits`, from the inductive invariant
  `NandInv` (types, the bound on `iolen`, and `ImageCoversChip`, that the file is
  no shorter than the chip, which the other proofs need to know that a page of
  the chip is in the file). The bound on `iolen` is what keeps data bytes inside `io`, and it
  needs the type of the address register, since a load sets
  `iolen = PageOob - Column(addr)`.
* `EraseAlwaysExact`: the sector arithmetic of `nandb_blk_erase` (head, whole
  sectors, tail) covers exactly the addressed block. It rests on `EraseRegion`,
  and on the assumption that a block is a whole number of sectors, at least
  two, which `nandb_init` guarantees for the chips it knows.
* `OnlyTargetEverChanges`: a program, although its window reaches into other
  pages, changes only bytes of the addressed page, an erase only of the addressed
  block, and a stop in the middle of either no others. One lemma says what a program
  does (`ProgramTarget`), one what an erase does (`EraseTarget`), and
  `StoppedTarget` that a file which is new up to some byte differs from the old
  one nowhere else.
* `LoadAlwaysExact`: the window of a load presents only bytes of the addressed
  page.

### 4.2 The driver's scripts

`NandDriverProofs` proves `EmulatorKeepsRunning`, `ReadsStayInBuffer` and
`DriverTypeCorrect`: for every geometry, any requests in any order and restarts
at any moment, no cycle that the kernel, the boot reader or the boot loader
issues ends the emulator, and each byte read comes from the page buffer. The
assumptions are `DriverGeometry` (three bytes name every row; `jz_mtd` pairs
whole blocks), `RequestData` (a page's data has the length of a page) and, as a
hypothesis, `NoPlaneProgram`: the two-plane program's command 0x11 does end it.

The invariant has to speak of the rest of a script, whatever its length, which
an induction would do by recursion over the script. Instead a run is a function
from positions to abstract chips (`RunTo`). An abstract chip is the command, the
address, the address cycle, how many bytes can be read for certain and from
which place of the image, how many bytes of the request have been read, and how
many have been received for a program. `CycleRuns` is what a cycle does to it
when the emulator survives and the cycle does what the request asks: a read must
be of the place the request wants next (`Place`), a byte written the one it
sends next (`Sent`), a confirming command must find the address and the bytes of
the request (`Filled`, `Aimed`).

`RunJoin` puts runs of two parts together, and a lemma per part of a script (a
column, a row, reads, writes, each command) and per script builds
`ServesScripts`: from wherever the last request left the chip, each script runs
to its end and by then has read all the bytes the request wants. `DriverInv`
says that what is left of the script runs from where the chip is, under
`Agrees`, which ties the abstract chip to the real one: the bytes left in `io`
are those of their places, those in `got` the ones wanted so far, those received
the ones sent. One lemma per kind of cycle (`CommandAgrees`, ...) says that the
chip follows the abstract one. The address needs the five bytes one by one
(`Digits`, `SetDigit`), because an address cycle replaces one byte and the row
that is loaded afterwards has to be a row of the chip.

`NandArrayProofs` proves `DriverImplementsArray`: for every geometry, requests,
contents of the image, and restarts between cycles or inside one, the driver over
the chip implements `NandArray`. Besides `NoPlaneProgram` it has the hypothesis
`NoPlaneErase`, since the two-plane erase is carried out on one block of the
pair (section 5); the two-plane reads are included. `ConfirmsOnce` is what `DriverInv` lacks: a
script that changes the array holds one confirming command (`OnceMutating`), so
the effect happens at one instant. Then

* the confirming cycle is the array's `Commit`: `ProgramBytes` and `EraseBytes`
  say byte by byte what it writes, `WriteCommits`, `WriteOobCommits` and
  `EraseCommits` that these are the pages the array promises (`ConfirmedImage`);
* the other cycles leave the image and the effect as they are (`ImageStays`,
  `EffectedStays`);
* `Finish` is the array's: the script is at its end, so all the bytes have been
  read (`ScriptComplete`), and cut into buffers they are the array's answer
  (`Answered`, a lemma per operation);
* a restart, wherever it falls, is the array's `PowerCycle`: between two cycles
  the array is as it was, and inside the confirming one `WrittenTears` turns the
  byte of the file the write had reached into the byte the array is torn at.

The theorem is about `Spec`; `FairSpec`, which the run checks, implies it.

### 4.3 The driver's interface

`NandAccessProofs` proves, for any tasks, `nand_chip`s, pages and requests, with
restarts at any moment:

* `AccessTypeCorrect`, from `TypeInv`: the types alone are not inductive, since
  a page number is used as an index, so `SpanOK` adds that a request in progress
  stays between its next and its last page.
* `LockExclusive` and `NoLostWakeUp`, from `LockInv`. `Exclusive` needs
  `HolderOwns` (the task inside is the one `active` and the chip's state speak
  of) and `SleepersWillWake` needs `OwnerInside` (an owner is a task that is
  inside and will release).
* `CacheTrue` and `ReadsTrue`, under the assumption `OneChip`: with one
  `nand_chip` every way the flash changes drops or agrees with the cached page,
  and a read delivers what the flash holds. With two, `nand_shared_buffer` shows
  that it does not hold.
* `MarksAreKnown`, under the assumption `MarksSound` (no write in mode AUTO, the
  page of the mark inside its block). `MarkInv` says where marks can be, that a
  mark still to be written is in the table already, and what the scan at
  start-up has read; a restart that comes between the table and the flash
  empties the table, and the scan must find again whatever reached the flash.

### 4.4 Interrupts

`IrqProofs` proves all the safety properties of `IrqKernel` for any set of lines
from one invariant, `IrqInv`. `FrameOK` says of every interrupt on the stack
what is true of its line from the point it has reached: masked, not pending, not
in the static copy, its device with an event. `CpuInv` says where interrupts can
be enabled, so that a new frame finds the one below it in a handler that allows
it, or running softirqs. `UniqueInv` (no two frames hold one line) follows from
the masks: a dispatcher chooses from lines that are pending and unmasked. Then
`NoReentry` and `NoSpuriousHandler` are read off, and `NestingBounded` is a
counting argument: the frames between the innermost and the outermost hold
distinct lines.

### 4.5 The timer

`TimerProofs` proves, for any rates with `TickStep <= SyncStep`, any counter
width, latch and passing of time:

* `TimerTypeCorrect` and `TimersAlwaysArmed`, from `TimerInv`, which adds to the
  types that the half bit is never enabled and that the counter's time is not in
  the future. Every register write is shown once to keep `GoodChannel`.
* `TicksNeverEarly`, from `EarlyInv`. The state `jiffies` speaks of is not
  enough: a tick may be pending, or acknowledged and not counted yet, so
  `Claimed` adds those to `jiffies`, `TickInv` says that the claimed ticks fit
  in the time passed and that the armed match is a period later than them, and
  `SetUpInv` says that from the moment the kernel sets the counter to 0 the
  counter is never ahead of the time (`NotAhead`), which is what makes the first
  match late enough whatever the boot loader left.
* `ClockDifferencesTrue`, under `ClockFits`: the host is late by less than what
  the slow counter leaves of a tick, and the mask is three ticks wide. `PaceInv`
  says that after the first match the counter measures the time since the last
  match at the rate of `time_sync`, so that it never wraps; `BaseInv` keeps
  `cycle_last` within a tick of `jiffies` on either side, with the moments
  between the tick and the update of the wall time told apart.
* `TimestampBounded`, under `SyncStep <= BootStep` (`time_sync` counts no slower
  than the boot loader's prescaler; they are equal). `LoaderInv` charges every
  count of the timestamp to time that has passed, a wrap of the counter included
  because the subtraction knows of it, and gives each match an allowance of one
  turn, which a counter set back adds wrongly; matches are at least a turn
  apart, so the allowance is at most the time once more.

### 4.6 The touch screen

`TouchProofs` proves all the safety properties of `TouchDriver` for any ring and
any number of samples. `ControlInv` joins what ties the three flows together:

* `SampleInv` (`SoftirqNeverSleeps`): `TSRDY` comes with `PEND` and no write of
  the driver clears it, since the one that is meant to
  (`REG_SADC_STATE &= ~TSRDY`) writes zero to it and ones to the other flags.
* `PhaseInv` (`TimerGoneAfterRelease`): without a handler no timer is started,
  and the handler is gone before the timer is deleted.
* `MaskInv` (`AlwaysListens`): each change of the pen masks itself and unmasks
  the other.
* `LiftInv` (`LiftAlwaysLast`): an acquisition that may report the pen down
  remembers it, and is started again until it or the handler reports a lift.

`RingImplementsQueue` is a refinement: every step of the driver is a step of
`EventQueue`, or none, under `Waiting`, for every `Size`. `RingInv` places the
next slot to write, and `WaitingOK` reads the ring as a sequence.

### 4.7 Only model-checked

The liveness properties (`RequestsEnd`, `Served`, `PendingServed`,
`ReaderWoken`), which are out of the prover's reach, as are facts by induction
over data. Every other property of a passing run is a theorem.

## 5. Findings

1. `nand_image_grows`: the image grows when one of the last pages is programmed,
   and the emulator then refuses its own image (`nand_bpage.c:158`, `:478`).
2. `nand_shared_buffer`: the two `nand_chip`s share a data buffer and each
   believes its own `pagebuf` (`nand_base.c:2896`), so a read of a part of a
   page can deliver a page of the other device.
3. `irq_forgotten`: the emulated controller drops events on masked lines
   (`mips_jz.c:496`).
4. `touch_timer`: the handler starts the acquisition timer between the
   acquisition's own `del_timer` and `add_timer` (`jz_ts.c:171`), and the
   assertion of `add_timer` fails.

Seen while modelling, and part of the models, though no run is about them:

* NAND chip: it remembers one row, so the two-plane erase of a kernel built with
  `pavo_defconfig` erases one block of the pair; the two-plane program sends
  command 0x11 (`jz4740_nand.c:911`), which the emulator exits on.
* NAND driver: a page with uncorrectable errors is kept in the buffer
  (`nand_base.c:1252`), and its second read in part reports success. A write in
  mode `MTD_OOB_AUTO` starts from what the last operation left in the
  out-of-band buffer (`nand_base.c:1929`); the mark of a bad block that was read
  before goes with it to a good block.
* `pavo_defconfig` puts the bad block mark on page 127 of each block; the
  emulated chip has 64 pages in a block. The scan then looks at a page of the
  next block and, at the last one, past the device, and gives the table up. The
  boot loader does the same (`CFG_NAND_BADBLOCK_PAGE`, `pavo.h:147`).
* Interrupts: an `eret` does not re-evaluate the request, so an interrupt that
  came while interrupts were off waits for the next event; the periodic timer
  brings one, which is why `PendingServed` holds. An interrupt that comes while
  its line is disabled is marked for a replay (`resend.c:60`) that nothing does.
* Timer: a clock read between a match and its tick's handler sees a counter that
  has restarted with the jiffies from before, and the mask turns the difference
  into a leap forward. `ClockInRange` excludes exactly that moment.
* Timer: the counter is advanced at the boot loader's rate also when the kernel
  has selected a rate 16 times higher, so it has reached a sixteenth of the
  compare value at a match, and the comment of `mips_jz_glue.h:119` does not
  hold; and the half match never fires, as no write can set its enable bit. A
  compare value written below the counter sets the match minutes away
  (`mips_jz_glue.h:110`).
* Timer: each match is set a period after the previous callback ran, and a match
  during the tick's own handler is dropped: the guest's time falls behind, never
  ahead.
* Boot loader: `get_timer_masked` takes a counter that went back for one
  overflow, but a late match sets it back after it has wrapped, and the turn is
  counted twice. `TimestampAtMostTwice` bounds what this adds.
* Touch screen: an event between a reader's look at the queue and its
  `set_current_state` does not wake it (`jz_ts.c:252`), and it sleeps over a
  queue that is not empty until the next event. A tap shorter than the interrupt
  clears both changes together (`sadc.c:408`): the handler has then counted one
  change for two and takes every touch for a lift from then on. A second mouse
  button during a touch hides the lift (`mips_jz.c:2690`). The line is raised
  when a flag and its mask are both set, that is for masked changes
  (`mips_jz.c:2661`).

Seen while reading, outside the models:

* The first stage of the boot loader takes 32 pages for a block
  (`nand_boot_jz4740.c`, from the emulated identification byte 0x48) where the
  chip and the kernel have 64; its environment (`CFG_ENV_OFFSET`, 1 MiB) lies
  inside the 1 MiB it loads U-Boot from at 256 KiB (`pavo.h:170`).
* A raw page read with the Reed-Solomon unit sends no command for the page
  (`nand_base.c:1223`, `:927`); `pagebuf << page_shift` is an `int`
  (`nand_base.c:1924`).
* `jz_ts.c:284`: a second open fails with `EBUSY` after it has emptied the queue
  and set up again a timer that may be pending. `sadc.c:483`: the filter divides
  by the smaller of two samples, which is 0 in the corner of the screen.
* Real-time clock: every write of its control register restarts the host timer
  at the present moment (`jz4740_rtc_start`, `mips_jz.c:1350`), so each counts a
  second at once, the interrupt handler's clearing of the 1 Hz flag too; and the
  test for the alarm looks at a bit of the seconds, not of the control register
  (`mips_jz.c:1374`), so an alarm whose seconds have bit 2 clear never comes. A
  second open of `/dev/rtc` returns with `rtc_lock` held (`rtc_jz.c`,
  `rtc_open`).
* DMA controller: a descriptor transfer is called with source and target
  exchanged, and takes the offset of the next descriptor from the wrong word
  (`mips_jz.c`, `jz4740_dma_drun`).
* `pavo_nandflash.c`: a short last page keeps the bytes of the page before, a
  partition that fills its last page exactly gets that page twice, and a second
  run over an image leaves the pages of the first behind.

## 6. Plan

Done: the chip, its abstract array, the driver's scripts and interface, the
interrupt path, the timer with the boot loader and the kernel's tick, the touch
screen with its driver, and the proofs of every safety property and of both
refinements.

Next, in this order:

1. `Rtc`: the real-time clock with `rtc_jz.c`. What should hold: an alarm that
   is flagged is delivered although its interrupt may be dropped, since the
   host timer raises the line again each second.
2. The touch screen and the clock as devices of `IrqKernel`, in place of its
   free events.
3. The GPIO and DMA cascades of the dispatcher.

## 7. Not modelled

* Host I/O errors; the 16-bit chip; the contents of ECC; the LCD's pixels; the
  serial port (third-party `serial.c`); timer channels 1 to 7, which have no
  host timers; suspend, which nothing calls.
* The clock tree: a table of rates the boot loader sets. Of the modelled parts
  only the timer depends on one, and `time_sync` has a constant for it.
* The DMA controller: a transfer is a copy done within one register write, and
  no modelled part uses it. GPIO and CPM: registers that raise no interrupt.
* The real-time clock: see the plan.
* The image tools: sequential copies of files with no state between calls.
* `nand_load`'s loop of the boot loader, its Reed-Solomon correction and the
  rest of it; QEMU's translator and block layer, the Linux kernel and its file
  systems except where the parts above depend on them.
