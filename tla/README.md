# A TLA+ model of the SeshOS kernel

SeshOS is a small x86-64 kernel in C. It is loaded by Limine, logs to a serial
port and then to a framebuffer console, sets up a heap, an IDT and the two 8259
interrupt controllers, reads an initial ramdisk, looks for PCI devices through
ACPI, starts an AHCI disk driver, and from then on halts and echoes what is
typed. There is one processor and one thread; everything concurrent is an
interrupt, a device, or the clock.

The modules here say what that code does, one module per part. TLC checks them
on small instances; for the heap, the input line, the console, the interrupts,
the disk driver, the clock and the boot, TLAPS proves most of their safety for
every value of the constants (section 5). Paths below are relative to the
repository's root.

## 1. Inventory

| Part | Source | State it keeps | Operations | What makes it correct |
|---|---|---|---|---|
| Kernel heap | `kernel/memory/malloc.c`, `mem.c` | `kernieHeap_space`, `kernieHeap_is_set_up`, `last_valid_address`, the headers in memory | `MEM_Init`, `malloc`, `realloc`, `free`, `memcpy` | headers stay intact, blocks stay apart, a live block changes only by its owner's stores, a stale pointer never names somebody else's block |
| Escape parser | `kernel/video/ansi.c` | `escapeSequence`, `escapeSequenceLength`, `escapeCompleted`, the attributes in `TTY_*` | `TTY_HandleEsc` | a sequence ends at its `m`, and the attributes are then what it asks for |
| Framebuffer console | `kernel/video/fbcon.c`, `renderer.c`, `kernel/tty.c` | `esc`, `TTY_CursorX`, `TTY_WriteFunc`, colours | `FBCON_Write`, `FBCON_Init`, `putchar`, `puts`, `TTY_SetWriteFunc` | glyphs land on the row, the cursor is where the text ends |
| Serial output, log | `kernel/serial/comout.c`, `kernel/log.c` | the same cursor | `COM_LogWrapper`, `log` | a line starts at column 0 and leaves default attributes |
| Keyboard | `kernel/userinput/keyboard.c` | two shift flags, `input[100]`, `i` | `HandleKeyboard` | the buffer is a line editor's line; the screen shows it |
| IDT, PICs, handlers | `kernel/idt/*.c`, `kernel/panic.c` | the IDT, the PICs' masks and vectors | `create_idt`, `remap_interrupts_for_io`, the handlers, the end-of-interrupt commands | no device lands on an exception's vector, no reset, every key read once and in order |
| AHCI driver | `kernel/disks/sata.c` | `AHCIDriver`, command lists and tables, the adapter's registers | `AHCIDriver_Init`, `ProbePorts`, `Configure`, `StopCMD`, `StartCMD`, `Read` | engines stand while their lists change, commands go to ready devices, success means data |
| Real-time clock | `kernel/time.c` | none | `GetTime`, `sleep` | the time returned was the time; `sleep` waits for its ticks, and ends |
| ACPI, PCI | `kernel/acpi/acpi.c`, `kernel/pci/*.c` | `mcfg` | `ACPI_Init`, `EnumeratePCI` and its three walks | every function is found once, the driver started once per controller |
| Initial ramdisk | `kernel/fs/ramfs.c` | `headers[32]` | `parse`, `getsize`, `readFile`, `ls` | `headers` points at headers; `readFile` finds the file |
| Strings | `kernel/string.c` | `to_hstring`'s one buffer | `strstr`, `atoi`, `strcmp`, ... | what `include/string.h` says |
| printf | `kernel/video/printf.c`, `printf.h` | the gadget of a call: `pos`, `max_chars`, `buffer` or `function` | `printf`, `sprintf`, `snprintf` and their variants, over `formatStringLoop` | what is printed is what the format means; arrays and formats are not overrun |
| Boot loader interface | `kernel/boot` | `BOOT_LoaderID`, `BOOT_LoaderName`, `BOOT_LoaderVersion` | `BOOT_CheckLoader`, `LM_Check`, `LM_GetFramebuffer` | a missing response is found before it is followed |
| Boot sequence | `kernel/init.c`, `kernel/kernel.c` | `initramfs`, the addresses and the offset taken from responses | `init`, `_start` | the order of all of the above; a boot that stops short says why |
| Others | `kernel/gdt`, `kernel/audio`, `kernel/video/video.c`, `kernel/io.c` | - | - | see section 8 |

How they interact:

- **Calls.** `log` and `printf` end in `putchar`, which calls whatever
  `TTY_WriteFunc` points to; `FBCON_Write` calls `TTY_HandleEsc`, and itself
  again through `putchar` for a backspace. `EnumerateFunction` calls
  `AHCIDriver_Init`, which calls `malloc`.
- **Interrupts.** IRQ 1 runs `Keyboard_Handler`, and it prints: so `esc`, the
  escape buffer and the cursor are shared between the boot thread and the
  handler, with no lock and interrupts on from `create_idt` to the end of
  `init`. This is the only concurrency within the kernel and it is the hardest
  thing in it.
- **Devices.** The PICs, the keyboard controller, the AHCI adapter with its
  disks, and the clock run beside the code and change between two of its
  accesses.
- **Failure.** A command may fail after part of its data came, a device may stay
  busy; the boot loader may leave a request without a response, the firmware
  may lack a table. Nothing is persistent, so there is no recovery. `panic` halts;
  a fault before the IDT is loaded resets the machine.

PROJECT.json lists the hazards that follow from this, each at its line.

## 2. Modules

| Module | Models | Composed from |
|---|---|---|
| `Allocator` | what `malloc.h` promises: live blocks as independent functions | - |
| `Heap` | `malloc.c`, `mem.c`, and the memory-map loop of `init.c` | refines `Allocator` |
| `Tty` | `ansi.c`, `fbcon.c`, `comout.c`, `log.c` as functions of a console | - |
| `Keyboard` | `keyboard.c` as a function of keyboard and console | `Tty` |
| `LineEditor` | an abstract line editor | - |
| `LineInput` | `_start`'s idle loop with the keyboard interrupt | `Keyboard`; refines `LineEditor` |
| `Console` | the boot thread printing, access by access, with the interrupt in between | `Keyboard` |
| `Interrupts` | `idt.c`, `interrupts.c`, `panic.c` with processor, PICs, keyboard controller | - |
| `Ahci` | `sata.c` with adapter and disks | - |
| `Rtc` | `time.c` with the CMOS clock | - |
| `PciScan` | `acpi.c`, `pci.c` with firmware tables and configuration space | - |
| `Ramfs` | `ramfs.c` with a tar archive | - |
| `Boot` | `init.c`, `kernel.c` and `kernel/boot` with the loader's responses | `Ramfs`, `PciScan` |
| `Conversions` | what a format string means in C: the reference for `Printf` | - |
| `Printf` | `printf.c`, a turn of `formatStringLoop` a step | `Conversions` |
| `HeapProofs`, `ConsoleProofs`, `InterruptsProofs`, `AhciProofs`, `RtcProofs`, `BootProofs` | the theorems about the module of that name | it, TLAPS |
| `KeyboardProofs` | lemmas about the functions of `Tty` and `Keyboard` | `Keyboard`, TLAPS |
| `LineInputProofs` | the theorems about `LineInput` | `LineInput`, `KeyboardProofs` |
| `MC*` | the instances TLC runs | one each |
| `Samples` | the archives and machines that three of them share | - |

### Heap

The memory is a function from addresses to cells. `HdrSize` cells stand for
`mem_control_blk`, of which the first holds the record `[free, size]`.
`malloc(n)` is the function in `malloc.c` line for line, the search included.
The search is dead: `have_allocated` in `mem.c` is never assigned, so `malloc`
always bumps. `memcpy` models the direction of the byte loop, because `realloc`
copies `mcb->size` cells, which is `HdrSize` more than the payload.

| Action | Code |
|---|---|
| `MapEntry` | one turn of `init.c:22-27` |
| `Malloc(n)` | `malloc.c:21-59` |
| `Free(p)` | `malloc.c:81-88`, of any pointer ever returned, again and again, or NULL |
| `Realloc(p, n)` | `malloc.c:61-79`, its three cases |
| `Store(p, i, d)` | a caller writes inside its own live block (external) |

`given` is a history variable: every pointer `malloc` ever returned.
`realloc` of a block that was freed is not modelled: it is the caller's error,
and what it copies is nobody's.

### Tty, Keyboard, LineInput

`Tty` has one operator per function of the console, each from a console record
to the next. `LineInput` is the system once `_start` halts: one action, `Key(k)`,
the whole handler, which runs with interrupts off. It follows the cells of the
cursor's row, so that what is on the screen can be compared with what is in
`input`: the column of a character is the number of echoed ones before it
(`ColumnOf`). The four keys with a character stand for all of them: they differ in
whether they end an escape sequence, open one, are a digit or something else. One
of them types `%`: the handler prints what was typed with `printf(str)`, and for
`%` alone that prints nothing (`Printf`'s `CutOff`), while the line keeps it.

### Console

The kernel is built without optimisation, so every access to a global is an
instruction of its own. Inside `FBCON_Write` and `TTY_HandleEsc` one step is at
most one such access; `pc` names the place and `reg` holds what was loaded.
`Interrupt(k)` is the whole handler, possible between any two steps while
interrupts are on. Three groups of accesses are one step (the arguments of
`putchar`, the scan by `strstr`, the stores of one `case`), as the module says.

`Program` is the calls the boot makes, any sequence of which
`ProgramAssumption` holds: the serial port is the first output, the framebuffer
takes over only right behind `FBCON_Init` or a line of the log (the cursor is at
column 0 then), and interrupts are enabled only after it has.

`raced` and `clean` are history variables: whether a key has ever arrived inside
`FBCON_Write`, and whether the current call has run without one.

### Interrupts

`create_idt` is a sequence of instructions: the gates, `lidt`, the twelve port
accesses of the remapping, the masks, `sti`. The PICs are modelled with mask,
request and service registers, the four-word initialisation, priorities and the
cascade; the keyboard controller with a buffer that raises IRQ 1 when a byte
enters it. A handler is a sequence of what it still has to do, one instruction a
step, so requests arrive between its two end-of-interrupt commands
(`keyboard.c:62` and `interrupts.c:32`). A vector without a gate goes the way
the processor takes it: to the not-present fault, to the double fault, to a
reset.

### Ahci

One step is one access to a register of the adapter; `pc` names it after the
statement. The adapter's part: the engines follow `ST` and `FRE` some time
later, an issued command is fetched from the list that is in force, it
completes, or fails with all, part or none of the data transferred and halts the
engine. `Garbage` is what `malloc`'s memory holds at `portCount`, which
`ProbePorts` never sets. `heap` and `area` follow the addresses that
`Configure` gets from `malloc` and gives the adapter, in bytes: `malloc` bumps
(nothing is freed before), and table `i` lies `256 * i` bytes into its block.

The heap begins at one of `Bases`, anywhere in memory. The driver gives the
adapter 64 bits of each address but reaches the list (`sata.c:71`), the header
(`sata.c:120`) and the table (`sata.c:125`) through the low 32. `Within32` says
that these lead to the same place, `Word` being 2^32. Where they do not, the table
that the adapter will fetch stays as it was, and what is stored goes to other
memory or to a page that is not there. Wherever the driver may follow a wild
pointer, from this or from `portCount`, one of its ways ends in the state `wild`;
on the others it goes on, and what the stray stores overwrite is not followed.

### Rtc, PciScan, Ramfs

`Rtc`: one step is one register read, and the clock ticks between any two; `ticks`
counts those a sleep has lasted. `PciScan`: one step is one turn of a loop; the
configuration space is any set of functions, of any class: one of 20 or more is
named by what lies behind `DeviceClasses`, some text or a fault. `Ramfs`: one step
is one turn of `parse`'s, `readFile`'s or `ls`'s loop over an archive laid out the
way tar lays it out. Behind the first header `ls` takes `strcmp`'s 0 and prints
the names equal to the one before: a directory's once more for each entry behind
it, a second file's not at all.

### Boot

One action per statement of `init` that can go wrong or that a later one depends
on. A response is there or not; following one that is not is a page fault, which
resets the machine until `create_idt` has loaded the IDT and panics afterwards.
`MouseInterrupt` may come between any two steps once the IDT is loaded, if there
is a mouse that reports; it panics (`Interrupts`' `NeverResets` says how).
`Parse`, `ScanStep`, `Call` and `Turn` are the actions of `Ramfs` and `PciScan`,
instantiated with `Boot`'s variables. `create_idt`, the console's output and
`AHCIDriver_Init` are single steps here; `Interrupts`, `Console` and `Ahci` open
them up. The driver's step has every end that the driver may have (`DriverEnds`):
it faults for want of a heap; it returns to the walk; it stays in one of its waits
that have no limit, which is the place `AHCI`; or, if its pointers may be wild
(`Wild`), it panics or resets, a wild store being able to ruin the IDT. `Wild` is
`residue` (what `malloc` returns is not zero where `portCount` lies) or a heap in
a region that the driver's memory does not fit in below 4 GiB; which regions it
fits in is the constant `Roomy`, since no size of a region matters otherwise.
Nothing in the kernel calls `readFile` and `ls` yet: `Call` takes their calls from
the idle loop, where a caller would come from.

| Action | Code |
|---|---|
| `SetWriteFunc`, `BOOT_CheckLoader`, `FBCON_Init` | `init.c:19-21`, `checkLoader.c`, `fbcon.c:93-121` |
| `MapEntry`, `MapEnd` | `init.c:22-27` |
| `TakeModule` | `init.c:28` |
| `CreateIdt`, `TakeAddresses`, `TakeHhdm` | `init.c:30-42` |
| `TestRamdisk`, `Parse` | `init.c:44-48` |
| `EnterACPI`, `ScanStep` | `init.c:50-52` |
| `Greet` | `kernel.c:24-35` |
| `MouseInterrupt` | vector 44, unmasked at `idt.c:46-47`, without a gate |

### Conversions, Printf

`Conversions` defines what a sequence of pieces (text, fields, a field cut off by
the format's end) is written as and what it stands for, from the C standard and
without a look at the code; the form of a pointer and of `b`, which the standard
leaves open, is the library's. `Printf` is the code: the outermost loop is a state
machine, and the functions below it take a gadget and return it as they leave it.
Its flags, columns and one 32-character buffer are the code's, so what the two
must agree on is reached by different ways.

The gadget keeps, beside the code's fields, every character it was given (`text`)
and whether anything was written behind the array (`past`). Numbers stay below
31 bits, which is what TLC computes with; floating point is switched off where
the kernel is built (`printf.h:31-38`).

## 3. Runs

| Run | What it shows |
|---|---|
| `heap` | `TypeOK`, `HeapWellFormed`, `NeverRecycled`, and that `Heap` implements `Allocator` |
| `line_input` | `InputTerminated`, `EchoMatches`, and that `input` implements `LineEditor`, Backspace on an empty line included |
| `console` | without a key inside `FBCON_Write` glyphs stay on the row (`DrawsOnRow`); whatever keys did, an undisturbed log line that finds no NUL inside the pending sequence repairs the console (`HealsTheConsole`) |
| `escape_seen` | finding: an `m` just appended is not recognised |
| `interrupts` | `NeverResets`, `BytesInOrder`, `NothingInService`, `DevicesAbove32`, and that keys are served in the end (`KeysServed`) |
| `ahci` | `BasesChangeWhenOff`, `FetchesTheRead`, `IssuesWhenReady`, `SuccessHasTheSector`, `NoLateTransfer`, `OnlyDisksTouched`, that no two regions the adapter may access overlap (`MemoryApart`), and that `AHCIDriver_Init` ends |
| `rtc` | `sleep(n)` returns only after n ticks (`WaitsForTicks`); `TimeIsExact`, `EndsWithinTheMinute` |
| `sleep_returns` | finding: a sleep that reaches past second 59 does not end |
| `boot` | why a boot stops short (`StopsForCause`, `DriverHasMemory`), that parse and the walk find everything (`HeadersAreMembers`, `ScanIsComplete`), that the boot ends (`BootEnds`), and that calls return without having left `headers` (`RamfsReturns`) |
| `ramfs_strcmp` | finding: `readFile` returns a file with another name |
| `printf` | `PrintsTheMeaning`, that an array holds what fits and nothing is written behind it (`ArrayHoldsThePrefix`), and that only a format that ends behind flags or digits is read behind its end (`CutsAreSeen`) |
| `printf_cut` | finding: a format is read behind its end |

For each property of a passing run PROJECT.json names a mutant, an operator
beside the definition it replaces, under which the run fails. The mutants are
plausible slips in the code (a wait left out, a line not cleared, an EOI not
sent) and are used by nothing else.

### Bounds, and why they are enough

- `heap`: nine cells, headers of one cell, sizes 0 to 2, two values to store. Up
  to four non-empty blocks fit; two would do to overlap, three to be wedged
  between. The memory map has a usable region, an unusable one, and a usable one
  again, which wins. The values are symmetric. The theorems need no bound.
- `line_input`, `console`: rows of 3, an input line of 4, so that a line wraps and
  is then erased backwards. `console` runs the calls of `init` in their order with
  one-character messages, at the levels debug, info and warn, and at most two
  keys: one to disturb, one to disturb again before the repair. `BufSize` is 16,
  longer than any sequence that two keys leave pending; `Fits` names the guard.
- `interrupts`: three scan codes (one served, one in the controller, one behind
  it), the timer (masked), the keyboard and the mouse (unmasked, on the slave),
  four exceptions of which three have gates and one, 6, has none.
- `ahci`: two ports, so that one may be skipped, each with any device, left
  idle or running, busy or not, with or without an old error; a spin limit of 2
  instead of 1000000; all 32 slots with their real sizes; three values for the
  uninitialised count: 0, one that leaves an entry unwritten, and 255, which is
  out of range. `Word` is 2^20 in the place of 2^32, and the heap begins at 0, at
  `Word`, and 5000 below it: there the first port's list lies below 4 GiB and its
  tables above. Both ports' memory is some 300000 bytes, so from 0 it all fits.
- `rtc`: a clock that starts over after two minutes, calls around a change of
  the tens digit (where BCD and binary part), at the end of a minute and at the
  end of the clock. A sleep begins at any instant between two ticks.
- `boot`: every combination of missing responses, with a memory map that is
  missing, has no usable region, two among four, or two of which the last is not
  `Roomy`; each with a mouse and a `residue` or without, with one archive and one
  machine; and every archive and every machine with the usual loader, since the
  three do not meet in the code but through `initramfs` and `heap`. The machines
  have two buses, devices and functions: present or absent, first or last. Five
  firmwares: no RSDP, no RSDT, no MCFG, one range, several. A function that is
  present has the header of QEMU's host bridge or of its AHCI controller, or, in
  the place of the bridges, that of a coprocessor, whose class (64) is behind the
  end of `DeviceClasses`. The archives, also of `ramfs_strcmp`: blocks of 4 and up
  to three members of sizes 0, one whole block, and two blocks and a part, the
  last in two digits; names `./a`, `./a/b` and `./b`, of which one starts another
  and lies in its directory.
- `printf`: every set of the five flags, with widths 0, 2, 3 and 6 and precisions
  none, 0, 1, 3 and 6, for the numbers 0, 1, 26 and -7: each of width and precision
  below, at and above the number of digits, and of each other, with a digit that
  is a letter. Lengths with arguments on both sides of their limits; stars of
  both signs; strings shorter and longer than width and precision; formats cut
  off behind every part of a field (the `%`, flags, a width, the point, a
  precision, either star, a length of one letter and of two), in front of further
  text as well; fields of exactly 32 characters; arrays
  of 0 to 9 cells for a text of seven; and the three `sprintf` calls of the kernel
  that come closest to the end of their arrays.

`CHECK_DEADLOCK FALSE` stands where a run really stops: the heap and the console
reach their bounds, or the last call of the program returns; `interrupts` halts
after a panic; `ahci`, `rtc`, `boot` and `printf` finish.

### Fairness

- `Interrupts`: `WF(Processor)`. The processor executes instructions, and takes
  an interrupt that stays pending while the flag is set (`_start` halts with it
  set). Nothing is assumed of devices and keys.
- `Ahci`: weak fairness of the driver, of each engine following its command
  register, and of a command ending in one way or the other: `InitEnds` is about
  adapters that follow, since the code's waits for them have no limit. That a busy
  device becomes ready is not assumed; the spin limit is there for that.
- `Rtc`: the processor runs, the clock ticks. The clock ticks at most once
  between two reads of its seconds, which are sixteen port accesses apart.
- `Boot`: the boot thread runs (it halts nowhere before its idle loop), and a
  call of `readFile` or `ls` once begun goes on; nobody need call. Of the adapter
  nothing is assumed here: a driver that waits for ever is one of the ends of
  `BootEnds`.
- `Heap`, `LineInput`, `Console`, `Printf`: none, only safety is stated.

## 4. Findings

1. **Lost escape sequences** (`escape_seen`). A key between two of the accesses
   of `ansi.c:13-14` leaves a NUL in front of a character the boot thread has
   appended. `strstr` stops at it, so no later `m` completes the sequence: the
   console stays in escape state, shows nothing more, and `escapeSequence` grows
   past its 256 bytes. The console heals itself only if no NUL was left inside,
   which is the hypothesis of `HealsTheConsole`.
2. **`sleep` may not return** (`sleep_returns`). It waits for second
   `oldtime.sec + seconds`, which may be 60 or more. `sleep(2)` at second 58
   never ends. `EndsWithinTheMinute` is the part that holds.
3. **`readFile` finds the wrong file** (`ramfs_strcmp`). `strcmp` returns 0 for
   equal strings, `readFile` takes non-zero for found. The loop's own test never
   fails, so this is also the reason it ends at all (`RamfsReturns`).
4. **A format read behind its end** (`printf_cut`). `printf.h:75` promises "Be
   extra-safe, and don't assume format specifiers are completed correctly", and
   the end is looked for behind the `%`, a star, the point and a length. Behind
   flags and digits it is not (`printf.c:757-762`, `782-783`): in `"%-"`, `"%5"`
   or `"%.3"` the terminator is taken for a specifier, printed, and what lies
   behind it is read as the rest of the format. `CutsAreSeen` is the part that
   holds. The kernel has no such format; what is typed it prints a
   character at a time.

Seen on the way, and stated as hypotheses of properties rather than as findings: a
tick from second 59 between two register reads of `GetTime` gives a time that no
clock showed (`TimeIsExact`); `portCount` is used uninitialised
(`OnlyDisksTouched`, `StopsForCause`); IRQ 12 is unmasked without a gate, so a
mouse interrupt ends in the double-fault handler's `panic` (`StopsForCause`;
`NeverResets` says that it gets no further); a scan code in the controller when
the PIC is initialised blocks IRQ 1 (`KeysServed`); the last bus of an MCFG range
is not walked (`Reachable`); a typed `%` is in the line but not on the screen
(`EchoMatches`, which holds until something is erased from such a line); a sleep
counts ticks, the first of which may come at once, so it may be up to a second
short of what `time.h:24` says (`WaitsForTicks`); above 4 GiB the driver's 32-bit
pointers do not lead to what it has given the adapter (`FetchesTheRead`,
`OnlyDisksTouched`); a PCI class of 20 or more is named by whatever lies behind
`DeviceClasses` (`StopsForCause`); the test of `init.c:44` for a missing ramdisk
comes after `init.c:28` has followed the response, so that a missing module resets
the machine instead (`StopsForCause`); the last command table of a port lies in
the port's buffer, behind the sector that is read (`MemoryApart`).

Seen in the log and the search for devices, and modelled without a property: two
fields of a function that `pciDesc.c` has no text for show the same number, from
`to_hstring`'s one buffer (`Shown`), where `string.h:33` promises each its own;
and the colour of the level error, `0;31`, is read by `atoi` as one code that
nothing stands for, so errors are not red (`LevelColor`).

Seen in `printf`, and taken by `Conversions` as the library's own form: `%x` prints
capitals, like `%X` (`printf.c:268`), and `%#b` of 0 with a precision prints `0b`.
Left out of the calls it is checked with: a number of more than 32 characters, of
which the sign is dropped first; a negative precision from a star is 0 where C has
none. What is behind a format that `printf_cut` is about is not known, so the
other two properties say nothing of such a call.

## 5. What is proved

| Module | Theorems | Property |
|---|---|---|
| `HeapProofs` | `TypeCorrect` | `TypeOK` |
| | `HeapStaysWellFormed` | `HeapWellFormed` |
| | `HeapImplementsAllocator` | `AllocatorContract`, the refinement |
| | `FreedForever` | `NeverRecycled`, an action property |
| `LineInputProofs` | `TypeCorrect` | `TypeOK` |
| | `InputStaysTerminated` | `InputTerminated` |
| | `ScreenShowsTheLine` | `EchoMatches` |
| | `LineInputImplementsLineEditor` | `LineEditorContract`, the refinement |
| `ConsoleProofs` | `TypeCorrect` | `TypeOK` |
| | `GlyphsOnRow` | `DrawsOnRow` |
| | `LogLineHeals` | `HealsTheConsole` |
| `InterruptsProofs` | `TypeCorrect` | `TypeOK` |
| | `TheMachineStays` | `NeverResets` |
| | `EachByteOnce` | `BytesInOrder` |
| | `HandlersEndTheirInterrupt` | `NothingInService` |
| | `DevicesStayAbove` | `DevicesAbove32`, an action property |
| `AhciProofs` | `TypeCorrect` | `TypeOK` |
| | `OnlyTheReadIsFetched` | `FetchesTheRead` |
| | `SuccessIsTheSector` | `SuccessHasTheSector` |
| | `OnlyDisks` | `OnlyDisksTouched` |
| | `MemoryIsApart` | `MemoryApart` |
| | `BasesWhenOff` | `BasesChangeWhenOff`, an action property |
| | `IssuedWhenReady` | `IssuesWhenReady`, an action property |
| | `NothingLate` | `NoLateTransfer`, an action property |
| `RtcProofs` | `TypeCorrect` | `TypeOK` |
| | `SleepsForTicks` | `WaitsForTicks` |
| | `GetTimeIsExact` | `TimeIsExact`, an action property |
| `BootProofs` | `TypeCorrect` | `TypeOK` |
| | `StopsOnlyForCause` | `StopsForCause` |
| | `TheDriverHasMemory` | `DriverHasMemory` |
| | `TheWalkIsComplete` | `ScanIsComplete` |
| | `HeadersFound` | `HeadersAreMembers` |

Each is of the form `Spec => []P` (or `Spec => P` for an action property and for
a refinement), by an invariant of the module's own that is inductive. Every
proof has one lemma for each action, named after it (`XKeeps`). None assumes
fairness: `Spec` has it where it is stated, the proofs use only the initial
states and the steps.

### Heap

`HeapProofs` is for every memory map, header size, set of sizes and of values,
and every `AddrMax`. The assumptions are those `Heap` declares: the header has
at least one cell, the map is a sequence of entries, sizes are natural numbers.
`AddrMax` stands for an upper end that the code does not have; the guards built
from it say that the machine's memory is not exhausted.

The inductive invariant is `HeapInv`, the conjunction of

- `TypeOK`, without which nothing can be computed;
- `HeapSpan`: while the map is read there was no `malloc`, before the first
  `malloc` nothing was handed out, and afterwards `heapSpace <= lastValid` and
  `lastValid` is in the memory or just behind it. It ties the two ways
  `malloc.c:22-25` finds its starting point to the blocks that exist;
- `HeadersIntact`, `BlocksDisjoint`, `BlocksTile`, which are `HeapWellFormed`.
  `HeadersIntact` bounds each block by the top, so the new header and the copy
  of `realloc` fall on no old cell; `BlocksDisjoint` is what makes a store to a
  payload miss every header.

None of the three survives alone: a store keeps headers because blocks are
disjoint, and blocks are disjoint because headers (their sizes) are kept. The
proof has a lemma for each action. Two lemmas carry most of it: `SameBlocks` (a
step that hands out nothing and keeps the sizes) and `NewBlock` (a step that
puts one header at the top). `ReallocMemory` computes the memory after `realloc`
in closed form, from `ReallocNoOverlap`: source and destination of the byte loop
never overlap.

For the refinement `live` is `Payload`, the contents of the blocks whose mark is
not set. `MallocRefines`, `FreeRefines`, `StoreRefines` and `ReallocMoveRefines`
map the actions to `Alloc`, `Release`, `Write` and `Resize`; a second `free` is
a stutter. `FreedForever` follows because no action clears the mark of a block
in `given`: the one place that would, the reuse in `malloc.c:33-45`, is dead.

### LineInput

For every `Width`, `BufSize` and `InputSize`.

`LineInv`, which is `WellFormed(kb)`, is `InputTerminated` with the type of the
keyboard's state: the console takes no part in what is stored. That it holds at
position -1 as well is what makes a Backspace on an empty line harmless: the NUL
it stores there meets one. One lemma for each branch of the handler
(`ClearKeeps`, `EraseKeeps`, `AddKeeps`, `ShiftKeeps`) says what becomes of the
line; the refinement needs no more, with `line` the characters below the length.
The guard `Room` stands for the bound on typing that the code does not have.

`ScreenShowsTheLine` needs the console too. `EchoInv` adds that no escape
sequence is open (no key types ESC), that the cursor is on the row, and, until a
line has reached the edge or a typed `%` was erased from, `Shows`: the cursor
stands behind as many cells as characters were echoed, each of which is in its
cell. A column is a cardinality, so a step needs only that adding an index adds
one to it (`ColumnGrows`) and that nothing below it changes (`SameColumns`).
`Shows` is not inductive without the two history variables of the module,
`wrapped` and `lost`, which are `EchoMatches`'s own hypotheses.

`KeyboardProofs` has what this and the console share: what `putchar`,
`FBCON_Write`, `TTY_HandleEsc` and the handler do to a console of any width,
cursor and state of the parser (`PutcharFacts`, `HandleEscFacts`,
`HandlerFacts`). `puts` and `printf` go through a fold over the characters; the
handler only ever prints one at a time, and `PutsOne` and `PutsNone` unroll the
fold for those.

### Console

For every program of calls in the order of `init`, every width, every size of
the escape buffer, any number of keys, and any of the scan codes. `ConsoleInv`
is `TypeOK`, `WellFormed(kb)` and

- `Places`: between two characters nothing is loaded, and inside `FBCON_Write`
  there is a character at hand and room for it in the buffer. An interrupt
  leaves the registers of the call alone, so this holds however it changes the
  globals underneath;
- `Writers`: the framebuffer takes over a cursor at column 0. The serial output
  moves the cursor with no edge to wrap at; it is the CR and LF at the end of a
  line that bring it back, so `Writers` says of the rest of a log's text that it
  ends so;
- `InRow`: while no key has come inside `FBCON_Write`, the cursor is off the row
  only between its increment and the test of it, and the copy in `reg` never.

With a key inside `FBCON_Write` `InRow` fails (the handler moves the cursor
between its load and its test), which is why `DrawsOnRow` has `~ raced`.
`TypeOK` has no such hypothesis: it says that whatever the interrupt does no
place of the code loads a value it cannot use.

`LogLineHeals` is about lines of each of `log`'s six levels, of modules and
messages without an ESC, NUL or backspace of their own (`ProgramAssumption`), that
no scan code comes into (`clean`) and that find no NUL within what is pending: the
NUL that finding 1 leaves there is not healed by anything. It has a second
invariant, `Healing`, that follows the parser through the text of a log line.
`Sane` and `EndsReset` say of what is left of the text that each of its ESCs
begins a whole attribute sequence and that it ends with `ESC [ 0 m` CR LF, or with
what is left of that; each step forward keeps both (`SaneTail`). `Heals` says
where the parser stands in it: in the middle of a sequence (with a `[` in the
buffer, hence `m` completes it), between two, or, until the first `m`, in whatever
an earlier key has left pending (`Whole`, the hypothesis of the property: no NUL
below the length). In that case the line's first `ESC [ 1 m` (`Opens`) is what
ends the pending sequence; which code `atoi` returns for it is left open, because
the reset behind it restores the attributes. Of the reset the buffer holds exactly
`[0m`: there `atoi`'s fold is unrolled (`AtoiOne`). `Awaits`, `Appends`,
`Completes`, `GoesOn` and `Draws` say the same place by place inside
`FBCON_Write`. An interrupt ends the claim, not the invariant, since it clears
`clean`; only `Finishing` (the completion flag is set nowhere but between its
store and its reset) must hold under interrupts.

### Interrupts

For any of the devices and exceptions, and any number of scan codes.
`InterruptsInv` says everything by place. Until `sti` the state follows from the
program counter: `Programmed` (which word each PIC expects, what base and mask
it has) and `Entries` (which gates are written). From then on it follows from
what the running handler has left: `Serving` says what is in service then, and
`NextByte` where the next scan code is: what is in the buffer is the one behind
those read, a request is pending only while there is one, and the handler that
reads it has taken that request. A handler runs with the flag cleared, so at
most one interrupt is in service, and the second end-of-interrupt command of a
key (`interrupts.c:32`) finds nothing left to retire: at the first only the
keyboard's own request is in service (`NothingInService`). `NeverResets` is part of
the invariant: once interrupts and faults are possible, the gates that a missing
one leads to are there (`Entries`).

### Ahci

For any number of implemented ports and any `MaxPorts` up to the 255 that
`portCount` can hold (`PortsAssumption`), any spin limit, any place of the heap
(`Bases`, `Word`) and any value of the uninitialised count. `DriverInv` says that
every port is in one of three states: `Untouched`, as the firmware left it and
with nothing outstanding; `Finished`, restarted with its command ended or halted;
or it is the one the driver is at. Of that one, `Configured` says which of `ST`,
`FRE`, `FR` and `CR` are known to be off at each statement of `StopCMD`,
`Configure` and `StartCMD`, and `Reads` where the command is between its table and
`Read`'s return. What 32 bits do not reach enters in three places: a command that
is fetched is the read unless the port's list or table lies beyond them
(`Commanded`); a driver that has gone wild at a port leaves it without a command
(`Abandoned`, by the lemma `WildAtPort`); and it went so only with such a port or
with a count that was not zero (`Astray`). `Probed` (each disk once in `ports`)
and `Position` (the ports ahead of the loop are untouched) are needed for the step
from a port to the next. The adapter's own steps (`EngineFollows`, `Fetch`,
`Complete`, `Fail`) happen at every port at any time, so each state has to be
closed under them. The three action properties follow from the invariant at each
action (`StepEffect`).

`MemoryIsApart` has an invariant of its own, `MemoryInv`, on top of it. A port's
blocks are one command list, one FIS area, 32 tables and the buffer, at fixed
offsets from the first (`Offset`): what `malloc` hands out between two ports is
a `Span` of 35 blocks. So two regions of a port are apart by arithmetic
(`OffsetsApart`), two ports by the order in which they were served (`Before`),
and what lies ahead of the heap is nobody's yet. A table may lie in the block
behind its own (the last one lies in the buffer's): what is apart is what the
adapter uses of each (`Length`), not the blocks.

### Rtc

For any time of day, any day of whole minutes up to 24 hours
(`PeriodAssumption`), either data mode and any number of seconds. What carries
`RtcInv` is `OneTickOff`: the clock is at most one tick from the time `GetTime`
began at (`Tick`'s guard: one tick between two reads of the seconds). So
registers read before and after a tick differ only if the tick ends a minute
(`ReadSoFar`), which gives `TimeIsExact`; and `Counted` says that, as long as
there were fewer ticks than seconds asked for, the second last read is where so
many ticks put it, hence not the one waited for: `SleepsForTicks`. A tick is a
boundary between two seconds, and how far off the first one is when `sleep` is
called is not known, so `n` ticks are more than `n - 1` seconds and no more is
claimed. `Counted` is modulo 60, so a sleep that waits for second 60 is covered:
it does not return at all.

### Boot

For any loader, firmware, archive and machine. `BootInv` says at each place what
has been found out about the loader's responses by then (`Followed`), that the
log has a console to go to (`LogGoes`), and that `heap` is the base of a usable
region among the entries seen, or NULL if there was none (`HeapFollowsMap`).
What `PciScan` and `Ramfs` do in between enters by lemmas that say what they
leave alone (`ScanEffect`, `ParseKeeps`).

`StopsOnlyForCause` is by the same invariant. `ScanEffect` gives the causes of a
panic in the walk, the class behind the table among them (`AtUnnamedClass`), and
that the driver was called when its ends are taken (`Started`); a reset behind
`CreateIdt` is a wild driver's only. `residue`, `mouse` and `Roomy` are arbitrary:
of `Roomy` only that it is a set of addresses is assumed (`RoomyAssumption`), so
the theorem holds wherever the driver's memory may fit. That the causes are all
there are rests on what section 8 leaves out: that tables and configuration space
are mapped, and that archives fit `headers`.

The search for devices has an invariant of its own, `ScanInv`, over `PciScan`'s
part of the state: what has been printed is `Covered`, the functions to be found
that lie behind the walk, each once. `Behind` is the lexicographic order of
range, bus, device and function; that a turn which prints nothing leaves
`Covered` alone is why an absent bus or device may be skipped. The function the
walk is at is not behind it (`HereIsNew`): in its own range by the order, in an
earlier one because the ranges of MCFG are disjoint.

The ramdisk has one as well, `FsInv`. `Parsed` says that `headers` holds the
headers of the archive's first members, in order, and that `parse` stands at the
next one's or at the end; the members are a witness the code does not keep, hence
the quantifier over archives. That a turn goes on at the next header is
arithmetic on what the two sides compute: `GetsizeIsOctal` (`getsize`, which
reads the digits from the last with a growing weight, finds the number they
stand for) and `SkipsTheExtent` (`parse`'s division and its remainder come to the
whole blocks the member has in the archive). `Calls` types what `readFile` and
`ls` keep between turns. With `BootInv`, `ScanInv`, `Globals` and `Places` it
gives `TypeOK`.

`Octal`, `getsize` and `HeaderAt` are recursive functions. `Recursion` says that
one exists wherever its value at 0 and its steps stay in a set, with the steps
given as a function, so no operator is a parameter; it rests, with
`EveryNatural`, on `LeastNatural`, which follows from `<` being well-founded.

`FirmwaresAssumption` says that MCFG's ranges are disjoint, as they must be within
one segment group: the code takes a range's base address and ignores its group,
the model's slots have neither. `LoadersAssumption` says of the loader's memory
map what the code relies on without asking: its entries have a base and a kind,
and page 0 is never usable (a heap at address 0 could not be told from none).
`NullAssumption` says that NULL is no address, `ArchivesAssumption` that every
archive is a tar file's sequence of members (`Member`) with fewer of them than
`headers` has room for.

### What the proofs changed

Two definitions (`Ahci`'s `NextPort`, the sign in `Printf`, with a third of the
kind in `Boot`) were CASEs whose conditions overlapped: TLC takes the first that
holds, as the code does, while the logic leaves the choice open. They are IFs
now, in the code's order. `Console`'s `ProgramAssumption` and the missing page 0
were implicit in the instances that TLC ran, and so were the disjoint ranges of
`PciScan`'s firmware. `Line` says of the modules and messages given to `log` that
they have no ESC, NUL or backspace of their own, as in this kernel none has:
with an ESC in its message a line need not heal anything. In `Ramfs`, `getsize`'s
loop and the layout of an archive were folds and are recursive functions now, so
that there is something to unfold; `Member` and `Boot`'s `Responses` name the
sets that the archives and loaders of the instances were taken from.

## 6. What is only model-checked

- Liveness, which is out of TLAPS's reach: `KeysServed`, `InitEnds`,
  `EndsWithinTheMinute`, `BootEnds`, `RamfsReturns`.
- `Printf`'s `PrintsTheMeaning`, `ArrayHoldsThePrefix` and `CutsAreSeen`. All
  three rest on the loop reading each piece of a format as it was written, for
  every format: which field an argument belongs to decides whether a `*` is a
  number at all, and that `sprintf` stays in its array is a matter of how long the
  whole meaning is. That is induction over the pieces, their digits and the
  folds of both modules at once, and not done here. The run has every
  combination of flags, width, precision and conversion that section 3 names.

## 7. Plan

Done: every part in section 2, and the proofs of section 5.

Left to model: the split of a handler's address over a gate (`idt.c:6-30`) and
of the sector number over the FIS (`sata.c:139-144`), both arithmetic on values
that never vary in this kernel.

Left to prove: for `Printf`, that `ReadField` reads what `Written` wrote (digits
first, as `GetsizeIsOctal` does from the other end), and the three properties
from it.

## 8. What is not modelled, and why

- `printf`'s floating-point conversions (`printf.c:276-721`): switched off. Values
  of more than 31 bits, MIN values included. Outside `Printf` a text is data.
- What a stray store or a wild pointer of the driver overwrites: `Ahci` goes on with
  its own state as it was, or stops at `wild`, and `Boot` stops for it.
- Whether a table or register block is mapped: the ACPI tables, the configuration
  space at MCFG's base and the adapter's BAR5 are taken to be where they are said to
  be. Of the archive's address `ramfs.c:9` keeps the low 32 bits; it is counted
  from the archive's start, the loader mapping the memory below 4 GiB a second
  time at its own addresses. Archives fit `headers[32]`.
- Loader names of 64 characters and more, or too long together for the log's
  array: what is overwritten is the linker's choice.
- `kernel/gdt`: a constant table and one instruction. `kernel/io.c`: one
  instruction a function. `kernel/audio`: never called. `kernel/video/video.c`:
  pixels, never called.
- `TTY_CursorY`, the pixels, bold's brighter palette: no decision depends on them.
- Scan code 58, which reads one past a table, and an input line of more than 100
  characters: what is there is the linker's choice. `Room` and `Keycap` leave
  them out.
- Spurious interrupts of the PICs, and interrupts in the middle of an
  exception's handler, which runs with interrupts off.
- The checksums of ACPI tables, which decide only what is logged.
