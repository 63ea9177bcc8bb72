# A verification of the kernel

This directory holds TLA+ models of the kernel in `src/`, the configurations
that check them with TLC, and proofs checked by TLAPS. File names below are
relative to `src/kernel/` unless they say otherwise.

| module | models | checked by | proved in |
|---|---|---|---|
| `FrameAllocator` | what `MMU_pf_alloc` and `MMU_pf_free` promise | refined by `PhysicalMemory` | |
| `PhysicalMemory` | `mmu.c` 1-243, `mmu.h` | `phys`, `phys_identity` (`MCPhysicalMemory`) | `PhysicalMemoryProofs` |
| `KernelHeap` | what the kernel heap promises | refined by `VirtualMemory` | |
| `VirtualMemory` | `mmu.c` 245-511, the page tables of `boot.asm` | `vm` (`MCVirtualMemory`) | `VirtualMemoryProofs` |
| `SerialTx` | `serial.c`, with the UART and IRQ 4 | `serial`, `serial_lost_edge` | `SerialTxProofs` |
| `Keyboard` | `kb_interrupt_handler` of `drivers.c` | `kb`, `kb_two_shifts` (`MCKeyboard`) | `KeyboardProofs` |
| `Terminal` | what the VGA driver promises | refined by `Vga` | |
| `Vga` | `vga.c` | `vga` (`MCVga`) | `VgaProofs` |
| `Printk` | `printk.c` against its callers in handlers | `printk`, `printk_torn` (`MCPrintk`) | `PrintkProofs` |
| `Pic` | the two interrupt controllers, and `PIC_sendEOI` | used by the next two | |
| `Interrupts` | `interrupts.c`, `arch/x86_64/isr.asm` | `irq` (`MCInterrupts`) | `InterruptsProofs` |
| `Boot` | `SER_init`, `ps2_init`, `kb_init` and the masks, with interrupts on | `boot` (`MCBoot`) | `BootProofs` |

To repeat: `tlc -config phys.cfg MCPhysicalMemory`, and so on;
`tlapm PhysicalMemoryProofs.tla`, and so on.

## 1. The system

One processor, no scheduler. `kmain` runs straight through its initialisation
and two tests of the heap and then halts between interrupts. The only
concurrency is between that thread, the interrupt handlers (which run with
interrupts disabled: all gates are interrupt gates) and the devices.

| component | state | operations | talks to |
|---|---|---|---|
| boot code (`arch/x86_64/boot.asm`, `long_mode_init.asm`) | `p4_table`, `pdpt_identity`, `pdpt_heap`, GDT, stack | builds the tables, enters long mode, calls `kmain` | hands the Multiboot2 structure to `MMU_init` |
| physical memory (`mmu.c`) | `memory_regions`, three counters, `free_page_head`, and the first word of every free page | `MMU_init`, `MMU_pf_alloc`, `MMU_pf_free` | writes into the pages, which must be mapped |
| virtual memory and heap (`mmu.c`) | the page tables, `kernel_brk`, the TLB | `map_page`, `unmap_page`, `virt_to_phys`, `MMU_alloc_page(s)`, `MMU_free_page(s)`, `page_fault_handler` | takes frames for tables and pages from physical memory; entered by vector 14 |
| serial driver (`serial.c`) | a ring of `BUFF_SIZE` bytes, two pointers, `count`, `tx_busy` | `SER_init`, `SER_write`, `hardware_write`, `serial_interrupt_handler` | the UART; called by `printk` and by IRQ 4; calls `printk` on a line error |
| keyboard driver (`drivers.c`) | six static flags of the decoder | `kb_interrupt_handler`, `scancode_to_ascii` | called by IRQ 1; calls `printk` |
| PS/2 and keyboard start-up (`drivers.c`) | none but the devices' | `ps2_init`, `kb_init`, polling | the controller and the keyboard |
| VGA driver (`vga.c`) | the cursor and the screen memory | `VGA_clear`, `VGA_display_char`, `VGA_display_str` | called by `printk` |
| `printk` (`printk.c`) | `print_buf`, `int_len` (both static) | `printk`, `int_to_string`, `uint_to_string`, the `print_` functions | the VGA and the serial driver; called by everybody, handlers included |
| interrupts (`interrupts.c`, `arch/x86_64/isr.asm`) | the IDT, `irq_table`, the masks, the latches and the bits in service of the PIC | `IRQ_init`, `IRQ_set_handler`, `IRQ_set_mask`, `IRQ_clear_mask`, the stubs, `interrupt_handler`, `PIC_sendEOI` | calls the handlers |
| strings (`string.c`) | none | `strlen`, `memset`, `memcpy`, and others nobody calls | |

What is hard here: `printk` is not reentrant and is called by handlers; the ring
is shared by writers and a handler, and its transmitter by driver and device; an
edge-triggered interrupt line carries two conditions; the free list is kept in
memory that callers write to; the heap is demand-paged, so a frame changes hands
at a fault, and calls can fail half way; the region table is edited while a loop
runs over it; start-up polls devices that may interrupt at the same time, and
without a timeout.

### What makes each component correct

* **Physical memory.** A page that is handed out is available memory, outside
  the kernel image and above the first megabyte, and has one owner. No such page
  is lost. The counters are the true counts. Callers see an allocator that
  fails only when it has nothing left.
* **Virtual memory.** A frame is free, held, or reached by exactly one entry of
  the page tables. The TLB agrees with the tables. A call that fails leaves
  nothing behind. A page of the heap reads as zero until written, then as
  written. Every call ends.
* **Serial driver.** What is put in the ring goes out, once, in order, and
  eventually if the port passed its test; the FIFO is not overrun.
* **Keyboard driver.** What is printed is what the key presses mean, however
  long the bytes wait; the flags are those of the keys that are down.
* **VGA driver.** The screen is the tail of the text.
* **printk.** Prints what printf would and returns how much that was.
* **Interrupts.** One handler runs at a time, for the line that asked. Each
  interrupt that the controllers consider in service is ended once. No unmasked
  request waits for ever.
* **Start-up.** It ends. The UART and the PS/2 controller are set up as
  intended, whoever types meanwhile, and the decoder of the keyboard driver is
  in step afterwards.

## 2. How the models correspond to the code

The step size follows from who can see what. Code that nothing can
interleave with is one step per loop iteration or per call; code that a device
or a handler can interleave with is one step per access they could see. `map`
in `PROJECT.json` gives the lines of each definition. A definition that follows
a comment "A mistake" is not the code: it is the code with a plausible bug, kept
to show that a property is able to find it. No specification uses one.

### PhysicalMemory

Variables have the names of `mmu.c`. `pc` says whether the machine is in
`MMU_init` ("tags"), between calls ("idle"), in `init_free_page_list`
("listing"), in the second half of `MMU_pf_alloc` ("pop"), or in the handler of
a fault it does not survive ("halted"). `MmapEntry` is an iteration of
`process_mmap_tag`, `ReserveInRegion` and `SectionDone` are the two loops of
`process_elf_sections_tag`, `ListPage`, `ListNextRegion` and `ListBuilt` those
of `init_free_page_list`, whose bounds are re-read on every iteration as in the
code. Sizes and addresses of entries and sections are in bytes, since rounding
them to pages is the code's; everything else counts pages. `word0` is the first
word of each page, where the free list keeps its links. `WritePage` is a caller
that overwrites it. `owned` and `chain` are history: the pages callers hold and
the list as it should be.

Assumed (`BootAssumption`): the Multiboot2 tags are well-formed, the memory map
comes before the ELF sections, and available entries do not overlap. Multiboot2
loaders behave so. The code does not check any of it.

### VirtualMemory

Frames are read both as page tables (`table`) and as contents (`data`).
`PfAlloc` is `MMU_pf_alloc` as `FrameAllocator` specifies it: any free frame,
cleared. A call starts a walk (`StartWalk`), which takes one step per table
(`Descend`, `AddTable`) and ends in one of `gotPte` and `noPte`; the operation
goes on from there. The processor's part is `Load`, `Store`, `Touch` through
`Translate`, `PageFault`, and `Evict`, since a TLB may forget at any time.
A page that is freed or given back holds leftovers and not zeros (`Leftover`,
`Dirty`), so a table or a page that is used uncleared is noticed. Four levels
tell `AllPages` pages apart; an entry at level l covers `Span[l]` of them, one
at the last, and `Index` takes the digit of a level out of a page's number. The heap
and the windows lie within these pages and apart from each other, as in `mmu.h`.

No caller allocates in a handler, and none frees more than it holds in a way the
code would notice: `FreePages` takes any pages of the heap, held or not, as the
code does. Calls of `MMU_alloc_pages` for no pages are left out. Huge pages
(the identity map) are left out: no caller passes such an address.

### SerialTx

`SerWrite` is the body of `SER_write`, which disables interrupts; `Write` is the
kernel calling it, and `PrintError` is the handler's `printk`. The handler is
one step per access of the UART. The UART is a FIFO that empties by itself, with
two conditions, transmitter empty and line status, whose disjunction is the
interrupt line; the PIC latches its rising edges (`Latch`). Before `SER_init`
the ring has null pointers and a port of 0, but `printk` already calls
`SER_write`: `EarlyWrite` is what that leaves in `count` and `tx_busy`.
`SerReset` resets `tx_busy` and not `count`, which is full by then
(`SerialAssumption`: more is printed early than `BUFF_SIZE`). So the first
`BUFF_SIZE` bytes that go out are zeros; the model counts them as part of the
stream.

`port` is how far `SER_init` is, and what became of the port: "early", "setup"
once the ring is reset, "test" once the test byte is written in loopback, and
then either "working" (`SerEnable`) or "faulty" while the message about it is
printed (`SerFaulty`, `PrintFault`) and "unusable" when `SER_init` has returned.
Whether the test passes is a choice: the byte that is read may be that of a key,
one received before, none yet, or that of a broken chip. A key may print between
any two of these steps (`Write`, one character at a time). On a port that is
given up the interrupts stay disabled in the UART, and everybody goes on calling
`SER_write`. `SER_init` is split where such a write, or the UART, can tell the
difference; where in the divisor latch or the loopback a byte of a key ends is
`Boot`'s matter. Line 4 of the PIC plays no part in this: `IRQ_init` has unmasked
it (`interrupts.c:83`), so the `IRQ_clear_mask` at the end of `SER_init` changes
nothing, whether it is reached or not.

Assumed: the UART has its interrupts disabled before `SER_init`, which is also
the first to disable them; the test byte is told apart from a key's only by the
choice above.

### Keyboard

The user presses, repeats and releases keys; the keyboard sends one to three
bytes for each; `kb_interrupt_handler` takes them one at a time, at any later
time. One key stands for each kind that `scancode_to_ascii` and the handler tell
apart: a letter, a key with a shifted character, one without, a keypad key that
is an arrow when extended, a function key, and each modifier, with its extended
twin.

### Vga and Terminal

`VGA_display_char` disables interrupts, so it is a step. `Terminal` is a page
without end; the refinement maps the rows that were scrolled out and those of
the screen down to the cursor to that page.

### Printk

A format is a sequence of items, `item` the one printk is at. An item has a text
or is a number, and `%p` has two parts, `part` of which is being printed, since
`print_pointer` prints its `0x` as a string of its own. A conversion is the
sequence of its stores, each a step; so is each character that the screen or
`strlen` reads. The two handlers print between any two of them: the keyboard's
characters, the serial port's a number, whose stores it does all at once. They
share `print_buf` and `int_len`, which are taken together as `memory` where a
store is defined (`Stored`). `screen` and `serial` keep apart what the kernel
gave them and what handlers did, and `torn` remembers that a handler printed a
number inside the kernel's.

The three integer types have small widths, which are parameters, and arguments
are cast by `Unsigned` and `Twos` as the `print_` functions cast them.
`ConversionsAsPrintf` compares the two conversions, loop by loop, with
`Numeral`, which is written from the meaning of positional notation, for every
argument of the widest type.

Assumed (`PrintkAssumption`): a numeral of the widest type leaves space in
`print_buf` for a NUL, and in decimal for a sign, so that none is cut. The code
has 64 bits and 65 bytes.

### Interrupts and Pic

`kmain` is a tuple of the nineteen instructions that touch interrupts, those of
`IRQ_init`, of `SER_init` and the mask operations around `kb_init`; a mask
operation is two, a read and a write of the register, as in the code. `TestPort`
goes past that of `SER_init` if the port is faulty. `stack` has a frame for each
interrupt or exception being handled, innermost first, with what matters of it:
the number `isr_common` is given, the flag to restore, how many words the
processor and the stub pushed, which step of `interrupt_handler` comes next, and
which bits the controllers set in service for it. `Gate`, `CpuPushes` and
`StubPushes` are the table of `idt_init` and the macros of `isr.asm`, vector by
vector; `CpuPushes` is the processor's manual.

Devices raise and drop their lines at any time; a line that falls before the
processor has acknowledged it can turn into a spurious request of line 7 or 15
(`Spurious`), which sets no bit of its own but is handled and ended all the
same. `TakeNmi` needs no flag. An exception of `kmain` is a trap, after which it
goes on, or a fault, after which the same instruction faults again
(`FaultAgain`), since no handler but that of page faults repairs anything. What
the handlers of lines 1 and 4 do to their device is one step here: line 1 falls,
line 4 may stay high, since `serial_interrupt_handler` serves one condition.
`firm` is history: the masks before `kmain`.

Assumed: exceptions are made by `kmain` and not by handlers; the controllers are
as firmware leaves them, with no bit in service.

### Boot

`SER_init`, `ps2_init`, the mask operations and `kb_init` are lists of accesses,
put together to `kmain`. Each access is a step of `Thread`. Waiting to write is
part of the write, since nobody else writes; waiting for a byte and reading it
are two steps (`poll`, `read`), since `kb_interrupt_handler` may read it in
between. A controller takes one byte at a time (`ibf`), gives one at a time
(`obf`, `data`), and obeys when it likes (`Obey`, `Configure`). `answers` says
whether it is one of those that interrupt for answers of their own although the
port is disabled. The keyboard acknowledges, passes or fails its test, may ask
for a byte again (`Deliver`), and sends what the user does (`Key`), translated
while translation is on, so that `F0` and a code come as one byte. Handler and
PIC are as in `Interrupts` and `Keyboard`, for one key without prefix.

`SER_write` is what a character does at that time: the ring is full (see
SerialTx), so nothing is stored, and a stale zero goes to the port unless
`tx_busy` is set. `Window` says what that write meets: the open divisor latch,
or the loopback test. `hit`, `early`, `stolen`, `refused` and `misread` are
history, in which the properties say when they do not promise something.

Assumed: loopback is instantaneous, as in QEMU; a write to the FIFO control
register may or may not discard what was received; the transmitter's interrupts
after `SER_init` are `SerialTx`'s matter and left out; keys do not repeat.

## 3. What is checked

| run | result | states | what it shows |
|---|---|---|---|
| `phys` | pass | 2 162 | five boot structures: entries and sections with shared pages, fragments, trims at both ends, splits, a table that fills, sections across entries, and memory that is not mapped; all orders of allocating, freeing and overwriting pages |
| `phys_identity` | violation | | memory above the first gigabyte halts the first `MMU_pf_alloc` |
| `serial` | pass | 22 621 | a port that passes its test or does not, keys during `SER_init`, ring of 3, writes of up to 4 bytes, a line error at any time, FIFO of 2 |
| `serial_lost_edge` | violation | | after a line error the transmitter can stop for good |
| `vm` | pass | 111 750 | three heap pages in two page tables, calls of up to 3 pages, six frames, a window for `map_page` |
| `kb` | pass | 150 628 | four key events of all keys, at most one of a pair of modifiers down |
| `kb_two_shifts` | violation | | releasing one of two shifts |
| `vga` | pass | 115 111 | seven characters on a screen of 3 by 2 |
| `printk` | pass | 61 950 | two calls of four formats, one interrupt of each handler; all arguments of an 8-bit `long` |
| `printk_torn` | violation | | a line error while a number is being printed |
| `irq` | pass | 190 861 | keyboard, serial port and mouse, two states of the firmware's masks, six exceptions, one of each kind, three events (lines raised, exceptions) |
| `boot` | pass | 765 047 | two configurations of the firmware, both kinds of controller, three key events, a byte asked for again, a received character |

The bounds are where the interesting cases lie:

* `phys`: pages of 4 bytes give every case of rounding. `MaxRegions` = 4 is
  filled by `Overflow`, whose section then splits a region, and not by the
  others, so that `NoPageLost` and `StatisticsExact`, which a full table
  excuses, speak. `LowLimit` cuts an entry in `Trim`, `IdentityLimit` in `High`.
* `serial`: the ring is smaller than a write, so writes are cut and both
  pointers wrap; the stale bytes that `SER_init` leaves fill it at first; a FIFO
  of two bytes is the smallest for which `NoOverrun` can hold.
* `vm`: `HeapBase` = 56 with tables of three entries puts page 57 in another
  last-level table than 56. A heap page needs three tables and a frame, so with
  six frames memory runs out in every kind of call. `Values` = {0, 1} tells a
  cleared page from any other.
* `kb`: one event presses a modifier, one a key, and two are left for releases,
  repeats or another modifier. `wire` is not bounded otherwise.
* `vga`: seven characters fill and scroll six cells. `TabStop` = 2 does not
  divide the width, so a tab passes the end of a line.
* `irq`: the mouse stands for the lines of the second controller, enabled by one
  of the two masks and not by the other. Three events are one interrupt during
  another with a non-maskable one on top. The exceptions are faults with and
  without an error code (0, 17), a trap (3), a double fault, a page fault and
  the non-maskable interrupt; `HandledAsWhatItIs` for other vectors is the
  theorem's.
* `boot`: three events are a key held down before, released and pressed during
  the start, so that a press and half of a release can be lost apart.
* `printk`: two calls, so that the second meets what the first left in the
  buffer. The widths 4, 6 and 8 bits differ in sign and in range for both bases,
  and `print_buf` has the five bytes that `-128` fills. Two interrupts of each
  handler give 2 522 959 states and nothing new.

The type invariants are conjuncts of `Inv` in `phys`, of `SerialInv` in `serial`,
of
`FramesUsedOnce`, `DecoderInStep`, `BelowIsBlank` and `CountsCharacters`
elsewhere.

`vm` uses symmetry in the frames, which no definition tells apart except by a
choice of any of them; it checks no liveness property. That every call ends is
stated without fairness: each step of a call makes a number smaller
(`CallsShorten`, with the measure `StepsLeft`). That a call which has not ended
has a next step is the nature of straight-line code.

Deadlock is not checked where the system may stop: a bound reached, a machine
that has halted, or a user who types nothing more.

### Fairness

`PhysicalMemory`: `WF(BootStep)` and `WF(AllocStep)`. This is straight-line code
of the only processor; nothing preempts it but handlers, which return. No caller
has to call.

`SerialTx`: weak fairness of the boot code and of the handler for the same
reason, of `Send` since a UART keeps its clock, and of `Interrupt` since the
processor has interrupts disabled only within `SER_write` and handlers, both of
which end. `Write` and `LineError` are not fair: nobody has to print, and
errors need not happen.

`Interrupts`: weak fairness of `kmain`'s steps, of taking a request, of the
handler and of the repeated fault: all that the processor does by itself. No
device has to raise or drop a line.

`Boot`: weak fairness of the boot code, of the controller and the keyboard doing
what they were told, of sending, of the interrupt and of the handler. Nobody has
to type.

### Deviations the runs show

1. Memory above 1 GiB is not mapped, but `init_free_page_list` writes to it
   (`mmu.c:187`, `phys_identity`).
2. `serial_interrupt_handler` serves one condition and returns; with two pending
   the line stays high, no edge follows, and the ring is not drained any more
   (`serial.c:134`, `serial_lost_edge`). On a port that passed its test, and
   without line errors, the ring is always drained:
   `EverythingSentWithoutErrors`, `NoLostWakeup`. A port that `SER_init` gives up
   (`serial.c:62-67`) sends nothing, errors or not; both properties exclude it,
   and `SetUpSendsNoText` says so.
3. One flag stands for two shift keys (`drivers.c:336`, `kb_two_shifts`). The
   same holds for ctrl and alt.
4. `print_buf` is shared with the handlers (`printk.c:7`, `printk_torn`). The
   keyboard handler prints characters only and does no harm.

Met while modelling, in the models but without a run of their own:

* `free_pages` includes the available pages of the first megabyte, which are
  never listed (`mmu.c:184`), so that "no free pages available" can be printed
  while it is not 0.
* When the region table is full, `process_elf_sections_tag` gives up the whole
  region but moves only the pages of the section from `free_pages` to
  `reserved_pages` (`mmu.c:114-117`). `StatisticsExact` excludes a full table.
* `KERNEL_HEAP_ADR` lies in slot 2 of the top table, and its comment and
  `boot.asm` say 1 (`mmu.h:151`). It works: `get_pte` makes tables.
* `MMU_alloc_page` keeps its step of `kernel_brk` when it fails, and freed
  addresses are not used again (`mmu.c:407`).
* `int_to_string` returns for zero without setting `int_len`, so that `printk`
  adds the length of an earlier number (`printk.c:36`). No property finds this:
  `CountsCharacters` excludes formats with such a zero, and says that this and
  torn numerals are the only causes of a wrong count.
* `char` is signed, so a character from 0x80 on replaces the color of its cell
  by ones (`vga.c:117`), as Ctrl with a digit does, which prints one
  (`drivers.c:365`). No property finds this either: `Cell` is as in the code and
  `Terminal` takes the cell as it is.
* `SER_init` does not reset `count` (`serial.c:27`), see SerialTx above.
* A key during `SER_init` prints, and its write may land in the divisor latch,
  which changes the baud rate, or in the loopback, where it, like a character
  received before, makes the port look faulty (`serial.c:37-67`). `SerialSetUp`
  says that these two windows are the only ones.
* A controller that interrupts for its own answers lets the handler take the
  configuration `ps2_init` polls for, which then waits for ever
  (`drivers.c:57`; `BootEnds` excludes it as `stolen`).
* A keyboard that asks for the reset to be sent again is not heard: `kb_init`
  takes the request for the acknowledgement and waits for a test result
  (`drivers.c:75-82`; excluded as `refused`). For the other commands a resend is
  harmless, and only the setting is lost.
* A fault other than 8 and 14 is printed and repeated for ever
  (`interrupts.c:250`). `RequestsAreTaken` shows that interrupts still are.

Seen in the code and not in a model: `get_pte` would take a 2 MiB page of the
identity map for a table; `map_page` does not tell its caller that it failed;
`printk` ignores how much `SER_write` took; a format that ends in `%`, and a null
string; caps lock toggles with each repeat on keyboards that repeat it; the
keyboard's own buffer may overrun and lose a prefix; the mask operations are not
atomic, but no handler uses them; the interrupt stacks of page and protection
faults start at their top again when such faults nest.

## 4. What is proved

For every page size, memory size, region table and set of boot structures that
`SizesAssumption` and `BootAssumption` admit, `PhysicalMemoryProofs` proves of
`Spec`:

* `Invariance`, `TypeCorrect`: `Inv` and `TypeOK` are invariants;
* `FreeListSafe`: the links in the pages are the list;
* `PagesSafe`: `OnlyUsablePages`;
* `NothingLost`: `NoPageLost`;
* `NumbersRight`: `StatisticsExact`;
* `Refinement`: `Spec => AllocatorSpec`.

`OnlyUsablePages` says what is listed; to be inductive it needs to know what
will be. Hence the parts of `Inv`: regions are parts of entries
(`RegionsFromMap`) and disjoint (`RegionsDisjoint`, without which a page would
be listed twice); sections dealt with so far are outside of them
(`SectionsTakenOut`, which also says so of the section being dealt with and the
regions already passed; the halves that a split appends are behind the loop
index and are visited by it later); and the list is what lies behind the
position of `init_free_page_list` (`ListBehind`), all of it, which the
refinement needs, since the abstract allocator has these frames from the start.

`NoPageLost` is a second induction on top of `Inv`. Its invariant, `PagesKept`,
is the converse of `RegionsFromMap`: a page of an entry that has been read is
still in a region, unless it is the kernel's or the table is full. So the table
offers exactly the usable pages when the list is built from it, and later a page
only moves between the list and its owner.

`StatisticsExact` needs both. While `MMU_init` is half way, its counters can
only be compared with what it has read so far (`Counts`): the pages of the
entries read (`ReadPages`), those of them still in a region (`TablePages`), and
the rest. An entry adds an interval that shares no page with the others, and a
section moves an interval of one region from one number to the other, whichever
of the ways of `TakeOut` it goes (`TakeOutLeaves`, `TakeOutKeeps`). When all is
read, `PagesKept` and `SectionsTakenOut` say that the pages in the table are the
available ones outside the kernel.

For every ring size, FIFO of at least two bytes, and number of errors,
`SerialTxProofs` proves `Invariance`, `TypeCorrect`, `RingCorrect`, `InOrder`,
`FifoBounded`, `SetUpKeepsText` and `WakeupsKept`, whether the port passes its
test or not. `SerialInv` adds to the properties the state before `SER_init`
(`EarlyState`); what holds until the interrupts are enabled, and for ever on a
port that is given up (`SetUpState`: no condition is pending, nobody clears
`tx_busy`, and so one byte has been written at most); what `thre`, `tx_busy` and
the position in the handler say of the FIFO (`FifoState`: a handler that found
the transmitter empty has two bytes to write, and a writer that comes later
finds `tx_busy` set or a FIFO of one); and what they say of wake-ups
(`WakeState`: with the interrupts enabled and without errors a pending condition
is latched or about to be read, and bytes in the ring imply a condition pending
or a FIFO that will empty).

For all devices, firmware masks, exceptions and numbers of events,
`InterruptsProofs` proves the five invariants of `irq`: `TypeCorrect`,
`NoNesting` (`OneHandlerAtATime`), `EveryEoiIsDue` (`InServiceWhileHandled`),
`VectorsMatch` (`HandledAsWhatItIs`) and `OnlyEnabledLines`
(`OnlyExpectedLines`). None of them is inductive. The first part needed is
`Shape`: every gate clears the flag, and interrupts and exceptions are taken
from `kmain` only, so the stack has one frame and at most that of a
non-maskable interrupt above it. `Setup` and `Masks` say what is in place at
each instruction of `kmain`: interrupts are enabled after the vectors, the
handlers and the masks, and the masks of the firmware are at each moment in the
register or in the variable that will be written back. `Service` says bit by bit
that those in service are those some frame still owes an end of interrupt.

For every size of screen, tab stop, set of characters and length of text,
`VgaProofs` proves `NoOldText` (`BelowIsBlank`) and `Refinement`
(`Spec => TerminalSpec`), from the invariant that the screen is clean once it
was cleared and that nothing was shown before. The refinement goes by what a
step does to the page: the cell under the cursor is written (`PutOnPage`), and
then the cursor stays in its row, or a new one is begun (`NewRow`), which is the
same page whether the screen scrolls or not (`PageOf`).

For any set of key events, as long as no pair of modifiers is down together
(`~Paired`) and the keyboard does not repeat caps lock (`~CapsRepeats`),
`KeyboardProofs` proves `TypeCorrect`, `PrintsWhatWasTyped` (`PrintedAsTyped`)
and `InStep` (`DecoderInStep`). These two hypotheses are what the `kb` run has
in its configuration; without the first `kb_two_shifts` refutes `DecoderInStep`.
Nothing bounds how many bytes wait. The invariant says so for all of them
(`Leads`): read one after the other, the bytes on `wire` take the flags of the
decoder from what they are to what the keys that are down call for, and each
byte on the way prints what was typed. A key event appends to the end of that
way, and the handler takes its first step.

For every number of entries in a table, every heap, window, set of frames and
length of calls that `VirtualAssumption` admits, `VirtualMemoryProofs` proves
`TypeCorrect`, the invariants of `vm` (`FramesHaveOneUse`: `FramesUsedOnce`;
`TlbAgrees`: `TlbCoherent`; `HeapAgrees`: `HeapMatchesTables`; `HaltsFull`:
`HaltsOnlyWhenFull`), `KeepsThePromise` (`Spec => HeapSpec`) and `StepsGetFewer`
(`CallsShorten`). None of the invariants is inductive. What they need:

* `Shape`: the tables are a tree. Each has a level; an entry of a table above
  the last level is the only one to reach the table it points to, which is one
  level below; a frame has one use, as a free one, one held, a table or a page.
* `Walk`: a walk stands at the table that the path of its page leads to, so the
  entry it ends at is the one that the processor would use.
* `Heaped`: the pages of the heap with an entry are those handed out, and those
  that a call over several has marked and still has to hand out, or has still to
  free (`Pending`). From `kernel_brk` on there are none.
* `Calls`: what the counters and the page of a call are at each of its points.
* `Coherent`: what the TLB holds is what the tables say, marks included.

Two lemmas carry the induction, about any tables and not only those of a state:
a table that is added below an empty entry changes no other path
(`TableAdded`), and an entry of the last level that is written changes the
mapping of its page and no other (`LeafWritten`), since different pages have
different paths. The latter is arithmetic on `Index`, level by level.

For every set of firmware configurations and any number of key events, resends
and received characters, `BootProofs` proves the invariants of `boot`:
`TypeCorrect`, `UartSetUp` (`SerialSetUp`), `Configured` (`ConfigAsIntended`),
`Undisturbed` (`KbInitUndisturbed`) and `MisreadOnce` (`AtMostOneKeyMisread`).
The program is a fixed sequence of 48 instructions (`Program`), so an invariant
can say what holds at each. `Port` does so of the UART's registers and its FIFO
in the test; `Setting` of the command in progress and the configuration, where
the point is that the one byte that can be in the controller's buffer when
`ps2_init` reads is the configuration, since the port is disabled, was flushed,
and the command waits for an empty buffer; `Masked` of line 1, whose handler
does not run when kernel code does, so none is left over when the mask is set.
`AtMostOneKeyMisread` is about what the decoder will do with bytes that are
still to come. `Stream` says of these that `F0` stands before a break code and
before nothing else, and that from the end of the reset this also holds across
the byte sent last, because the bytes the reset forgets are forgotten before its
result is sent. `Counted` compares what the decoder expects with the byte it
gets next: they disagree (`OutOfStep`) only if a key was early, each byte that
is read ends the disagreement and is misread only in it, and nothing after the
start brings it back.

For every two bases, three widths, every buffer, set of formats, number of calls
and of interrupts that `PrintkAssumption` admits, `PrintkProofs` proves
`ConversionsRight` (`ConversionsAsPrintf`), `TypeCorrect` (`TypeOK`),
`PrintsRight` (`PrintsAsPrintfUnlessTorn`) and `CountsRight`
(`CountsCharacters`).

The first is about the loops of the conversions, which are recursive functions,
and about their arithmetic. The induction theorems of the library take a
predicate as a parameter, which the provers cannot instantiate. Their place is
taken by three lemmas about sets: a nonempty set of natural numbers has a least
element (`Least`, from the well-foundedness of `<` on `Nat`), hence induction
(`Induct`) and complete induction (`Strong`). A recursive function is a `CHOOSE`,
and nothing is known of it before it is known to exist; `Recursion` proves that
once, for a function whose argument gets smaller in some measure, given as
functions and not as operators. By it `count_digits`, `PlaceValue`, `HighFirst`,
`LowFirst`, `Power`, and `FoldLeft` and `FlattenSeq` of the community modules
are unfolded. Then:

* `CountDigits`: the division loop counts n digits, where v is below the n-th
  power of the base and not below the one before (`IsLength`), which is so of
  one n only (`LengthUnique`);
* `PlaceValueRight`: the multiplying loop stops at the power n - 1;
* `HighFirstRight`, `LowFirstRight`: the two loops make the digits of positional
  notation, from the highest and from the lowest;
* `IntConversion`, `UintConversion`: the stores are those of the numeral, of a
  sign, of the NUL and of the length, each inside `print_buf` and none a second
  time with another character (`IsConversion`);
* `TwosIs`, `ConversionRight`: so they are after the casts, for each conversion
  and length modifier. The most negative number is no exception, since its
  negation is taken as unsigned.

The invariant says of a numeral that is being stored that each of its characters
is right or still to be stored, and so its length (`Pending`), which does not
depend on the order of the stores; of the screen that what it was given and
what is left for it is what was asked for, at each point of the format, and of
the serial port, which is behind it, the same (`OutputInv`); and that what was
counted and what is ahead make the length of the text (`CountInv`). All of this
is under `~torn`. What is not is `TypeInv`: whatever handlers do to a numeral,
the end of `print_buf` stays NUL, so no reader leaves it. A handler's number
outside of the kernel's leaves nothing that matters, because what a conversion
needs of `print_buf` is pending when it starts (`PendingStarts`).

Only model-checked: liveness (`CallsReturn`, `EverythingSentWithoutErrors`,
`RequestsAreTaken`, `BootEnds`, `KeyboardServed`), which TLAPS does not do. All
other invariants and action properties of the passing runs, and all refinements,
are theorems.

## 5. What is not modelled

* `kb_polling`, `set_cr3`, `strcpy`, `strcmp`, `strchr` and the like: no caller.
* `setup_tss` and the interrupt stacks: set up once, and never read by the code.
* `kmain` as a whole: its parts are the programs of `Interrupts` and `Boot`, the
  boot steps of `PhysicalMemory`, and calls that `VirtualMemory` allows in any
  order.
* `long_mode_init.asm`, the GDT and TSS, the linker script: no state that
  changes after boot.
* Stack depth. `boot.asm` has a small stack right above a page directory; how
  deep calls go is a matter of the compiled code.
* `MMU_print_memory_map` and other printing.

## 6. Plan

Written, in this order: `FrameAllocator`, `PhysicalMemory` and its proofs;
`SerialTx` and its proofs; `KernelHeap` and `VirtualMemory`; `Keyboard`;
`Terminal` and `Vga`; `Printk`; `Pic`, `Interrupts` and its proofs; `Boot`; the
proofs of `Vga`; `NoPageLost`; the proofs of `Keyboard`, of `VirtualMemory` and
of `Boot`; `StatisticsExact`; the proofs of `Printk`.

To come: `Interrupts` composed with `SerialTx` and `Keyboard` as the sources of
lines 1 and 4, in place of the bodies that stand for them.
