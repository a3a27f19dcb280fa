# Vim-OS minimal: TLA+ models, checks and proofs

Vim-OS minimal is a small x86-64 kernel: a UEFI loader (`boot/`) puts it into
memory, and the kernel (`kernel/`) sets up memory, finds an xHCI USB
controller, enumerates its devices by polling and echoes a USB keyboard. There
are no threads and no device interrupts. What is concurrent is the hardware:
the xHCI controller reads and writes memory the kernel reads and writes, with
no lock but cycle bits, pointers and doorbells; and, before the kernel runs,
the firmware, which changes its memory map on its own.

## Inventory

| Component (code) | State | Operations | Hard part |
|---|---|---|---|
| Event ring (`kernel/xhci.c` 129-164) | TRB page, expected cycle bit, ERDP | `er_isQueued`, `get_eventring`, `write_event_ring` | the slot is released before the handler reads it; wrap and cycle bit |
| Command and transfer rings (58-127) | TRB page, index, cycle bit | `new_ring`, `write_ring`, doorbell | torn fetches, no check for a full ring, link TRB |
| Enumeration (472-936) | `device_status[]`, `current_port`, `device_contexts` | `usb_process_events`, `handle_enable_slot`, descriptor requests | completions name no port; several ports at once; data read without waiting |
| xHCI initialisation (224-401) | registers, rings, scratchpads | `init_xhci` | registers lost to a reset that ends late; polling that must end; the capability walk |
| Keyboard (`kernel/usb_keyboard.c`) | endpoint ring, `keybuf` | `init_usb_keyboard`, `read_usb_keyboard` | writes its ring without limit, also a null one; one buffer for all transfers; drops other events |
| Page allocator (`kernel/mem.c`) | free list whose headers live in the free pages | `init_mem`, `alloc_mem`, `free_mem` | headers in other people's memory if anything overlaps |
| Loader (`boot/boot.c`) | allocations, image, page tables, memory map and key | `ReadFile`, `CalcLoadAddressRange`, `CopyLoadSegments`, `GetMemoryMap`, `ExitBootServices` with one retry | a stale map; what the kernel may later regard as free; segments outside the reserved pages |
| Paging, page faults (`kernel/paging.c`, `exception.c`) | page tables | `actual_init_paging`, `setupPageMap`, `do_page_fault` | ends of page maps, allocation failure half way, a fault that repeats for ever |
| Exceptions (`kernel/asm.S`, `exception.c`, `interrupt.c`) | registers, stack frame | stubs, handlers | what the interrupted code finds afterwards |
| PCI scan (`kernel/pci.c`) | command registers | `init_pci`, `scanBus`, `scanDevice` | the device number overflows into the bus number |
| Console (`kernel/console.c`, `uefi_graphics.c`) | cursor, saved cursor, frame buffer | `put_console`, `scroll_screen` | edges of the screen, scrolling by others |
| `vsprintf` (`stdlib/`), `printk` | format, buffer | conversions | formats that end early; padding |
| GDT, PIC, APIC, C library | tables, registers | | sequential |

Interaction: `vMain` calls `init_mem` with the loader's map; `alloc_mem` feeds
every ring, context and page table; `usb_process_events` consumes the event
ring and produces for the command and control rings; after it returns,
`read_usb_keyboard` is the only consumer of the event ring and the producer of
the keyboard's ring. `init_pci` calls `init_xhci` for each controller it meets.
Null pointers are part of the normal course (`start->next` in
`usb_process_events`, the ring of a keyboard that is not there): `do_page_fault`
maps page 0 on demand.

The hazards, each at its line, are listed in `PROJECT.json`.

## Modules

| Module | Models | Extends / uses |
|---|---|---|
| `TrbFifo` | what a ring promises: a bounded FIFO | |
| `EventRing` | the event ring, kernel and controller | refines `TrbFifo` |
| `EventRingProofs` | theorems about it | `EventRing` |
| `TrbRing` | `write_ring` against a fetching controller | refines `TrbFifo` |
| `TrbRingProofs` | theorems about it | `TrbRing` |
| `UsbEnum` | `usb_process_events` and `vMain`'s loop; rings as queues | |
| `UsbEnumProofs` | theorems about it | `UsbEnum` |
| `Memlist` | `init_mem` and `alloc_mem`, blocks as a sequence | |
| `MemlistProofs` | theorems about it | `Memlist` |
| `MemlistFree` | `free_mem` (and `alloc_mem`) with pointers, one loop iteration per step | |
| `MemlistFreeProofs` | the theorem about it | `MemlistFree` |
| `MemoryTest` | the memory test in `vMain` | `MemlistFree` |
| `Boot` | `BootMain`, kernel entry, then `init_mem` and `alloc_mem` | instance of `Memlist` |
| `BootProofs` | theorems about it and about `ElfLoad` | `Boot`, `LoaderParts`, instance of `MemlistProofs` |
| `InitXhci` | `init_xhci` against a controller that takes its time | |
| `Keyboard` | `vMain`'s input loop and the shared `keybuf` | rings as queues |
| `NullRing` | `read_usb_keyboard` with its doorbell when there is no keyboard and its ring is the null pointer | |
| `DeviceParts` | `init_pci`, `init_xhci`, the input loop with and without a keyboard and the keyboard's ring side by side | instances of `PciScan`, `InitXhci`, `Keyboard`, `NullRing`, `TrbRing` |
| `DeviceProofs` | theorems about these parts | `DeviceParts`, instance of `TrbRingProofs` |
| `AddressSpace` | what `setupPageMaps` promises: the requested pages, in order | |
| `Paging` | `do_page_fault` and `setupPageMap` with its recursion | refines `AddressSpace` |
| `ExceptionStub` | CPU frame, `asm.S` stubs, handlers, return | |
| `ElfLoad` | `ReadFile`, the ELF segments, the entry point | |
| `LoaderParts` | `ElfLoad` with the names of its variables beside `Boot` | instance of `ElfLoad` |
| `PciScan` | `init_pci` up to the calls of `init_xhci` | |
| `Console` | `put_console`, `put_char`, `scroll_screen` | |
| `Printf` | `vsprintf` and `number` | |
| `KernelParts` | exception stubs, paging, `vsprintf`, console side by side | instances of `ExceptionStub`, `Paging`, `Printf`, `Console` |
| `KernelProofs` | theorems about these parts | `KernelParts` |
| `MCDevices` | the parts of `DeviceParts` in one run | `DeviceParts` |
| `MCKernel` | the parts of `KernelParts` in one run | `KernelParts` |
| `MCLoader` | the two halves of the loader in one run | `MCBoot`, `LoaderParts` |
| other `MC*` | constants for TLC | |

`MCDevices`, `MCKernel` and `MCLoader` put parts together that share no state while
they run. Their variable `part`, chosen initially, says which part a behaviour is of;
the others stay in one initial state, and fairness is that of the part. Nothing is
composed by this but the runs.

Definitions named `X_what` and marked "Mutant" in their comment are wrong
variants of the definition `X` that follows them. No specification uses them;
substituting one for `X` shows that a property notices that mistake.

### EventRing
Pointers into the page are slot numbers. `get_eventring` of the code is the two
actions `get_eventring` (wait for the slot at ERDP) and `write_event_ring`
(advance ERDP, flip the expected cycle bit at the end of the page); the caller
then works with the pointer until `EndOfHandler`. The controller's `Post` is
external: it writes at its enqueue pointer unless one more event would make
the pointers meet, which is the rule of the xHCI specification. ERDP is
written in two halves in the code; the ring is one page, so the upper half
never changes and the write is one step.

### TrbRing
`write_ring_static` is two steps (words 0-2, then word 3 with type and cycle
bit), so a fetch may come in between; the link TRB likewise. `BeginTd(n)` is a
caller that writes `n` TRBs and one doorbell. With `Limited`, a caller begins
only while at most `Room == RingSize - 2` TRBs are queued or completed but not
handled. This is an obligation on the callers, not a check in the code:
`CommandsFit` in `UsbEnum` shows that enumeration stays far below 254. With
one more outstanding TRB a controller that has not yet followed the link TRB
of the last lap finds it overwritten by the next one and stops for good, so
`Room` is sharp. Without `Limited` the module is `read_usb_keyboard`.

### UsbEnum
Every branch of `usb_process_events` is an action named after its event. The
rings are queues, as shown by the modules above. A handler is one step except
where it rings a doorbell and then reads memory the controller writes: `get_descriptor_noreport`
does not wait, so handlers are cut there (`fs_*`, `conf_*`). Descriptor
contents are abstracted to which descriptor a buffer holds. The test for a
connected device reads `PORTSC(port) & 1` *as the register offset* and
therefore always succeeds; it is not a guard. The controller, the ports and
the devices are external. With `Sync` they finish everything they can before
the kernel's register write returns, as the emulated controller of `env.mk`
does; without it they take any time, and with `MayFail` commands and transfers
fail. `alloc_mem` always succeeds here (a failure ends in `panic`). The machine (how many
ports and slots, which ports are USB 3, full speed, have a keyboard, are pulled
out) is a constant of a behaviour, chosen from `Machines`. A device in `replug` may
be pulled out once: the emulated controller then starts PORTSC
afresh and reports it, and the device may come back. The kernel takes the new
events for those of a new port, sets the port back, and if it was the port's
turn the turn is never passed on; `OneAtATime` says that this is the only way.
The properties of `UsbEnum` are therefore about ports whose device has stayed in,
also on a machine where another port's has not. Each new connection asks for one
more slot, so that `ScratchpadKept` needs more of them there.

### Memlist, MemlistFree, MemoryTest
Addresses are in pages. `init_mem` is one step per descriptor, including its
habits: `start = 0` means "no run", so a run at page 0 is dropped, as is a run
behind a gap and the last run of the map. `NothingLost` says for which maps
that does not happen. `alloc_mem(0)` returns a block that stays free.
`MemlistFree` keeps the headers as a function on pages and follows the pointers
the code follows. It runs before an interrupt table is loaded, so a null
pointer stops the machine. `RegionsAssumption` is what `init_mem` leaves: blocks that
lie in memory, are not empty and do not overlap. Allocations and frees come in any order, as
`init_interrupt`, `init_xhci` and others allocate from what the memory test has freed.
`free_mem` may leave a page in two blocks: of three pages freed in the order 1, 3, 2, block 1 grows
over page 2, which is linked in again behind it, and an allocation of 2 pages then hands out page 2
while it stays listed. With pages 1 and 2 allocated one by one and freed in that order it
takes two calls less. So `NothingInUseListed` is about histories in which `alloc_mem` was
called only on lists that end and have no page twice (`ListApart`, recorded in `doubled`, which no
guard reads). The memory test's own calls lose a block (`memory_test`), but the list they leave has no
page twice, so that the property covers what the kernel allocates afterwards.

### Boot
One unit is a megabyte: the image at 1, the reserved stack at 5. `Plan` lists
the `AllocatePages` calls with their memory types in order; the firmware places
each at the top or at the bottom of free memory. `FirmwareChangesMap` may
happen at any time before `ExitBootServices` succeeds. After entry,
`actual_init_paging`, then `init_mem` and `alloc_mem` are those of `Memlist`.

### InitXhci
Each register access with an effect is a step; the controller ends a reset, gets
ready and starts to run at times of its own. Memory is counted in pages in the
order `alloc_mem` returns them. A capability's pointer is taken from the start of
the list and together with eight bits above it, as the code does; that is right
for lists of two, such as the emulated controller's. With longer lists, or with the upper bits set
(a legacy capability's semaphore, the minor revision of USB 3.1), it leaves the list too early or never
ends: with three capabilities at equal distances the second offset leads to itself, and `init_xhci` hangs.
`Trapped` says of a list that it has a set of offsets that lead only to each other; the instance has lists
of all three kinds (`WalkedLists`, `LeftLists`, `EndlessLists`), and `InitEnds` says that
`init_xhci` ends with the first two and never leaves the walk with the third.
Without scratchpads the array's address is that of the page the command ring
gets next; the controller does not look at it.

### Keyboard, NullRing
Reports are numbered, and a byte of `keybuf` is the number of the report it came
with. `read_usb_keyboard` is cut where the controller may write between two
reads. The checked properties are what remains true with one buffer: a key may
be printed twice or not at all, and with the shift state of the report before it,
but never an older one than the event says, and the last one is printed.
In `NullRing` the ring structure is in page 0, which reads as zero (`Paging`): the
first TRB overwrites it, and its buffer's address and control word become the ring's
address and size. The instance has the real sizes. `controller` says whether `init_pci` has started one.
If it has not (or the only one is at a function it does not look at), the doorbell's base is address 0
as well, and the doorbell's store clears the ring's address just written: the third TRB goes to 16
times `keybuf`'s address, the index never meets the end of the ring again, and each call
goes on from there. `NullRingFootprint` says this for both cases; `MaxTrbs` ends the endless one. What
`er_isQueued` reads in page 0 without a controller is left out: at worst a character is printed.

### Paging
`setupPageMap` calls itself; its activations are a stack, and one pass of its
loop is a step or two. Free frames hold junk, so forgetting to clear one shows.
`Span` is the number of pages an entry leads to, which the code writes as shifts by 9.
Facts about the code: `rw = false`, which no caller uses, takes the write
permission away at the upper levels as well (`readonly` remembers such a request;
without one `do_page_fault` never halts); of the page at `0x7fffffffe000` only the
first byte is in the range; a fault out of the range or without memory is
repeated for ever.

### ExceptionStub
A word is named for what it was when the exception came. The stubs are sequences
of instructions, built by the same macros as in `asm.S`. Vectors without a
descriptor end in the double-fault handler. Exceptions within a handler are left
out: the handlers touch only mapped memory. `SAVE_ALL_REGISTERS` does not save
`r8` to `r11`, which the C handler may change: the property is about the others,
and after a page fault the interrupted code may go on with other values in those. `struct interrupt_frame` has `rsp`
where the CPU puts `cs`; no handler reads it.

### ElfLoad
Pages of four bytes. The images are laid out as the linker does it: the lowest
segment begins with the file's header, and segments do not overlap (`ImagesAssumption`). `p_type` is read with 16 bits, which tells
`PT_LOAD` from the other types the linker writes. An image that does not begin on a
page boundary is refused by the firmware.

### PciScan
`Address` is the place the address register selects for a bus and a device number
that is not masked; `Or` is the `|` of two numbers of three bits. Every bridge has a
function 0, as PCI demands (`MachinesAssumption`). A controller may be at any function of its device, but
`scanDevice` looks for one at function 0 only and reads the others just to print them: controllers
at functions 1 to 7, which are common, are never started (`FirstFunctionsOnce`), and the kernel goes on without. `init_xhci` is reduced to its check and its effect. `scanBus`
counts to device 254, and numbers above 31 spill into the bus number. With a host
bridge of several functions, buses are scanned once per function and once more
through the spill, and a controller there may be passed to `init_xhci` while it runs,
which its check answers with a panic; `FirstFunctionsOnce` also says when.

### Console
Size of the screen and what is printed are a constant of a behaviour (`Modes`).
The screen is kept by pixel row and text column, each place holding the glyphs
drawn there. `ShowsText` is about the columns that scroll: only the first 400
pixels of a row are moved. It also says what is wrong in them. `scroll_screen` moves the pixel rows above `height - 16` and clears
those below it, so that row itself stays as it is (the `memset` that is commented out would have cleared it),
and the next lines are drawn over what is left there and carry it up. On a screen whose height is a
multiple of 16 it is a glyph's top row, which only `` $ ^ ` `` light; on another, such as one of 1080
lines, it is a row in the middle of the last line, which most glyphs light. So in row
`Rest` of each cell the screen has at least what the text says, and in every other row exactly that.
The clearing loop
also writes behind the last row. Black text is left out. `ScrollUnder` is the
scrolling by `init_xhci` and `usb_process_events`.

### Printf
One step per part of a conversion. `num < 0` is never true for an unsigned number,
so negative ones print as large ones. A format is a sequence of characters other than
NUL (`ArgumentsAssumption`); `*` takes its argument and is then printed.

## Runs

| Run | Instance | Shows |
|---|---|---|
| `event_ring` | 4 slots, 2 contents | `HeldTrbIntact`, `QueuedIffPending`, refinement of the FIFO, every event is taken |
| `trb_ring` | 6 slots, 2 contents, groups of 1-3 TRBs, 2 pending events | `IssuerStillThere`, refinement of the FIFO (which a torn fetch would break), every TRB is fetched |
| `memlist` | every map of up to 4 descriptors of 1-2 pages with or without gaps; sizes 0-3 | no sharing, only usable pages, no page lost |
| `memlist_free` | 2 regions, 9 pages, blocks of 1-2 pages, 6 allocations and any frees in any order | nothing in use is listed, unless `alloc_mem` was called on a list with a page twice |
| `memory_test` | the test's real sizes | **violated**: a block is lost |
| `usb_enum` | 3 ports, 5 slots; 2 ports, 3 slots, full speed, keyboards; 2 ports, 6 slots, one device pulled out; failures | one port at a time, the turn ends, no slot shortage; slots, rings and buffers are not mixed up; the command ring is not overrun; no step back |
| `usb_sync` | 3 ports, 2 configurations, fast controller | everything is enumerated before the prompt, and the prompt comes |
| `boot` | 16 units, 3 maps, 2 firmware changes | current map handed over; image and tables kept |
| | images of 1-3 headers, one of them loaded, | copies inside the reserved pages, segments in place, entry from the header |
| `boot_stack`, `boot_mapping` | as `boot` | **violated**: see below |
| `devices`, `init_pci` | 1-2 controllers on buses 0, 1, 2, 7, at functions 0 and 3; 4 host bridges | those at function 0 that are in reach once, the others never; when it panics |
| `devices`, `init_xhci` | 9 capability lists, 0-3 scratchpads, 2 per page, 8 pages | every register set when it starts, none lost to a controller not ready, scratchpad array not shared; comes to an end unless the list traps the walk |
| `devices`, keyboard | 4 reports, 3 transfers, 2 other events, failures | never a stale key; the last report is echoed |
| `devices`, ring | 5 slots, one content, no limit | even lapped, the controller fetches no torn TRB and is never without one for good |
| `devices`, no keyboard | real sizes, 3 places of `keybuf`, with and without a controller | with one the null ring stays in two areas, without one it has no end |
| `kernel`, exception | vectors 0-19, every set of changed registers | frame, place and saved registers |
| `kernel`, paging | 3 levels of 2 entries, 8 frames; accesses below, at and above the top, requests of 4 pages from 2 places, one read-only | an access is served, the page reads as zero, no protection fault; page maps form a tree; refinement of `AddressSpace` |
| `kernel`, `vsprintf` | every format of up to 3 characters of 13 kinds behind a `%`, and those with flags, width and precision | inside the format, `%` echoed, numbers read back |
| `kernel`, `put_console` | text on 2 lines of 2 columns and on 3 lines of 1, 1 column scrolls, with and without a rest, glyphs that light every row; movements by 0, 1, 2, 9 on 3 lines and a rest, 3 columns and a rest | the screen shows the last lines, and remains in one row of each cell; a newline brings the cursor back |

Several invariants are conjunctions of named parts, defined above them in the module:
`TurnMatchesCompletions`, `LimitsHold` (`UsbEnum`), `KernelLoaded` (`ElfLoad`),
`StartsConfigured` (`InitXhci`), `StubsTransparent` (`ExceptionStub`), `PageMapsSound`
(`Paging`), `EndsAtNul` (`Printf`). The `TypeOK` of a module documents its state; it is
proved for `EventRing`, `TrbRing`, `Memlist`, `UsbEnum` and `Boot`, holds in the runs of the others when it
is added to their `.cfg`, and is not listed there.

Bounds. Rings: all offsets of the two pointers and both cycle bits occur from
four slots on; six let a group of three straddle the link with the controller
behind it. Memory maps: four descriptors give a run that merges, a hole, a
reserved block and a trailing run together. Ports: with three, two wait at the
same time and the choice of the next one matters; slots are given as
`2 * ports - 1`, the number `ScratchpadKept` needs, and with a device pulled out as
many more as it can ask for. With three ports there are no full-speed devices and no
keyboards, with two there are. Two firmware changes make both `ExitBootServices` calls
fail. Page maps of two entries and three levels have an end at every level within
eight pages. Four reports let two overtake the events of two others. `MaxAllocs` is the number of `alloc_mem` calls in `memlist_free`:
six fill a region, empty it and allocate from what the frees left. `MaxTrbs` lets the TRBs of a machine without a controller
run over three pages. Deadlock checking is off where the machine really stops: `boot` (halt
after an error, memory used up) and the `free_mem` runs (everything freed, or
crashed).

Fairness. `EventRing`: weak fairness of the kernel, which polls in an endless
loop. `TrbRing`: the kernel finishes what it writes and handles events, and the
controller works through what a doorbell announced. The keyboard's ring (`devices`) assumes
only that the kernel goes on calling `read_usb_keyboard`, nothing of the
controller. `UsbEnum` (`usb_sync`): the kernel never blocks in a handler, and
controller and devices answer in the end. `Paging`: the processor goes on with an
instruction it has begun. `InitXhci`: the driver polls without end and the
controller ends a reset or start it has begun. `Keyboard`: `vMain`'s loop goes on;
nothing of the keyboard. The other runs assume no fairness.

### What the violated runs show
* `memory_test`: `free_mem` keeps walking after it has linked the block in, and
  links it again behind each later block that ends below it; the block's `next`
  then skips blocks. With the calls of `vMain`'s own memory test, 29 free pages
  are lost. (`free_mem` has no other caller.)
* `boot_stack`: `asm.S` loads `0xffff800000600000` into `rsp`; the kernel mapping
  adds `0x100000`, so the stack is in physical `0x600000`-`0x6fffff`, while
  `BootMain` reserves `0x500000`-`0x5fffff`. `alloc_mem` hands the stack out.
* `boot_mapping`: `kernel_pdp2` is allocated as `EfiLoaderData` and given away
  although `pml4_table[257]` uses it.

## Theorems

Proved with TLAPS for all values of the constants.

`EventRingProofs` (assumptions: `RingSize >= 2`, `NoEvent \notin Event`). None of
the properties is inductive: they need to know what every slot holds. `IInv`
adds to `TypeOK` that the controller's cycle state equals the kernel's exactly
when its pointer has not wrapped past the kernel's, that the cycle bit of each
slot says on which side of the two pointers it is, that pending slots hold
events, and that the slot a handler holds lies directly behind ERDP. From it:
`TypeCorrect`, `HeldTrbSafe`, `QueuedExact`, and `ImplementsFifo`: every step of
the ring is a step of `TrbFifo` or a stutter, under the mapping that reads the
queue off the slots between the pointers.

`MemlistProofs` (assumptions: descriptors do not overlap and are not empty).
`IInv` adds to `TypeOK`, `NoSharing` and `NullMeansFailure` that a run being
gathered is not empty (`RunOK`), that this run, the listed blocks and the
descriptors still to come are pairwise apart (`AheadApart`), that nothing is
allocated before `init_mem` ends (`NothingUsedYet`), and that run, list and
allocations lie in usable descriptors (`AllUsable`). `AheadApart` is what makes
`NoSharing` inductive: it says that the next block linked overlaps none.
From it: `TypeCorrect`, `PagesNotShared`, `NullIsFailure`,
`ReservedKept`; `NoPageLost` is an action property from the same invariant.

`TraceInv` ties what `init_mem` has built to what it has read: the run being
gathered begins at a descriptor that begins a run, so does every block linked so far,
the run ends where the last descriptor read ends, and list and run together are the usable
pages read so far. From it: `HeadersInPlace` and `InitFindsAll`.

`TrbRingProofs` (assumptions: those of `TrbRing`). `ProducerInv` holds with and
without the callers' limit: the cycle bit of each slot says whether it was written in
this round, and a slot that is only half written does not yet carry the producer's bit.
It gives `TypeCorrect`, and `OneTrbNotTorn` for a ring that is always written with the same TRB
(the hypothesis says that `Trb` has one member, which is `read_usb_keyboard`'s ring).
For callers that keep to the limit (`Limited`, as every caller but the keyboard does),
`LimitInv` adds that producer and controller are less than a round apart, which slots hold
what has been queued and not fetched, and that events point at slots that have
not been written since. From it: `LimitedNotTorn`, `IssuerKept`, and `ImplementsFifo`, with the
queue read off the slots between the controller's and the producer's index.

`UsbEnumProofs` (assumptions: those of `UsbEnum` on `Machines`: a machine has at
least one port, any number of slots, any devices). The invariant is built in layers, each resting on
the ones before: `Known` (types, and that every slot a handler looks up belongs to a port),
`TurnInv` (the reports of a port come in order, one port has its turn, the
handler in progress works for a port in the right state), `SlotInv` (slots are enabled in order and
a new one is in nobody's context), `CommandInv` (outside the input loop, every command and
completion belongs to the port whose turn it is or to one that was pulled out), and
`TransferInv` (transfers in a slot's ring name the port of its context, and no configuration
is asked for before the device descriptor was read). From them: `TypeCorrect`, `ServesOneAtATime`,
`MovesOnlyForward` (an action property), `SlotsAndPortsMatch`, `TurnsEnd`, and
`TransfersKeepToOwnBuffer`. The last one is stated under `ScratchpadKept`: with too few
slots, `handle_enable_slot` takes slot 0 for a slot, and then transfers do go elsewhere. What keeps
the scratchpad entry in place on a machine where no device is pulled out and that has two slots
for each port, less one (`Roomy`), is shown by a count over both queues, `LimitInv`: slots enabled and
Enable Slot Commands on their way are no more than the ports whose reset has begun and those that
have had a turn, less one (`SlotsAsked`), and each kind of command is bounded by the ports that
have yet to pass it (`EnablesFit`, `ConfiguresFit`, `EvaluateInOrder`). From it: `SlotsSuffice`; `RoomyTransfers`,
which is `TransfersKeepToOwnBuffer` without its condition; and `LimitsAreKept`. The last one
is for devices with at most one configuration, as in `MCUsbEnum`: the handler sends a Configure
Endpoint Command for each configuration with a keyboard. `AnswerInv`, for a controller that answers at once (`Sync`)
and transfers that do not fail, says that the descriptor asked for is in its buffer or last in its
ring with the doorbell rung (`Answering`), and that an endpoint that has sent an event keeps running (`EndpointsRun`).
From it: `ConfiguresTheConfigurationRead`, for any number of configurations.

`BootProofs` (assumptions: `LastUnit >= 6`, `FirmwareMaps` maps units to types, `MaxChanges` and
`Sizes` natural). `BootInv` says that the map key counts every change of the map, so that a
key that is current means a map that is (`KeyTells`), that each area the
kernel goes on using has a type `init_mem` never lists (`AreasReserved`), that the low
mapping is dropped before `init_mem` runs, and that the allocator is untouched until then and
satisfies `MemlistProofs!IInv` afterwards, on the map that was handed over (`Allocator`). The
allocator's steps are not proved again: `MemlistProofs` is instantiated with all maps without
overlaps, and its lemmas are cited. From it: `TypeCorrect`, `MapIsCurrent`, `TablesKept`.

`KernelIsLoaded` is about the other half of the loader, `ElfLoad`, for any page size and any
image that `ImagesAssumption` admits. Its invariant says that the range computed so far is that of the
headers read so far, that the pages reserved cover it, and that every segment copied so
far is in place and was not touched by a later one, because segments do not overlap.

`DeviceProofs` (assumptions: the bounds are natural numbers; a page holds a TRB and a
pointer, the control word is at least 3, `keybuf` lies behind as many TRBs as the control word says and 16 times its
address is a 32-bit number; the bridge has a function 0, which is no xHCI controller, and controllers at device 0 of bus 0
are at functions it has).
`NeverStale`: `keybuf` only becomes newer, and every event that waits or is held,
and the table chosen from it, are behind it. `NullFootprint`: with a controller the structure at address 0 is zero or
describes a ring at `keybuf` of as many TRBs as the control word says (`RingInv`); without one its address stays 0, its
index passes 1, is then 16 times `keybuf`'s address, and grows by one with each call, past any end (`LostInv`). `StartsWithAll`: a reset is under
way only while `init_xhci` waits for its end, so that a register once written
stays; pages not handed out have no owner, and those of the array keep theirs; the rounded-up
division gives the array a page for each pointer (`ArrayHolds`). `KeyboardRingNotTorn` is
`TrbRingProofs!OneTrbNotTorn` for the ring the input loop writes. `ControllersOnce`: with one function
the numbers 0 to 254 on bus 0 select every place but one, each once (`AddressOnce`,
`AddressAll`); `ScanInv` says that every controller at function 0 and at a number the scan of bus 0
has passed is running, and that nothing else runs while that scan goes on. The later scans of a
multifunction bridge start with all of bus 0 running. A theorem of this module speaks of
one part on its own; the run `devices` checks the same properties with the parts side by side.

`MemlistFreeProofs` (assumption: `RegionsAssumption`). `NothingInUseIsListed` holds although
`free_mem` may cut the list: `ListSound` says that some set of blocks holds the list head and is
closed under `next`, that each of them is free memory (`FreeList`), that live blocks lie apart, that
the block `free_mem` was given lies apart from them, and that the walk is in this set. Cutting
the list takes blocks out of reach and never links one in use. That `alloc_mem` unlinks what it
returns needs more: every block is entered from one place only, the list does not return to itself,
and its blocks lie apart (`Chain`). `ApartChain` gets this from `ListApart`, the condition
`alloc_mem` was called under as long as `doubled` is false; so the invariant is `ListSound` unless `doubled` (`ListInv`). The blocks listed are defined by a
recursive function; that its values stay in the set is an induction, done with the smallest counterexample.

`KernelProofs` (assumptions: `ShapeAssumption` and `UseAssumption` of `Paging`, `ArgumentsAssumption` of
`Printf`, `ModesAssumption` of `Console`). As in `DeviceProofs`, a theorem
speaks of one part.
`StubsHold`: `StubInv` says, for each instruction of a stub, how much of the full frame the
stack holds and which registers are still, or again, the interrupted code's.
`PageMapsHold`: `PagingInv` says that there is a depth for every frame such that an entry leads one
level down, to a frame in use that no other entry leads to, and that frames at the last level are zero
(`Tree`); and that each activation of `setupPageMap` works on a map at its depth. That
the walk of any address ends at the last level is again an induction over a recursive function.
`FormatEnds`: the position is within the format or at its NUL, and where a format of one character
stands in each state of the scanner (`OneKey`). `NewlineHolds`: the cursor can leave the screen only after a
movement has saved its line, which the newline restores (`CursorInv`).
`ShowsTextHolds`: `TextInv` says for every pixel row and every column that scrolls that the screen holds there
what the text printed so far has, and in rows other than `Rest` of a cell nothing else (`Matches`), and that the cursor is at the end of the text.

Model-checked only:
* liveness (`EveryEventTaken`, `EveryTrbFetched`, `NeverStarves`, `PromptComesReady`,
  `FaultServed`, `LastReportEchoed`, `InitEnds`), which needs fairness or ENABLED;
* `LimitsHold` on machines where a device is pulled out, which takes more slots than `Roomy` grants; TLC checks
  the one `MCUsbEnum` describes;
* `MapsInOrder`: the abstract specification's set of mapped pages is read off the whole tree, and
  a step of `setupPageMap` changes one path of it;
* `NumberReadsBack`, which needs powers of the base over the digits of a number.

## Not modelled, and why
* The bytes of contexts and descriptors, key tables, the font and messages: data no
  property tells apart. USB hubs: the code has none.
* PIC and APIC: constants are written to registers while every IRQ stays masked, and
  `unmask_interrupt` and `end_of_interrupt` are never called. The loop over the I/O APIC
  leaves out its last entry, which stays as the firmware left it.
* The GDT, C library functions and instruction wrappers: no state over time.
* Opening the volume and printing in the loader: firmware calls.
* The length of `printk`'s output, and what lies behind `device_status` in memory.

## Plan
What is left is proof: the refinement `MapsInOrder` from the invariant
of `PageMapsHold`, and `NumberReadsBack`.
