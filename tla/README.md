# HydroxOS: models, checks and proofs

This directory holds TLA+ models of the HydroxOS kernel (`kernel/src`), TLC
configurations that check them on small instances, and TLAPS proofs of their most
important properties for every instance.  `PROJECT.json` lists runs, theorems,
findings, hazards and, for every definition, the source lines it models.

Paths below are relative to `kernel/src`.

## The system

HydroxOS is a small x86-64 kernel: a cooperative scheduler for kernel threads,
synchronisation objects on top of it, a memory manager and a terminal driven by a
PS/2 keyboard.  It boots one core, but its locks, comments and interfaces are
written for several; the models take the number of cores as a constant.

| Component | State | Operations | Interacts with |
|---|---|---|---|
| Scheduler (`sched/mod.rs`, `sched/task.rs`) | thread states, saved registers, ready queue, current thread per core, soft interrupt queue | yield, suspend, context switch, start, kill, join, idle | wait lists, futures (join), interrupts |
| Wait lists (`sched/wait.rs`) | list of sleepers | wait, wake_one, wake_all | scheduler; used by mutex and future |
| Interrupts (`arch/x86_64/interrupt.rs`, `sched/mod.rs`) | handler table, `IN_INTERRUPT`, soft interrupts | entry, handler, end, `int 0x30` | everything: runs on top of whatever was executing |
| Spinlocks and guards (`sync/uninterruptible.rs`) | guard counter and saved flag per core | new, drop, lock, try_lock | soft interrupts run in the last drop |
| Mutex (`sync/mutex.rs`) | one tagged word, a wait list | lock, try_lock, unlock with hand-over | scheduler |
| Futures (`sync/future.rs`) | resolved flag, value, two reference counts, actions, sleepers | clone, drop, without_val, block, when_resolved, finish, all, any | scheduler, soft interrupts, log, keyboard, terminals |
| Frame allocator (`mem/frame.rs`) | count, top of a stack kept in the free frames | alloc_one, free_one, alloc_many, free_many | page allocator, page tables |
| Virtual regions (`mem/virt.rs`) | linked list of pages of sorted regions | free, alloc, reserve | page allocator |
| Slabs (`mem/slab.rs`, `util.rs`) | slab lists, free bit vectors, SlabInfos | alloc, free, drop | page allocator, itself (SLAB_INFO) |
| Heap (`mem/mod.rs`, `mem/early.rs`) | the switch between early and later allocators, the early area and its mark | alloc, dealloc, realloc, of pages in batches | frames, regions, slabs, page tables |
| Page tables (`arch/x86_64/page.rs`) | tables in frames, one root per address space | get_page, set_page, new address space, fill the upper half | frames, heap |
| Keyboard (`arch/x86_64/dev/ps2`, `io/dev/kbd.rs`, `io/keymap`) | scancode buffer, modifier and lock state, key buffer, one waiting future | init, interrupt, next_key | futures, terminals, device tree |
| Terminals (`io/tty.rs`, `io/vt.rs`, `io/ansi.rs`, `arch/x86_64/dev/vgabuf.rs`) | ring of rows, pen, parser state, read queue, pending requests, display | write, read, key press, redraw | futures, soft interrupts, log |
| Device tree (`io/dev`) | parents, children of hubs | connect, add, look up | terminals, keyboard |
| Shell (`cmd.rs`) | line, history | edit, recall, list threads | terminals, locks of the scheduler |
| Log, options (`log.rs`, `options.rs`) | list of terminals, options | log, parse | soft interrupts, `Future::all` |

What is hard in it:

* **Interleaving.**  Every object has its own spinlock, and operations drop one lock
  and take another with a half-done change between them: a yielding thread is in no
  queue for a moment, a waiter is on a list before its registers are saved, a mutex
  waiter gives the list back before it sleeps, a key arrives while the manager is
  between two listens.
* **Nesting.**  Interrupts, soft interrupts and context switches run on top of
  each other and share one counter of guards per core.
* **Manual memory.**  Futures, slabs, region lists, the frame stack and the early area
  are raw pointers into memory that is freed or given away by whoever comes last, and
  keep their own bookkeeping inside it.
* **Partial failure.**  Allocation and the start of the PS/2 controller have many steps,
  each of which can fail, and undo what came before.
* **State kept twice.**  The driver's idea of the keyboard, the editor's idea of the
  screen, the copy of the upper half of the page tables: nobody compares them.

Correctness of each component, in a sentence: a thread is in one place at a time and
no wake-up is lost (scheduler, wait lists); interrupts are off exactly while a guard
exists and soft interrupts run first thing after (interrupts); one holder, no sleeper
forgotten (mutex); exact counts, no use after free, no leak, nobody left waiting
(futures); nothing is handed out twice, nothing is lost, also when a call fails half
way (all allocators); every address space sees the kernel's pages (page tables); keys
arrive once, whole and in order or not at all (keyboard, terminals); the screen shows
what was written, and the line the editor has (terminals, shell).

## Modules

| Module | Models | Used by |
|---|---|---|
| `SchedAbs` | promise: an atomic first-in first-out scheduler | `Sched` implements it |
| `Sched` | scheduler, wait lists, join, interrupts that wake | `MCSched`, `SchedProofs` |
| `Interrupts` | guards, spinlocks, soft interrupts, interrupt entry of one core | `MCSync`, `SyncProofs` |
| `Mutex` | the mutex, over the scheduler that `SchedAbs` promises | `MCSync`, `MCMutex`, `SyncProofs` |
| `Future` | one future and its handles | `MCFutures`, `FutureProofs` |
| `FutureJoin` | `Future::all`, `Future::any`, over single futures | `MCFutures`, `FutureProofs` |
| `FramePool` | promise: a pool of frames, alloc_many all or nothing | `FrameAlloc` implements it |
| `FrameAlloc` | the frame stack in free memory | `MCMemory`, `FrameProofs` |
| `VirtAlloc` | the region allocator | `MCMemory`, `MCVirtAlloc` |
| `BitVector` | FixedBitVector, as operators | `Slab`, `MCSlab` |
| `Slab` | slab allocators and SLAB_INFO | `MCSlab`, `SlabProofs` |
| `EarlyAlloc` | the early allocator, as operators on its area | `Heap` |
| `PageTable` | walking and filling page tables, as operators | `Heap` |
| `Heap` | DefaultAlloc and PageBasedAlloc, composed with the two above | `MCMemory`, `MCHeap`, `HeapProofs` |
| `Deque` | ArrayDeque, a ring, as operators | `Keyboard`, `Terminal`, `Readline` |
| `Keyboard` | scancodes to key presses, lock and modifier state | `Input` |
| `Ps2` | the start of the controller | `Input` |
| `Terminal` | the read queue of a terminal | `Input` |
| `DeviceTree` | the device tree | `Input` |
| `Input` | keyboard hardware, driver, manager, terminal and reader, composed, from boot | `MCInput`, `InputProofs` |
| `Ansi` | the escape parser, as operators | `Screen` |
| `ScreenAbs` | promise: a scrolling screen without ring or redraw | `Screen` implements it |
| `Screen` | the output side of a terminal and the VGA display | `Console` |
| `Readline` | the shell's line editor | `Console` |
| `Console` | a screen and whoever writes to it, composed | `MCConsole`, `ConsoleProofs` |

The `MC` modules give constants and symmetry sets for TLC.  Three of them put models
that have nothing to do with each other side by side, so that one run serves them:
a variable `part`, chosen in the initial state and never changed, says whose behaviour
this is, and the variables of the others stay put.  `MCSync` has the mutex and the
interrupt guards, `MCFutures` a single future and the joins, `MCMemory` the heap,
two instances of the region allocator and the frame allocator.  An operator placed before a definition and named after a slip
(`TakeKeepsBit`, `UndoLeaks`) is a plausible bug of that definition; nothing in the
specification uses it, and each property is confirmed to fail when its slip is put in.

### Correspondence to the code

* **Sched.**  `pc[c]` is where core `c` is in kernel code; a step goes from one lock
  operation to the next, `owner` says who has each spinlock.  `readyQ` and `waitQ` are
  the intrusive lists.  `saved[t]` is whether the registers stored for `t` are the
  ones to resume with.  `YieldCurrent`, `Wait`/`WaitEnqueue`, `SuspendCurrent`,
  `LockOldProcess`, `EnqueueOld`, `DequeueReady`, `Dispatch` are the stages of a
  context switch; `Irq`, `IrqHandled`, `EndInterrupt` those of an interrupt, whose
  handler may wake; `Wake`, `TryWake`, `WakeEnqueue`, `WakeMore` those of a wake-up;
  `KillCurrent`, `KillRemove`, `FinishJoin` and `Join`, `JoinAsFuture`,
  `BlockUntilReady`, `WaitJoin` death and join; `ListThreads` .. `ListPrint` the shell's listing.
* **Interrupts.**  The calls in progress on a core are a stack of frames; `dis` is
  the guard counter, the flag it remembers and the processor's interrupt flag.
* **Mutex.**  `word` is the tagged pointer, `FromUsize` its decoding, with the bit the
  code leaves set; `seen[t]` is the value thread `t` read and still acts on.
* **Future.**  Each operation holds the FutureWait's lock throughout and is one step.
  Reading freed memory or a value that is not there sets `ub`.
* **FutureJoin.**  `slot` is the result's value slot, in which `all` counts down from
  `usize::MAX`; `waitRefs` the count in which `any` keeps its references.
* **FrameAlloc.**  `mem` is what is written in each frame; a frame in use holds junk.
  `stack` is a history of the free frames, which the invariant compares with `mem`.
* **VirtAlloc.**  `heap` holds list pages with `prev`, `next` and regions; each call
  is a function of it, with the code's thresholds on the constant `R`.
* **Slab, BitVector.**  The linked lists, changed only at the head, are sequences;
  SlabInfos are kept at the address where they are, so a slot used twice shows.
  SLAB_INFO's guard lives to the end of the `if let`, so pages are given back under it
  (`Undo`).  A bit vector is a function from words to sets of bits, and masks are sets;
  a range of one bit is ignored by `SetRange`, as in the code.
* **Heap.**  `call` is the call of `PageBasedAlloc::allocate` under way: `GetBatch`,
  `MapPage`, `Finish` and `Undo` are its steps, with the kernel address space locked
  throughout and frames taken meanwhile by a new address space (`TakeRoot`,
  `CopyUpperHalf`).  `Alloc`, `Dealloc` and `Realloc` are the methods of DefaultAlloc;
  `InitKernelAddrspace` and `SetUseEarlyAlloc` are the two moments of boot that change
  what they do.  Regions, frames and slabs are the sets that `VirtAlloc`, `FrameAlloc`
  and `Slab` are shown to be: frames are interchangeable, so the lowest free ones are
  handed out; a request gets the front of the last run of free pages that fits, which
  is what one list page does; a slab is one page, and SLAB_INFO is left to `Slab`.
  A kernel that panics halts (`Halted`).
* **EarlyAlloc.**  The area is a function from words to what is written there; behind
  each block is its size with the padding, which `free` and `realloc` read back.  Words
  above the mark are `Junk`.
* **PageTable.**  A table is a function from indices to frames; the two middle levels
  are one, and large pages, which only the boot loader makes, are left out.
* **Ps2, Keyboard, Terminal, DeviceTree, Input.**  `pc` is the next call of boot; a command
  to the controller succeeds, fails, or fails after it has taken effect.  Bytes on
  their way are on `wire`; `KeyboardIrq` and `MouseIrq` take one, `SoftKeyPressed` is
  the soft interrupt of a resolved key future, `ReadTty` a reader.  The interrupt of a
  byte may be taken on any core: with one core the driver's buffer stays empty, with
  two it fills while the first is busy.  `typed`, `down` and `lights` are what the user
  did, kept by the hardware's side only to compare with.  Of the tables of scancodes
  and keys there are twelve keys: those whose codes overlap, one of eight bytes among
  them, and one for every kind of layout entry and of modifier.  The run presses five
  of them; the theorems hold for any set of the twelve.
* **Ansi, Screen.**  The parser is two operators, the next state and the action of a
  byte; `vt` is the terminal with its ring of rows, `vga` the display after the redraw
  that every write ends with.
* **Readline, Console.**  One action per character typed, whose output goes byte by
  byte through the parser to the screen; `writer` chooses between the editor and
  arbitrary bytes.

## Runs

| Run | Instance | Distinct states | Shows |
|---|---|---|---|
| `sched_smp` | 2 cores, 3 threads, 1 wait list | 112 227 | no panic, a thread in one place (on one core, ready once, asleep on its list), only saved registers resumed, no lost join, no lock cycle but by joining in a circle; implements `SchedAbs` |
| `sched_up` | 1 core, 3 threads, listing | 7 852 | every ready thread runs, every joiner of a dead thread goes on |
| `sched_listing` | 2 cores and the thread listing | violation | lock cycle between the listing and `wake` |
| `sync` | mutex: 3 threads, 2 cores; guards: 1 core, 3 locks, 2 threads, 3 soft interrupts | 92 973 | exclusion, one user of the wait list, sleepers announced and served; no guard panics, interrupts off exactly under guards, soft interrupts first |
| `mutex_panic` | 2 threads, 2 cores | violation | release panics on a word it decodes wrongly |
| `futures` | one future with 5 handles; all and any over up to 4 inputs, `usize::MAX` = 5 | 42 249 | exact counts, no undefined behaviour, no leak, nobody left waiting; all means all, any means any, the result resolves |
| `slab` | 2 allocators and SLAB_INFO, 2 cores, 5 blocks, words of 2 bits | 69 339 | free lists exact, no object, SlabInfo or block lost or used twice |
| `memory` | heap: 6 frames, 5 pages, early area of 8 words; regions: 12 and 13 pages, up to 10 regions, 8 to a list page; frames: 7, 3 slots a page, 2 callers | 625 354 | nothing handed out twice, nothing lost by a failed call, the owner of a pointer found again, the early mark exact, kernel pages in every address space; lists of regions and frames exact, requests decided right, implements `FramePool` |
| `virt_panic` | 13 pages, up to 7 regions, 4 to a list page | violation | stale `prev` after a split trips an assertion |
| `heap_shrink` | 9 frames, allocations of 3 pages | violation | pages cut off by shrink are still mapped when they are handed out again |
| `input` | 2 cores, 5 keys, 3 make codes, 1 mouse byte, any command failing | 252 212 | keys once, whole, in order or dropped whole; driver and keyboard agree; boot leaves ports, interrupts and device tree in step; no key stays behind |
| `console` | 2 x 2 screen for any bytes, 4 x 2 for the editor | 124 286 | implements `ScreenAbs`, the line shown is the line edited, the history loses nothing |

**Why the bounds are enough.**  Three threads on two cores have a runner on each core
and one in a list, which is what it takes for a wake-up, a suspension and a dispatch
of the same thread to overlap.  Two cores and three threads let a mutex be released
while one thread enqueues and another already sleeps.  Seven frames with three slots
open, fill, empty and hand out a stack page above another.  Eight regions to a list
page is the least for which "nearly empty neighbour" is not "empty", so that every
branch of `split` is taken; three adjacent pages give coalescing on both sides and across
list pages, and thirteen that never touch fill a page and its neighbour.  Two SlabInfos
to a slab of SLAB_INFO (three slots, one its own) make it grow and run out, and two bits
to a word put its slots in two words.  `usize::MAX` at five lets four inputs use up the
head start of `all` but for one.  The interrupts part is bounded by `MaxSoft` only; locks
and guards are taken at most once per frame.  In the heap, a batch of two frames and
requests of up to three pages, with six frames of which tables take some, make
allocate fail in its first batch, in its second and while it maps; four words to a page
give slabs of one and two words and pages each a layout of their own, and eight words of
early area hold two blocks with a gap between them, or one that grows.
Three make codes (`MaxMakes`) with one slot in the driver's buffer (`KbdCap`) and four
in the read queue (`TtyCap`) overflow both; a key is sent when the one before has been
taken off the wire (`MaxWire`), since the driver reads a byte at a time and never looks
ahead.  A 2 x 2 screen scrolls and wraps in its ring; four
columns hold prompt, a line of `MaxLine` characters and the cursor behind it, and a
history of one line has an entry, the line below it and an entry pushed out.

**Limits of the passing runs.**  The region allocator stays within two list pages: a third
is made by the split that `virt_panic` shows to be broken.  The scheduler's
listing takes part in the one-core run only, for the reason `sched_listing` shows.
`memory` includes the shrinking of `heap_shrink`: where that leads to the failed assertion
the kernel halts, and the properties hold up to there and in the halted state.
A line of the editor stays within one row: the code has no wrapping of it.

**Deadlock.**  TLC checks for it where the system may not stop.  Off in `futures` (a
future's life ends), `input` and `console` (the user may stop typing).  In
`sync` it is on: only after one of the mutex's panics may all threads be stuck, and the step
`Stopped`, which changes nothing, stands for that.  In Sched, where idle cores and
interrupts always have a step, `DeadlockFree` says it for every set of cores.

**Fairness.**  *Sched* (`sched_up`): a core inside the scheduler goes on (weak
fairness of its steps).  Threads are not preempted, so a running thread is assumed to
give up the core some time although interrupts keep arriving (strong fairness of
yield, wait, kill and of blocking on a join), and handlers to end; a thread that never
yields does starve the others in this kernel.  *Mutex* (`sync`): a thread on a core goes
on, a guard is dropped some time, the scheduler dispatches.  No fairness is assumed of
the compare-and-swap loop, which is why only threads that already sleep are shown to
be served: one that retries can be overtaken for ever.  *FutureJoin* (`futures`): the
builder goes on; inputs need not resolve.  *Input*: boot goes on, and each core takes
the interrupts and soft interrupts it has; users and readers owe nothing.

## Findings

1. `sync/mutex.rs:29`: the owner of a mutex whose wait list is locked is decoded with
   a tag bit left in; release panics when it meets a thread that is enqueueing (`mutex_panic`).
2. `sched/task.rs:786`: `wake` takes the process lock under the thread lock, against
   the order documented at `task.rs:166` and `617` (`sched_listing`).
3. `mem/virt.rs:157`: `split` does not update the `prev` of the page after the new one,
   and `combine_pages` asserts on it later (`virt_panic`).
4. `mem/mod.rs:156`: `PageBasedAlloc::shrink` frees frames and region of the pages it
   cuts off but leaves them mapped; the next allocation there fails the assertion at
   `mod.rs:76` (`heap_shrink`).

Places that deserve a look and that no property is about, because the code there is
not reached in this kernel, has no promise to compare with, or is outside the models:
`sched/task.rs:594` (a callback on a join future would take a lock that is held),
`io/vt.rs:184` and `368` (manager and terminal locked in both orders),
`sync/uninterruptible.rs:98` (interrupts enabled whatever they were, against the comment
at line 81) and `247` (a loop over held locks that never takes one off the list),
`arch/x86_64/page.rs:318` (panic where allocate could fail) and `394` (no flush on other
cores, a TODO), `mem/mod.rs:121` (grow refuses a page's alignment, allocate accepts it),
`panic.rs:9` (what is left of the early area serves the panic screen), `io/dev/kbd.rs:34` (caps lock
toggles on repeated make codes), `io/dev/mod.rs:168` (callbacks under a lock) and `260`
(a missing component of a path is skipped), `io/ansi.rs:243` (the tilde is no final byte),
`arch/x86_64/dev/vgabuf.rs:130` (row number used as column).

## Proofs

All proofs are for arbitrary constants under the named assumptions of each module
(`SchedAssumption`, `MutexAssumption`, `CoreAssumption`, `FutureAssumption`,
`FrameAssumption`, `SlabAssumption`, `HeapAssumption`, `InputAssumption`, `HistAssumption`,
`ConsoleAssumption`): finite sets where things are counted, distinct null values, at least
two slots to a page, alignments that divide the sizes of slabs and pages they fit in,
bootloader's tables that are a tree in frames not reported as free.  `ConsoleAssumption` is
longer: terminals have two rows or more (with one, EraseToLineEnd in its first column clears
an empty range of the ring; the display has 25), prompt and line fit a row, since the
editor does not wrap, commands write whole lines, as their `writeln!` does, and the numbers
the editor writes have at most two digits, as columns of an 80 column screen do, and fit the
parser's buffer.  TLC evaluates the assumptions on every run.  Each
module states an inductive invariant as a conjunction of named parts, proves that every
action keeps every part, and draws the properties of the runs from it.

* **`SchedProofs`** (`TypeCorrect`, `Invariance`, `NeverPanics`, `OnePlace`,
  `SavedBeforeResumed`, `JoinersWoken`, `NoDeadlock`).  A thread is in one place only
  because a core in the middle of a switch or a wake-up has it in hand, so `SchedInv` says
  of every `pc` which locks the core owns (`LocksHeld`) and what state its thread is in
  (`StatesOK`, `CallsOK`, `ContextOK`), that no two cores have the same thread
  (`CoresApart`), and where each running, ready or waiting thread is (`ReadyOK`, `WaitOK`,
  `RunningSomewhere`, `ReadySomewhere`, `WaitingSomewhere`).  None of these is inductive
  alone: that a thread queued by `EnqueueOld` is not queued yet needs the owner of its
  lock, and that needs the states.  `NoDeadlock` ranks the locks as the code takes them
  (process, thread, join future, wait list, thread to wake, process): cores that all spin
  on each other must spin on thread locks, and the owner of each is a core that joins.  It
  has two hypotheses the code does not enforce.  Without `Listers = {}` it is false, as
  `sched_listing` shows.  And threads that join each other in a circle do wait for each
  other's locks (with one core per thread), which the proof attempt brought up;
  `DeadlockFree` excludes that state by `CircularJoin`, since a program that joins in a
  circle could not go on with any scheduler.
* **`SchedProofs!Implements`**: `Sched` implements `SchedAbs`.  Six steps are steps of
  the abstract scheduler (`Idle`, `On`, `Asleep` and `Dead` in `Sched` say where a thread in the
  hands of a core is: on the core, or still asleep, until it is queued); for all the others
  the mapped state is shown not to change.  `AsleepByOwner` is what makes the mapping a
  function of the locks: while a list's lock is held, the thread just taken off it is still
  asleep.
* **`SyncProofs`**, the mutex: `Exclusion` follows from `IInv`, *a holder is named by the word*
  (two holders would be one name).  `ListGuarded` and `NoLostWaiter` need `LInv`: whoever
  uses the list has set the word to "waiters locked" and nobody can change it from there,
  what a thread enqueueing has seen is still the word, the list holds exactly the
  threads that sleep or are about to, and an empty hand-over has seen an empty list.
* **`SyncProofs`**, interrupts (`CoreInvariance`, `GuardsNeverPanic`, `GuardsExact`,
  `SoftAlwaysRunFirst`).  The stack of calls is unbounded in the model; `Shape` shows that
  it is never more than three deep (a thread, one call or interrupt, one soft interrupt),
  because an interrupt needs the flag on, the flag is off while a guard exists, and a soft
  interrupt runs under a guard.  With that the count of guards is a sum of three numbers
  and needs no induction over the stack.
* **`FutureProofs`**: `MemorySafe`, `CountsExact`, `LeakFree`, `SleepersServed`,
  `ReadersServed` follow from one invariant: the counts are the numbers of handles (lemmas
  on cardinalities), the FutureWait lives while `wait_refs` is not zero, the value from
  finish to the last of `val_refs`, and nobody waits on a resolved future.  `JoinsSound` is
  about `all` and `any` over any number of inputs below `usize::MAX`: by `JoinInv`
  (`JoinCounts`) the slot is the head start less the inputs attached so far plus the
  callbacks to come, so it reaches zero exactly once, and `wait_refs` counts builder,
  handle and callbacks.
* **`FrameProofs`**: `PagesExact`, `NoFrameTwice`, `AllocatorSound` follow from: the
  pages in memory spell the history `stack`, free and used frames are disjoint, and an
  alloc_many under way has the lock and does not need more than there is; together they
  are `FreeListSound`, the property the run `memory` checks.  The arithmetic of slots and
  pages is in lemmas `ModNext` and `Bases`.  `ImplementsFramePool` maps the free frames of
  the stack to the pool: one step of an alloc_many takes one frame out of it, and
  `NumIsFree` (the count is the number of frames on the stack) makes its check at the
  start the all-or-nothing of the promise.
* **`SlabProofs`** (`BitsAreSlots`, `SlabInvariance`, `FreeListsExact`, `NoObjectLost`,
  `NoMemoryLost`).  First, `BitVector` on words is a set of slots: `find_next` is the least
  element of a set of naturals (by well-foundedness), and `count` is a cardinality by a
  bijection between slots and pairs of word and bit.  Then `SlabInv`: who has which lock
  with what in hand (`LocksHeld`), where every SlabInfo is (`Infos`, `Homes`), which slabs
  are on the lists (`Lists`), whose objects the slots are (`Objects`), and that every block
  is free, in one slab or in one hand (`Pages`).  SLAB_INFO keeps the SlabInfo of its own
  slabs inside them, which is why the slots in use are described by `Homes` for all
  allocators at once; and a slab whose pages a drop has freed is still on its list for one
  step, so `Pages` speaks of `Live` slabs.
* **`HeapProofs`** (`HeapInvariance`, `LiveIsDisjoint`, `OwnerIsFound`, `NothingIsLeaked`,
  `MarkReturns`, `UpperHalfIsShared`).  `HeapInv` says what boot has not done yet
  (`BootOK`), what a call of allocate half way through its pages holds (`CallOK`), that the
  page tables are a tree below the kernel's root and that every other root is a copy of it
  (`TreesOK`), and that every page and every frame has one owner (`PagesOwned`,
  `FramesOwned`: the allocator, a table, the root being made, a mapped page or the call).
  Ownership and trees need each other: a frame taken for a new table is nobody's, so
  hanging it into the tree changes the entry of no other page; and the tree says that two
  pages have two entries.  Once boot has filled the root, `set_page` never writes a root
  again, which is why the copies stay alike.  `EarlyOK` places the early blocks one behind
  the other; the word behind a block leads back to its start, *or* the mark will never be at
  that end again: a block shrunk below another has no such word, and the first alternative
  alone is not inductive.  The invariant says nothing of the entries of free pages, since
  shrink leaves them mapped; that is `RegionUnmapped`, which `heap_shrink` refutes.

* **`InputProofs`** (`BootSafe`, `DriverSafe`, `OrderSafe`, each from an invariant
  of its own).  `BootInv` says of every `pc` what the controller, the masks, the handlers
  and the tree are, with the commands that failed after they took effect as the only
  slack; that full names lead back to their devices is then a computation on the few trees
  boot can leave.  `DriverInv` does not compare driver and user, who agree only when
  everything was read; it says that the code read so far followed by the bytes on the wire
  is a sequence of whole scancodes, which takes the driver's view to the user's
  (`Pending`).  A key sent adds a scancode at the end, a byte read moves from the wire to
  the driver, and the last byte of a scancode is one step of the driver; that no scancode
  begins another one, the one of eight bytes included, is what makes the reading unique.
  `OrderInv` first shows that the rings (`Deque`) are sequences, then that the key presses
  in soft interrupts and in the driver's buffer are one line `q` in which numbers go up and
  only lost ones are missing, and that everything before is delivered.  A second core can
  only add to the buffer while the first still has the soft interrupt (`Line`), so of all
  cores at most one has presses; without that, order across cores would be lost.
* **`ConsoleProofs`** (`HistorySafe`, `ScreenRefines`, `LineSafe`).  `HistorySafe` needs
  only that the position is in the history.  For `ScreenRefines`, `VtOK` keeps the start of
  the ring and the cursor in range; `Ring` and `Cells` show that screen positions are
  distinct cells wherever the ring starts, and each parser action, for whatever bytes, is
  shown to be one step of `ScreenAbs` (`Shift`, `ShiftAbs`): the clearing of a row of the ring
  that wraps is the case a test hardly meets.  For `LineSafe`, what is shown while a
  sequence is half written is nobody's promise, so `ShellInv` speaks of the end: the bytes
  still to be written lead (`Reach`) to a terminal whose cursor row is prompt and line.
  Every key is then a statement about strings, `Writes(bs, F, x, G, y)`: the bytes take a
  row `F` with the cursor at `x` to `G` and `y`.  Text, numbers (`ReadDecimal`: the parser
  reads back what the editor prints), moves and erasing each get one, `WritesCat` joins
  them, and the rows are compared column by column (`InsertRow`, `RemoveRow`).  The row below
  the cursor has to be blank for this, which scrolling and all output keep.

Induction over sequences (the bytes of a string, the elements of a ring) is done in the last
two modules with sets of numbers: the least number outside a set exists (`WFMin`), so a set
with zero and successors is all of them (`NatInduct`, `UpInduct`), without an operator as
a parameter.  What recursive functions compute is read off their defining equations.

Only model-checked.  Liveness under fairness (`ReadyThreadRuns`, `JoinerGoesOn`,
`SleeperServed`, `ResultResolves`, `KeyReachesTerminal`), which is beyond the provers.  And
`VirtAlloc` (`ListSound`, `RequestsDecided`): its operators are recursive, and its invariant
would not hold for every value of the constants, since the `prev` that `split` leaves stale
(`virt_panic`) breaks the list as soon as there is a third list page.  The operations
of `BitVector` are also compared with those of sets by evaluation (`WordsAreSets`, assumed
in `MCSlab` for five and six bits in words of three, so with a partly used and a full last
word); for the operations `SlabInfo` does not use this is all there is.

## Not modelled

Registers and device registers as bytes; serial output; most of the tables of scancodes
and keys; parsing of options; formatting of the log; CPU exceptions; what happens after a
panic; disconnecting devices, which nothing in the kernel does; several terminals and
switching between them; reparenting of processes and thread stacks.  Freeing the memory of
dead threads is a TODO in the code.  The compiler's and the processor's memory model: locks
and atomics are sequentially consistent here, which the code's orderings on x86-64 provide.

Smaller things: the panic of a thread that blocks inside `run_non_blocking`
(`task.rs:539`), which nothing modelled calls; `wake_one` trying the next sleeper after a
dead one (`wait.rs:204`), a branch no modelled thread reaches, since a sleeper does not die,
is written as one try; the screen is redrawn after every byte and not after every write
(`vt.rs:201`), which shows the display in more states than the code does; the parser's
numbers have digits only, without the leading plus sign that `parse` would take
(`ansi.rs:165`).

## Plan

Models: callbacks on join futures in `Sched` (`task.rs:594`); the locks of manager and
terminals as locks in a composition of `Input` and `Console` on two cores (`vt.rs:184`);
`Slab` on top of `Heap`'s pages instead of blocks.

Proofs: `VirtAlloc`, with the repair of `split` that finding 3 calls for, and its recursion
written as functions.
