# A TLA+ model of the kernel

The repository is a teaching kernel (JOS) for x86: a physical page allocator and
two-level page tables (`kern/pmap.c`), environments (processes) with their
address spaces (`kern/env.c`), a round-robin scheduler (`kern/sched.c`), traps
(`kern/trap.c`) and system calls (`kern/syscall.c`), and a user library with a
copy-on-write `fork` built on the calls (`lib/`).  This directory holds TLA+
modules translated from that code, TLC configurations that check them on small
instances, and theorems checked by TLAPS.

## Inventory

| part | state | operations | what makes it correct |
|---|---|---|---|
| environment table, `kern/env.c` | `envs[]` (status, id, parent, `env_pgdir`, upcall), `env_free_list`, `curenv` | `env_init`, `envid2env`, `env_alloc`, `env_free`, `env_destroy`, `env_create`, `env_run` | the free list is exact; ids name slots, stay positive and are not reused at once; only parents act on children |
| scheduler, `kern/sched.c` | `curenv`, statuses, cr3 | `sched_yield`, `sched_halt` | one environment RUNNING; a RUNNABLE one is found, and gets its turn |
| page allocator, `kern/pmap.c` | `pages[].pp_ref`, `page_free_list` | `page_init`, `page_alloc`, `page_free`, `page_decref` | no page is free and in use, lost, or freed twice |
| page tables, `kern/pmap.c` | entries in the pages that are directories and tables | `pgdir_walk`, `page_lookup`, `page_insert`, `page_remove`, `user_mem_check` | `pp_ref` counts the references; tables belong to one address space and are never mapped by a program |
| system calls, `kern/syscall.c` | all of the above | `syscall` and its cases | errors change nothing; address spaces are isolated; write permission is not invented |
| traps, `kern/trap.c` | trap frame, exception stack | `trap`, `trap_dispatch`, `page_fault_handler` | a fault of a program never takes the kernel down |
| user library, `lib/fork.c`, `lib/pgfault.c`, `lib/pfentry.S` | copy-on-write mappings, frames on the exception stack | `fork`, `pgfault`, `_pgfault_upcall` | parent and child each see their own memory; a fault is invisible to the code that faulted |
| locks, other processors, `kern/spinlock.c`, `kern/mpconfig.c`, `kern/init.c`, `kern/mpentry.S` | `locked`, `cpu`, `cpus[]`, `mpentry_kstack` | `spin_lock`, `spin_unlock`, `mp_init`, `boot_aps`, `mp_main` | mutual exclusion without false panics; every processor starts, on its own stack, once |
| console, `kern/console.c` | input ring, modifier flags, screen and cursor | `cons_getc`, `cons_intr`, `kbd_proc_data`, `cga_putc` | input in order; no modifier sticks; the cursor stays on the screen |
| boot of memory, `kern/pmap.c`, `kern/entrypgdir.c` | `kern_pgdir`, `nextfree`, the first free list | `mem_init`, `boot_alloc`, `page_init`, `boot_map_region` | the free list has no page in use; what is written before the switch can be reached; programs can read what they may and write nothing |
| loaders, `kern/env.c`, `boot/main.c` | memory of the program or the kernel | `load_icode`, `region_alloc`, `bootmain`, `readseg` | each byte of a segment in its place |
| strings, formatting, lines, monitor, debug information, `lib/`, `kern/` | buffers | `memmove`, `vprintfmt`, `readline`, `runcmd`, `stab_binsearch`, ... | functional correctness, no overflow |

The parts interact by direct calls, on one processor but for the start of the
others and the kernel lock.  Interrupt gates keep
interrupts off inside the kernel, so a handler runs to its `env_run` alone; what
is concurrent is the order in which programs trap, and the timer.  The hard
behaviours are therefore long sequences of legal calls by several environments
(sharing, remapping, destroying, reusing slots and pages), exhaustion of slots
and pages in the middle of a call, wrap-around of counters, the order of writes
and checks inside a handler, and fairness.  `PROJECT.json` lists them one by one
as hazards.

State of the revision: `mem_init_mp`, `mmio_map_region` and the IPC calls are left
empty or panic ("LAB 2: Your code here"), so the boot checks of `kern/pmap.c`, and
`lapic_init` on a machine with a configuration table, stop the kernel before the
first environment runs.  The modules describe the code past that point: EnvSched,
Kernel and Fork on the one processor (`cpunum()` is 0) it is written to boot on,
Smp with the local APIC mapped.  Of the kernel lock only `trap` takes it, after
`CPU_HALTED`, while `sched_halt` releases it without holding it and `mp_main` never
takes it; Smp has the processors use `lock_kernel` and `unlock_kernel` in pairs, as
the comments ask, and checks the lock, not its use.

## Modules

* **EnvSched** — the environment table and the scheduler.  One action per
  handler; `env_alloc`, `env_run`, `sched_yield`, `trap_return` and `env_destroy`
  are operators that a handler composes in the order of its calls.  Variables
  are the C fields (`env_status`, `env_id`, `env_parent_id`), `env_free_list` as
  a sequence, `curenv` as a slot or `NoEnv`, and `mode`, where the processor is.
  Masks of powers of two are `\div` and `%`, so `NENV` may be any number; the
  int32_t limit of ids is the constant `IDLIM`.
* **Pmap** — physical pages and page tables, as operators on a record of memory.
  Entries live in the physical page that holds them, so a table reached through
  two directories, a table that is freed and reused, or a page that is not
  cleared behaves as it would in the machine.  `pp_ref` wraps at `RefMod`.
* **Kernel** — composes the two: each system call and trap conjoins the step of
  the environment table with what it does to memory.  `env_free` is a loop whose
  turns are steps (`victim` names the environment, `at` holds `pdeno` and `pteno`;
  nothing else is enabled meanwhile); the other handlers are one action each.  `Calls` selects the kinds
  of trap the programs of an instance take, and `Watched` the pages whose bytes
  (cleared, or written by a program) are followed.
* **Fork** — copy-on-write `fork`, `duppage`, `pgfault` and
  `set_pgfault_handler`, with a program counter: a step is one system call and
  the code up to it, and programs interleave between steps.  The kernel is
  reduced to what its calls do to mappings.  Every C call writes the stack, so a
  step is enabled only while the stack is writable; otherwise the program faults
  and `pgfault` runs first.  This is the case `fork` must get right, because it
  makes the stack it runs on copy-on-write.  A child that got no text page is destroyed by
  the `user_mem_assert` of `sys_env_set_pgfault_upcall`, and `fork` then returns -1
  (`kid_destroyed`, `kid_gone`); `fork_fair` reaches it.
* **AddressSpaces** — what `fork` promises: every program has a memory of its own,
  a child's is copied page by page before it starts.  Fork implements it with a
  view of each page through the page tables.  A page counts as copied when the
  second `sys_page_map` of `duppage` has been made, since the parent may write the
  frame until then.
* **Spinlock** — `spin_lock` and `spin_unlock`, one step per access of `locked` and
  `cpu`.  The two reads of `holding` are separate steps, since they are made without
  the lock.  A processor takes and releases the lock in turn.
* **Smp** — the start of the processors, over Spinlock: `mp_init` as a loop over the
  entries of a configuration table (`i` counts them), `boot_aps` with INIT and STARTUP
  as messages that act on the target's program counter, `mpentry.S` and `mp_main`.  A processor is its APIC
  id; the code takes the ids to be 0, 1, ... in the order of the table
  (`cpu_id = ncpu`), and so does the model.
* **Upcall** — the words on the stacks: what each of the 256 stubs of `trapentry.S`
  and `_alltraps` leave on the kernel stack, `env_pop_tf`, the frame that
  `page_fault_handler` writes, and `pfentry.S` instruction by instruction.  The
  program's stack is copy-on-write after a fork, so `pfentry.S` itself may fault.
  `saved` is a history variable.  With `StackFirst` a program writes its stack before
  it faults on another page (a call pushes its return address); see the facts
  below for what happens otherwise.
* **Keyboard**, **Console**, **InputQueue** — `kbd_proc_data` with its tables; the ring
  of `cons_intr` and `cons_getc`, with keys and serial bytes arriving between any two
  reads of a device; and the queue that the ring implements, loss included.
* **Strings**, **Printfmt**, **Terminal**, **Kdebug**, **BootMem**, **Segments** — the pure
  routines as operators: `lib/string.c`; `lib/printfmt.c` with the buffers of
  `cprintf` and `snprintf`; `cga_putc`, and what one turn of the loops of `readline` and
  `runcmd` does; the search for symbols; `mem_init`; one page of `user_mem_check`, one
  segment of `load_icode`, and `readseg`.  Pages and
  sectors of BootMem and Segments are a few units long, integers of Strings and
  Printfmt a few bits wide (`UINTMOD`, `LONGMOD`), `entry_pgtable` is the function its
  1024 lines spell out.
* **Loops** — the five routines that are one loop over their input, a turn at a time:
  `readline` takes a key, `runcmd` a character, `user_mem_check` a page, `load_icode` and
  `bootmain` a segment.  `fn` is the routine, `arg` its inputs, `res` the state of its
  loop.  `LoopSpec` lets any other routine run between them (`Other`), so what is proved
  about it holds in Routines.
* **Routines** — calls all of them, one at a time, with every input of an instance; a state
  is a call that has returned, or for Loops a turn of the loop.  The properties compare the
  results with definitions that do not follow the code.
* **EnvSchedProofs**, **PmapProofs**, **KernelProofs**, **ForkProofs**, **SmpProofs** (with
  Spinlock), **ConsoleProofs**, **UpcallProofs**, **LoopsProofs** — proofs.
* **MCEnvSched**, **MCKernel**, **MCFork**, **MCSmp**, **MCUpcall**, **MCConsole**,
  **MCRoutines** — what the configurations instantiate.

A definition that ends in `_` and a word (`page_alloc_nozero`) is the definition
before the underscore with a plausible mistake: `PROJECT.json` says which property it
must break, so that no property holds whatever the code does.

`mode = "boot"` stands for `i386_init` after `env_init`; the number of
environments it creates, and the segments of their binaries, are arbitrary.
Return values are dropped except for `-E_NO_MEM` (`nomem`), the only error code
that depends on memory.  System calls that do nothing to this state
(`sys_cgetc`, `sys_getenvid`), breakpoints and spurious interrupts are `idle`.

The `"stray"` calls — unmapping or sharing an address whose page table exists
but where nothing is mapped, and asking for permission bits outside
`PTE_SYSCALL` — are kept apart, because `page_lookup` does not test `PTE_P` and
they damage page 0 (findings below).  No program of `lib/` or `user/` makes one,
and the passing runs are about programs that do not.

## Runs

| run | checks |
|---|---|
| `envsched` | `OneRunning`, `EnvFreeListExact`, `FreshId`, `ChildrenOnly` on three slots, with ids that wrap after two generations; `FairUnlessExits`: with the timer a RUNNABLE environment is served, unless running ones exit for ever |
| `kernel_pages` | `TypeOK`, `RefExact`, `FreeExact`, `TablesExclusive`, `Cr3Valid`, `Isolation`, `NoWriteEscalation` while two environments fork, destroy, allocate, share and unmap |
| `kernel_faults` | `NoResidue` with bytes of pages followed, `NoMemChangesNothing`, and `SchedSpec`: Kernel implements EnvSched; with page faults, checked pointers, exceptions and panics, over three page tables |
| `fork` | `PrivateMemories` (Fork implements AddressSpaces), `ForkInv` (types, `XstackPrivate`, `PftempFree`), `PanicMeansNoMem` for three programs with data, heap and stack that fork, store, fault and exit |
| `fork_fair` | `ForkReturns`, when any call that needs a page table may fail |
| `smp` | `MutualExclusion`, `NoSpinPanic`, `StacksOwn`, `NeverReset`, and `Started` and `LockReleased` (liveness), from any of five configurations |
| `upcall` | `TrapframeExact` for every vector by exception, interrupt or `int`; `UpcallInv` (types, `FramesIntact`); `ReturnExact` under nested faults |
| `console` | `ConsoleInv` (types, `NoStuckModifier`), `InputInOrder`: Console implements InputQueue |
| `routines` | `StringsExact`, `FormatsExact`, `EchoShowsLine`, `RuncmdWords`, `KeysMeanLetters`, `SymbolsFound`, `BootPagesSafe`, `KernelMapSafe`, `EveryPageChecked`, `SegmentsLoaded` |

Bounds.  Three slots are the fewest in which the scan of `sched_yield` can wrap
and pass over somebody; two generations reach the wrap of the id and the reuse
of an id.  Six pages for two environments (a directory, a table and a stack
each) leave no page over when both are loaded, and two or three when one is, so
that every call meets both an empty list and its last page.  `kernel_faults` has
page tables of one entry so that the next page needs another table, which is
where `user_mem_check` and `page_insert` branch.  The ids of both Kernel runs have one generation; their reuse is
`envsched`'s and the theorems'.  A larger `kernel_pages`
instance adds no new kind of entry, only more of each.  `fork` has three
programs, so a grandchild and a sibling share frames with the first, and eight
frames: enough for three to run and too few for all three to copy their pages.  Calls fail
there only for want of frames (`TablesFail` is FALSE); `fork_fair` and `ForkSafety` are about
calls that are refused a page table as well.
The heap page may stay copy-on-write from one fork to the next; data and stack are
written by every fork.  `MCView` identifies states that differ in frame numbers or
in the bytes of free frames, and the two programs that `fork` creates are
symmetric.

`smp` has four processors and room for three in `cpus[]`; its tables have the boot
processor first, the boot processor second, more processors than `NCPU`, and an
entry of an unknown kind before or after the boot processor; or there is no table.  `upcall` has an
exception stack of 40 words: two frames with their handlers fit, and the third
overflows it; nothing else bounds the nesting.  `console` has a ring of three, so that a burst of keys overtakes the
reader, a keyboard that keeps three codes, Shift, Alt, Del and both Ctrl keys, and the
serial bytes 0 (which `cons_intr` drops) and carriage return.  In `routines` memory
has 12 bytes and words of four, so every alignment and overlap of `memmove` occurs;
integers have 8 bits, and all of them are printed and read back; the screen has three
rows of three and the line buffer five characters, so lines wrap, scroll and fill up,
and any number of keys may be typed;
`argv` holds three; stab tables have up to five entries, and a kernel and a program have one
each; the kernel image ends at any of three pages, and machines have up to 32 pages, in front
of and behind what the first page table maps; texts have a character code above 127; ranges and segments begin and
end at every offset in a page or sector.

Fairness.  `SchedFairness`: boot goes on, and the LAPIC timer is programmed
periodic (`lapic_init`) while user mode runs with `FL_IF` (`env_alloc`).
Programs have no fairness, and Kernel needs none: the loops of `env_free` are counted.  In Fork, `FairSpec`
says that a program inside `fork` or `pgfault` goes on, which is what the
scheduler gives it (`FairUnlessExits`); what a program does by choice is not fair.
In Smp every processor goes on executing, `xchg` included, but one that is outside the
lock need not ask for it; weak fairness does not say who gets the lock, so
`LockReleased` promises only that it keeps changing hands.

## Findings

Each is a run that TLC must find violated; the property says what the comment
says, and `PROJECT.json` quotes it.

* `stray_unmap`: `page_lookup` takes a cleared entry for page 0, so unmapping such an
  address frees page 0 (and sharing it maps page 0).
* `xstack_panic`: `page_fault_handler` writes the exception frame before it
  checks it.
* `straddling_segment`: `region_alloc` rounds the length and not the end, so `load_icode`
  faults on the last page of a segment that straddles a page boundary.  With the end rounded,
  as the comment asks, `UnalignedLoaded` and `SegmentsLoaded` both hold.

Facts that the modules record and properties make exception for, without a run of
their own:

* After the running environment is destroyed, `curenv` is NULL and the scan restarts at
  slot 0 (`kern/sched.c:35`; the comment has it start after the last one).  This is why
  `FairUnlessExits` needs its second disjunct.
* The error path of `user_mem_check` reads through a `pte` that may be NULL
  (`kern/pmap.c:778`), and reports an entry instead of an address.  When the rounded end
  of the range wraps around, the loop does not run and the answer is yes:
  `EveryPageChecked` stops short of that range, and takes the read through NULL for a
  refusal.
* `fork` drops the result of `duppage` and may start a child without the page
  (`lib/fork.c:179`).
* `pp_ref` is 16 bits wide and not checked (`inc/memlayout.h:187`): `RefMod` of the runs
  is above the number of entries.
* `sys_page_alloc` answers a permission bit outside `PTE_SYSCALL` with `-E_NO_MEM` where
  its comment says `-E_INVAL` (`kern/syscall.c:215`; one of the `"stray"` calls).
* `mem_init` maps `bootstack` below `KSTACKTOP`, where `check_kern_pgdir` asks for
  `percpu_kstacks` (`kern/pmap.c:977-984`) and the mapping of the other processors' stacks is
  `mem_init_mp`'s: `KernelMapSafe` says that the stack the code maps has a gap of its size below
  it and pages of its own, whichever they are.
* `debuginfo_eip` believes the program's table (`kern/kdebug.c:143-152`, where the comment asks
  for `user_mem_check`): a table that is not mapped faults in the kernel.
* `kern/kdebug.c:41-43` promises an empty range when no stab of the type is found.  The code
  gives one when the region has none of that type; when all of them lie after the address, the
  range starts where the region does and ends before the first of them.
* With `StackFirst = FALSE` in Upcall, a program may fault on another page while its own
  stack is still copy-on-write.  `pfentry.S` then switches to that stack and faults at
  its `pushl %eax`, with a stack pointer outside the exception stack, so
  `page_fault_handler` puts the new frame at the top of the exception stack, over the
  frame that `pfentry.S` has not finished with (`kern/trap.c:369-376`): TLC refutes
  `FramesIntact`.  `kern/trap.c:331-333` says that a fault of the upcall pushes another
  frame on the exception stack.  `upcall` is about compiled code that pushes first.
* `stab_binsearch` continues with `addr + 1` after an exact match (`kern/kdebug.c:89`): a
  stab of the type one byte further is returned instead.
* `ctlmap` has Home at 0x97 where the other tables have 0xC7 (`kern/console.c:297`).
  No trap handler reads the keyboard (`trap_dispatch` has no case for it, and destroys
  the environment a key interrupts), so the ring is filled only by polling.
* `cprintf` of the library prints 255 characters a call, not the 256 of its comment
  (`lib/printf.c:14`), which is what `FormatsExact` allows.  `%s` passes a code from 128 on
  to `putch` as a negative number (`lib/printfmt.c:208`); the buffer makes a byte of it again.
* `%5d` of a negative number pads after the sign, `%-5d` pads on the left with `-`.
  The kernel's `putch` counts with `*cnt++` (`kern/printf.c`), so `cprintf` returns 0.
* `pages[]` and `envs[]` are not cleared, so `pp_ref++` of `page_init` starts from whatever
  was there; `boot_alloc` never panics though its comment says so; `boot_map_region`
  returns silently when it gets no table (`kern/pmap.c:534`).
* `mp_init` sets `bootcpu` before it compares `ncpu` with `NCPU`: a boot processor beyond
  the first `NCPU` entries would be lost.  `SmpAssumption` excludes it.

## Theorems

`EnvSchedProofs`, for every `NENV`, `ENVGEN` and `IDLIM` that satisfy the named
assumptions of `EnvSched` (the generation step and the id limit are multiples of
the number of slots, as 2^12, 2^31 and 2^10 are):

* `SchedSafety`: `SchedTypeOK`, `OneRunning`, `EnvFreeListExact`, `IdNamesSlot` and
  `SomethingToRun` (the processor gives up only when nobody can run).  `SchedInv` is the inductive
  invariant.  It adds to them that nobody is current during boot (the scheduler
  would otherwise demote it), and that a FREE slot keeps an id that is 0 or names
  the slot (the next generation is computed from it).  `GoodStatus` and
  `Scheduled` say what `sched_yield` needs and guarantees, so each handler is
  proved once, against them.  That the scan finds a RUNNABLE environment rests on
  the least element of a set of naturals.
* `SchedFreshId`, under `IDLIM > 2 * ENVGEN`: without room for two generations a
  slot would get the same id for ever.
* `SchedChildrenOnly`.

`KernelProofs`, over the lemmas of `PmapProofs`, for every number of pages, entries and
slots:

* `KernelImplementsSched`: `Spec => SchedSpec`.  Each action of Kernel is mapped to
  one of EnvSched or to a stutter; the `env_free` loop needs `VictimReachable`, that
  the environment being taken apart stays one its killer may destroy, as an
  auxiliary invariant on top of `SchedInv`.  Run `kernel_faults` checks the same `SchedSpec`.
* `KernelSchedSafety`: the invariants of `SchedSafety` hold in the kernel as a whole.
* `KernelTypes`: `TypeOK`, whatever the programs ask for.
* `KernelRefs`, `KernelFreeList`, `KernelTables`, `KernelCr3`: the memory invariants
  `RefExact`, `FreeExact`, `TablesExclusive` and `Cr3Valid`.
* `KernelIsolation`, `KernelNoWriteEscalation`, `KernelNoResidue`, `KernelNoMem`: the
  action properties, each from the invariant and one step.

The memory theorems have the form `ASSUME ~Stray PROVE Spec /\ []NoWrap => ...`.  Both
hypotheses are facts about the code.  `~Stray` excludes the calls that take a cleared
entry for page 0: run `stray_unmap` shows that `FreeExact` fails with them.  `NoWrap` says
that no page has `RefMod` references: `pp_ref` is a `uint16_t` that nothing checks, a page
mapped 2^16 times is counted 0 and freed under its users, and a real machine has room for
that many entries.  `NoWrapSmall` discharges the hypothesis for memories with fewer entries
and slots than `RefMod`, the model-checked ones among them.

The inductive invariant is `MemoryInv == KernInv /\ MemOK /\ Cr3OK`.  Of `KernInv`,
`Swept` says that the entries and tables behind the counters of `env_free` are clear, so
that no table is left when the counted loops end and the directory goes.  `MemInv(m, E, H)` of
`PmapProofs` says that the pages form a forest (directories owned by one slot, tables by
one directory entry, entries of anything else clear, no table written by a program), that
every count is the number of references, and that the free list is without repetition and
holds the pages that have no reference and are not in the set `H` of pages in hand.  `H` is
what makes the statement inductive inside a routine: between `page_alloc` and the store
of the entry a page is neither free nor referred to, and a panic there leaves it so.
`PmapProofs` proves of each routine (`page_alloc`, `page_decref`, `pgdir_walk`, `page_insert`,
`page_remove`, `env_setup_vm`, ...) what it does to `MemInv`; `KernelProofs` proves once that
every step of the kernel makes one of a few changes to memory (`MemStep`: a page allocated
and mapped, a mapping shared, a mapping removed, a table pruned, a directory torn down, bytes
written, ...), and the invariant and the action properties from that list.

`ForkProofs`, for every set of programs and pages and every number of frames:

* `ForkSafety`: `ForkInv`, also when any call is refused a page table.  `LibInv` adds what
  relates the program counter to the page table: the child a parent is building belongs to
  nobody else and has not started (`KidOwn`), until the kernel destroys it for want of a text page, a program that is not alive has nothing under
  way (`Idle`) and no page (`Unmapped`), the loop of `fork` is inside `Pages` and its stack is
  writable where the code has just written it (`InLoop`), and `pgfault` copies a page that is
  still copy-on-write (`FaultCow`).
* `ForkPanics`: `PanicMeansNoMem`, under `~TablesFail`: no call is refused a page table while
  there are frames.  `CowInv` adds the sharing discipline: a frame that somebody maps writable
  is mapped by nobody else (`Owned`, with the exception that `duppage` needs between its
  two `sys_page_map`s), the frame at PFTEMP is the copier's alone (`TempOwned`), and a fault
  that is served is one on a copy-on-write page (`FaultServed`).
* `ForkPrivate`: Fork implements AddressSpaces, under the same hypothesis.  Without it the
  statement is false, because `fork` drops the result of `duppage`: a child may start without
  a page.  `DupInv` adds that between the two calls of `duppage` parent and child see the same
  frame.  A store is a Write or a stutter, the second call of `duppage` (or the only one, for a
  page that is not made copy-on-write) is a Copy, `sys_exofork` is a Create, the change of
  status is a Start, exit is an Exit, and every other step, the whole of `pgfault` among them,
  is a stutter.

`SmpProofs`, for every set of processors, every `NCPU` and every configuration table that
lists the boot processor once, among the first `NCPU` processors:

* `SpinSafety`: `MutualExclusion` and `NoSpinPanic`.  `SpinInv` adds that the lock word
  is 1 while somebody owns the lock, and that `cpu` names a processor exactly between
  that processor's two writes of it.  The second is what makes the unlocked reads of
  `holding` harmless: whatever they combine, a processor outside the lock does not find
  itself, and the owner does.
* `SmpImplementsSpin`: `Spec => SpinSpec`, so the start of the processors never touches
  the lock; `SmpLockSafety` follows.
* `SmpStacksOwn` and `SmpNeverReset`.  `SmpInv` says how far the loop of `mp_init` has counted
  (`Counted`, `Listed`), that at most one processor is on its way up and it is the one `boot_aps`
  waits for (`OneAtATime`), and that a status that `boot_aps` would take for an answer was
  written by the processor itself (`StatusTrue`).  The last needs `bootcpu` to be the processor
  that runs `boot_aps`, wherever the table lists it: its status is set by `mp_init`, and
  `boot_aps` would otherwise go on at once.

`ConsoleProofs`, for every keyboard, every depth of its buffer and every size of the ring:

* `ConsoleIsQueue`: Console implements InputQueue.  The lemmas `RingPush` and `RingPop` say
  what a store and a read do to the sequence that a ring with two positions stands for.
* `ConsoleSafety`: `ConsoleInv`.  `LagInv` says that the codes still to be read are explained by a
  history of keys going down and up that starts from what the driver's flags claim and ends with
  the keys that are down: the history is the witness of an existential, so a code that arrives
  extends it at one end and a code that is read shortens it at the other, and no induction over
  the buffer is needed.  `ConsoleAssumption` excludes a key with code 0x60, whose release would
  be the escape code 0xE0; no keyboard has one.

`UpcallProofs`, for every size of the two stacks:

* `UpcallTrapframe`: `TrapframeExact`.  The stub pushes a zero exactly where the processor
  pushes no error code, so `_alltraps` leaves the 17 words of `struct Trapframe` for each of
  the 256 vectors, by exception, interrupt and `int`.
* `UpcallSafety`: `UpcallInv`, and `UpcallReturn`: `ReturnExact`, for every size of the C handler's
  frame too and any depth of nesting, in programs that write their stack first (`StackFirst`;
  without it TLC refutes `FramesIntact`, see above).  `NestInv` says that the faults being handled
  form a chain (`Chain`: the first interrupted the program on its own stack, every other one the
  C handler of the fault before, and each frame lies at least 16 words below the one before, which
  bounds the depth by the exception stack); that the waiting faults have their frame and the call
  of their handler (`Outer`); that the program is at a known distance from the innermost frame at
  each of the 17 instructions and in the handler, with the registers that `pfentry.S` still needs
  (`Program`, `Inner`, `Offset`); that the program's stack is writable when `pfentry.S` goes back to
  it (`StackServed`: the first fault was on that page and is not over); and that a trap frame is the
  program's (`Trapped`).  An instruction keeps every word above the scratch word of the innermost
  frame (`Kept`), so the outer faults do not notice; `pushl %eax` writes the program's stack or
  that scratch word, which is why the word is there.

`LoopsProofs`, for every size of screen, buffers, pages and sectors, every key, line, page table,
program and image that satisfies the assumptions:

* `ReadlineEchoes`: `EchoShowsLine`.  `EchoInv` says that the line lies in the cells just before
  the cursor (`Shows`), so the cursor is at least as far from the first cell as the line is long.
  A scroll keeps that only if the line fits the rows that remain: `TerminalAssumption` asks for
  `BUFLEN <= CRT_SIZE - CRT_COLS + 1`, and the code has 1024 and 1921.
* `RuncmdParses`: `RuncmdWords`.  `RunInv` says that the arguments found are the starts of words
  before the position (`Starts`), in order, that the spaces before it are zeroed, and that the
  scan is in an argument exactly when the last character was in a word.  Words and their starts
  correspond one to one (`WordStarts`), so the count that fills `argv` is that of the words.
* `UserMemChecked`: `EveryPageChecked`.  `CheckInv` says that the addresses reached are those of the
  range at steps of a page, that the pages behind them may be accessed, and what the answer is
  worth once the loop has ended.  The loop starts at an address that need not be aligned
  and compares with an end that is: that it neither skips the last page nor looks at one too many
  is the arithmetic of the proof.  The test `> ULIM` lets `ULIM` itself through, which is
  harmless because only the kernel may use the pages from there on (an assumption on the
  page tables; `KernelMapSafe` of `routines` checks it for `mem_init`).
* `LoadersExact`: `SegmentsLoaded`, that is `LoadedOrPanic` and `KernelLoaded`.  `LoadInv` says that
  the headers behind the position are good and their bytes are loaded, or that one of them is to
  blame for the panic: malformed, or straddling a page boundary (`Blamed`).  A later
  segment, and the page of the stack, leave them alone because the regions that
  `region_alloc` maps share no page.  The comment of `load_icode` allows to assume that of the
  program, and `LoopsAssumption` that it ends below the page of the stack.  That a straddling
  segment panics is no part of the theorem: a corrected `region_alloc` would satisfy it.
  `BootInv` says that a byte of a segment that is read is right as long as every later segment
  that shares one of its sectors lies at the same distance in the file, so that it brings the
  same bytes (`Undisturbed`); the segments before it may be anything.

The strengthened invariants were checked with TLC on the instances of the runs before they
were proved.

Only model-checked: `FairUnlessExits`, `ForkReturns`, `Started` and
`LockReleased` (liveness, out of the prover's reach); and `StringsExact`, `FormatsExact`,
`SymbolsFound`, `BootPagesSafe`, `KernelMapSafe` (recursive definitions and folds over data, out of
its reach too) and `KeysMeanLetters` (a finite table: the run compares every entry).

## Not modelled

* `sfork` (`lib/fork.c`): it shares pages on purpose and has no promise to check against;
  its `memmove` has its arguments swapped with respect to its comment.
* User-level IPC: its kernel half panics at this revision.
* TLB staleness (`invlpg` follows every change of the current directory) and, in
  Kernel, the part of an address space above UTOP; segment registers;
  `trap_init_percpu`, which loads one task state segment on every processor.
* Port I/O: the CMOS clock, the 8259A, the serial and parallel output, the registers of
  the local APIC, the disk; the search for the configuration table in the BIOS area.
* What the monitor's commands and `print_trapframe` print, and the lookup of a command.
* `boot.S`, `entry.S` and the read of the ELF header by `bootmain`: straight-line code.
* The `check_` functions of `kern/pmap.c` other than the one that reorders the free list:
  they are tests, and at this revision some of those that `mem_init` calls
  (`kern/pmap.c:170-171`, 252) stop the kernel.  `inc/console.c` is a copy of `kern/console.c` that nothing compiles.

`DYING` zombies and `hlt` of idle processors are in the model and shown unreachable
with one processor.

## Plan

1. Done: EnvSched, Pmap, Kernel, Fork, AddressSpaces, Spinlock, Smp, Upcall, Console and
   the routines, and proofs of every safety property of EnvSched, Kernel, Fork, Smp, Console,
   Upcall and Loops.
2. `sfork`, once its copy of the exception stack is settled.
