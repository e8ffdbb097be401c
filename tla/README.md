# AuriSYS in TLA+

AuriSYS is a small x86 operating system for one CPU: a kernel with preemptive
processes, signals, pipes, copy-on-write address spaces, an ext4 root, a terminal
and a shell. This directory models its core, checks it with TLC and proves the
most important properties with TLAPS. Paths below are relative to `src/src/`.

## The system

| Component | State | Operations | Talks to |
|---|---|---|---|
| processes (`kernel/task.cpp`, `include/task.h`) | `g_tasks[8]`, `g_current`, `g_ticks` | fork, exit, wait, sleep, block/unblock, on_tick, preempt, switch_to, reap | everything that blocks; the timer interrupt |
| signals (`kernel/task.cpp`, `kernel/syscall.cpp`) | handlers, pending, active, mask of a process | kill, sigaction, sigreturn, delivery | the terminal (Ctrl-C), faults |
| descriptors and pipes (`kernel/vfs.cpp`) | `fd[16]` of a process, `g_pipes[8]` | pipe, read, write, close, dup2, sharing at fork | fork, exit, reap; block and unblock |
| terminal and keyboard (`kernel/vfs.cpp`, `kernel/drivers/kbd.cpp`) | line buffer, modes, owner; scancode queue, `g_wait[4]` | input, read, ioctl, wake | signals, block and unblock |
| address spaces (`kernel/arch/paging.cpp`, `kernel/exec.cpp`) | page tables, frames, `owns_frames` | share, unshare on a write fault, destroy, exec | the heap, fork, exit |
| kernel heap (`kernel/lib/heap.cpp`) | list of blocks that tiles memory | kmalloc, kfree, krealloc, kframe_alloc_n | everybody |
| file system (`kernel/fs.cpp`) | bitmaps, inodes, directories, counts on disk | write, mkdir, rm, lookup | vfs, exec |
| shell (`apps/sh.cpp`) | jobs, environment, line | pipelines, jobs, builtins | fork, pipe, dup2, wait |
| user heap (`apps/alloc.cpp`) | free list | malloc, free, realloc | sbrk |

What is hard in it: a system call runs with interrupts off, but a process that
was switched away inside the kernel comes back with interrupts *on*
(`sti` in `arch/switch.asm`), and so does the idle loop, which runs on the stack
of whoever went to sleep last. Ends of children, wake-ups, signals, alarms and
Ctrl-C all race with the moment a process goes to sleep. Slots, and with them
pids, are reused at once, while lists, wait slots and the terminal's owner
still hold old ones. What makes each part correct is in the properties below;
`PROJECT.json` lists the hazards with their lines.

## Modules

- `Task` - processes, scheduler and signals. One action per system call
  (`Fork`, `Exit`, `Wait`, `Sleep`, `Kill`, `Sigaction`, `Sigreturn`, `Exec`), per
  continuation after a sleep (`WaitWake`, `WaitAgain`, `WaitPark`, `SleepWake`), the timer
  interrupt (`Tick`, and `TickInterrupt` when it finds a Ctrl-C), the wake-ups by the
  keyboard and the pipes (`Wake`, and part of every tick), a sleep that a wake-up left over
  by them cuts short (`SleepCut`), a fault in user
  mode (`Fault`), and the two halves of the idle loop (`IdlePick`, `IdleSwitch`),
  between which a tick may come. `g_tasks` is the process table with the fields
  that matter; `pc` stands for the saved kernel stack of a process: in user mode,
  parked in `wait_for` or `sleep_ticks`, about to park there with interrupts on, or past
  `exit`. Who the keyboard and the pipes may unblock is the constant `Woken`: their slots
  and rings are in `Tty` and `Pipe`, and here they unblock any of those processes at any
  moment. Functions keep their names and take the table and return the new one.
- `TaskProofs` - theorems about `Task`.
- `Pipe` - descriptors and pipes. Processes run until they return to user mode or
  park in `block_on`; the CPU goes round robin as in `Task`, a killed process is
  swept up at the next switch. The bytes in a pipe are counted only.
- `Fifo`, `PipeRing` - the bytes: what a pipe promises, and the ring buffer of `pipe_rd`
  and `pipe_wr`. `PipeSizes` has the constants `Pipe` and `PipeRing` share, `PipeProofs`
  the theorems about both.

- `Allocator`, `Heap`, `HeapProofs` - what an allocator promises its callers, the
  kernel heap's list of blocks (`kmalloc`, `kcalloc`, `krealloc`, `kfree`,
  `kframe_alloc_n` as operators on the list, one action per call), and the proof
  that the second implements the first. `blk` holds the linked headers by address;
  `held` is what callers were given: bytes asked for and alignment promised. A size
  is in bytes, rounded up by `align_up` as in the code; a product of two sizes
  wraps at `Word`.

- `UserHeap` - the `malloc` of programs (`apps/alloc.cpp`) over `task_sbrk`, a second
  implementation of `Allocator`. The free list is a sequence in the order of the
  list, which `release_tail` keeps from being that of the addresses. `UserHeapProofs` has
  the theorems.
- `Memory`, `Space` - what address spaces promise, and how they keep it:
  `paging.cpp` (groups of spaces that share tables, read-only sharing, the write
  fault, destruction), the frames and kernel stacks of processes (`give_frames`,
  `destroy`), `replace` and `load_into` of exec, and the TLB. Frames are numbers;
  `mem` says what each one is used for. Actions: `Load`, `Store`, `Fault`, `Fork`,
  `Exec`, `ExecFails`, `ExecNoRoom`, `Exit`, `Sweep`, `Switch`; `Seen` is what the TLB may still say.
  `SpaceProofs` has the theorems.
- `Tree`, `Fs` - what a file system promises, and the ext4 root. A call is a list of
  writes to the disk; `Do` lets it stop after any of them, with the power (`Crash`) or
  without. Descriptors, their offsets and the inode numbers they keep are in it too.
  `FsProofs` has the theorems.
- `Tty` - the keyboard's ring and wait slots, the line discipline, and reads of
  `/dev/tty`, the keyboard, the console and the serial line, in steps small enough
  for a key or a tick to come between them once a process has slept. `kbd::poll` is two
  steps then (`PollRead`, `PollMove`): a tick between them polls the same ring, so a
  scancode is read twice and `g_tail` may pass `g_head`; `g_buf` keeps what the slots
  behind the ring hold, and `torn` records that a poll moved past a scancode it had not
  read. One step with interrupts on are still the moving of `g_tail` with the decoding,
  the serial line's test and read, `tty_input` with `tty_put`, and a round of `tty_take`.
  `TtyProofs` has the theorems.
- `Shell` - how the shell runs a line: jobs and what joins them, pipelines,
  redirections, substitution, waiting, Ctrl-C and `kill`, as a client of fork,
  pipe, dup2, close and wait. Programs write, read and end; nothing else is known of
  them. `ShellProofs` has the theorems.

`Task`, `Pipe`, `Space` and `Tty` model the same table of processes, each with the
fields its own properties are about. `Pipe` and `Shell` rely on `Task` for the
fairness of the scheduler; `Shell` takes pipes as counts of bytes and ends, which
`Pipe` shows them to be; `Fs` and `Tty` take rings and queues as `PipeRing` shows
them to work.

## Runs

| Run | Instance | What it shows |
|---|---|---|
| `task_quiet` | 3 slots, no handlers, kill with SIGKILL, no Ctrl-C, sleeps of 1 tick, ticks modulo 2 | type; `RunningIsCurrent`; no end of a child is slept over (`NoMissedExit`); nobody waits for a slot that was given back (`WaitsForChild`); a pid is noted once (`NotesDistinct`), and a note waits for its owner while the slot it is about is taken (`NotesKept`); the dead stay dead (`DeadStaysDead`); nobody ready starves (`NoStarvation`) |
| `task_signals` | 2 slots, SIGINT caught or not, Ctrl-C to the first at any tick, the second unblocked by keys and pipes at any moment | ends of children, alarms and signals leave no wake-up over (`NoStaleWake`); alarms ring (`SleeperWakes`) |
| `task_interrupt` | 2 slots, Ctrl-C to the child | **violation** of `DeadStaysDead` |
| `pipe_waits` | 2 processes, 2 pipes of 1 byte, 2 descriptors each, writes of up to 2, one process at a time inside a read and one inside a write | type; the counts are the descriptors there are (`EndsCounted`); nobody sleeps over data, room or end of file (`NoLostWakeup`, `EofSeen`) |
| `pipe_ring` | a ring of 3 cells, 2 bytes, calls of up to 4 | `RingOK`; the ring implements `Fifo` (`IsFifo`) |
| `heap` | 16 units of 2 bytes, pages of 8 bytes, requests of 0, 3, 16 and 17 bytes, up to 2 frames in a row | `Tiled`; `Coalesced`; `LargestFree`; the heap implements `Allocator` (`IsAllocator`) |
| `user_heap` | 4 pages of 8 bytes, requests of 0, 5 and 12 bytes | no byte is lost or in two places, whatever the order of the list (`Accounted`); it implements `Allocator` (`IsAllocator`) |
| `space` | 3 slots, 2 forks, 12 frames, 2 regions of one page | what a process maps is there and, where it may write, its own (`Isolated`); type, and groups count their spaces (`GroupCounted`); the CPU uses the tables as they are (`CpuFollows`); it implements `Memory` (`IsMemory`) |
| `space_exec` | 2 slots, the exec of a child that shares its image fails | **violation** of `Isolated` |
| `fs` | 3 blocks for data, 3 inodes, 2 extents in an inode, blocks of 2 bytes and 3 entries, 1 descriptor, one call that stops | what can be reached is whole, after every single write (`Consistent`, with the types); directories stay lists of entries (`DirsWhole`); no call is refused after its work is done (`NeverRefused`); it implements `Tree` (`IsTree`) |
| `tty` | 2 processes, rings of 3, 2 wait slots, 2 scancodes or serial bytes | type; until a poll is torn nothing typed is read twice (`ReadOnce`); nobody sleeps over a key (`NoSleepOverKey`) or over input that is ready (`NoSleepOnInput`), or is forgotten (`NobodyForgotten`); the serial line wakes all (`SerialWakes`) |
| `shell` | 2 slots for stages, 2 pipes of 1 byte, 8 descriptors, lines of up to 3 stages that write up to 2 bytes, 3 places for Ctrl-C | at the prompt all is given back (`CleanPrompt`, with the types); Ctrl-C reaches every stage (`CtrlCReaches`); the status is the last stage's (`StatusKept`); the prompt returns (`PromptReturns`) |

The violations are disagreements between the code and its own comments, quoted in
`PROJECT.json` under `findings`:

- `task_interrupt`: the parent sleeps, Ctrl-C kills the running child. `preempt`
  calls `reap`, which tells the parent, finds nobody to switch to and returns to
  the dead child, which execs and is `kRunning` again.
- `space_exec`: a child that shares its parent's image calls exec, `load_into` fails,
  and the frames put back are the parent's, with `owns_frames` set. The exit of the
  child frees the memory the parent runs in.

Where a property leaves a case out, the case is one in which the code behaves
otherwise. Each can be seen by changing a constant or by dropping the condition:

- `Task.NotesKept`: a fork into a free slot drops the note about its last owner. With 4
  slots a sibling can do that while the parent is parked in `wait`, and the note is
  lost.
- `Task.KilledUnwinds` (in no run): parent and child are blocked, the parent last, and
  Ctrl-C kills the child on a tick of the idle loop. Nothing reaps there, so the child
  stays `kKilled` and the parent asleep.
- `Task.NoStaleWake`: a process that the keyboard or a pipe unblocks (`Woken`) may carry the
  wake-up out of its call. A key between `kbd.cpp:106` and `109` finds a reader that has
  slept in `g_wait` and not blocked, and the ring is no longer empty, so the read returns
  with `wake_pending` set; its next `sleep` returns at once (`SleepCut`).
- `Pipe`, `Crowd = 2`: a second reader takes the first one's place in `rd_wait`, and the
  first sleeps over the next byte.
- `Space`, `Orderly = FALSE`: a process that owns its image and ends or execs before
  the children it shares it with frees it under them; so does one that dies of a write
  fault without a frame, which `Fault` leaves out with it. `FailedAt = {"load"}`: an exec
  that fails after the switch leaves the CPU in a space that was destroyed.
  `CopyShared = TRUE`: the kernel writes results into pages that are still shared,
  because write protection does not hold for it.
- `Fs.FirstOfBlock`: `rm` of the first entry of a directory's second block adds its
  length to itself. A file that is open when an `rm` stops half way may still be
  written to through its descriptor, into blocks that are free. Chunks of a gap longer
  than the 512 zeros of `write_at` hold whatever is behind them (`Filler`).
- `Tty.ReadOnce`: a tick between `kbd.cpp:119` and `120` in a reader that has slept polls
  the scancode the reader has just read; both give it away, and the reader then moves
  `g_tail` past one nobody has read, or past `g_head`. `torn` is true from there on;
  without that condition TLC finds the second reading.
- `Tty.NoSleepOnInput`: after its first sleep a reader runs with interrupts on, and a
  tick between `tty_drain` and `kbd::wait` takes the key it then waits for.
  `NobodyForgotten`: with fewer wait slots than readers the last one is in none.
- `Shell.PromptReturns`: a stage inherits the read end of its own output, so its write
  to a full pipe does not fail when the next stage is gone (`WaitsForItself`); and a
  fork that fails returns 0, so the shell goes on as the child (`lost`).
  `StatusKept`: a stage that ends while the line is being started may give its pid to
  a later one, whose status is then 0. `CtrlCReaches`: places in `g_fg` are not given
  back by a line that was given up, and when all are taken new stages are not added.
  A job that is passed over counts as one that went well (`SkipJob`), so the last of
  `false && a && b` is run.
- `UserHeap`: free neighbours that are not next to each other in the list stay apart,
  although `alloc.h` says they are merged; and a request within a page of 2^32 wraps.

Bounds. Three slots are the fewest with a parent, a child and a sibling that reaps
or reuses its slot. `kQuantum` is 1, the smallest that lets a process do anything.
Ticks count modulo 2 in the runs with liveness, so that time does not run out;
`TickWord` and `MaxTicks` name the wrap and the bound. A pipe of one byte is full and
empty at every turn; writes of two do not fit at once. Two descriptors and two pipes
reach the case where `pipe()` finds a pipe and no room for its ends. The heap's arena
starts three units before the first page boundary and ends one unit after the last, so
frames are cut out of the front, the middle and the end; 16 and 17 are sizes whose
product wraps and whose wrapped product fits; 3 leaves rests one unit short of a block.
The user heap's 12 leaves a rest too small for a block at the end of its pages, its
12 times 12 wraps, and four pages let it grow once or twice before it is refused.
In `space` two forks give a chain of three sharers or a parent with two, and 12 frames
run out in forks, write faults and execs (an exec by one of three sharers always; with
13 it would fit, at four times the states, and the theorems have any number). In `fs` a file of 3 bytes needs two
blocks and two extents, a directory of one block has room for one entry beside "." and
"..", so the second makes it grow, and three blocks run out; one stop is enough for
every prefix of every call, and calls go on after it. In `task_signals` the first
process is the one that is interrupted and the second the one in `Woken`, so that
`NoStaleWake` is about a process beside which wake-ups are left over; the theorem has any
two sets. In `tty` two scancodes make Ctrl-C, which `Owners` sends to the first process,
rings of three hold two, and the serial line sends newlines and ends of file; the
other scancodes, cursor keys among them, are in the theorems only. In `shell` two slots make stages reuse
pids, two pipes run out with background lines, and eight descriptors are the four there
at the start, two for a pipe, one carried and one more.

Deadlock is checked in `task_quiet` and `task_signals`, `pipe_ring`, the heaps, `fs` and
`tty`. It is not checked in `Pipe`: a process that reads from a pipe it alone holds the
write end of sleeps for ever, as it should; nor in `shell`, where a shell that is lost
may stop, in `space`, whose forks are bounded, and in `task_interrupt`, whose ticks are.

Fairness. `Task`: the timer keeps ticking, and the kernel does not stop half way
(weak fairness of `Tick \/ TickInterrupt` and of `Kernel`); nothing is assumed of
what a process does in user mode, nor of what is typed. `Pipe`: a quantum ends
(`Preempt`) and a process that is given the CPU inside the kernel goes on
(`Resume`); turns are in slot order as in `pick`. `Tty`: a process in the kernel goes
on (`Step`), a ready one is given the CPU (`Dispatch`, `NoStarvation` of `Task`), and if
interrupts are let in again and again while input waits, a tick gets through: the
interrupt controller keeps it pending until then. `Shell`: the shell goes on when it
can, and so does each program (`NoStarvation` again); programs need not stop early,
and nothing is assumed of what is typed.

## Proofs

These hold for every value of the constants that satisfies the assumptions named in the
modules (`TableAssumption`, `SignalAssumption`, `TickAssumption`, `PipeAssumption`,
`RingAssumption`, `HeapAssumption`, `AlignAssumption`, `UserHeapAssumption`,
`SpaceAssumption`, `FsAssumption`, `NamesAssumption`, `TtyAssumption`, `ShellAssumption`). Twelve theorems have one hypothesis more:

- `Interrupted = {}`, nobody types Ctrl-C, for `NotesDistinctAlways`,
  `WaitsForChildAlways` and `DeadStaysDeadAlways`. A Ctrl-C may find the process on the
  CPU, which then ends twice (the run `task_interrupt` shows it for `DeadStaysDead`), and
  is noted twice. Of `WaitsForChild` TLC shows no violation with a Ctrl-C, but its proof
  rests on the other two.
- `Crowd = 1`, one process at a time in a read and one in a write of a pipe, for
  `NoLostWakeupAlways`: a pipe has one slot for a reader and one for a writer, and with
  `Crowd = 2` TLC finds the property violated.
- `kWaitMax >= kProcs`, a slot of `g_wait` for every process, for `NoSleepOverKeyAlways`
  and `NoSleepOnInputAlways`. The code has four; a fifth reader sleeps without being in
  the list, and no key wakes it: with one slot and two processes TLC finds both
  violated. `NobodyForgotten` has the condition in itself.
- `Careful`, for the theorems of `SpaceProofs`: an exec fails in a process that owns its
  image and before the switch into the new space, the kernel does not write results into
  pages that are shared, and a process ends or execs after those it shares its image
  with. The run `space` is under the same conditions; without any one of them TLC finds a
  violation (above, and the run `space_exec`).
- `Modest`, for the theorems of `UserHeapProofs`: no size a program asks for, and no product
  `calloc` accepts, comes within the arena and two pages of 2^32 (`Fits`), so that nothing
  wraps on its way through `Need` and `carve`. The run `user_heap` is under it; nearer to
  2^32 a request is rounded up to almost nothing and granted (above).

Processes and scheduler (`TaskProofs`):

- `TypeCorrect`: `Spec => []TypeOK`, one lemma per action.
- `RunningIsCurrentAlways` and `NoMissedExitAlways`: neither is inductive. The
  invariant behind both, `SoundInv`, says of every process that if it is blocked
  inside `wait_for` then `waiting` is set and no note in its list matches, that
  one about to block there has no such note either unless it has been told, that
  only the current process is running, and that whoever is on the CPU is not asleep
  (`Afoot`). `waiting` is what makes `announce` and
  `reap` wake the parent in the step that adds the note, and the test in
  `WaitTurn` is what makes it true when a process parks.
- `NoStaleWakeAlways`, `NotesKeptAlways`: whatever signals, Ctrl-C, the keyboard and the
  pipes do. `TidyInv` says of every slot which of its fields may be set in which state,
  and of `wake_pending` only for the slots outside `Woken`; the second is an action
  property and comes out of the same case analysis.
- `NotesDistinctAlways`, `WaitsForChildAlways`, `DeadStaysDeadAlways`: from `QuietInv`.
  Whoever is noted has ended and is noted once (`Books`), whoever is parked for one pid
  has such a child and it has not ended (`Awaited`), and the process on the CPU is the one
  that runs (`OnCpu`). None of the three is inductive: `reap` frees a slot, `fork_user`
  takes it again with the same pid, and only `purge_notes` keeps the old note from being
  taken for the new child's.

Pipes (`PipeProofs`):

- `TypeCorrect`, `EndsCountedAlways`: for any number of processes, descriptors and pipes.
  Counting is over the pairs of a process and a descriptor. It is not inductive:
  `reap` frees the slot of a zombie and `fork_user` writes over a free one, so the invariant
  `WellInv` adds that neither holds a descriptor (`Clean`).
- `NoLostWakeupAlways`: `TightInv` says when a process that is parked must be in the slot
  of its pipe (`Claims`), that it is alone there (`Alone`), and that it still holds the end
  it is parked on (`Holding`).
- `RingAlways`: head, tail and n agree, for every size of the ring. The argument is
  about indices that run at most once past the end (`Fold`).
- `RingIsFifo`: the ring implements `Fifo`, with the unread bytes as the queue.
  `CellOf` says how far a cell is ahead of `head`; with it a write is an append and
  a read takes a prefix.

Kernel heap (`HeapProofs`):

- `TiledAlways`, `CoalescedAlways`: for every arena, alignment and page size. `Tiles`
  is stated block by block (end, links, bounds, no overlap), so that it needs no
  induction along the list. `Cut` and `Absorb`, the only two operations that change
  links, preserve it (`CutTiles`, `AbsorbTiles`); `Take`, `MergeNextOK` and
  `MergePrevOK` follow a call through the moments when two free blocks are
  neighbours (`MergedBehind`). The invariant `HeapInv` adds that every header is on
  the grid of `kAlign` and that the blocks in use are exactly what callers hold, with
  room for what they asked for.
- `NothingStranded`: with nothing held the arena is one block, from `HeapInv`.
- `HeapIsAllocator`: the refinement, from `HeapInv` and `Roomy` (payloads in blocks
  that do not overlap do not overlap). That `krealloc` never really grows the last
  block (it already reaches the end of the arena) comes out of `KreallocMoves`.
- `LargestFreeAlways`: what `heap_largest_free` answers is exactly what `kmalloc` can
  give. A request is rounded up to the grid, and the blocks are on it.

User heap (`UserHeapProofs`):

- `AccountedAlways` and the refinement `UserHeapIsAllocator`, for every arena, page size and
  set of sizes, whatever `sbrk` refuses. `Accounted` is not inductive: it speaks of bytes,
  and what cutting a block, `release_tail` and the merges do to them depends on the sizes.
  `HeapInv` says that all blocks are on the grid, inside the carved part and pairwise clear
  (`Packed`), that nothing is on the list and with a program at once (`Laid`), and that the
  byte in front of `g_next` is always in a block (`Dense`); without the last, `carve` could
  leave a tail behind next to one left earlier, and the two might make a block. Each
  operation is followed twice: as a change of the set of blocks (`Extends`, `Splits`,
  `Merges`, `Resizes`) and as one of the list (`Spliced`, `Replaced`, `Removed`), where
  the order of the list does not matter. `ReallocOK` has one case per way out of `realloc`.

Address spaces (`SpaceProofs`):

- `IsolatedAlways`, `GroupCountedAlways`, `CpuFollowsAlways` and the refinement
  `SpaceIsMemory`, for any number of processes, frames and regions, from one invariant,
  `SpaceInv`. `MemOK` is about the frames alone: tables are shared only within a group, a
  group counts its spaces, and nothing in a group's tables is writable, so that a write
  always faults first. `HeldOK` says what processes have of them: a space and a stack of
  their own, pages that are there, and an image that only those map who were given it.
  None of it is kept by the end of a process without `TableOK`: a process that does not
  own its image got it from its parent, which is there, and following the parents leads to
  an owner (`FamilyOK`); hence the pages that `destroy` gives back are nobody else's.
  `reap` is a recursive function over the slots; at most one process besides the
  current one is dead at any time, and with that it does one `destroy` (`ReapsOne`).
  The bodies of `space_share`, `unshare` and `replace` are followed frame by frame,
  each early return included.

File system (`FsProofs`):

- `ConsistentAlways`, `DirsWholeAlways`, `NeverRefusedAlways`: for a volume, a block, an inode
  and a directory of any size, any names, any number of descriptors and of calls that stop,
  from one invariant, `FsInv`. What the properties say of the inodes that paths lead to is
  not kept by itself: a file may be removed and truncated while a descriptor keeps its inode
  number, and be written through it afterwards. So `FsInv` says of the inodes with a name
  *and* of the open ones that their blocks are marked used and belong to one of them, once
  (`Spread`), and states the shape of the tree without paths (`Rooted`): an inode is the
  target of one entry, a directory is one full block after the other (`Shape`), and the entries
  that are no names lead to itself and to where it was found (`Up`).
- Calls. A call is followed write by write: `Fine` says that each disk of its log is `Good`, and
  each helper has a lemma that it keeps that, or stops the call (`AllocBlocks`, `AllocInode`,
  `FreeBlocks`, `CommitCounts`, `DirAdd`, `GrowDirFine`, `PatchFine`, `WriteInsideFine`). The lemmas say
  what may change without harm: blocks and inodes become used (`MarkBlocks`, `MarkInodes`), what
  nobody holds is written or freed (`WriteBlocks`, `DropBlocks`), a file is stored again
  (`StoreInode`), an entry is added or removed (`GoodAdd`, `UnlinkGood`). The order of the code is
  where these have their hypotheses from: `free_blocks` needs that nothing holds the
  blocks, which `write_file` has from the empty inode it stored before and `rm` from the entry it
  removed. Only during `rm` the inode may still be open; so its writes are followed without it,
  and it is back among the open ones, empty, when the call ends (`RmWorks`).
- Counts. `Enough` compares the counts with the bitmaps at the end of each call, where
  `FreedCounts` (the blocks of disjoint extents) is what `commit_counts` gives back.
- Recursion. `Room`, `lookup_abs` and the loop of `write_at` over a gap are recursive functions.
  That they exist and what they are is by induction over the set of arguments for which it
  holds (`SumsExist`, `SumsUnique`, `FillsExist`, `FillsFine`).
- What `Rm` leaves out of the model (`FirstOfBlock`, and an `rm` of an open file that fails half
  way; above) is left out of the theorems too: there the properties do not hold.

Shell (`ShellProofs`):

- `CleanPromptAlways`, `CtrlCReachesAlways`, `StatusKeptAlways`: `ShellInv` says what
  belongs to each place the line may be at: which descriptors the shell has of its own, and
  that they are open and different (`Descriptors`), which stages may run (`Staged`), who is
  in `g_fg` and who must be (`Listed`, `Reached`), and where the status of the last stage is:
  it runs, or has left a note not read yet, or its status was taken (`Told`).

Terminal (`TtyProofs`):

- `TypeCorrect`: for any number of processes and any size of the rings. `poll_char` and
  `tty_drain` are recursive functions; that they exist and what they return is by
  induction over the set of steps for which it holds (`UpTo`, `Steps`).
- `NobodyForgottenAlways`, `NoSleepOverKeyAlways`, `NoSleepOnInputAlways`: `RoomyInv`. `Sane`
  says that only the current process is inside a call and awake. `Claims` follows a process
  through `kbd::wait`: once it has a place it is in `g_wait` or has been told, and if it saw
  the ring empty the ring is empty or it has been told; that is why the look comes
  after the place is taken. That there is a free place is the pigeonhole principle
  (`PlaceLeft`), which needs that nobody is in `g_wait` twice. `Way` and `Sleep` are about the
  discipline: until its first sleep a reader has interrupts off, and afterwards whoever
  puts something in the buffer has `drained` set and will call `wake`.
- `ReadOnceAlways`: without any condition on `g_wait`, up to the first torn poll. While no
  poll is torn, a scancode that was read and not yet moved past is still the first of
  the ring or `PollMove` will set `torn`, so `PollMove` takes it from the ring like the
  other steps. `ReadOnce` alone is not inductive: a
  new byte must have a new name, so `OnceInv` adds that every name was typed (`Apart`). It
  compares sets of names, one for each place, and has one set more, of bytes
  on their way: every step takes bytes out of a place (`FromRing`, `FromLine`, `FromBuf`,
  `Exchange`) and puts them into one (`ToBuf`, `ToSeen`, `Exchange`) or loses them
  (`ToNone`). For a tick this is done byte by byte along the recursion of `tty_drain`
  (`TakingTidy`, `DrainedTidy`).

Only model-checked: liveness (`NoStarvation`, `SleeperWakes`, `EofSeen`, `SerialWakes`,
`PromptReturns`), which needs fairness and is out of the prover's reach, and that `Fs` implements
`Tree` (`IsTree`): `FsInv` says nothing of what a file's bytes are, only whose they are.

## Not modelled

In the heaps: the contents of blocks, `prev_size` (written, never read), the statistics,
and a call that is cut short because a tick killed its process inside the kernel.
In `Pipe`: `fd_install` and `fd_mem` (no caller), and Ctrl-C, whose effect on a
running process is the subject of `task_interrupt`. In `Space`: the stack of arguments
exec builds, the checks of the ELF header, and the kernel's own mappings, which never
change. In `Fs`: trees of extents and indirect blocks (read, never made by this code),
more than one group, link counts, the count of directories (with the refusal when it
would go below zero), the superblock's copy of the counts as a write of its own, what
`mount` tests, `i_blocks` and times. In `Tty`: echo and output, and
processes that end inside a read. In `Shell`: the parser, globbing, variables, the line
editor and history, and the table that `jobs` prints: text handling by one process,
with nothing to interleave. The user stack frame of a signal handler and the registers,
but for what returns where. Boot, the disk, timer and interrupt controller drivers,
procfs, the console and the framebuffer: straight-line code, port I/O or formatting.
The other applications are clients of the system calls.

## Plan

1. `reap` and `kfree` in steps, for a process killed inside the kernel.
2. `tty_put`, `tty_take` and the serial line's read in steps.
3. Runs of their own for the cases the properties leave out (above), each of which is seen
   now by changing a constant or dropping a condition.
