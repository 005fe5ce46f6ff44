# TLA+ models of the xv6 kernel in quiz/lab2

This directory holds formal models of the xv6-riscv kernel in
`src/quiz/lab2/kernel`, model-checked with TLC and, in part, proved with TLAPS.
All line numbers refer to that directory. The kernel of `quiz/lab1` is the same
but for `sys_hello()` and the number of CPUs; `quiz/riscv_book.txt` is the
documentation the findings quote.

## 1. Inventory

xv6 is a small multiprocessor Unix. Its Makefile starts QEMU with three CPUs.
Code runs on a CPU either in user space, in the kernel on behalf of a process
(system call, fault or timer interrupt), in an interrupt handler, or in that
CPU's scheduler loop. Mutual exclusion is by spinlocks (which disable interrupts
on their CPU) and sleep-locks; waiting is by `sleep(chan, lk)` and
`wakeup(chan)`.

| component | state | operations | what makes it hard | what makes it correct |
|---|---|---|---|---|
| process table, scheduler (proc.c) | `p->state, chan, killed, lock, context`, `c->proc` | `scheduler sched yield sleep wakeup kkill` and the allocation states | `p->lock` is taken by one context and released by another across `swtch()`; a process is RUNNABLE while its CPU still uses its stack | one CPU per kernel stack; no stack freed while in use; who enters `sched()` has its `p->lock` and is not RUNNING |
| sleep-locks (sleeplock.c) | `locked`, `pid`, inner spinlock | `acquiresleep releasesleep holdingsleep` | a release between test and sleep; barging newcomers; kills | mutual exclusion; no lost wakeup; a free lock is taken again |
| process life cycle (proc.c, sysproc.c, trap.c) | `pid parent nextpid wait_lock`, `p->killed` | `kfork kexit kwait kkill reparent` | children, parents and killers at once; two locks taken in different places | unique pids; every process has a live parent; no missed exit; init collects all orphans |
| log (log.c) | in memory: `lh outstanding committing`; on disk: header, slots, home blocks | `begin_op log_write end_op commit recover_from_log` | crashes between any two block writes, also during recovery; group commit; reserved space | atomicity and durability; no overflow of the log; nobody oversleeps in `begin_op()` |
| buffer cache (bio.c) | `refcnt valid dev blockno`, LRU list, a sleep-lock each | `bread bwrite brelse bpin bunpin` | lookups racing recycling; pinned buffers | one buffer per block; a buffer in use is not recycled |
| virtio disk (virtio_disk.c) | descriptors, avail and used rings, `b->disk` | `virtio_disk_rw virtio_disk_intr` | completions in any order, several per interrupt, waiting for descriptors | the right process wakes; descriptors are not leaked or reused early |
| inode table (fs.c) | `ref valid nlink type`, `itable.lock`, inode sleep-locks | `iget idup ilock iput ialloc ireclaim` | `iput()` drops its lock in the middle; unlinked open files; crashes | an inode is freed once, after the last reference and link |
| inode contents (fs.c) | bitmap, direct and indirect addresses, size | `balloc bfree bmap itrunc readi writei` | boundary arithmetic; running out of blocks half-way | a block has one owner; contents read back as written |
| directories, paths (fs.c, sysfile.c) | directory entries, link counts | `dirlookup dirlink namex create sys_link sys_unlink` | lock order along paths; undo of half-done links | link counts match entries; no deadlock |
| open files (file.c, sysfile.c) | `ftable`, `p->ofile` | `filealloc filedup fileclose fdalloc fileread filewrite` | references shared over fork; close acting on a copy | the object is released once, at the last close |
| pipes (pipe.c) | ring buffer, `nread nwrite readopen writeopen` | `pipewrite piperead pipeclose` | two wait channels on one lock; kills half-way; counts that wrap | bytes in order; nobody asleep on a ready pipe |
| console, UART (console.c, uart.c) | `cons.r w e`, `tx_busy` | `consoleread consoleintr uartwrite uartintr` | interrupts against readers and writers; full buffer | no byte of a line lost or read twice |
| clock (trap.c, sysproc.c) | `ticks` | `clockintr sys_pause` | wrap-around; kill while pausing | a pause ends |
| system calls (syscall.c, sysfile.c, sysproc.c) | arguments, descriptors `p->ofile`, `p->cwd` | `argint argaddr argstr argfd` and the calls of fs, file, proc and vm together | each call can fail in many places and must give back what it took | pages, blocks, references and links accounted for after any sequence of calls |
| spinlocks (spinlock.c) | `locked cpu`, `noff intena` | `acquire release push_off pop_off` | interrupt state that moves between CPUs with `sched()` | interrupts are on again exactly when they were |
| memory (vm.c, kalloc.c, exec.c) | free list, page tables, `p->sz` | `kalloc kfree uvmcopy uvmalloc vmfault kexec` | failure half-way; lazily allocated holes | a page has one owner; failures free what they took |
| user programs (sh.c, init.c, the commands) | the shell's command tree | fork, exec, pipes, redirection, wait | several processes per line, errors in any of them | every line ends with the shell back at its prompt |
| tests (usertests.c, grind.c) | files and processes they make | 68 tests, one endless random mix | they say what the authors expect of the kernel | every test passes |

How they interact: every blocking component sits on `sleep`/`wakeup` of the
process table; `sleeplock` is used by the buffer cache and inodes; the log pins
buffers of the cache and is entered by every file system call; `file.c`
dispatches to pipes, inodes and the console; `kexit()` closes files before it
leaves the family tree; `kkill()` may reach a process in any of them.

## 2. What is modelled

| module | models | abstract specification |
|---|---|---|
| `Sched` | the process table and context switch | |
| `SleepLock` (extends `Sched`) | one sleep-lock and its users | `Mutex` |
| `Proc` (extends `Sched`) | fork, exit, wait, kill | `Family` |
| `Log` | the redo log, crashes, recovery | `Journal` |
| `BufCache` (extends `BlockDevice`) | the buffer cache and its callers, the log among them | `BlockStore` |
| `VirtioDisk` | the disk driver, its interrupt handler and the device | `BlockDevice` |
| `Pipe` | one pipe and the processes at its ends | `Stream` |
| `Inode` | inodes, names, the file table, lock by lock, with crashes | |
| `Terminal` | console, UART, their interrupt, the clock | `Tty` |
| `Memory`, `Files` | user memory and the file system, as operators on a kernel state | |
| `Syscalls` (extends both, and `UserCode`) | all system calls on one kernel state | |
| `UserCode` | user programs as data | |
| `Usertests`, `Grind`, `Programs` | the programs of `user/` | |
| `Unix` (extends `Syscalls`) | the machine from mkfs and boot to the shell | |
| `Proc_proofs` (of `Sched` and `SleepLock` too), `Storage_proofs` (of `Log` and `BufCache`), `Pipe_proofs`, `Devices_proofs` (of `VirtioDisk` and `Terminal`), `InodeSteps_proofs`, `Inode_proofs`, `Kernel_proofs` and `Unix_proofs` | theorems | |

The modules `MC...` only add symmetry sets and inputs for TLC; each `.cfg` is one
run. Definitions marked "Mutant" in a module are used by no specification: each
is the form one definition would take with a plausible bug in it, and TLC finds
the property it is meant for violated when it takes the place of that definition.

The kernel is modelled twice, at two grains. The first nine modules take one
component each at the grain of its locks, and let everything interleave.
`Syscalls` takes the kernel as a whole at the grain of a system call: what the
components do to each other's resources, over long sequences of calls.

**Sched.** A spinlock is the CPU that holds it. `cpu[c]` is whose kernel stack
CPU `c` executes on, `NoProc` in `scheduler()`. `ctx[p]` is "live" while `p`
executes its own code, else it names the caller of `swtch()` that its saved
context returns to (`forkret`, `yield`, `sleep`, `exit`). The acquire of
`p->lock` and the assignment of `p->state` under it are one step, `swtch()` and
the release on the other side another, so the window in which a process is
RUNNABLE or SLEEPING, and still on its stack, is visible. Actions prime the
variables of `Sched` only; `SleepLock` and `Proc` conjoin what their callers do.
`SchedNext` is the most general caller.

**SleepLock.** `acquiresleep()` and `releasesleep()` are split at every lock
operation; `wakeup()` goes through the slots one by one. Timer interrupts and
kills may come whenever the code allows.

**Proc.** `wait_lock` is a second spinlock; the loop of `kwait()` looks at the
children one by one. A process chooses its next system call freely. The system
calls of this module other than fork, exit, wait and kill are one step
(`OtherCall`); memory, files and exit statuses are in `Syscalls`. Of the turns of
`wakeup(p)` only that for the process `p` matters, because only `p` sleeps on
its own address.

**Log.** Disk blocks are written one per step, atomically, and the machine may
stop between any two steps. The buffer cache is taken at its worst: what is not
pinned is recycled at once. One critical section of `log.lock` is one step.
What an operation writes is arbitrary, up to `OpBlocks` distinct blocks.

**BufCache.** Each critical section of `bcache.lock` is one step, so the wait for
a buffer's sleep-lock falls between two of them; `SleepLock` justifies taking
`acquiresleep()` as one step. The disk under the cache is `BlockDevice`, with a
request and a return around every transfer. The LRU list is a numbering of the
buffers. Callers follow the rule of the code: a buffer that was changed is
written, or given to `log_write()`, before `brelse()`; a pinned one is written
and unpinned as in `install_trans()`. A process that holds several buffers at
once counts as several users. `dev` is left out, there is one disk.

**VirtioDisk.** `vdisk_lock` makes everything between two sleeps of
`virtio_disk_rw()` one step. The device is not bound by that lock: it completes
any request it has at any moment, also between two turns of the loop of
`virtio_disk_intr()`, which is therefore taken entry by entry. The avail ring is
the set of chains the device has yet to finish, because it may serve them in any
order. A failed `alloc3_desc()` gives back what it took and wakes the others that
wait, as in the code. A transfer is atomic; an error status panics and is left
out.

**Pipe.** `pi->lock` is held byte after byte, as in the code, and a kill may
come at any step. The two counts wrap around at `Wrap` (2^32 in the code); as
there, PIPESIZE divides it. A byte goes to slot `nwrite % PIPESIZE` of a ring.

**Inode.** A process in a system call has a list of instructions still to do
(`todo`): each is what the code does between two points where another process
may come in, that is at an inode's sleep-lock, at `itable.lock` and at the ends
of a transaction. `iput()` is four of them, as its locks cut it: under
`itable.lock`; `itrunc()` and `iupdate()` under `ip->lock`; letting that go; the
last decrement. `dino` is what is read through the buffer cache; it becomes
durable (`disk`) when the last operation under way ends, which is what `Log`
proves of the code, and a crash leaves `disk`. Boot runs `ireclaim()` before
anybody else. The table of inodes is indexed by inode number, because `iget()`
finds or makes the slot in one critical section; it has as many slots as there
are inodes, so the panic of `iget()` is left out. Any create or link may find no
room for its entry.

**Terminal.** `consoleread()` and `consoleintr()` hold `cons.lock` while they go
from character to character; `uartputc_sync()`, for the echo and for `printf()`,
tests `LSR_TX_IDLE` and writes the register in two steps without any lock.
`uartwrite()`, the part of `uartintr()` under `tx_lock` and `clockintr()` are one
step each. The device takes up to `FIFO` characters, loses any more, raises its
interrupt when the last is out and takes it back when another is written. Indices
and ticks are unsigned numbers modulo `Wrap`.

**Memory, Files, Syscalls.** A kernel state is one record; a system call is an
operator from one state to the next that follows the code with all its error
paths. Which page or block is taken makes no difference, so they are counted; a
page is three address units and a file a few blocks of two. User memory ends
with the pages TRAPFRAME and TRAMPOLINE, which belong to the kernel; a size may
pass them, as `sys_sbrk()` lets it, and the panics this leads to are there
(`uvmallocPanics`, `uvmunmapPanics`, `vmfaultPanics`, `copyinPanics`). When a
shrink frees the page of the trapframe the code does not panic: the process can
never save its registers again. That is taken for a panic too, "trapframe
freed". A call that waits is
a step that is not enabled, or several (`wait`, reads and writes of pipes, a
large write, transaction by transaction); processes interleave there and where
a test sleeps.

**UserCode, Usertests, Grind, Programs, Unix.** A program is a sequence of calls,
each with the results it expects; `Syscalls` executes it. `Usertests` has the 68
tests of the run as the calls they make. `Programs` has init, the shell with its
parser, and the commands. `Unix` starts with the disk as mkfs makes it, boots
init and the shell, and types one script of lines. A test that fails exits with
1, and so does the process of usertests: `TestsPass` looks at that. `MCUnix` adds
`grow`, a program of its own that the shell runs: it moves its size to and fro over
the end of user memory by every mix of `sbrk()` calls, touches what is there, writes
from it, forks and executes. What the kernel panics about stops the machine
(`Halted`).

## 3. Runs

| run | instance | question |
|---|---|---|
| `sleeplock` | 3 processes, 2 CPUs, one of them killed at any time | Is the lock exclusive, is no wakeup lost, and does it implement `Mutex`, progress included? |
| `proc` | init and 2 slots, 2 CPUs, 4 pids, kill of pids 0, 2 and 3 | Unique pids, a live parent for everybody, no wait() asleep over a zombie, no mark of a kill that outlives its process, but for that of `kill(0)` on a free slot, which hits the next process there; holding `p->lock` across `swtch()` keeps every stack on one CPU and alive, and `sched()` is entered with `p->lock` and not RUNNING. |
| `proc_live` | init and 2 slots, 1 CPU, 3 pids, fairness | Do fork, exit and wait implement the atomic operations of `Family`, and does init collect every orphan? |
| `log` | 3 processes, 4 blocks, 2 values, 4 slots, 2 reserved per operation | Does the log implement `Journal` over any crashes, is the space reservation enough, does the log leave the cache a buffer, are pins right, does nobody oversleep, do calls get through, does recovery end? |
| `cache` | 2 users, 3 buffers, 4 blocks, 1 block pinned at most | Has a block one buffer, are counts right, does every holder of a block see what was last written there (`BlockStore`)? |
| `disk` | 3 requests of 3 processes on 7 descriptors, two for the same block | Are descriptors neither leaked nor reused early, is no completion missed, is a request one transfer between call and return (`BlockDevice`), does everybody return? |
| `pipe` | 1 writer, 2 readers (one killed), a ring of 2, calls of up to 3 bytes of 2 values, counts that wrap at 4 | Does the pipe implement `Stream`: every byte once and in order, over any wrap of the ring and of the counts? Is nobody asleep on a ready pipe, does a write larger than the pipe return while somebody reads? |
| `inode` | 3 inodes, 2 processes with 2 calls each out of 7, 1 file slot, 4 first disks, crashes | Does a name that can be reached hold its inode, also after a crash; no panic, no circle of processes waiting; does boot free what was cut off? |
| `terminal` | 2 processes; three mixes of reads, writes, pauses, keys, printf and kills; a buffer of 2, a FIFO of 3, everything wraps at 4 | Is the input a line editor and a queue (`Tty`)? Does every write get out, every pause end, every reader with a line go on? |
| `unix` | 68 tests, grind (one round for two processes, 22 choices of the first), 11 sessions at the shell, `grow` with 34 and with 72 pages | Does every test pass and every session end at the prompt, with pages, blocks, references and links accounted for in every state? Does the kernel panic only after growth beyond the end of user memory, and only about what such growth leads to? |
| `pipe_kill`, `inode_leak` | small | findings, section 6 |

**Bounds and why they are enough.** Two CPUs and three processes give a runner,
a contender and somebody who wakes or kills; every lock in these modules is held
by one party and wanted by others that behave alike. Three slots give `Proc` a
grandparent (init), a parent and a child, so that orphans and reused slots
occur; `MaxPid` allows each slot to be reused. Four slots with two reserved per
operation (`log`) admit two concurrent operations and make a third wait, as 30
and 10 admit three. In `pipe` the ring of
two is smaller than the largest write, so that both sides sleep; two readers mix
their reads, bytes have two values, and calls of one to three bytes let the index
wrap at every place in a call, and the counts after two rounds. In `grow` a size
ends below, in or above trapframe and trampoline, which are the last two pages
there are, with memory that lasts for it (72 pages) or not (34). In `cache` two users and a pin can use every buffer, and
there are more blocks than buffers. In `disk` two requests fill six of seven
descriptors, so the third process gets one and gives it back. In `inode` three
inodes are the root, a directory and a file; two processes with two calls each
unlink, recreate and link the same names, and every first disk is one that the
calls produce. Directories are one level deep, so ".." is the root. In
`terminal` three senders meet in the FIFO, which is as many as there are; a
buffer of two is full with one character and an end-of-file; indices and clock
start one before they wrap around. In `unix` each script is given the pages and
disk on which its tests run out of what they are meant to run out of. What a
bound might hide in the safety properties of `Sched`, `SleepLock`, `Proc`, `Log`,
`Pipe`, `BufCache`, `VirtioDisk`, `Terminal` and `Inode` is covered by the proofs,
which have no bounds; `NothingLost`, `RefsCounted` and `KnownPanics` of `Unix` are proved for
tables, disks and memories of any size and for every program. `WellTyped` says
that what a program passes to a call is of the right kind, and no more: addresses
and growth are integers, strings and buffers are sequences, counts are not
negative. They are integers without a width: a size that wraps around 64 bits,
which sysproc.c:58 does check, is not modelled.

`NBUF` and `LOGBLOCKS` are both 30 (param.h:14, 15), and a logged block pins a
buffer until it is installed. `write_log()` needs one more to write a slot with,
so 30 pinned buffers would be the panic of `bget()`. `PinsLeaveBuffer` says that
the log stops short of that, and this rests on `LogNeverFull`'s condition: it is for
operations that write fewer than MAXOPBLOCKS blocks, as all of today's do. Both
fail for operations that fill the log exactly: `log_write()` (log.c:221) tests for
a full log before it looks whether the block is in it already, so such operations
panic when they write a block again, although riscv_book.txt:4587 allows them.
What is not claimed is that a cache of 30 buffers suffices for everybody: readers
outside of operations hold buffers too, as many as there are processes, and the
book calls this too many processes in the file system at once.

**Fairness.** CPUs finish the context switches they begin (WF). A process that
is on a CPU again and again gets on with its kernel code, `scheduler()`, which
goes round the table without end, picks whoever is RUNNABLE again and again, and
the timer interrupts whoever runs (SF): a spinlock that is free again and again
is eventually acquired. This is what the round-robin scan and QEMU's amoswap
give in practice, the code has no queue of waiters. `init.c:32` calls `wait()`
for ever, and only that is asked of user programs in `Proc`; in `Pipe`, readers
come back to read and a killed process exits. In `Log` the fairness is weak:
recovery and calls under way proceed, operations that were begun end. In
`VirtioDisk` the device serves each request and its interrupts are handled (WF);
a process that finds `vdisk_lock` free again and again gets it (SF), as above.
`DescriptorsComeBack` asks only that a waiting process tries again: the code does
not promise that nobody takes the descriptors first. In `Terminal` everything
that has begun goes on (WF), the device sends and the clock ticks; nobody has to
type, call or kill, and calls are bounded, so that no fairness among writers is
asked for. In `inode` and `unix` nothing is assumed: that a script comes to its
end is checked as the absence of deadlock, a state without a successor being
allowed only at the prompt, in the finished test or after a panic.

## 4. Proofs

Eight modules hold the theorems. They assume of the constants what the modules
declare: names that stand for "none" are not members (`SchedAssumption`, and the
others); init is a process and processes sleep on themselves
(`ProcAssumption`); the sizes of the log are numbers with OpBlocks <= MAXOPBLOCKS <=
LOGBLOCKS (`LogAssumption`); a pipe has two different ends and PIPESIZE divides
Wrap (`PipeAssumption`), as 512 divides 2^32; buffers and processes are finitely
many and there is a buffer (`CacheAssumption`); there are three descriptors or
more (`DiskAssumption`); INPUT_BUF_SIZE divides Wrap and is less
(`TerminalAssumption`), as 128 is; processes and names of files are finitely many
(`InodeAssumption`), the disk is at first a tree of names with link counts that
cover it (`DisksAssumption`), as mkfs makes it and as the theorems show the kernel
leaves it, and paths are not empty (`CallsAssumption`). Of the kernel as a whole, all tables
have an entry at least and a block a unit (`FilesAssumption`), there is a slot for
init and the other sizes are numbers (`SyscallsAssumption`), and the disk has
room for what mkfs puts there, as it has memory for the first process
(`ScriptsAssumption`). Everything else about the
sets is arbitrary.

**`Proc_proofs`, of `Sched`.** `SchedInvariant`: `SchedInv` is inductive as it stands. Its
core is the hand-over of `p->lock`: while a process is between the assignment of
its state and its last `swtch()`, the CPU it runs on holds its lock, so that
`scheduler()` on another CPU, `kwait()` and `wakeup()` cannot touch it.

**`Proc_proofs`, of `SleepLock`.** Each step of `SleepLock` is a step of `Sched`, so
`SchedInv` is part of `SleepLockInv`. `SleepLockInv` adds which place in the
code goes with which state of the process (`Places`), that the recorded holder
is the one past the test (`HolderRecorded`), and where the wakeup that a sleeper
waits for is (`WakeupComes`): whoever sleeps on a free lock is a slot which a
`wakeup()` under way has not passed. From it follow `MutualExclusion`,
`WakeupsNotLost` and `RefinesMutex`, the safety half of the refinement.

**`Proc_proofs`, of `Proc`.** Each step of `Proc` is a step of `Sched` too. `ProcInv` adds
five parts. `PlacesInv` says which place in the code goes with which state;
`WaitLockHeld` that exactly the holder of `wait_lock` is between its acquire and
its release, so at most one process scans its children, decides to sleep, gives
children away or dies; `ForksOwned` that a child in the making belongs to one
`kfork()`, whose caller is alive; `PidsInv` that pids in use are below `nextpid`;
`TreeInv` that whoever has children is alive. `ZombiesSeen` is the strengthening
of `NoSleepOverZombie`: a scanning parent has every zombie child still ahead of
it, it has none once it has decided to sleep, and from the moment a process has
woken its parent until it is a ZOMBIE the parent is not asleep, because it would
need `wait_lock` to go back to sleep. `TableIsSafe`, `PidsAreUnique`,
`TreeIsSound` and `NoZombieIsMissed` follow. `KillsWereAsked` is
`MarksDieWithProcess` and needs `MarksInv`: a free slot carries no mark but that of a
`kill(0)`, which the history variable `strays` remembers until `freeproc()` (section
5). `KeepsFamily` is the safety half of `ImplementsFamily`; it needs that what
`kwait()` has still to look at are children of the caller (`ScanInv`), which
holds because parents change only under `wait_lock`.

**`Storage_proofs`, of `Log`.** `LogInvariant`: `LogInv` is inductive. It is stronger than the
properties in four ways. `Actors` says that one process commits, alone, with no
operation open. `SpaceReserved` replaces the arithmetic of `begin_op()` by
credit: an open operation owns a slot for each block it may still add, and used
and owned slots together fit into the log; `begin_op()` creates MAXOPBLOCKS of
credit because its test leaves room for `outstanding + 1` operations whatever
the others have written, `log_write()` of a new block pays one unit and an
absorbed one at most that. `CopiesAgree` says which of cache, slot and home agree
at each stage of a commit, `RecoveryAgrees` the same for recovery. With it:
`NeverFull` (an operation that writes fewer than MAXOPBLOCKS blocks has credit
left, so a slot is free; with exactly MAXOPBLOCKS the statement is false, see
section 3), `BufferSpared` (under the same condition a slot stays unused while
anybody is in the log, so the pins, of which there is one per slot, do not take
LOGBLOCKS buffers), `NobodyOversleeps`, `PinsAreRight`, `QuietIsInstalled`, and
`LogImplementation`: the log implements `Journal`. In that proof `AfterRecovery`
is what any number of interrupted recoveries would make of the disk; installing
does not change it, writing the header changes it to the contents of the cache,
and no other step of a commit or recovery shows.

**`Pipe_proofs`.** `NobodyOversleeps` is about the moments when `pi->lock` is
free, so the induction needs `PipeInv`, which also says what happens while it is
held: who holds it, that an end is open as long as a descriptor of it is, and
that a reader asleep on a pipe with bytes in it has a writer in its loop ahead of
its `wakeup()`, and the other way round (`WakeupOwed`). `NoneOversleeps` assumes
that no writer is killed, because the run `pipe_kill` shows that it is false
otherwise. `StreamInvariant` needs no such assumption: the distance of the two
counts, taken round the wrap, is at most PIPESIZE. With it `Implementation`: the
bytes between the counts, read off the ring, are the queue of `Stream`; a write
appends to them and a read takes the first, because PIPESIZE divides Wrap and so
the ring index keeps in step when a count wraps. Stream's own state has no
processes; the theorem covers every kill.

**`Storage_proofs`, of `BufCache`.** `CacheInv` consists of `OneBufferPerBlock`, `RefsCounted`,
that the LRU list has every buffer, and that who reads, changes or unpins a
buffer has its sleep-lock. `OneBuffer` rests on `bget()` looking and recycling in
one critical section; `CountsRight` on every way in adding one user and every way
out removing one. `StoreInv` adds the contents: which buffer of which
user agrees with what, and that a valid buffer which nobody changed and no log
pins is the same as the disk block, so that recycling it loses nothing. From it
`CacheImplementation`: the content of a block is that of its valid buffer if it has
one and the disk's if not, and the steps of the cache and the disk between
`bread()` and `brelse()` do not change it.

**`Devices_proofs`, of `VirtioDisk`.** `DriverInv` says whose the descriptors are
(`ChainsOwned`: three different ones per request, disjoint from all others and
from the free ones), that the heads in the avail and used rings belong to
requests, each in one of them and once (`RingsRight`), and that `b->disk` is set
exactly while the head of its request is in a ring (`BusyRight`). The last is
why `free_chain()` may free when it finds `b->disk` clear, and why a process that
sleeps has a completion coming; `InterruptDue` says that the interrupt for it
is pending or being handled, which holds because the handler acknowledges before
it looks. `DescriptorsAreOwned` needs a count on top, three descriptors per
request. `Implementation` then maps a buffer to the request of its only caller,
served once its head has left the avail ring.

**`Devices_proofs`, of `Terminal`.** `TerminalInv` says that from `cons.r` to `cons.w` to
`cons.e` it is once round the buffer at most, in distances taken round the wrap
(`OrderInv`); that the character whose echo `consoleintr()` still sends has a
place, although the room was tested before the echo (`StoreInv`), which holds
because `cons.lock` is held from the test to the store; and that a read which
has got nothing wants all it asked for, which is how `consoleread()` decides
whether an end-of-file is its own (`ReadsInv`). `ConsoleImplementsTty`: the
characters between `w` and `e` are the line, those between `r` and `w` the
queue. The work is in the windows onto the ring: a store behind a window that is
shorter than the buffer hits none of its slots, and two windows in a row are one,
over a wrap too, because INPUT_BUF_SIZE divides Wrap.

**`InodeSteps_proofs`, `Inode_proofs`.** `InodeInvariant`: `IInv` holds from the
first boot on, through every crash, for any number of processes, calls, inodes,
names and open files. Two modules, because each takes the prover some ten
minutes: the first has what instructions mean, `IInv`, and the steps that leave
the disk alone; the second the steps that change it, boot and crashes, and the
theorems.

The control state of a process is the list of what it has still to do, of any
length, so the invariant speaks of lists by *roles*. Each kind of instruction
plays roles for inodes (it holds a reference, will drop one, has counted a link
that is not made yet, has a new inode, is about to free one), and `Count` is how
often a role is played over all processes. Parts of `IInv`, for each inode:

* `RefInv`: the reference count of its slot is the number of references that
  instructions and open files hold, exactly. So an inode which `iput()` finds
  with one reference and no link has no other user, and `EraseInv` keeps it so
  while `iput()` has let go of `itable.lock` and not yet freed the inode.
* `ClaimInv`: links are counted before they are made (sysfile.c:145) and until
  they are taken back, so `nlink` covers the names and the claims under way at
  every moment, and whatever a crash keeps has links enough for its names.
* `LockInv`, `HeldInv`, `AgreeInv`: who holds a lock follows from what he has
  still to do; a slot that is valid, and not being freed, says what the disk says.
* `NewInv`, `DirInv`, `OldInv`, `GoalInv`: an inode fresh from `ialloc()` has one
  owner and no name; what `unlink()` and `create()` found under the lock of the
  directory is still so when they act on it.
* `DiskInv`: the names on disk, and in the cache, form a tree (`Tree`).

From it `InodeNeverPanics`, and

* `InodeNamesHold`: `NamesHold` is about what can be reached from the root, ".."
  included; in a tree ".." reaches nothing more than names do, and each name is a
  link of an inode in use.
* `InodeNoCircularWait`: a process that holds one inode lock and waits for
  another is in `unlink()` or `create()`, holds a directory and waits for an inode
  with a name in it, or for a new one that nobody else knows (`WaiterHas`). The
  lock waited for in a circle is held by such a process too, hence a directory's;
  a circle of processes would be a circle of directories, and a tree has none.
  The order of locks is the tree's, although no code spells it out.
* `InodeReclaimed` has its own invariant `ScanInv`, which follows one inode
  through the stages of `ireclaim()`, and shows that what lies behind the scan is
  in use only with a link.

All but the last have the hypothesis `UpsLeadToRoot`: if some path has a ".." in
it, then directories are made, and were made, in the root only. Something of the
kind is needed, since without it the panic of a removed parent (section 5) can be
reached. Paths without ".." need nothing, trees of any depth included; the
instance of the run `inode` has a path with ".." and satisfies it.

**`Kernel_proofs`, `Unix_proofs`.** `UnixInvariant`: `UnixInv` holds in every state
of the machine from boot on, whatever the programs do, growth over the end of
user memory included, in tables, disks and memories of any size. Two modules,
again because each takes the prover some twenty minutes: the first has the invariant, the helpers of the file system, of
memory and of the file table, and the calls that work on files and directories
alone; the second processes, pipes, `kexec()`, faults, boot, and the theorems.
`UnixInv` says, until the kernel panics:

* `Disk`: the free blocks and those of the inodes are all the blocks; an inode
  without an indirect block has no more than the direct ones; a free inode has
  none; entries of directories name inodes that exist.
* `Refs`, `InUseOnly`: the reference count of an inode is the number of current
  directories and open files of it, and what they refer to is in use; no
  directory is open for writing.
* `Files0`: the count of an open file is the number of descriptors of it.
* `Pipes`: an end of a pipe is open exactly if there is a file of it, and then
  one; a pipe has an end that is open.
* `Pages0`, `Procs0`: free pages, pages of page tables, trapframes, roots and
  pipes are all the pages; no page is mapped above the size of its process; a
  slot that is not in use has neither pages nor descriptors.

A system call breaks these half-way: `namei()` has returned an inode that
nothing refers to yet, `pipealloc()` a file without a descriptor, `kalloc()` a
page that is not mapped. So the lemmas are about `Fine(s, x, y, t)`: state `s` is
right with `x[i]` references to inode `i`, `y[f]` to file `f` and `t` pages in
hand. Each helper is shown to change what is in hand in a stated way, on all of
its ways out (`iput()` takes one from `x[i]`, a `namei()` that succeeds adds one
to that of its result, one that fails none), and each call to begin and to end
with nothing in hand. That is what its error paths have to get right: a forgotten
`iunlockput()`, `fileclose()` or `uvmfree()` leaves something in hand at the end.
The loops (`namex()` along a path, `writei()` block by block, `uvmcopy()`,
`kexec()`) have invariants of the same kind; `namex()` and `writei()` are recursive
functions over numbers: of the steps that break the invariant there would be a
least one (`LeastIsIn`).
TLC checked `UnixInv` on the programs of the run `unix` before it was proved. From it:

* `UnixNothingLost`, `UnixRefsCounted`: `NothingLost` and `RefsCounted` hold as long
  as the kernel has not panicked (`Up`). After a panic the machine has stopped in
  the middle of a call, with things in hand.
* `UnixPanics`: of the panics in the modelled code, these may come about
  (`KnownPanics`, which the run `unix` does not repeat because `OnlyGrowthPanics` says
  more of its programs): init exits; the inode table is full (`iget()`); an inode that is
  looked up is free (`ilock()`, by way of the ".." of section 5); a link count is
  below one where `unlink()` looks; and, once a lazy `sbrk()` has taken the size of
  a process over its trapframe, those of `walk()`, `mappages()` and `kfree()` and
  the loss of the trapframe's page (section 5). The others do not, for any program:
  `ilock()` and `fileclose()` never meet a count below one, nor `freewalk()` a page.
  Those after growth do come about: the run `unix` has states with each of them.

## 5. Only model-checked, or not modelled

Liveness (the progress half of `Mutex`, `ImplementsFamily`,
`SomebodyGetsThrough`, `RecoveryEnds`, `RequestsReturn`, `DescriptorsComeBack`,
`WritesReturn`, `CallsEnd`) is checked by TLC only: temporal reasoning about
fairness is beyond the installed provers. Three
properties of `Unix` remain with TLC as well. `OnlyGrowthPanics` and `LinksCounted`
hold of the programs of the run and not in general: a program can fill the inode
table, and a directory that is removed keeps its ".." while a process is in it
(below), which also disturbs the count of links. `TestsPass` is about what 68
given programs expect. `Unix` runs a handful of long programs to their end: what
these three show is shown of them.

Not modelled: `push_off()` and `pop_off()` beyond "a spinlock holder is not
interrupted", and with them two of the four panics of `sched()`, that no other
spinlock is held and that interrupts are off (proc.c:477, 481): `SchedAsserts` is
about `p->lock` and RUNNING; the hardware set-up of boot; the formats of printf; the levels and
bits of page tables and the ELF loader beyond its size checks; the pure
algorithms of grep's matcher, umalloc, sixfive and memdump; in `Inode`, the
inode table running full (iget() panics; NINODE is 50, NFILE 100; `Files` has it).

What the models deliberately do not claim:

* `kkill()` (proc.c:595) compares pids without looking at `p->state`, and a free slot
  has pid 0: `kill(0)` marks it and returns 0, although the comment (proc.c:586)
  speaks of "the process with the given pid". `allocproc()` does not reset the
  mark, so the next process in that slot starts its life killed. `Proc` and
  `Syscalls` do the same. `MarksDieWithProcess`, checked with `kill(0)` among the
  calls, and proved, allows this mark (`strays`) and no other.
* `sys_sbrk()` of the lazy kind (sysproc.c:58) checks only that the size does not
  wrap around. A process may ask for a heap that takes in its trapframe and more
  than MAXVA, against the layout of memlayout.h:50. What follows is a panic in
  `fork()` ("mappages: remap"), in `walk()` on exit, exec or an access, or in
  `kfree()` on a shrink, or the loss of the trapframe's page. `OnlyGrowthPanics`
  lists them, and says that nothing else brings the programs of the run to a panic.
* A kill that falls between a `killed()` test and the `sleep()` after it is not
  noticed (proc.c:404, pipe.c:115, console.c:96, sysproc.c:77); the book admits
  this (riscv_book.txt:4310). The models contain the race, and no property says
  it away.
* A directory that is removed while a process is in it keeps its ".." entry. When
  the directory above is removed too and freed, a lookup of ".." from inside
  reaches a free inode and panics, "ilock: no type" (fs.c:315). It takes
  directories two levels deep, which `inode` does not have.
* A file or directory created in a directory that is being removed keeps its
  link count (sysfile.c:254): `NamesHold` says "at least as many links as
  names", not "exactly".
* `piperead()` and `consoleread()` lose the byte that `copyout()` cannot deliver
  (pipe.c:126, console.c:116): `Stream` and `Tty` allow that.
* The count of free pages that usertests takes between tests may be taken before
  init has collected an orphan (usertests.c:3115): the tests `reparent`,
  `reparent2` and `forkforkfork` can report lost pages that are not lost.
* `usertests.c:2341` says that balloc panics when the disk is full; it returns 0
  (fs.c:87).

## 6. Findings

* `pipe_kill`: `pipewrite()` (pipe.c:83) returns without `wakeup(&pi->nread)`
  when its caller has been killed, although it may have added bytes: a reader
  sleeps on a pipe that is not empty until another writer comes or the write end
  is closed.
* `inode_leak`: `iput()` (fs.c:341-361) erases an inode on disk with its own
  reference still counted. In the window before it takes that away, another
  process can allocate the inode again (its slot is found, ref 2) and give it up
  again (create without room for the entry, or unlink and close); its `iput()`
  sees ref 2 and does not free, and the first one's last decrement does not look.
  The inode stays in use on disk, without links and references, until
  `ireclaim()` at the next boot, against the comment at fs.c:333.

## 7. Plan

What a continuation would take up: `push_off`/`pop_off` nesting as a module of
its own; the pure algorithms against reference definitions; in `Inode`,
directories two levels deep with the panic of section 5 stated, and an inode
table that runs full; a proof that `Inode` loses no inode between two crashes
but in the window of `inode_leak`; `LinksCounted` of `Unix` for programs that remove
no directory while a process is in it.
