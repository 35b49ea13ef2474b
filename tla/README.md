# Phinix in TLA+

Phinix is a teaching kernel for 32-bit x86 in C: one processor, tasks in kernel and
user mode, a sleeping lock, block devices behind a buffer cache, a minix file system,
pipes, terminals and a small network stack. This directory holds TLA+ models of the
kernel, the TLC runs that check them on small instances, and TLAPS proofs.
`PROJECT.json` maps every definition to the lines it models (paths below are relative
to `src/src/`).

To repeat a check: `tlc -config Queues.cfg Queues.tla`; to repeat a proof: `tlapm LockProofs.tla`.

## 1. How the kernel runs, and what an action is

* One processor. Every gate of the IDT is an interrupt gate (`kernel/interrupt.c`), so
  kernel code runs with interrupts off from its entry on. It loses the processor only
  where it calls `schedule()`: in `task_block`, `task_yield`, `task_sleep`, at the end
  of a time slice (only reached from user mode or the idle loop) and in `task_exit`.
* Interrupts are taken in user mode and in the `hlt` of the idle thread, nowhere else.
* So the grain of atomicity is a stretch of kernel code between two calls of
  `schedule()`, and that is what one action is. Where an action calls a helper that
  sleeps, the code after the sleep is a separate action, and the state in between is
  visible to every other task. There are no data races in the usual sense; the errors
  to look for are values read before a sleep and used after it, waits that end for
  another reason than expected, and waits that nobody ends.

## 2. Inventory

| component | source | state | operations | hard because | what makes it correct |
|---|---|---|---|---|---|
| scheduler | `kernel/task.c`, `schedule.asm`, `idle.c` | `task_table`, state, ticks, jiffies, node of each task, running task | `task_search`, `schedule`, `task_yield`, `task_block`, `task_unblock`, `task_sleep` | a wait may be ended by an event, a timeout or a signal, in any order | one task runs; a task is off the run queue exactly while it is linked in a wait; a ready task is kept waiting by tasks behind it only |
| timers, clock, alarms | `kernel/timer.c`, `clock.c`, `alarm.c` | sorted `timer_list`, `task->timer`, `task->alarm` | `timer_add`, `timer_put`, `timer_wakeup`, `timer_remove`, `clock_handler`, `sys_alarm` | timers point at tasks and tasks at timers | a timer belongs to the wait that armed it; none overdue; timed waits end |
| mutex, lock | `kernel/mutex.c` | value, waiters, holder, repeat | `lock_acquire`, `lock_release` | woken tasks compete with newcomers | exclusion, no lost wake-up, hand-over |
| request queue | `kernel/device.c` | sorted list, direction | `device_request`, `reguest_nextreq` | only the caller that leaves hands the drive on | one caller has the drive while there are requests; elevator order; nobody starves |
| buffer cache | `kernel/buffer.c` | hash table, free list, wait list, fields of buffers | `getblk`, `bread`, `bwrite`, `brelse` | sleeps in the middle of every call | users counted, the last modification is seen, wake-ups not lost |
| pipes, ring buffers | `fs/pipe.c`, `lib/fifo.c` | ring, two waiter fields | `pipe_read`, `pipe_write`, `sys_pipe` | a woken call does not test again | a bounded FIFO channel; a sleeper has a reason to sleep |
| floating-point unit | `kernel/fpu.c` | `last_fpu_task`, flag and area of each task, CR0 | `fpu_enable`, `fpu_handler`, `schedule`, `task_fork`, `task_exit` | lazy: the state of a task is in one of several places | a task finds what it left; no leaks |
| process life, signals | `kernel/task.c`, `signal.c`, `execve.c` | PCB, parents, signal bits and handlers | `task_fork`, `task_exit`, `task_waitpid`, `sys_kill`, `task_signal` | the PCB is copied with everything in it; exit calls code that sleeps | every dead child is reaped once, a waiting parent is woken, signals run once |
| IDE, sound card | `kernel/ide.c`, `sb16.c` | controller lock, one waiter, DMA buffers | PIO and UDMA transfers, handlers | timeout racing the interrupt | the waiter is in that wait; the lock is released on each path |
| floppy, DMA | `kernel/floppy.c`, `isa.c` | motor timer, waiter, current disk | transfer, motor off | a timer that task exit may free | the timer pointer is live or null |
| RAM disk | `kernel/ramdisk.c` | memory | copies | nothing sleeps | |
| keyboard, tty, serial | `kernel/keyboard.c`, `tty.c`, `serial.c` | fifos, waiters | read, write, handlers | handlers race readers; a full ring drops its oldest byte | nobody sleeps while there is something to read |
| console | `kernel/console.c` | screen, cursor kept twice, escape state | write | the window moves through video memory and is copied back at its end; a sequence may be spread over writes | what is shown is a page that scrolls |
| memory | `kernel/memory.c`, `lib/bitmap.c` | page reference counts, page tables | `get_page`, `put_page`, copy on write, fork, brk, mmap | shared page tables | the count of a page is the number of its mappings |
| heap | `kernel/arena.c` | size classes, free lists | `kmalloc`, `kfree` | arena freed with its last block | no block handed out twice |
| inodes, block maps, super blocks | `fs/inode.c`, `bmap.c`, `super.c` | inode table, bitmaps, mounts | `iget`, `iput`, `bmap`, `balloc`, `mount`, `umount` | `iget` publishes before it reads; `iput` sleeps before it counts | one inode per number; counts exact; a failed unmount changes nothing |
| files, names | `fs/file.c`, `namei.c`, `stat.c`, `ioctl.c`, `dev.c` | file table, reference counts | open, close, dup, read, write, link, ... | shared by fork | counts exact |
| network | `net/*.c`, `kernel/e1000.c` | packet lists and reference counts, descriptor rings | `netif_input`, `netif_output`, two workers, driver | wake-ups of WAITING workers | a packet is freed once, delivered once; workers do not sleep on work |
| ARP | `net/arp.c` | entries, waiting packets, retries | query, refresh, input | three threads, retries and late answers | waiting packets are sent once or dropped once |
| program loading | `kernel/execve.c` | memory of the task | `sys_execve` | the old program is gone before the new one is checked | a task sees its own memory only |
| interrupts, gates, boot, PCI, CPU, clock chips, C library, user programs | `kernel/interrupt.c`, `gate.c`, `handler.asm`, `boot/`, `lib/`, `builtin/` | | | straight-line code | |

Components interact through direct calls, and through the scheduler: a driver or lock
blocks the caller with `task_block`, an interrupt handler or another caller ends the
block with `task_unblock`, the clock interrupt with a timeout, `sys_kill` with a signal
(only for SLEEPING and WAITING tasks). `PROJECT.json` lists under "hazards" the
places where this can go wrong.

## 3. Modules

    Scheduler <-- LockOnScheduler --implements--> Lock         LockProofs, SchedulerProofs
    Elevator --implements--> BlockDevice                       ElevatorProofs
    Lock, Elevator            Queues = both
    BufferCache   (its drive is a BlockDevice, its             BufferCacheProofs
                   buffer locks are Locks)
    Fifo <-- Pipe --implements--> Channel
    Fifo <-- Terminal
    Console --implements--> Screen
    Pipe, Terminal, Console   Streams = all three              StreamsProofs
    ProcessTable, Paging,
    Heap, Fpu                 Processes = all four             ProcessesProofs
    Inodes <-- Names <-- FileTree
    FileBlocks, InodeTable    FileSystem = FileTree, both      FileSystemProofs
    IdeDisk, Floppy, Network  Devices = all three              DevicesProofs

The arrow `<--` reads "is extended by"; a module of proofs stands in the line of the modules it is about and extends
the last of them. `Queues`, `Streams`, `Processes`, `FileSystem` and
`Devices` put parts into one specification that share no state their properties could tell
apart: a behaviour is one of a single part, and the state space of the run is the sum of theirs.
Definitions named `Bug...` belong to no specification. Each is a plausible mistake in
the definition that follows it, kept to show which property notices it.

### Scheduler

`state`, `linked` (node in a list), `timer`, `alarm`, `pending` (a signal bit), `ticks`
and `last` (`task->jiffies`) are the fields of `task_t`; `timers` is `timer_list`; `cur`
is `running_task()`. `Search` is the one pass of `task_search`, with the replacement
rule of the code (more ticks left *or* less recent). `Yield`, `Block` (as `Sleep`,
`DeviceWait`, `Wait`), `Wake` (a driver's handler or another task's `task_unblock`),
`Kill`, `TaskSignal` and `Alarm` are the calls. The clock interrupt is `Tick`, then
`FireTimeout` or `FireAlarm` for each due timer, then `EndTick`; `phase` keeps
everything else out while it runs.

Abstractions: time is relative (a timer holds the ticks it has left), `task->jiffies`
is a rank because only comparisons of it matter, one signal bit stands for all, the
wrap of the 32-bit `jiffies` (497 days) is left out. `timer_remove` and `timer_update`
are in `ProcessTable` and `Floppy`.

### Lock and LockOnScheduler

`Lock` has the fields of `lock_t` and `mutex_t` and where each task is in the calls;
which task runs next is open. `LockOnScheduler` EXTENDS Scheduler: each task
takes the lock, waits for a device inside it (as a holder of the IDE controller's lock
does) and releases it; the next task is the one `task_search` picks. The refinement
mapping takes the wait for the device as part of being in the lock.

### BlockDevice and Elevator

`Elevator` has the sorted `request_list` as a sequence of tasks (a task has one request
at a time), the direction, and where each task is in `device_request`. `do_request`
is the interval from "serving" to `Finish`, because drivers sleep in it.
`BlockDevice` is what the queue promises: requests are served one at a time, each once.

### BufferCache

The fields of `buffer_t`, the hash table (one sequence, newest first, in which a
block is found as it would be in its chain), `free_list`, `wait_list`, the disk, and the place
of each task in its call. Before and after the drive moves the data are two places, so
that other tasks act between the call of `device_request`, the moment of the transfer and
the rest of `bread` or `bwrite`. `latest` and `slept` are history variables. `assert`s on the result of
`device_request` (a failing disk stops the kernel) are not modelled.

### Fifo, Channel, Pipe

`Fifo` has the operations of `lib/fifo.c` on a record of cells, head and tail, with the
wrap at `length` and the loss of the oldest byte when putting into a full ring. `Pipe` has
`pipe_read` and `pipe_write`: a call runs in one step to its return or to its next sleep.
A woken call goes on with `fifo_get` or `fifo_put` without a test, as the code does, and
an assertion that fails sets `panicked`. `Channel` is the abstract bounded channel, of
`length - 1` bytes.

### Terminal

The interrupt handler of the keyboard (prefix `E0`, Ctrl, Caps Lock, releases, Ctrl-C) or of
a serial line puts a character into the ring and wakes `waiter`; readers take turns by the lock and sleep
with it. Characters are numbered as they are typed, so that a lost or repeated one would be seen.

### Fpu

`ts` (CR0.TS and EM), `regs` (the unit), `last` (`last_fpu_task`), and for each task its flag,
its save area, and whether it lives. `Trap` is `fpu_enable`, `Compute` a floating-point
instruction, `Switch`, `Fork`, `Exit`, `Reap` what the rest of the kernel does to this state.
`task_exit` leaves `last_fpu_task` alone, so that it may point to a page that becomes another task; an environment a dead
task has left is its own until then and that of `Dead` afterwards. `haunted` is history: the tasks made in such a page, and their children.
Memory that `kmalloc` has not initialised, and the page of a dead task once freed, are a
choice over the outcomes that matter.

### ProcessTable

One record for the task table, the timers of alarms and the assertion that has stopped the kernel (`halt`).
`Fork`, `Exit`, `Wait`, `Sleep`, `Kill`, `Handle`, `SetMask`, `Alarm`, `SetSid`, `SetPgid` are calls; each ends in
`interrupt_exit`, which delivers one signal (`TaskSignal`): ignored, fatal, or a frame pushed for a handler that
later returns through its restorer (`HandlerReturns`). `task_exit` closes the task's `Files` by system calls, so that as many
signals are delivered inside it, the lowest first; a fatal one enters `task_exit` again, which its assertion stops. A frame that a
handled one pushes goes to a user stack whose pages are freed, and nothing returns to it: the model only counts that signal as delivered. A timer is known by the task it was added for, and the alarm pointer of a task
is a timer, as `task_fork` copies it. Which ready task goes on is open.

### Paging

Frames with counts and contents, page tables as frames, a directory for each task, `brk` and `vmap`. `Store`
and the kernel's own stores (`KernelStore`) go through the present, write and shared bits as the processor does; `copy_on_write`,
`page_fault`, `copy_pde`, `free_pde`, `sys_brk`, `sys_mmap`, `sys_munmap` and the memory side of `sys_execve`, fork and exit
are the operations. `want` is a history variable: what a task has stored in its private pages. Some frames are set apart for a table or for a page
of one task each: which one is taken makes no difference to anything, and no step depends on it. What is done page by page is stated for the set of pages at once.

### Heap

The bitmap of kernel pages with its first-fit scan, arenas, descriptors and free lists; `kmalloc` and `kfree` of small
and large blocks, and the pages a descriptor keeps. `live` is the history of blocks that are handed out.

### Inodes, Names, FileTree

`Inodes` has `inode_table`, `super_table` and what each disk holds, and `iget`, `iput`, `ialloc`, `ifree`, `read_super`,
`put_super`, `mkfs`, mounting. `Names` has `find_entry` (across mount points), `add_entry`, `named`, `namei`, `inode_open`
and permissions. `FileTree` has the calls: `open`, `close`, `dup`, `dup2`, `stat`, `mkdir`, `rmdir`, `link`, `unlink`,
`chdir`, `chroot`, `mount`, `umount`, `mkfs`, `pipe`, `fork`, `exit`. A path is a sequence of names; a directory is its sequence of
entries. On a RAM disk no call sleeps, so that a call is one step.

### FileBlocks

`balloc`, `bfree`, `bmap` with direct, indirect and double indirect blocks, `inode_read`, `inode_write`,
`inode_truncate`, `sys_lseek`. Blocks hold numbers, so that a block of text taken for a block of indexes does
what it would do. `want` is the history of each file's text.

### InodeTable

`iget` and `iput` cut where they wait for the disk: the slot is published before its descriptor is there, and the count
falls only after the write.

### IdeDisk, Floppy, Network

`IdeDisk`: the controller lock, `ctrl->waiter`, a pending interrupt, and each call between its sleeps (PIO read and
write, IDENTIFY, UDMA, reset); the drive is external.

`Floppy`: the lock, the motor and its timer, and for each piece of a request the seek, the DMA buffer and the transfer. Requests are for any
sectors and counts from 1 to 255, as `sys_read` and `sys_write` of `/dev/fda` pass them on (`fs/file.c:125-131`). (`bread` is not such a
caller: `fd_read` returns a number of sectors, which its assertion on EOK refuses, `kernel/buffer.c:169`. For a count of 0 `fd_read` returns an uninitialised
variable; it is left out.) A request over the end of a cylinder is done in pieces as the loop does it, with one `buf`, the whole `count` and a
`u8` that counts what is left. `FdExit` frees the timers of a task; `fd->timer` goes on pointing there, and the next `fd_motor_off` puts the freed timer into
`timer_list` again (`kernel/floppy.c:267`, `timer.c:54-59`). Once that memory is in use for something else (`TimerGone`) the model stops.

`Network`: packet buffers with counts, the queues and threads
`neti` and `neto`, the ARP cache with its waiting packets and its thread, IP and ICMP echo, the two rings of the card and the
interrupt handler; the card is external. It sends from head to tail, and takes a ring whose tail is its head for an empty one, which is what
`send_packet` makes of it by filling the last descriptor (`kernel/e1000.c:313-314`). A packet is its kind and its host. A thread takes one packet in a step and the ARP
thread one entry, `ArpThread(h)`, of as many hosts as there are. Where the code hands on a whole queue or ring in a loop (`arp_refresh`,
`arp_entry_put`, `recv_packet`), the operator says what the loop leaves of the whole sequence.

### Console and Screen

`Console` is `console_write`, a character a step: the four states of the parser, the cursor as `(x, y)` and as a position, and
video memory through which the window moves. `Screen` is a page with a cursor that knows no memory.

## 4. Runs

| run | instance | shows |
|---|---|---|
| `scheduler` | idle and two user tasks, delays of 0 and 2 ticks | a timeout belongs to the wait it guards in every order of events, timeouts, signals and time slices; timed waits end |
| `queues` | 4 tasks; nesting 2; any of 3 sectors, equal ones included | the lock: exclusion, no lost wake-up, sleepers go on being woken; the request queue: the drive is handed on exactly once and in elevator order, everybody is served unless equal sectors keep meeting; it implements `BlockDevice` |
| `lock_on_scheduler` | idle and 3 user tasks | the lock on the real scheduler implements `Lock`; no ready task is kept waiting by tasks in front of it in the table (those behind it can do so, section 5) |
| `buffer_cache` | 3 tasks, 2 buffers, a block shared by two tasks and two with one user each | joint reads, waiting, eviction, reading back: no wake-up lost, one buffer per block, the last modification seen |
| `streams` | ring of 4 cells; requests of up to 5 bytes, 12 bytes in all; two readers of a line; a console of 2 by 2 cells, video memory of 4 lines, two arguments, all final characters | the pipe implements `Channel` and delivers all; sleepers have a reason to sleep; the console implements `Screen` |
| `processes` | 4 slots with groups of calls for 2 to 4 tasks, 4 signals; 2 tasks with 4 pages; 4 kernel pages and 2 sizes of blocks; 3 PCBs | parents live, waits end for a reason, nothing stops the kernel but a full table and an exit inside an exit, alarm pointers are owned; frame counts are exact and private memory stays private; the heap's blocks are disjoint and its counts right; no floating-point state leaks |
| `file_system` | 2 tasks, 3 devices, 9 inode slots, 3 files; 2 files of up to 7 characters on 11 blocks; 3 tasks on 2 inodes | reference and link counts are exact, mounts consistent, `pwd` names the working directory, only full tables stop the kernel; files do not see each other's blocks; an inode has one slot |
| `disks` | 2 tasks on IDE, 2-sector requests, late interrupts, failures, timeouts and resets together with every call; 2 on a floppy, 3 cylinders of 2 sectors, requests inside a cylinder, across the end of one in two lengths, and up to the end of the disk | PIO that reports success has moved its sectors, UDMA has where nothing is late, fails or is an IDENTIFY; the controller is freed; what is asked of one cylinder of the floppy is done exactly |
| `network` | 5 packet buffers, one host on the net and one beyond the gateway, rings of 2 | packet buffers are owned by exactly who counts them; packets leave unless the transmit ring was filled |
| `fpu_keeps`, `floppy_motor` | two tasks each | violations, section 5 |
| `exit_twice` | the process calls of `processes` | violation, section 5 |

**Bounds.** Three tasks are the least with which one can be starved while two others take turns, and with which a third party comes between a task
that wakes and a task that is woken; two buffers for three tasks make every one of them wait; a ring
shorter than a request makes both ends of a pipe sleep in the middle of a call;
delays of 0 and 2 ticks put timers in front of, behind and beside one another, and 0
is the timer that is due in the very next interrupt. Four slots hold a parent, a child, a grandchild and an heir that
becomes the parent of orphans; three open files let three signals be delivered inside one exit. With two sectors to a cylinder and three cylinders, a request can be inside a
cylinder, across its end, and up to the end of the disk. A transmit ring of two descriptors can be half full, full, and wrap. With blocks of two indexes the seventh character of a
file is behind a double indirect block; a video memory of two pages wraps after two lines.

Named bounds: `MaxRepeat` (nesting of a lock), `MaxHeld` (references of a task), `Total` (bytes through a
pipe), `Numbers` (characters typed, modulo more than the ring holds), `MaxFrames` (nested handlers), `Handled`,
`MaxSize` (of a file), `Bufs` (packet buffers), `ArgMax`, `Requests`. `Calls`, `Plans`, `Scopes`, `IdeScenes` and
`Traffic` are sets of small programs: a behaviour makes the calls of one of them, in any order and as often as it likes,
so that every pair of groups that touch the same state meets without all of them multiplying.

**What is switched off.** Where the code fails in a way that would end every interesting behaviour, or that drowns the
property, a constant names the case and the run leaves it out; section 5 says what happens with it.
`Careless`: "alarm" (fork with an alarm set). `Reckless`:
"tables", "kernel", "shared" (three ways around copy on write). `Misuse`: "mount" (mounting twice, unmounting what
is in use or not mounted, formatting what is mounted), "hole" (a gap in a file), "index" (to go on after an index block was made of a block with old
data in it; such a write is made, but nothing after it, and `FilesIndependent` and `BlocksOwnedOnce` speak up to there). `Lossy`: "coalesce" (one interrupt for two packets sent), "overrun" (a
descriptor used again before its interrupt), "query" (a new ARP entry with junk in its query time), "cause" (an interrupt with a cause the handler does not
know). `MaxHeld` is 1.

**Fairness.** `Scheduler`: the clock interrupt goes on and the idle loop runs after its `hlt`; nothing is
assumed of tasks. `LockOnScheduler`: the same, and kernel code runs on to its next `schedule()`; the clock interrupt, which
is held back while it does, stays in the PIC, so that it is taken if interrupts are on again and again (strong fairness). `Lock`: a task that is not asleep runs, and a holder leaves
the lock, however its calls are nested; nobody has to come back. `Elevator`: a woken task runs and the drive answers.
`Pipe`: a woken task runs and the reader keeps reading; writers need not write. `IdeDisk`: an interrupt that is pending is
taken (it stays in the PIC until interrupts are on again), a task that is awake goes on, and either the drive works or the clock ends the
wait. `Network`: the threads, the interrupt, the card's sending and the clock go on; nothing is assumed of what arrives. That the threads go on is a condition of
`PacketsLeave` and not what the scheduler promises of every task (`StarvedFromBehind`). The other specifications have none and check safety only.

**Deadlock** is checked except where the system may stop. `streams` stops when `Total` bytes are written and read, or with its reader asleep: a pipe
has no end of file. `processes`, `file_system`, `disks` and `network`, and the violation runs on `Devices` and `Processes`, stop where an assertion, panic or `hang` stops the kernel (`halt`),
when every task is gone, or when the next step has no packet buffer or room left.

## 5. Findings

* **The floating-point environment is lost from the second turn on** (`fpu_keeps`): a reload (`kernel/fpu.c:77`) does
  not set the flag that a later save tests and clears (69), so what the task computed since is dropped.
* **The motor stops under a call** (`floppy_motor`): the comment at `kernel/floppy.c:28` says the motor is closed when the
  disk has not been used for the time of the timer. `fd_motor_on` (228-242) leaves a running timer alone, so the timer of
  the last call may ring during the next one.
* **An exit inside an exit** (`exit_twice`): the `close` calls of `task_exit` (`kernel/task.c:585`) deliver pending signals; a second fatal one enters
  `task_exit` with the state TASK_DIED and the assertion at 551 stops the kernel. A handled signal with a lower number leaves a fatal one pending as well, while its handler runs in
  user mode; an exit from there ends the same way.

Seen with TLC on other instances, with a switch of section 4 on, or while translating:

*Scheduler, lock, queue, cache, pipe, FPU.*

* `task_search` takes the later of two ready tasks when it has more ticks left or ran less recently (`kernel/task.c:136`): two tasks in later slots
  can alternate for ever while a third one in front of them stays ready. TLC finds it in the run `lock_on_scheduler` for a property that says every ready task is run; `StarvedFromBehind` is what
  holds. It holds as well for `Scheduler` alone with three user tasks, where they also wait, sleep and kill each other.
* The comment at `kernel/mutex.c:59` says the yield after a release makes sure that the woken task gets the mutex.
  `task_search` may run a third task, which takes it first.
* `bwrite` clears `dirty` after it has slept (`kernel/buffer.c:188`), also when another user has modified the buffer since.
* With `MaxHeld = 2` two tasks can wait for each other's buffers for ever. Once a task had to wait in `get_free_buffer`, `getblk` may
  give its block two buffers, as it does not search again; `OneBufferPerBlock` leaves those blocks out.
* Two tasks that go on asking for one sector keep the arm there and starve a third; `Served` leaves this case out.
* Two readers of a pipe stop the kernel (`fs/pipe.c:25`). A reader asleep when the last writer closes is never woken.
* `task_fork` copies the FPU area without saving the unit first (`kernel/task.c:450`), so that the child begins with an older state of its parent.
* `fpu_enable` restores nothing if `last_fpu_task` is the running task (`kernel/fpu.c:57-58`); `task_exit` does not reset `last_fpu_task`, and a new task in the page of
  a dead one passes for the last user and computes with the dead one's registers. `NoLeak` says that this, with the children of such a task, is the only way.

*Processes and memory.*

* A child copies the alarm pointer and pending signals of its parent (434). `iput` in
  `task_exit` may sleep and overwrite TASK_DIED (576). `task_waitpid` is not ended by a signal. `task_signal` never applies the mask of the action.
* A handled signal that `close` delivers inside `task_exit` pushes its frame on a user stack whose pages are gone (`kernel/task.c:562`, `signal.c:157-192`).
* An access to an unmapped user page panics (`kernel/memory.c:762`); a MAP_SHARED page written after a fork asserts (744); `link_page` and `unlink_page`
  write into a page table that is still shared (412, 444); CR0.WP is not set, so the kernel's stores bypass copy on write; `get_page` does
  not clear frames; `mapping_init` does not lower `free_pages` (282); the multiboot path compares types wrongly (64, 104).
* `sys_execve` that fails after the break was set has lost the old program (454-460); a count of 0 reads `argv[-1]` (380); the loop of `load_elf`
  skips its increment on `continue` (311).

*File system.*

* A failing `umount` runs the clean-up of a successful one (`fs/super.c:256`); mounting a device twice loses the first; `mkfs` of a mounted
  device is allowed; `umount` of a directory nothing is mounted on follows a null pointer (243); mounting an unformatted device asserts (97); `get_free_inode` keeps a stale `mount`.
* `ialloc` asserts on the last inode (`fs/bmap.c:90`); a full disk panics (23); `bfree` and `ifree` look at the wrong block at a boundary (54, 114); index blocks are
  not cleared (190), so that old data are taken for block numbers; a hole is read with an assertion (`fs/inode.c:241`).
* `unlink` of an open file frees its number (`fs/namei.c:623`); of a device node it leaves `zone[0]` (`fs/inode.c:384`); `mkfs` does not clear the inode table (`fs/super.c:396`).
* `iget` publishes a slot before it is read (`fs/inode.c:155`): another task may get it without a descriptor.

*Drivers and network.*

* IDE: misplaced parentheses hide errors (`kernel/ide.c:416`, 524, 558); a waiter that timed out stays in `ctrl->waiter` and trips an assertion in `task_unblock` when
  it is off to another wait (165); UDMA returns EOK after a late interrupt, a time-out or with ERR set (523-533, 557-567), and `TransferDone` speaks of UDMA only where there are none; `ide_busy_wait` may spin (240); IDENTIFY leaves an
  interrupt pending; the probe returns a positive EIO (592).
* Floppy: the comment at `kernel/floppy.c:334` says an outer layer makes up for a transfer that is cut at the end of the cylinder. The loops of
  `fd_read` and `fd_write` (404-410) repeat the same `buf` and `count`, and their `u8 left` runs below zero: a call across the end returns well without its work.
  `fd->timer` dangles after the exit of the task that added it, and the next call puts the freed timer into `timer_list` again (267), which frees it twice; a request
  that ends with the last sector fails an assertion (398, 420: `<` for `<=`); `fd_read` returns a number of sectors, so that `bread` and `bwrite` of a floppy fail theirs (`kernel/buffer.c:169`).
* Network: the handler takes an interrupt for one packet sent (`kernel/e1000.c:334-344`) and frees the buffer of the descriptor before TDH only, so that of two packets under one interrupt the first is not freed.
  `send_packet` fills the last free descriptor as well (`kernel/e1000.c:313-314`); tail and head are then equal, the card takes the ring for empty, sends no more, and the next
  sender sleeps for an interrupt that does not come. `PacketsLeave` excepts this; without the exception TLC finds it with two descriptors. The handler hangs on a cause it does not know (388-394), and two
  such, RXSEQ and TXD_LOW, are enabled (542-543). A descriptor may be used again before its interrupt (292, 341);
  `entry->query` is not initialised (`net/arp.c:41`), and a packet waits for as long as what the memory held lies in the future; an entry whose `used` is 0 drops packets (264); the multicast test has a precedence error (`net/addr.c:92`).
* Console: the escape state is left by `[` only (`kernel/console.c:303`); 16 arguments swallow what follows (337); `delete_line` copies every other line (449);
  `insert_char` writes the low byte only (522). `Screen` says nothing of the lines that come up in `delete_line`.
* Lines: Ctrl-C does not wake a blocked reader (`kernel/keyboard.c:398`); `keyboard_ack` drops scan codes (266); `serial_write` spins (133). Sound card: ioctl ON resets without the lock (`kernel/sb16.c:156`);
  `isa_dma_size` tests `size >= 1` (`kernel/isa.c:172`).

## 6. Proofs

Every theorem is about a whole specification, `Spec => []Inv`, `Spec => [][A]_vars` or `Spec => Abstract!Spec`, for every
value of the constants that its module's `ASSUME` allows; where a theorem needs more than that, the hypothesis is in its statement and below.
Of the 40 properties of the passing runs 25 are theorems as well. A theorem marked * states a part of an inductive invariant that no run repeats.

| module | theorem | says | from |
|---|---|---|---|
| `LockProofs` | `TypeCorrect`*, `Exclusion`, `QueueIsExact`*, `WakeupsArrive` | types, `MutualExclusion`, `QueueExact`, `NoLostWakeup` | `LockAssumption` |
| `SchedulerProofs` | `TimeoutsOwned` | `TimeoutOwned` | `SchedAssumption` |
| | `LockIsLock` | `ImplementsLock` | and `NoneAssumption` |
| `ElevatorProofs` | `TypeCorrect`*, `ListIsExact`*, `DriveHandedOn`, `ServedInOrder`, `Refinement` | types, `ListExact`, `OneHasDrive`, `ElevatorOrder`, `ImplementsBlockDevice` | `ElevatorAssumption` |
| `BufferCacheProofs` | `NoWakeupLost`, `BlockHasOneBuffer`, `FreeListIsExact`*, `LastModificationSeen` | `WakeupPerBuffer`, `OneBufferPerBlock`, `FreeExact`, `SeesLatest` | `BufferCacheAssumption` |
| `StreamsProofs` | `PipeSleepers` | `SleepsForAReason` | `FifoAssumption`, `PipeAssumption` |
| | `PipeIsChannel` | `ImplementsChannel` | and at most one writer |
| | `PipeNeverPanics`* | no assertion of the pipe fails | and at most one reader |
| | `ReadersSleepForKeys` | `SleepsForKeys` | `FifoAssumption`, `LineAssumption` |
| `ProcessesProofs` | `NothingLeaks` | `NoLeak` | `FpuAssumption` |
| | `ParentsStay`, `WaitersHaveReason`, `AlarmsAreOwned`, `PanicsKnown` | `ParentsLive`, `WaitsForAReason`, `AlarmsOwned`, `StopsKnown` | `ProcAssumption`, and `"alarm" \notin Careless` |
| | `HeapStaysSound` | `HeapSound` | `HeapAssumption` |
| | `FramesStayCounted` | `FramesCounted` | `MemoryAssumption`, and `"tables" \notin Reckless` |
| | `MemoryStaysPrivate` | `MemoryPrivate` | and `"kernel" \notin Reckless` |
| `FileSystemProofs` | `InodeHasOneSlot` | `OneSlotPerInode` | `InodeTableAssumption` |
| `DevicesProofs` | `TransfersDone` | `TransferDone` | `IdeAssumption` |
| | `FloppyIsExact` | `FloppyExact` | `FdAssumption` |
| | `PbufsAreOwned` | `PbufsOwned` | `NetAssumption`, and `"overrun"`, `"cause"` not in `Lossy` |

**The assumptions.** Most say that a constant has its type and that the value for "nobody" is nobody. The others:
`FifoAssumption` (a ring of at least two cells; one would always be both empty and full), `IsFiniteSet` of the tasks, users or pages where something is
counted, and `FdAssumption` (a request has 1 to 255 sectors, anywhere). `MemoryAssumption` is the layout of user space: pages are
numbered, the program and its heap come before the areas of mmap, and these before the stack. `NetAssumption`: packets are numbered from 1, as 0 is a
descriptor without one; there are enough to fill the receive ring, a ring has a descriptor, and the gateway is a host of the net. The hypotheses of single theorems are there for the
same reason: two writers interleave their bytes, so that what is read is a shuffle and not the channel; a second reader of an empty pipe takes
the byte the first was woken for and stops the kernel; a child that copies an alarm has a pointer to its parent's timer; a page linked or unlinked in a page table that is still shared appears in, or
goes from, both tasks; a store of the kernel into a page that is still shared reaches the other task as well; a packet is lost when its descriptor
is used again before its interrupt; and the kernel hangs on a cause it does not know. Some limits are in the properties: `NoLeak` says nothing of tasks made in the page of `last_fpu_task` and of
their descendants (`haunted`), `TransferDone` nothing of UDMA where something is late, fails or is an IDENTIFY, `FloppyExact` nothing of requests across a cylinder. Each of these
is a finding of section 5, and the hypotheses are what the runs of section 4 have as well.

**The arguments.** Few of the properties are inductive.

* *Lock.* `value - 1` stays in {0, 1} only because a task in the lock implies `value = 1`: `Ownership` is the types and `MutualExclusion` together.
  `NoLostWakeup` needs `QueueExact`: the task `mutex_unlock` wakes must have been asleep for its being "woken" to be news.
* *Scheduler.* `SchedInv` ties four representations of a wait to one another: a state that blocks, a node in a list, `task->timer`, an entry of
  `timer_list`. It needs that only the running task is RUNNING, so that a timeout never hits the task on the processor, and that idle never waits.
  `task_search` is used through its result only. For the refinement `HeldByOne` links value, holder and the places of the tasks.
* *Elevator.* The drive is handed on by position: that the task picked is another one, is inside `device_request` and is
  still waiting follows only from the list being exact and there being no second caller with the drive. `Sorted` is what `list_insert_sort` keeps, and
  with it a neighbour in the list is the next in the order; that the arm turns only at an end is `Turned`.
* *Buffer cache.* A buffer is free when its count is 0, so everything rests on the count being the number of references (`Counted`); `Basic` adds the lists and
  the calls under way. Then `WakesStep` counts woken tasks against free buffers, and `OneBuffer` is `OneBufferPerBlock` said of the buffers, as the hash table holds each once.
  `SoleOne` follows a block that one task uses from its buffer to the disk and back.
* *Pipe and lines.* First what `fifo_put` and `fifo_get` do to the sequence of bytes in the ring, wrap included (`Turns` is the arithmetic). The
  invariant `PipeInv` adds to `SleepsForAReason` that a waiter does sleep and that a call under way has bytes to go; with one writer a woken one finds room
  (`RoomForWoken`), with one reader a woken one finds a byte (`ByteForWoken`). A `Channel` step is the whole run of a call to its next sleep.
* *Floating-point unit.* `Owners`: the unit holds what its last user left, an area what its owner left, and a task that does not trap is the last user; what a dead task left is
  found only by a task that is haunted, which follows forks along with the environment they hand on.
* *Tasks.* `Good` is the invariant of the table between two calls: its shape (`IsTable`); parents live (`Parents`), form a tree
  (somebody older has a lower rank: without it a task could become its own parent when its father hands it on), and waiting parents have somebody to wait for (`Waiting`); alarms
  and timers name each other. It does not hold inside `task_exit`; `Exited` says what one as a whole does. Every call is a composition of pieces (`SlotKeeps`, `SignalKeeps`,
  `ReturnKeeps`, `SwitchKeeps`, ...), each with a lemma.
* *Heap.* `Heaped` counts the free blocks of each page, so that a page is given back only when all its blocks are free, and then none of them is
  handed out or left on a free list. `Without`, which takes the blocks of a page off their list, is a recursive function over positions; what is
  needed of it follows by a least counterexample (`KeptExists`, `WithoutFacts`).
* *Memory.* `Sound` is about tables and frames: every entry leads to a frame that is set apart for its page (`IsMemory`, `InPlace`), so that who holds
  a frame is a set of tasks and the count its size (`Counted`); a free frame is clean; and a page table a task may write belongs to it alone (`Alone`).
  That a frame is free when one is needed is a pigeonhole argument (`FreeFrameFacts`). An operation changes what one task holds, and then the counts
  follow it (`OneTask`, `SoundAfter`). For `MemoryPrivate`, `Private` says that an entry which may be written is the only one of its frame, `Content` that a private page
  has what its task stored, and `Layout` that a page is there only below `brk`, in an area or on the stack: with it a new area or a grown heap has no old page in it.
* *Inode table.* `OneSlotPerInode` says that the count of a slot is the number of its holders, which is why nobody takes the slot of a task that sleeps; it is
  inductive with the types and with where a task that holds a slot is in its call.
* *IDE.* How far a call is and how far the drive is, each in terms of the other, for each kind of wait; a timeout or failure cuts them apart, and a PIO call then does
  not return EOK; a UDMA call is followed in behaviours without them (`Sure`).
* *Floppy.* `FdInv` follows the one call under `fd->lock`; the controller never works for anybody but `fd->waiter`, so that nothing touches the DMA
  buffer between copy and transfer. A request inside a cylinder is one piece, and its count of what is left reaches 0 at once, as 255 sectors fit the `u8`.
* *Network.* The count of a packet less the places it is in (rings, queues, entries of the ARP cache, `out`) is `Lent`: how often it is in the hands of the
  thread that works on it. `NetMoves(s, e, b, n)` says that an operator lends `b` n times more and touches nothing else of what threads share; there is such a
  lemma for each operator, from `PbufGet` (+1) to `ArpEthOutput` (-1), and they compose (`MovesTwice`). Between steps nothing is lent and no count is
  above 1 (`Balanced`): that no packet is shared is what `arp_entry_put` and `send_packet` assert. `Rings` adds that a descriptor
  which is not done has a packet, and that the one an interrupt is about is sent and not yet freed. Neither "coalesce" nor "query" is excluded: with the first a packet
  stays in its descriptor for good (section 5), but nobody else has it.

**Only model-checked.**

* Liveness (`TimedWaitEnds`, `StarvedFromBehind`, `HandedOn`, `Served`, `Delivered`, `ControllerFreed`, `PacketsLeave`): fairness and ENABLED are out of the prover's reach.
* `FilesIndependent`, `BlocksOwnedOnce`, `CountsExact`, `LinksExact`, `MountsConsistent`, `CwdNamed`,
  `OnlyFullStops` and `ImplementsScreen`. Their models fold over sequences and sets (a whole table is copied, a path walked in one step); what such a fold
  computes for every input is an induction over data.

## 7. Not modelled, and what is left to prove

Not modelled: the RAM disk (copies without a sleep or a failure); the sound card (one lock and one waiter, the shape of
the floppy driver); boot, descriptor tables, PCI, CPU identification and clock chips (straight-line set-up before there are tasks);
the C library, shell and user programs (sequential, without shared state). Within modelled parts: checking of ELF headers and the layout of `argv`;
probing of drives and partition tables; the byte handshake of the floppy controller; ioctl, times and `stat`; tables of scan codes and serial output; checksums
and addresses of the network; attributes of the console.

Worth proving next, each once its folds are written as functions of the whole sequence or set: `BlocksOwnedOnce` and
`FilesIndependent` of `FileBlocks`, the counts of `FileTree`.
