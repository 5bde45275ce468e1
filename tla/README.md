# A verification of spovm4_labs

This directory holds TLA+ models of the programs in this repository, the TLC
configurations that check them on small instances, and proofs, checked by
TLAPS, of what matters most about them for every instance.

The repository is a set of seven independent programs ("labs") in C. They share
no code and never run together, so there is no model that composes all of them;
within a lab the components interact and their modules are composed.

## Inventory

| Part | State | Operations | Interaction | Hard parts |
|---|---|---|---|---|
| lab1, fork and wait | none | start a child, wait for it | `fork`, `exec`, `wait` | none to speak of |
| lab2, process manager | the stack of children and the name counter in the parent (Linux) or in a manager process (Windows); a semaphore, or events | `+`, `-`, `t`, `q`; a child prints, passes the turn on, ends | SysV semaphore and SIGTERM (Linux); events of main, manager and children (Windows) | a child killed while it waits for the turn, has it or passes it on; waits without a limit |
| lab3, messenger | one shared buffer and two semaphores (Linux); two pipes, two semaphores, two events (Windows) | `initialize`, `establishConnection`, `sendMessage`, the receiver's loop, `ctrlCHandler` | two parties started in any order, each with a receiver process | a semaphore with two meanings, what one conversation leaves for the next, messages overwritten |
| lab4, ring | a circular doubly linked list | `add`, `remove`, `next`, `previous`, `data` | used by the manager for its children | neighbours that coincide |
| lab4, queue | a singly linked list | `offer`, `poll`, `erase`, `empty` | used as the manager's mailbox | `offer` moves its caller's pointer |
| lab4, thread manager | ring of children, `current_child`, the pause flags, the name counter | commands `+ - p q x` | takes commands from a queue under a mutex and a condition variable; wakes children through theirs | everything: interleavings, cancellation, SIGINT, dangling pointers |
| lab4, child | its message, the letters printed | sleep, print, report `x` | condition variable; `pthread_cancel` | killed asleep, printing or reporting |
| lab4, main | the command typed | `send_tm`, `print_current_child`, `kill_tm` | SIGINT interrupts it with locks held | self-deadlock |
| lab5, zox_aio context | tasks, expected size of the target | `initialize_context`, `add_task`, `get_task_progress`, `destroy_context` | called by several threads | identifiers, unlocked polling, destruction |
| lab5, task | offsets, one aiocb, one buffer, buffers written | `create_task`, `calculate_task_progress`, `delete_task` | shared by reader, writer, callbacks and main without a lock | one operation at a time; empty, short and binary files |
| lab5, executors | a queue of notifications | `notify_executor`, `kill_executor`, `reader_job`, `writer_job` | threads; notified by callbacks of the system | order of notifications, death |
| lab6, heap | the bytes of a mapped file, in blocks with end markers | `malloc`, `free`, `realloc`, `_close` | sequential; clients write into their blocks | sizes off by a marker, a split that overwrites the next block, no record of the blocks but the bytes |
| lab7, file system | clusters in memory and in the image file: directories, files, empty ones; the working directory | `mkdir`, `cd`, `rm`, `load`, `extract`, `mv`, `cp`, `free` | sequential; every cluster is written by itself | a kill between two writes, sizes at a cluster's boundary, the union of file and directory, paths compared as text |
| lab7, shell | none | reads commands and calls the file system | | |

`PROJECT.json` lists the components with the files they consist of, and the
hazards of this code at their lines. What makes each component correct:

* **ring**: the elements form one cycle in both directions, and going around it
  meets what was added in the order in which it was added.
* **queue**: what `poll` returns is a function of the calls made, and no element
  that was freed is followed.
* **process manager**: the turn to print is never lost and never multiplied but
  in known cases, a child that is told to end does, printing goes on, and the
  counter of names is that of the youngest child.
* **messenger**: each party sees what the other one typed, all of it, once and in
  order; connections are made; nothing is left behind for the next conversation.
* **thread manager and children**: one child prints at a time, the turn is never
  lost nor doubled, the manager never sleeps on a command, a killed child dies,
  quitting ends the program, no dangling pointer is followed.
* **zox_aio**: every file is copied, completely and only, into its own place;
  nobody touches a task that another operation is using; the tasks are freed
  after the last use; the program ends.
* **heap**: the blocks cover the heap without gaps and the used ones are what
  clients hold; what was written into a block stays until it is freed; free
  blocks are joined.
* **file system**: directories form a tree, every cluster belongs to one file or
  directory, what was loaded is read back, a finished command is on disk, and a
  cut one loses nothing it was not told to remove.

## The modules

| Module | What it is | Source |
|---|---|---|
| `RingSpec` | abstract: the ring as a cyclic sequence | `lab4/src/ring` |
| `Ring` | the ring's pointers and addresses | `lab4/src/ring/ring.c` |
| `QueueSpec` | abstract: the queue as a sequence of at most two | `lab4/src/queue` |
| `Queue` | the queue's pointers | `lab4/src/queue/queue.c` |
| `Containers` | ring and queue on one heap | both |
| `ThreadManager` | manager, children and main; uses `RingSpec` and `QueueSpec` for its containers | `lab4/src/tm`, `child`, `main.c` |
| `Concat` | abstract: concatenation of files into a target | `lab5/src/zox_aio/zox_aio.h` |
| `ZoxAio` | the library, the system's asynchronous I/O and the program | `lab5/src` |
| `FileSystem` | the clusters, the image file and the commands on them | `lab7/src/zox-fs`, `repl.c` |
| `Heap` | the heap's bytes, its clients and their calls | `lab6/src/zox-mem`, `main.c` |
| `ChildrenLin` | parent, children and semaphore | `lab2/src/lin`, `stack` |
| `ChildrenWin` | main, manager, children and their events | `lab2/src/win`, `stack` |
| `ProcessManager` | the program over either half | `lab2/src/main.c`, `interface.h` |
| `Chat` | abstract: what two parties type and see | `lab3/src/messager.h` |
| `MessagerLin` | parties, receivers, semaphores, shared memory | `lab3/src/lin` |
| `MessagerWin` | parties, listeners, pipes, semaphores, events | `lab3/src/win` |
| `Messager` | the program over either half | `lab3/src/messager.c` |
| `MCContainers`, `MCThreadManager`, `MCZoxAio`, `MCFileSystem` | symmetries and constants for TLC | |
| `ContainersProofs`, `ThreadManagerProofs`, `ProcessManagerProofs`, `ZoxAioProofs`, `MessagerProofs`, `FileSystemProofs`, `HeapProofs` | the theorems | |
| `Iteration` | lemmas for proofs about functions defined by recursion up to a bound | |

Definitions that are preceded by "Not the code" are mutants: plausible mistakes
in the definition that follows them, used to show that each property can fail.
They are part of no specification.

### Ring, Queue, Containers

An address (`Cell`) is what `malloc` returns: any address that is not in use,
so that one that was freed is soon used again, by the other container too.
Freeing forgets the fields. `add` is `Add`, `remove` is `Remove`, and so on; one
call is one step, the containers have no locks and are only called by one
thread at a time. `Ring!Abstract` maps the pointers to the sequence met by
walking around once; `Queue!Abstract` maps them to the data met from the head.

The queue is not a FIFO queue. `offer` looks for the last element by advancing
the pointer of its caller (`queue.c:13`), so that only the last element and the
new one are left: the abstract queue is `Offered(q, d) = <<Last(q), d>>`. The
lost elements stay allocated. This matters to the thread manager, whose model
uses exactly that operator.

### ThreadManager

| Model | Code |
|---|---|
| `ring`, last element | the ring `top_child` points to; `top_child` itself |
| `current_child` | `current_child`, which may be off the ring |
| `tm_data` | the command queue |
| `tmPC` | the manager: `get`, `wait` in `getData`; a command: that case of the switch; `wake`, `wakeSignal` in `wake_child`; `send` in `send_tm`; `killSignal`, `join` in `kill_child` |
| `mainPC`, `mainCmd`, `held` | main: `lock`, `offer`, `signal` in `send_tm`; `infoLock`, `infoUnlock` in `print_current_child`; `join` in `kill_tm` |
| `handler` | whether `preDestroy` runs as the handler of SIGINT |
| `childPC`, `message`, `letter` | a child's thread and the fields of its `child_thread_t` |
| `cancelled`, `cancelDisabled` | the cancellation state of its thread |
| `hist` | a history variable: which of the hazards has happened |

A critical section is one step except where main can be interrupted in it: the
handler of SIGINT runs on top of main and finds the mutex locked by the thread
it runs in. Signals of condition variables are steps of their own because the
code sends them after it has released the mutex (`tm.c:39-40`). A child can be
anywhere when `kill_child` reaches it: asleep (message and signal), printing
(cancellation) or reporting.

The child, the ring element and the thread are one value of `Node`; `Node` bounds
how many children exist at once, and the creation that finds no memory
(`T_AddNoMemory`) and the one whose thread cannot be created (`T_CreateFails`)
are steps of the model. Following the ring element that case `-` freed either
crashes or finds what was there before (`T_ChildSignal`).

Assumed: SIGINT is delivered to the main thread; POSIX condition variables wake
only on signals (the code loops, so spurious wake-ups change nothing).

### ZoxAio

One action for each piece of code between two points at which other threads can
tell the difference: `add_task` is `A_Create`, `A_Append`, `A_Notify`,
`A_Return`; `reader_job` is `R_Count` and then `R_Read` or `R_Finish` (main
polls the two numbers it changes without a lock); `writer_job` is `W_Write`;
`get_task_progress` is `M_Poll` and `M_Progress`, because it reads
`buffers_written` twice and `aio_nbytes` after that. `aio_read` and `aio_write` are
accepted or refused (`Submit`; nobody notices), executed in any order (`IO_Read`,
`IO_Write`), and completed by a callback in a thread of its own (`IO_Callback`).

A byte of file `f` is the pair `<<f, i>>`, so that the target shows whose bytes
went where. `HOLE` is the `'\0'` of `memset` and of a hole in a file. Files are
texts, without `'\0'`, unless `Zeros` says which bytes are.

`Promise` maps the library to `Concat`: a byte has arrived when the write it was
part of was executed.

### FileSystem

`fs` is the array `context->_fs`, `disk` the image file. A command changes memory
in one action (`Mkdir`, `Mv`) or in several (`Rm` and one `RmStep` per leaf; `Load`,
`LoadCreate` and one `LoadPart` per block; `Cp` and one `CpStep` per block), and
leaves the calls of `flush_cluster` it makes in `writes`, in the order of the
code; `Flush` performs one. The process is one thread, so memory need not change
more finely; what a kill can separate are the writes, and each is one `fwrite` of
a whole stdio buffer. `Restart` is the kill (or `exit`) and the next run. A
refused command changes nothing and has no step.

A cluster is a record. A directory and a file overlap in the union of `cluster.h`,
and the record keeps that: `used` is `bytes_used` or `subnodes_count`, `next` is
`next_cluster` or `subnodes[0]`. This matters because `fsize`, `cp`, `extract` and
`load` do not look at the type: copying a directory copies its first entry's
blocks, or follows an old `next` for ever (`hung`). The data of a block is the
host file and the number of the block.

Three things in the handling of paths have no defined outcome, or one that
depends on the spelling: a `strcpy` onto itself that changes letters of absolute
paths, a directory name that is not terminated, and redundant slashes that make
the comparisons of texts miss. They are choices, which the constant `Variants`
switches on. Where a command then leaves something that is no tree, or writes
into a file as if it were a directory, `process` says so (`removed`, `cycle`,
`intoFile`) and the model stops; it also stops (`torn`) when a kill left an image
that is not well formed. Most commands leave such an image between their
writes; the properties say what holds of it.

### Heap

`heap` is the code's array of bytes, at the code's offsets: a mark, the data, an
end marker of four bytes, and so on. A block has no header; everything is found
by searching for end markers (`Ends`), so the functions of `heap_block.c` are
operators on the bytes and each call of `malloc`, `free` or `realloc` is one step that
makes new bytes of the old ones. The client writes its letter all over a block
when it gets it, as `main.c` does, and remembers what it holds in `live`; the letter
may be that of the free mark. A search that finds no marker leaves the mapping
and crashes.

Three calls are beyond what the code can handle, and `hist` names them: a split
of a block that is exactly as long as the comparison asks for (`tight`,
`heap_block.c:94`), an extension of the last block to fewer bytes than it has
(`shrunk`, `zox-mem.c:67`), and a `realloc` that cuts (`realloc`, `zox-mem.c:120`). The
properties say nothing about what follows them, and without each exclusion TLC
finds a counterexample.

### ChildrenLin, ChildrenWin, ProcessManager

The build of lab2 takes one of two implementations of `interface.h`; `os` is that
choice, and the half that is not built stands still.

On Linux, the children take turns on a semaphore. `-` is three steps, `LSignal`
(pop and `kill`), `LTerminated` or `LKillHandler` in the child, and `LReaped`
(`waitpid` returns, the counter goes down); `q` repeats them for all. The handler
wants to release the semaphore only if the signal did not interrupt `semop`, but
it looks at `errno` before the library has set it, so it always releases: a child
killed while it waits makes a turn out of nothing, which `lSpurious` counts. Ctrl-C
ends the whole process group and leaves the semaphore behind as it is.

On Windows, a manager process owns the stack and waits for the events of main
and of the children; `Signalled` and `WTurn` give the order in which
`WaitForMultipleObjects` looks at them. The turn goes from a child to the one below
it: event `work`, the line, reset, event `done`. `Turns` collects where it can be.
`currentWorkingChild` may point to an element that was freed (`DANGLING`), which
`malloc` may hand out again (`WCreated`; `reused`), and a child may look for its
events before the manager has created them (`raced`).

### Chat, MessagerLin, MessagerWin, Messager

`Chat` is the promise: `sent` and `shown` are sequences of messages of the two parties,
and what is shown next is what the other one sent next. Both halves carry these
two variables along and their steps are steps of `Chat` (`ImplementsChat`), with the
identity as the mapping: what is shown is read out of the shared buffer or the
pipe, not out of `sent`.

On Linux a message is copied into shared memory (`LCopy` begins and `LCopied` ends
the `strcpy`; in between the buffer is `TORN`) and a token put into the semaphore of
the other receiver, which prints what it then finds. The same semaphores carry
the handshake. They outlive the program, and so may the shared memory, so that
the second conversation of the run starts from what the first one left.

On Windows each party owns a pipe and an event; its listener is a program of its
own. The sender waits for the answer to each message.

The model stops at what the code is not made for; `lHist` and `wHist` name it:
`stolen` (a receiver takes the token of the handshake), `rushed` (a message is typed
before the last one was printed), `deaf` (a listener looks for the event of the
other party before it exists), `broken` (a party ends or comes back in the middle
of a conversation). Each of these leads to a lost or torn message or to a party
that waits for ever.

## The runs

All run with `tlc -workers 2 -config X.cfg M` in less than four minutes. Deadlock
is not checked: the containers may run out of memory, the programs end, and the
hangs that exist are what the liveness properties are about.

| Run | Shows | Bounds |
|---|---|---|
| `containers` | types, `Linked`, both refinements | 5 addresses, 2 values: rings of 1 to 5 elements, queues that lose elements, addresses that move between the two |
| `tm_safety` | `NoLostWakeup`, `OneTurn`, `InfoNamesRunner`, `CrashCause`, `NamesInOrder` | 3 children, 1 letter, 5 typed commands, names from 'a' to 'c', SIGINT at any time |
| `tm_liveness` | `KillCompletes`, `ShutdownCompletes`, `TurnComesRound` | 2 children, 3 commands |
| `tm_quit` (violation) | `q` can be lost and the program then hangs, against `main.c:101` | 2 children, 4 commands |
| `aio` | `OneOperation`, `FreedWhenCopied`, `Finishes`, the refinement of `Concat` | 2 files of 0, 3 or 4 bytes, buffers of 2, 2 clients |
| `aio_ids` (violation) | two clients get the same identifier, against `zox_aio_context.h:18` | 2 files, 2 clients |
| `aio_binary` (violation) | a file that starts with a zero byte is written outside its place, against `zox_aio.h:28` | 2 files of 2 bytes |
| `fs` | `TreeIsSound`, `Durable`, `NothingLost`, `FilesReadBack`, `TextGuardsSuffice`, `SpaceCheckCovers` | 5 clusters, blocks of 4 bytes, host files of 1, 4 and 6 bytes, names `a` and `ab`, 2 names per path, 4 changing commands, any number of kills, misread and stray paths |
| `fs_inside` (violation) | `rm /a/` removes the directory the user is in, against the scenario of `main.c:13` | 4 clusters, 3 commands, redundant slashes |
| `heap` | `BlocksTile`, `Kept`, `FreeJoins`, `NeverShrinks` | 7 calls, sizes 1 and 5 (and 0 for `realloc`), one letter that is the free mark and one that is not |
| `processes` | `TurnsAccounted`, `SymbolNamesTop`, `OneTurnWin`, `KillsReturn`, `PrintingGoesOn` | Linux: 3 children at once, 3 kills in a session, an alphabet of 2, any number of sessions; Windows: 4 processes, 3 handles beyond the commands, 4 keys |
| `messenger` | `TokensAccounted`, `ChatGoesOn`, the refinement of `Chat` | 2 messages, 3 sends per party, 2 starts per party |

Three more disagreements between code and comments were met and have no run of
their own: `remove` does not make the next element of the ring current
(`ring.h:20`, `ring.c:35`); a pause can be continued while a child prints (`tm.c:138`,
`tm.c:149`); and `load` may fail with as many bytes as `free` shows (`repl.c:140`), which
`SpaceCheckCovers` has as its exception.

Why the bounds are enough: three children are the smallest ring in which next
and previous differ; the queue of the manager holds two commands whatever is
typed, so five commands fill, drop, pause, continue and remove; one letter is
enough because a child that prints is cancelled at the same point after each;
the name counter wraps after three names, as it does after 26 in the code. A
file of 3 bytes ends in a short buffer, one of 4 in a full one, one of 0 has
none. Five clusters hold the root and two files of two blocks, or two directories
and such a file, and run out with the third; of the names, one starts with the
other, which the comparisons of texts can tell from equality; the host files are
shorter than a block, a block, and longer; four commands make, fill, move or copy,
and remove.

Seven calls on the heap make three blocks, free two in either order, and take,
split, join, extend or cut one; a size of 5 is the smallest whose freed block can
be split for one of 1 with bytes to spare, and two adjacent blocks of 1 join
into one that is long enough too. With three children a kill finds one above,
one at and one below the turn; four keys make three children and kill one, or
make four and overfill the handles. Each party of the messenger can type when the
other one does and once more after an answer, and the second start finds what
the first left.

Fairness: every thread or process is scheduled (`WF`). In the thread manager, the
manager and the children also get a lock that is released again and again (`SF`):
main takes a lock only when a person has typed a key. In lab2 some child that waits
gets the semaphore when it is free (`WF` of the disjunction), but no given child need
ever: the code leaves the choice to the kernel. Nothing is assumed of the user,
who need not type, start the other party, or quit, and SIGINT need never come. In
`ZoxAio` every operation that was accepted is executed and called back.

The properties are stated with the conditions under which the code keeps them,
and `hist` records these: `removed` (case `-` took the current child off the
ring, which leaves `current_child` dangling and doubles the turn), `lost` (the
queue dropped an `x`), `failed` (a creation failed), `wrapped` (the names began
again). In `FileSystem`, `cut` records that a command was killed, and
`job.asTyped` that its paths were read as typed. Without such a condition TLC finds a counterexample in each case.

## What is proved

The proofs hold for every set of addresses, children, files, clients, clusters and
processes, any number of letters, bytes, typed commands, messages and starts; they use the
assumptions the modules state about their constants (`NULL` is no address and no
file, finitely many addresses and process identifiers, at least one letter, the last
letter is a character, an image of at least one cluster and blocks of at least one byte, a block
with no fewer bytes than a directory can have entries, no name is empty or has a slash, no client asks `malloc` for nothing, the marks of a torn
and of an empty buffer are no messages) and nothing else.

`ContainersProofs`
* `RingStaysLinked`: the invariant is `RingTypeOK /\ Linked` itself, which is
  inductive. For `OneCycle`, a set closed under `next` after a call is turned
  into one closed before it (without the new element, or with the removed one).
* `SharedHeapKeepsLinked`: the queue's calls leave the ring alone.
* `RingIsASequence` and `SharedHeapKeepsSequence`, the refinement of `RingSpec`: the
  invariant `OrderInv` adds to `RingInv` that some sequence lists the elements of the
  ring, each once, each one's `next` being the one after it, the last one's the first,
  and the last one `current` (`Order`). The walk of `Ring!Abstract` meets their data in
  that order (`Met`), so that each call need only say which sequence it leaves.
* `QueueHoldsTwo`, the refinement of `QueueSpec`: the invariant is that one or two cells
  can be reached from the head. `Typed` is inductive.

`ThreadManagerProofs`
* `TypeCorrect`: the type invariant is inductive; the part that needs an argument
  is that the queue never holds more than two commands.
* `OneTurnOnly`, `InfoIsTrue`: `OneTurn` is not inductive, it does not say where the
  turn may go. `TurnInv` adds who holds it (`HolderInv`: a child that is woken,
  printing or reporting is `current_child`), that the places of the turn exclude
  each other (`TokenInv`), and that `current_child` is on the ring exactly when there
  is one (`RingInv`). All three are conditional on `removed` not having happened.
  One lemma per thread shows that its steps keep them.
* `NoWakeupLost`: inductive together with the types.
* `NamesStayInOrder`: `NameInv` adds to the order of the names what the next name is
  (one after the youngest child's, counting a child that is being killed) and
  that a child being killed has left the ring.
* `CrashesExplained`: the code checks few pointers, so that it does not crash is a
  fact about all of them. `PointerInv` says that the elements of the ring differ
  and exist, that a child being killed is off the ring, that the manager only
  quits when told to, and that main holds a lock on `current_child` only where there
  is one. With `TurnInv` it is inductive.

`ProcessManagerProofs`
* `TurnsNeverLost` and `OneAtATime`, on Linux: `TurnInv` adds to `TurnsAccounted` that every
  child is on the stack or being waited for (`Offspring`: a pid given out again is
  that of no child which prints) and that the semaphore exists in a session
  (`SemLives`). The count of the children that print changes with the cardinality
  lemmas of `FiniteSetTheorems`.
* `SymbolIsTheYoungest`, on Linux: `SymbolInv` adds that the names on the stack follow each other
  around the alphabet (`Alphabet`) and what the counter is while a child is being
  waited for (`SymbolFollows`).
* `TurnStaysOne`, on Windows: `WTurnInv` says who has the turn, the child that
  `currentWorkingChild` points to or, if it points to none, the first one
  (`OneHolds`), also while the manager waits for a child to end, when that child may
  be the one who had it; that a process which is not running has no event set
  (`EventsFit`), and that `currentWorkingChild` is in the stack or dangles
  (`ManagerFits`). `Pushed` and `PoppedDistinct` are about the stack's elements.
* `BuildIsLin` and `BuildIsWin`: every step of the program of either build is a step or
  a stutter of both halves, so what was proved of one holds of the program
  (`ProgramKeepsTurns`, `ProgramNamesTop`, `ProgramTurnStaysOne`, `ProgramTypes`).

`ZoxAioProofs`
* `OneOperationAtATime`: `PlaceInv` adds that a file which no client has added yet is
  nowhere, and that only one client adds it (`AddedOnce`). Nearly every step moves
  one task from one place to the next (`MovesOn`), which the lemma of each step
  shows; adding is the exception that `AddedOnce` is for.
* `TypesHold`, for any files; `FreedOnlyWhenCopied` and `LibraryImplementsConcat`, for texts:
  they assume `Zeros = {}`, as run `aio` does and as run `aio_binary` shows to be necessary.
  Files, clients, sizes (0 included) and `BufferSize` are any; the target is as long
  as `MaxPosition` says: a write beyond it never happens in the model, which run `aio`
  leaves room for.
* `CopyInv` is the invariant. `TaskInv` says, for each place a task may be in, how far its two
  offsets, its count of buffers, its one buffer and the target have come: all of
  them are written by two threads and by the system without a lock, and are
  consistent only because a task is in one place. The count lags one buffer behind
  what is in the target until the reader looks at the task again, so that main,
  which multiplies the count, never sees more than is there.
* `ReservedInv` says that places are reserved once and do not overlap, so that a buffer
  that arrives late cannot hurt another file (`CopiedTo` of all other tasks stays).
* `MainInv` is what main's unlocked polls amount to: `is_completed` remains 1 in a
  round only if each task polled so far was over, and a task that is over stays so
  (`CountedGrows`); an empty file is never over, so that main never frees it.
* For the refinement every action maps to one of `Concat` or to a stutter: adding to
  `Reserve`, the system's write to `Copy`, freeing to `Close` (`PromiseStep`); taking a buffer for
  writing moves `write_offset` on ahead of the bytes, which `Arrived` takes back.

`MessagerProofs`
* `TypesHold`, `TokensStayAccounted`, `MessagerImplementsChat`: the invariant `Inv` is that
  of the half that is built, the other half stays as it was at the start. That a
  step of the program is a step of the chat follows from it at once: only the step
  that prints needs to know what is in the buffer or in the pipe.
* On Linux (`LInv`): `TokensAreMessages` speaks of two connected parties, so it says
  nothing of how they came to be. `LTokens` counts the token of the handshake too
  and holds always; `LFollows` says that one message at most is on the way and is
  in the buffer, `Shares` that both look at the same buffer, `Meets` and `Receives` who
  can be where while the other one comes or goes.
* On Windows (`WInv`): `WAnswers` says for each point of a sender where its message
  is, `WGreets` that the semaphores have the handshake's tokens until both talk, so
  that no listener takes one for a message; `WEvents` that no conversation begins
  with the event of the one before; `WPipes` that what was sent is what was shown
  and what is in the pipe.
* `LInv` and `WInv` are conditional on no hazard having happened, as the properties are.

`FileSystemProofs`
* `Typing`, `Sound` and `Durability`, for any size of the image and of a block, any
  names and any host files. The code counts what refers to a cluster and finds its way by walking;
  an inductive argument needs neither. `Tree` is the same as `TreeIsSound` without counts
  (`WellFormedIsTree`): each cluster in use but the root is an entry or a next block of
  exactly one other, and a set which holds the root and is closed under entries and
  next blocks holds all that are in use. A cluster on a circle would be outside the set
  of those that are not, so a walk up or along blocks ends within `Count` steps, which
  is where the recursive functions of the model stop.
  `FileWalksEnd` says so of the walks along files, which the code does without a bound.
* Four changes of the tree make up all commands: an entry added (`LeafAdded`), a block
  added to a file (`PartAdded`), an entry removed with its blocks (`LeafFreed`), an entry
  moved or renamed (`Moved`). Each leaves a `Tree`, whatever the paths said, if `mv` does
  not move a directory below itself and `rm` removes a leaf, one that has no
  entries. The walks end because no set of clusters feeds itself (`NoLoop`).
* `Fits` is what a command that is under way relies on (what it works on still
  exists, is not above the working directory, is the last block of its file);
  `DiskOK` says for each cluster that the writes which are left bring it to what memory
  has, in the order in which they are left: an older content is never written last.
  `Durable` is `DiskOK` with no writes left.
* `IInv` is these with the types. It claims `Tree` also of what a restart reads, unless
  the kill left an image that is not well formed.
* `GuardsSuffice`: the text of `pwd` spells a way from the root to the working
  directory (`SpellsPwd`), and so does an absolute path that was looked up
  (`SpellsNames`). In a tree there is one such way, so that the names leading to what is
  below a cluster begin with those leading to it (`SpellsBelow`), and `strstr` finds the
  one text at the beginning of the other: `TargetIsElsewhere` for `rm`,
  `MoveIsElsewhere` for `mv`.
* `Keeping`, `ReadBack` and `SpaceCovered` need what clusters hold, not only how they hang
  together, and need it of the image file too. `MoreInv` is a second invariant on top of
  `IInv`. It speaks of all `Versions` of a cluster at once: what memory has, what the file
  has, and what the writes that are left will put there. A write that reaches the file makes
  no new version, so most of it holds through `Flush` for free (`FlushedVersions`); every
  other step is described by which clusters it fills, empties and moves (`Does`), and three
  lemmas about such a step (`DoesRead`, `DoesSmall`, `DoesKeep`) serve all handlers.
* `ReadInv`: a block is as long as its number says (`BlocksFit`), each version of the next
  cluster is the next block or not written yet (`BlocksFollow`), what a directory lists is a
  first block (`EntriesBegin`), and unless a command was cut a last block is not full
  (`FilesEnd`), but for the one that `load` or `cp` is about to go on from. `FilesReadBack`
  follows along the chain (`BlocksInOrder`).
* `KeepInv`: what a command was told to remove is a branch of the saved tree (`Branch`), so no
  file outside leads into it; outside, every version of a cluster is as it was (`Remains`) and
  every directory keeps its entries (`EntriesStay`), but for the one that `mv` moves, which is
  written into its new directory before it is taken out of the old one (`MovesTo`).
  `NothingLost` then needs that the new directory is itself reached: it is not below what
  moves, so the way to it does not lead through the entry that is moving (`StillReached`).
  `StaysReached` states the same of directories.
* `SpaceInv`: what `load` has yet to take is no more than what is free, or than what is free
  and the file to be replaced together (`Room`). That the removal gives back the clusters
  of that file needs that its chain meets none twice (`ChainInjective`) and that no cluster
  counts more than a block (`AllSmall`), directories included, as `cp` makes of their
  count of entries the size of a file: this is what the assumption `DirectoriesFit` is for
  (20 clusters of nearly 4096 bytes in the code).

`HeapProofs`
* `Typed`, `Tiled`, `Keeping`, `Joining`, `NoShorter`, for any sizes and any letters, those of
  marks and markers included. `BlocksTile` is not inductive: it is about what a walk
  finds, and a call changes bytes. `Laid` is about bytes: three bytes that look like an end
  marker are one, which a mark or the end of the heap follows. Markers then neither
  overlap each other nor the mark of a block (`Apart`), and the walk finds the blocks
  that markers delimit (`BlocksAre`). `Held` says that the used ones are the clients'.
* All writes of `malloc`, `free` and `realloc` make one of four changes to such a heap: a mark
  changed (`MarkedLaid`), a marker taken away (`JoinedLaid`), a block put into a longer one
  (`PutInside`) or at the end (`PutAtEnd`). A client's letter repeated makes no marker,
  not even with the mark before it and the marker after it (`OneEnd`).
* `NoShorter` holds because a heap that became shorter has lost the last marker, the only one
  after the last block (`GrownIs`), so that `zox-mem.c:67` finds none and crashes.

`Iteration` proves what these need of recursive functions: a function that `CHOOSE` defines by
its recursion up to a bound exists (`Runs`), there is one only (`SameRun`), and a chain in a
finite set repeats or ends (`Saturates`, `WalkEnds`). The models write their walks in that form.

Every invariant, action property and refinement that the passing runs check is proved.
Liveness is not within the prover's reach and is left to TLC: `KillCompletes`,
`ShutdownCompletes`, `TurnComesRound`, `Finishes`, `KillsReturn`, `PrintingGoesOn` and
`ChatGoesOn`.

## What is not modelled

* Options, output and terminal handling, listing the directory, drawing
  progress bars.
* lab1: one parent starts one child and waits for it, a straight line of calls
  without state.
* lab2: processes that are stopped and continued from outside; on Windows, children
  whose events have the same name (an identifier may be twice another) and main
  starting without its manager.
* lab3: calls that fail to get semaphores, memory or pipes; what happens after the
  hazards named above.
* lab4: `malloc` of a queue element, which is not checked (`queue.c:5`).
* lab5: errors and short operations after acceptance, which the callback does not
  look at (`zox_aio_task.c:18`); failures of `creat` and of memory; `int` overflow and `float`
  rounding of the progress (`zox_aio_task.c:111`).
* lab6: `_zox_defrag`, which nobody calls; end markers in a client's data, which the
  searches would take for the heap's own; a write past the last page of a heap that
  fills it exactly; a file that cannot be opened or resized.
* lab7: writes to the image that fail, paths longer than their buffers, a new entry
  under a file (`cluster.c:127`), and what the commands do to an image that is not well
  formed any more: removing a directory that lists an empty cluster, for instance,
  never ends (`zox-fs.c:88`). `fail.c` is a test of its own.
* Generated build files.

## Plan

1. Done: lab2, lab3, lab4, lab5, lab6 and lab7, as above.
2. lab7, further: an abstract tree of names that the commands implement, and what a
   command does to an image that a kill left half written.
