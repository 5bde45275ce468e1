------------------------------- MODULE ZoxAio -------------------------------
(***************************************************************************)
(* The concatenation library of lab5 (src/lab5/src/zox_aio) and the program*)
(* that uses it (src/lab5/src/main.c).                                     *)
(*                                                                         *)
(*   - Clients add files.  add_task reserves a place in the target, appends*)
(*     the task to the context, notifies the reader and reads the number   *)
(*     of tasks again to make an identifier of it.                         *)
(*   - The reader and the writer are executors: threads with a queue of    *)
(*     notifications.  The reader starts an asynchronous read of the next  *)
(*     buffer of a task, the writer an asynchronous write of it.           *)
(*   - When an operation completes its callback notifies the executor that *)
(*     the task's callback data names: the operations of a task alternate. *)
(*   - Main polls the progress of all tasks without any lock, and destroys *)
(*     the context when every one is at 100 percent.                       *)
(*                                                                         *)
(* The queue of an executor is tested, filled and signalled under the same *)
(* mutex, so waiting for a notification is a guard here.  A critical       *)
(* section of tasks_mutex is one step.                                     *)
(***************************************************************************)
EXTENDS Integers, Sequences, FiniteSets, SequencesExt

CONSTANTS File,         \* the files to concatenate; also their tasks
          Client,       \* the threads that add them; main.c is one
          Sizes,        \* the sizes a file may have
          Zeros,        \* the bytes <<f, i>> that are '\0': none in a text
          BufferSize,   \* settings.buffer_size
          MaxPosition,  \* bound: the last byte of the target modelled
          NULL,
          HOLE          \* the '\0' that memset and a hole in a file leave

ASSUME SizesAssumption == Sizes \subseteq Nat
ASSUME BufferAssumption == BufferSize \in Nat \ {0} /\ MaxPosition \in Nat
ASSUME ValuesAssumption ==
    /\ NULL \notin File \cup Int \cup {"reader", "writer"}
    /\ HOLE \notin File \X Nat

Executors == {"reader", "writer"}
Position == 0 .. MaxPosition
Slot == 0 .. BufferSize - 1

VARIABLES
    size,               \* of the files
    toAdd,              \* the files no client has taken up yet
    clientPC, clientFile,
    id,                 \* what add_task returned for each file
    expected,           \* target_file_expected_size
    tasks,
    start,              \* where a task's place begins: the first value of
                        \*   its write_offset
    read_offset, write_offset, buffers_written,
    buffer, aio_nbytes, aio_offset,     \* of a task's aiocb
    executor,           \* of its callback data
    queue, working,     \* of the executors: notifications, the task at hand
    dead,               \* the executors that have returned
    io,                 \* operations submitted: <<"read", f>>, <<"write", f>>
    callbacks,          \* tasks whose operation completed, to be notified
    target,
    mainPC,
    toPoll, polling,    \* files main has yet to look at, the one it looks at
    bytesRead,          \* what it read of buffers_written
    is_completed,
    stalled,            \* operations that were not accepted
    process             \* "running" or "crashed"

clientVars == <<toAdd, clientPC, clientFile, id>>
contextVars == <<expected, tasks>>
offsetVars == <<start, read_offset, write_offset>>
cbVars == <<buffer, aio_nbytes, aio_offset, executor>>
executorVars == <<queue, working, dead>>
ioVars == <<io, callbacks, target, stalled>>
mainVars == <<mainPC, toPoll, polling, bytesRead, is_completed>>
vars == <<size, clientVars, contextVars, offsetVars, buffers_written, cbVars,
          executorVars, ioVars, mainVars, process>>

-----------------------------------------------------------------------------
Init ==
    /\ size \in [File -> Sizes]
    /\ toAdd = File
    /\ clientPC = [c \in Client |-> "idle"]
    /\ clientFile = [c \in Client |-> NULL]
    /\ id = [f \in File |-> NULL]
    /\ expected = 0
    /\ tasks = <<>>
    /\ start = [f \in File |-> -1]
    /\ read_offset = [f \in File |-> 0]
    /\ write_offset = [f \in File |-> 0]
    /\ buffers_written = [f \in File |-> 0]
    /\ buffer = [f \in File |-> [i \in Slot |-> HOLE]]
    /\ aio_nbytes = [f \in File |-> BufferSize]
    /\ aio_offset = [f \in File |-> 0]
    /\ executor = [f \in File |-> NULL]
    /\ queue = [e \in Executors |-> <<>>]
    /\ working = [e \in Executors |-> NULL]
    /\ dead = {}
    /\ io = {}
    /\ callbacks = {}
    /\ target = [p \in Position |-> HOLE]
    /\ mainPC = "add"
    /\ toPoll = {}
    /\ polling = NULL
    /\ bytesRead = 0
    /\ is_completed = 1
    /\ stalled = {}
    /\ process = "running"

Notify(e, n) == queue' = [queue EXCEPT ![e] = Append(@, n)]

-----------------------------------------------------------------------------
(* add_task: create_task opens the file and reserves its place, ...        *)
A_Create(c) ==
    /\ clientPC[c] = "idle"
    /\ \E f \in toAdd :
          /\ toAdd' = toAdd \ {f}
          /\ clientFile' = [clientFile EXCEPT ![c] = f]
          /\ start' = [start EXCEPT ![f] = expected]
          /\ write_offset' = [write_offset EXCEPT ![f] = expected]
          /\ expected' = expected + size[f]
    /\ clientPC' = [clientPC EXCEPT ![c] = "append"]
    /\ UNCHANGED <<size, id, tasks, read_offset, buffers_written, cbVars,
                   executorVars, ioVars, mainVars, process>>

(* ... or cannot open it, and -1 is returned, ...                          *)
A_CreateFails(c) ==
    /\ clientPC[c] = "idle"
    /\ \E f \in toAdd :
          /\ toAdd' = toAdd \ {f}
          /\ id' = [id EXCEPT ![f] = -1]
    /\ UNCHANGED <<size, clientPC, clientFile, contextVars, offsetVars,
                   buffers_written, cbVars, executorVars, ioVars, mainVars,
                   process>>

(* ... the task is appended, ...                                           *)
A_Append(c) ==
    /\ clientPC[c] = "append"
    /\ tasks' = Append(tasks, clientFile[c])
    /\ clientPC' = [clientPC EXCEPT ![c] = "notify"]
    /\ UNCHANGED <<size, toAdd, clientFile, id, expected, offsetVars,
                   buffers_written, cbVars, executorVars, ioVars, mainVars,
                   process>>

(* ... the reader is notified, ...                                         *)
A_Notify(c) ==
    /\ clientPC[c] = "notify"
    /\ Notify("reader", clientFile[c])
    /\ clientPC' = [clientPC EXCEPT ![c] = "return"]
    /\ UNCHANGED <<size, toAdd, clientFile, id, contextVars, offsetVars,
                   buffers_written, cbVars, working, dead, ioVars, mainVars,
                   process>>

(* ... and tasks_count - 1 is returned, read without the lock.             *)
A_Return(c) ==
    /\ clientPC[c] = "return"
    /\ id' = [id EXCEPT ![clientFile[c]] = Len(tasks) - 1]
    /\ clientPC' = [clientPC EXCEPT ![c] = "idle"]
    /\ clientFile' = [clientFile EXCEPT ![c] = NULL]
    /\ UNCHANGED <<size, toAdd, contextVars, offsetVars, buffers_written,
                   cbVars, executorVars, ioVars, mainVars, process>>

ClientStep(c) ==
    \/ A_Create(c) \/ A_CreateFails(c)
    \/ A_Append(c) \/ A_Notify(c) \/ A_Return(c)

-----------------------------------------------------------------------------
(* executor_thread: takes a notification; NULL ends it.                    *)
Taken(e) == Head(queue[e])

E_Die(e) ==
    /\ e \notin dead /\ working[e] = NULL
    /\ queue[e] # <<>> /\ Taken(e) = NULL
    /\ queue' = [queue EXCEPT ![e] = Tail(@)]
    /\ dead' = dead \cup {e}
    /\ UNCHANGED <<size, clientVars, contextVars, offsetVars, buffers_written,
                   cbVars, working, ioVars, mainVars, process>>

(* reader_job: the writer is next, and a buffer that is not empty has been *)
(* written.                                                                *)
R_Count ==
    /\ "reader" \notin dead /\ working["reader"] = NULL
    /\ queue["reader"] # <<>> /\ Taken("reader") # NULL
    /\ LET f == Taken("reader")
           empty == buffer[f][0] \in Zeros \cup {HOLE}
       IN  /\ queue' = [queue EXCEPT !["reader"] = Tail(@)]
           /\ working' = [working EXCEPT !["reader"] = f]
           /\ executor' = [executor EXCEPT ![f] = "writer"]
           /\ buffers_written' = IF empty THEN buffers_written
                                 ELSE [buffers_written EXCEPT ![f] = @ + 1]
    /\ UNCHANGED <<size, clientVars, contextVars, offsetVars, buffer,
                   aio_nbytes, aio_offset, dead, ioVars, mainVars, process>>

Remaining(f) == size[f] - buffers_written[f] * BufferSize

(* Nothing is left to read: the task is over.                              *)
R_Finish ==
    /\ working["reader"] # NULL
    /\ Remaining(working["reader"]) <= 0
    /\ working' = [working EXCEPT !["reader"] = NULL]
    /\ UNCHANGED <<size, clientVars, contextVars, offsetVars, buffers_written,
                   cbVars, queue, dead, ioVars, mainVars, process>>

(* aio_read and aio_write: the operation is queued, or refused, which      *)
(* nobody notices.                                                         *)
Submit(op, f) ==
    /\ \/ io' = io \cup {<<op, f>>} /\ UNCHANGED stalled
       \/ stalled' = stalled \cup {<<op, f>>} /\ UNCHANGED io
    /\ UNCHANGED <<callbacks, target>>

(* Not the code: all that is left is asked for at once.                    *)
R_ReadRest ==
    LET f == working["reader"]
    IN  /\ f # NULL
        /\ Remaining(f) > 0
        /\ aio_nbytes' = [aio_nbytes EXCEPT ![f] = Remaining(f)]
        /\ aio_offset' = [aio_offset EXCEPT ![f] = read_offset[f]]
        /\ read_offset' = [read_offset EXCEPT ![f] = @ + BufferSize]
        /\ working' = [working EXCEPT !["reader"] = NULL]
        /\ Submit("read", f)
        /\ UNCHANGED <<size, clientVars, contextVars, start, write_offset,
                       buffers_written, buffer, executor, queue, dead,
                       mainVars, process>>

(* Not the code: the last buffer is read, and written, at full length.     *)
R_ReadWhole ==
    LET f == working["reader"]
    IN  /\ f # NULL
        /\ Remaining(f) > 0
        /\ aio_offset' = [aio_offset EXCEPT ![f] = read_offset[f]]
        /\ read_offset' = [read_offset EXCEPT ![f] = @ + BufferSize]
        /\ working' = [working EXCEPT !["reader"] = NULL]
        /\ Submit("read", f)
        /\ UNCHANGED <<size, clientVars, contextVars, start, write_offset,
                       buffers_written, buffer, aio_nbytes, executor, queue,
                       dead, mainVars, process>>

(* The next buffer is to be read; the last one may be shorter.             *)
R_Read ==
    LET f == working["reader"]
    IN  /\ f # NULL
        /\ Remaining(f) > 0
        /\ aio_nbytes' = [aio_nbytes EXCEPT
                              ![f] = IF Remaining(f) < BufferSize
                                     THEN Remaining(f) ELSE @]
        /\ aio_offset' = [aio_offset EXCEPT ![f] = read_offset[f]]
        /\ read_offset' = [read_offset EXCEPT ![f] = @ + BufferSize]
        /\ working' = [working EXCEPT !["reader"] = NULL]
        /\ Submit("read", f)
        /\ UNCHANGED <<size, clientVars, contextVars, start, write_offset,
                       buffers_written, buffer, executor, queue, dead,
                       mainVars, process>>

(* writer_job: the buffer goes to the next position, the reader is next.   *)
W_Write ==
    /\ "writer" \notin dead
    /\ queue["writer"] # <<>> /\ Taken("writer") # NULL
    /\ LET f == Taken("writer")
       IN  /\ queue' = [queue EXCEPT !["writer"] = Tail(@)]
           /\ executor' = [executor EXCEPT ![f] = "reader"]
           /\ aio_offset' = [aio_offset EXCEPT ![f] = write_offset[f]]
           /\ write_offset' = [write_offset EXCEPT ![f] = @ + BufferSize]
           /\ Submit("write", f)
    /\ UNCHANGED <<size, clientVars, contextVars, start, read_offset,
                   buffers_written, buffer, aio_nbytes, working, dead,
                   mainVars, process>>

ReaderStep == E_Die("reader") \/ R_Count \/ R_Finish \/ R_Read
WriterStep == E_Die("writer") \/ W_Write

-----------------------------------------------------------------------------
(* Not the code: the executor is notified before the operation is over.    *)
IO_NotifyEarly(f) ==
    /\ \E op \in {"read", "write"} : <<op, f>> \in io
    /\ callbacks' = callbacks \cup {f}
    /\ Notify(executor[f], f)
    /\ UNCHANGED <<size, clientVars, contextVars, offsetVars, buffers_written,
                   cbVars, working, dead, io, target, stalled, mainVars,
                   process>>

(* The system executes an operation.  A read past the end of the file      *)
(* leaves the rest of the buffer as it was.                                *)
IO_Read(f) ==
    /\ <<"read", f>> \in io
    /\ io' = io \ {<<"read", f>>}
    /\ callbacks' = callbacks \cup {f}
    /\ buffer' = [buffer EXCEPT ![f] = [i \in Slot |->
                      IF i < aio_nbytes[f] /\ aio_offset[f] + i < size[f]
                      THEN <<f, aio_offset[f] + i>> ELSE @[i]]]
    /\ UNCHANGED <<size, clientVars, contextVars, offsetVars, buffers_written,
                   aio_nbytes, aio_offset, executor, executorVars, target,
                   stalled, mainVars, process>>

IO_Write(f) ==
    /\ <<"write", f>> \in io
    /\ aio_offset[f] + aio_nbytes[f] - 1 <= MaxPosition
    /\ io' = io \ {<<"write", f>>}
    /\ callbacks' = callbacks \cup {f}
    /\ target' = [p \in Position |->
                      IF p - aio_offset[f] \in 0 .. aio_nbytes[f] - 1
                      THEN buffer[f][p - aio_offset[f]] ELSE target[p]]
    /\ UNCHANGED <<size, clientVars, contextVars, offsetVars, buffers_written,
                   cbVars, executorVars, stalled, mainVars, process>>

(* aio_callback runs in a thread of its own.                               *)
IO_Callback(f) ==
    /\ f \in callbacks
    /\ callbacks' = callbacks \ {f}
    /\ Notify(executor[f], f)
    /\ UNCHANGED <<size, clientVars, contextVars, offsetVars, buffers_written,
                   cbVars, working, dead, io, target, stalled, mainVars,
                   process>>

SystemStep(f) == IO_Read(f) \/ IO_Write(f) \/ IO_Callback(f)

-----------------------------------------------------------------------------
(* main: a round of the progress bar loop looks at every file.             *)
M_Round ==
    /\ \/ /\ mainPC = "add" /\ toAdd = {}
          /\ \A c \in Client : clientPC[c] = "idle"
       \/ mainPC = "poll" /\ toPoll = {} /\ is_completed = 0
    /\ mainPC' = "poll"
    /\ toPoll' = File
    /\ is_completed' = 1
    /\ UNCHANGED <<size, clientVars, contextVars, offsetVars, buffers_written,
                   cbVars, executorVars, ioVars, polling, bytesRead, process>>

(* get_task_progress: buffers_written is read, ...  The identifier -1 is   *)
(* used as an index like any other.                                        *)
M_Poll ==
    /\ mainPC = "poll"
    /\ \E f \in toPoll :
          /\ toPoll' = toPoll \ {f}
          /\ IF id[f] = -1
             THEN /\ process' = "crashed"
                  /\ UNCHANGED <<mainPC, polling, bytesRead>>
             ELSE /\ mainPC' = "progress"
                  /\ polling' = tasks[id[f] + 1]
                  /\ bytesRead' =
                         buffers_written[tasks[id[f] + 1]] * BufferSize
                  /\ UNCHANGED process
    /\ UNCHANGED <<size, clientVars, contextVars, offsetVars, buffers_written,
                   cbVars, executorVars, ioVars, is_completed>>

Progress(f, bytes) ==
    bytes + IF buffers_written[f] > 0 THEN aio_nbytes[f] - BufferSize ELSE 0

(* Not the code: the last buffer is subtracted, aio_nbytes is not added.    *)
CompleteBuffers(f, bytes) == size[f] > 0 /\ bytes - BufferSize >= size[f]

(* 100 percent: 0 divided by 0 is less.                                    *)
Complete(f, bytes) == size[f] > 0 /\ Progress(f, bytes) >= size[f]

(* ... then, both may have changed, buffers_written again and aio_nbytes.  *)
M_Progress ==
    /\ mainPC = "progress"
    /\ is_completed' = IF Complete(polling, bytesRead) THEN is_completed ELSE 0
    /\ mainPC' = "poll"
    /\ polling' = NULL
    /\ bytesRead' = 0
    /\ UNCHANGED <<size, clientVars, contextVars, offsetVars, buffers_written,
                   cbVars, executorVars, ioVars, toPoll, process>>

(* destroy_context: the reader is told to end, ...                         *)
M_KillReader ==
    /\ mainPC = "poll" /\ toPoll = {} /\ is_completed = 1
    /\ Notify("reader", NULL)
    /\ mainPC' = "joinReader"
    /\ UNCHANGED <<size, clientVars, contextVars, offsetVars, buffers_written,
                   cbVars, working, dead, ioVars, toPoll, polling, bytesRead,
                   is_completed, process>>

(* Not the code: the reader is not joined.                                 *)
M_KillBoth ==
    /\ mainPC = "joinReader"
    /\ Notify("writer", NULL)
    /\ mainPC' = "joinWriter"
    /\ UNCHANGED <<size, clientVars, contextVars, offsetVars, buffers_written,
                   cbVars, working, dead, ioVars, toPoll, polling, bytesRead,
                   is_completed, process>>

(* ... and joined, then the writer, ...                                    *)
M_KillWriter ==
    /\ mainPC = "joinReader"
    /\ "reader" \in dead
    /\ Notify("writer", NULL)
    /\ mainPC' = "joinWriter"
    /\ UNCHANGED <<size, clientVars, contextVars, offsetVars, buffers_written,
                   cbVars, working, dead, ioVars, toPoll, polling, bytesRead,
                   is_completed, process>>

(* ... and the tasks are freed.                                            *)
M_Free ==
    /\ mainPC = "joinWriter"
    /\ "writer" \in dead
    /\ mainPC' = "freed"
    /\ UNCHANGED <<size, clientVars, contextVars, offsetVars, buffers_written,
                   cbVars, executorVars, ioVars, toPoll, polling, bytesRead,
                   is_completed, process>>

MainStep ==
    M_Round \/ M_Poll \/ M_Progress \/ M_KillReader \/ M_KillWriter \/ M_Free

-----------------------------------------------------------------------------
Alive == process = "running" /\ mainPC # "freed"

Clients(c) == Alive /\ ClientStep(c)
Reader == Alive /\ ReaderStep
Writer == Alive /\ WriterStep
System(f) == Alive /\ SystemStep(f)
Main == Alive /\ MainStep

Next ==
    \/ \E c \in Client : Clients(c)
    \/ Reader
    \/ Writer
    \/ \E f \in File : System(f)
    \/ Main

Spec == Init /\ [][Next]_vars

(* Every thread is scheduled and every operation is executed.              *)
Fairness ==
    /\ \A c \in Client : WF_vars(Clients(c))
    /\ WF_vars(Reader)
    /\ WF_vars(Writer)
    /\ \A f \in File : WF_vars(System(f))
    /\ WF_vars(Main)

FairSpec == Spec /\ Fairness

-----------------------------------------------------------------------------
Byte == (File \X Nat) \cup {HOLE}

TypeOK ==
    /\ size \in [File -> Sizes]
    /\ toAdd \subseteq File
    /\ clientPC \in [Client -> {"idle", "append", "notify", "return"}]
    /\ clientFile \in [Client -> File \cup {NULL}]
    /\ id \in [File -> Int \cup {NULL}]
    /\ expected \in Nat
    /\ tasks \in Seq(File)
    /\ start \in [File -> Int]
    /\ read_offset \in [File -> Nat]
    /\ write_offset \in [File -> Nat]
    /\ buffers_written \in [File -> Nat]
    /\ buffer \in [File -> [Slot -> Byte]]
    /\ aio_nbytes \in [File -> 1 .. BufferSize]
    /\ aio_offset \in [File -> Nat]
    /\ executor \in [File -> Executors \cup {NULL}]
    /\ queue \in [Executors -> Seq(File \cup {NULL})]
    /\ working \in [Executors -> File \cup {NULL}]
    /\ dead \subseteq Executors
    /\ io \subseteq {"read", "write"} \X File
    /\ callbacks \subseteq File
    /\ target \in [Position -> Byte]
    /\ mainPC \in {"add", "poll", "progress", "joinReader", "joinWriter",
                   "freed"}
    /\ toPoll \subseteq File
    /\ polling \in File \cup {NULL}
    /\ bytesRead \in Nat
    /\ is_completed \in {0, 1}
    /\ stalled \subseteq {"read", "write"} \X File
    /\ process \in {"running", "crashed"}

(* What add_task returned is the index of the file's own task.             *)
IdsNameTasks ==
    \A f \in File : id[f] \notin {NULL, -1} => tasks[id[f] + 1] = f

(* Where task f is: in a queue, in the hands of an executor, in an         *)
(* operation or on its way to a callback.                                  *)
Places(f) ==
    (UNION {{<<e, i>> : i \in {j \in DOMAIN queue[e] : queue[e][j] = f}} :
                e \in Executors})
        \cup {<<"working", e>> : e \in {x \in Executors : working[x] = f}}
        \cup {op \in io : op[2] = f}
        \cup {<<"callback", g>> : g \in callbacks \cap {f}}

(* The reader and the writer take turns on a task: its one aiocb and its   *)
(* one buffer are never in two operations at once, and nobody prepares the *)
(* next while one is under way, although neither of them takes any lock on *)
(* the task (reader.c:9-43, writer.c:9-24, zox_aio_task.c:17-21).          *)
OneOperation == \A f \in File : \A p, q \in Places(f) : p = q

(* Main frees the tasks only when nobody uses them any more and the whole  *)
(* target is written, though it decides so from two unlocked reads of a    *)
(* task another thread is working on (main.c:88-105, zox_aio_task.c:       *)
(* 110-118, zox_aio.c:49-71) - if every identifier is right.               *)
FreedWhenCopied ==
    mainPC = "freed" /\ IdsNameTasks =>
        /\ \A f \in File : Places(f) = {}
        /\ \A f \in Range(tasks) : \A i \in 0 .. size[f] - 1 :
              target[start[f] + i] = <<f, i>>

(* Every write falls into the place reserved for the file: "the files are  *)
(* copied at the same time to the positions in the result where they       *)
(* belong" (zox_aio.h:28).                                                 *)
WritesInPlace ==
    \A f \in File : <<"write", f>> \in io =>
        /\ aio_offset[f] >= start[f]
        /\ aio_offset[f] + aio_nbytes[f] <= start[f] + size[f]

(* A program that has added its files ends, unless a file could not be     *)
(* opened, an operation was refused, a file is empty (its progress is 0    *)
(* divided by 0 for ever) or an identifier is wrong (main.c:88-105).       *)
Finishes ==
    mainPC = "poll" ~>
        \/ ~Alive
        \/ stalled # {}
        \/ \E f \in File : size[f] = 0
        \/ ~IdsNameTasks

(* The bytes of f that have arrived: those of the writes submitted, but the*)
(* one that is still under way or was refused.                             *)
Arrived(f) ==
    LET done == IF <<"write", f>> \in io \cup stalled
                THEN aio_offset[f] - start[f] ELSE write_offset[f] - start[f]
    IN  IF start[f] = -1 THEN 0 ELSE IF done < size[f] THEN done ELSE size[f]

(* The library keeps the promise of module Concat, whatever the order in   *)
(* which operations of different files are executed.                       *)
Promise == INSTANCE Concat WITH
    length <- expected,
    copied <- [f \in File |-> Arrived(f)],
    closed <- mainPC = "freed" /\ IdsNameTasks

ImplementsConcat == Promise!CSpec
=============================================================================
