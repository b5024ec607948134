# A verification development for PersonalProject

The repository is a collection of C and C++ programs: system programming (a
record store, threads, message queues, signals, timers, pseudo terminals,
descriptor passing) and object oriented design (dates, fractions, a personnel
register, the classic design patterns). It has no documentation; the sources,
their comments and their tests are the reference. This directory holds TLA+
modules for its parts, the TLC configurations that check them, and theorems
about them with proofs for TLAPS.

Contents: 1. inventory, 2. plan, 3. the models and the code, 4. the runs,
5. the proofs, 6. what is not modelled.

## 1. Inventory

### Programs with a state that outlives one call

| part | state | operations | what makes it hard | what makes it correct |
|---|---|---|---|---|
| record store, `apue_db.c` | index file (free list, chain heads, records), data file, the `DB` handle with buffers and offsets | `db_open`, `db_close`, `db_fetch`, `db_store`, `db_delete`, `db_rewind`, `db_nextrec` | pointers on disk; offsets kept in the handle from one helper to the next; one file position shared by all calls; record locks of several processes; no write is atomic with the next | a fetch returns what was stored last; nothing overwrites another record's data; a scan returns every key once |
| file player, `player.c` | linked list `queue`, `queue_current`, `queue_complete`, a mutex and a condition variable | thread functions `read_data` and `process_data`, and `main` | the two threads share the list; the end of the file is marked without the lock; either can return early and `main` ends with either | every line printed once and in order; no freed node touched; the program ends |
| string trimming, `trim_string.cpp` | the string being edited and a copy of it | `trim_string` | it edits in place with two positions | no doubled, leading or trailing space; no access outside the string |
| descriptor passing, `client1.c`, `opend1.c`, `exchange_fd.c` | a connected socket, the `msg` buffer between two reads, the descriptors inherited by each child, the child process | `csopen`, `request`, `send_fd`, `recv_fd`, `send_err` | the child connects while the parent binds; all clients share one socket name; descriptors are inherited and never closed; a failure in the child goes on in `main` | the client gets the descriptor it asked for or the error, never waits for ever |
| unique connections, `unique_connections.c` | socket names in the file system, two processes | `serv_listen`, `serv_accept`, `cli_conn` | names are tested, unlinked and created by two processes | an accepted client is one that named its socket freshly; no name is left over |
| named pipe handshake, `streams_pipe.c` | two pipes, two processes | `TELL_WAIT`, `TELL_PARENT`, `WAIT_CHILD`, ... | ordering by blocking reads | the parent goes on only when the child said so |
| message queues, `mqueue.c`, `mqueue_sig.c`, `mqueue_thread.c` | a queue in the kernel that survives the processes, a notification registration, a signal mask | send and receive between parent and child; `mq_notify` by signal and by thread | the message may arrive before, between and after registering, unblocking and waiting | a message sent is received; nobody waits for ever |
| realtime signals and timers, `rt_signals.c`, `rt_timers.c` | pending signals, masks, a POSIX timer with its overrun count | `sigqueue` against `sigtimedwait` and `sigsuspend`; `timer_settime` | time-outs racing late signals | queued signals are received in order, none is lost |
| pseudo terminals, `my_pty.c`, `pseudo_terminal.c` | two relay loops, a child, `sigcaught` | `loop`, `loop_one_process`, `pty_fork`, `do_driver` | the end of either side has to end the other one | all output relayed before the end; both processes end |

### Libraries and object models

| part | state | operations | hard behaviour | correct when |
|---|---|---|---|---|
| calendar, `Date.*` | days since 1/1/1000 | conversions between dates and day numbers, `addDays`, comparisons | leap years, ends of months | the conversions are inverse to each other; adding a day gives the successor |
| fractions, `Fraction.cpp` | numerator, denominator | reduction, arithmetic | signs, zero; the operand may be the fraction itself | the value is the rational one, reduced |
| personnel, `Person.*`, `Employer.h`, `Position.h`, `Hondurota.h` | lists of persons, employers, positions; who works where | hire, pay, query, list | raw pointers between the lists | relations stay consistent |
| observer, `observer_pattern.cpp` | the subject's list of observers | attach, detach, notify, destruction | destruction during notification | nobody is notified after its end |
| TCP states, `TCP*.cpp`, `state_pattern.cpp` | the current state object | open, close, send, acknowledge | calls a state ignores | transitions follow the pattern |
| memento, virtual proxy, smart pointers | owned objects, reference counts | save and restore; load on demand; copy and release | double release, leaks | every object is deleted once |
| interpreter, `Interpreter_Pattern.cpp`, `*Exp.*`, `Context.cpp` | expressions whose parts may be shared; contexts | evaluation, copying, replacement | assignment through a shared part; contexts that lack a name | a copy keeps its meaning; a result does not depend on what is not there |
| iterators, `IteratorPattern.cpp` | a list that grows, a position in it | set and get, forward, reverse and internal iteration | positions while the list grows; both ends | nothing stored is lost, nothing is skipped |
| chain of responsibility, mediator, flyweight | successor links; widgets; glyph spans | forwarding; notification; font lookup | none to speak of | - |
| mazes, `Prototype.cpp`, `AbstractFactory.cpp`, `FactoryMethod.cpp`, `MazeImplGeneric.cpp` | rooms, walls and doors that point at each other; prototypes | three factories, copying, entering a room with a bomb | copies share what they point at; a method that does not override | mazes share nothing; doors lead from room to room; only bombs open walls |
| compiler facade, template method | none to speak of | creation and printing | none | - |
| terminal modes, semaphore, scheduling, memory locking, shared memory, archiving, driver skeleton, hello programs | none to speak of | straight sequences of system calls | none | - |

Components hardly interact: each program is linked from one to three files.
`trim_string.cpp` stands alone; `client1.c` starts `opend1.c` and both use
`exchange_fd.c`; the three `TCP*` classes and the four `*Exp` files make one
program each; everything else is one process tree of its own. Every hazard we know
of is listed under `hazards` in `PROJECT.json`, at the line where it bites, with
the properties that watch it, or the reason why none does.

## 2. Plan

| step | modules | state |
|---|---|---|
| 1 | `KeyedStore` (abstract map) <- `ApueDb` (one process, whole calls) <- `ApueDbScan` (adds the history of a scan) | done, proved |
| 2 | `Player` (two threads, mutex, condition variable) | done, safety proved |
| 3 | `TrimString` | done, proved |
| 4 | `ApueDbShared` (several processes, system call by system call, record locks, kills) -> `ApueDbCalls` (one process of it refines `ApueDb`) | done; all invariants proved, and `ChangedByOwnCall` and `ImplementsCalls` |
| 5 | `FdPassing` (clients, the children they fork, sockets and descriptors); `UniqueConnections` (a server, its clients, names and process numbers); `SocketTests` (the tests of `streams_pipe.c`, `exchange_fd.c` and `unique_connections.c`, one after another) | done, safety proved |
| 6 | `MessageQueue`, `RtSignals`, `RtTimers`, `Pty`, `TtyModes` | done, safety proved |
| | `MCPrograms`: the programs of steps 5 and 6 but `FdPassing`, for one run | done |
| 7 | `CalendarDate`, `Fraction`: arithmetic against reference definitions | done, proved |
| 8 | `ClockObserver`, `Interpreter`, `ListIterators`, `Mazes`: objects that point at each other | done, proved |
| | `MCValues`: the pieces of steps 3, 7 and 8, for one run | done |
| 9 | proofs: the protocols and tests of steps 5 and 6, `ListsApart`, `OwnOrErased`, `ReadsOwn` and `ChangedByOwnCall` of step 4, `ExactFit`, `Linked` and the scan of step 1 | done |
| 10 | proof: `ImplementsCalls` of `ApueDbCalls` | done |
| 11 | proofs: `TrimmedRight`, `NumbersRight` and `ObjectsRight` of `MCValues`, the last invariants that were only model-checked | done |

Abstract specifications worth stating: the map, and the store with a call as one
step (done); the calendar as a successor function (done, as `DayAfter` of
`CalendarDate`); a channel that delivers each message once (for `Player` and
`MessageQueue`). Theorems: the ones of section 5. The parts of steps
5 to 8 are small and independent; those of one kind share a run (an `MC` module that
instantiates them, with one of them in each behaviour).

## 3. The models and the code

### `ApueDb`: the record store

| model | code |
|---|---|
| `head`, `free` | the chain table and the pointer at `FREE_OFF` in the index file |
| `idx` | the index records, named by position, as records are never moved or resized |
| `dat` | the extents of the data file, one for each append |
| `ptrval` | `db->ptrval` |
| `pos` | the position of `db->idxfd`, which `db_rewind` sets and `db_nextrec` continues from |
| `phase` | closed, open, or inside a loop that cannot end |
| `Create`, `Open`, `Close` | `db_open` with and without `O_TRUNC`, `db_close` |
| `Fetch`, `Delete`, `DeleteAbsent` | `db_fetch`, `db_delete` |
| `StoreAppend`, `StoreReuse`, `StoreMove`, `StoreOver`, `StoreRefused`, `StoreInvalid` | the paths of `db_store`, as its counters `cnt_stor1` to `cnt_stor4` and `cnt_storerr` tell them apart |
| `Rewind`, `NextRec` | `db_rewind`, `db_nextrec` |
| `Hang` | a call that never returns |
| `Blanked`, `HeadAfterCut`, `Pointed`, `WritePtr` | `_db_dodelete`, `_db_writeptr` |

The heart of it is one line. `_db_readidx` reads the pointer of a record into a
local buffer and returns `db->ptrval`, which only `_db_writeidx` ever assigns.
A walk along a chain therefore sees the head and then, for ever, the record
`ptrval` names. `Hits`, `Spins` and `At` say what such a walk finds, when it
never ends, and where it stops, and every operation is built on them. The
consequences are not what one would write down first: with no two keys on one
chain the store still is a map, because every list behaves like a list of one
record and the rest is out of reach; with keys that share a chain entries get lost
and doubled and calls may hang, but the data of a record stay its own. Without shared chains
calls may hang too: `HangsOnDeleted` says what it takes, a deleted record at the head of the list
(a chain or the free list) and another one in `ptrval`. With fewer than two deleted
records in the file every call returns.

A call is one step, since one process with one handle runs nothing between its
system calls. `dat[e].key` is a history field, the key under which an extent
was written; no guard reads it, and the file has no such field.

What the model takes for granted: the files start formatted, as a `db_open` with
`O_CREAT | O_TRUNC` leaves them; keys are not blank and contain no separator;
the byte behind `asciilen` in `_db_readidx` is not a digit (it is never written,
and `atoi` reads on); reads and writes do not fail; the statistics `cnt_*` are
left out, since nothing reads them; callers use `db_nextrec` only from a record
boundary, that is, after an update they rewind first.

`ApueDbScan` extends it with the set of keys that a scan has returned and whether
it was disturbed. `KeyedStore` is the abstract map: content and the answer of
the last call. A call that hangs leaves both alone, so `IsMap` says nothing of whether calls return;
`HangsOnDeleted` does.

### `ApueDbShared` and `ApueDbCalls`: the record store and its system calls

The same store with nothing taken as one step but a system call and the local
computation behind it. `reg[p]` is the register file of process `p`: its program
counter, what its handle and the locals of its helpers hold, and `idxfd`'s position.

| model | code |
|---|---|
| `Call`, `CallNext`, `Rewind`, `Open`, `Close` | a process enters a call, or opens and closes the files |
| `Acquire`, `Refuse`, `Release` | `lock_reg` with `F_SETLKW`: granted, refused with `EDEADLK`, `F_UNLCK` |
| `ReadHead`, `Walk`, `ReadDat`, `Return` | `_db_find_and_lock` and `db_fetch` |
| `ReadFree`, `WalkFree`, `Unlink`, `UnlockFree` | `_db_findfree` |
| `Reread`, `WriteDat`, `WriteIdx`, `SeekDat`, `AppendDat`, `UnlockDat`, `SeekIdx`, `AppendIdx`, `UnlockTail`, `Link` | `db_store` with `_db_writedat`, `_db_writeidx`, `_db_writeptr`, in place and at the end |
| `DelFree` to `DelUnlock` | `_db_dodelete`, which `db_store` calls too when the length changes |
| `ScanIdx`, `ScanDat`, `ScanReturn` | `db_nextrec` |
| `Crash` | `kill -9` inside a call |

Locks. There are four kinds: one per chain, one for the free list (`db_nextrec` takes it
shared), one for the index behind the tables ("tail"), one for the whole
data file. A process is granted what it already has, waits for what excludes others'
locks, and loses all when it closes or dies. `EDEADLK` is what `fcntl` returns if a
wait would close a cycle, and `Refuse` follows what the code does then: `db_fetch` and
`db_delete` report that there is no such key, `db_store` goes on as if the key were new,
without the lock, and a helper that is refused returns early with no word to its caller.

The lock of the data file is special. `_db_writedat` takes it for a
write in place, never for an append, and releases it after an append, never
after a write in place. So it is kept from a delete until the next append or close,
other processes wait for it that long, and two appends are not kept apart: `SeekDat` and
`AppendDat` of two processes interleave and one datum overwrites the other. The
data file is therefore a sequence of cells here, not of extents.

`events` records what a run of the system has been through: a kill, two appends to
the same place ("race"), a refused lock, and a kill between the last two
writes of a delete ("torn": the record is at the head of the free list and still on its
chain). The invariants say which of these they survive:

- `LiveAtHead` and `ListsApart` survive races: the index is as sound as before, and other processes'
  calls never unlink a record. What is lost is the data of the two that raced, so `OwnOrErased`
  excludes races, and it cannot watch them.
- `ListsApart`, `OwnOrErased` and `ChangedByOwnCall` survive kills at every point
  but the torn one: a kill makes records unreachable and loses the entry the process was
  working on, and spoils nothing else.
- A torn delete is the exception: the next store of that size reuses a record that
  another key's chain still holds.
- `ReadsOwn` and the locks proper need nothing from `events` but that no lock was refused.

A kill loses no write that was made: the model is about the death of a
process, not of the machine, and what `write` has accepted the kernel keeps.

`ApueDbCalls` is `ApueDbShared` with one process and a memory of the state in
which it entered its call. `ImplementsCalls` states that when a call returns, files, `ptrval`,
position and answer are those of one step of `ApueDb`. The two modules
were read from the code separately and differ in everything (an extent there is a run of cells
here, a walk there is a predicate, here a loop), so this is a check of both.
`CallsAssumption` says what the two have to agree on: there is a process, every process
scans (otherwise `ApueDbShared` does not follow the position of `idxfd`), and the lengths of
the data lie between `DATLEN_MIN` and `DATLEN_MAX`. Data of other lengths are turned down
before the first system call (`StoreInvalid` in `ApueDb`), and `ApueDbShared` leaves them out.

### `Player`: two threads and a list

A node of the list is the number of the line in it. Each thread has a program
counter, and an action is what it does between two accesses to shared memory
that the other thread may see. The main thread runs `read_data` (lines 43 to 105, the
actions `P...`) and then joins the other (`PJoin`); the second runs `process_data` (107 to
145, the actions `C...`). `pthread_cond_wait` is several steps (release and wait, be woken,
acquire) and may return without a signal. `malloc` and `getline` may fail, which
ends `read_data`, `main` and so the process.

After the loop `read_data` touches the list without the mutex: it loads
`queue_current`, writes the end mark through it, and loads it again. These
are steps of their own, with `process_data` in between; where `queue_current` has
become null the process crashes, as it would on the machine. That is how the
last line, and at most that one, can be lost. A node's address can be
reused after `free`, but as `queue_current` is reset under the same lock the
code never compares a stale address, so nodes get fresh numbers.

### `FdPassing`: the client that has its files opened by a child

`client1.c` reads file names, and for each one forks a child that executes
`opend1`. A process number stands for the child, for the socket its parent binds and for the
connection it opens, as there is one of each per line.

| model | code |
|---|---|
| `ReadLine`, `Cat` | `main`: `fgets`, and the loop that copies the file |
| `TellWaitFork`, `Unlink`, `Bind`, `Listen`, `TellChild`, `Accept`, `Write` | `csopen` in the parent |
| `WaitParent`, `Connect` | `csopen` in the child, up to `execl` |
| `RecvFd`, `RecvEnd` | `recv_fd` |
| `Request`, `Hangup` | `main` and `request` of `opend1`, with `send_fd` |
| `holds` | who has which socket and which client's end of a connection open; `fork` copies it |
| `WritePipe`, `Kill` | `SIGPIPE` in the client; a child that is killed |

Three things of the code decide its behaviour. `csopen` returns `EXIT_FAILURE`, that is 1,
and `main` takes that for a descriptor: after `unlink`, `bind` or `fork` has failed the client
reads its standard output (which fails: the model takes it for not readable) and goes
on, silently, while its child waits for ever (`Failed`). `ChildrenTold` says when that
can happen to a client that runs alone: only when nothing had the name of its socket at first,
for then `unlink` fails for every line and nobody ever binds the name. With several clients it
also happens when one finds the name gone at its `unlink`, or there again at its `bind`, because
another one is between the two. `ServersEnd` excepts the states with such a child. When
`connect` fails in the child, the child returns from `csopen` too, and is one more client
with a copy of the input that is left; so the set of clients can grow. And nothing closes sockets and
connections: each child has those of the lines before it, and a server
ends only when the client and all later children have. `Kill` may end any number of children.

### `UniqueConnections`: a server that knows its clients by name

The functions `serv_listen`, `serv_accept` and `cli_conn` as they are meant to be
used: a server that accepts for ever, and clients that bind a name made of their
process number. Process numbers come back when a process has ended, and names outlive
their sockets.

| model | code |
|---|---|
| `UnlinkOwn`, `Bind`, `Chmod`, `Connect` | `cli_conn`, call by call |
| `ServUnlink`, `ServBind`, `ServListen` | `serv_listen`, which gives up when there is no name to unlink |
| `Accept`, `Stat`, `UnlinkClient` | `serv_accept` |
| `Age`, `Crash`, `Exit` | `STALE` seconds pass over a name; the server is killed; a client ends |
| `file` | what stands under each client's name: whose it is, whether it is private and fresh |

`serv_accept` calls `stat` and `unlink` on a name, not on the connection, so what
it reads and what it removes can be two different names' content. `OwnUser` says that a client
that is there is nevertheless taken for its own user: it has bound the name before it connected,
and no other can while it lives. `TurnedDown` says who is refused without a fault of
its own: one whose name was removed in place of its predecessor's, between `stat` and
`unlink`. `InTheWay` says whom a name that cannot be removed keeps out. `chmod` is
tested by `0 < chmod(...)`, which never holds, so its failures go unnoticed (`Chmod`).

### `SocketTests`: the tests that share a socket name

Each test of `streams_pipe.c` (with its pipe handshake), `exchange_fd.c` and
`unique_connections.c` is a script, one for the test and one for its child: the calls
that can wait, fail or be seen by the other process, in the order of the source. One
action per call (`Bind`, `Listen`, `Accept`, `Send`, ...) executes the scripts; `Over` and
`Timeout` are the check library, which ends a test, kills its group and begins the next
one; `Again` runs the program once more, perhaps after an interrupt. All that one test leaves to
the next is what the name of the socket denotes.

`Explained` names every reason for which a test hangs, dies or fails. The child of
`exchange_fd.c` connects while its parent may not listen yet (line 168): it fails, and the
parent accepts until its time limit. A child that is quicker than `accept` leaves a parent
that `SIGPIPE` kills while it sends, and the test that closes the other end and expects
`send_fd` to fail is killed the same way. All the orders that the tests do control come out
right. `NameLasts` is about the name: the tests of `exchange_fd.c` and `streams_pipe.c` fail
without it and do not make it then, and once it is there no failing, hanging or killed test
takes it away, but for an interrupt between `unlink` and `bind`.

### `MessageQueue`: three ways to wait for a message

`mqueue.c` waits in `mq_receive`, `mqueue_sig.c` in `sigsuspend` for the signal of
`mq_notify`, `mqueue_thread.c` in a loop for a flag that the thread of `mq_notify`
sets. All three use one name, and the queue lives on when a run is killed; so several
runs, of any of the three, share `name`, `msgs` and `reg` (who is registered).

| model | code |
|---|---|
| `Start`, `Open`, `Block`, `Notify`, `Fork`, `Receive`, `Spin`, `Close`, `Unlink`, `Wait` | the test, in the order of its calls |
| `Handler`, `ThreadStarter` | the handler of `SIGUSR1` and `thread_starter` |
| `Send`, `HandOver`, `SendFull` | `mq_send` of the child: into the queue, to a process that waits, or refused |
| `Reap`, `Timeout`, `Kill` | the check library, and a kill from outside |

Only a message that meets an empty queue notifies, and uses up the registration. That is
what `AlonePasses` is about: a run that has the name to itself passes whatever a
killed run has left. For `mqueue.c` that needs the full queue to be emptied for the
child to go on; for `mqueue_sig.c` it needs the signal to be blocked before the registration.
`RunsEnd`: each run that was started ends.

### `RtSignals` and `RtTimers`

`RtSignals`: the parent queues three realtime signals, a second apart; the child takes
two with `sigtimedwait` and lets the third call its handler out of `sigsuspend`. Nothing
makes the parent wait, so the module lets each signal be sent at any point of the child
and records in `early` those sent before the child was ready for them. Pending signals are
delivered by number, then by age. `InTurn`: unless one is early they arrive in the order of
sending, and none kills the child. `ChildEnds`: the time-outs of `sigtimedwait` lose
none.

`RtTimers`: a periodic timer against sleeps of three seconds, in whole seconds. The test may
be held up anywhere; expirations that pass meanwhile are merged into one signal
(`overrun`). `timer_getoverrun` is given an address that is no timer, and answers
-1 or the truth (`TimerHandler`). `QuitsInTime`: no signal is swallowed between the look at
the counter and the next sleep, for a test that is not held up quits at its second
expiration, and one that quits has seen two.

### `TtyModes` and `Pty`: terminals

`TtyModes` is `noncanonical_mode.c`: raw mode, then cbreak mode, with the settings to return
to in `save` and what to do about them in `ttystate`, which is assigned one call after the
mode has changed. `tcsetattr` may fail or do part of what it was asked for, and a signal may
come anywhere. `Restored`: the program leaves the terminal as it found it, but for a failing
call or a signal in that window; no `atexit` handler is ever registered. `SavedIsOriginal`:
the second `tcgetattr` does not save raw mode in place of it.

`Pty` is `my_pty.c`, which relays between a user and a program on a pseudo terminal.
Input and output are counted in buffers; the terminal holds `Cap` of them each way.

| model | code |
|---|---|
| `Fork`, `Sigaction`, `RelayRead`, `RelayWrite`, `RelayEnd` | the parent of `loop`, for the output |
| `KidRead`, `KidWrite`, `KidTell` | its child, for the input, which sends `SIGTERM` at the end |
| `SigTerm` | `sig_term`, which sets `sigcaught` and ends a read that waits |
| `Select`, `OneIn`, `OneWrite`, `OneOut` | `loop_one_process` |
| `Start`, `ProgRead`, `ProgWrite`, `ProgEnd` | the program (external): it may answer what it reads, write by itself, end |

`AllShown` names the only ways to lose output: a `SIGTERM`, and in `loop_one_process` the
input, of which it treats the end before the output that `select` found as well.
`EndTogether`: the parent of `loop` leaves no child behind, and the child kills no stranger,
unless a `SIGTERM` came from outside. `InputFlows` holds but for one jam that the module
found: `loop_one_process` writes to a program that waits to write to it. `EofEnds`: the end
of input ends the relay, but for a `SIGTERM` that fell between two reads, and a program that
never opened its terminal.

### `MCPrograms` and `MCValues`

Both put independent parts into one run. The variable `program` (`piece`) says which part
a behaviour is about; the variables of the others stay at `Idle`. The properties are
conjunctions of the modules' own ones, each under the condition that its part is there.

### `TrimString`

One action per turn of the loop of `trim_string` over a string of letters and
spaces, with the read and write positions; `Init` picks any text and `Again`
calls it on its own result. The reference, `Trimmed`, keeps what is no space and one space
between words, with no regard to how the code does it. `TrimmedRight` joins `InBounds`,
`TrimmedButTheEnd` and `TrimmedTwice`.

### `CalendarDate` and `Fraction`

`CalendarDate` has the functions of `Date.cpp` under their names. `dmy2dsbd` sums up
the years and months before a date; `getDMY` is given by where its two loops stop: the first
year, and the first month of it, that is longer than the days that are left. A date that does
not exist becomes 1/1/1000. `RoundTrip`: the two are inverse to each other and the order of
the numbers is that of the dates. `NextDay` compares with the calendar, one day at a
time. `WeekDays` compares `getWeekDay`, a sum of table entries in unsigned arithmetic, with
counting.

A test disagrees with `NextDay`: `test_date.cpp:78` and line 83 expect that nine days after today
only the day of the month has changed, to `tm_mday+9`. `addDays` goes on into the next month, as the
calendar has it, so the test fails when it runs in the last nine days of a month. The code
is right here and the test is not.

`Fraction` has a fraction that its operations change in place, an operand, which may be the
fraction itself, and `exact`, the value that the operation should give: sum, difference, product or
quotient of the two. C's
remainder has the sign of the dividend, so `gcd` may be negative and the loop of
`simplify` divides until it is 1. Both are functions of what can be divided (`Divisible`):
`simplify` returns before it comes to a zero. `ValueKept` and `Reduced` say that it ends with
the right value and no common divisor. There is one exception, and it is named: `divide` reads the
operand's numerator after it has assigned its own (lines 93 and 94), so a fraction divided by itself
is not 1 (`divideBySelf`). `slip` remembers by what it was divided once too often, and
`OverDenominator` says that the result is one over that. Nothing in the repository says what
dividing a fraction by itself should do, and no test does it. `NumbersRight` joins the properties
of dates and fractions.

### `ClockObserver`

Timers keep a list of observers, clocks a pointer to their timer; both are deleted in any
order. `Notify` calls each observer, and the destructor of the timer notifies with a null
pointer, which a clock takes for the end of its subject. `Registered`: a clock the user
leaves alone is in exactly the list it should be in, once. `NoUseAfterDelete`: nobody
is called after its end, unless the user has attached or detached a clock by hand, as
`Attach` and `Detach` are public.

### `Interpreter`

A node is its number; operators point to earlier nodes, so parts may be shared. The model
follows `Evaluate` (with the exception thrown for a name that the context lacks, and the
empty context, in which everything is false; `ValueOf` is one node's `Evaluate`, given those of
its parts), `Copy`, and `Replace`, which compares only as
many characters as the variable's own name has and so replaces `x` where `xy` was meant
(`Begins`). `CopiesKeepMeaning`: what a copy meant when it was made it means for ever,
although the constants of the originals are assigned to. `RightInPart`: what comes out in a
context that lacks names does not depend on them. Destructors are left out: none of them
reaches the parts of its expression.

### `ListIterators`

A list with `Get`, `Set` and growth, and an iterator of either direction. `Set` behind
the end doubles the list and does not store the item (`SetBehind`); `Get` divides by the
size, so a reverse iterator that was never sent to `First` crashes on an empty list
(`EmptyReadUnstarted`). `StoredStays`: what was stored survives the growth. `LoopsSeeAll`:
a loop begun with `First` has had every item when it is done, however the list
has grown meanwhile: the forward one all, the reverse one all there were at `First`.

### `Mazes`

A site is its place in the heap: a room with four sides, a wall, a wall that can be
bombed, or a door between two rooms. `CreateMaze` is the one of the four programs, with the three
kinds of factories as its argument. The prototype factory makes rooms and walls
out of copies, but its `MakeDoor` takes other arguments and does not override, so doors
are always made afresh. Copies of plain rooms share their sides, copies of rooms with a bomb drop
them. `Enter` opens the sides of a room with a bomb up to the first that is neither a door nor
such a wall. `Apart`: mazes share no part, even when they are made of copies, unless the user
rewires them. `DoorsLead`: the door leads from each of its rooms to the other. `BlownOpen`
and `OpenForAReason`: when `Enter` said that a bomb went off all sides are open, and no wall is open
without a bomb. `hasBomb_` is left out, as nothing reads it.

## 4. The runs

| run | question | bound | states |
|---|---|---|---|
| `store_is_map` | `IsMap`, `LiveAtHead`: does the store implement the map when no two keys share a chain? `HangsOnDeleted`: what does it take for a call not to return? `ScanComplete`, `ScanOnce`: does an undisturbed scan return every key once? | two keys on two chains, two data lengths, four records | 143,254 |
| `store_lists` | `OwnData`, `ExactFit`, `PtrsDistinct`: what survives when keys share a chain? | three keys on two chains, four records | 307,918 |
| `store_insert` | `Linked`: do the pointers link all that was added, up to the last one a pointer field can hold? | `PTR_MAX` below the number of records | 27,529 |
| `store_shared` | what do the record locks protect when the calls of two processes interleave? | two processes, two keys on two chains, two records, five cells | 1,630,100 |
| `store_calls` | `ImplementsCalls`: do the system calls of a call add up to the step of `ApueDb`? | one process, two keys, all flags, two records, six cells | 41,249 |
| `player` | order, no loss, no use after free, what each way to end leaves behind; `AllPrinted`, `EndsOrWaits` | four lines | 2,142 |
| `fd_passing` | `LinesOnce`, `SoloServed`: does a client that runs alone have each of its lines served once? `ChildrenTold`: which children wait for a parent that has gone on? `ServerStays`, `NobodyStuck`: what do several clients and kills change, and who waits for ever? | two clients with up to two lines and one, five processes, any child killed | 210,824 |
| `fd_cat` | is the whole file copied, as the comment says? It is not | one client, one line | - |
| `test_programs` | `NotifiedInTime`: is any message or signal lost? `TestsExplained`: for which reasons do the socket tests fail? `TakenForTheirOwn`: whom does `serv_accept` take? `TerminalsLeftInOrder`: what is left of the terminal and its output? `AllEnd`: do they all end? | see below | 264,396 |
| `values` | `TrimmedRight`, `NumbersRight`, `ObjectsRight`: does what is computed and built agree with what it stands for? | see below | 341,278 |
| `trim_ends` | do the comments hold that spaces at the ends are removed? They do not | texts of up to five characters | - |
| `free_name` | does the test of `streams_pipe.c` do without the name it is about to make? It does not | one execution | - |

Bounds. A walk sees two records, so two lists (a chain and the free list) with two records
each show all it can do; the fourth record gives deletes and stores of a third list room to
move pointers around. Equal and different data lengths are both there, so each of the four
paths of `db_store` is taken, from a free list with and without a fitting record. In
`store_shared` two records are enough for a record that moves, one that is reused, and two
appends that meet; `MaxRec` and `MaxDat` stop a store just before it would append beyond
them (`SeekDat`), never inside a write. It kills either process at any point, and
goes on for a while with the files that the kill has left; what a call changes at any length
after a kill is the theorem `OwnCallsOnly`. Two lines are enough
for a server that inherits the connection of another one, for the old socket and for a child
that reads on in its parent's input; the second client takes the name away at every point of
the first one's `csopen`; five processes are two clients and a child for each line, and a
`fork` that fails when there are clones. Four lines let the reader be ahead of the printer
by more than one node at every point of both programs.

Bounds of `test_programs`. Two executions share the message queue, of one message: one that
finds what the other left, or shares the queue with it, and a queue that is full; one of them is
killed. Each suite of socket tests runs twice, with an interrupt at any point, as all
that lasts from one execution to the next is one name. Two clients with two process numbers are
enough for a number used again, and two users, one of them root, for a name that cannot be
removed; a backlog of one makes the second wait; the server is killed once. The relay
gets four inputs: one in its own hands, one in the terminal, one the program has read,
and one more that jams it; one output beside the answers; one `SIGTERM` from outside.
The programs of `rt_signals.c`, `rt_timers.c` and `noncanonical_mode.c` need no bound.

Bounds of `values`. Seven characters hold every pattern of two words with doubled spaces
before, between and behind them. The dates are the days of the first two years, the spring
of a leap year, and the days around three ends of a century, one of them divisible by 400.
The fractions are made of -6, -1, 0, 2 and 3: both signs, zero, units, common divisors and
none. Two timers and two clocks, deleted in any order, with one call that the user should
not make. Expressions of three nodes that the user makes and three that copies add, over two
names of which one begins the other. Lists of zero to two items that grow up to four. Two
mazes by any of the three factories and one change by the user, before, between or after.

Constraints and symmetry. No property says anything about what follows a refused
lock or a torn delete, so `CONSTRAINT Unspoiled` goes no further there; the states at
the edge are still checked. `store_calls` stops at a kill too: `ApueDb` has no kills to be
compared with. After a race or a kill `store_shared` goes on while the data
file has at most two cells: room for a record, for its deletion and reuse, and for two
records that share the cells they raced for. The two processes are interchangeable
(`SYMMETRY`; the properties are safety properties).

Views. The `.cfg` files of the store give TLC a `VIEW` that drops what no
guard and no update reads in that run, the pointer fields of the records and
the last answer, where the properties do not read them either. `store_insert`
keeps the pointers, as `Linked` follows them, and `store_is_map` the answer.

Deadlock. `CHECK_DEADLOCK FALSE` stands only where the system may stop: the
store when the bound on records is reached inside a call that would add one or
when the caller does nothing more, the process of the player when it has ended
or when its printer waits for ever, the clients and servers when they have ended or wait
for each other, the test programs and the relay when they have ended, the server of
`unique_connections.c` when nobody connects, `trim_string` when it has returned, and the
objects of `values` when the bound on what the user does is reached.

Fairness, `player`: weak fairness for the steps of each thread, for the
operating system runs every ready thread; strong fairness for getting the mutex,
since without it spurious wakeups of the printer could keep the mutex from the
reader for ever, which POSIX scheduling does not do. Failures and spurious
wakeups are never forced. `EndsOrWaits` names the one way in which the program does not
end, and it is really reachable: the printer takes the last node before the end mark
is written, finds no mark, and waits for a signal nobody will send.

`fd_passing`: weak fairness for each process, as for the threads; kills are never
forced.

`test_programs`: weak fairness for each process of the program that is there (`Turn`; it
is what the module of each program states as `FairSpec`). A process that can go on does,
a signal that is pending is delivered, time passes, and the check library, which kills a
test after its time limit, does so when nobody in the test can go on. Nobody has to
start or kill a program, to type, to send a signal from outside, or to end the program on
the pseudo terminal; a client that waits may give up and need not. `AllEnd` puts
together the `RunsEnd`, `SuiteEnds`, `Answered`, `ChildEnds`, `TestEnds`,
`InputFlows`, `EofEnds` and `SignalEnds` of the modules.

`fd_cat` is a real disagreement: the comment at `client1.c:264` says "cat file to std
out", but `close(fd)` at line 272 stands inside the loop, so only the first buffer is
copied (and an empty file stays open).

`free_name` is a real disagreement: the comment at `streams_pipe.c:90` says "make sure
that this name is not in use", but line 91 takes a failing `unlink` for an error, so
the test fails when the name is free, as on a first run, and cannot pass
before somebody has made the name. By `NameLasts` it finds the name ever after, but for an
interrupt between its `unlink` and its `bind`.

`trim_ends` is a real disagreement: the comments at `trim_string.cpp:50` and
`trim_string.cpp:74` promise that starting and ending spaces are removed; `" a "` comes
out as `"a "`, since line 48 decides by the old character at the write position.
`TrimmedButTheEnd` says what does hold.

## 5. The proofs

All theorems hold for every value of the constants that satisfies the
`ASSUME`s of the modules; TLC evaluates these in every run. What a theorem needs beside them
stands in its statement, and there are two such things, both about the store: no two keys
share a chain (`NoCollisions`, `HashApart`), without which the code's walk unlinks the wrong
record, and every record number can be written as a pointer (`PointersFit`, `[]Fit`),
without which `_db_writeptr` refuses and leaves half of the lists written. The runs
`store_lists` and `store_insert` go where they do not hold.

`ApueDb_proofs`. The inductive invariant joins `TypeOK` to one fact that explains the
rest: record `r` owns extent `r` of the data file (`idx[r].dat = r`), and the key of the
two is the same. It needs both files to grow together, which is why `TypeOK` has
`Len(dat) = Len(idx)`. From it comes `DataIsOwn` (`OwnData`), without
any assumption on the hash. `NoSharedHead` (`PtrsDistinct`) is inductive by itself on top
of the types, as every operation swaps `ptrval` with a head; it needs
`PointersFit`, that no pointer is refused by `_db_writeptr`, which would break the swap.
`LiveRecordsFound` adds `NoCollisions` (the hash is injective): then a record in use is
the head of its chain, and the free list holds no record in use. So what a walk that never ends
looks at, a head and `ptrval`, are two different records that are not in use (`HangsSeeDeleted`,
`HangsOnDeleted`). `RecordsFit` (`ExactFit`)
needs nothing more than the invariant: a record gets its lengths when it is appended, and whatever
is written over it later was compared with them. `InsertLinks` (`Linked`) is about callers that
only insert and needs no hypothesis at all. Its invariant `InsertInv`: the free list is empty,
the head of a chain is the newest of its records that a pointer can hold, and the pointer
of each record is the newest such record before it. What the pointers lead to is a recursive
function; `WalkExists` gives the function that the paths from a head define, and then
`Reached` finds record `r` after at most `Len(idx) - r` pointers, by a smallest
counterexample.

The last part of the module uses these to prove `ImplementsMap`: each step of the
store is a step of `KeyedStore`, or leaves its variables alone, under
`NoCollisions` and `PointersFit`. Each of the store's actions has its own step. From the same
invariant it proves the scan: `ScanInv` says that while nothing disturbs a scan `idxfd` is behind
the record returned last, and that exactly what is in use before it has been returned.
A lookup of the key returned last ends at that same record (`LastFound`), since a key has one record
and that is the head of its chain: so it leaves `idxfd` where it was. `ScanReturnsAll` and
`ScanReturnsOnce` follow.

`ApueDbShared_proofs` is about any number of processes, with kills and refused locks
anywhere. Its invariant has three layers.

`Discipline`: where in the program a process can be with which call and key
(`Place`), which locks it needs there (`Needs`), that every lock in the table
belongs to a process at a place that entitles it (`Entitled`), and that no two exclude each
other. Every step of the system is one of four kinds, `Moves` (locks unchanged),
`Drops` (one lock released), `Acquire`, or leaving, and each kind has one lemma; the
thirty actions are then sorted into the kinds. `LockDiscipline` is the result.
`RefusalsAreLeaks` follows from it by the order of the locks: who waits for the tail
waits for a process that waits for nothing, who waits for the free list for one that
waits at most for the data file, who waits for a chain for one of these; so a cycle
needs a process that holds the data file while it waits, which is the lock
`_db_writedat` never gave back.

`Offsets`: the pointers in the files and everything a handle remembers are numbers of
records that exist, but for `idxoff` of a process about to append, which is one
more than the length of the index. It needs `Discipline` for one fact: while the index
grows no other process is about to append. `IndexAppends` and `TypeCorrect` follow.

`Lists` shows what the locks are for. It rests on `Guards`, which says of each process that
works in a chain that it holds the lock of that chain in the mode the call asks for,
which is more than `Discipline` does. `Lists` itself describes the lists between the writes of an
operation as well: no record is at the head of two of them, or remembered in a `ptrval` or held
by a process that has taken it off one list and not yet put it on the other
(`Apart`), what is on the free list is blank (`Blanks`), and at each place of the
program a process knows which record it holds, what its key is and which head it is about
to overwrite (`Doing`). A write to the index keeps this for the process that
makes it, and for the others because they hold other locks. So `ListsKept` needs `Guards`,
`Discipline` and `Offsets` together, and holds until a lock is refused or a delete is torn;
`NoSharedRecord` (`ListsApart`) reads it off when all calls are over. `LiveFound`
(`LiveAtHead`) adds `LiveReached`: a live record is at the head of its chain, or a process is
about to put it there.

`ApueDbSharedData_proofs` goes on with the data file. `Data`: the extents of two records
are apart, those of two processes that have appended and not yet linked are apart as well
(`NewApart`), each is filled with one datum of the record's key or is erased, and at each place
of a store or delete the process knows how much of it is written (`Works`). `AllStored`: while
nobody was killed, what a live record points to is erased only while the delete that
does it is under way. `DataKept` proves the two; `OwnData` (`OwnOrErased`) and
`ReadsTheirOwn` (`ReadsOwn`) follow. `OwnCallsOnly` is an action property, proved from
all these invariants, one kind of step at a time: a step of one process, a kill
included, changes what a lookup of a key finds only if the process is at a call on that key with
its chain locked for writing.

`ApueDbCalls_proofs` proves `CallsImplement`, that `ApueDbShared` with one process implements
`ApueDb`, for any keys, data, lengths, hash and `PTR_MAX`: keys may share a chain, and pointers may
not fit. The mapping is a memory, not a function of the state: `base` is the store as it was when
the call began. So the invariant, `Follows`, has to say at each of the places of the program what
the files are by then, as functions of `base`: `Simulated` goes through the program counters, and
`Wiped`, `Voided`, `Cleared`, `Untied`, `Supplied`, `Renamed`, `Lengthened` and `Headed` are the files
after the writes that a delete, a reuse and an append make one after the other. Beside the files it
tells what the process knows at that place (`Doomed`, `Chosen`, `Adds`: whether the key
is there, which record the walk has ended at and what led to it), so that each path of the program is tied to
the guard of one action of `ApueDb`. Extents are runs of cells in one module and
elements of a sequence in the other; what makes them correspond is `Pieces`: every record has a
run of cells to itself, as long as the record says, which holds one datum. A process alone
can neither be refused a lock nor race for the end of the file (`Alone`, `Laid`). `CallsFollow`
is the invariance, one lemma for each of the thirty actions (`...Carries`); it uses
`LockDiscipline` and `OffsetsInFiles`. `StepImplements` reads the refinement off it: a step
that ends a call is the one step of `ApueDb` for it (`FetchEnds`, `DeleteEnds`,
`ReuseEnds`, `AppendEnds`, `MoveEnds`, ...), every other one changes nothing that `ApueDb` sees, unless
from then on the walk looks at one record for ever: `SpinningHangs` shows that `ApueDb` hangs there,
and `SpinningStays` that nothing but a kill ends it. The invariant is about what happens until
the process is killed inside a call; from then on `base` rests.

`FdPassing_proofs`, for any number of clients, lines, processes and kills. `Connected`: a connection
waits in one queue at most and belongs to a process that serves, and a client that talks
holds its connection, at whose other end is an `opend1` that does not go before it has
answered. `ServersStay` follows. `Handed`: whoever's end somebody holds has connected, and nobody holds the end of a
connection that still waits in a queue; with it comes `TypeCorrect`. `OneReader` (`LinesOnce`) is about a client
that runs alone and needs more: `Sole` says where that client and its children can be, that a
child which was told to connect finds its parent in `accept` and the name bound to a
socket that listens, and that so far no other process has read a line. So no `connect` fails,
and no child returns into the loop that reads the input it has inherited. `NoneAbandoned`
(`ChildrenTold`) goes on from there. `Tells`: the name of the socket is there whenever the client comes to
`unlink` and gone when it comes to `bind`, so nothing fails between its `fork` and its `TELL_CHILD`, and a child that
waits to be told is the one its parent is about to tell; or the name has never been there
(`Unnamed`), and then nobody listens.

`MCPrograms_proofs`, for the small programs put together, of any size. `ProgramsInv` has
one inductive invariant for each of them; a step of one program is none of another.

- Message queues: a run that has the name to itself is on a course (`OnCourse`, one for
  each of the three programs) on which what it waits for is still to come from its child or
  already there. `AlonePasses` alone is not inductive: the course knows, for instance,
  that whoever is registered found the queue empty, and that `SIGUSR1` is blocked while it is
  pending. A step of a run leaves the others alone but for one that it hands its message
  (`Others`), so each operation has only its own course to keep.
- Signals: while none is early, the signals taken are the first ones in order and
  the rest of those sent are waiting (`Punctual`).
- Timers: `Counted` bounds the next expiration by the number there have been, held up or not;
  `OnTime` knows, for a test that is not held up, at which second it sleeps, and until when.
- Named connections: `Numbered` (no two clients that live share a process number, and a name
  belongs to a client with its number), `Queued` (nobody waits in the backlog twice), `OwnName` (what
  stands under the name of a client that has bound it is its own, unless it was removed
  in place of another's) and `Known` (what `stat` has found is the user of the client in hand).
- The relay: `Accounted` (what is written is shown, in the terminal or in the relay's hands),
  and for each variant when it may end.
- Terminal modes: the mode, the settings saved and `ttystate` at each point of `main`.

- The tests: each of the eight has a course (`TemplateCourse`, ...): where its two processes can
  be at once, what is between them, and what the name denotes. The courses end only in the
  outcomes that `Reasoned` allows. What one test hands to the next, after an interrupt too, is
  `Kept` and `Never` about the name: it is there, or somebody interrupted a test, or it was
  not there at first and then never will be.

`NothingMissed`, `UsersKnown`, `LeftInOrder` and `TestsAreExplained` are read off it.

`Player_proofs`. The invariant says where the mutex is held, how far each
thread has come (`Progress`), and that the list is the interval between the last line
taken and the last line read, with `queue_current` its last node or null
(`List`, `Current`, `Ended`). `NoLineLost`, `NoUseAfterFree`, `SuccessIsComplete` and
`CrashIsLate` follow for files of any length.

`MCValues_proofs`, for the pieces of `MCValues`, of any size. `ValuesInv` gives each its
inductive invariant (`ValuesSafe`); `TextTrimmed`, `NumbersKept` and `ObjectsKept` read
`TrimmedRight`, `NumbersRight` and `ObjectsRight` off it.

- Strings (`TrimInv`): in the first call what is written is what is to be kept of what was
  read (`Written`), but for one space more when the last word and a space after it have been read
  (`Trailing`); it has no space at its start and no two together (`Clean`), and `found_space` says whether the
  last character read was one. Behind the write position the argument holds its old text, which is what
  line 48 looks at. The second call gets a clean text, so it reads and writes at one position
  and puts each character back where it was, but for the space at the end.
- Dates (`DateInv`): the state says little, the calendar is what there is to prove. The days before a
  year, and before a month of it, grow (`YearsGrow`, `MonthsOrdered`), so that there is one year and one month where
  the loops of `getDMY` can stop (`YearFound`, `MonthFound`). Then every number has one date
  (`DateOf`, `OneDate`), which gives `RoundTrip`, and the date of the next number is the day
  after (`TheNext`). `WeekDays` goes from one first of January to the next (`NextJanuary`,
  `Januaries`) and from there along the table of the months.
- Fractions (`FracInv`): both are irreducible and `self` has the value of `exact`, or of one over
  `slip` after it was divided by itself. The
  remainders go down, so `gcd` is defined everywhere (`GoesDown`); it divides both numbers,
  and whatever does divides it (`GcdGreatest`); and it scales with them (`GcdScaled`). So one division
  leaves two numbers whose `gcd` is 1 or -1, and at most one more leaves 1: `ReduceIs` says that
  `simplify` ends, and where.
- Observers (`ObsInv`): a clock that was left alone stands once in the list of its living subject
  and in no other (`Listed`), and its subject has not ended.
- Expressions (`ExpInv`): operands are earlier nodes; no copy leads to a node that the user
  assigns to (`Unshared`), so its table of values stays what it was (`Meant`). That a copy means
  what its original does, and `Replace` what the original means in a changed context, is one lemma about
  graphs that are rebuilt node by node.
- Lists (`ListInv`): what a loop has had is what lies behind its iterator (`Looped`).
- Mazes (`MazeInv`): while the user has rewired nothing, the nine sites of a maze follow each
  other as `CreateMaze` makes them, those of a later maze behind those of an earlier one
  (`Laid`), and an open wall has a reason (`Reasoned`).

What these compute are recursive functions. That such a function exists is proved where it is
used, never assumed, and what it computes is proved by smallest counterexample: the
values where a claim fails have a least one (`LeastOf`), which contradicts the step from the
smaller ones (`OneByOne`, `EachNext`). So no theorem with an operator for a parameter is
needed.

Only model-checked: liveness, as TLAPS proves none under fairness: `AllPrinted`, `EndsOrWaits`,
`SoloServed`, `NobodyStuck` and `AllEnd`. Every other property of the passing runs has
a theorem.

## 6. What is not modelled

`PROJECT.json` lists every source file under `components`. Left out of parts that are modelled:

- record store: system calls that fail for other reasons than `EDEADLK`, files that
  `db_open` has not formatted (without `O_TRUNC` a new file has no tables), and two
  handles in one process (whose locks would not exclude each other);
- `my_pty.c`: opening a terminal and copying its settings, one step that may fail;
- `Date.cpp`, `Fraction.cpp`: formatting, conversion to floating point, and overflow of `int`;
- destructors of expressions, which reach nothing.

Left out for good, with nothing in them that a model could tell from its own text:

| part | why |
|---|---|
| `pseudo_terminal.c` | the relay of `my_pty.c` again, with `posix_openpt` |
| terminal queries, `archive_data.c`, scheduling and memory demos | straight sequences of system calls of one process |
| named semaphores | one process that takes and gives back a semaphore nobody else holds |
| character device driver, hello programs | a skeleton; a printed line |
| `test_apue_db.c` | a test that calls the store in one order; `ApueDb` has all orders |
| `Person.*`, `Employer.h`, `Position.h`, `Hondurota.h` | setters and lists that only grow; `hire` relates three objects in one step and nothing undoes it; the rest computes in floating point |
| TCP states | a state changes in one assignment, and prints |
| memento | the solver's pointer is only compared with null |
| virtual proxy, smart pointers | an object made on first use with one owner; the counts are those of the boost library |
| chain of responsibility | successors are fixed when they are made; a request is printed |
| mediator, flyweight | widgets that call back and print; a table filled on demand; a set ordered by addresses |
| compiler facade | it includes `Code_Generator.h`, which the repository does not have |
| template method | prints |
