# A verification project for zsystem

zsystem is a small C++ library for Linux that executes programs: the class
`Process` forks a child, connects the child's descriptors to *producers* and
*consumers* of the caller, moves bytes between them until the child is gone,
and returns the child's exit code. Around it there are classes for arguments,
environment, descriptors, *features* of an execution (stopping it, measuring
its time), signals and signal handlers.

This directory holds TLA+ models of it, the TLC runs that check them on small
instances, and proofs, checked by TLAPS, that hold for all instances. Paths
below are relative to `src/src/main/zsystem/`; numbers are lines.

## 1. The system

| Part | State | Operations | Interacts with |
|---|---|---|---|
| `Process`, parameters (`Process.h` 65-132, `Process.cpp` 71-106, 573-602) | a map from handle to producer/consumer, a list of features | overloads and variadic templates of `execute()`, `addParameterStream()` | builds what the set-up reads |
| `Process`, set-up (`Process.cpp` 108-198, 204-267) | the program's descriptor table; `childFileDescriptors`, `parentFileDescriptors` | open a pipe or socket pair per stream, `fork()`; in the child: `dup2()`, close everything else | other threads of the program share the descriptor table, and every child starts with a copy |
| `Process`, the child after set-up (`Process.cpp` 269-357) | working directory, monitor process, its exit code | `chdir`, inner `fork()` for time measurement, `exec`, `waitpid` of the monitor | parent through the wait status, `PR_SET_PDEATHSIG`, shared memory |
| `Process`, parent's loop (`Process.cpp` 369-571) | open descriptors, poll results, `processed`, `allNpos` | `parentRun`, `parentPoll`, `parentProcess` | calls producers and consumers; the child through the kernel's buffers |
| `FileDescriptor` | one number, or none | open*, read, write, close, move, release, `setBlocking` | everything above |
| Producers (`ProducerStatic`, `ProducerFile`, `ProducerDynamic`), `ConsumerFile` | `currentPos`, `currentSize`, a buffer of 4096 bytes | `produce()`, `consume()` | called by the loop; write to and read from its descriptors |
| Features (`FeatureProcess`, `FeatureTime`), `SharedMemory` | a process number; a pointer to times that the monitor writes | `stop()`, `kill()`; getters | called from other threads while `execute()` runs |
| `Signal` | none | `sendSignal()` | `kill(2)` |
| `SignalHandler` | a list of handlers and the original action per signal | `install()`, `Handle` (removes on destruction), `saHandler()` | asynchronous signals |
| `Arguments`, `Environment` | `argv`, `envp` and their ownership | parse, copy, move | read by the child |
| `Logger`, `Backtrace` | none that matters | output | - |

### What makes each part correct, and what is hard about it

* **Parent's loop.** It must feed the child everything and tell it the end only
  then, consume everything that it writes, and return its exit code once it is
  gone. Hard: all descriptors are blocking, so every read and write must be
  known to be ready; `waitpid()` without `WNOHANG` is called whenever a pass has
  processed nothing, and from then on nobody moves bytes; one descriptor can
  serve two directions; producers and consumers are foreign code and may give up
  or idle; signals interrupt `poll`, `write` and `waitpid`.
* **Set-up.** Each handle of the child must refer to what was asked for and
  nothing else may be open in it, or somebody waits for end of file for ever.
  Hard: pipes get whatever numbers are free, several threads do this at once,
  any of it may fail half way, and `close`/`dup2` go through the handles in
  order.
* **Child after set-up, features.** A stop must reach the program, also through
  the monitor; a process number must not be used after the process was reaped;
  nothing may be left running when the caller dies; times may be read from
  another thread until the memory is unmapped.
* **Producers and consumers.** The bytes must arrive in order, once, whatever
  `write()` accepts.
* **SignalHandler.** A signal has its original action exactly when no handler
  is left; a signal may arrive between any two steps.
* **Arguments.** The sizing pass and the copying pass of the parser must agree.

The full list of hazards, each at its line and with the properties that cover
it, is in `PROJECT.json`.

## 2. How the models are divided

| # | Modules | Model | Proofs |
|---|---|---|---|
| 1 | `WaitStatus`, `Execution`, `ParentLoop`, `MCParentLoop` | the loop, the abstract promise of `execute()`, and that one implements the other | `ParentLoopProofs` |
| 2 | `ChildSetup`, `MCChildSetup` | descriptor tables of the program and its children, several threads | `ChildSetupProofs` |
| 3 | `Supervision`, `MCSupervision` | process numbers, `FeatureProcess`, the monitor, parent death, exit codes, the times | `SupervisionProofs` |
| 4 | `ByteStream`, `FileTransfer` | which bytes producers and `ConsumerFile` move, with short reads and writes, refining an abstract stream | `FileTransferProofs` |
| 5 | `SignalHandlers` | install, remove, moved Handles, signals in between | `SignalHandlersProofs` |
| 6 | `Arguments`, `Ownership` | the parser's two passes against what the words of a line are; who owns `argv`, `envp` | `ArgumentsProofs`, `OwnershipProofs` |
| 7 | `Calls` (extends `Ownership`), `MCCalls` | parameters of `execute()`, and what a sequence of calls that return or throw does to the caller's objects | `CallsProofs` |

`ParentLoop`, `ChildSetup`, `Supervision`, `FileTransfer` and `Calls` cut
`execute()` along its concerns: each has the part that it is about in single
steps and takes the others as one step or as something that may happen at any
time. What they share is the order of `execute()`: set-up, `fork()`, loop,
`waitpid()`, return. Abstract specifications are `Execution` (what `execute()`
promises) and `ByteStream` (what a producer promises).

Worth doing next: the refinement of `Execution` by streams that are not gentle,
as far as it holds, and getters of `FeatureTime` in another thread, if the code
ever orders them against `execute()`.

## 3. Modules

### `ParentLoop` (with `WaitStatus`, `MCParentLoop`)

One execution, from the return of `fork()` on. The three participants are the
parent's thread, the kernel's buffers and the child, an arbitrary
single-threaded program.

| Model | Code |
|---|---|
| `open` | the `FileDescriptor`s of `parentFileDescriptors` that hold a handle |
| `toProduce`, `toConsume` | the part of `pollResults` that `parentProcess()` has yet to serve |
| `allNpos`, `processed` | its locals |
| `pos`, `moved` | `currentPos` of a producer; progress of the `write()` in flight |
| `dropped` | consumers whose entry in the *copy* of the poll results was nulled |
| `sent`, `got`, `made`, `taken` | bytes that went into and out of each pipe, in units of a 4096-byte buffer |
| `childEnds`, `childOp`, `eof`, `status` | the child: ends it holds, the call it is in, the ends of file it saw, how it ended |

`Poll` is `parentPoll()` with `poll()` blocking until some descriptor has an
event; a hangup ends `poll()` without giving a poll result. `ProduceChunk` (a
`ProducerFile`, or a `ProducerDynamic` of a function: one buffer per call),
`ProduceStatic` and `ProduceString` (a `ProducerDynamic` of a string), which ask one
blocking `write()` for everything that is left, with `WriteUnit`, `WriteBreaks` and
`WriteInterrupted` for its progress, `ProduceNothing` (a producer of the caller's
own that idles) and `Consume` are one iteration each of
`parentProcess()`, with its bookkeeping in `Produced`, `Consumed`, `CloseIf` and
`AfterResult`. `Wait` and `WaitInterrupted` are `waitpid()`. Reading and writing
are atomic with poll's snapshot left behind: the child runs between any two
steps of the parent.

A count identifies bytes, because pipes are first-in first-out; which bytes a
producer writes after a *short* write is the subject of `FileTransfer`.
Consumers read what `MyConsumer` of `src/src/test/main.cpp` reads.

The liveness properties have a premise. A `write()` of everything
(`ProducerStatic.cpp` 34, `ProducerDynamic.cpp` 58) is made on a `POLLOUT` that
promises one buffer, and while it blocks nobody reads the child's output: with a
content larger than the pipe, parent and child can block on each other for ever.
So `Returns`, `ChildServed` and `ImplementsExecution` are stated, and checked, for
contents of these two producers that fit the pipe; `FittingWriteNeverBlocks` is why
that is enough. They also need a caller that survives `SIGPIPE`, producers that do
not idle, and streams that go one way.

### `Execution`

What the caller may rely on, without polls, passes or descriptors: units are
fed, the end is told only after the last one, everything made is taken, the call
returns when the child has ended and nothing is left, with the return code of
the status. `ParentLoop!ImplementsExecution` instantiates it.

### `ChildSetup` (with `MCChildSetup`)

| Model | Code |
|---|---|
| `table` | descriptor table of the program, shared by its threads |
| `stage`, `todo` | where each thread is in `execute()`; streams of the map it has not looked at |
| `childEnd` | `childFileDescriptors` (108-175) |
| `parentEnd` | handles in `parentFileDescriptors` |
| `child`, `childStage`, `install` | descriptor table of each child, where it is in `childRun()`, entries it has not installed yet |

What a descriptor refers to is a value: a file of the program, one end of the
pipe of a caller's stream, or nothing. `Prepare` is one iteration of 112-175,
with numbers given out lowest first as the kernel does; `OpenFails` and
`ForkFails` are the exceptions and what their unwinding closes; `Release` is the
destruction of `childRun`'s parameter in the parent. A file or an end of a pipe may
have the number of any handle. `Install` is 226-234 for
one handle, including the comparison of `dup2()`'s *result* with `EINTR`;
`CloseOthers` is 237-267 including the names read in base 32. `CloseOthers` is
one step because nobody else can reach the child's table.

### `Supervision` (with `WaitStatus`, `MCSupervision`)

| Model | Code |
|---|---|
| `caller`, `pid`, `rc` | where the thread is in `execute()`; `Process::pid`; what is returned |
| `featurePid` | the member of `FeatureProcess` |
| `times`, `shared` | `FeatureTime::timeData`; what the monitor wrote to the shared memory |
| `stage`, `status` | where the child and the inner child are in `childRun()`, and how they ended |
| `deathSig`, `pending`, `told`, `missed` | the kernel's `PR_SET_PDEATHSIG`; a `SIGTERM` on its way, handled by a program, or lost |
| `owner`, `stopper`, `stray` | who has the child's process number; another thread in `stop()`, `kill()` or `sendSignal()`; calls that signalled somebody else |

`First` is what `childRun()` forks, `Inner` what that forks if times are
measured; the part of `childRun()` that `ChildSetup` models is one step here, and
so is the loop of `parentRun()`. `Assign`, `Announce`, `Retract` and `Return` are
the four moments at which the numbers come and go; between `Reap` and `Retract`
the number may already belong to somebody else (`Recycle`). `Begin` and `Send`
split the check of the number from `kill(2)`; `FeatureProcess` reads its member
in both, and may by then read `noHandle`, which means everybody. `GetsTerm` is
the arrival of `SIGTERM`: a program may handle it, the monitor and a child before
`exec` have the caller's handler or none. The effect of a signal on the monitor's
`waitpid()` is a return with `EINTR`, so a handler is taken to be installed
without `SA_RESTART`, as `SignalHandler` does. The caller is taken not to ignore
`SIGCHLD` (`ParentLoop` has that case).

### `ByteStream`, `FileTransfer`

| Model | Code |
|---|---|
| `source`, `sink` | `currentPos`, `currentSize` and where the buffer starts in the content, of the producer and of the `ConsumerFile` |
| `written`, `ending` | the units that went into the socket, and whether the end was told, as a complete one or after an error |
| `open`, `step`, `pollIn`, `allNpos` | the descriptor, the position in `parentProcess()`, its poll result and its local |
| `echoed`, `gone` | the child, which copies its input, and may leave at any time |
| `file` | what the `ConsumerFile` has stored |

The stream is a socket pair because on a pipe `execute()` hands the file of a
`ConsumerFile` to the child itself. Units are numbers, so `written` and `file` are
compared with the content itself. `Refills` is a `read()` or a producer function
that gives less than a buffer, `Accepted` a `write()` that a signal cuts short,
`Consume` a disk that accepts less and then fails. A socket pair whose child is
gone stays readable for ever, which `Readable` says: after it has stored
everything, the loop does not come to an end. `read()` may fail where it can: of
the producer's file, and of the socket after the child has left with input
unread; a producer function may say `npos` at any time.

### `SignalHandlers`

| Model | Code |
|---|---|
| `handlers`, `original` | the list and `sigActionOriginal` of an `InstalledSignalHandlers` |
| `action` | what the kernel does when the signal arrives |
| `type` | `SignalHandler::type`, while the object exists |
| `handle` | the pointer in each `Handle` of the program |
| `op` | the rest of an `install()` (142-147) or `remove()` (163-165) in progress |
| `spoiled` | entries where an exception came between `sigaction()` and `push_back()` |

`EntryOf` is the table 66-83, with its entry for `child` that points to the list
of `SIGILL`. A signal changes nothing here, as `SignalHandler.h` 39-41 forbids
handlers to install or remove any; `Runs` is what `saHandler()` would call, and
the properties speak about it in every state, between two system calls too.
`Push` with a `Handle` that has a handler already is the assignment that forgets
it, and so is `Move` from another one, which may be empty. Not in the model: `sigaction()` fails only for signals that cannot be caught,
and those have no entry.

### `Arguments`, `Ownership`

`Arguments` holds the functions of the parser, one equation per pass and place
in the line, and next to it, without a scan, what the words of a line are
(`Words`): how many gaps there are, and which of the characters that are not
syntax come between two of them. `Characters` is what lines are made of; it has
the space and the backslash and not the character 0, so a `std::string` with a 0
in the middle, which the code would take for the end, is not modelled.
`Ownership` is a state machine over them: variables of both classes are
constructed, copied, moved, assigned (to themselves, too, where the code guards
against it) and destroyed in any order, and end up in a `Process`, by constructor,
or by `setEnvironment()` in a `unique_ptr`.

| Model | Code |
|---|---|
| `object` | `args`, `argc`/`envc`, `argv`/`envp` of each object |
| `heap` | the arrays and the strings in them |
| `given` | what the program makes its `Arguments` of: a line or an array |

A `std::string` that was moved from is taken to be empty. Without arguments
there is no array, so that `argv` is null (`Store`). Memory does not run out in
this module (section 6).

### `Calls` (with `MCCalls`)

| Model | Code |
|---|---|
| `parameters` | the parameters of the call, one template instance each |
| `streams`, `features` | `parameterStreams`, `parameterFeatures` |
| `stage`, `todo` | how far `execute()` is; streams it has not prepared |
| `held`, `handed` | which of a `ProducerFile` and a `ConsumerFile` still have their descriptor; handles of the call that got one |
| `mapped`, `timePtr` | the `SharedMemory` of the call; `FeatureTime`'s pointer |
| `pid`, `featurePid`, `children` | the member of `Process`, that of `FeatureProcess`, children not waited for |
| `broken` | calls that threw when they had memory or a child already |

Every exception is here: a list of parameters that contradicts itself, no
descriptor left, no memory, no process, a producer or consumer of the program
that throws. What is visible in it: a feature makes the template forget the
streams before it (`Process.h` 131); a call that throws while it serves leaves a
child that nobody waits for, a `FeatureTime` pointing to memory that is unmapped,
and numbers in `Process` and `FeatureProcess`; and a `ProducerFile` or `ConsumerFile`
alone at a handle gives its descriptor away for good, be it to a call that threw:
with none left it is served over a pipe like any other producer or consumer
(`Served`), and one beside a consumer or producer keeps its descriptor and is
served over a socket pair.

## 4. Runs

| Run | Instance | What it shows |
|---|---|---|
| `pipes` | four pipes: three units into one, two, which just fit, into one from a `ProducerStatic` and into one from a `ProducerDynamic` of a string; three out of one; buffers of two, one signal, the child may be killed | types; `waitpid` only when nothing is left to serve; no output lost; one big `write()` that fits never blocks; `execute()` returns; no call of the child blocks for ever; `Execution` is implemented, liveness included |
| `quitters` | two pipes and a socket pair, an oversized static producer, an idling one, consumers that refuse, early closes, `SIGPIPE` kills, `SIGCHLD` ignored | poll results stay valid through all of it, end of file comes only after all input, and over pipes a consumer that gave up is not called again |
| `waitpid_deadlock` (violation) | two pipes, the child closes stderr early | the parent sits in `waitpid()` while the child is blocked on stdout: the deadlock that the comment at `Process.cpp` 389-391 describes |
| `socket_closed` (violation) | one socket pair, a living child | when the producer is done, `close()` takes the consumer's direction with it, although the child has still to write |
| `threads` | two threads, files, socket pairs, pipes, one handle 4, the number of `EINTR`, handles 2, 4 and 5 free in the program so that ends get their numbers, and too few descriptors for both | children are connected to what was asked for, but for an end they had to close to make place, and to nothing else; nobody closes what is not his, failures restore the table, children get to `exec`, but for the one with handle 4, which spins |
| `leak` (violation) | nine descriptors open | the tenth and later are not closed in the child: it keeps the write end of its own stdin |
| `supervise` | with and without a monitor, and a handler of the caller's; two calls of `stop()`, `kill()` or `sendSignal()`, the caller killed at any time | codes and times come through the monitor; a `SIGTERM` reaches the program; nobody is left running untold; a late stop signals nobody |
| `orphan` (violation) | a monitor, one stop | a `stop()` that ends the monitor before the inner child has called `prctl()` leaves the program running untold |
| `transfer` | every producer of the library, five units, buffers of two, short reads and writes, a disk that fills up, a child that leaves at any time | the producers implement `ByteStream`; the file is a prefix of what the child wrote, and all of it in the end |
| `resends` (violation) | a `ProducerStatic` whose `write()` is interrupted | it sends the beginning of its content again instead of the rest |
| `signals` | three signals, two of which share an entry, three handlers, three Handles | handlers in a list are called, the original action returns, no Handle has a handler that is gone |
| `calls` | all lines of up to three characters out of a letter, a space and a backslash, arrays of up to two words; two variables and an environment; then two calls of `execute()` with all lists of up to three parameters for two handles, or with maps | the two passes of the parser agree, words survive copies of copies, every array has one owner, lists are refused exactly if they contradict themselves, and only calls that threw leave anything behind. |

The violation runs are the `findings` of `PROJECT.json`.

Also visible in the model, though no run is spent on it: over a *socket pair* a
consumer that said "no more data desired" is asked again, because 553 nulls a
copy. `DroppedStaysDropped` therefore is checked over pipes, where the
descriptor is closed at once. A producer that idles leads to the deadlock of
`waitpid_deadlock` as well, because 526 takes its 0 for the end of the pass's work
(`NoWaitpidDeadlock` fails with a stream out and one with an idler). And an end of
a pipe that has the number of the handle it is for, as with `execute(producer, 3)`
in a program with descriptors 0 to 2, is closed by 231 before it is duplicated: the
child runs with that handle closed.

### Bounds, and why they are enough

* Two to four streams: the loop treats streams independently but for
  `processed`, `pollResults` and the call of `waitpid()`; two streams of
  different kinds show an interference, the others stand between them.
* Sizes of two or three units over buffers of one or two: a producer meets a
  full buffer, a partial drain, the last unit and the end.
* One signal: it interrupts a `write()` or `waitpid()`, and each is started again
  from the state it left.
* `MaxOut` bounds the child's output, above the capacity, so that it blocks.
* Two threads in `ChildSetup`: interference is by descriptor number, between the
  one that opens or closes and the one that holds; `MaxFd` is chosen so that the
  second runs short. `MaxFd` is at most 1000 since longer listings of
  `/proc/<pid>/fd` need a second buffer of `readdir()`.
* Two calls of `stop()` and the like: one before and one after whatever happens,
  or one that ends the monitor and one that comes late. The process number is one
  value, because only whom it belongs to matters.

* Five units in buffers of two: two full buffers and a rest, so that each
  producer refills, is cut short within and between buffers, and ends.
* Three handlers: two types that share an entry, and one to compare; an entry
  has none, the first, another and the last of them.
* Lines of three characters: an escape, what it escapes and what follows, at the
  start, within and at the end. Two variables and a member: a copy of a copy, and
  both sides of an assignment. `Bystanders` and `Executed` keep the two halves of
  `calls` apart: `execute()` is called when no other object is alive, with one
  command line, since it reads the arrays only. `Named` has a plain handle,
  a `ProducerFile` and a `ConsumerFile`, which are all roles a parameter can have; a
  producer of the program's own comes in with the maps. `MaxParameters` is three: a
  handle named twice, and a feature or another handle after it. `MaxCalls` is
  two: one that throws and one that finds what it left.

`CHECK_DEADLOCK FALSE` is set where the parent may really stop: blocked in the
write of a `ProducerStatic` that does not fit while the child blocks on its
output (`quitters`), or in the deadlock or defect that is shown.

### Fairness

`ParentLoop!FairSpec`: the caller's thread is scheduled, and the child goes on
with its next system call until it exits; a program that runs for ever keeps
`execute()` from returning, rightly. Nothing is assumed of signals or of being
killed. `ChildSetup!FairSpec`: threads and children are scheduled.
`Supervision!FairSpec`: the caller's and the stopping thread, and the child up to
`exec` and as monitor, are scheduled, and signals are delivered; the program may
run for ever. `FileTransfer!FairSpec`: the caller's thread is scheduled; the child may stop
whenever it likes. `SignalHandlers` and `Calls` have safety properties only, and
assume no fairness. `Execution`
promises weak fairness of taking and returning only.

## 5. Proofs

For all values of the constants that satisfy the named assumptions.

`ParentLoopProofs`:

* `TypeCorrect`: `Spec => []TypeOK`. It is inductive, with the accounting of each
  buffer in it.
* `Snapshot`: `[]SnapshotHolds`. Besides the types it needs that the child can
  only make a descriptor *more* ready, and that one stream is served at a time.
* `CompleteInput`: `[]NoTruncatedInput`. The strengthening `InputInv` says of each
  producer that the child has read at most what was written, that `sent` is `pos`
  plus what is in flight, and that a descriptor whose producer has not failed is
  closed only when `pos` is the size; three parts for the child, the write in
  flight and the closing.
* `FittingWrites`: `[]FittingWriteNeverBlocks`, from `InputInv`: what is in the pipe
  was sent, and what was sent is less than a content that fits.
* `NeverHandedAgain`: `[]DroppedStaysDropped`. `DroppedInv` adds that a pipe's
  consumer that gave up has no descriptor any more, so that no later poll reports
  it.
* `WaitWhenQuiet`, `AllConsumed`: `[]WaitOnlyWhenQuiet` and `[]NothingLost`,
  assuming `Gentle`: no socket pairs, nobody idles or gives up, the child closes
  nothing early. `quitters` and the violation runs show that the assumption is
  needed. The invariant `QuietInv` says that `processed` is set once something of
  the pass was served.
* `ImplementsSafety`: assuming `Gentle` and a caller that does not ignore
  `SIGCHLD`, every step is a step of `Execution` or leaves its state alone.

`ChildSetupProofs`:

* `OwnEnds`: `[]EndsAreOwn`, without assumptions. `Arranged` and `TableInv` say what
  the descriptors of each thread refer to and that they are disjoint; the lemma
  `CloseMine` is the heart: closing what is one's own disturbs nobody.
* `Restored`: `[]TableRestored`, without assumptions. `TableInv` says what is held,
  not that nothing else is taken, so it is strengthened with `Accounted`: every
  descriptor is the program's, free, or held by some `execute()` that has not ended,
  and the program's are missing only where a file was handed over. Each way out of
  `execute()` closes exactly what it holds (`CloseAccounted`).
* `TypeCorrect`: `[]TypeOK`; the descriptors that a child has are in the table's
  range because those that were given to it are (`TableInv`).
* `StreamsConnected`: `[]Connected`, without assumptions. `Connected` excepts an end
  whose number is that of a handle installed before it, or its own, since the child
  has closed it by then (section 4). `ChildInv` adds that what a child
  has yet to install is still where it was unless an earlier `close()` has reached
  it.
* `OthersClosed`: `[]NothingElseOpen` for tables of at most ten descriptors, where
  reading a name in base 32 is reading it in base 10; `leak` has eleven.

`SupervisionProofs`, without assumptions:

* `TypeCorrect`, `Transparent`, `FinalTimes`: `[]TypeOK`, `[]MonitorIsTransparent`,
  `[]TimesAreFinal`. The invariant `LifeInv` says what a first process with a child
  of its own can have left (`MonitorInv`) and that the caller has that
  (`CallerInv`). The lemma `EndLife` covers all the ways in which a process ends,
  and `Codes` that 128 plus a signal passes `_exit()`'s eight bits unchanged.
* `Forgotten`: `[]NobodyForgotten`, because whoever has called `prctl()` is to be
  signalled or has been (`ArmedInv`).
* `LateStop`: `[]LateStopIsHarmless`: both numbers are taken back before `execute()`
  returns.

`FileTransferProofs`:

* `TypeCorrect`, `StoredInOrder`: `[]TypeOK`, `[]FileInOrder`. The invariant `Stored`
  says that the file ends where the buffer's rest begins, so that the next units
  are the right ones; a failed `ConsumerFile` keeps what it has. The lemmas on
  sequences (`PrefixOfConcat`, `PrefixExtend`) do the rest.
* `ProducersImplementStream`: `Spec => ImplementsStream`, if no `ProducerStatic` is
  interrupted (`resends` shows that this is needed). `Promised` says that what was
  written is a prefix of the content and that the buffer continues it; a source
  that is empty too early has failed, and so has a child that is gone, and
  neither ever writes again.

`SignalHandlersProofs`, for any set of signals:

* `TypeCorrect`, `AllAnswered`, `OriginalIsBack`, `HandlesAreOwners`: `[]TypeOK`,
  `[]Answered`, `[]OriginalReturns`, `[]HandlesOwn`. One invariant has three parts: an
  object is in the list of its type's entry and in no other (`ListsMatch`), an
  entry has the library's action exactly if its list is not empty or about to
  change (`ActionsMatch`), and Handles do not share (`HandlesMatch`). `TypeOK` needs
  them: what `remove()` restores must have been stored.

`ArgumentsProofs`, for lines and arrays of any length and any characters:

* `SplitType`, `Splits`: the constructor makes words of every line, and they are
  those of the reference, `Split(line) = Words(line)`. The functions of the parser
  are equations that look at later places of the line. That there is a solution,
  that it is the only one and what it is, is proved by induction from the end of
  the line: the least distance from it at which something fails (`Least`, from
  `WFMin` and `NatLessThanWellFounded`, `Backwards`, `Recursion`). `PassesAgree` and
  `CopyIsNextWord` say what the passes do up to the next gap; the reference counts
  gaps and characters, so that what is left of the line has one gap and one word
  less (`NextWord`, `SplitsFromEach`).
* `JoinedSplits`: `Words(Joined(words)) = words <=> Plain(words)`. One direction follows
  where the words lie in the line (`LaidOut`, `PlainFound`). For the other one, words
  that come out as they went in have as many characters and gaps as the line has
  places (`ContentsNumber`), which leaves none for a backslash, for a second blank
  or for one within a word (`NothingElse`, `FoundPlain`).

`OwnershipProofs`, `CallsProofs`, for any objects, parameters and number of calls,
each of the objects alone (first name) and with the calls between them (second):

* `ArraysOwned`, `ArraysOwnedByCalls`: `[]Owned`, inductive with `Shape`.
* `PassesFit`, `PassesFitByCalls`: `[]CopyFits`, by `PassesAgree` for the line that is
  given.
* `WordsKept`, `WordsKeptByCalls`: `[]WordsOfLine`. The invariant `Faithful` is that an
  object has line and words as they were given, or nothing, after it was moved
  from. A step keeps that because the arrays it deletes are those of the objects it
  is done for (`Survives`, from `Owned`); the rest is `Splits` and `JoinedSplits`.
* `TypeCorrect`: `[]TypeOK` of `Calls`, with `Effects` and the types of the objects
  (`Typed`).
* `TextsAssumption` only says that lines and arrays are made of `Characters`.
* `NothingLeft`, `PointersValid`: `[]LeavesNothing`, `[]PointerValid`, from the
  invariant `Effects`, which says what the call has set so far and that all else is
  of calls that threw.
* `Collects`: `[]CollectedAsGiven`, from the invariant `Gathered`, which adds that a
  list that is being collected is so at each step, the empty list included. What one
  more parameter changes in what the list says of a handle (`OneMoreRole`,
  `AddedSays`) is what `addParameterStream()` changes in the map, and it throws
  exactly if an earlier parameter excludes the new one (`ConflictMeans`).

Left to TLC: liveness (`Returns`, `ChildServed`, `ChildStarts`, `StopArrives`,
`EverythingStored`, the fair half of `ImplementsExecution`), since the provers do
not handle fairness. Every invariant and action property that a passing run checks
is a theorem, though some need the assumptions above; where one does, the
violation runs or the text say what happens without it.

## 6. What is not modelled

* A getter of `FeatureTime` in one thread while another is in `execute()`: a data
  race, with nothing in the code that orders the two (`Calls` has the getters
  that run between calls).
* Handlers that install or remove handlers, several threads that do, and a signal
  that arrives *within* `push_back()` or `erase()`: `SignalHandler.h` 39-41 forbids
  them. A signal between two steps of `install()` or `remove()` is in the model.
* Failure of `poll()` other than by a signal: descriptors of the loop are the
  library's own and valid. Failures of `read()` and `write()` are in
  `FileTransfer` and `ParentLoop`.
* `std::bad_alloc` in `Arguments` and `Environment`. In copy assignment it has
  consequences: after the old array was deleted (`Arguments.cpp` 118-142), `argv`
  still points to it, and the destructor deletes it again; `Owned` does not
  speak of that. A constructor that throws half way leaks what it has allocated.
* Two `FileDescriptor`s of one number: each descriptor that is handed to
  `execute()` belongs to one `ProducerFile` or `ConsumerFile` (`OwnerAssumption`).
* `EINTR` of `dup2()`, since its target was closed before, and failure of `close()`.
* `sprintf` into `procDirFd` for process numbers of six digits (240-241): the
  effect depends on the layout of the stack.
* `Logger` and `Backtrace`: output only. `FileDescriptor::setBlocking`,
  `getFileSize`, `openFile`: one system call each, used by no other part of the
  library.
* The build files and the test program, except for its consumer.
