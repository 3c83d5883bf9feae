# A TLA+ model of the posix-next POSIX layer

posix-next implements POSIX option groups on top of the Zephyr kernel. Most of
`lib/posix` is thin; what can go wrong lives in the parts that keep state of
their own and are called from many threads, and in the functions that convert
one representation into another. This project models those parts in TLA+,
checks them with TLC on small instances and proves with TLAPS, for every instance,
the invariants of all parts that keep state and some of the conversions.

Every definition that models code is mapped to its lines in `PROJECT.json`
("map"), as are the runs, the hazards that the properties are for, and the
theorems. Comments that begin with `(mutant)` mark operators that are no part
of a specification: each is a plausible mistake in the operator after it, and
is there to show that a property notices.

## 1. Inventory

| component | state | operations | what is hard | what makes it correct |
|---|---|---|---|---|
| reader-writer locks (`options/rw_locks`) | three semaphores, the owner | rdlock, wrlock, try, timed, unlock, init, destroy | four semaphore calls per operation with no outer lock; timeouts half-way | exclusion, permits conserved, no lost wakeup |
| semaphores (`options/semaphores`) | list of named objects with reference counts; kernel semaphores | open, close, unlink, init, destroy, wait, post | close and unlink in any order; names reused while old objects are open | exact counts, freed at the last reference, unique names |
| barriers (`options/barriers`) | count, mutex, condition variable | wait, init, destroy | one count for consecutive rounds; a chain of signals | nobody early, everybody eventually |
| message queues (`options/message_passing`) | list of queues, reference counts, descriptors; a kernel queue and a notification each | open, close, unlink, send, receive, notify, setattr | lookup, append and removal are separate critical sections; two samples of a length; notification threads | exact counts, no use after free, no leak, unique names, truthful sends, no lost notification |
| environment (`options/shared/env_common.c`) | array of strings, byte count | getenv, getenv_r, setenv, unsetenv | realloc failures half-way; array bounds; accounting | a map from names to values; every write within bounds |
| object pools (`options/shared/posix_pool.c`, elastipool patch) | objects in use | alloc, free, lookup by handle | callers hold different locks or none | a handle finds its own live object only |
| mutexes, condition variables (`options/threads_base`) | handles that may hold a static initialiser; kernel objects | lock, unlock, wait, signal, init, destroy | first use from two threads at once | one kernel object per handle, exclusion, reachable sleepers |
| threads, priorities (`options/threads_base`, `thread_priority_scheduling`, `shared/pthread_priority.c`, k-thread-cancel patch) | attribute objects; the kernel's threads | attributes, create, cancel, join, detach, scheduling | cancellation requested, enabled and asynchronous in any order, and acted on later; handles reused; ends of ranges | priorities read back; a request is never forgotten; a join gives what the thread ended with |
| spin locks (`options/spin_locks`) | a word from a pool | lock, trylock, unlock, init, destroy | lookup and compare-and-swap under different protection | exclusion |
| timers (`options/timers`) | timer object shared with an interrupt and a thread | create, settime, gettime, getoverrun, delete | status raced by settime, the thread and delete; the thread outlives the timer | an armed timer notifies; the thread of a deleted one finds that it must end |
| shared memory, mappings (`options/shared_memory_objects`, `mapped_files`) | unlocked list of objects, descriptors, memory | open, unlink, close, truncate, seek, read, write, map | no lock at all; unlink and close in any order; unsigned arithmetic | object and memory go with the last reference |
| signals (`options/signals`, `realtime_signals`, `shared/z_sig_set.c`, k-signal patch) | the kernel's mask, pending set, actions | sets, mask, action, kill, queue, pause, suspend, waits | sampling a delivery count; two numberings | no missed signal; signals keep their meaning |
| network databases (`networking/netdb_ent.c`) | a stream per database | get, set, end, searches | searches, enumerations and rewinds share a stream | streams owned, right entry |
| sockets (`networking`, `net/conversion.h`) | none of their own | calls that carry an address | two layouts, lengths in and out | addresses survive, buffers hold |
| descriptors, directories, select (`fd_mgmt`, `file_system`, `device_io`, zvfs patches) | flags and record locks of the kernel's files; a pool of directory streams | fcntl, dup, close, opendir, readdir, select | two numberings; locks shared by the descriptors of a file | reads back what was set; the locks are those asked for last |
| option parsing (`c_lib_ext/zephyr_getopt.c`) | five words between calls | getopt, getopt_long, getopt_long_only | state kept from call to call | every option, once, in order |
| pure functions (`c_lib_ext`, `c_lang_support_r`, `system_database*`, conversions) | none | fnmatch, strtok_r, getsubopt, strfmon, account lookup, gmtime_r, deadlines, inet_addr, attribute objects | bounds, signs, nesting | agree with a definition |
| configuration, logging, shell, stubs | none | tables and text | | see section 7 |

Components interact little: each keeps its own list or pool under its own lock
and relies on Zephyr's semaphores, mutexes, condition variables and timers.
Those are modelled by what the code uses of them: a counting semaphore is a
number that take waits for and give increases up to a limit, a condition
variable is a set of waiters of which a signal readies one, a message queue is
a sequence with a queue of threads pending on it. The parts of the kernel that
this repository brings along as patches (`zephyr/patches/zephyr`: signals,
cancellation, record locks, duplicated descriptors, descriptor flags) are
modelled from the patches and mapped to their lines; only what the repository
does not contain is external.

## 2. Modules

| module | what it is |
|---|---|
| `RwLock`, `RwLockProofs` | one reader-writer lock, one step per semaphore operation; its theorems |
| `Semaphore`, `SemaphoreProofs`, `MCSemaphore` | named and unnamed semaphores |
| `BarrierSpec` | what `pthread.h` promises of a barrier: cohorts of `Max` |
| `Barrier`, `BarrierProofs` | `barrier.c`, and that it implements `BarrierSpec` |
| `Mqueue`, `MqueueProofs`, `MCMqueue` | names, descriptors and lifetime of message queues |
| `MqTraffic` | messages through one queue, and their notification |
| `EnvSpec`, `Env`, `EnvProofs`, `MCEnv` | the environment as a map; `env_common.c`, and that it implements it |
| `StaticSync` | a mutex and a condition variable that are initialised on first use |
| `SpinLock` | spin locks in a pool |
| `Timer` | timers, their expiry and their notification threads |
| `Pthread` | thread attributes, priorities, and the life of threads |
| `ThreadsProofs` | the theorems about `StaticSync`, `SpinLock`, `Timer` and `Pthread` |
| `Signals` | signal numbers and sets; a thread's mask, actions and waits |
| `Shm` | shared memory objects, descriptors and mappings |
| `Netdb`, `NetdbLines` | the network databases: streams and searches; lines |
| `Sockets` | addresses between two layouts |
| `Files` | fcntl, directories, select |
| `GetoptSpec` | what getopt promises: a reader that goes through the arguments option by option |
| `Getopt`, `GetoptReference` | option parsing, call by call; the options of an argument vector by recursion, for TLC only |
| `Text`, `Money`, `Accounts`, `Convert`, `Objects` | pure functions, each next to a definition of what it should compute |
| `LibraryParts` | `MqTraffic`, `Signals`, `Shm`, `Netdb`, `Sockets`, `Files` and `Getopt` side by side, with their properties and with the conversions of `Convert` and `Objects` |
| `LibraryProofs` | the theorems about `MqTraffic`, `Signals`, `Shm` and `Netdb` |
| `ConvertProofs` | the theorems about `Sockets`, `Files`, `Getopt`, `Convert` and `Objects` |
| `MCThreads`, `MCLibrary` | for TLC: parts that share no state, in one run each; the first state says which part moves |

### RwLock
`rd_sem`, `wr_sem`, `reader_active` and `wr_owner` are the members of
`struct posix_rwlock`; `pc` says which semaphore call of
`read_lock_acquire`, `write_lock_acquire` or `pthread_rwlock_unlock` a thread
makes next; `reads` counts the read locks a client holds (POSIX allows
several). `mode` is the timeout: none, or one that passes, which stands for
both the try and the timed functions. `CONCURRENT_READER_LIMIT` is `Limit`;
the code makes it one more than the number of threads, so that it is reached
only by threads that hold several read locks. Permits are conserved where the
clients' read locks together stay within it (`Room`, in the run and in
`PermitsConserved`); the other theorems need no such bound. Clients
unlock what they hold, block only when they hold nothing, and destroy an
unused lock.

### Semaphore
`nsem_list`, `name` and `ref_count` are the named objects, `h` the handles
clients have, `count` the kernel semaphores' counts, `waitq` what each thread
waits on. All of `sem_open`, `sem_close` and `sem_unlink` runs under
`nsem_mutex` and is one step. Clients close no handle that a thread waits
through and use no semaphore while it is destroyed.

### Barrier
`pthread_barrier_wait` holds the mutex except in `k_condvar_wait`, so a step
is the code from one wait to the next: `ArriveAndWait`, `ArriveLast`, and for
a woken waiter `Return` or `WaitOn`. `serials` and `cohort` are history: the
number of complete cohorts, and the one a thread's call belongs to. `patient`
is the clients' habit: whether they wait for a cohort to drain before they
call again.

### Mqueue
`heap`, `mq_list`, `name`, `ref_count` and `desc` are the objects, the list
and the descriptors; `ptr` is the local `msg_queue` a call keeps between its
critical sections. `fault` is set when an object is freed that a descriptor or
another call still refers to: from there on the program's behaviour is
undefined and the model says nothing. `habit` is whether clients make these
calls one at a time. `lost` holds the descriptors that the failure path for an
oversized queue does not free.

### Env
`environ` is the sequence of strings before the NULL, each with the bytes it
has; `slots` is the room of the array. `allocated` is the byte count of the
debug build. `Lookup` is `getenv`. Names have one length, values differ in
length and text, which is all the code looks at.

### MqTraffic
`buf` and `waitq` are the kernel's message queue: a get takes the first
message and lets the first pending sender put its own, a put hands its message
to a pending receiver. `call` is where each thread is, with the locals of
`send_message` (the sampled length, the message); sampling, putting and
sampling again are three steps, as are the test and the store of `mq_notify`
and the call and the clearing of `mq_notify_thread`. `hist` and `missed` are
history: what each send returned, and whether a call ended that should have
notified.

### StaticSync
`mu` and `cv` hold a handle or the static initialiser, which the first call
that finds it replaces: test, allocation and store are three steps
(`LockTest`, `LockAlloc`, `LockStore` and the same for the condition
variable). `kmu` and `kcv` are the kernel objects. `habit` "warm" is a program
whose first call on an initialiser is made alone; the properties are for it,
and the model has the other as well.

### SpinLock, Timer
A spin lock's lookup and its compare-and-swap are two steps. A timer's object
is read and written by the program's calls, split where a call touches what
others touch, by the expiry and by the notification thread; `due` is history,
the notifications owed. `manner` "calm" is a program that makes no call on a
timer that is expiring or whose thread is busy, and creates none while the
thread of a deleted timer is still there. `timer_delete` wakes its thread and
requests its cancellation, which acts when the thread returns from a system
call: the thread outlives the timer even in a calm program and looks once more
at the status word of the object that was given back. What is claimed is that
this look, in memory that nobody else has got, tells it to end.

### Pthread
`attr` is one attribute object, `pth` the kernel's threads, whose slots are
used again. Priorities are converted as in `pthread_priority.c`, with its
ranges as constants. Cancellation is that of k-thread-cancel.patch, where all of it
is deferred: `pthread_cancel` marks the request, sets the result and, for a thread
that is asynchronous and enabled, queues a signal (`queued`; EAGAIN when the queue is
full, which no later call repairs: `lost`); the thread acts on it when it returns
from a system call (`CancelSignal`), and on a deferred request at a point of
cancellation. Cancellation is enabled when its signal is not masked, so that a
kernel thread starts with it disabled and `pthread_sigmask` may enable it without
looking for a request. A thread that ends runs its clean-up (`ending`) before it
can be joined.

### Signals
The numbers of the C library (`libc`: minimal, or as Cygwin's) and the
kernel's differ in ten signals. `ks` is the kernel's record of a thread, and its
masks, table of actions and deliveries are those of k-signal.patch: a signal
without an entry that is ignored by default reads as ignored, SA_RESETHAND resets
the handler and keeps mask and other flags, and `sigaction` may fail. `pause` and
`sigsuspend` are split at the sample, the change of the mask and the sleep, with
deliveries in between; `ran` and `cancel` are history, whether a handler or the
signal of cancellation came meanwhile.

### Shm
`shm` are the objects, `fdt` the descriptors, `pages` the memory mapped,
`maps` what the program has mapped. `shm_open` is two steps, before and after
it uses what it found. `shm_lseek` moves every descriptor of the object, as
zvfs-dup.patch has it. `Kept` is a program whose calls do not overlap, that
sizes an object once and does not unmap it while it exists.

### Netdb, Sockets, Files, Getopt
`Netdb` has a stream per database and the position of each stream; what the
lines say is computed by `NetdbLines`. `Sockets` keeps the addresses in
Zephyr's layout and what the program said they were; nothing but an assertion
compares a caller's buffer with what is written to it, so the model writes in any
case and counts the bytes (`got.len`). When CAN does not say where a message came
from, what is converted is whatever the scratch buffer held. `Files` keeps ZVFS's
flags and locks next to what the program was told. A record lock belongs to the
open file, whichever descriptor it was set through, and goes with the last of them;
there is one process, which never conflicts with itself. `Getopt` keeps `optind`,
`optarg`, `optopt` and the two words hidden in `opterr`; a step is a call. A build
with CONFIG_GETOPT_LONG lets plain `getopt` look for long options in a table that
is NULL: `how` "getopt_null" is that build, and an argument `--x` then ends in
"undefined". `Position` maps the five words to what `GetoptSpec` has, the argument
and the character to read next. `GetoptSpec` says where each call reads and where it
leaves the position, also behind a group whose last option has an argument, where
the next argument is read from its middle; it leaves open only which option an
argument means that begins with several long names, or with one that something else
follows, and what happens without a table.

### Pure functions
Each operator has the name of its function and computes what the code does,
loops and early exits included; next to it stands what it should give, written
without the code (`PatternAgrees`, `TokensAgree`, `MoneyAgrees`,
`AccountsAgree`, `CalendarAgrees`, `DeadlinesAgree`, `NumbersAgree`,
`AttributesAgree`, `HandlesAgree`, `InterfacesAgree`, `NetdbLinesParse`,
`SignalSetsTranslate`). Deadlines are computed in a smaller clock (two
nanoseconds a millisecond) so that rounding and saturation both happen, and in
a small int64 (`TimeLimit`) that a far deadline overflows, where it wraps around;
a clock that cannot be read gives no time. Sums of money wrap around as `uint64_t`
does, and are claimed to be right only where it does not. Attribute objects begin
with any contents: nothing is promised before an init or a destroy was accepted.

## 3. Runs

| run | instance | shows |
|---|---|---|
| `rwlock` | 3 threads, 2 read locks each, limit 6 | every interleaving of readers, writers, timeouts and unlocks: `wr_sem` is a token, `reader_active` is always owed, permits are conserved, a writer excludes readers unless one overtakes a last unlock, every call returns |
| `rwlock_exclusion` | the same | **violated**: a writer beside a reader |
| `semaphore` | 2 threads, 3 handles, 3 objects, 2 names, 1 unnamed, maximum 2 | counts, lifetime, names, waiters |
| `barrier` | 4 threads, count 3, 3 calls each | count, refinement, release of patient clients |
| `barrier_reuse` | 2 threads, count 2, 2 calls each | **violated**: threads stranded |
| `mqueue` | 3 threads, 3 objects, 3 descriptors, 2 names | counts and no leak under any overlap; names and memory when calls do not overlap |
| `mqueue_exclusive` | 2 threads, 2 objects, 1 name | **violated**: one name, two queues |
| `env` | 3 names, 3 values | bounds, one entry per name, accounting, refinement of a map |
| `threads` | 3 threads, 2 kernel objects of each kind, locks held twice at most; 2 timers, 2 notification threads; 1 thread slot, of the kernel or of user mode, 1 cooperative and 2 preemptive priorities | exclusion, reachable sleepers and full pools for mutexes and condition variables; exclusion of spin locks; timers notify, and a notification thread has its timer or is told to end; priorities; requests for cancellation are not forgotten |
| `library` | message queue: 3 threads, 2 sends, 1 slot. Signals: 17, which is SIGCHLD in one numbering and SIGSTOP in the other, that of cancellation (32) and a realtime one. Shared memory: 2 names, objects, descriptors, regions. Databases: 4 small files, 2 streams. Sockets: 7 addresses of which two at a time, both layouts, buffers of none, every structure's and the largest size. Files: 2 descriptors of one file or two, 1 lock, 2 bytes to lock, 2 streams, both numberings. getopt: up to 3 of 14 arguments, with and without a table of long options. Pure functions: inputs listed in `MCLibrary` | the properties of these parts |
| `mqueue_notify` | as in `library` | **violated**: an arrival is not notified |
| `getopt_groups` | as in `library` | **violated**: options are skipped |

Why the bounds are enough. Rwlock: three threads are a reader, a second reader
and a writer, or two writers and a reader, the most that the races in
`unlock` need; two read locks each show recursion. Semaphore: three objects
are two of one name (one unlinked) and another; three handles let an object
have two. Barrier: four threads for three places let two rounds overlap, and
three calls let a thread lap another. Mqueue: three threads are an opener, a
closer and an unlinker. Env: three names have a first, a middle and a last.
Mutexes: three threads are an owner, a sleeper and a signaller; a second
object is the one a leak or a double initialisation would take. Timers: two of
each let a handle be reused for another timer. Messages: with one slot the
second send waits, and the third thread receives or registers. getopt: three
arguments are a group, its argument and what is read wrongly after it; the 14
have every kind of option alone, in a group, and separate from its argument.
The pure functions are run on every short input over an alphabet that has a
character of each kind the code tells apart, and on values around every bound
in it (ends of eras and leap years, sizes and alignments around what an entry
needs, prefixes and separators).

`MCThreads` and `MCLibrary` hold parts that share no state: in each behaviour
one part moves, so that the run has the sum of their states and not the
product.

`barrier` ends without a deadlock check because the clients may stop calling;
`env` because the byte count only grows in the long run and its bound
(`MaxAllocated`) then stops the model; `threads` and `library` because a
condition variable may have sleepers and nobody to signal, a queue readers and
nobody to send, sends are bounded, and a pure function is one state.

### What the violations show

* `rwlock_exclusion`. A reader's unlock gives its permit, reads the count, and
  gives `reader_active` if all permits are back. Another reader can come in
  after the count is read. `reader_active` is then given while that reader has
  the lock, and a writer takes it. That is the only way: without such an overtaking
  (`NoOvertaking`) writers exclude readers (`ExcludesUnlessOvertaken`, section 5).
* `barrier_reuse`. The serial thread resets the count, signals, and may call
  again before the woken waiter has the mutex. The waiter sees a count that
  belongs to the next round and waits on; with as many threads as the barrier
  counts nobody is left to complete it.
* `mqueue_exclusive`. Two `mq_open` calls look the name up before either
  appends; both create.
* `mqueue_notify`. A receiver takes the new message before the sender samples
  the length again; the two samples agree, and nobody is notified.
* `getopt_groups`. `-ab val` leaves the index of the next character where the
  group ended, and the next argument is read from there.

### Other observations

Made while modelling, without a run of their own.

* Locks. A reader that queues behind a waiting writer blocks (`rwlock.c:178`
  says the writer has no priority, but it holds `wr_sem` while it waits). Two
  first calls on a statically initialised mutex or condition variable can use
  two objects. A contended `pthread_mutex_trylock` returns ETIMEDOUT and not
  EBUSY (`mutex.c:92`). A condition variable loses CLOCK_MONOTONIC when it is
  initialised; `pthread_condattr_setclock` and `pthread_barrierattr_setpshared`
  return a negative EINVAL; `pthread_condattr_init` refuses memory whose first
  bit happens to be set.
* Semaphores and environment. `sem_open` reads a value argument that a caller
  without `O_CREAT` need not pass. The byte count of the environment drifts
  upwards with more than one variable.
* Message queues. An oversized `mq_open` keeps its descriptor; with overlapping
  calls `mq_close` and `mq_unlink` can free a queue twice, and `mq_open` can
  count itself in a freed one. When the notification thread cannot be created
  `mq_send` returns -1 although the message is queued. A deadline in the past
  gives EAGAIN. A SIGEV_THREAD function cannot register anew, since the
  registration is cleared after it returns; an arrival on a queue that is not
  empty is notified too.
* Cancellation. `pthread_cancel` of a thread that called `pthread_exit` and is in
  its clean-up replaces the result that `pthread_exit` gave. A request whose signal
  found the queue full returns EAGAIN, and repeating it returns 0 and does nothing.
  A thread of the kernel has cancellation disabled until it enables it.
* Timers. The notification thread reads the status of an object that `timer_delete`
  has given back; when a new timer has got it by then, it goes on for that one. A
  one-shot timer that is armed again from its function is marked as
  not active, and its thread ends at the next expiry; so does one that is
  disarmed after it expired. `timer_delete` cancels by a handle that may be
  another thread's by then, and a timer whose status is not active is freed
  while the kernel still runs it. TIMER_ABSTIME subtracts the remaining time of
  the timer. A period below a millisecond is no period.
* Signals. `sigqueue` of a number without counterpart returns 0 and sends
  nothing; `pthread_kill` and `sigqueue` accept 32 and 33, which `kill`
  refuses; 32 makes `pause` and `sigsuspend` return although no handler ran. An
  action with the default handler and some flag, or one that SA_RESETHAND left, for
  a signal that is ignored by default, makes the kernel call K_SIG_IGN. The last
  real-time signal is ignored by default.
* Shared memory. Overlapping `shm_open` and `shm_unlink` can leave a descriptor
  of a removed object; a second `ftruncate` leaks the first memory; `munmap`
  unmaps the object's own memory; a negative offset is EOVERFLOW; a name that
  is unlinked and still open cannot be created again (EACCES); names with equal
  hashes are one. `lseek` moves the offsets of all descriptors of the object, also
  of one that was opened on its own. `mmap` takes descriptor 0 for no file.
* Databases. Without `stayopen`, `get...ent` returns the first entry each time;
  a line that mixes tabs and blanks is cut at the first blank; long lines are
  read as two. The `_r` functions leave `*result` as it was on ERANGE and EIO,
  and take the tail of a long line for a line.
* Sockets and files. `getaddrinfo` converts its hints and casts its results; `recvmsg`
  leaves `msg_namelen` as it was; an IPv6 scope is cut to 8 bits. `select` with no
  timeout passes a timespec that nobody wrote (`select.c:41`; `sys/select.h:117`
  says "NULL to block indefinitely").
  A failed F_GETFL is translated like a result. An address is written to a buffer
  that is too small for it unless assertions are on. Unlocking a part of a record
  lock drops all of it, and a lock that fails with ENOLCK has dropped the overlapping
  ones before; F_GETLK always answers F_UNLCK.
* Text and time. getopt does not advance past an unknown option, and long names match by
  prefix; plain getopt on `--x`, with CONFIG_GETOPT_LONG, reads through a NULL table; a
  deadline whose nanoseconds overflow gives a wrong timeout;
  in fnmatch a pattern that ends in a backslash reads past its end, and more than 64
  nested stars match nothing. `strfmon` returns a truncated text without E2BIG, and one
  that fills the buffer without a terminator; with a precision for which 10^n does not fit
  64 bits the digits are wrong. `inet_addr` accepts parts above 255.
  `if_nameindex`, when a name cannot be allocated, frees entries that nobody wrote.

## 4. Fairness

* `RwLock`: weak fairness of a thread's steps inside a call (the kernel runs
  ready threads); strong fairness of taking `wr_sem` (its wait queue is served
  in order among equal priorities); strong fairness of the clients' unlocks (a
  holder may make try calls in between). Client calls have no fairness.
* `Barrier`: weak fairness of a woken waiter, which queues for the mutex.
  Clients need not call, so liveness is claimed only for cohorts that are
  complete.

The other modules claim safety only: what they wait for (a sender, a
signaller, a signal) is up to the program.

## 5. Proofs

All theorems hold for every value of the constants that meets the named
assumptions (`LimitAssumption`, `NullAssumption`, ...).

* `RwLockProofs`. `IInv` joins the type, the token and the debt of
  `reader_active`, and adds that a lock that does not exist has nobody inside
  and that its owner is in the client or waits for `wr_sem`. The token is not inductive
  alone: a step that gives `wr_sem` must know that no second thread has it.
  The debt needs the token, because a reader's take of `reader_active` is
  protected by `wr_sem` only. From `IInv`: `TypeCorrect`, `TokenCorrect`,
  `OwedCorrect`, and the action property `ReadGrantCorrect`. For
  `PermitsConserved` the permits outside `rd_sem` are a set of pairs of a thread
  and a number (`Permits`), so that each step adds or removes one element; a take
  finds a permit because a thread that asks for one leaves its own part of the
  product of threads and read locks unfilled. It has the hypothesis `Room`, since
  the code does not check the take (`rwlock.c` l.284). `ExclusionUnlessOvertaken`
  has the same one: as long as no reader takes a permit while another is about to
  give `reader_active` (`NoOvertaking`), whoever reads keeps `reader_active` taken
  (`ReadersHoldActive`, the inductive part), and a writer that takes it finds no
  reader. The step that needs the permits is the comparison in `unlock`: a count at
  the limit then says that nobody reads.
* `SemaphoreProofs`. Exact counts, lifetime and unique names are proved
  together: that the object leaves the list exactly when nothing refers to it
  needs the count, and that the count of a new object is right needs that
  nothing refers to unlisted memory. Two lemmas (`OpenOne`, `CloseOne`) say
  what opening and closing a handle does to the cardinality. `WaitersCorrect`
  follows with the clients' rule that a waited-on handle stays open.
* `BarrierProofs`. `IInv` says that the count is the number of waiters of the
  gathering cohort and that no cohort number exceeds the number of complete
  ones. `Refinement` maps every step to a step of `BarrierSpec` or a stutter;
  the case that matters is `Return`, where a count of 0 implies that the
  caller's cohort is complete.

* `MqueueProofs`. `IInv` adds to the checked invariants that, until a queue is
  freed that something refers to, every pointer in the list, in a descriptor or
  in a call is to an allocated queue (`PointersLive`), and for clients that call
  one at a time what a call found out is still true at its next critical section
  (`OneCall`). The count needs `PointersLive`: a queue allocated anew must have no
  old descriptors. `NothingLeaks` needs the count: `remove_mq` gives up only
  because a descriptor is open. `CountsAreExact` and `UnusedQueuesAreRemoved`
  hold for any overlap of calls, `SerialClientsAreSafe` and `SerialNamesDenote`
  for one call at a time, as the violation `mqueue_exclusive` makes necessary.
* `EnvProofs`. Bounds and distinct names are inductive together: a failed
  `realloc` leaves an array that is larger than it must be, and `unsetenv` moves
  entries down (`RemoveAtIs`). The refinement needs distinct names, since
  `getenv` finds the first entry and `unsetenv` removes one: `LookupFinds` says
  what a search returns, and each call then changes the map at one name. The byte
  count is compared with the set of the strings' bytes, each told apart by the name
  it belongs to (`Strings`): distinct names make the bytes of two entries disjoint,
  and moving entries down changes none. `BytesAreCounted` says that the count covers
  strings and array, and `EnvTypeCorrect` that it therefore never wraps below 0.
* `ThreadsProofs`, mutexes and condition variables. `Sound` says that the owner of a kernel mutex and what the
  threads hold agree (`Owned`), that each kernel queue is a sequence without
  repetition of exactly the threads that sleep on it (`Queues`), that the
  objects in use are those stored or about to be (`Pools`), that one thread at a
  time replaces an initialiser (`Alone`), and what a thread knows where it is
  (`Knows`). None is inductive alone: handing a mutex to its first waiter needs
  the queue, and the queue needs to know that a waiter's handle has not changed.
  Four lemmas say what appending to, taking from and removing from such a queue
  does. From it: `MutexesExclude`, `NoWakeupIsLost`, `PoolsDoNotLeak`, for programs
  whose first call on an initialiser is made alone (`habit` "warm").
* `ThreadsProofs`, the other parts. Three invariants over the parts of `MCThreads`, from
  `ThreadsAssumption` (stack sizes and numbers of priorities are natural numbers,
  there is some priority, NULL is no object). `SpinInv` relates holders, words
  and pool. `PthreadInv` says that an attribute object that is initialised is one
  that `pthread_create` accepts, that a thread's kernel priority is the
  conversion of the one that was asked for, and, of a thread, what its result can be
  while it runs, cleans up and waits to be joined, and that a request which should act
  has its signal queued or was lost in one of the two ways that the code has;
  `PrioritiesConvert` shows that `posix_to_zephyr_priority` and
  `zephyr_to_posix_priority` are inverse on the priorities of each policy, for any
  number of cooperative and preemptive priorities. `TimerInv` relates the status
  word, the kernel timer, the semaphore and the place of the notification thread:
  which step of `timer_delete` has been made decides what the thread may find, and
  that a thread whose timer is gone is awake, its object free and marked as not active.
  From them: `SpinLocksExclude`, `CancellationsTakeEffect`, `PrioritiesAreKept`,
  `TimersNotify`, `ThreadsKeepTheirTimers`.
* `LibraryProofs` and `ConvertProofs`. Seven invariants over the parts of `LibraryParts`, in which one
  part moves at a time; what each part takes for granted of its constants is a
  named assumption (`MqAssumption`, `SignalsAssumption`, `ShmAssumption`,
  `NetdbAssumption`, `SocketsAssumption`, `FilesAssumption`, `GetoptAssumption`,
  `ConvertAssumption`).
  - `MqInv`, the largest: the kernel's queue of pending threads is exactly the
    threads that sleep; receivers sleep only on an empty queue, senders only on a
    full one; what has been taken grows only by a sender's own latest message; what
    a call will return agrees with what was taken of it; and for one call at a time,
    that a single thread is awake. From it: `SendersAreTold`,
    `SendersKeepTheirOrder` (of a sender, whatever others do), and
    `SerialArrivalsAreNotified`.
  - `SigInv`: what a waiting thread has sampled (`WaitKnows`) and that the kernel's
    actions and masks are the conversion of what the program set or SA_RESETHAND left
    (`ActionsMean`), from the two numberings being inverse where both have a number (`FromPosixIs`,
    `ToPosixIs`). From it: `NoSignalIsMissed`, `SignalsTranslate`.
  - `ShmInv`: open descriptors are listed objects, an unlinked object has a
    descriptor, a name finds one object, memory belongs to one object, and the
    reference count is the number of descriptors (`RefCountIs`). What `shm_open`
    found stays true between its two steps only because calls do not overlap
    (`Kept`). From it: `SharedMemoryIsSound`.
  - `NetInv`: each stream has one owner and stands behind as many entries as
    `get...ent` has returned (`Behind`, `Walks`). That the next entry is the right one
    needs the least line that has one (`LeastNumber`, from the well-foundedness of <)
    and the cardinality of the entries before it. From it: `DatabasesAnswer`.
  - `SocInv`: the socket holds Zephyr's form of the address the program said; with
    `AddressRoundTrip`, `AddressesComeBack`. The theorem has no condition on the
    buffer: it says when more is written than a buffer holds.
  - `FilInv`: ZVFS holds what the program set, in its own numbers, and each lock of
    a file is one that the program asked for last; with
    `LockGoes`, `LocksAfter`, `FlagsRoundTrip` and `CommandsArrive`, `FcntlRoundTrips`.
  - `OptInv`: between two calls the hidden `optind_prev` is `optind` (`Settled`), so
    that the resets on entry happen before the first call only (`ResetSettles`). With
    it `GetoptReads` maps every call to a step of `GetoptSpec`: what a call answers
    is computed for each way out of `zephyr_getopt` (`StopAnswer`, `ShortGives`,
    `OptionIs`), and compared with the reader's step (`StopReads`, `ShortReads`,
    `NameReads`). `GetoptAssumption`: no string contains its own
    terminator, and no option is a character or value that getopt returns for
    something else.
  - Conversions, which have no state. `CalendarCorrect`: the date that `gmtime_r`
    computes for a day, in any century before or after 1970, is the one a day later
    than that of the day before, with the leap years of the calendar; the proof goes
    through the eras of 400 years, the years of an era and the months counted from
    March. Numbers are integers: that a `time_t` may not fit the `int` of `tm_year` is
    not in it. `DeadlinesCorrect`: where the nanoseconds of two times and of their difference
    fit an int64, the timeout is the time left; beyond, the code's wraps around and
    nothing is claimed. It, `HandlesCorrect`, `InterfacesCorrect` and
    `SignalSetsCorrect` say of timeouts, pool handles, lists of interfaces and sets of
    signals what `PureFunctionsAgree` says of them in the run, for all values.

TLC checked every inductive invariant on the bounds of its component's run
before it was proved. The proof of `PrioritiesAreKept` showed that the order of
the calls is not condition enough: `valid_posix_policy` (`posix_internal.h` l.76)
accepts a policy that has no priorities when the kernel is configured without
cooperative or without preemptive ones, so the well-ordered program (`Choices`)
also sets only policies that have some.

Only model-checked:

* liveness (`EveryCallReturns`, `PatientClientsReturn`), out of TLAPS's reach;
* `PlainOptionsAreSeen`: it compares a sequence of calls with the options that a
  recursive definition finds in the arguments (`GetoptReference`), which takes
  induction over data. That each call reads the next option is `GetoptReads`;
* `PureFunctionsAgree`, for the functions that are recursive or fold over a sequence:
  fnmatch, strtok_r, getsubopt, strfmon, the account files, the lines of the network
  databases, inet_addr, confstr, asctime. `Text`, `Money`, `Accounts` and `NetdbLines`
  declare recursive operators, in whose presence the SMT backend is not available.
  `DatabasesAnswer` is therefore about any parsed files (`Parsed`), and that the
  lines parse is checked by TLC.

Every other invariant and action property of a passing run is a theorem.

## 6. Plan

What is left: `Mqueue` composed with `MqTraffic`, a queue that is closed while threads
wait on it; and the C widths of the calendar's fields.

## 7. Not modelled

Thread-specific data, `pthread_once`, sleeping, clocks, reading and writing
forward to Zephyr with the sign of a result turned; `sysconf`, `uname`,
`strsignal` and `strerror_r` are tables of build-time constants; `syslog` and
the shell format text; `aio`, `stropts`, memory locking, the priority ceilings
of mutexes and the scheduling of processes are stubs. `putenv` splits its
argument and calls `setenv`; `stpcpy`, `stpncpy`, `rand_r` and `qsort_r` are a
few lines without state. The headers of `include/` declare what the modules
use. The elastipool allocator, which is a patch to Zephyr, and the Zephyr
kernel itself are external and modelled by their use; the other patches are
modelled as far as section 1 says. Anonymous and physical mappings (`mmap.c`
l.74-95) forward to Zephyr and are left out.
