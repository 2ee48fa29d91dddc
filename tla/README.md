# os2compat: TLA+ models, checks and proofs

os2compat is a library of POSIX functions that OS/2 kLIBC lacks. It has no main
program: its parts are sets of functions that share little code, and its
behaviour over time comes from the threads and processes that call them, from
the OS/2 kernel objects they are built of, and from files.

This directory holds the TLA+ modules that model those parts, the TLC
configurations that check them on small instances, and TLAPS proofs.
`PROJECT.json` maps every definition to the lines it models and lists the
runs, the mutants that show each property can fail, the findings, the hazards
and the theorems.

## 1. Inventory

| Part | State it keeps | Operations | Interacts with | What is hard | What makes it correct |
|---|---|---|---|---|---|
| Semaphores `thread/semaphore.c` | event `hev`, mutexes `hmtxWait` and `hmtxCount`, `count` | init, destroy, post, wait, trywait | threads of one process; kernel semaphores | every interleaving of kernel calls; signals; destroying after the last token | a counting semaphore; no lost wakeup; handles not leaked |
| Shared mappings `memory/mmap.c` | `m_mmap` per process; the memory object and its count, shared by processes; the file | mmap, munmap, mprotect, msync, fork callback | other processes through the object; the file | processes at the same time, death of a process, failure of each of the steps of `mmap()` | memory behind every alias; a right count; stores reach the file; the file is never set back |
| Private, fixed and anonymous mappings `memory/mmap.c` | `m_mmap`; memory objects; descriptors | the same | the program's memory and descriptors; fork | ranges that overlap; whose memory is freed | one owner for each object and descriptor; private stores stay private |
| Address of an alias in a forked child `memory/mmap.c` | objects allocated during the search | `aliasAtAddress()` | where the kernel puts memory | the kernel's choice is free | the alias at the address and nothing else left |
| Spawn `process/spawn.c`, `_response.c`, `exec.c` | `rsp_temp_start`, response files, an environment variable | spawn*, exec*, exit handler, start-up of the child | child processes through files | lifetime of the files against the children; threads; failures of spawn | the child gets the arguments; every file is removed once, after it was read |
| spawn2 `process/spawn2.c` | static pointers and handles of DLLs | spawn2ve, spawn2vpe, wait and its like | descriptors of all threads; LIBCx, LIBC | threads at the first call; descriptors of other threads | calls go to the right DLL; the child has the descriptors it was given |
| posix_spawn `process/posix_spawn/` | list of file actions; saved handle states; pointers to LIBC | add*, destroy, posix_spawn(p) | spawn2, descriptors | order of actions; two calls at once; failure in the middle | the child's handles are what POSIX says; the parent's are unchanged |
| select, poll `network/select.c`, `poll.c` | none between calls; a thread, pipe events, a mux semaphore and a cancel socket during one | select, poll | kernel events, `_std_select` in a thread | timeout against a late event; the thread against the end of the call | no lost event; the thread ends before the call; everything is closed |
| xpoll `network/xpoll.c` | a sorted array of descriptors | create, add, del, del_closed, query, wait | poll | boundaries of search and insertion; descriptors that close in between | a finite map from descriptor to events; nothing ready is left out |
| Addresses `network/getaddrinfo.c`, `getifaddrs.c`, `if_nameindex.c`; `io/scandir.c` | blocks of the heap, a socket or directory | one call each, and its free | ioctl, resolver, directory | memory on error paths | a complete list or nothing; what is freed is freed whole |
| pipe `io/pipe.c` | a counter of names | pipe | named pipes | two threads; fork | two ends of one pipe of one's own |
| Other `io/`, `getrusage.c`, `sched_yield.c` | none | wrappers | libc | | |

`testcase/` holds one single-threaded program per function (two waiters in
`semaphore-1.c`), so nothing that depends on interleaving, failing calls or dying
processes is tested there. The list of hazards in `PROJECT.json` names these at
their lines.

## 2. Modules

### AbstractSemaphore: what a counting semaphore promises

`live`, `value`, and for each thread the `call` it is in and its `result`. Each
call takes effect in one step between invocation and return: `Post`, `Take`,
`GiveUp` (trywait without a token), `Interrupted`. `Destroy` only happens
while every call has taken effect. A post at `SEM_VALUE_MAX` changes nothing
and succeeds, as in the code.

### Semaphore: `thread/semaphore.c`

| Model | Code |
|---|---|
| `handles`, `closing` | which of `hev`, `hmtxWait`, `hmtxCount` are open; progress of `sem_destroy()` |
| `count`, `posted`, `waitOwner`, `countOwner` | `sem->count`; the states of the three kernel objects |
| `pc`, `op`, `rc`, `seen` | a thread's place, its call, its `rc`, the counter it loaded |
| `owed` | ghost: tokens the program put in and did not get back |
| `PostLock` ... `PostUnlock` | one action per line of `sem_post()`: request, load and test, store, event, release |
| `WaitLock` ... `WaitUnlock` | the same for `sem_wait_common()`; `op` tells the two timeouts apart |
| `SemInit`, `SemDestroy`, `DestroyStep` | creation in order with the undo of a failure; one close per step, refused while the object is in use |

`sem->count` is no atomic variable: load and store are steps of their own, so a
change outside of the mutex would show. `sem_init()` is one step because no
other thread may use the semaphore before it returned. Error codes are
abstracted to `ok`, `eagain`, `eintr`.

The caller is assumed to be the program POSIX asks for (`Ready`, `MayDestroy`):
it uses only what is initialised, and destroys a semaphore when all threads are
out of it, or as soon as it has taken back every token. The second case is the
interesting one: the `sem_post()` of the last token may still be in progress.

A reuse of the memory of a destroyed semaphore by another object is not in the
model, nor are invalid handles that happen to be valid ones of something else.

### SharedMap: `memory/mmap.c`, MAP_SHARED with a file

| Model | Code |
|---|---|
| `attach[p]`, `Exists` | references of process p to the named memory object; the kernel keeps it while there is one |
| `refcnt` | the count in the first page of the object |
| `mem`, `file` | version of each page, in the object and in the file |
| `maps[p]` | `m_mmap` of p: address, pages covered, `mm->prot`, and the pages' protection now |
| `pc`, `req` | the step a call is at, and the mapping it works on |
| `Mmap`, `GetNamed`, `Dup`, `Alias`, `Ref`, `RefStore`, `Insert`, `Load`, `Protect` | the steps of `mmap()`, each with its failure and undo |
| `Munmap`, `Sync`, `Dec`, `DecStore`, `Drop` | `munmap()`, with `msync( MS_SYNC )` and `mmapFreeMem()` inside |
| `Msync`, `Flush`, `Reread`, `Mprotect` | `msync()`, `mprotect()` |
| `Fork` | the callback that takes one reference per inherited mapping |
| `Exit` | the end of a process, at any step |

Contents are versions: each store makes its page newer than everything before,
fresh memory has version 0, so that older and lost are comparisons. `CONSTANT
Faults` says which calls may fail and what programs may do; each run names its
own, so it is visible under which assumptions a property holds.

Simplifications. The names of objects are left out: there is one file. Its
length does not change. `msync()` and `mprotect()` are applied to whole
mappings. `fork()` with its callback is one step, since the parent stands still
meanwhile. A process runs one thread in the library
(`mmap.c` has no locks within a process either).

### Select: `network/select.c`

| Model | Code |
|---|---|
| `ready`, `event`, `open` | the state of pipes and sockets; posted events of pipes; event semaphores, `hmux`, `cancelsock` that exist |
| `ask`, `mode` | the sets of the caller, one set of descriptors here; its timeout: none, some, zero |
| `todo`, `avail` | the loop of `checkpipesems()` and what it knows about the pipe at hand |
| `found`, `sockSet` | results in `parms[]`: pipes and files; the sets of the sockets, which the thread shares |
| `hevSock`, `wsaErr`, `cancelled`, `thr`, `copy` | `hevSock` posted; `wsa.err`; `so_cancel()` was called; the thread and the sets it waits for |
| `had`, `held` | ghosts: asked for and ready at some time, and at all times, of the call |
| `Call` ... `Decide` | from `setfd()` to the test for pending events |
| `Query`, `Reset`, `Repost` | the loop of `checkpipesems( ..., 1 )`: the query, the reset, and the rest |
| `CreateMux`, `StartSocks`, `Inline`, `Awake`, `Timeout`, `Interrupt` | the mux semaphore, the thread (or `waitsocks()` in the caller), the results of `DosWaitMuxWaitSem()` |
| `Tell`, `Clear`, `Join`, `PeekPipes`, `CloseMux`, `Merge`, `Cleanup` | what follows an event, and the ways out |
| `SockBegin` ... `SockPost` | `waitsocks()` |

`_std_select()` reads its sets when it begins and writes them when it returns.
`so_cancel()` is taken to be remembered by the socket, the reading that favours the
code: it ends a wait that begins later too, if `cancelsock` is in its sets. A descriptor is
asked for in one way, a pipe for data or for space; exceptions are left out. The
build is the default one, `USE_SELECT_THREAD` 1 and without consoles. The number
of descriptors reported follows from `out`. One thread of the program
calls `select()`. After a timeout or a signal the socket thread goes
on (`select.c:563-589` neither cancels nor joins it) with arguments in a frame that
is gone; the model lets the next call begin when that thread has ended, and so says
nothing about what it writes to.

### FileActions, PosixSpawn, PosixSpawnTests: `process/posix_spawn/`, `spawn2.c`

`FileActions` is what POSIX says: `Child` executes a list on a copy of the
parent's table and directory. `PosixSpawn` is how the code gets there without a
fork: it walks the list in the parent, and undoes what it did.

| Model | Code |
|---|---|
| `fds`, `cloexec` | the parent's descriptors and FD_CLOEXEC flags, shared by its threads |
| `list`, `allocated`, `copies` | `posix_spawn_file_actions_t`; the copies of paths it owns |
| `w[t].pairs`, `w[t].saved`, `w[t].cwd` | the array of redirections, the array for `restore_handle()`, the directory |
| `Add`, `Destroy` | `posix_spawn_file_actions_add...()`, `..._destroy()` |
| `Call`, `Alloc` | the tests at the beginning of `posix_spawn()` and its arrays |
| `DoClose`, `MarkClose`, `DoDup2`, `DoOpen`, `DoChdir`, `DoFchdir` | one action of the list; `save_handle()` reads the flags and sets them in two steps |
| `Spawn2`, `Search`, `Collect`, `Start` | `spawn2ve()`, `spawn2vpe()`: the program's path, the descriptors passed on, `libcx_spawn2()` |
| `Restore`, `End` | the way back, one entry per step |
| `Tests` in `PosixSpawnTests` | the lists of `testcase/gltests/` and what their children look for |

A file is its absolute path. `libcx_spawn2()` is external: it takes pairs of
source and target, and a directory.

### ResponseFiles: `process/spawn.c`, `exec.c`, `_response.c`

| Model | Code |
|---|---|
| `files`, `rsp` | response files on the disk; `rsp_temp_start` |
| `MakeArg`, `MakeEnv` | `mkstemp()` and the writes |
| `Total`, `Give`, `Split` | the size of an environment; one turn of the loop, and the loop, that says which strings go to the file |
| `List`, `AddLoad`, `AddStore` | `spawn_add_rsp_temp()`: the load of the head and its replacement are two steps |
| `Spawn`, `Waited`, `After` | `_std_spawnve()` by mode, and what is done to the files after it |
| `ResponseEnv`, `ResponseArg` | `_response()` in the child |
| `Exit`, `Cleanup` | `spawn_cleanup()`, one file per step, while threads still run |
| `OtherMakes` | another process that makes a file under a name that is free |

Contents are abstracted to whole or short, since results of `write()` are
dropped; environments are sequences of lengths. Each call runs once.

### LocalMap: `memory/mmap.c` within one process

| Model | Code |
|---|---|
| `obj`, `prot` | memory objects of the process, protection of each page |
| `maps`, `fds` | `m_mmap` with `fixed`, `allocated`, `prot`, `fd`; open descriptors |
| `dirty`, `file` | pages with a private store; those of them that were written to the file |
| `Mmap` | `mmap()` of each kind, with the stage at which it fails and what that undoes |
| `Munmap`, `Msync`, `Mprotect`, `ForkChild` | the rest; `Containing` and `Exact` are the two searches in the list |

One thread is in the library at a time (there is no lock to model), so a call is
one step. What is behind a shared mapping of a file is left to `SharedMap`.

### AliasAt: `aliasAtAddress()`

The child of `fork()` needs the alias at the parent's address, and fills memory
below it until it falls there. `AllocPast`, `AllocTouches`, `AllocBelow` and
`AllocFails` are the branches of the loop; `Alias` is `DosAliasMem()`, which may
land anywhere that is free; `Cleanup` frees `apvTmps`.

### PollSet, Poll, Xpoll: `network/xpoll.c`, `poll.c`

`PollSet` is the promise: a finite map, and reports of members in ascending
order. `Xpoll` has the sorted array `fds` with `BinSearch`, `Add`, `Del`,
`DelClosed`, `Query`, and `xpoll_wait()` in steps: `Wait` (the first loop of
`poll()`), `SelectFound` or `SelectFails`, `FillResults` (the second loop) and
`Scan`. `Poll` holds the two loops as operators. `select()` is one step here,
`Select` has its inside; while it waits, other threads close and open
descriptors and events come and go.

### Loader: pointers to functions of other DLLs

`Begin`, `LoadLibcx`, `SymLibcx`, `Fallback`, `Std`, `LoadLibc`, `LoadLibc066`,
`SymLibc`, `SymSecond`, `SymDoscalls`, `CheckPtr`, `CallPtr` are the accesses of
`load_libcx_sym()`, `load_libc_sym()`, `load_posix_spawn()` and the wrappers to
the static pointers and handles, one per step. A DLL that is there has the
symbols.

### Lists: `getaddrinfo.c`, `getifaddrs.c`, `if_nameindex.c`, `scandir.c`

A block of the heap is an entry and the field that points to it. A list is made
field by field (`Make`, `Field`, `Link`), any allocation may fail
(`AddrinfoFails`, `IfaddrFails`, `NameFails`, `DirentFails`, `CallocFails`,
`ShrinkFails`), and `GiveBack` is `freeaddrinfo()` and its like. Only whether an
interface or directory entry goes into the list is modelled.

### Pipe: `io/pipe.c`

The five steps of `pipe()`: `Add` and `Name` (the counter is added to
atomically, then read again), `Create`, `Connect`, `Open`. Results of the DOS
calls are not looked at; a handle that was not set is taken to be no pipe.
`Fork` gives a process the counter of its parent.

### Library: the five smaller parts

`Library` extends `Xpoll` and instantiates `Loader`, `Lists`, `Pipe` and `AliasAt`,
with the constants and variables of all five: `part` is chosen at the beginning,
and a behaviour is one of that part. They share no state in the code either. It is
what the runs check and the proofs are about.

### MC modules

`MCSemaphore`, `MCSharedMap`, `MCSelect`, `MCPosixSpawn`, `MCResponseFiles`,
`MCLocalMap` and `MCLibrary` hold the constants for TLC. Operators preceded by a comment
"Mutant:" are changed copies, which no specification uses; `PROJECT.json` says
which property fails with which.

### Proof modules

`Semaphore_proofs`, `Select_proofs`, `SharedMap_proofs`, `LocalMap_proofs`,
`ResponseFiles_proofs` and `PosixSpawn_proofs` extend the module they are about,
`PosixSpawnChild_proofs` extends `PosixSpawn_proofs`. `Library_proofs` has a part for each
part of `Library`. Each begins with its inductive
invariant; see 5. Where a model recurs over a sequence, it does so with a recursive
function (`Sizes`, `Splits`, `Walk`, `DirAfter`, and in `Xpoll` the loops of `BinSearch`,
`Kept` and `Hits`), about which proofs are possible.

## 3. Runs

| Run | Instance | Result |
|---|---|---|
| `semaphore` | 3 threads, `SEM_VALUE_MAX` 2, at most 3 tokens owed, no signal in a request for a mutex | all hold; 331 383 states |
| `semaphore_trywait` | 2 threads | `TryWaitReturns` fails |
| `shared_map` | 2 processes, 2 pages, views {1} and {1,2}, 2 addresses each, 2 stores, 2 references per process, 1 lost reference; failures of dup, alias, malloc, setmem, fork; death anywhere; `mmap()`, `munmap()`, `fork()` one after the other | all hold; 4 784 517 states |
| `shared_map_faults` | 1 page; all failures, other writers, `mprotect()` adding PROT_WRITE; the same order of calls | `BackedAndCounted` holds; 1 187 563 states |
| `shared_map_overlap` | 3 references per process; all calls of two processes overlap | `AliasBacked` fails |
| `select` | a pipe for data, one for space, a file, a socket; all sets of them, all timeouts, all failures, signals | all hold; 129 856 states |
| `select_join` | no failures | `JoinEnds` fails |
| `posix_spawn` | 8 descriptors, 2 tables; one thread with all lists of up to 2 of 9 actions and the lists of the tests, a second thread with one list; `spawn2ve()` with 3 arrays; failures of memory and of LIBCx | all hold; 509 801 states |
| `response_files` | 2 calls, 3 names, another process; environments of up to 3 strings of 0 to 7 characters, limits 11 and 5 | all hold; 2.8 million states |
| `local_map` | 2 pages, the second free or of the program, 2 mappings, 3 descriptors | all hold; 677 250 states |
| `library` | xpoll: descriptors -1..3, one too large; loader: 2 threads, 5 sets of DLLs; lists: 3 items; pipe: 3 threads in 2 processes; alias: 7 pages | all hold; 1.3 million states |
| `library_alias` | the same | `AliasRetries` fails |

Properties of Semaphore. `EventMatchesCount` is the heart of the algorithm: the
event is posted exactly while there are tokens. `Implements` is the refinement
of AbstractSemaphore. `DestroyTouchesNoCaller` is the guarantee for the
program that destroys after the last token: it holds because the waiter cannot
get to the counter before `sem_post()` released `hmtxCount`.
`HandlesAllOrNothing` is about the chain of closes. `WaiterWoken` and
`PostReturns` are liveness.

Properties of SharedMap. `AliasBacked`: the object is never freed below an
alias. `RefCountConserved`: the count is the number of mappings plus those of
processes that died. `BackedAndCounted` is both. `NoLostStore`: while the object
is newer than the file, some process is left that will write it. `MapCurrent`: a
mapping is never older than the file. `FileNeverGoesBack` and
`StoresSurviveLoad` are action properties: no write of the library sets a page
of the file back, no read sets a page of the object back.

Properties of Select. `ReportedWereReady` and `HeldReported` bound the result from both
sides: what was ready at some time of the call, and what was ready all the time.
The second has one exception, the code's own: a first `_std_select()` that
fails counts as no event (`select.c:396`), and sockets are left out then.
`ResourcesReleased` is about all ways out, with the failures in the middle.
`ResultsStable`: no thread writes to the sets of a call that has reported
something. `TimedReturns`: a call with a timeout ends. Without one it
need not: `select_join` shows how it can hang beside a pipe that is ready.

Properties of PosixSpawn. `ParentRestored`: on every way out, and whatever two
threads do at once, the table of the parent is as it was, and no path is leaked.
`ChildAsPosix`: the child's table and directory are those of `FileActions`, for
lists in which no action uses a descriptor that an earlier one redirected or closed
(`Straight`) and calls that are alone in the library; outside of these the code
differs from POSIX, as its hazards say. `TargetsAsPosix` is what remains when calls
overlap: the redirections are right, only what is passed on besides can change.
`TestsPass` is what the repository's tests of `posix_spawn()` and `spawn2()` look
for, in every interleaving with failures and not only in the one run of a test.

Properties of ResponseFiles. `ChildServed`: a child misses its arguments only
when the disk was full, or when the parent ended first. `FilesListed`: every file
on the disk is with a call or on the list, and the list names no file of another
process. Both name their exceptions: the list has no lock, and a `P_OVERLAY` that
fails leaves entries. `EnvWhole`: the split of the environment loses and doubles
nothing and respects the limits, for every environment of the instance.

Properties of LocalMap. `ResourcesOwned`: every memory object has one entry that
will free it, every shared mapping has one descriptor of its own, and none of the
program's is closed. `PrivateStaysPrivate`: a store to private or anonymous
memory does not reach the file, although `msync()` and `munmap()` look mappings
up by address. Fixed mappings on shared memory of a file (`FixedOver` leaves
them out) break it: such a page belongs to two entries.

Properties of the library. `XpollIsMap` is the refinement of PollSet.
`Xpoll!HeldReported`: an entry that is ready all the time is in the results,
unless these are full. `CallsLoaded`: with LIBCx all waits go to LIBCx, even when
first calls race; without it, calls go to the fallback, unless they race.
`ListsOwned`: all or nothing, for every allocation that can fail, with the two
leaks of the code as exceptions. `PipesPaired`: two ends of one pipe of the
caller's own, unless two calls of a process overlap between the addition and the
name. `AliasPlaced`: the alias at the address and nothing else, or nothing below it.

Bounds. Three threads are needed for a waiter that owns `hmtxWait`, one queued
behind it and a poster; a capacity of 2 gives the transitions 0-1, 1-2 and the
full semaphore. `MaxOwed` 3 is one more than the capacity, so that tokens are
dropped. In SharedMap two processes with two mappings each give a first, a
middle and a last reference on both sides; two overlapping views show writes
of the wrong part; two stores give an older and a newer version;
`MaxAttach` 2 is one reference per address, which `Mmap` and `Msync` check
before they take another; `MaxLeaked` 1 allows the death of a process with one
counted mapping, or none. Larger numbers repeat these situations. In Select one descriptor of each
kind gives every combination of pipes, files and sockets, with a step of
the other ends between any two kernel calls of `checkpipesems()`.

In PosixSpawn the nine actions have a source that is open, one that is only open
after another action, a target that is a source, a directory that exists and one that does
not; two of them in a row give every pair of an action and one that
depends on it, and the test lists have five. The array grows by 2 (`Chunk`), so
that lists of two reach its end. Both threads close descriptor 3, so that each
meets the flag the other has set. In ResponseFiles two calls are enough
for a lost insertion, and three names leave one for the other process. The limits of the
environment are small, so that lengths lie on both sides of each. In LocalMap two
pages give mappings that contain, equal and abut each other, and three
descriptors can run out. In Xpoll sets of up to three cover the ends and the middle
of the search, a negative descriptor, and one that `FD_SETSIZE` excludes. `Chunk`
3 of 7 pages lets several temporary objects lie below an address.

In the passing SharedMap runs the programs call `mmap()`, `munmap()` and
`fork()` one after the other, since the code has no protection for the count;
`shared_map_overlap` shows what happens without that order. Stores, `msync()`,
`mprotect()` and the death of a process in mid-call come at any time.
`FileNeverGoesBack` fails once reads of the file may fail: the creator that
cannot read unmaps, and `munmap()` writes the zeros it has over the file
(`mmap.c:930-933`, `:971`). `NoLostStore` fails once `mprotect()` may add
PROT_WRITE, since `mm->prot` stays. Both are hazards in `PROJECT.json`.

Fairness. `FairSpec` has weak fairness of the steps of a thread inside the
library (a thread that can run runs) and strong fairness of its requests for a
mutex (the kernel serves waiters in turn, so a request is not passed over for
ever). There is none for calls, signals and `sem_destroy()`: nothing makes the
program do these. `semaphore_trywait` is a counterexample under this fairness.
In Select the caller and the socket thread have weak fairness each: both run
when they can, and a timeout comes. Data, signals and calls have none. The other
modules state safety only; nothing in them waits but for a child or for `select()`.

Deadlock. Every run checks it but `response_files` and the two of `MCLibrary`:
a process ends and each call is made once there, and the search of `AliasAt` ends.

## 4. Findings

Four disagreements have a run that shows them; their text is in `PROJECT.json`.

1. `sem_trywait()` blocks on `hmtxWait` behind a sleeping `sem_wait()`.
2. The count in the shared object is not synchronised: two updates at a time
   lose one, and the object is freed below a live alias.
3. The socket thread of `select()` may start after its sets were cleared, and is
   waited for without end.
4. `aliasAtAddress()` does not retry after an alias below the address, as its
   comment says: it goes on to ask for 0 bytes.

Others can be seen with the modules under different constants:

- a mutex request that a signal ends is taken for granted: with `"intr"` in
  `RequestRCs`, `EventMatchesCount` fails;
- `writeToFile()` returns 0 also when it failed (`mmap.c:205`): with `"write"` in
  `Faults`, `NoLostStore` fails;
- with `"read"` or `"upgrade"` in `Faults`, `FileNeverGoesBack` or `NoLostStore`
  fails (`mmap.c:933`, `:1012`);
- with a descriptor of the program in `AnonFds`, `munmap()` closes it
  (`mmap.c:977`), and `ResourcesOwned` fails.

And some were met while reading, and are outside of what the modules say:

- `msync()` looks for MAP_SHARED in its own flags, not in those of the mapping
  (`mmap.c:1071`), so MS_INVALIDATE does not read;
- `select()` resets the event of data that arrived after its query of the pipe
  (`select.c:227`); a call without a timeout may then sleep beside it;
- a MAP_FIXED anonymous mapping over memory in use is not zeroed;
- the child of `fork()` gets the protection of the time of `mmap()`, not that of
  `mprotect()` (`mmap.c:497`; `ForkChild` does so);
- references taken for the search of the name accumulate (`mmap.c:823`);
- `sem_init()` that fails closes handles that were not set (`semaphore.c:104`);
- one descriptor of `FD_SETSIZE` or above makes `poll()` of a whole set fail
  (`poll.c:108`), and a full set refuses `xpoll_add()` of a descriptor it holds
  (`xpoll.c:146`; `Add` does so);
- the name of a response file is relative if TMP is, and the child may have
  changed directory (`spawn.c:67`); an argument with a newline is two in the file
  (`spawn.c:173`, `:227`);
- the sizes of the arrays of redirections at `spawn2.c:329`, `:366` and
  `spawni.c:257` add one byte for the end mark, which is an `int`;
- `getaddrinfo()` tests `h_errno` after a path that does not set it
  (`getaddrinfo.c:321`).

## 5. Proofs

Eight modules hold theorems, for every value of the constants that the named
assumption of the module allows: any numbers of threads, processes, descriptors,
pages, names, any lists and environments. The theorems of `Semaphore` and `SharedMap`
and two of `LocalMap` need more than that, and 3. and 4. say why: what they exclude are
behaviours in which the code does not keep the property.
`TestsAssumption` is of another kind: it is what the tests themselves set up.

| Module | Assumed besides | What of the program it says |
|---|---|---|
| `Semaphore_proofs` | `SignalFree` | no signal ends a request for a mutex |
| `SharedMap_proofs` | `Serialized` | `mmap()`, `munmap()`, `fork()` of different processes do not overlap |
| | `FileReliable`, for what is in the file | the library's reads and writes of the file succeed, no other program writes it, `mprotect()` adds no PROT_WRITE |
| `LocalMap_proofs` | `NoFdForAnon`, for descriptors | -1 is passed with MAP_ANONYMOUS |
| | `NotOverShared`, for private stores | nothing is fixed on shared memory of a file |
| `PosixSpawnChild_proofs` | `TestsAssumption`, for `TestsPass` | the parent has what the tests need: descriptors, files, directories |
| the others | nothing | |

| Theorem | Statement |
|---|---|
| Semaphore `Invariance`, `TypeCorrect` | `IInv`, `TypeOK` |
| `Exclusion` | both mutexes exclude |
| `EventAgrees`, `DestroySafe`, `HandlesSafe` | `EventMatchesCount`, `DestroyTouchesNoCaller`, `HandlesAllOrNothing` |
| `Refinement` | `Spec => Implements` |
| Select `Invariance`, `TypeCorrect` | `IInv`, `TypeOK` |
| `Reported`, `Held` | `ReportedWereReady`, `HeldReported` |
| `Released`, `Stable` | `ResourcesReleased`, `ResultsStable` |
| SharedMap `Invariance`, `TypeCorrect` | `IInv`, `TypeOK` |
| `Backed`, `CountConserved`, `BackedCounted` | `AliasBacked`, `RefCountConserved`, `BackedAndCounted` |
| `FileInvariance`, `NoStoreLost`, `Current` | `IInv /\ FileInv`, `NoLostStore`, `MapCurrent` |
| `FileGrows`, `StoresSurvive` | `FileNeverGoesBack`, `StoresSurviveLoad`, which are action properties |
| ResponseFiles `Invariance`, `TypeCorrect` | `IInv`, `TypeOK` |
| `Served`, `Listed`, `Whole` | `ChildServed`, `FilesListed`, `EnvWhole` |
| LocalMap `Invariance`, `TypeCorrect` | `BaseInv`, `TypeOK` |
| `MemoryStaysOwned` | the part of `ResourcesOwned` about memory, for every program |
| `Owned`, `Private` | `ResourcesOwned`, `PrivateStaysPrivate` |
| PosixSpawn `Invariance`, `TypeCorrect`, `Restored` | `IInv`, `TypeOK`, `ParentRestored` |
| PosixSpawn (child) `ChildInvariance` | `ChildInv /\ Unanswered` |
| `AsPosix`, `TargetsAsInPosix` | `ChildAsPosix`, `TargetsAsPosix` |
| `TestsPassAlways` | `TestsPass` |
| Library `LibTypesOK` | `TypesOK` |
| `BinSearchFinds` | in a sorted array `BinSearch` gives the position of a descriptor or where it belongs |
| `LibXpollIsMap`, `LibHeldReported` | the refinement `XpollIsMap`, `HeldReported` of Xpoll |
| `LibCallsLoaded`, `LibListsOwned` | `CallsLoaded`, `ListsOwned` |
| `LibPipesPaired`, `LibAliasPlaced` | `PipesPaired`, `AliasPlaced` |

No property but `EnvWhole` is inductive alone. What the invariants add:

**Semaphore.** `CallInv`: where a thread is determines its call and whether it has a
result. `LockInv`: the owner of a mutex is exactly the thread between its request and
its release. `HandleInv`: how far `sem_destroy()` is determines which handles are
open, and nobody is inside a semaphore that is not ready. `EventInv`: what the owner of
`hmtxCount` knows: the value it loaded is the counter, a waiter past the event has a
token, a poster between store and event made the counter positive. `OwedInv`: `owed`
is at least the counter plus the posts that have not counted yet plus the waits that
have taken. This is what makes `DestroySafe` provable: with nothing owed no token is in
the counter or on its way, and a thread between store and release would contradict
that through `EventInv`. It needs the cardinality of sets that gain or lose one thread
in a step (`AddOne`, `RemoveOne`). `Refinement` is by simulation: `StepSimulation` maps
every step under `IInv` to a step of the abstract semaphore or a stutter. A post takes
effect with the event (or with the test that finds the semaphore full), a wait with the
store of the counter.

**Select.** `OpenInv` and `ThreadInv` say for each place of the caller what is open and
whether the socket thread may still run; `Released` and `Stable` are what they say of the
end of a call. `ReadyInv` and `SetInv` follow what is known to be ready on its way to
the result: a posted event, the pipe at hand, the sets while the thread has them.
`HeldInv` is the other bound: what was ready all the time is either found by now, or of
a kind that has not been looked at, and the caller waits only if there is nothing such.

**SharedMap.** The count is compared with a set, `References`, of the pairs of a process
and a mapping it has counted, so that a step adds or removes elements and no sum is
needed. `CountInv`: only one process works on the count, and what it loaded is the
count. `ReqInv` and `MapsInv`: what a call is busy with is on the list, or has an address
of its own, and the process holds a reference to the object for the list and one more
for a call that may give it up. `RefInv` is the equation at any time, not only
between calls. On it rests `FileInv`: until the creator has filled the object nobody else
is attached and it holds zeros (`FillInv`), from then on it is nowhere older than the file
(`CurrentInv`), and a page that can be written belongs to a mapping that `munmap()`
will write (`WriteInv`). `FillInv` is the reason why a write of the library never sets the
file back.

**ResponseFiles.** For each place of a call: which names it has (`NameInv`), that it owns
the files of these as long as it needs them (`OwnInv`), how far the child can be (`KidInv`).
The list: no entry twice (`SingleInv`), each of a call that is past inserting it
(`EntryInv`), the older of two entries of one name by a `P_OVERLAY` that failed
(`OrderInv`; otherwise the exit handler would remove the file of somebody else first), and
where the names are that are still to be inserted (`QueueInv`). `Single`, `Ordered` are
stated of the lists that calls have loaded too, since these become the list. `Whole` is a
fact about data: `Given` holds after each string of an environment.

**LocalMap.** `FormInv`: objects and entries lie within the addresses, and objects
beside one another. `OwnerInv`: an object of the library and the entry that frees it
correspond one to one, in address, length and kind. These hold of every program. `FdInv`: the
descriptors that failures leaked belong to no entry, those of anonymous mappings are
none. `PrivateInv`: nothing newer lies on a shared mapping of a file, so that the entry
that `msync()` or `munmap()` finds for a page of it (`Newest`) is this one, and no private
store is among its pages.

**PosixSpawn.** `SavedInv`: what each thread will undo is the flag of a descriptor of
the program's that had it off, or a descriptor of its own that no other entry names.
`TableInv`: the table differs from the program's by exactly these, whatever several threads
are doing. `MarkInv`: so it stays between reading the flags and setting them. With no thread in
the library there is nothing to undo, which is `Restored`.

**PosixSpawn, the child.** `Follows` relates the pairs and the directory that the walk in
the parent has noted to what the walk of `FileActions` would have made of the child
after the same actions. `PairsDone` and `FlagsDone` say what has been passed on besides
and which flags hold it back, and `Result` what the child that was started is.
`Follows` needs that a pair is never overtaken by a later action, which is what `Straight`
says of the list.

**PosixSpawn, the tests.** `TestsPass` says two things of a test. Its child finds what the test
looks for: that follows from `AsPosix` and the walk of each list through `FileActions`
(`PipedWalk`, `RedirectsWalk`, `DirRight`, `OpenRight`, `InheritRight`). And its call is not
refused with EINVAL, which takes an invariant of its own, `TestInv`. Its part `ValidOK` says that a
list that is `Feasible` (its descriptors are open, its file exists and a descriptor is
free for it, with nothing opened and no directory changed before) has by each action
noted no directory and opened no file that would make the next one fail. Its part
`ArrayOK` follows `spawn2()` with an array of three from the pairs of the array
to the child. The theorem holds for the parents in which the tests can run, which is
`TestsAssumption`: 0 and 1 are open and not FD_CLOEXEC, the pipe and the directory are at other
descriptors, one is free, and the files that the tests open exist.

**Library, xpoll.** `XpollShape`: the array is sorted, without doubles (`Sorted`), its entries
are of the right kind (`Good`), and there are no more than `FD_SETSIZE`. `HeldInv`: what was ready all
the time is, at each step of a wait, among what was asked for and is ready, then among
what `select()` found, then an entry with events; `Scan` then copies it, or a full array of
entries below it. The map is `MapOf(fds)`. Each operation is shown to do to it
what `PollSet` says, from what insertion, replacement and removal do to a sorted
array (`AddIs`, `DeletedIs`, `KeptIs`) and from `BinSearchFinds`. A wait changes no key and no events until
`Scan`, so its steps are stutters (`CheckIs`, `FillIs`), and `Scan` reports a subsequence of the
array, which is ascending for that reason.

**Library, pointers.** For a function with a fallback whose first calls did not overlap (`Serial`)
one thread at most is looking it up (`OneLooksInv`); what that thread has found so far follows from its
place (`LookedUpInv`), and without such a thread the pointer is untouched or final (`QuietInv`).
With LIBCx first calls may race: then the pointer is unknown or LIBCx's (`WithLibcxInv`), since
a store of anything else needs that the symbol was not found.

**Library, lists.** `HeapInv`: the blocks on the heap are those of the entries so far, the fields of the one at
hand and the array. `EntryInv`: these are fields that the free function of the list knows.
`CountInv`: what is in the list and what is still to come make up what belongs into it.
`RoomInv`: the array has a place for each that is to come. `LeftInv` is what a call that failed
leaves.

**Library, pipe().** `AloneInv`: while a call that overlaps with no other of its process still has to
read the counter, the number it will read is above all that are in use there; from then
on its name is nobody else's. `MakerInv` and `CallInv` tie instances to the handles
of the thread that made them.

**Library, aliasAtAddress().** `SearchInv`: during the search every object the library owns is in
`tmps`, below the address; at its end one is left besides, the alias at the address or
the last object past it, which the cleanup frees too.

Recursive functions. A theorem about all sequences needs that such a function exists and
what its values are. Both follow from the least place at which they would fail
(`Least`, on well-foundedness of `<` in `Nat`): `WalkExists`, `DirsExist` and `IteratesOn` build the
functions, `WalkIs`, `SizesAre`, `SplitsAre` give their values, and each invariant along a
sequence (`Follows`, `Given`) is shown at its least exception. `SearchExists`, `KeptExists` and `HitsExist`
do the same for the loops of `Xpoll`; `BinSearch` recurs on a range, so the least
length of a range takes the place of the least position.

### Only model-checked

- `WaiterWoken`, `PostReturns`, `TimedReturns`: liveness under fairness is out of the
  prover's reach.
- The four runs that expect a violation: each shows one behaviour of the code.

## 6. Plan

The plan is carried out: each module has its type invariant, properties and mutants, and
every safety property that a passing run checks has a theorem, under the assumptions
of 5. Worth doing next, where the code changes or is used otherwise:

1. Consoles in `select()`, and its build without a thread.
2. Several lengths and handles of one file in `SharedMap`.
3. The assumptions of 5: each goes with a repair of the code (a lock around the count in
   the shared object, a loop around requests that a signal ends).

Abstract specifications: `AbstractSemaphore` (refined by `Semaphore`), `PollSet` (by
`Xpoll`), and `FileActions`, with which `PosixSpawn` is compared. Composition:
`PosixSpawn` has `spawn2` inside; `Xpoll` is on top of `Poll`, and `Poll` on a `select()`
of one step.

## 7. Not modelled

The attribute accessors of `posix_spawn` but for the flags, the wrappers in `io/`
(`fcntl.c`, `freopen.c`, `setmode.c`, `socketpair.c`, `ttyname.c`), `getrusage.c` and
`sched_yield.c` have no state over time, or one libc call. The conversions of
addresses, names and numbers in `network/` and the order of `alphasort()` are data
without control. `mmap.c` with `USE_SHARED_MEM_FOR_ANON` 1 and `select.c` with
`USE_SELECT_THREAD` 0 are not compiled. Kernel functions, LIBC and LIBCx are
modelled as the code uses them, and marked external in the map.

## 8. How to run

    tlc -workers 4 -config MCSemaphore.cfg MCSemaphore
    tlc -workers 4 -config MCSemaphoreTryWait.cfg MCSemaphore
    tlc -workers 4 -config MCSharedMap.cfg MCSharedMap
    tlc -workers 4 -config MCSharedMapFaults.cfg MCSharedMap
    tlc -workers 4 -config MCSharedMapOverlap.cfg MCSharedMap
    tlc -workers 4 -config MCSelect.cfg MCSelect
    tlc -workers 4 -config MCSelectJoin.cfg MCSelect
    tlc -workers 4 -config MCPosixSpawn.cfg MCPosixSpawn
    tlc -workers 4 -config MCResponseFiles.cfg MCResponseFiles
    tlc -workers 4 -config MCLocalMap.cfg MCLocalMap
    tlc -workers 4 -config MCLibrary.cfg MCLibrary
    tlc -workers 4 -config MCLibraryAlias.cfg MCLibrary
    tlapm Semaphore_proofs.tla
    tlapm Select_proofs.tla
    tlapm SharedMap_proofs.tla
    tlapm ResponseFiles_proofs.tla
    tlapm LocalMap_proofs.tla
    tlapm PosixSpawn_proofs.tla
    tlapm PosixSpawnChild_proofs.tla
    tlapm Library_proofs.tla
