# wine_xdg_portal: a TLA+ verification project

`wine_xdg_portal` lets a Windows program that runs under Wine open the file
dialogs of the Linux desktop. The program links a static library that (a) works
its way out of the Windows world, that is, finds its own Unix process, the libc in
it and a way to make system calls, and (b) talks D-Bus to
`org.freedesktop.portal.Desktop` and waits for the user's answer.

This directory models that library: who dispatches which signal, which process a scan
of `/proc` meets, what is read of a process that may end, how Wine's machine code is
copied, what a failed call leaves behind and who owns what it returns. TLC checks the
models on small instances; TLAPS proves their safety properties for all instances.

All line numbers refer to the files of the repository.

## 1. Inventory

### Components

| Component | Source | State it keeps | Operations | Modelled in |
|---|---|---|---|---|
| Portal dialogs | `portal.c` | static `dbusConnection`; the filters registered on it; one `filterContext` per call, in the caller's stack frame | `dbus_init`, `portal_open_file_dialog`, `portal_save_file_dialog`, `portal_choose_directory`, `portal_open_files_dialog`, `portal_open_native_for`, callbacks `filter_func`, `filter_func_multi` | `Portal`, abstractly `Dialog` |
| Bootstrap | `wine_xdg_portal.c` 19-123, `recon.c` 16-64, `procfs.c`, `heavens.c` 239-359 | canary file and its mapping; the `/proc` enumeration with its `findData`; `pid`; static `heavensGate`; `code_buffer` and its protection | `wine_portal_init`, `find_pid`, the two `procfs` iterators, `hg_setup`, the gate | `Bootstrap` |
| find_libc | `recon.c` 66-393, `elf.h` | section list, `xloc`, `libcPath`, the tables read from `/proc/<pid>/mem` | `sections_add`, `sections_find`, `safe_str`, `find_libc` | `FindLibc`, abstractly `LibcSearch` |
| API wrappers | `wine_xdg_portal.c` 123-350, with the allocations of `portal.c` | none; results belong to the caller | the nine exported calls, `wine_portal_free` | `Wrappers` |
| Pattern parser | `pattern_parser.c`, `pattern_parser_sp.h` | position in the caller's string, 64-byte buffer | `pattern_parser_init_a/_w`, `pattern_parser_next` | `PatternParser` |
| String and path conversion | `string_conv.c` | none | URI, Unix, DOS and wide strings into one another | `Wrappers`; by outcome in `Portal` (`PathOf`) |
| Heaven's gate | `heavens.c`, `syscall.S` | `code_buffer`, the stack frame of the core | `hg_setup`, `decompile_copy`, `_syscall`, `syscall` | `Heavens`; by outcome in `Bootstrap` |
| errno conversion | `errno_conv.c` | none | one table | `Heavens` |
| Logging | `log.c` | one `FILE` | output | not modelled |
| libdbus, desktop portal, user, kernel | external (`src/dbus` holds headers only) | incoming queue, filter list; requests | as `portal.c` uses them | as the environment of `Portal` |

### How they interact

* `wine_portal_init` calls `find_pid` (which drives the two `procfs` iterators),
  then `find_libc` on the pid found, then `hg_setup` on the libc found, then the
  gate. Each stage trusts the result of the previous one; only the last one looks
  back, by comparing `getpidx()` with the pid.
* Several processes run this at once and see one another: through `/proc`, through
  the canary files in `/tmp` named after *Windows* process ids, and by ending.
* A wrapper of `wine_xdg_portal.c` calls one entry point of `portal.c`, which
  registers a callback on the one connection of the process. The callback is run by
  whichever thread dispatches and writes through a pointer into the stack frame of
  the call that registered it.
* While it builds its request, `portal.c` drains a `PatternParser` per filter. The
  wrapper made the parser and the name; `portal.c` frees both.
* A callback converts the URI of an answer into a path with `path_URI_to_Unix`; the
  wrapper converts the path into what its caller gets, which the caller gives back
  through `wine_portal_free`.
* A call through the gate enters the copy of Wine's trampoline that `decompile_copy`
  made, which calls the core of `syscall.S`, which calls the libc that `find_libc`
  found, and picks errno up at the offset `find_libc` read.

### What is hard, and the properties it calls for

* **Answers without addresses.** The callbacks (`portal.c:132`, `:572`) look at the
  interface and the member of a signal, never at the request it answers. That a call
  returns the answer of its own user is a property of the whole history of the
  connection: `ReturnsOwnAnswer`, `ImplementsDialog`, `MisdeliveryHasCause`,
  `OnlySurplusLost`, `OneReturnPerResponse`.
* **Failure on the way.** A call whose request fails returns without
  `remove_filter` (`portal.c:303`, `:438`, `:538`, `:763`): `FilterAccounting`,
  `StrayWriteNeedsFailure`. A lost connection makes the loop end without an answer:
  `SilentReturnIsDisconnect`.
* **Threads.** One thread runs another's callback (`PathStoredBeforeReturn`,
  `StoredOnce`), and libdbus calls callbacks from a copy of its list, with the
  connection unlocked, so that one may be called after `remove_filter` (`portal.c:320`)
  and the return of its owner: `NoDanglingFilter` says when.
* **Ends of waits.** `AnsweredReturns`, `AnsweredReturnsOrStray`, `InitReturns`,
  `LoopEnds`.
* **Identity.** The search for the own process is by substring of a file name others
  may have mapped too: `SuccessIsOwnProcess`, `MistakenIdentity`, `OwnPidNotMissed`,
  `CrashHasCause`, and the two findings about it.
* **Leftovers.** `CanaryLeftNeedsExit`.
* **A fixed buffer for strings of any length.** `BufferInBounds`, `AppendsPatterns`.
* **Reading a process that is not standing still.** What `find_libc` puts together
  comes from different lines of the maps, from memory and from a file on disk, and
  the process may end in between: `AddressesAreReal`, `GarbageUnused` (about `xloc`,
  which nothing initialises), `NothingHeld`, `ImplementsSearch`.
* **Three allocators and a dozen early returns.** `LibraryFreesRight`, `NothingLost`.
* **From a URI to the caller's string.** `DecodedFits` (a block as long as the URI),
  `ResultMeans` (which path is which result); `FiltersSent` the other way round.
* **Machine code taken apart byte by byte.** One wrong length spoils all that follows,
  and everything relative to `rip` has to be moved: `CopyIsFaithful`.
* **libc's errno in a stack frame.** It may lie anywhere between 511 bytes below and 255
  above the frame's stand-in for thread data, and must not fall on what the core
  needs to return; then a table turns it into Windows' errno: `FailureIsTold`.

`PROJECT.json` lists every hazard at its line, with its properties or with the
reason why none covers it.

## 2. Plan

In order of importance to the system. All modules are written; what is left is named.

1. **Portal** with **Dialog**, **PortalProofs** and **PortalDeliveryProofs**: the
   component everything else exists for. All operations; type invariant, serial
   correctness and refinement proved, then what becomes of a Response among several
   threads and after failures, then that nothing selected is lost. Left: liveness, out
   of the prover's reach.
2. **Bootstrap** and **BootstrapProofs**.
3. **PatternParser** and **PatternParserProofs**.
4. **FindLibc** with **LibcSearch** and **FindLibcProofs**. `LibcSearch` is what
   Bootstrap assumes of `find_libc`.
5. **Wrappers** and **WrappersProofs**: ownership over all sequences of calls, the
   filters of a request, and the decoding of URIs.
6. **Heavens** and **HeavensProofs**: the trampoline's copy, the core, and errno.
7. **Selection** with **SelectionProofs**: the loops that copy some elements of an array,
   which Portal and Wrappers share, and the induction over loops that all proofs about
   sequences use.

## 3. Modules and the code

### Portal

One action per stretch of code between two points where other threads, the bus or
the portal can be noticed.

| Code | Model |
|---|---|
| `dbus_init`, `filterContext = {0}`, `dbus_connection_add_filter` (e.g. 196-205) | `BeginDialog`; the early returns are `BeginFails` |
| `portal_open_native_for` 44-122 | `BeginNative`, then `Send`, `Reply` or `SendFails` |
| `dbus_connection_send_with_reply_and_block` | `Send` and `Reply`; every NULL reply is `SendFails`, which keeps the filter |
| `while (!completed && read_write_dispatch(-1))` | `EnterReadWriteDispatch`, `PollReturns`, `DispatchNothing`, the dispatch actions, `LoopEnds` |
| `dbus_connection_dispatch` with a Response | `DispatchResponse` (copies the filter list), `SkipRemoved` and `CallFilter` (tests whether the next filter was removed), `DropResponse` (no filter took it) |
| `filter_func`, `filter_func_multi` | `FilterPasses` (completed already), `InvokeFilter` (what they decide and compute), `WriteContext` (one field stored per step, in the order of the code: `Publishes`) |
| `remove_filter`, reading the result, `return 0` | `FinishDialog` |

`filters` is libdbus's list in registration order; `walk` the rest of the dispatcher's
copy of it; `inbox` its incoming queue, with the signal in hand at its head (`Queue` is
what the others see); `pc`, `cur`, `frame` the place of each thread; `filterContext` the memory of the
frames, reused by later calls as stack memory is. `answer`, `dropped` and `strayWrite`
are history variables. Between two of the dispatcher's steps an owner may find its context
completed, remove its filter, return, and call again on the same frame. What
`filter_func` then reads and writes is a dead frame (any outcome of the test, `Passes`
and `Takes`) or a context that is not its own: either way `strayWrite` is set.

Abstractions: one signal at a time is dispatched (libdbus holds its dispatch lock, not
the connection's, while it calls filters); a signal that is no Response is dispatched in
one step, since no filter looks at its context for it; the options of a request are left
out; a value written with the wrong layout or into a dead frame reads as `<<NULL>>`; frames are compared by identity and
a new call may lie on any free one of `Frames`. libdbus ends the process when it
dispatches `Disconnected` on a bus connection unless told not to: the model keeps
running, as `portal.c` provides for, and the exit is a behaviour that stops.

`Dialog` is the abstract specification: a call is idle, fails, or is opened, answered
by the user in that dialog, and returned with what was chosen. `Portal` maps to it by
`PhaseOf`, `ChoiceOf` and `ResultOf`. A selection is a sequence of URIs with or without a
path (`PathOf`, `SelectionsAssumption`); `AllPaths`, the loop of `filter_func_multi`, is
`ElementsAt` of **Selection**: what a loop has copied that skips some elements.

### Bootstrap

`pc[p]` walks through `wine_portal_init`: `canary`, `list`, `scan`, `unmap`,
`unlink`, `libc`, `setup`, `getpid`, `enosys`. `listing` and `at` are the enumeration
of `procfs.c` with the entry `findData` holds, so that `Advance` can keep the last one
when `FindNextFile` fails (`procfs.c:147`). `mapped` and `files` are the mapping and
the file, which have different lifetimes. `CanaryWithin` is what `strstr` does to two
decimal numbers at the end of equal strings, cut at nine digits. `gate` and `sealed`
are `heavensGate` and the protection of `code_buffer`.

The maps of each process can be opened or not (`CannotOpen`, `recon.c:40`); `unread`
remembers that a scan passed by the caller's own entry that way. `hg_setup` returns 0 with
a whole copy of the trampoline or with one that is cut short or too long for its room
(`heavens.c:83`, `:280`; the steps are in Heavens), and a call through the latter crashes
(`GateWorks`). `probe` is what `enosys()` gave.

Abstractions: the maps of one process are read in one step; `find_libc` succeeds with
a right or a wrong errno offset, fails, or faults, the latter when the code it looks at
has only the second of the two patterns its check accepts (`ErrnoCode`); a call to a libc that is not at the
caller's addresses ends the process; Unix pids are not reused. Windows pids are positive
(`WinPidAssumption`).

### PatternParser

One call of `pattern_parser_next` per round of `Call`, one character per `Separator`,
`Store` or `Overflow`. Characters are classes: two ordinary ones, the separator, and
two wide ones that matter because only the lower byte of a character is kept
(`pattern_parser.c:52`): U+013B, whose lower byte is that of `;`, and U+0100, whose
lower byte is 0. The reference definition is over the whole string: `Split` (the fields
after each byte), `Patterns` (no pattern behind a separator at the end), `Fitting` (those
before the first that does not fit) and `Seen` (as C reads them).

### FindLibc and LibcSearch

`pc` walks through `find_libc`: `open`, `maps` (one line of `/proc/<pid>/maps` per
`ReadLine`), `located` (what was found in them is tested), `mem`, `header`, `sections`,
and so on to `fini`, which every failure jumps to. `Target` is a process: its lines, each of which shows a
piece of a file, a base and an offset, and what lies on disk under each path: if that is
another file than the one in memory, the section headers read from it are anything (`ReadSectionHeaders`). `Exit`
ends it between any two steps; then the maps have no more lines and no read succeeds.
`xloc` starts as any of `GarbageLocs`; a read at a place where nothing of the right file
is mapped returns any of the other `Garbage` sets. `held` has what is allocated, mapped
or open. `Bootstrap` asks for the result only, and `LibcSearch` states that interface:
`FindLibc` implements it through the mapping at its end, and its results are the ones
Bootstrap's `FindLibc`, `FindLibcFails` and fault produce.

Abstractions: a file is its section headers, dynamic symbols, the loads in the code of
`__errno_location` and the words they load. The text of a libc lies at the offset it
has in the file, relative to its base (`TargetAssumption`): the code adds a symbol's value to the
executable mapping after subtracting that mapping's offset, which is right for a libc
linked that way only; nothing is mapped in the midst of a file's image or at address 0. `Wrap` stands for 2^32: a displacement is read without its sign.

### Wrappers

`pc` follows one call from the wrapper into `portal.c` and back: `convert`, `connect`,
`filters` and `append` (one filter per round), `send`, `wait`, `cleanup`, `paths` (one
path per round). A block of memory is the call that allocated it, its role and an
index; `Allocator` says by role where it comes from, `Memory(allocated, freed)` is what a step
does, and a step that frees a block that is not there, or with the wrong function,
records it in `bad`. `owned` is what the caller has not given back; `ways` is which
function each call was and by which way it ended, so that `NothingLost` can tell the three ways
that leak from all others. libdbus, as it is built by default, ends the process over a
string that is not UTF-8: `NameFaults` and `AppendFaults` (a default name or a filter's
name of a `utf8_` function, which nothing converts).

`path_URI_to_Unix` works on bytes: `Iteration` is one turn of its loop, `Loop` what the turns
leave, `CString` what readers of the stored bytes see. Each file of an answer has its URI
and the path it is really called, or NULL if it is not local; `ResultMeans` compares with
the latter. `SpellingAssumption` says what a URI of the portal is: cut after the scheme into
one piece per byte of the path, an escape or the byte itself (`Spells`), where no piece
begins an escape that is not meant. No iteration occurs in it.

Abstractions: the dialog is answered by the Response to its own request; conversions of
Win32 and Wine succeed or fail, which is all a wrapper can see of them; memory does not
run out. `free` is modelled as the wrong function for a block of `HeapAlloc`
(`wine_portal_free`); whether it works depends on the C runtime the program was
linked with. An escaped NUL (`%00`) is not among the answers: it would cut the path short,
as `CString` says, and `Spells` excludes it.

### Heavens

`Setup` to `Ready` are `hg_setup` with one `CopyInstruction` per turn of the loop of
`decompile_copy`. A trampoline is a sequence of instructions, encoded as bytes one after
the other (`Encoded`, `CodeUpTo`), and the copy reads bytes only: `HasRex`, `Op`, `Mod`, `Rm`
and `DispSize` are its tests. `Encoding` is the other side, what the processor takes the bytes
for: which opcodes have an operand, and how long a modrm byte makes it. It leaves every
instruction with an opcode `decompile_copy` does not know as it likes, since the copy ends
there. `Moved` is the reference: the instructions as they would have to be at
the new place, up to the first iret (`FirstIret`). The 32-bit arithmetic of displacements is done on four bytes
(`Bytes4`, `Signed4`).

A call is `Enter` (the frame of `_syscall`), `Succeeds` or `Fails` (libc, which stores errno
at `fs` plus the offset), and `Leave` (the rest of the core and `errnoConv`). `frame` has the fields
that are in memory, each with its place; a store removes the fields it overlaps, so that
`Return`, `Rbp` or `OldFs` are gone if errno falls on them.

Abstractions: the buffer behind the copy is entered only if the copy is whole
(`Runs`; a longer one has been overwritten or runs into the pointers); the bytes of `syscall_tmpl` are
those `syscall.S` assembles to; what else Wine's trampoline does is Wine's. An error is
the number Linux has for it, so that the table of `errno_conv.c`, which names Windows'
constants, appears as the set `Named`. An operand with a SIB byte and no base register has a
displacement that `decompile_copy` (195-223) does not see; `HasOperand` excludes it, so that nothing
is said of a trampoline with one. Wine's has none. Every instruction keeps its size in the
copy, so that a jump within the trampoline needs no change.

Definitions marked `\* mutant` in the modules are plausible mistakes in the operator
that follows them. `PROJECT.json` pairs each with the property that notices it.

## 4. Runs

All passing runs end with no error; the states are distinct states.

| Run | Instance | Question |
|---|---|---|
| `portal_clean` | 1 thread, 3 calls, 4 dialogs, no faults | Does each call return its own answer, whole, and at all; does Portal implement Dialog? |
| `portal_threads` | 2 threads, 3 calls, dialogs with both callbacks and OpenURI | What survives when threads run each other's callbacks? |
| `portal_faults` | 1 thread, 3 calls, 2 frames, refusal, timeout, disconnect | What can a failed call do to a later one? |
| `portal_native` | 1 thread, 2 calls | *Violation:* an OpenURI answer completes the next dialog. |
| `bootstrap_prefixed` | 2 processes, Windows pids 32 and 320, libcs apart, 2 calls each | Who is taken for whom, and what does it lead to; does the scan end? |
| `bootstrap_same` | 2 processes with one Windows pid, libcs at one address | Does anyone succeed as somebody else; who leaves a canary? |
| `bootstrap_pid` | as prefixed, 1 call | *Violation:* `find_pid` returns another process. |
| `bootstrap_enosys` | as prefixed, 1 call | *Violation:* init succeeds although `enosys()` did not give -1 with ENOSYS. |
| `findlibc` | 10 layouts of libcs (one of each kind, two copies, two versions, text in two pieces, text cut short), the file on disk the same, gone or renewed | Is what is found real whatever happens while it is read; does FindLibc implement LibcSearch? |
| `wrappers` | 2 calls out of 9 functions, 4 sets of arguments, 7 answers | Is memory freed once, rightly, on every way; is what is returned what was chosen? |
| `heavens` | 361 trampolines of two instructions out of 19 forms, three for the limits; errno offsets -511, 2, 255; errors 2, 26, 35, 36, 38, 4095 | Is the copy the trampoline, moved; does the caller learn of every failure? |
| `patterns` | all strings of up to 6 characters from 5 classes, buffer of 3 | Is the string split as C reads it; is the buffer respected? |

**Why the bounds are enough.** A misdelivery in Portal needs a cause, a call that
takes the stray answer, and, for its effect to be passed on, a third call: three calls
show a chain. Two frames let a later call either reuse the frame a failed call left
registered or avoid it. Two threads are what one connection needs for one to dispatch
for the other; with three calls one of them runs two, so that a filter called late may meet a
dead frame or the frame's next call. The selections contain nothing,
a file, a URI that does not convert, and such a URI in front of two files, which
separates "first" from "all" and "skip" from "stop". In Bootstrap, two processes are
what a mistake takes; one of them has the errno code `find_libc` was written for, in
`bootstrap_prefixed` the other has not; 32 and 320 are prefix-related and 32 and 32 equal; a second call
is the first that can meet a sealed buffer. `BufSize = 3` with strings of six has room
for a pattern that fits exactly, one that is one too long, and one behind it.

In FindLibc one libc and one line more than `InitialSize` make the array of sections
grow; the second version of libc is what a confusion of two files takes. In Wrappers the
second call shows what the first one left; the three filters have one without a name
between two with one; the answers contain an escaped percent sign, hexadecimal digits
of either case, a URI that ends within an escape, one without a path, and a remote file before
and between local ones. In Heavens the second instruction shows whether the first was given its
right length; the room of 16 bytes is filled to the last byte by one trampoline and
exceeded by one byte by another; the offsets are the lowest and the highest
`find_libc` accepts and one that lets errno overlap the pointer at fs:0.

Deadlock is not checked in the runs: the calls are bounded and the programs then
stop, a user need not answer, and a scan or a loop has an end. That waits end is stated
as liveness instead. `find_libc` is a straight path with a bounded number of lines, `decompile_copy`
one of a bounded number of bytes: they end by construction, and no property says so.

**Fairness.** Portal: weak fairness of `ThreadStep(t)` per thread, that is, a thread
inside a call that can take a step is scheduled. Nothing obliges the caller to call,
the portal to accept, or the user to answer. With one thread `ThreadStep` in the
wait loop is enabled continuously once an answer is queued, because only that thread
dispatches. Bootstrap: weak fairness of `Step(p)`, which waits for nobody.
PatternParser: weak fairness of `Next`, the loop of `portal.c` in its own thread.

## 5. Proofs

`PortalProofs`:

* `TypeCorrect`: `TypeOK`, for any numbers of threads, calls and frames and whatever
  fails. It includes that only one thread runs a callback.
* `NoFailure`, an invariant of `Faults = {}`: the connection is up and no request refused.
  With it `FiltersAlive`, for any number of threads: every registered filter points into a
  live frame and no two share one.
* `SerialInvariant`, `OwnAnswer`, `PortalImplementsDialog`: with one thread, no faults
  and dialogs only, a call that returns 0 returns the answer to its own request, and
  Portal implements Dialog. `ReturnsOwnAnswer` is not inductive: it speaks of calls
  that have returned. `SerialInv` adds what makes the next return right: at rest there
  is no filter; a running dialog owns the one filter there is and its context holds
  nothing or its own answer; the queue holds at most the greeting of the bus and, if
  the running call's request is answered and not yet taken, that Response. The
  assumptions are those of the run `portal_clean`. None can be dropped: an OpenURI
  request (`portal_native`), a second thread, or a failed call lets a call return the
  answer to another request; `MisdeliveryHasCause` and `OneReturnPerResponse` say what
  remains true then.

* `EverythingSelected`: `NothingSelectedIsLost`, under the assumptions of `OwnAnswer`. A call returns what
  its filter picked of its own answer (`SerialInv`); an answer to a single dialog has at most one
  file (`AnswersFit`), so that `FirstPath` loses nothing; `AllPaths` has every path by `Members`.

`PortalDeliveryProofs` has what holds beyond one thread and beyond the fault-free
case. Its base are two invariants that need no assumption: `BegunInv` (a call begins
once, and no two threads are in one call) and `RunningInv` (a call that runs has made
its request and returned nothing).

For any number of threads and all faults:

* `ResponsesReturnOnce`: `OneReturnPerResponse`. The property speaks of results only and
  holds in spite of stray writes; `OnceInv` follows every Response from the queue into a
  running filter, into a live context and into a result, and says that it is in one of these places at a time.
* `FiltersAccounted`: `FilterAccounting`, if `Threads` is finite. `StepKinds` sorts the
  steps by what they do to calls; each changes both sides of the equation alike.

For any number of threads with `Faults = {}`:

* `NoFilterDangles`: `NoDanglingFilter`. `FiltersAlive` is about the list; for the
  dispatcher's copy, `OwnedInv` says that a registered filter belongs to the call its frame is
  in, so that only that call's return can make an entry of the copy a removed one, and
  that is the return of another thread with an answer. A dead frame can thus be called, but a
  dialog that waits always has a live filter.
* `PathIsStored`: `PathStoredBeforeReturn`. `PathInv` says of each stage of a running
  filter what is in the context by then, and that a filter runs for the call that
  registered it until it has set `completed`; here the order of the two stores in
  `filter_func` enters.
* `ResultStoredOnce`: `StoredOnce`. `filter_func_multi` stores its files after it has set
  `completed`, when its call may be gone; `LateInv` says that a completed context it
  finds at that place is not a `filter_func` one.

The last two hold as long as `strayWrite` is false, and the properties say so: a filter
called late may complete the frame's next context without a path, or store into it. That
does happen (`portal_threads` has such states), and no comment or test of the repository
rules it out.

For one thread (`OneThread`) and all faults:

* `StrayWriteHasCause`: `StrayWriteNeedsFailure`. While no call is abandoned
  (`IntactInv`), the one filter there is belongs to the running call.
* `SilentReturnHasCause`: `SilentReturnIsDisconnect`, from what each stage of the wait
  loop knows about the context (`SilentInv`).
* `MisdeliveryIsCaused`: `MisdeliveryHasCause`. The cause lies arbitrarily far back, so
  the invariant speaks of the time before there is one: then only the running call's
  Response can be asked for, queued, carried or stored (`OnlyOwn`). Causes never go away,
  and calls begin in order (`InOrder`), so the cause is an earlier call.

`BootstrapProofs` uses one invariant, `TypeOK` with `OwnEntryAhead` (while a process
with a mapped canary scans and has not failed to open its own maps, its own entry is at or
ahead of `findData`), `GateOfPid`
(a gate in use was made of the libc of `pid`), `SealedByEarlierCall`, `CrashHasCause`,
`CanaryLeftNeedsExit` and `MistakenIdentity`. From it follow `BootstrapTypes`, `SuccessOnlyAsOneself`,
`ScanFindsOneself`, `CrashesExplained` and `CanariesRemoved`, for any finite set of
processes, any Windows pids, any layout and any errno code. `MistakesExplained` (`MistakenIdentity`)
rests on `mapped`, which only a process in its own call has, and on the arithmetic of
`CanaryWithin`: a number that begins with another's digits is not below it.
The causes of a crash that
`CrashHasCause` allows are a wrong pid, a buffer sealed by an earlier call, errno
code `find_libc` misreads, and a trampoline of which `hg_setup` copied a part only.

`SelectionProofs` has what the proofs about sequences rest on. The library's induction
theorems are out of reach, so `LeastNumber` (a non-empty set of numbers has a least one) is
proved from the finite-set theorems, and from it induction in the form of sets:
`NumbersInduct`, `UpToInduct`, `LoopRuns` (a function defined by recursion over
`0 .. n` satisfies its equations). With them `Members`, `Placed` and `ElementsAtAre`: a loop
that copies the elements at the places of a set leaves those elements, each once, in order.

`PatternParserProofs` proves `PatternTypes`, `BufferNeverOverrun` and `RequestCarriesPatterns`
(`AppendsPatterns`) for strings of any length and a buffer of any size above 1.
`PatternInv` says that after `n` characters the buffer is the unfinished field of `Split` at `n`
and the request has the fields that ended before, as C sees them, and all of them fit; a field
that does not fit is the first such, and stays a field whatever follows.

`FindLibcProofs`, for any files, any layout of any process and any garbage:

* `FindLibcTypes`, which includes that `sections_add` stays within its array.
* `NothingLeaks`: `NothingHeld`, from an invariant that says at each `pc` what is held.
* `GarbageNeverUsed`: `GarbageUnused`. It holds because a live process lists an executable line
  (`TargetAssumption`) and nothing can be read of one that ended: the invariant says that
  beyond the maps `xloc` is a listed line or the process is gone.
* `AddressesFound`: `AddressesAreReal`, from an invariant that follows one libc through
  every table: `elfloc`, sections, headers and tables are its own, until an address is computed.
* `FindLibcImplementsSearch`: `ImplementsSearch`. `SearchInv` adds that nothing is accepted before the
  errno offset is read, and that, when the process has one libc only, the code and the word it loads
  are that libc's (`ErrnoInv`). For the word this needs that nothing else is mapped within
  the image of a file (`TargetAssumption`).

`WrappersProofs`, for any number of calls, any arguments and any answers:
`WrappersTypes`, `EveryFreeIsRight`, `OnlyMessagesLeak`, `PathsFit`, `RequestCarriesFilters`
and `ResultsAreTheFiles`. The invariant `HeapInv` says at each `pc`
which blocks the call holds (`Held`), that what is allocated is held, owned, or leaked by one of
the ways out in `Leaks`, and that blocks freed wrongly belong to earlier calls, without which a
block could be taken for one of them when it is allocated; `Unended` says that `ways` is true to the
call. Every step is an instance of `HeapStep`. `EveryFreeIsRight` is about what the library frees on
its own account; `wine_portal_free` is excepted, since there it is not right.
`PathsFit` is about any URI: each iteration reads at least as many bytes as it stores, and stops at
the end. `FilterInv` says that the request has the named ones among the filters before `next`.
`ResultsAreTheFiles` needs `LoopSpells`: after `i` iterations the loop stands at the `i`-th cut of a
URI that spells a path and has stored its first `i` bytes; so the paths converted are those of the
local files (`ConvertedIsLocal`), and `ValueInv` carries them to the result one by one.

`HeavensProofs`, for any trampoline, any addresses and any errno offset that
`find_libc` accepts: `HeavensTypes`, with the copy in step with what is read;
`CallersAreTold`, that is `FailureIsTold`; and `CopiesAreFaithful`, that is `CopyIsFaithful`.
The second invariant says that during a call the
fields the core needs are in the frame; `KeptDisjoint` is the arithmetic of the frame
behind it, the reason for the constants 24 and 32 in `syscall.S`.

`CopiesAreFaithful` is about any sequence of instructions that `Encoding` admits, of any length, and
any two addresses. Its invariant `CopyInv` says that the loop stands behind the first `k`
instructions, none of them iret, and that `out` is those `k` as `Moved` has them. That a turn of the
loop keeps it takes four facts: the opcode read is the opcode encoded (`OpcodeRead`); the
displacement and the immediate are where `decompile_copy` looks for them (`OperandRead`); four bytes that
are read, moved and written again are those of the moved displacement, modulo 2^32 (`DisplacementMoves`);
and moving changes no length (`SameLengths`). Behind the last instruction the loop finds
nothing it knows (`PastTheEnd`), and if it runs to the limit without an iret the first one is beyond the
room (`LimitEnds`). That a fitting copy never makes a call crash also needs the
invariant of `CallersAreTold`: what libc writes leaves the return address alone.

The assumptions are the named ASSUMEs of the modules (what the constants are), and the
`Serial` or fault-free conditions stated in the theorems themselves.

**Model-checked only:** liveness, out of the prover's reach (`AnsweredReturns`,
`AnsweredReturnsOrStray`, `InitReturns`, `LoopEnds`), and `OnlySurplusLost`, which counts
Responses.

## 6. Findings

Three places where the code does other than its own comments and messages say; each
has a run whose counterexample shows it (details in `PROJECT.json`).

1. `portal_native`: the Response to an OpenURI request completes the next file dialog,
   which logs "File selection completed" and returns 0 before its user chose
   (`portal.c:132`).
2. `bootstrap_pid`: "find pid of our process" (`wine_xdg_portal.c:68`) may find the
   process whose Windows pid begins with the same digits (`procfs.c:67`). Later
   comparison stops such a call, if the libcs happen to lie at the same address;
   otherwise the gate jumps into nothing (`CrashHasCause`).
3. `bootstrap_enosys`: `errx != -1 && errno != ENOSYS` (`wine_xdg_portal.c:113`)
   accepts a gate with only one of the two right: `enosys()` gives -1 with another errno, or
   ENOSYS with another result, and the call returns 0. With `||` in the test the run passes.

What the models show besides, where no comment promises anything else:

* Three leaks, which `NothingLost` names: the message of `portal_open_native_for` when
  the path does not open (`portal.c:100`), its error when there is no reply (115), the message of
  `portal_choose_directory` when it is refused (542).
* `wine_portal_free` is `free` for blocks that come from `HeapAlloc`
  (`wine_xdg_portal.c:134`): `LibraryFreesRight` excepts the caller's blocks.
* `errnoConv` returns 139 for error 26 as if it were a result (`errno_conv.c:15`), and
  takes 36 for EDEADLK: `FailureIsTold` excepts both.
* The title of a directory dialog is converted as if it were a path
  (`wine_xdg_portal.c:236`, `:261`).
* A filter with a name and no pattern makes the parser read a NULL (`portal.c:262`), and a
  `utf8_` function's filter name or default name that is not UTF-8 makes libdbus end the process
  (`:269`, `:377`): `AppendFaults`, `NameFaults`.
* A filter may be called after `remove_filter` and the return of its call (`portal.c:320`),
  and then takes a Response for nobody, or completes the frame's next dialog:
  `NoDanglingFilter` says for whom, `strayWrite` when.
* A trampoline that is longer than its room or has no iret in its first 0x400 bytes is accepted
  (`heavens.c:83`, `:280`), and the first call through the gate crashes: `CrashHasCause`
  has it as a cause.
* A process whose own maps cannot be opened passes itself by (`recon.c:40`), and if its
  entry is the last of `/proc` the scan does not end: `OwnPidNotMissed` and `InitReturns`
  except it.

## 7. Not modelled, and why

* Two waiting threads: the one whose Response the other dispatched stays blocked in a
  read with timeout -1 until something else arrives. This is in the model (`poll`), but
  no property states the contrary, since nothing in the repository promises it.
* `filter_func_multi` sets `completed` before the result (`portal.c:642-644`), so that its
  owner may return an empty selection and the Response is lost. The model has the order and the
  loss; no property denies it: `PathStoredBeforeReturn` speaks of `filter_func`, which has it
  right, and `OnlySurplusLost` of behaviours up to the stray write.
* The array of `filter_func_multi` is as long as its contents: its growth by doubling
  (`portal.c:616`) is not modelled, nor is the `FILE` of `recon.c:236`, which is closed at once.
* The option dictionaries of a request, apart from its filters, and the text of titles:
  no effect on any later call.
* Exhausted memory: most allocations of the code are not checked, and what follows is a
  fault at once.
* Logging (output to one `FILE` that nothing reads), build scripts (compiler
  invocations), the vendored headers.
* Most lines of the repository's C files are declarations: `elf.h` and the headers of
  libdbus are four fifths of them. A map of every function the repository itself
  implements covers about a fifth of all lines; what is left out of the implemented
  code is logging, includes and prototypes.
