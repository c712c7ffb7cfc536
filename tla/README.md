# TLA+ models of the conman daemon core

These modules model the core of the conman console-concentrator daemon in
`src/server-obj.c` (object graph, circular buffers, I/O engine) and
`src/server-conf.c` (configuration, command line, single-instance lock),
following `spec.md`. Every definition is translated from the C source, and
`PROJECT.json` maps each one to the lines it models.

## 1. Inventory

### Components

| Component | Source | State | Operations |
|---|---|---|---|
| Circular buffer | `server-obj.c` `write_obj_data`, `write_to_obj` | `buf[MAX_BUF_SIZE]`, `bufInPtr`, `bufOutPtr`, `bufLock` | put (producer, overwrites on overrun), drain a contiguous run to the fd, flush on EPIPE |
| Object model | `create_obj`, `create_console_obj`, `create_logfile_obj`, `create_socket_obj`, `destroy_obj` | per object: `type`, `fd`, `gotEOF`, `writer`, `readers` list, buffer | create (fd -1, empty buffer, no links; sockets are created open), destroy |
| Link manager | `create_obj_link`, `open_obj`, `close_obj` | the writer/readers graph | link (with steal of a console already written), open (the logfile header; the console branch is a stub), close (unlink from the writer, cascade, unlink readers, defer on pending data, destroy sockets) |
| I/O engine | `read_from_obj`, `write_to_obj` | fd, buffers, gotEOF | read and fan out to every reader without gotEOF; EOF closes. Write under bufLock, then finish a deferred close after the lock is released |
| Configuration parser | `process_server_conf_file`, `parse_console_directive`, `parse_server_directive` | `server_conf_t` (port, flags, objs), lexer position | token loop, per-directive errors with resynchronisation at EOL, port precedence |
| Lexer | `lex.c` (not in this snapshot) | position, line, previous token | `lex_next`, `lex_prev`, `lex_text` |
| Command line and interlock | `process_server_cmd_line`, `kill_daemon`, `process_server_conf_file` (lines 206-216) | conf fd and its fcntl lock | options, `-k`, probe for a write lock then take a read lock |

### Interactions

The configuration parser creates consoles and logfiles and links each
console to its logfile with `create_obj_link`. The accept loop (not in
`src/`) creates sockets. It links a console to the socket (the client
follows the console) and, for a read-write session, the socket to the
console (a steal if another client writes it). An external dispatcher
calls `read_from_obj`/`write_to_obj` from a pool of threads. `read_from_obj`
calls `write_obj_data` into each reader's buffer, and `write_to_obj` calls
`close_obj` when a deferred close can complete. Each buffer is shared by the
thread reading its writer (producer) and the thread writing it (consumer),
under `bufLock`. The graph has no lock (`objsLock` is a FIX_ME), yet
`close_obj` runs from whichever thread calls `read_from_obj` or
`write_to_obj`.

### What is hard

- Index arithmetic at the wrap-around and at the full/empty boundary of the
  buffer, with partial writes and overruns.
- The recursive `close_obj`, which runs a cascade over a cyclic graph while
  iterating and popping lists. It has a `==`-for-`=` typo and reads an
  uninitialized variable.
- Steals, where an object is closed in the middle of a link.
- Deferred close (gotEOF): the object lives on, linked or not, until its
  buffer drains.
- Thread interleavings: gotEOF is tested outside `bufLock`, and the graph
  is mutated from dispatch threads.
- Probe-then-lock of the configuration file by several processes.

### What makes each component correct

- Buffer: the offsets stay in range. Bytes come out in order, without
  duplicates, and only the oldest are dropped. After a put the buffer holds
  min(prior + len, size - 1) bytes.
- Graph: edges are symmetric (spec.md 3). Only a console's current writer
  feeds it. No destroyed object is reachable, and nothing dereferences NULL.
  Every deferred close eventually completes.
- Engine: no byte is put into an object after its gotEOF is set. No thread
  touches an object another thread destroyed.
- Parser: each bad directive gives one error and resynchronises at the end
  of its line. A console is created only with NAME and DEV. The port
  precedence is command line, then file, then default.
- Interlock: at most one daemon runs per configuration, and `-k` terminates
  it.

## 2. Plan

The modules, in order (done ones marked):

1. **BufferQueue** (done): the abstract buffer, a FIFO that never blocks a
   producer. `Spec` holds exact overwrite accounting; `LossySpec` only
   requires that the oldest bytes are the ones dropped.
2. **CircBuf** (done): `write_obj_data` and the locked part of
   `write_to_obj`, shown to implement `BufferQueue` through the mapping
   `q <- Contents`.
3. **ObjGraph** (done): link, steal, open, close and its cascade, socket
   destruction, and the graph effects of read/write, all on one dispatch
   thread.
4. **Engine** (done): `read_from_obj` and `write_to_obj` as multi-step
   threads (pc per thread) over the graph of ObjGraph. The unlocked gotEOF
   test, the EPIPE-then-close path and the deferred close happen in
   separate steps. Properties: no put after gotEOF, no use after free across
   threads, and liveness of deferred close. Run with one thread (sequential
   dispatch) and with two.
5. **ConfParse** (done): the command line and the parser over bounded
   token streams (the lexer is spec-modelled), with port precedence, one
   error per bad directive and resynchronisation, checked against the
   grammar of spec.md.
6. **ConfLock** (done): daemon processes and `-k` processes over the fcntl
   lock table. Properties: single instance, and what `-k` reports.

## 3. Modules and their correspondence to the code

### BufferQueue

Variables `q` (buffered bytes, oldest first), `produced` and `delivered`.
`PutExact` and `PutLossy` are the two promises about a put, `Drain(k)` is a
write of k bytes and `Flush` is the EPIPE flush. Bytes are numbered in
production order, so delivering out of order, twice or after a newer byte
is visible.

### CircBuf

`buf` and the offsets `bufInPtr`/`bufOutPtr` are the C fields, and
`produced`/`delivered` are history variables.

- `WriteObjData(len)` is the whole of `write_obj_data`: the clamp, `avail`,
  both `memcpy` chunks (`CopyIn`), the in pointer after both chunks
  (`InPtrAfter`) and the overrun repair (`OverrunOut`).
- Pointers move by plain addition and are wrapped only by `Wrap`, the C's
  "hokey-pokey" test `ptr == &buf[MAX_BUF_SIZE]`, at the three places the C
  has it. No pointer update is taken modulo the size, so a pointer that
  stepped past the end would stay out of range, and `PointersInBuf` (the
  asserts of both functions) would catch it.
- `WriteToObj(n)` is a `write()` returning n bytes of the contiguous run
  (`Pending`).
- `WriteToObjEpipe` is the EPIPE flush.
- EINTR retries and EAGAIN leave the state unchanged, so they are
  stuttering steps.
- Both functions hold `bufLock` throughout, so each is one step.

### ObjGraph

The variables are per-object functions: `writer`, `readers` (a sequence in
list order), `fd` (open or not), `gotEOF`, `pending` (`bufInPtr !=
bufOutPtr`), `status` (unborn/live/freed) and `fault` (a memory error; no
action is enabled after one).

`close_obj` is the recursive operator `CloseObj`, which returns the set of
states the call can end in:

- `DetachWriter` is the writer block (lines 209-225), including the
  cascade and the iterator destroyed after it. A `list_iterator_destroy`
  on a freed writer's list is a fault in the model. It is never reached
  (86,857 states with read-write sessions and steals): only sockets are
  freed, and a socket that is some object's writer always has the console
  as its own writer, so the cascade never closes it.
- `DrainReaders` is the `while ((reader == list_pop(...)))` loop, exactly as
  written.
- `CloseTail` is the deferred close, and for a socket the call of
  `DestroyObj` (`destroy_obj`: `assert(in == out)`, close the descriptor,
  free; a failed assertion is the fault `assert`).

The uninitialized `reader` (when the object has no writer) is a
nondeterministic choice over NULL, garbage and any object pointer (`Uninit`).

The other operations:

- `CreateObjLink` is the steal (a notice into the old writer, then
  `close_obj`), the link and the open of both ends.
- `OpenObj`: a logfile's `open()` fails (returning -1, which
  `create_obj_link` ignores) when `LogOpenFails` allows it; on success it
  puts its header. A console opens only when `ConsoleOpens` is TRUE. The source's console
  branch is a `NOT_IMPLEMENTED_YET` stub, so `ConsoleOpens = FALSE` is the
  literal code. `TRUE` stands for the device open that spec.md 4.4 places
  outside the core.
- `Init` is the configuration (`ConfigState`): `create_console_obj` and
  `create_logfile_obj`, whose `create_obj` fields are `NewObjs`, plus a
  `create_obj_link(console, logfile)` for each logfile.
- `Accept` is `create_socket_obj` plus the links the accept loop makes
  (spec-described, as the accept loop is not in `src/`).
- `ReadFromObjEOF`, `ReadFromObjData` and `WriteToObj` are the handlers of
  the I/O engine, each atomic.
- `Put` abstracts `write_obj_data` to emptiness. It includes the
  CircBuf-proven case where a put into a non-empty buffer leaves it reading
  as empty.

### Engine

Engine instantiates ObjGraph (`OG`), reusing its variables, and adds per
thread `pc`, `obj` (the object being served), `visited` (the readers the
list iterator has passed) and `cur` (the reader about to receive a put).
The history variable `putAfterEOF` records a put into an object whose
gotEOF was already set.

- `ReadEOF` is `read()` returning 0: `close_obj`, atomic.
- `ReadData` starts the reader walk.
- `ReadCheck` takes the iterator's next reader. It skips the reader if its
  gotEOF is set, a test made without that reader's `bufLock`.
- `ReadPut` is the `write_obj_data` call, under the reader's lock.
- `WriteLocked` is the part of `write_to_obj` under `bufLock`: a drain, or
  on a socket an EPIPE that sets gotEOF and flushes.
- `WriteTail` is what follows the unlock: gotEOF and `in == out` are read
  again, and `close_obj` is called.

The dispatcher (not in `src/`) is assumed to give an object to at most
one thread per direction at a time.

### ConfParse

One process running `main`'s configuration phase: `process_server_cmd_line`,
then `process_server_conf_file`. `pc` is where the code will next call
`lex_next()`, and each token action is one `lex_next()` call plus the code
that runs up to the next call. The state is that of `server_conf_t` (`port`,
`keepAlive`, `loopBack`, and `consoles`, the consoles created in order,
each with whether it has a logfile and its baud rate), the directive locals
(`kw`, `name`, `dev`, `log` and `bps`, with a string abstracted to
non-empty or not), the saved command-line `port` (`savedPort`), and
`errors`, the number of diagnostics printed.

- `LexNext` is what the lexer may return, as token kinds. The lexer is not
  in the repository (spec_modelled). `STR`, `NUMSTR` and `EMPTY` are
  strings (text, a quoted positive number such as `"9600"`, and `""`),
  `INT` and `ZERO` numbers with `atoi` positive or 0. After `ERR` comes `EOL` or
  `EOF`, and `EOF` is sticky. `MaxToks` tokens end the file.
- `CmdPortOpt`, `CmdKill` and `CmdExit` are the getopt cases `-p` (valid
  or ignored), `-k`, and the exiting ones (`-h`, `-V`, invalid,
  unimplemented). `CmdEnd` runs `kill_daemon` for `-k` (ConfLock models
  it), or saves the port. `OpenConf` is the file's open, read lock,
  `fstat`, `malloc`, `read_n` and `lex_create`, any of which may fail
  into `err_msg`, which exits (`fatal`); ConfLock models the lock itself.
- `MainDirective`, `MainEOLOrErr`, `MainJunk` and `Skip` are the cases of
  the main loop. A CONSOLE directive starts with fresh locals
  (`ConsoleLocals`). `MainEOF` ends it and applies `Kludge`, the port
  precedence code at lines 256-262.
- `ConsoleOption`, `ConsoleEq` and `ConsoleValue` are the keyword, `=` and
  value reads of `parse_console_directive`. `ConsoleEnd` is its tail: the
  incomplete-directive test, the error report, or the creation of the
  console. `ServerOption`, `ServerEq`, `ServerValue` and `ServerEnd` are
  the same for `parse_server_directive`. `LOGFILE` stands for the three
  unimplemented keywords (`LOGFILE`, `PIDFILE`, `TIMESTAMP`), which fail
  whatever follows. `AfterError` and `Resync` are the resynchronisation
  loop `while (lex_prev(l) != LEX_EOL && ...) lex_next(l)`.
- `ref` folds `RefStep`, a reading of the spec.md grammar, over the same
  tokens. A line is bad if it has a bad token or value, ends after a
  keyword or `=`, is a directive with no option, or is a CONSOLE without
  NAME and DEV. The options of SERVER take effect up to the first error;
  spec.md does not say what a bad SERVER line does, and this is what the
  code does. A BPS or PORT value is good when it is a positive integer,
  bare or quoted (`value = quoted_string / integer`); the code reads both
  with `atoi(lex_text(l))`. The properties compare the code with `ref` at line
  boundaries.

### ConfLock

Several processes on one configuration file. `dpc[d]` is where daemon `d`
is in `process_server_conf_file`: before the write-lock probe, between the
probe and `get_read_lock`, running, or exited. `locks` is the set of
processes holding a read lock. `kpc[k]` is where a `-k` process is in
`kill_daemon`, and `target[k]` is the pid its probe returned. `overlap` is
a history variable: the pairs of daemons each of which passed its probe
while the other stood between its probe and its lock.

- `Blockers` is `is_write_lock_blocked`: the holders of a lock other than
  the caller. `util.c` is not in the repository (spec_modelled from the
  fcntl semantics of spec.md 4.2 and 4.6).
- `DaemonProbe` and `DaemonLock` are lines 211-216. They are separate
  system calls, so other processes step between them.
- `DaemonExit` is the daemon ending (by SIGTERM or otherwise). The kernel
  drops its lock.
- `KillProbe` is the probe of `kill_daemon`, and `KillSend` its `kill()`.
  A target that has exited gives ESRCH and `err_msg` exits with an error.
  A zombie not yet reaped still accepts the signal, so an exited target
  may also succeed.

## 4. Runs

| Run | Checks | Result |
|---|---|---|
| `circbuf_lossy` (`MCCircBuf.cfg`) | `PointersInBuf`, `ImplementsLossyQueue` | pass, 9058 states. The buffer is a drop-oldest FIFO under every interleaving of puts (1..MAX_BUF_SIZE bytes, so the clamp is exercised), partial writes and flushes, and the C's equality wrap tests keep both pointers inside `buf` |
| `circbuf_overwrite` (`MCCircBufOverwrite.cfg`) | `ImplementsOverwriteQueue` | **violation**. Put 1 byte, then 3 into a 4-slot buffer: `bufInPtr == bufOutPtr`, and all 4 bytes are lost without the overrun notice |
| `objgraph_steal` (`MCObjGraph.cfg`) | `TypeOK`, `FeederIsWriter` | pass, about 91k states. Through connects, steals, EOFs, EPIPEs and drains, a console is in the readers list of no live object but its writer. Consoles and logfiles are never destroyed |
| `objgraph_edges` (`MCObjGraphEdges.cfg`) | `EdgeSymmetry` | **violation**. A read-write client's EOF leaves `console->writer` pointing at the destroyed socket. The next read-write client's steal then goes through that dangling pointer (server-obj.c:281) |
| `engine_seq` (`MCEngine.cfg`) | `NoUseAfterFree`, `DeferredCloseCompletes` | pass, about 17k states. One dispatch thread, read-only clients, the logfile's `open()` succeeding, with the accept loop interleaving between the steps of a handler. No destroyed object is touched, and every deferred close completes: gotEOF is eventually cleared |
| `engine_logfail` (`MCEngineLogFail.cfg`) | `DeferredCloseCompletes` | **violation**. The logfile's `open()` fails and `create_obj_link` ignores it. The console's output is put into the logfile's buffer, which nothing can drain, and the console reads EOF: the cascade defers the logfile's close, and gotEOF stays set forever, while clients connect and leave |
| `engine_race_eof` (`MCEngineRaceEOF.cfg`) | `NoPutAfterEOF` | **violation**. Thread 1, reading the console, passes the gotEOF test of client s1. Thread 2 reads EOF on s1, which has data pending, so gotEOF is set. Thread 1 then puts into s1. The two clients are interchangeable, so a search may show the same steps on s2 |
| `engine_race_uaf` (`MCEngineRaceUAF.cfg`) | `NoUseAfterFree` | **violation**. Thread 1 reads data from client s1. Thread 2 handles the console's EOF, whose cascade destroys s1. It does so only because `close_obj`'s uninitialized `reader` equals s1, so the `==` loop clears s1's writer and closes it. Thread 1 then walks the freed object's readers |
| `objgraph_null` (`MCObjGraphNull.cfg`) | `NoNullDeref` | **violation**. Console EOF. `close_obj` of the logfile reads `reader` uninitialized as NULL with an empty list, and dereferences NULL |
| `confparse` (`MCConfParse.cfg`) | `TypeOK`, `ConfigMatchesSpec`, `NoSpuriousDiagnostic`, `PortPrecedence`, `ParseTerminates` | pass, about 1.09M states, about 2 minutes. For every command line of up to two `-p`/`-k` options and every token stream of up to 12 tokens: at each line boundary the consoles, keepalive and loopback are those of the grammar, no more diagnostics have been printed than the grammar has bad lines, and the final port is `-p`, else the last valid `SERVER PORT=`, else the default. Every run of the configuration phase ends (an exit, or EOF reached by the main loop): each loop of the parser stops at `LEX_EOF`, also when the last line has no newline |
| `conflock` (`MCConfLock.cfg`) | `OnlyOverlappingProbesCoexist` | pass, 9203 states. Three daemons and two `-k` processes, in every order of starts, exits and kills. Two daemons run together only when each passed its probe inside the other's probe-to-lock window. The race of `conflock_race` is the interlock's only hole: a daemon that probes after another has locked is always refused, so the lock is held for the whole run |
| `conflock_race` (`MCConfLockRace.cfg`) | `SingleInstance` | **violation**. Two daemons both probe, find no lock, and both take read locks, which never conflict: two daemons run one configuration |

Every property of a passing run has a mutant in `PROJECT.json`: a plausible
slip in the mapped code (a forgotten wrap of `bufOutPtr`, the second
`memcpy` not advancing `src`, destroying every closed object, a steal that
never closes the old writer, a close that forgets the `list_delete` from the
writer, the `in == out` test negated in `write_to_obj`, a BPS value not checked
for positive, the incomplete test checking NAME only, an unrecognized token
not skipping its line, the command-line port never restored, a daemon that
runs without its read lock, a skip loop that tests for `LEX_EOL` only) which
TLC then catches.

Two disagreements are recorded without a run. `kill_daemon` signals the
pid its probe returned (server-conf.c:297). If that daemon exits in
between, `kill()` fails with ESRCH and `-k` exits with an error, where
spec.md 4.6 says it exits zero. `KillSend` takes that branch in the
`conflock` run. The daemon is gone as `-k` intended; only the status and
the message are wrong.

Second, `parse_server_directive`
accepts an empty `SERVER` line silently (server-conf.c:480), where the
grammar of spec.md requires one option. TLC finds it in two steps
(`SERVER`, `EOL`) when the reference's error count is required to be at
most the code's. It only loses a diagnostic, so `NoSpuriousDiagnostic`
checks only the other direction.

With one thread, the gotEOF test in `read_from_obj` can never fail. Any
object with gotEOF set is already out of every readers list. A mutant that
drops the test survives the sequential run, so `NoPutAfterEOF` is checked
only with two threads, where the test and the put can be separated.

### Bounds

- CircBuf: `MAX_BUF_SIZE = 4`, `MaxLen = 4` and `MaxBytes = 9`. This gives
  several complete wraps, overruns from every fill level, every put length
  including one past the clamp, and partial writes of every length.
- ObjGraph: one console with one logfile and three sockets. Three
  connections allow two steals in a row and a connect after a disconnect.
  `MaxDepth = 6` bounds the recursion, which the checked graphs never
  reach.
- Engine: one console, one logfile and two sockets. Two sockets allow a
  connect after a destroyed socket, and an EOF on one client while another
  is fed. Read-only sessions only: with read-write sessions, the steal
  through the dangling writer (the `objgraph_edges` finding) is reached
  within three steps and ends every behaviour. The sequential run
  has one thread; the race runs have two, the fewest a race needs.
- ConfParse: `MaxToks = 12` tokens. This holds a bad directive, its
  resynchronisation and a complete `CONSOLE NAME=s DEV=s LOG=s` line after
  it, or two SERVER options. `MaxOpts = 2` command-line options allow `-p`
  together with `-k`, or two `-p`. The numbers are model constants:
  `IntVal` for a positive `atoi`, and `CmdPort` and `DefaultPort`
  distinct from it, so the three port sources can be told apart.
- ConfLock: two daemons and one `-k` show each race. The passing run has
  three daemons and two `-k` processes.
- Deadlock checking is off. The bounded number of connections lets the
  daemon go idle, as the real daemon does while it waits for a client.
  After a memory error (`fault`) the model stops. The configuration phase
  and the lock processes terminate.

### Fairness

`ParseTerminates` is checked under ConfParse's `FairSpec`, weak fairness
of `Next`. The configuration phase is one thread that runs until it exits,
and the lexer reads a buffer of finite length (`MaxToks` tokens, then EOF
forever). Nothing waits on another actor.

`DeferredCloseCompletes` is checked under `FairSpec`:

- **Strong fairness of `write_to_obj` per object.** The select loop
  services every object whose buffer holds data, or whose close is
  deferred, each time a thread is free. A single thread is only
  intermittently idle, so weak fairness would allow the dispatcher to
  serve reads forever. TLC finds that behaviour with WF.
- **Weak fairness of each thread's remaining steps.** A dispatched handler
  runs to its end.
- **No fairness on reads and accepts.** Clients need not send anything.

Reading an object whose buffer is empty but has gotEOF set as writable is
the dispatcher's condition, not the code's. The dispatcher can only select a
descriptor, so an object with `fd` closed is never written; this is why the
failed logfile open of `engine_logfail` keeps its bytes forever.

## 5. What is not modelled, and why

- Names, device paths, baud rates, time strings and the message texts: no
  property distinguishes them. The steal notice and the log header are
  puts of some bytes.
- `parse_buf_for_control`, which is a no-op.
- `compare_objs`, which no operation uses, and the duplicate-name check
  that `create_obj` leaves as a FIX_ME (names are not modelled).
- Fatal errors (`err_msg` exits the process).
- The lexer (`lex.c`) and the list library (`list.c`), which are not in the
  repository snapshot. Their behaviour is taken from spec.md and from how
  the code uses them: `list_pop` on an empty list returns NULL, and
  `list_delete` removes the element at the iterator.
- `-c`, `-v` and `-z`, which set the file name and flags that no property
  tells apart. The file-level failures of `process_server_conf_file` are
  one nondeterministic `fatal` exit (`OpenConf`); errno and the messages
  are not modelled.
- `destroy_server_conf`, which only frees memory.
- Pid reuse after a daemon exits, so that `-k` signals an unrelated process.
  The stale-pid window is `KillSend`'s ESRCH branch.
- The dispatcher, the accept loop and the main loop are not in `src/`.
  Engine assumes the dispatch discipline stated above.
