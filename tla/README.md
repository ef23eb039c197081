# Verification of CS5600_ComputerSystem

The repository is a term's worth of C programs. This directory holds TLA+ models of
them (the protected queue with its producers and consumers, the remote file system, the
LRU cache over the message store, the process queue, the chunked encryption with its
child processes, and the small exercises), the TLC configurations that check them on
small instances, and TLAPS proofs of what matters most for every size. `PROJECT.json` maps every definition to its source lines and
lists runs, mutants, findings, hazards and theorems.

## 1. Inventory

| Part | State | Operations | What is hard | What makes it correct |
|---|---|---|---|---|
| `week7/queuep.c` circular queue | array, head, tail, size | init, put, get, empty, full | wrap-around at the capacity | indices and size agree; order of items |
| `week7/pqueuep.c` protected queue | the queue, a mutex, ONE condition variable | `pput`, `pget` (block) | interleaving, lost and spurious wakeups | mutual exclusion; no lost wakeup; first in, first out |
| `week7/pqueuepmain.c` | two counters under their own lock | `producer`, `consumer`, `main` | counters and queue under different locks; a counter stale when used | every item in one place; all items consumed; threads stop |
| `practicum2/server.c` server | permission table, open files and locks, a thread per client | WRITE, GET, RM | threads racing between permission check, `open`, `flock` and use; early returns; death | who may write; locks given back; read-only files stay |
| `practicum2/client.c` client | connection, local file | WRITE, GET, RM | replies without borders, a dying server | every run ends, with what was asked for |
| `practicum1/cache.c` LRU cache | hash table with linear probing, doubly linked list, heap | lookup, put, evict | long mixtures of hits, updates, evictions, collisions | table, list and heap agree; least recently used goes |
| `practicum1/message.c` message store | a file per message | create, store, retrieve | failures and death between truncation and writing | files follow the cache |
| `week6/multi_process.c`, `queue.c`, `cipher.c` | string queue, chunk and output files, a child per chunk, stdio buffers | generate, load, write chunk, fork, encrypt | failing files, disks and children; what fork copies; files of earlier runs | no string lost on the way; outputs belong to their chunks; every run ends |
| `week5/queue.c` process queue | doubly linked list, heap | push, pop, remove by priority, destroy | pointers at both ends, long call sequences, failing malloc | it is the sequence it stands for; no leak, no cycle |
| `week7/` thread demonstrations | shared array, threads | write, read, cancel, join | data race, cancellation anywhere, no join | bounded tearing; main returns |
| `week3/` Polybius cipher, `genrand`; `week4/loadmem.c`; `01-28/arger.c` | a file or none | pure functions, parsing, arithmetic modulo 2^32 | boundaries | decode after encode; blocks hold the numbers of their line |

How they interact: `pqueuepmain.c` calls `pput`/`pget`, which call `queuep.c` under
the mutex. A client and its server thread exchange segments over one TCP connection;
server threads meet in the permission table (under `g_files_lock`), in the files and
in `flock` locks. `cache.c` calls `message.c` on every put and on every miss.
`multi_process.c` fills `queue.c`'s list from `strings.txt`, empties it into chunk files
and has a child run `cipher` on each; parent and child meet in the files, in the stdio
buffer the child inherits and in `wait`. The programs of different directories do not interact.

## 2. Modules

| Module | Models | Built on |
|---|---|---|
| `CircularQueue` | `queuep.c`: struct as a record, functions as operators | |
| `BoundedFifo` | abstract: what `pqueuep.h` promises | |
| `PQueue` | `pqueuep.c`, arbitrary callers | `CircularQueue`; refines `BoundedFifo` |
| `ProducerConsumer` | `pqueuepmain.c` | `PQueue` |
| `PQueueProofs` | theorems about `PQueue` | |
| `ProducerConsumerProofs` | theorems about `ProducerConsumer` | `PQueueProofs` |
| `RfsWorld` | connections, inodes, `flock`, requests: what server and client share | |
| `RfsPerm` | the permission table | `RfsWorld` |
| `RfsServer` | `server.c` | `RfsPerm` |
| `RfsClient` | `client.c` | `RfsWorld` |
| `Rfs` | server and clients together, all properties | `RfsServer`, `RfsClient` |
| `MCRfs` | command lines and paths of the runs | `Rfs` |
| `RfsProofs` | theorems about `Rfs`: locks and permissions; bytes, verdicts, the exchange | |
| `LRUCache` | `cache.c`, `message.c`, `main.c` as the caller | refines `LRUSpec` |
| `LRUSpec` | abstract: what `cache.h` promises | |
| `MCLRUCache` | symmetry | `LRUCache` |
| `LRUCacheProofs` | theorems about `LRUCache` | `InductionLemmas` |
| `ProcessQueue` | `week5/queue.c` | refines `PriorityQueue` |
| `PriorityQueue` | abstract: what `week5/queue.h` promises | |
| `MCProcessQueue` | processes and priorities | `ProcessQueue` |
| `ProcessQueueProofs` | theorems about `ProcessQueue` | |
| `StringQueue` | `week6/queue.c`: struct and nodes as a record, functions as operators | |
| `Lcg` | the two linear congruential generators at full width | |
| `Stdio` | character classes and `fgets` (external) | |
| `Encryption` | `multi_process.c` and `cipher.c` | `StringQueue`, `Lcg`, `Stdio` |
| `MCEncryption` | contents of `strings.txt`, seeds | `Encryption` |
| `EncryptionProofs` | theorems about `Encryption` | `InductionLemmas` |
| `ThreadDemos` | `thread_shared.c`, `thread_cancel.c`, `multithread.c` | |
| `TextTools` | `arger.c`, `polybius.c`, `loadmem.c`, `genrand.c` | `Stdio`, `Lcg` |
| `Exercises` | one of the small programs, chosen at the start | `ThreadDemos`, `TextTools` |
| `MCExercises` | their inputs | `Exercises` |
| `ExercisesProofs` | theorems about `Exercises` | `InductionLemmas` |
| `InductionLemmas` | induction and recursion over natural numbers | |

Definitions marked MUTANT are deliberate errors, each put in the place of the
definition after it to show that a property notices; no specification uses them.

**PQueue.** `q`, `mutex`, `cond` are the fields of `struct pqueue`; `pc[t]` is where
thread `t` is, `val[t]` the integer it holds. A step is what a thread does between two
points at which another can come in: lock, test, sleep, change the queue, broadcast,
unlock. `pthread_cond_wait` is two steps, releasing-and-sleeping and getting the mutex
back; in between the thread needs a broadcast or a spurious wakeup (at most
`MaxSpurious` of them, the one bound). `End` is a thread that leaves for good, as the
producers and consumers of `pqueuepmain.c` do.

**ProducerConsumer.** A section under `gCountLock` is one step (nothing in it blocks or
touches the queue). A producer claims the next number and then calls `pput`; a consumer
looks at the counter, calls `pget`, and then counts. `usleep` and `printf` are left out.
`consumed` is a history of what was printed.

**Rfs.** `srv[c]` and `cli[c]` are where the server thread for client `c` and client `c`
are. A step of a server thread is one system call on shared state or one
`g_files_lock` section, together with the private work and the reply that follow; after
`write()` and `remove()` the reply is a step of its own, so that the server can die with
the file changed and the client not told.
Abstractions: a byte is named after who uploaded it, an inode after who created it, a
segment is a reply tag or a chunk of bytes; printing and `full` path building are left
out. Kept: the order of truncation and locking, of check, set and check, the path and
the inode as different things, the table's limits (`MAX_FILES`, names cut by `strncpy`),
`recv()` returning several segments at once, every early return, failing `flock` and
`write`. External and so modelled from use: `flock`, `write`, `recv`, the death of the
process. Not in it: a segment split in two, `connect` while the server is down,
`accept`/`malloc`/`pthread_create` failures, SIGPIPE.

**LRUCache.** `cache` is one record of all static variables of `cache.c` and of the
nodes' fields; each C function is an operator from record to record. `malloc` returns
any free node, `free` makes its fields unusable. `store_msg` is split where the process
can die: after `fopen("wb")` has truncated the file, and after the writing, which may
leave the file torn. Nobody looks at the result of `store_msg`, so a failure it reports
and one that shows only in its unchecked `fclose` are the same step. `counted`
is what the last lookup did to the statistics, `unsaved` (a history variable) the ids
whose last `store_msg` did not store the message. The process may die any number of times. `Spec` lets
the caller use any id; `CarefulSpec` lets it make every call except one that would evict
a node over whose slot the search for another cached id, or for the new one, runs
(`Cuts`). With ids 1 to 20 and 103 slots `main.c` meets no collision and therefore is
always careful. `Order` reads the list from the head along `next`, and `Entries`, the ids and
messages in that order, is what the refinement maps to `LRUSpec`.

**ProcessQueue.** `head`, `tail`, `size` are the fields of `queue_t`, `data`, `prev`,
`next` those of the nodes, as functions from addresses; `allocated` is the heap. A call is
one step, except that the search of `remove_process` and the loop of `destroy_queue` take
a step per turn. `free` leaves the fields of a node as they are, so that a use after free
shows up as a wrong list. `order` is a history variable, the nodes in the order in which
the list should have them; the pointers are compared with it, and through it the list is
mapped to `PriorityQueue`.

**Encryption.** `pc` is where the parent is, `child.at` where its child is; a user starts
`generate`, `encrypt` or a wrong command, up to `MaxRuns` times, over files that stay.
Texts are sequences of character codes. Every call that can fail and is checked may fail
(`open`, `memory`, `fork`, `exec`; the nodes of the queue come from a finite heap `Nodes`, so
that `malloc` fails when it is used up, and may fail before); `disk` stands for `fprintf` and `fclose`, which nobody
checks, leaving any prefix; `kill` for the death of a child. `spoiled` notes which files
a fault has spoiled in this run. Whether stdout is a terminal decides whether the lines
of the log are written at once or wait in the stdio buffer, which `fork` copies.
`freopen` empties the output file and `cipher` appends to it; a child that is killed may
have flushed any part of its text.
`strings.txt` holds no NUL bytes.

**Lcg** works on three digits of base 2^11, because TLC's integers end at 2^31 - 1; the
results are those of the C code bit by bit (theorem `GeneratorsAreExact`).

**Exercises.** In `ThreadDemos` a value written to the shared array is the number of its
round. An `int` is read and written whole, and each thread's accesses stay in program
order, since it calls `rand` or `printf` between any two of them. `atStart` is the array
at the first read of the reader's round. Sleeps may end at any
time. `TextTools` gives the text functions as operators, with recursive functions for
their loops, and the programs as one or a few steps. Command lines longer than
`arger`'s buffer are outside the model. `at` is "failed" when `genrand` could not open its
file and returned without having changed it. `Integer` is what `sscanf` makes of the
characters at a place, `sscanf` the same after white space.

## 3. Runs

Passing:

| Run | Instance | Shows |
|---|---|---|
| `pqueue` | 3 threads that put and get at will, 2 slots, 2 values, 1 spurious wakeup | no lost wakeup, ring consistent, FIFO channel |
| `producer_consumer` | 2+2 threads as in `main`, 4 items, 1 slot, 1 spurious wakeup | accounting; all work gets done; only consumers strand |
| `rfs` | 2 clients, 18 command lines (WRITE RO/RW/none, GET, RM, an empty and an unreadable upload, bad arguments) over 4 paths (one too long for the table, one in no directory), table of 1 entry, faults, one server death | permission race and rejections that stand, at the table's limits; locks given back on every early return; no bytes of another path; only empty uploads hang; every other client ends |
| `lru_cache` | 4 ids, 3 places, 4 slots, two ids with one hash value, `store_msg` may fail, any number of deaths | table/list/heap, write-through, LRU, probing around the table's end |
| `process_queue` | 3 processes (two of equal priority), 3 nodes, failing `malloc`, any sequence of calls | pointers, heap, search, refinement, loops end |
| `encryption` | 2 runs, 7 contents of `strings.txt` (one with more lines than the heap has nodes), chunks of 2, buffer for 3 characters, every kind of fault | nothing lost, chunks full, outputs decipher, no log in outputs, runs end |
| `exercises` | array of 3, 4 rounds; about 1500 inputs of the text tools | tearing, cancellation, text functions at their boundaries |

Why these bounds: two slots are the fewest with full, empty and in-between and make the
ring wrap at every second item; three threads are the fewest with two of a kind and one
of the other, whichever they are. Two clients are enough for every race between two
handlers; that a third one changes nothing is what the theorems of `RfsProofs` show. One
entry is the smallest table that can be full for a path that matters. One capacity below
the number of ids is what makes evictions happen. `producer_consumer` has a single slot, fewer
than threads of a kind: only then can producers and consumers be waiting at the same
time, which is when a wakeup can go to the wrong one. Four items are as many as there are
threads, so that the last rounds of the counters are played in every order. In `lru_cache`
the ids 3 and 7 share the last slot and 4 the first, so that searches run into each other
and around the end. Three nodes have a head, a middle and a tail. Two runs of the
encryption are what it takes to leave files behind and to meet them; four nodes make two
chunks with a full or a partly filled last one, and a buffer of three is exceeded by the
longest line, met exactly by another. The array of three slots is overtaken by up to four
rounds of the writer.

Deadlock is not checked in the queue and file-system runs: callers of `pget` may wait
for an item nobody puts, and clients run once. `OnlyConsumersStrand` and
`ClientsFinish` say precisely what may and may not stop. The programs of `encryption` and
`exercises` end, too. In `lru_cache` and `process_queue` deadlock is checked.

Violations. Each of these runs checks one statement of the repository's documents or
comments that the code does not live up to:

| Run | The code | The statement |
|---|---|---|
| `consumers_stop` | a consumer can be asleep in `pget` when the last item is gone | `pqueuepmain.c:8` "Stop consuming after 30 total items" |
| `writes_serialized` | truncation before the lock mixes two uploads | `practicum2/README.md:67` "serializes concurrent writes" |
| `collision_after_eviction` | emptying a slot cuts other ids' searches | `practicum1/README.md:33` "Lookup first checks cache" |
| `strings_processed` | a chunk file that cannot be opened ends the loop with strings left | `multi_process.c:171` "All strings processed in %d chunks." |
| `read_only_upload` | the upload that makes a path READ_ONLY is rejected by its own second look at the table (`server.c:76-84`) | `practicum2/README.md:47` "upload a read-only file", `:50` "any later write to the same path now fails" |

Other things the models show, as what a property had to be weakened to, or without one:

* what the run `read_only_upload` leaves of the documented behaviour is the second half:
  once somebody has been told that a path is read-only, no other write or removal of it
  gets past its check while the server is up (`RejectionStands`, which does not count the
  second look of an RO upload, so that it says the same of a server that stores such
  uploads);
* an upload of an empty file makes client and server wait for each other for ever, the
  server with the exclusive lock (`client.c:141`, `server.c:100`): `OnlyEmptyUploadsHang`
  and `ClientsFinish` confine the damage to such uploads and to the path they name;
* the early truncation also lets a GET under its shared lock read an empty file
  (`server.c:93` against `README.md:87`);
* a GET whose reply and data arrive in one `recv()` drops the data and returns 0 without
  saving anything (`client.c:175`), against `practicum2/README.md:43-45`;
* `handle_rm` looks at the permission before it waits for the lock: a path that becomes
  READ_ONLY meanwhile loses its file (`server.c:158`), against `practicum2/README.md:7`
  "later ops respect that setting", though never bytes (`ReadOnlyContentFixed`);
* `handle_rm` locks the inode it opened but removes by path (`server.c:167-173`): after
  another removal and a new upload it unlinks a file it has no lock on, against
  `practicum2/README.md:88` "Exclusive lock before `unlink`";
* a lookup that misses writes the message just read back to its file (`cache.c:132`), so
  a death between truncation and writing loses a message nobody changed, against
  `practicum1/README.md:9` "All messages are persistently stored on disk.";
* the permission table is lost with the process (`server.c:19`), and an upload that fails
  leaves the file truncated or half written (`server.c:101`). The model has both;
  `practicum2/README.md:98-99` lists larger transfers and persistent permissions as ideas
  for extension, so no property claims more;
* `put_msg` ignores a failed `store_msg` (`cache.c:175`) and keeps serving the message;
  `WriteThrough` excepts exactly the ids concerned (`unsaved`);
* a line of `strings.txt` of more than 255 characters becomes several strings, on lines
  of their own in the chunk files (`multi_process.c:85`): characters are kept
  (`NothingLost`), lines only if they are short enough (`LinesStayWhole`);
* with stdout not a terminal every child prints the parent's unflushed "Loaded" line once
  more (`multi_process.c:151`), to the parent's stdout and never to an output file
  (`NoLogInOutputs`);
* `push_queue` drops a process without telling when `malloc` fails (`week5/queue.c:21`),
  which is the only way to lose one (`ImplementsPriorityQueue`);
* the lowest bit of both generators alternates and the ranges used are even, so odd and
  even numbers of `genrand` alternate (`RandomNumbersAlternate`), and so do the letters
  within a string of `generate`. Of their range no property speaks: the code draws from
  1 to 10000, and the comment on the same line, `genrand.c:58`, says "between 1 and 100";
* a line of `blocks.data` that begins with a blank has its first number counted and stored
  twice (`loadmem.c:64`), against `loadmem.c:58` "Count the number of integers in the
  line". `BlocksHoldNumbers` is therefore about the lines that begin with a digit;
* `multithread.c` may end before its workers have.

## 4. Fairness

`ProducerConsumer!Fairness`: weak fairness of every thread. The POSIX scheduler runs
every runnable thread in the end, and the items and spurious wakeups are finitely many,
so that no mutex is taken by others for ever.
`Rfs!Fairness`: weak fairness of every server thread and every client. Each takes a lock
at most once, so a released lock cannot be snatched away for ever. A `flock` that fails
is excepted (`Refused`): waiting for a lock must not end well only because it may be
refused.
`ProcessQueue!Fairness`: a loop that was entered is worked through, there being one
thread; when calls are made is left to the caller.
`Encryption!Fairness`: weak fairness of the parent and of the child, two processes under
the kernel's scheduler; nobody has to start a run, and nothing has to fail.
`Exercises!Fairness`: weak fairness of the threads and of `main` of `thread_cancel.c`.
No fairness is assumed of faults, deaths or spurious wakeups. The safety runs use specifications
without fairness.

## 5. Proofs

All proofs assume only the named ASSUMEs of the modules:
* queue: a capacity of at least one, an uninitialised slot distinguishable from an item,
  `Nobody` not a thread; producers and consumers, at least one of each, and the values
  are the numbers 1 to `Total`;
* file system: client, path and marker names distinct, existing files in existing
  directories, a stored name short enough to be stored again unchanged;
* cache: a capacity of at least one and smaller than the table, ids that are natural
  numbers, `NULL` no address and no message;
* process queue: priorities are integers and `NULL` is no address;
* encryption: a finite heap, chunks of at least one string, strings of at least
  `MIN_LEN` and at most `MAX_LEN` characters, which fit in the buffer, texts of printable
  characters and newlines, a missing file distinguishable from a text, seeds of three digits;
* exercises: at least one slot and one round (`thread_shared.c`, `thread_cancel.c`), inputs
  that are sequences of integers (character codes of any value), `loadmem`'s buffer
  takes at least one character, a seed is three natural numbers.

All numbers (threads, items, slots, clients, paths, table size, deaths, spurious wakeups,
processes, nodes, lines and their lengths, runs, rounds) are arbitrary.

`InductionLemmas`: induction over a *set* of numbers (`Least`, `Induction`, `Stays`),
which needs no operator as parameter; `Recursion`, that a recursive function over an
initial segment of the numbers exists, so that its equation may be used; `First`, what a
loop that runs to the first place of some kind returns.

`PQueueProofs`:
* lemmas on the ring: with `On(h, i)` the slot `i` after `h`, `PutAppends` and
  `GetTakesHead` show that `queue_put` appends to, and `queue_get` takes the head of, the
  sequence `Contents`;
* `IInv == TypeOK /\ MutexDiscipline /\ NoLostWakeup /\ QueueConsistent` is inductive.
  `NoLostWakeup` alone is not: that a sleeper is in a wait loop, and that only the owner
  of the mutex is about to broadcast, is `MutexDiscipline`; that a removal makes room and
  an insertion ends emptiness needs the types. Steps are grouped into eight kinds
  (`Steps`), one case each;
* `TypeCorrect`, `MutualExclusion`, `WakeupSafety`, `QueueIntegrity` follow, and
  `Refinement`: `Spec => BoundedFifo`, by step simulation under `IInv`.

`ProducerConsumerProofs`:
* `UsesPQueue`: the program's specification implies that of `PQueue`, so every theorem
  above holds of it. `ItemsInOrder` is the refinement of `BoundedFifo` carried over;
* `MainInv` adds to `IInv` the range of the counters, `Roles` (which thread may be where,
  and why one that stopped did) and `ItemAccounting`, with the finiteness of the sets
  it counts (`PlacesFinite`), without which a cardinality is not known to be a number.
  Every step moves at most one item from one place to the next;
* `Accounting`: an item is in exactly one place. `StrandingIsHarmless`: where nothing can
  move any more, everything is produced and consumed and only consumers are left asleep.

`RfsProofs`:
* `PermInv`: a thread past its `set_file_permission` finds the path *settled* (it has an
  entry, the table is full, or its name is cut and cannot be entered as it is), and
  `SetKeepsVerdict` shows that what is settled keeps its permission for good. Without
  this, `WritersAuthorised` is not inductive: nothing would keep another thread from
  entering READ_ONLY after the second look. Theorem `WritesAuthorised`;
* `FileInv`: types of files and descriptors, `LockDiscipline`, and every inode belongs to
  one path for good. Theorems `Locking` and, from both invariants, `ReadOnlyBytes`.
* `RfsInv == PermInv /\ FileInv /\ TypeOK` is the ground the rest stands on
  (`RfsInvariant`, `RfsTypeCorrect`);
* `OnlyEmptyHang`: client and server wait for each other only over an empty upload. Needs
  `WireInv`, the order of the exchange: what may still be in either direction of the
  connection given where both sides are;
* `BytesStayHome` (`NoCrossTalk`): needs `BytesInv`, which follows the bytes everywhere,
  also into unlinked inodes still open, buffers and both directions of a connection;
* `FirstWriterDecides` (`RejectionStands`): needs `VerdictInv`, that a client told, or about
  to be told, that a path is read-only was told so by an entry of the table, which stays;
  a thread goes past a look at the table only if that entry is not there
  (`AdmittedByTable`).

`LRUCacheProofs`, about `CarefulSpec`:
* the least-number lemma gives what the linear search returns, and a pigeonhole argument
  that it meets an empty slot, since the capacity is smaller than the table;
* `LRUInv == TypeOK /\ CacheInv /\ StoringCached /\ WriteThrough` is inductive, where
  `CacheInv` says that the list is a sequence of exactly the allocated nodes and that the
  search for each node's id ends at it. That evicting a node keeps the other searches
  intact is where the caller's care is used;
* `LRUTypeCorrect`, `StructuresAgree`, `FilesFollowCache` follow, and `IsLRU`, the
  refinement of `LRUSpec`;
* `CollisionFree`: if no two ids share a hash value, every behaviour of `Spec` is one of
  `CarefulSpec`, which is the case of `main.c`; hence `CachedIsFound`, the statement that
  the run `collision_after_eviction` refutes in general.

`ProcessQueueProofs`:
* `Removal`: unlinking the node at any place of the list (first, middle, last, only)
  leaves a well-formed list of the others, and the heap is that list; `pop_queue` is the
  case of the first place (`PopIsRemoval`);
* `IInv == TypeOK /\ ListWellFormed /\ HeapIsList /\ BestSoFar` is inductive, and no
  part of it alone: that a new node is not in the list yet is `HeapIsList`, that the node
  `remove_process` unlinks is in the list is `BestSoFar`, and that the search and
  `destroy_queue` come from node to node is `ListWellFormed`. `order` makes the list a
  sequence, so no induction over data is needed;
* `TypeCorrect`, `ListCorrect`, `NoLeak`, `SearchCorrect` follow, and `Refinement`:
  `SafetySpec => PriorityQueue`, by step simulation under `IInv`; the turns of the loops
  are stutters.

`EncryptionProofs`:
* from `Induction` and `Recursion` follows what `Letters`, `Joined`, `Strings` and `After`
  compute;
* `EncInv`: types of files, terminal and program counter, `QueueInv` (the list is a
  sequence of allocated nodes ending at the tail), `Stages` (which variables mean something
  where), `Room` (every chunk takes at least one string out of the heap's, without which
  the number of the chunk has no bound) and `ChildQuiet` (after `freopen` the child has
  nothing in its buffer). Theorems `EncTypeCorrect` and `OutputsHoldNoLog`,
  neither of which is inductive without `ChildQuiet`;
* `Content` is the text of the chunk files begun, the queue and what is unread, joined
  in that order, and `TextStep` sorts every step by what it does to it: opens, leaves,
  reads a line, writes a string. Reading and writing move text across a border without
  changing the whole; hence `NoLetterLost` (letters only) and, when no line exceeds the
  buffer, `NoLineTorn` (newlines, too);
* `ChunksFilled`: a chunk is left before it is full only because the queue was empty;
  `FullInv` adds the count of the current chunk and that the previous ones were full;
* `OutputsAreEnciphered`: an output file no fault has spoiled deciphers to its chunk file.
  `OutInv` adds the child that has just ended; the parent, waiting, writes neither file,
  and afterwards works on the next chunk (`Behind`).

`ExercisesProofs`:
* `TearingIsBounded`: needs `SharedInv`, how far the writer is and that what the reader
  has seen lies between the array at the beginning of its round and the array now;
  the array of its first read is remembered there, so the bound holds to the round's end;
* `CancelJoins`, the safety part of `CancelMainReturns`: when `main` returns, X has done
  all rounds and Y has ended. `CancelInv` adds that nobody asks X to end and that `main`
  is past a join only after the end of its thread;
* `GeneratorsAreExact`: the arithmetic on three digits is that of C. Hence `Parity`, that
  the lowest bit alternates and survives the remainder by an even number, and
  `NumbersAlternate`. The attempt to prove it showed that the property as first stated
  did not hold for every old file when `genrand` cannot open it; it now covers this case
  by itself;
* `CipherInverts`: `LetterCode` goes through the square once for all letters, `Codes` adds
  one letter at a time to the text;
* `WordsCapitalized`: `NewWordIsFresh` shows that the flag `newWord`, carried from
  character to character, means that no letter was met since the last blank;
* `BlocksAreComplete`, about lines that do not begin with a blank: in a line of numbers the
  pointer is led from a start to the next one
  with none between (`NextStart`), hence from the number of rank `k` to that of rank `k + 1`
  (`NextRank`), and behind the last one `sscanf` fails; so the count of the first pass is
  right (`BlockIsNumbers`, which also has what becomes of a line with a blank in front). That a newline comes only at the end of a piece is
  `PieceTaken`, about `fgets`; without it the pointer, which looks for blanks only, would
  miss a number after a newline.

Every invariant, action property and refinement that a run checks is thus a theorem. Only
model-checked are the liveness properties `WorkGetsDone`, `ClientsFinish`, `CallsReturn`,
`RunsEnd` and `CancelMainReturns`: fairness is out of the prover's reach.

## 6. Not modelled

* `week4/allocmem.c` (allocates one block and reports), `01-28/learnc.c` (prints),
  `01-28/mpg2km.c` (a floating-point conversion): no state and no integer logic.
* Output and its wording, `print_cache_stats`, `print_dyn_block`, usage messages.
* `create_msg`: fills a struct; the model's messages are an id and a body.
* Build files and data.
* In the remote file system: see **Rfs** above for the system-call failures left out.
* Negative message ids (`main.c` uses 1 to 20), numbers beyond `int` in `loadmem`'s input.
* The layout of `Message`: a file is written and read by the same `sizeof`.
* Lists of arguments that overflow `arger`'s `output[1000]`: the code has no check, and what
  happens then is undefined. The model's guard keeps to the lists that fit.
