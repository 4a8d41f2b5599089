# A verification of the Icecast common library in TLA+

This directory models the common library of Icecast (`avl/`, `thread/`,
`httpp/`, `log/`, `net/`, `timing/`): the parts of it that keep state and whose
mistakes show only after several steps, often of several threads. TLC checks
the models on small instances, and TLAPS proves the safety properties of the
thread registry, the balanced tree, the log, the sockets, the chunked stream
and the request parser for every instance. `PROJECT.json` lists the components,
the runs, the mutants that show that each property can fail, the source lines
every definition stands for, the hazards of the code, the disagreements found
between code and comments, and the theorems.

## Inventory

| Component | State it keeps | Operations | What is hard | What makes it correct |
|---|---|---|---|---|
| AVL tree (`avl/avl.c`) | linked nodes with parent pointer, balance factor (2 bits) and rank (30 bits); length | insert, delete, free; searches by key, nearest key, index, spans, iteration | rotations at several levels, ranks changed before the outcome of a search is known, equal keys, failed allocation | balanced, linked, ordered, ranks count; every query answers what the ordered sequence says; it is a bag |
| Thread registry (`thread/thread.c`) | tree of thread records, its mutex, id counter | create, start, self, rename, exit, join, shutdown | everything runs concurrently; records are freed while others hold pointers; the system reuses `pthread_t` values | ids unique; a running thread is registered; a join finds and frees the record; freed records are not used; calls return |
| Locks, conditions (`thread/thread.c`) | none beyond pthreads | one call each | arithmetic on timeouts | left to pthreads and to callers |
| Chunked encoding (`httpp/encoding.c`) | raw, decoded and encoded buffers, bytes to the next header, bytes to the end of the stream | read, write, flush, eof, pending, meta data | the callbacks cut the stream anywhere, take a part, or nothing | no byte lost, doubled or moved; the decoder stays in step; the end is seen |
| Log (`log/log.c`) | table of slots: file, name, size, list of kept lines and its tail pointer | open, close, reopen, rotate, write, set, contents | several threads, tests without the mutex, slots reused, rotation that fails | the last lines are kept; no closed file or freed memory is used |
| Request parser (`httpp/httpp.c`) | trees of variables, query and post parameters, uri, method, reference count | parse a request, a response or a body; set, get, delete; list keys; reference, release | failure half way, a parser used again, limits, several values to a name, escapes | the variables agree with the request; a refused one leaves no half; forms decode; keys are unique; nothing is leaked |
| Sockets (`net/sock.c`) | none of its own; the process's descriptors and their blocking mode | connect with timeout, non-blocking connect, server socket, accept, probe for mapped addresses; read, write | several addresses, each of which fails at any of several calls; interrupted waits; numbers of closed sockets that other threads get | nothing leaks or is used after it was closed; what is returned is connected; timeouts are kept; calls return |
| Resolver (`net/resolver.c`) | an initialised flag and a mutex | initialise, shut down, lookups | none | idempotent initialisation |
| Timing (`timing/timing.c`) | none | clock, sleep | none | unit conversions |

How they interact: `thread.c` keeps its records in an AVL tree, under its own
mutex; `httpp.c` keeps variables in AVL trees that belong to one parser;
`avl.c` takes its locks from `thread.c`; `sock.c` looks names up itself or, in
a build without `getaddrinfo`, through `resolver.c`; `encoding.c` calls its user's
callbacks, which usually end in `sock.c`; everything may write to the log.

## Modules

| Module | Models | Role |
|---|---|---|
| `ThreadRegistry` | `thread.c` | the registry, its operations, properties and inductive invariant |
| `MCThreadRegistry` | | symmetry for TLC |
| `ThreadRegistryProofs` | | the theorems |
| `OrderedBag` | what `avl.h` promises | abstract specification: a bag of keys |
| `AvlTree` | `avl.c`, `avl.h` | the linked tree and its operations |
| `AvlQueries` | `avl.c` | its queries, and what they answer |
| `MCAvlTree` | | a view that forgets node addresses |
| `AvlInsertProofs` | | insertion: subtrees and heights, rotations, the new leaf |
| `AvlTreeProofs` | | deletion and the theorems about the tree and its queries |
| `LoopTheorems` | | lemmas about loops, `Min` and `Max`, for the proofs about tree and parser |
| `ChunkedWire` | | the symbols on the connection |
| `ChunkedWriter`, `ChunkedReader` | `encoding.c` | the two ends |
| `BytePipe` | what `encoding.h` promises | abstract specification: bytes in order, then the end |
| `ChunkedStream` | | composes writer, connection and reader; the properties |
| `ChunkedStreamProofs` | | framing as an automaton, lemmas about it and the theorems about the stream |
| `LogSlots` | `log.c` | the table of logs, its calls, properties and inductive invariant |
| `MCLogSlots` | | symmetry for TLC |
| `LogSlotsProofs` | | the theorems |
| `UrlQuery` | `httpp.c` | query strings and forms: decoding as in the code, encoding as reference |
| `Httpp` | `httpp.c` | a parser, its trees and the calls on it |
| `MCHttpp` | | requests, responses, forms and settings for TLC |
| `HttppProofs` | | the theorems about the parser |
| `SockCalls` | `sock.c` | the calls that open sockets, by several threads, in both builds |
| `MCSockCalls` | | the calls each thread makes |
| `SockCallsProofs` | | the theorems |

Operators whose comment begins with "Mutant of" are faulty versions of the
definition that follows them. No specification uses them; each shows that one
property notices a plausible mistake.

### ThreadRegistry

A record is named by the thread it is allocated for; `rec` says whether its
heap block is live or freed. The tree is a set of records, because no step
looks at it without the mutex. Each thread has a program counter `pc`; taking
`_threadtree_mutex` is an action of its own (`MutexLock`), and a critical
section is one action that also releases it, except for `_next_thread_id++`,
which is split into read and increment so that the mutex around it matters.
What is done outside a critical section (the reads of `detached`, the write of
`thread_rename`, the creator's look at the record after `pthread_create`) is an
action of its own. Between two actions any other thread may act.

pthreads are external: `Usable` says which `pthread_t` values `pthread_create`
may return. POSIX allows the value of a joined, or of a detached and ended,
thread to be used again, and glibc does; `Recycle = FALSE` rules it out.
A use of a freed record, or of a NULL that is not tested for, sets `ub` to the
site and ends the behaviour. `thread_shutdown` does not look for running
threads; callers are expected to come there last, which is its guard here. A
joinable thread is joined once, by its creator. `malloc` leaves the `detached`
field of the main thread's record as it is: `Init` chooses it.

### AvlTree

A node is a number, the heap a record of functions, `Root` the sentinel. A side
is -1 or +1, as in the balance factors, so that a rotation and its mirror image
are one definition. Each operation is one action, since callers hold a lock
around it. `AvlDeleteMiss` is the deletion of an absent key and
`AvlInsertNoMemory` the failed allocation: both change ranks. `Misses` and
`OutOfMemory` say which of these happen; `MaxRank` bounds how far ranks drift.
`tree->height` is written and never read, and is left out.

The loops that go from node to node (`Follow`) and the one that climbs after a
deletion (`Shorten`) are recursive functions of the number of turns. A path
meets `MaxLength` nodes at most, as there are no more; the turns that are left
when a loop has ended change nothing. The queries, in `AvlQueries`, are written
the same way: going down by rank (`RankStep`), climbing to a neighbour
(`Ascend`), counting places on the way of a search (`Position`), running along
equal keys (`EqualRun`) and back from an index (`Visit`).

### ChunkedWriter, ChunkedReader, ChunkedStream

A payload byte is its position, a chunk length is one symbol, and so are
carriage return and line feed. A call of `httpp_encoding_write` is one action:
flush, encode, flush again, where the callback takes any prefix each time. A
call of `httpp_encoding_read` is one action too: copy, decode, copy. The
callback returns any prefix of what has arrived, up to `MaxGive`, or nothing.
`BufLen` stands for the 1024 bytes asked for to find a header.

### LogSlots

What a function does under `_logger_mutex` is one step, what it tests or does
outside is one of its own. Of the sizes only the comparison with the trigger is
kept (`full`), and what `stat` and `fopen` return is chosen. Lines are
numbered. Undefined behaviour (a closed or NULL file, a freed name, a dangling
`log_tail`) sets `ub`; `tail` remembers what made `log_tail` dangle. Callers
use an id between the return of `log_open` or `log_open_file` and the call of
`log_close`, which is made when no other call on the id is under way.

### UrlQuery, Httpp

`UrlQuery` works on sequences of ASCII codes, since which character ends,
escapes or separates what is the point of it: `UrlUnescape`, `QueryElement` and
`ParseQuery` are the three functions of the code, a NULL result being the empty
set. Loops are recursive functions of the number of turns (`QueryStep` is one
turn), of the position in the string in `UrlUnescape`. `UrlEncode` is the
reference, the encoding of forms.

In `Httpp` a tree is a bag of variables: `AvlTree` shows that this is what the
trees of `avl.c` are, equal names included. A request is a record of what the
parser tells apart in it (the number of words of the first line, the parts of
the version, the lines after it, a missing last line end); header names and
values are words, told apart by case only, other than NULL, which no line of
text is; the assumptions on the constants say this. `Parse` has each early return of
`httpp_parse` with the state it leaves. Allocations succeed; `heap` counts the
blocks that were allocated for variables and strings and not freed, `lost`
those that nothing points to; `TreeBlocks` counts the blocks of a tree as the
size of a set. Calls are made one at a time, as a parser belongs
to one connection.

### SockCalls

A step is a system call, or what a function does between two of them. Every
thread has a record of the call it is in, with the local variables of the
functions; `fds` is the process's table, in which the kernel gives out the
lowest free number, so that a number that was closed is soon somebody else's.
Both variants of the code are there (`build`): the one with `getaddrinfo`, and
the fallback, which is another implementation of the same calls. Any system
call may fail. A connect is refused at once, pending, or done; a pending one is
decided by the kernel (`Kernel`) at any time, or never until a timeout; signals
interrupt a blocking connect and `poll`. `strayed`, `cut`, `why` and `elapsed`
are history for the properties. The probe for mapped addresses connects to the
same list of addresses as other calls do.

## Runs

| Run | Configuration | Shows |
|---|---|---|
| `thread_registry` | `ThreadRegistry.cfg` | the safety properties with recycled handles, three threads beside the main one |
| `thread_live` | `ThreadRegistryLive.cfg` | without recycling: no record outlives its thread, calls return, joins complete |
| `thread_rename` | `ThreadRegistryRename.cfg` | violated: `thread_rename` reaches the record of a joined thread |
| `avl_tree` | `AvlTree.cfg` | all properties of the tree and its queries, refinement of the bag |
| `avl_faults` | `AvlTreeFaults.cfg` | what failed insertions and missed deletions leave intact |
| `avl_miss` | `AvlTreeMiss.cfg` | violated: a missed deletion spoils a rank |
| `chunked_stream` | `ChunkedStream.cfg` | conservation, synchronisation, refinement of the byte pipe; every byte and the end arrive, but for the two cases below |
| `chunked_eof` | `ChunkedEof.cfg` | violated: the end is not reported |
| `chunked_buffered` | `ChunkedBuffered.cfg` | violated: a complete chunk stays in the buffer |
| `log_slots` | `LogSlots.cfg` | kept lines, slots, and the only five ways to undefined behaviour |
| `httpp` | `Httpp.cfg` | variables agree with requests, refused requests, decoded forms, unique keys, the two leaks |
| `sock_calls` | `SockCalls.cfg` | descriptors, what is returned, when a call gives up, that it returns |

Deadlock is checked in every run but `httpp`, where a parser that was released
takes no more calls; where another system may stop, a stuttering step says so
(`Finished` in `ThreadRegistry`, the last disjunct of `Next` in `LogSlots`).

Where the code has an exception to what one would expect of it, the property
names the exception and TLC shows that there is no other: the leaks of `Httpp`
(`LeaksOnlyThere`), header lines that replace the library's own variables
(`RequestAgrees`), what a refused request changes (`FailedParseKeeps`), the
five sequences of `UndefinedOnlyThere`, the two ways to get stuck of
`AllArrives`, and in `sock.c`

* without `getaddrinfo`: a failed lookup closes the socket that the caller goes
  on with, by then perhaps another thread's; an unbound server socket is not
  closed; a connect refused at once is taken for a success if there is a
  timeout;
* with it: the address list of `bnd` is lost for all addresses but the last; a
  socket connected at once stays non-blocking if there is a timeout; a signal
  starts the timeout anew, or, if there is none, ends the wait at once, although
  the comment at `sock.c:551` says "If timeout is 0 or less then we will wait
  until the OS gives up on the connect".

### Bounds

* Threads: the failures with recycled handles need a thread that is joined, one
  that joins it and one that gets its handle; three threads beside the main one
  and three handles give room for all, and for a detached one.
  `thread_live` has two, without symmetry, which is not sound for liveness.
  `MaxRenames` bounds calls that could otherwise repeat for ever.
* Tree: a deletion can rotate at two levels from twelve nodes on
  (`MaxLength = 12`). Three keys make equal keys unavoidable and let a search
  end on either side of a node. `ShapeView` identifies trees that differ in the
  addresses of their nodes only. The fault runs use four nodes: a wrong rank
  stays wrong whatever the size.
* Stream: four bytes in chunks of up to two give up to four chunks, reads of
  up to two span a chunk and its end, and `BufLen = 8` holds a chunk and the
  header after it, the case in which chunks wait in the buffer. The end mark is
  of either kind and written up to twice, since flushing writes another.
* Log: three threads on one slot that is used again and again, and four lines
  where none, one or two are kept, so that the list fills, overflows, is
  trimmed and emptied. Slots share nothing but the mutex.
* Parser: three calls reach every pair of calls and what a third makes of it;
  `MAX_HEADERS = 3` and `Grow = 2` are small so that lines are dropped and
  arrays grow. Requests have up to three header lines, all pairs among them,
  and first lines of zero to four words with good and bad versions, methods and
  queries. The forms hold every character that needs escaping, repeated keys
  and an empty value.
* Sockets: one thread makes every kind of call, with no, a zero and a positive
  timeout, bound and not, the other only opens non-blocking sockets, which is
  what it takes to get a number that the first has closed. Two addresses of the
  two families, one signal for each call, and one descriptor more than needed,
  so that leaks exhaust the table.

### Fairness

`ThreadRegistry!FairSpec` assumes weak fairness of every thread inside the
library: the operating system schedules it. Nothing is assumed of callers; a
start routine may run for ever, and a join waits for it. A weakly fair
`MutexLock` is enough in the checked instance because the number of calls is
bounded, so that no thread can be overtaken for ever. `ChunkedStream!FairSpec`
assumes that the application goes on reading and writing and that callbacks do
not return nothing for ever while something can be taken. `SockCalls!FairSpec`
assumes that threads are scheduled inside the library and that the kernel
decides a pending connect some day; `MaxSignals` stands for the assumption that
signals do not interrupt a wait for ever.

## Findings

1. `thread_join` returns the `pthread_t` to the system before it deletes the
   record, so that `thread_self` in a new thread may return the old record and
   `thread_rename` does not rename "current thread" (`thread.h:201`).
2. `avl_delete` of an absent key adds one to a rank it never lowered
   (`avl.c:389`), against the comment at `avl.c:372`.
3. `httpp_encoding_eof` never reports the end if the last line end arrives in a
   read of its own (`encoding.c:548`).
4. A complete chunk that arrived with the one before it is not delivered unless
   more bytes arrive (`encoding.c:534`), against `encoding.c:577` and
   `encoding.h:59`.

## Proofs

| Module | Theorem | Property |
|---|---|---|
| `ThreadRegistryProofs` | `Inductive` | `IInv` |
| | `TypeCorrect` | `TypeOK` |
| | `IdsAreUnique` | `UniqueIds` |
| | `RunningIsRegistered` | `RunningRegistered` |
| | `JoinDeletesRecord` | `JoinFindsRecord` |
| | `SelfIsOwnOrGone` | `SelfOwnOrGone` |
| | `DanglingPlaces` | `DanglingOnlyThere` |
| | `Monotone` | `NoResurrection` |
| | `FreshHandles` | `NoStaleRecord` and `RenamesCurrent`, if handles are not reused |
| `LogSlotsProofs` | `SlotsSafe` | `IInv` |
| | `SlotsTypeCorrect` | `TypeOK` |
| | `KeptLinesAreLast` | `KeptAreLast` |
| | `UndefinedNowhereElse` | `UndefinedOnlyThere` |
| | `OpenersStayApart` | `OpenersApart` |
| `SockCallsProofs` | `CallsSafe` | `IInv` |
| | `CallsTypeCorrect` | `TypeOK` |
| | `DescriptorsAreHeld` | `HoldsItsOwn` |
| | `ReturnedIsConnected` | `ReturnsConnected` |
| | `GivesUpInTime` | `GivesUpOnlyThen` |
| `ChunkedStreamProofs` | `StreamSafe` | `IInv` |
| | `StreamTypeCorrect` | `TypeOK` |
| | `PayloadConserved` | `Conserved` |
| | `ReaderSynchronised` | `Synchronised` |
| | `StreamIsPipe` | `PipeSpec`, the refinement of `BytePipe` |
| `HttppProofs` | `ParserSafe` | `IInv` |
| | `ParserTypeCorrect` | `TypeOK` |
| | `KeysAreListed` | `KeysListed` |
| | `LeaksNowhereElse` | `LeaksOnlyThere` |
| | `RequestIsKept` | `RequestAgrees` |
| | `RefusedKeeps` | `FailedParseKeeps` |
| | `FormsDecode` | `ParamsDecode` |
| `AvlTreeProofs` | `TreeInvariant` | `IInv` |
| | `TreeTypeCorrect` | `TypeOK` |
| | `TreeIsLinked` | `Linked` |
| | `TreeIsBalanced` | `Balanced` |
| | `TreeIsOrdered` | `Ordered` |
| | `RanksAreCounts` | `RanksCount`, if nothing spoils ranks |
| | `TreeIsBag` | `BagSpec`, the refinement of `OrderedBag` |
| | `TreeIsWalked` | `WalksInOrder` |
| | `QueriesAreRight` | `QueriesAgree`, if nothing spoils ranks |
| | `SpansAreRight` | `Spans`, if nothing spoils ranks |

### The registry

For any set of threads, any set of handles and either value of `Recycle`, from
the assumptions that `Main` is a thread, NULL is neither a thread nor a handle,
there is a handle, `MaxRenames` is a natural number and `Recycle` is a truth
value.

None of the properties is inductive as it stands. That running threads stay
registered needs that `avl_delete`, which finds a record by its id, finds no
other record: ids of issued records are unique (`IdInv`), which needs that the
counter a creator has read is still the counter (`LockInv`) and that a record
under construction is private (`PrivateInv`). That a join finds its record
needs that an attached thread has one owner (`OwnInv`) and keeps its record
until it is joined (`TreeInv`). That nobody else deletes it needs that
`thread_self` returns a record with the caller's handle (`FoundInv`) and that
threads the kernel knows have different handles (`HandleInv`). `IInv` is the
conjunction of these; there is one lemma for each conjunct, with one step for
each action. `FreshInv` is what holds in addition without recycling: handles
are unique for ever, so a thread finds its own record. `RenamesCurrent` without
recycling is only proved; with it, `thread_rename` violates it.

### The log

For any set of threads, any number of slots, lines and settings of
`log_set_lines_kept`, from the assumption that there is a slot (`LOG_MAXLOGS`
is 25) and that the bounds are numbers.

The three properties become inductive with two facts. `UsersInv` says who may
be at work on a slot: the thread that opens it, before its id is returned, and
callers with an id that was returned, until `log_close`. `LeftInv` says what
`log_close` leaves behind and `log_open` clears: without it a name freed by one
user of a slot could be used by the next, or the list of the last log be
trimmed for this one. Every action changes one slot and moves one thread
(`SlotStep`); `LastLinesTrimmed` and `LastLinesAppended` are the lemmas for the
list, `CreateLogEntryKeepsLast` is the whole of `create_log_entry`.

### The sockets

For any set of threads and of descriptors, any list of addresses, any plan of
calls and both builds, from the assumption that the list is not empty, which is
what `getaddrinfo` promises when it succeeds, and that no thread is `Nobody`.

`IInv` says what a call has at each of its points: `SockPart` a socket, or two;
`ListPart` address lists, and how many it may have lost by now; `WaitPart` what
it knows of the last connect and how long it has waited for the addresses
before; and `OwnPart`, with `FdPart`, that the descriptor it has is its own and
in the state the code takes it to be in. The last is what another thread could
disturb. It holds until a lookup of the fallback fails and closes the socket of
its caller (`strayed`), since up to then a step changes only descriptors that
are free or its own (`CallStep`); with `getaddrinfo` it holds always. The bound
on the time needs a count of the addresses that have had their time (`Tried`).

### The chunked stream

For any length of the payload, any limit on a chunk, any sizes of buffers and
of reads and any way the callbacks cut the stream, from the assumptions that a
chunk may hold a byte, that at least one end mark may be written and that the
rest are numbers.

The proofs begin with an automaton that reads the symbols between the two ends.
Its places are what is left of a header, the distance to the next header and
the number of payload bytes that went by. `Framed(p, u, q)` says that the
symbols `u` lead from place `p` to `q`. It composes (`FramedConcat`), splits
anywhere (`FramedSplit`), and every chunk the writer appends leads from the end
of a chunk to the end of the next (`ChunkFramed`). The inductive invariant is
that the raw buffer of the reader, the wire and the buffer of the writer, put
together, lead from the place that `read_bytes_till_header`, `bytes_till_eof`
and the decoded bytes stand for to the place of the writer. Writer steps extend
the sequence at its end, steps of the wire leave it alone, and each stage of
`httpp_encoding_read` (`Copied`, `BodyTaken`, `HeaderParsed`, `Skipped`,
`RawRead`) moves the reader's place along it. Since a path counts the payload
bytes on it (`Counted`), nothing is lost; since the place after the last chunk
leads only to itself (`EndRun`), the end is reported only after all
of the payload, which is the refinement.

### The request parser

For any sets of requests, responses, bodies, settings and parameters, any
`MAX_HEADERS` above zero and any growth of the key array above one, from
assumptions that say what a request is: its words are strings, a query is a
sequence of characters, and only the C program's NULL is NULL.

`IInv` says that each of the three trees is a bag in which every record occurs
once and has a name that no other record has (`Tree(D)`, for a finite set `D`
of records), that every record has a value, and that `heap` is the number of
blocks of the records in the trees, plus the uri, plus the blocks lost. The
first part is what makes `avl_get_by_key` and `avl_delete` mean the same record;
the second is inductive only with the first, as what is freed must be what is
taken out. Lemmas say what inserting and removing do to such a tree and to its
blocks; from them follow `SetVar`, `SetParamNocopy` and `DeleteVar`, and from
those the loops over header lines and query elements: `LoopExists` and
`LoopStays` of `LoopTheorems` turn a fact about one turn into one about all.
`HeadersParsed` says which line decides the value of a header, for
`RequestIsKept`; `ParamAdded` says that a value is only ever appended, for
`RefusedKeeps`; `ArrayLengthIs` bounds the array of keys from below, for
`KeysAreListed`. Induction over numbers is done by `AllNumbers`, which takes a
set instead of an operator and so is within reach of the provers.

`FormsDecode` follows a form of any length through the code that takes it
apart, from the assumption that a form has names without separators and values
of characters other than NUL (`IsForm`), and that the query of a request with a
form is its encoding. Each character's code is read back as that character
(`UnescapeOne`, for the three cases of `EscapeIs`), and so, by an induction from
the end of a value, is a value (`UnescapeAll`); a value's code has no separator
in it. `EncodedIs` gives the places at which the fields of the form are in the
query (`ElementAt`): between them `parse_query` does nothing but remember the
'=' (`ElementParsed`), and at each end it finds the field (`ElementGives`,
`QueryParsed`), so that `ParseEncoded` has the pairs of the form without the
empty ones. Each of them is appended to the values of its name, whether that
is there already or not (`ValueAdded`, `FormAdded`), and nothing else in
`httpp_parse` touches the parameters (`ParseAdds`).

### The tree

For trees of any size (`MaxLength` is any number) and any keys.

What must hold of a tree of any depth is said by two functions, of which the
invariant claims that they exist: `D[n]`, the nodes in the subtree of `n`, and
`H[n]`, its height. All conditions on them are local to a node and its
children: `Below` (subtrees are disjoint and make up the parent's), `Sorted`
and `Ranked` (keys and ranks against the nodes in the subtrees), and `Leveled`
(balance factors against heights), which allows one subtree, named by its
parent and side, to be one higher or lower than `H` says. That is the state
between the change of a leaf and its repair. A rotation changes `D` and `H` at
two or three nodes (`Turned`), so that its proof is about these; a step that
repairs the lopsided place is `Mends`.

Insertion: `InsertPath` ends where a node is free and leads to it by keys
(`LeadsTo`); the new leaf adds one to the heights of the nodes below the last
one that was not in balance, and that one absorbs it, by a change of its factor
or by one of the four rotations (`GrowthAbsorbed`, `AdjustIs`). Deletion: the
node goes, its child in its place, and the subtree is one lower than its parent
takes it to be (`CutIs`); each turn of the climb either mends this or moves it
to the parent, with a larger subtree below (`StepKeeps`), so that `MaxLength`
turns are enough (`ShortenIs`). A node with two children trades keys with its
predecessor first (`Trade`, `SwapSorted`, `SwapRanked`); the result is stated
by `Removes`. Ranks are the subject of all these steps as well; they are kept if
`RanksKept` holds: no failed allocation, no miss on a right side, and fewer
nodes than a rank of thirty bits can count. The first two are the exceptions of
`avl_faults` and `avl_miss`; everything else is proved with them included.

The properties compute heights, sizes and lists of keys by recursion over the
tree. `HeightsAre`, `SizesAre` and `InOrderIs` show that these functions exist
and agree with `H` and `D`, by induction on the size of a subtree
(`TreeInduction`). For the bag, `AddsCounts` and `RemovesCounts` count the nodes
with a key before and after. TLC does not evaluate `IInv`, which quantifies over
functions; it checks every consequence listed above. Insertion is in
`AvlInsertProofs`, the rest in `AvlTreeProofs`.

Queries: every node has a place `P[n]` in the sequence of keys, and every place
a node `A[i]` (`PlacesExist`, by joining the places of two subtrees). A subtree
holds an interval of the places (`AllConvex`). From this follows what the two
loops of `avl_get_next` and `avl_get_prev` return: the far end of a subtree, or
the first node above that has `n` on its other side, is the node at the next
place (`NeighbourNext`, `NeighbourIs`). `TreeIsWalked` needs no ranks and holds
with all failures. With ranks that count, going to a child changes the place by
what its rank says (`Stepped`): the search by index keeps the difference to the
place it looks for (`Hunts`, `NodeOfRankIs`), and `avl_get_index_by_key` counts
its way to the place of the node it reaches (`PositionIs`). A search by key
parts the sequence at its last node: smaller keys are before it and larger ones
behind it, equal keys aside (`SearchDivides`, `Parted`); this gives the nearest
keys (`NearestMet`, with `Fork`, where the ways to two nodes part) and the
index before which an absent key belongs (`IndexIs`). The keys equal to `k` are
an interval of places (`SplitIs`), along which `EqualRun` counts.

### Only model-checked

* Liveness: `CallsReturn` of both modules, `JoinCompletes`, `AllArrives`. The
  prover has no rule for fairness and `ENABLED`.

## Not modelled

Mutex debugging, sleeping and signal masks, the wrappers of pthread calls,
printing of trees, chunk extensions and other meta data, the identity encoding
and the reference counts of encodings, the formatting of log lines, log levels
and archive names, reading and writing on sockets, the resolver, timing. They
are single calls of the operating system or conversions of text, with no state
of the library that a later step depends on. A failing `malloc` is modelled in
`avl_insert` and in the encoder; not for the body in the decoder
(`encoding.c:680`), not in the parser.

## Plan

1. `ThreadRegistry`, `AvlTree`, the chunked encoding and `LogSlots` with their
   runs, and the proofs of the registry: done.
2. `UrlQuery` and `Httpp`, `SockCalls`, the rest of `LogSlots`, liveness of the
   stream however it is cut: done.
3. Proofs of the safety properties of `LogSlots` and `SockCalls` and of the
   refinement of `BytePipe`: done.
4. Proofs of the safety properties of `Httpp` and `AvlTree` and of the
   refinement of `OrderedBag`: done.
5. Proofs about the queries of the tree and the decoder of forms: done.
6. Left: the body's allocation and the extensions in the decoder of chunks.
