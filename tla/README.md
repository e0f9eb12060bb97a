# Formal models of csf-spring2025

The repository holds the five assignments of a computer-systems course. They
share no code and are modelled one by one. This directory holds TLA+ modules for
them, TLC configurations that check the modules on small instances, and proofs
that TLAPS checks for every value of the constants.

    tlc -workers 2 -config MCParSort.cfg MCParSort      # one run
    tlapm ParSortProofs.tla                             # one proof module

`PROJECT.json` maps every definition to the lines it models, and lists the runs,
the hazards of the code with the properties that cover them, the theorems, and
for every property a mutated definition that breaks it.

Contents: 1 Inventory. 2 Sorting. 3 Cache. 4 Chat room. 5 Chat clients and the
I/O under them. 6 256-bit integers. 7 Images and their files. 8 Runs and bounds.
9 Fairness and deadlock. 10 Proofs. 11 Findings. 12 Not modelled. 13 Plan.

## 1. Inventory

| Component | Source | State | Operations | What is hard |
|---|---|---|---|---|
| 256-bit integers | `csf_assign01/uint256.c` | values of eight words | add, sub, negate, mul, lshift, is_bit_set, to and from hexadecimal text | carries through all words, wrap-around, shifts by whole words, text of any length |
| Image transformations | `csf_assign02/c_imgproc_fns.c`, `asm_imgproc_fns.S` | the pixels of two images, loop indices, in assembly registers and stack | rgb, grayscale, fade, kaleidoscope, in C and again in assembly | mirrored indices at odd sizes, equality of two implementations, hand-written prologues and epilogues |
| Image program | `csf_assign02/c_imgproc_main.c` | input and output image, result | read, transform, write | failure of each step |
| Image files, PNG library | `csf_assign02/image.c`, `pnglite.c` | an open file, five buffers, an inflating stream, the rows so far | img_write, img_read, the chunk loop, inflating, unfiltering | files that are cut off or cut into chunks at any place, first rows and pixels, byte order, an allocation or a write that fails half-way |
| Cache simulator | `csf_assign03/cache.h`, `cache.cpp`, `main.cpp` | sets of slots with `valid_count` and `fifo_counter`, statistics | load, save | replacement order over long traces, cycle accounting, 32-bit arithmetic, an uninitialised counter |
| Cache configuration | `csf_assign03/args.cpp` | the configuration | parse and validate | which configurations get through |
| Cache debug output, test driver | `csf_assign03/debug.cpp`, `tests.cpp` | - | print | I/O only |
| Parallel quicksort | `csf_assign04/parsort.c` | one mapped file, a tree of processes | partition, quicksort, spawn_child, wait_children | races on shared memory, partial failure, orphans, an unsigned index |
| Sort tools | `csf_assign04/seqsort.cpp`, `is_sorted.c`, `gen_rand_data.c` | - | straight-line programs | nothing |
| Chat connection and messages | `csf_assign05/connection.cpp`, `message.cpp` | a descriptor, a buffer, the last result | connect, send, receive, close | a peer that closes or resets between two calls, a buffer limit |
| Chat sender | `csf_assign05/sender.cpp`, `client_util.cpp` | the connection, `joined_room`, the line read last | login, the command loop | answers that belong to another request, a stale copy of the server's state, the end of the input |
| Chat receiver | `csf_assign05/receiver.cpp` | the connection | login, join, the delivery loop | truncated or merged lines, the end of the stream |
| Chat room | `csf_assign05/room.cpp`, `guard.h`, `user.h` | a set of members, a mutex | add, remove, broadcast | concurrent callers, one order of messages for all members |
| Chat server, message queue | `csf_assign05/server.cpp`, `message_queue.cpp` | - | every body is a TODO comment | nothing to model yet |
| CS:APP library | `csf_assign05/csapp.c` | an `rio_t`: buffer, count, pointer; the descriptor | open_clientfd, rio_writen, rio_readlineb, rio_readnb | short counts, interruptions, ends and resets at any byte |
| Unit tests, scripts | `*_tests.c`, `tctest.c`, scripts | - | - | - |

Interaction. A `parsort` process forks up to two children that sort the two
sides of its pivot in the same shared mapping; parent and child speak only
through `fork`, `kill`, `waitpid` and exit statuses. `csim`'s `main` calls
`load` or `save` once for each trace line. A chat client writes one line and reads
one line over its connection, through `rio_writen` and `rio_readlineb`; what a
sender sends to its room the server puts into the queues of the receivers
there; threads of the server would meet in `Room`. The image program calls one
of four transformations through a table and is linked with their C or their
assembly version; its files go through `image.c`, `pnglite.c` and zlib.

What makes each correct. Sorting: no race, nothing lost, success only of a
sorted file, no process left behind. Cache: it is the cache its options name,
charged as documented. Room: atomic operations, one order. Sender: answers
paired with requests, knowledge of the room not older than it may be. Receiver:
every delivery shown once and in order, an end with the server. The two
together: what was typed is shown, in that order. Robust I/O: what a call returns
depends on the text, not on the pieces it came in. Image files: an image
written is the image read, whatever filters and chunks the file has, and memory
is given back. Integers:
arithmetic modulo 2^256. Images: the pictures `imgproc.h` describes, or for a
kaleidoscope of odd size the one `test_kaleidoscope_odd` expects, in bounds, with
the caller's registers intact.

Dependencies between the modules:

    SortOps <- Partition
    SortOps <- AbstractSort,  SortOps <- ParSort -- implements --> AbstractSort
    Partition, ParSort <- ParSortProofs
    CacheGeometry <- AbstractCache,  CacheGeometry <- Cache -- implements --> AbstractCache
    Cache <- CacheProofs
    Room -- implements --> AbstractRoom,  Room <- RoomProofs
    Connection <- ChatSender,  Connection <- ChatReceiver
    Chat instances ChatSender, ChatReceiver and AbstractRoom,  Chat <- ChatProofs
    Rio -- implements --> AbstractLines,  Rio <- RioProofs
    Picture <- ImgProc <- ImgProcProofs
    PngFilter <- ImageFile <- ImageFileProofs
    UInt256 <- UInt256Proofs
    MC<module> extends <module> and gives its constants values for TLC

Where a comment speaks of a mutant, the definition right under it is an altered
copy of the one that follows. It is used to show that a property can fail; no
action refers to it.

## 2. Sorting (`csf_assign04`)

`SortOps`. A file is a function from indices to elements; `Swap`,
`Rearrangements`, `PartitionResults`, `QsortResults` are what the code does to
it. `Dec` is a decrement of an `unsigned long`, modulo ULONG_MAX + 1.

`Partition` is one call of `partition()` (lines 119-163). `Stash` picks the middle
element, moves it to the end and sets the indices; `ExtendLeft`, `ExtendRight`
and `SwapMisplaced` are the three branches of the loop, `Place` the final
exchange, `LeaveFile` an access beyond the file. `file` is the array, `original` what it
held at the call; both modules name their own state, so that one proof module can
extend the two. `LeaveFile` is undefined in C;
on this build the scan goes on until a page is not mapped, so the outcome is
SIGSEGV with any file behind. `start` and `end` range over all regions of at
least two elements, which is what `quicksort()` passes.

`ParSort` is the whole tree: `quicksort()`, `spawn_child()` and
`wait_children()` (lines 180-256) in `main` and in every child. A process is
named by the region it sorts. `partition()` and `qsort()` are one step each, and
the step's outcomes are those `ReturnsPartition` and `UnderflowExact` establish:
any rearrangement into smaller elements, pivot and others, or SIGSEGV exactly
for regions at index 0 whose pivot is a minimum. Each `fork`, `kill` and
`waitpid` is a step of its own, as is the delivery of SIGTERM. A process may die
of a signal from outside at any step, in the middle of an exchange too
(`Torn`); a `fork` may fail; `MaxFailures` bounds the two together. SIGCHLD may be
ignored from the start, which makes `waitpid()` return -1.

`AbstractSort` is what the user is promised: elements are only moved about until
"ok" is reported of a sorted file that nothing changes any more, and a sort that met a
failure never reports "ok". A file not above the threshold is sorted and reported
in one step, since `main` then calls `qsort()` itself. `ParSort` implements
`AbstractSort` with `outcome` computed from the processes.

## 3. Cache simulator (`csf_assign03`)

`CacheGeometry`: the accepted configurations (`args.cpp` `parse_args`) and
`get_tag`, `get_index` (`cache.h`). The product `num_sets * block_size` is taken
modulo the word, as a `uint32_t`. `is_power_of_2()` takes an `int`, so that the upper
half of the words are negative and refused. A power of two is a number without odd
divisors (`PowerOf2`), and `Word` is assumed to be one.

`Cache`: `sets[s]` is a record of `slots`, `valid_count` and `fifo_counter`. The
operators `find_hit`, `find_victim_slot`, `update_lru`, `Renewed`, `Filled` are
the helpers of `cache.cpp`, and `LoadHit`, `LoadMiss`, `SaveHit`,
`SaveMissAround`, `SaveMissAllocate` are the paths of `load()` and `save()`
with all their bookkeeping: slots, orders, dirty flags and the seven counters.
`fifo_counter` starts with any value of `FifoCounters` since the constructor
leaves it uninitialised. `DivideByZero` is the death of the program in its first
`get_tag()` when the product wraps to zero. `insertion_time` is never read and
left out. A trace is any sequence of `MaxAccesses` operations on `Addresses`;
parsing its lines is a choice of one of them. `MaxAccesses` is below `Word`: of the
seven counters six are `uint32_t`, and longer traces wrap them; `total_cycles` has 64
bits and is a natural number.

`CyclesAccount` is the bill of `total_cycles` to the cycle: one per cache access, 100
per store written through, and a transfer per block filled or written back, in full if a
load moves it and as the low 32 bits of `100 * block_size`, over 4, if a store does.

`AbstractCache`: each set is a list of blocks, most recently used or inserted
first; a hit renews, a miss inserts and drops the last. `Cache` implements it with
the list of a set read off its orders (`ListOf`): place k has the block whose `Age`
is k, counted from `access_order` under LRU and under FIFO from the last number
`fifo_counter` gave, of which `access_order` has the low 32 bits.

## 4. Chat room (`csf_assign05`)

`Room`: threads call `add_member`, `remove_member` and `broadcast_message` at
will. Taking the mutex (the `Guard`), each `enqueue` of the loop and the unlock
in the destructor are separate steps; the loop runs over the current
`members` in ascending order, like an iterator of a `std::set` of pointers, and
users are numbers for that reason. Nothing in the model keeps a thread
from changing the set during another's loop but the mutex itself: without it,
which is a mutant, `OneInside` and the refinement fail. `enqueue` is a stub in
the repository and follows its header: it appends and does not block.

`AbstractRoom`: the three operations as single steps. A broadcast takes effect when
its thread has acquired the mutex; the mapping adds the message in flight to the
queues of the members the loop has still to visit (`Settled`). That all members
see the messages in one order is a property of the atomic room, which appends
each to all queues at once, and so of `Room`.

## 5. Chat clients and the I/O under them (`csf_assign05`)

`Connection` is the class of that name over a link to an external peer. Lines on
the wire carry a tag, a length and the number of the request they belong to.
`receive()` takes at most `MaxLen - 1` characters, as `rio_readlineb` does,
and leaves the rest of the line for the next call. The peer may close (reads end,
the first write still succeeds and is answered by a reset) or abort with data
unread (the next call fails); a write after that raises SIGPIPE.

`ChatSender` has one action for each way a request can go: `SendRequest`,
`SendFailed`, `BrokenPipe`, then the answer (`LoggedIn`, `LeftFirst`, `Joined`,
`Left`, `QuitAccepted`, `SentToRoom`) or `Refused`. `ReadLine`, `ReadEnd` and
`ReadPastEnd` are `std::getline` with input left, at its end and beyond it;
`Dispatch` is what the loop does with the line. The server is external: it
answers in order, may refuse a login or a join, stop in the middle of an answer or
vanish at any time. `left_first` is a history variable that no guard reads: the leave
ahead of a join was accepted, and no join since.

`ChatReceiver` logs in, joins, and then prints deliveries until `receive()`
fails. It cannot be killed by SIGPIPE, since its only second write follows a
successful read. `shown` is what it printed, with the length, so that a line cut
short can be told from a whole one.

`Chat` composes a sender, a receiver and a server with one room, by instances of
the three modules: the client's action and the server's are each a conjunction of
an action of an instance and `UNCHANGED` for the rest. `ServeSender` broadcasts
an accepted `sendall` with `AbstractRoom!Broadcast`, `Deliver` empties the
receiver's queue onto its connection, `ServerEnds` ends both connections at once.
`EndToEnd` then follows a text from the sender's request to the receiver's screen.
The server is a stub in the repository, hence external, and its room is the one
`room.cpp` implements.

`Rio` is the layer below the lines of `Connection`: bytes. `open_clientfd()`
tries address after address (`SocketFails`, `Connects`, `ConnectFails`,
`NoAddress`); `listp` is the list of them, which stays allocated when closing a
descriptor fails. `rio_writen()` is `CallWriten` and then a `Write` for each
`write()`, which takes any number of bytes that fit on the wire, is
interrupted, or fails (`WriteFails`). A reader calls `rio_readlineb()` or `rio_readnb()`; their loops and
the `rio_read()` in them are `Refill`, `Copy`, `ReadInterrupted`, `ReadEnd`,
`ReadFails` and `ReturnFull`. Line and byte calls share one buffer and may be
mixed, and called again after one has failed, as `sender.cpp` does. A byte is its position in the text, so that a loss, a repetition and an
exchange all show. `AbstractLines` is what a caller may rely on: what a call
returns is the next line, as much of it as fits, or what is left at the end of
the text, however the text was cut. `Rio` implements it. `Connection` may
therefore treat a line as one thing.

## 6. 256-bit integers (`csf_assign01`)

`UInt256` gives every function of `uint256.c` as an operator on words, digit
size, word size and number of words being constants. `uint256_mul()` has one
action per round of its loop (`AddTerm`, `SkipBit`); its right operand is read
from text first. `Carries` are the carries of `uint256_add()` into each word,
`NumbersOf` the numbers `strtoul()` has read after each digit. `Value` is the integer
the words stand for; `ProductSoFar`, `SubtractsBack` and `HexReadsBack` compare with
arithmetic on integers modulo 2^Bits. Powers of two are a recursive function, `pow2`,
since the provers know nothing of `^`. The three properties are proved for
every width and every text (section 10).

## 7. Images and their files (`csf_assign02`)

`Picture` says what is drawn: for each pixel of the output, the input pixel it
shows and what was done to it. It is what `imgproc.h` describes, but for a
kaleidoscope of odd size: that is the one of the next even size (`Padded`), cut, as the
code draws it and `test_kaleidoscope_odd` (`imgproc_tests.c:486-523`) expects it.
`WritesThePicture` also states how far this agrees with the symmetry across four lines
that `imgproc.h:86-88` promises (`Symmetric`): fully at even sizes, at odd ones
only about the lines of the padded picture. `ImgProc` is the program: `ReadInput`,
`CreateOutput`, `UnknownTransformation`, `Apply`, the loops, `Return`,
`WriteOutput`. The loops are those of the code: `EachPixel` for rgb, grayscale
and fade (alike in C and assembly, by comparison of
`c_imgproc_fns.c:52-149` with `asm_imgproc_fns.S:327-430`, `465-496` and `537-598`), `TopLeft` and `Mirror` for the C
kaleidoscope, `Wedge` for the assembly one, which copies each pixel of one
eighth to all eight. Writes outside of the output are collected in `stray`.
`regs` and `stack` follow the pushes of the assembly prologues, what
the bodies overwrite and the pops of the epilogues, by the name of the register a
value came from; `Return` jumps to what is on top of the stack. Balanced
pairs of push and pop inside the bodies are left out. The program may be killed while
it reads or writes, by the NULL pointers of `img_read()` and `png_set_data()`.

`PngFilter` has the filters of `pnglite.c` (`png_paeth`, `Unfiltered`) on rows of
bytes of any number of values, and beside them what the PNG standard says a
writer does (`Nearest`, `Filtered`), written from the standard's definition of the
nearest neighbour and not from the code's comparisons.

`ImageFile` is `img_write()` and `img_read()` with the library under them. A
behaviour either writes an image and reads the file again (`origin = "written"`), or
reads a file found somewhere. The latter is any sequence of IDAT, IEND and
other chunks, with any of the data in each, whole or not; its rows are made of
any picture by any of the five filters, chosen row by row when `png_unfilter()`
gets to them. `allocated` holds the names of the buffers, `user_pointer` the
open FILE; each allocation, `inflateInit`, each read and each write may fail.
Pixels are words of bytes and lie in memory as a machine of either
endianness has them (`InMemory`, `byteswap`). The header, a chunk or the data of the
file just written may be unreadable as well. `SizesFit` leaves out headers whose sizes do not
fit the `int` and the `unsigned` they are computed in. Bytes that nobody wrote are a choice of any
(`UnfilterGarbage`). zlib is external: `inflated` counts the bytes it has delivered,
and a stream may end early, late or at the right place. Of the data only
their number is followed through the chunks, not which bytes lie in which chunk.

## 8. Runs and bounds

| Run | Distinct states | What it shows |
|---|---|---|
| `partition` | 132,058 | `KeepsElements`: the call only moves elements of its region. `ReturnsPartition`: smaller ones, the pivot at the index returned, others. `UnderflowExact`: it leaves the mapping for exactly the regions at 0 whose pivot is a minimum. `CallEnds`. |
| `parsort` | 310,215 | `RaceFree`: no two processes work on one element. `GloballyPlaced`: a placed pivot and a sorted region hold what the sorted file holds there. `SuccessReapsAll`, `QuietExit`: nobody is left behind. `FailureHasCause`, `AllEnd`, and the refinement of `AbstractSort`. |
| `parsort_cause` | violation | a sort fails without any system call having failed |
| `cache` | 586,096 | `DistinctTags`, `LruOrders`, `CleanWhenSynced`: the slot arrays. `CyclesAccount`: every cycle has a cause, also where a store's charge wraps. `SplitIsExact`: tag and index name a block; the division fails only if the sets span the address space. The refinement of `AbstractCache` says which block is evicted. |
| `room` | 521,947 | `OneInside`, `LockReturned`, refinement of `AbstractRoom`; deadlock is checked |
| `chat` | 673,177 | `Lockstep`: an answer taken is the answer to the last request, and nothing is on the wire between requests. `RoomKnown`: `joined_room` is right, but after an accepted leave and a refused join. `EndToEnd`: what the sender sent while the receiver was in the room is printed, on its way or queued, once and in order. `RequestEnds`, `EndsWithServer`. |
| `sender_input_end` | violation | after the end of the input lines are sent that nobody typed |
| `rio` | 1,068,120 | `NoByteLost`: every byte written is returned, in a call's hands, in the buffer or on the wire, in order. `OneDescriptor`: one descriptor and no list stay, unless `close()` fails. `CallEnds`. Refinement of `AbstractLines`. |
| `uint256` | 114,240 | product, difference and text are exact modulo the width |
| `imgproc` | 9,771 | `WritesThePicture`: what is written is the picture of `Picture`, with either version, and as symmetric as that is. `StrayOnlyOdd`: writes stay in bounds but for one place. `ProgramEnds`. |
| `asm_registers` | violation | two assembly functions return with registers overwritten |
| `image_file` | 417,806 | `ReadsThePicture`: a file with all its data is read as the picture in it. `WrittenReadsBack`: an image written is read again. `GivenBack`: memory and file are released on every path but those it names. `ReadingEnds`. |

Type invariants. All are proved (section 10). `imgproc`
checks one by itself, since it bounds the gradient; in the other runs it is the first
conjunct of a property: `RaceFree` (`ParSort`), `Lockstep` (`ChatSender` and
`ChatReceiver`), `NoByteLost` (`Rio`), `GivenBack` (`ImageFile`), `ProductSoFar` (`UInt256`).

Bounds, and why they are enough:

- `partition`: files of 5 elements out of 3 values. Three values give smaller, equal
  and greater than the pivot; five positions give a pivot with room on both
  sides, one-sided regions, regions away from both ends. ULONG_MAX is 15, above
  every index. The theorems of section 10 remove these bounds.
- `parsort`: 4 elements give a tree of depth four whose children again have
  two children; thresholds 0, 2 and 4 give fully parallel, mixed and sequential sorts. One
  failure is enough for every failure path of one process, and all
  processes react to it; two independent failures are not explored, but the
  theorems of section 10 hold for any number.
  `parsort_cause` uses three elements.
- `cache`: 1, 2 or 4 blocks in a set, blocks of 4, 16 or 64 bytes. Addresses 0, 4, 8, 18
  and 600 are five blocks of 4 bytes, more than a set holds, so that five accesses
  fill a set, renew, evict and write back; in larger blocks some share one. Word is 1024
  for 2^32: `100 * block_size` is 400, 1600 or 6400, so that the charge of a store
  wraps for the last two, and 16 or 64 sets of 64 bytes reach the word, where the
  divisor of `get_tag()` is zero. All accepted configurations are initial states, for which
  `SplitIsExact` is checked; the constraint `Explored` leaves out the traces of sets of 16 and
  64 blocks, which five accesses do not fill. `FifoCounters` is a small value
  and 2043, above the word, from which the longest trace numbers its last block
  with the greatest order there is. The wrap itself is left out (section 11).
- `room`: three threads, so that two wait for a third; two members, two
  messages, the least for an order.
- `chat`: `MaxLen` 4 for 255; requests of four characters, the limit, answers
  and deliveries of three. Four typed lines allow join, join again (leave
  first), text, quit and every refusal between, and two texts beside a join; six
  requests stop the endless resending after the end of the input; three
  deliveries, so that one can be on the screen, one on the wire and one in the
  queue. `sender_input_end` is the sender with any server.
- `rio`: a buffer of two bytes, a wire of three, a text of five with newlines at
  any places: a line may be longer than the buffer and than the wire, and a
  buffer may hold the end of one line and the start of the next. Callers ask
  for two bytes, less than most lines, or four, more than the buffer. One interruption,
  of a read or a write; two addresses, the least with a next one.
- `uint256`: three words of two binary digits. A carry can start, pass through
  and leave; shifts reach over one and two words; text of up to seven digits is
  shorter than, equal to and longer than the width of six. The theorems of
  section 10 remove these bounds.
- images: all sizes up to 7 by 7, even and odd, square or not, with up
  to four rows of a wedge.
- `image_file`: bytes of four values (`Values`), so that sums wrap and all
  orders of three neighbours occur; one sample a pixel for three (`Colours`), and a second with
  alpha. Two by two pixels, and one or two by up to three, have first and later rows and columns; files of
  every other colour type and depth have one pixel. Up to four chunks: data in
  two of them with others between or after.

## 9. Fairness and deadlock

- `Partition`, `ImgProc`, `ImageFile`: weak fairness of the next step; one
  sequential thread that does not block. Reading from a file always returns.
- `ParSort`: weak fairness of every process's step and of every pending
  SIGTERM; the kernel schedules and delivers. None of failures.
- `Room`: weak fairness of every thread inside a call, none of who gets the mutex:
  `LockReturned` speaks of the owner only. A thread may wait for ever while others
  overtake it, as with a `pthread_mutex_t`.
- `Chat`: each client runs, and a server that has a request of the sender answers
  it or ends. The second is an assumption about the server: `receive()` has no
  timeout. Nothing is assumed of deliveries, and the user need not type.
  `sender_input_end` is a safety property of the sender alone.
- `Rio`: the reader runs. The writer need not, nor need anyone call the reader;
  `CallEnds` speaks of a stream that has ended. Interruptions are bounded.
- `Cache`, `UInt256`: safety only. Every step of `mul` and of a trace is one
  iteration of a loop bounded by a constant or by the input.

`CHECK_DEADLOCK FALSE` is given where the program ends or the trace, the input or the
deliveries are used up. In `Room` threads may always call again until
the messages are used up, and join and leave remain, so deadlock is checked.

## 10. Proofs

| Module | Theorem | For |
|---|---|---|
| `ParSortProofs` | `PartitionTypeCorrect`, `KeepsElementsAlways`, `ReturnsPartitionAlways`, `UnderflowExactAlways` | one call of `partition()`: files of any length, any set of integers as elements, any word size |
| | `NoRaces`, `SuccessReapsAllAlways`, `QuietExitAlways`, `FailureHasCauseAlways`, `GloballyPlacedAlways`, `Implements` | the tree of processes: files of any length, any thresholds, any number of failures |
| `CacheProofs` | `TypeCorrect`, `TagsAreDistinct`, `LruOrdersHold`, `CleanBlocks`, `SplitIsExactAlways`, `CyclesAccountAlways` | every configuration, trace, word size and garbage counter |
| | `Implements` | the same, under `Fits` |
| `RoomProofs` | `TypeCorrect`, `MutualExclusion`, `Implements` | any number of threads, users and messages |
| `RioProofs` | `NoByteIsLost`, `OneDescriptorOpen`, `Implements` | buffers, wires, texts, requests and numbers of addresses of any size, any number of interruptions |
| `ChatProofs` | `TypeCorrect` | any number of commands, requests and deliveries, lines of any length |
| | `LockstepAlways`, `RoomKnownAlways` | the same, under `Fitting` |
| | `EndToEndAlways` | the same, under `Fitting` and `DeliveryFits` |
| `ImgProcProofs` | `TypeCorrect`, `StrayOnlyOddAlways`, `WritesThePictureAlways`, `ReturnsToCaller` | images of any width and height, both versions of the transformations |
| `ImageFileProofs` | `PaethIsNearest`, `ByteComesBack`, `RowComesBack` | all integers, bytes of any number of values, rows of any length and pixel size |
| | `GivenBackAlways`, `ReadsThePictureAlways`, `WrittenReadsBackAlways` | images of any size, files of any chunks, either endianness, any failures |
| `UInt256Proofs` | `ProductCorrect`, `SubtractionCorrect`, `HexCorrect`, `MulReturnsProduct`, `AddValue`, `LshiftValue` | digits and words of any size, any number of words, text of any length |

Assumptions are those named in the modules: sizes and sets of numbers, that a
byte has a value, that `Word` is a power of two above 100, that a trace has fewer than
`Word` accesses, and that the sizes of an image fit (`SizesFit`). Three theorem groups
have a hypothesis of their own, each of which the constants of the runs satisfy:

- `Fits` (`CacheProofs`): for a FIFO cache, the low 32 bits of `fifo_counter` do not wrap
  during the trace, whatever it starts with (section 11 says what happens otherwise).
- `Fitting` (`ChatProofs`): a request fits the server's buffer and an answer that of
  `receive()`. Without it answers and requests come apart (section 11).
- `DeliveryFits`: so does a delivery. `EndToEnd` itself allows the last line
  shown to be cut by the end of the stream, but not by the buffer.

*Partition.* None of the three facts about a returned call is inductive.
The loop invariant (`LoopInv`) says that everything left of `left_index` is
smaller than the pivot, everything right of `right_index` is not, and the pivot
waits at `end - 1`; `PivotInv` ties `pivot_val` to the file the call was given;
`LoopInv` also says that `right_index` can only have wrapped if nothing smaller has been
found. With `PartitionTypeOK`, `KeepsElements`, `ReturnsPartition` and `UnderflowExact`
they make up `PartitionInv`. That exchanges keep the elements, which `KeepsElementsAlways` states
for every point of the loop, rests on three lemmas about composed permutations
(`RearrangeNothing`, `RearrangeSwap`, `RearrangeElements`).

*ParSort.* `RaceFree` speaks of processes that sort at the same time, and nothing
in it says why a child forked later, or an orphan of a killed process, stays out
of their way. The invariant `Tree` does: the regions of any two processes started so far
are apart, or one lies under a child of the other (`Under`), and where a process has
still to fork nothing has been started (`FreshBelow`). Regions are compared with both
ends included, so that empty regions are told apart as well. `Reports`, `Quiet` and `Causes`
say what the three properties of `main` say, of every process: success speaks for all
inside its region, and so does an exit for their end; a process waiting for its right
child remembers what the left one reported. Each step is the turn of one
running process (`Turn`), which leaves the others as they are but for a child it forks
(`Born`). One lemma for each part of `IInv` shows that a turn keeps it for all the
others (`TreeStep`, `ReportsStep`, `QuietStep`, `CausesStep`), one for each action
that the process whose turn it is has its own part settled (`Settled`).

For the refinement `Ordered` adds what holds as long as nobody was killed: around a
midpoint the region is split, and a region reported sorted is sorted. A write
rearranges one region (`OnlyWrites`); by `Tree` it lies apart from another region,
or in one half of it, which a split survives (`WritesKeepSplit`), and by `Reports` never
in a region reported sorted (`WritesKeepSorted`). `FailingLasts` and `SuccessIsFinal`
give the abstract outcomes their order. `StepImplements` maps a write to
`Rearrange`, the return of `main` to `Succeed` or `Fail`, the first failure to `Doom`,
and what happens after one to `Damage`. The contract of `partition()` is the
one `ReturnsPartitionAlways` and `UnderflowExactAlways` prove.

`GloballyPlaced` counts: an element is in its final place if as many of the input are
smaller as lie before it. A count is not inductive, so the invariant `Placed` speaks of
cuts: `Cut(arr, k)` says that nothing before k exceeds anything from k on, in the whole file.
Every process guarantees cuts (`Marks`): at both ends of its region, on either side of the
pivot it has placed, and everywhere in a region it has reported sorted. A rearrangement
of one region keeps the cuts at or beyond its ends (`RearrangeKeepsCut`), and by `Tree` and
`Reports` those of all other processes are there (`MarksOutside`, `WritesKeepCut`); a
partition makes the cuts at its pivot, since its ends were cuts (`PivotIsCut`), and so does
a sort. Only at the end are cuts turned into counts: what precedes a cut is counted
through the bijection between `arr` and `input` (`CutsPlace`).

*Cache.* `IInv` is `TypeOK` and, for each set, `SetInv`: distinct tags, LRU orders
without ties below `valid_count`, clean free slots. The numbers `update_lru` produces stay
below `valid_count` only because they had no ties, hence the orders are
part of the invariant even for type correctness. One lemma per set operation (`Written`,
`Renewed`, `Filled`) shows that it keeps `SetInv`; `OneSetChanges` lifts it to the
cache. `find_victim_slot` is a CHOOSE, and `VictimExists` shows that a full set has
a slot that is evicted first.

`SplitIsExactAlways` needs that a product of two powers of two, taken modulo a third, is
that product or zero, which follows from what divides what. `CyclesAccount` is about
what is left of `total_cycles` (`Rest`) and how many of the write-backs loads and stores
made, which differ in price; a lemma says what a step must do to keep the
account, in terms of the number of dirty blocks, and `OneFlagChanges` that
an access changes the flag of one slot, and so that number by at most one. `CleanIn` is
needed again: a victim that is written back is dirty, and a free slot never is.

For the refinement `AgesInv` adds to `IInv` that the ages of the blocks in use are the
numbers from 1 to `valid_count`, each once (`Numbered`), and that `fifo_counter` has
counted the fills of the set from where it started (`Counted`), so that its low word has not
wrapped since the last of them (`NoWrapYet`). A set
is then a list. `RenewedKeepsNumbers` and its like for a fill say how ages change; lemmas
about `MoveToFront` and a list with a new first element say the same of the abstract
list; one lemma for each path of `load()` and `save()` puts the two together with the
charge. The victim is the block of greatest age, hence the last of the list.

*Room.* `IInv` is `TypeOK /\ OneInside`. `View` says what `Settled` is under the
invariant, and `StepRefines` goes through the actions: `BeginBroadcast` maps to
`Broadcast`, `AddMember` and `RemoveMember` to `Join` and `Leave`, everything else
stutters. An enqueue stutters since the queue grows by just the message
that was already counted.

*Rio.* `Run(s, a)` says that `s` holds the bytes of the text that follow position
`a`; `RunsJoin` and `RunsPart` are what concatenation and `SubSeq` make of runs,
and the steps use sequences through them only. The invariant `IInv` has one
run for each place: `wbuf` from 0, the hands of the call from `given`, the buffer
such that its rest starts at `pos`, the wire from `pos + avail` (`Order`). It has
to speak of the whole buffer and not of its unread part, and says that the unread
part is its end (`BufferInv`): a `rio_cnt` of -1 after an interruption then counts like
0. After a failed call nothing is promised of the order, and the wire is empty, so that
later calls return nothing (`CallerInv`). A write that fails takes what it has not sent
off `wbuf`, which then still is a run from 0. `OrderIsEnough` puts
the places together again. For the refinement `LineInv` adds that no byte of a line
but its last is a newline, and `WrittenInv` that the text sent is made of its
positions. `Write` maps to `Send`, `ReturnFull` and `ReadEnd` to `ReadLine` or
`ReadN`, a close or a reset to `End`, `ReadFails` to `Fail`; the rest stutters,
`WriteFails` among them, since only what was written counts as text.

*Chat.* `SenderInv` says what the sender's connection holds: nothing, or its last request,
or the answer to that (`WireInv`), in terms of the program counter, and that the server has the sender in a room if and only
if `joined_room` says so and `left_first` does not, unless an "ok" to a join, a leave
or the leave ahead of a join is under way (`RoomInv`): then the server is ahead. `Lockstep` and `RoomKnown` are read off it. It is inductive only for
lines that fit: `receive()` of a longer answer leaves a piece behind that belongs to no
request. `EndToEnd` needs three more parts: what was broadcast is what was delivered
and then the member's queue (`QueueInv`); it carries the numbers of requests in
ascending order, all below that of a request still at the server (`RequestsInv`); and what
was printed followed by what is on the receiver's wire is the deliveries in
order, without a gap, only the last of them possibly cut (`PrintInv`). The receiver
turns a line on the wire into a printed one (`ShowNext`), the server a queued one into
one on the wire (`PutDelivery`), `ServeSender` appends a request to the queue.

*Images.* `DrawnBefore(c, r)` says of each position of the output whether the loops have
drawn it by the present iteration, in the order in which they go: `rgb` by the
remainders of row and column, the C kaleidoscope by the smaller of the two and then, when it
mirrors, by what they are folded to, the assembly one by the smaller and then the
greater of the folded ones. `PictureInv` says that what has been drawn is right, and
`StepDraws` that an iteration keeps this if it writes the right pixel to each position
that is drawn next, and to no other that is drawn. One lemma for each loop body
(`RgbWrites`, `PlainWrites`, `TopLeftWrites`, `MirrorWrites`, `WedgeWrites`) shows that it
does; they rest on the uniqueness of quotients and remainders (`DivisionUnique`), hence
each place has one position (`PlaceOf`, `OnePlace`). The case that needs an order is
the first iteration of the assembly kaleidoscope of an odd size: besides the place after
the last pixel it writes the first pixel of row 1, wrongly, and `FirstWedge` and
`WedgeWrites` show that this pixel is drawn only later. At the end everything is drawn
(`LoopsEndStep`), and `DrawnSymmetric` says that the picture has its symmetries:
reflected places fold to the same two numbers. `WriteOutputStep` turns positions back into places (`PlaceBack`).
`GradientBounds` squares a number that the division has bounded. `StackInv` counts what the
prologue has pushed; `SameLength` says that the epilogue pops as much.

*Image files.* `PaethIsNearest`: the two comparisons of `png_paeth()` find the
first of the nearest neighbours, by cases on the three distances. Hence what the
reading half adds is what the standard subtracts; `AddedAgain` says that the
byte is the same again modulo the number of values, which needs the uniqueness
of remainders (`SameRemainder`) since a product of unknowns is beyond the SMT
solver. For a row (`RowComesBack`) the byte that would be the first not to
come back has neighbours that did: instead of induction, the least element of the set of
counterexamples. `RowUnfiltered` says so of the rows of a file, `RowsFiltered` that the rows
`img_write()` prepares are those of the image.

The invariant `IInv` of `ImageFile` follows the program counter. `MemoryInv` lists what
may be allocated at each point (`InUse`) and what the early exits leave; `GivenBack`
is its value at "returned". `DataInv` says that every unfiltered row whose bytes had all
been inflated is the picture's, and becomes
`ReadsThePicture` when the last conversion is undone (`ImageConverted`: reversing the bytes of a
word twice, `SwapCancels`). `WrittenInv` says that the file written is the picture in
one chunk and `Stage` how far reading it has come.

*256-bit integers.* The functions are loops over words, digits and bits, and what they
compute is by nature an induction. The library's induction theorems have an operator as
parameter, which no installed prover can instantiate, so the module proves
two of its own about sets and functions: `SetInduction`, that a set of numbers with 0 and
with the successor of each is all of them (else there is a least number outside), and
`Recursion`, that a function exists which takes each step from its last value. The
second gives the recursive functions of the model their equations (`Pow2Step`,
`LowValuesStep`, `CarriesStep`, `NumbersStep`). A product of unknowns is beyond the
solver too; `Products`, `Division` and the `Mod` lemmas say what is needed of them.

Each operation is then compared with its integer through the low words of operands and
result. The low w words of a sum fall short of those of the operands by the carry
times the weight of word w, and the carry out of the last word is what the modulus drops (`AddValue`). A
complement is what is missing to all ones (`ComplementValue`), so that `SubValue` follows
from `AddValue`. A shift first moves words (`MovedValue`) and then bits
(`ShiftedBitsValue`: what leaves a word is what the next takes in). `HighWords` and
`Field` turn it round: any group of bits of a word is a quotient and a remainder of the
value, hence two operands with the same value are equal (`ValueInjective`) and
`uint256_add()` undoes `uint256_sub()` word by word. Text: the numbers read from parts of a
text join (`NumberOfPart`), a unit is one word of the number (`ReadUnit`, `ReadValue`),
a written digit is a field of the value (`HexDigitValue`), the digits skipped are zeros
(`SkipZeros`), and so what is written is read back (`WriteText`, `WriteThenRead`).

`IInv` is `ProductSoFar` with the types of the operands and of the round. A round looks at
the next bit of `left` (`NextBit`) and adds `right` times its weight or nothing
(`AddShifted`); `RoundKeeps` is the arithmetic of both modulo 2^Bits. After the last
round nothing is left of the modulus on `left`, and what `uint256_mul()` returns is the
product (`MulReturnsProduct`).

Only model-checked: every liveness property (`CallEnds`, `AllEnd`, `LockReturned`,
`RequestEnds`, `EndsWithServer`, `ProgramEnds`, `ReadingEnds`), since fairness is beyond the
prover. Every safety property and every refinement of a passing run has a theorem. The
three properties of section 11 that have a run do not hold.

## 11. Findings

With a run that shows a violation:

1. `parsort.c:147`. `right_index` is unsigned and is decremented below 0 when a
   region starts at index 0 and no element is smaller than the pivot. `2 1` with
   threshold 1 is enough, or any file of equal elements above the threshold. The
   comment at line 166 allows failures of system calls only.
2. `sender.cpp:53`. Nobody looks at the state of `std::cin`. At the end of the
   input the last line is sent for ever if it had no newline, else an
   empty message is.
3. `asm_imgproc_fns.S:987`. The three epilogues of `imgproc_kaleidoscope` do not
   match its prologue, and `imgproc_fade` uses `r12` to `r15` without saving them. Callers
   compiled without optimisation do not keep values there, so that the program works.

Seen while modelling and visible in the models, without a run of its own:

- `csim 65536 1 65536 ...` is accepted and dies of a division by zero
  (`DivideByZero`); `SplitIsExact` says that only a cache that spans the address
  space or more does so.
- `save()` computes `100 * block_size` in 32 bits, `load()` in 64: from 2^26 bytes a
  block they disagree, and a store is charged too little. `CyclesAccount` states both prices.
- `fifo_counter` is uninitialised. If its low 32 bits are close to 2^32, `access_order`
  wraps during the trace, and FIFO then evicts a new block before old ones. `Fits`
  excludes this, and no run explores it.
- The kaleidoscope of an odd size n is that of n + 1 with the last row and column
  cut off, and not symmetric across the four lines that `imgproc.h:86-88` and
  `c_imgproc_fns.c:182-184` speak of. `test_kaleidoscope_odd` expects it as it is, and so does
  `Picture`; `WritesThePicture` claims the symmetry for even sizes only.
- The assembly kaleidoscope of an odd size writes one pixel past the output
  (`StrayOnlyOdd`).
- When `/join` in a room leaves it and is then refused, `joined_room` stays true:
  every later `/join` and `/leave` of the session fails with the server's "not
  in a room". `RoomKnown` says that this happens exactly then.
- `rio_readlineb(..., MAX_LEN)` keeps one place for a terminator
  (`connection.cpp:77`): of a line of MAX_LEN characters, which `message.h:12`
  allows, the newline becomes an invalid message of its own, and the receiver
  exits. `Connection!receive` leaves it on the wire; the runs deliver shorter lines.
- A typed line longer than MAX_LEN is sent whole; the server answers
  its pieces, and answers and requests come apart. `Lockstep` is checked for lines
  that fit.
- A second write to a closed connection kills the sender with SIGPIPE
  (`BrokenPipe`) where it has an error path for a failed `send()`.
- `receive()` has no timeout: a client waits as long as its server is silent.
- `img_write()` looks at no result of a write (`damaged`): it returns IMG_SUCCESS
  of a file that is not complete, where `image.h:57-59` says that success is
  returned if it is written successfully. Hence `written` in `ImgProc` may stay
  FALSE with exit status 0, which `WritesThePicture` allows and says so.
- A file whose data end early, or that has none, is read without an error, and
  shows whatever the heap held (`UnfilterGarbage`, `UnfilterDone`). An IDAT chunk
  without data in the middle of a stream is refused, although it is legal.
- Memory or a file is kept on these paths (`Forgotten`, `GivenBack`): the raw
  pixels of an image without alpha when its data cannot be read (`image.c:66`),
  the stream when `inflateInit` fails (`pnglite.c:394`), the open file when its
  header is refused (`pnglite.c:296`). `open_clientfd()` keeps its list of addresses when
  a descriptor cannot be closed (`csapp.c:979-982`, `OneDescriptor`).
- `img_read()` and `png_set_data()` do not look at what `malloc` returns
  (`NullPointer`, `killed`).

## 12. Not modelled

- The server and `MessageQueue`: stubs. What the clients and `Room` expect of
  them is in the models as external.
- Argument checking, opening, measuring and mapping the file in `parsort`; opening
  and spelling of trace lines in `csim`; texts, user names and room names in the
  chat. One `Message` object shared by several queues: nobody can free it, as long as
  the queues are stubs.
- Reuse of process ids, and the branch after a failed second `waitpid()`, which cannot be
  reached: the first has succeeded and no handler is installed. Accesses of a scan that has
  left the mapping are one step.
- A FIFO cache whose `fifo_counter` wraps in 32 bits; traces of 2^32 accesses, whose
  counters wrap; the wrap of the 64-bit `total_cycles`.
- Image files whose header makes `num_pixels` or `png_datalen` wrap (`SizesFit`); which
  bytes of the data lie in which chunk.
- Where a scan that left the mapping has read: `RaceFree` speaks of the regions that
  processes were given.
- The arithmetic inside a pixel except fade's gradient; characters that are not
  hexadecimal digits.
- zlib, the CRC computation, `malloc` and the file system: external. The
  functions of `pnglite.c` and `csapp.c` that nothing in the repository calls
  (`png_deflate`, `png_print_info`, the `Signal`, `Fork` and `Open_listenfd`
  families): there is no use to model them from.
- Memory ordering: no two processes of `parsort` touch one element without a
  `fork` or `waitpid` between (`RaceFree`), and `Room` is used under its mutex.
- Debug output, unit tests, generators, scripts, vendored libraries.

## 13. Plan

The modules were written in the order sorting, cache, room, chat clients,
integers, images, and then what lies between and beneath them: the chat as a
whole, robust I/O, image files. Left to do:

1. Models: FIFO counters at the wrap with the property
   that then holds; image headers whose sizes wrap; lines longer than MAX_LEN in `Chat`, with what is left of
   `Lockstep`; the arithmetic of grayscale and fade on channels; the server, once
   it has a body.
2. Proofs: in the chat, what holds of lines that do not fit.
