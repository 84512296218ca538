# Paper Tiger in TLA+

This directory holds TLA+ models of Paper Tiger, an experimental Terraria
server in C on libuv, the TLC configurations that check them on small
instances, and proofs checked by TLAPS. Paths are relative to the repository
(`src/src/server.c` is the file `src/server.c` of the project's own tree).
`PROJECT.json` maps every definition to the lines it models, and lists the
hazards of the code with the properties that watch them.

In this commit `src/src/main.c` starts the listener of `game.c`, the console
and the event loop; the parts that start the world and the player server are
commented out, and the build file only compiles some of the sources. `Startup`
models the process as it is built; the other modules model the subsystems as
they are written.

## The system

The server runs on one libuv loop, in one thread; the console reads lines in a
worker thread of libuv, and both threads write the log. What else is
concurrent are the clients, the network, the kernel's queues and libuv's
deferred callbacks; what fails are allocations, `uv_accept`, reads and zlib.
Memory is a tree of talloc chunks: freeing a parent frees what is below it.

| Component | State | Operations | Hard behaviour | What makes it correct |
|---|---|---|---|---|
| TCP server (`server.c`) | listener, connections | `__on_connection`, `__alloc_buffer`, `__on_read` | partial failures while a connection is set up; a full server | callbacks meet live players; a hangup releases everything |
| Player (`player.c`) | `struct player`, handle | `player_new`, `player_close`, destructor, close callback | the handle outlives the player | one player per slot, the leave hook runs once |
| Slots (`bitmap.h`, `game.c`) | `game->player_slots` | set, clear, get, find a free slot | a reserved slot that is never used | the bitmap has the bits of connected players |
| Packet reader (`server.c`, `packet.c`) | the half-read packet of a player | allocate a buffer, take the bytes, dispatch | partial reads, empty reads, messages without a body | every message is handled once, in order, whole |
| Packet handlers (`packets/*.c`) | the player's name, uuid, stats; replies | read, handle and new functions | who owns a string when its packet is freed | nothing leaks, nothing is used after it was freed |
| Serialisers, outgoing messages (`packets/*.c`, `packet.c`, `server.c`) | the buffer of a packet, its length | read, write and new functions, `packet_serialize`, `server_send` | lengths computed twice, in 16 bits; texts of every length; bits packed by hand | what was written is read back, and as long as the header says |
| World sections (`world_section.c`) | compressed data, dirty table | compress all, worker timer | tiles change between rounds; failing compressions | a section that is not dirty is up to date |
| World file (`world.c`) | reader position, world fields | load header, load tiles | runs of equal tiles, versions, cut-off files | what was saved is what is loaded |
| Binary reader and writer (`binary_reader.c`, `binary_writer.c`) | position in a file or a buffer | open, close, numbers, 7-bit integers, strings | the end of the file, negative lengths, memory | what was written is read, whole or not at all |
| Tiles (`tile.c`) | tile headers in a shared mapping | setters, `tile_pack` | tiles outlive the process; flags share bits | a loaded tile is packed with what it was saved with |
| Hooks, vectors (`hook.c`, `vector.c`) | lists of callbacks | register, run | growth while callbacks run, growth that fails, events inside of events | hooks run in order of registration, none is lost |
| talloc (`talloc/talloc.c`, vendored) | chunks in lists, references, pools, limits | allocate, free, steal, realloc, reference, limit, strings | destructors that refuse, references when the owner goes, memory shared in pools | the tree is one, counters count, what is referred to lives |
| Process (`main.c`, `game.c`, `console.c`, `log.c`) | listener, console thread, log | initialise, listen, read lines, log | two threads, one log; errors at start-up | a process that cannot serve says so; log lines are whole |
| Settings (`getopt.c`) | `argv`, the scanner's position | `getopt` | argv is permuted while it is scanned | options and operands are those that were typed, in order |

How they interact: libuv calls `__on_connection`, which takes a slot of the game
(`ptGameFindSlot`), makes a player (`player_new`) and starts reading. libuv
then calls `__alloc_buffer` and `__on_read` in turn; the latter passes a
complete packet to the read and handle functions of its type. A handler
writes to the player, allocates replies, and runs hooks; a reply is serialised
field by field and passed to `server_send`. Any error or end of
file makes `__on_read` call `player_close`, which frees the player at once
and its handle in a later round of the loop. `world_init` loads a world file
into the tile map and compresses its sections; a timer compresses sections
that became dirty; the handler of GET_SECTION sends them.

## Modules

| Module | Models | Composition |
|---|---|---|
| `Bitmap` | `bitmap.h`, on words of 32 bits kept as sets of bit numbers | used by `Server` and `WorldSection` |
| `DataProofs` | theorems about `Bitmap`, `Talloc`, `PacketMemory`, `TallocLists` and recursive functions | used by the proofs below |
| `SlotPool` | abstract: slots with exclusive owners | implemented by `Server` |
| `Server` | connections, slots, players, handles | `SlotPool` with `players` as the owners |
| `ServerProofs` | theorems about `Server` | |
| `MessageStream` | abstract: messages taken one by one, each passed on once | implemented by `PacketReader` up to the first read that falls short of its buffer |
| `PacketReader` | `__alloc_buffer`, `__on_read`, `__handle_packet`, and libuv's read loop | `MessageStream` |
| `PacketReaderProofs` | theorems about `PacketReader` | |
| `Talloc` | abstract: cells with one owner each, freed with it | used by `PacketMemory`, implemented by `TallocChunks` |
| `PacketMemory` | the handler table; what read and new functions allocate and free | over `Talloc`, used by `Session` and `Messages` |
| `Session` | a player's messages: what handlers keep and reply | over `PacketMemory` |
| `SessionProofs` | theorems about `Session` | |
| `Messages` | the fields of every message as the new, write and read functions move over them; serialising and sending | over `PacketMemory` and `Codec` |
| `Codec` | 7-bit integers and strings, writer and both readers | |
| `MessageProofs` | theorems about `Messages` and `Codec` | |
| `WorldSection` | sections, dirty table, the compressor | |
| `WorldSectionProofs` | theorems about `WorldSection` | |
| `Tile` | tile header bits, setters of the loader, `tile_pack` | used by `WorldLoad` |
| `WorldHeader` | the reader's life, the file header and the header of the world, by version | |
| `WorldLoad` | types with frames, loading tiles, packing sections, restarts over the tile map | over `WorldHeader` and `Tile` |
| `WorldProofs` | theorems about `WorldHeader` and `WorldLoad` | |
| `Vector` | the growing array | used by `Hooks` |
| `Hooks` | registration and calling of callbacks | over `Vector` |
| `TallocLists` | the pointers between a chunk, its siblings, its parent and its child | used by `TallocHeap` |
| `TallocHeap` | the functions of `talloc.c` on lists of chunks | used by `TallocChunks` |
| `TallocChunks` | the callers of talloc, four kinds of them; reports | over `TallocHeap`; implements `Talloc` |
| `TallocStrings` | strings and arrays in chunks | over `TallocChunks` |
| `Startup` | `main`, the listener, the console thread, the log | |
| `ProcessProofs` | theorems about `Startup`, `Hooks` and `Getopt` | |
| `Getopt` | `getopt` and its long options | |
| `MC*` | instances for TLC | |

### Server

`socket[c]` is a connection as client and kernel see it: `idle`, `backlog`
(queued on the listener), `parked` (libuv took it, the callback did not call
`uv_accept`), `open`, `hungup` (the client left, the server has not read the
end yet), `closed`. `handle[c]` is the `uv_tcp_t`: `none`, `init` (initialised
but not accepted), `reading`, `closing` (until its close callback). Every
outcome of `__on_connection` is an action: `ConnectionError`,
`RefuseConnection` (no slot; libuv stops polling the listener),
`PlayerNewFails`, `HandleAllocFails`, `AcceptFails`, `AcceptConnection`.
`OnReadEnd` and `OnReadError` are the two ways to `player_close`;
`OnHandleClose` is the close callback; `OnReadJoin` a message whose handler
runs the join hook. In `PlayerNewFails` the code passes the address of an
uninitialised pointer to `uv_close`: the process dies or nothing visible
happens, which is a nondeterministic choice. Each action that calls
`player_new` has the conjunct `FindSlot` beside it, as `player_new` gets its
slot from `ptGameFindSlot`, which sets the bit. `leaves` and `joins` count
hooks; `LeaveIsLast` is an action property over both: of a player whose leave
hook has run neither hook runs again, whoever else joins in its slot.

### PacketReader

`script` is what the client sends, `sent` how many bytes have arrived, `pos`
how many were read. A round of libuv's read loop is `__alloc_buffer` followed
by `__on_read`, with as many bytes as there are up to the buffer's length, with
0 when the socket is dry after all, or with an error: the end of the file after
`Hangup`, a broken connection after `Reset`, and `UV_ENOBUFS` when
`__alloc_buffer` gave no buffer, for want of memory (`ReadNoMemory`) or for a
message without a body (`ReadNoBuffers`). `rounds` is the rest of
the loop's budget, after which libuv polls again (`LoopRounds`, 32 in libuv).
The network cuts the stream where `SegmentEnds` lets it, which in `MCReader` is
anywhere but in the long bodies.

A read that falls short of its buffer makes the reader lose track: `__on_read`
takes a part for the whole. The history variable `track` remembers how far every
read filled its buffer. What holds to that point is promised for every way the
bytes may arrive (`HandlesEveryMessage`, `StreamSpec`), and what holds of any
reader, on track or not, is said of all of them (`HandledOnceInOrder`,
`BufferFitsBody`).
Once the reader has lost track it reads headers from the middle of messages;
which they are is chosen from `StrayHeaders`.

### PacketMemory and Session

Each read and new function is a variant of two patterns, which say what is
allocated under what, which allocation is checked, and what is freed when a
later one fails. In `Session` messages arrive whole; each is one action, from
the packet's allocation to its release, with every allocation on the way.
`heap` has a few cells, so that each allocation fails in some behaviour, and
each cell knows its parent. `told` remembers what the client said last.

### Messages

A message is a layout: the sequence of its fields, each with its width and
with what the function adds to its position after it. What a read function
makes of a buffer is compared with what the write function put there, field by
field: a field is read from its place, or it is read from somewhere else. The
values themselves are abstracted, but for WORLD_INFO, whose eighty conditions
are bits of four bytes that the code sets by hand (`FlagTable`). A behaviour
makes a reply with some number of free cells (`Taken`), of a text of some
length (`Lengths`), serialises and sends it, or takes a message that arrived.
Three new functions do not check `strdup`, and the length of no text is then
taken; TILE_SECTION copies from a wrong address: the process dies
(`SerializeCrashes`).

### WorldSection

A section is a rectangle of tiles. `tile[t]` counts the changes of a tile,
`section_data[s]` holds the counts at the last compression. `Edit` marks the
section of a tile as dirty: nothing in the repository changes tiles yet, so
it is external, the contract of `section_dirty`. The worker is one action per
tick, whose parts (failing sections, the one that succeeds, the exchange of
the staging buffer, the bit) happen in one callback.

### Tile, WorldHeader and WorldLoad

A tile is a record of its header words as sets of bits and its fields.
The two functions that read headers are a list of statements, and a step
executes one. Consecutive reads that fail alike are one statement; it names
the members of `struct world` it fills. A `wide`
read (of two bytes or more) fails at the end of the file, a `byte` read does
not; a `stop` is a guard that returns for old versions, `from` one that skips.
`reader` is the life of `world->reader`, `fields` its position in fields,
`strings` what was allocated with
`malloc` and not freed. One call or allocation fails (`MaxFaults`), with every
outcome of the code that did not look: the process may die. The first angler
is written behind the end of its array, which is a nondeterministic choice
between dying and going on. What the property compares with is the field list
by the version that introduced each field (`Introduced`), independent of the
guards' form and order.

The tile loader is a loop over records of runs of equal tiles; `file.cut` and
`file.end` are where the file ends: reading one byte past the end succeeds and
reads nothing, reading two fails. When the tiles are loaded the sections are
packed, tile by tile; `tile_pack` raises a signal at a type the game does not
know, and the process is `killed` (`InitSectionsRaises`). `Shutdown` frees the
world, and `Restart` may stop the
server at any time; the tile map survives, being a shared mapping of a file,
which `tile.c` names by the number of the world and maps as it is. So the world
file that is found after a restart is the same, or one of `OtherFiles`: the world
was saved again, with other tiles. `replaced` remembers that.

`SentAsSaved` compares a packed tile with the record it was saved in. Whatever was in
the map, all that the record has is sent: that there is a tile, its type, wall,
liquid and amount, its wires and switches (`HasSaved`). If the file has not been
replaced, nothing else is sent (`HasOnlySaved`); of another file's tiles walls,
liquids, wires and the flag of an active tile may be left over, as
the loader does not clear what a record lacks. Neither is promised of colours,
slopes and the kind of a liquid, which the setters lose (see below), nor of frames.

### Codec

An int is the set of its one bits, so that all 32 are there and shifts lose
what C's shifts lose. A behaviour writes a string's length byte by byte, reads
it back from the buffer, and reads the string from a file that may end
anywhere. Reads at the end of the file leave the byte as it was: garbage the
first time.

### Vector and Hooks

`data` maps the indices there is memory for to elements. `frames` is the stack
of the calls of `hook_on_<event>` that have not returned: a callback that runs
may register others and announce further events before it returns.
`vector_delete` has no body, so `Deregister` changes nothing.

### Talloc

`TallocLists` and `TallocHeap` keep `talloc.c`'s pointers: only the first of a
list of siblings knows its parent, a reference is a chunk of its own, pools
count what lies in them, limits form a chain of counters. What adds a chunk to a
list, takes it out, gives it another parent or another address is in
`TallocLists`, where nothing calls itself; the functions that do are in
`TallocHeap`. Each function is an operator from heaps to heaps, so that a
destructor that refuses, or an owner that changes in the middle of a free, does
what it does there. A call by a program is one action of `TallocChunks`: talloc
is used from one thread at a time. `use` is the kind of program: with
references, with null tracking, with pools, with limits; all of them together
are beyond TLC. `TallocStrings` adds the contents of strings. `KeepsTalloc`
relates it to the abstract `Talloc` that other modules are built on: freeing and
stealing do to the tree what the abstract operators say, in every heap that can
be reached. Programs do only what a caller may (`Sensible`, `KeepsReachable`):
they free nothing twice and steal nothing into itself.

### Startup

A call of `log_log` takes five steps, between which the other thread may run:
the time, `localtime` with its one static result, and three writes. `stderr`
has what was written since the last line ended. The main thread goes through
`ptGameInitialize` to `uv_run`; in the loop libuv calls it for connections and
for the end of the console's work. libuv's part is external: an address in
use shows in `uv_listen`, and the loop ends when nothing is active.

### Getopt

`argv` maps places to the elements the user typed, and each call of `getopt` is
a step; `exchange` swaps two stretches as the code does, in rounds by the length
of the shorter. What it should do is `Scan`, a definition over the command line
that never moves anything: `Says` tells of every place of it what is said from
there on. A command line has no `-W` with the beginning of several names
(`WIsUnambiguous`), of which the code passes over an element too many.

## Runs

| Run | Question | Bounds | Distinct states |
|---|---|---|---|
| `MCServer` | do player table, bitmap, handles and hooks agree, whatever fails in between? is every hangup released? | 3 clients for 2 slots, 1 join each, 1 failing call | 17055 |
| `MCServerLeak` | is the bitmap that of connected players? It is not | as above | |
| `MCReader` | is every message handled as long as no read falls short, and what holds however the bytes arrive? | 9 conversations of 3 or 4 messages, bodies of 0 to 4 and of 255, 32767, 32768 and 65532 bytes, cuts anywhere but in the long bodies, 3 rounds a poll | 90892 |
| `MCReaderLength` | is the length of a message an unsigned 16-bit number? It is not | as above | |
| `MCSessionMemory` | who owns what is allocated for a message? | 6 cells, all served types, values 0 and 1 | 752 |
| `MCSessionReplies` | are replies freed? They are not | as above | |
| `MCCodec` | is what was written read, whole or not at all? are messages as long as their headers say, and made whole or not at all? | ints at each boundary of 7 bits and negative ones, every cut; texts of 12 lengths from 0 to 65530, every number of free cells of 7, each condition of a world alone | 26290 |
| `MCSection` | are clean sections current, and is every change compressed? | 16 sections of 3 x 2 tiles, 4 tiles that change once, 2 failures | 4154 |
| `MCSectionDirty` | does a section that failed at start-up stay dirty? It does not | as above | |
| `MCWorld` | is each field read from its place, is a cut-off file refused, are strings freed, is a tile packed with what it was saved with? | the versions before and at each guard, 0 or 2 anglers, 17 cuts; 2 columns of 3 tiles, 10 types and 2 the game does not know, runs of all lengths, 4 ends; 1 failing call, 1 restart with the same file or one of 3 others | 280051 |
| `MCTalloc` | is the tree of chunks one, do pools and limits count right, does a reference keep alive, do strings say what was put together? | 4 chunks, 2 limits, sizes 1 and 3, a pool of 4 or 10, a limit of 12, 1 destructor, 1 string | 30292 |
| `MCStart` | are log lines whole, does the process report what it does, does it end? does getopt find what was typed? does an event reach what was registered, in order? | 2 lines, 2 clients, 2 seconds; 4 elements of 9, or 3 of 19 with long options; 2 events, 2 callbacks, 3 registrations each, events 2 deep, 1 failing allocation | 856720 |

A run that finds a violation shows a disagreement of the code with the line of
the repository quoted in `findings`. `CHECK_DEADLOCK FALSE` is in every
configuration: the process may die, a listener may stall, and conversations,
edits and files are finite.

Why the bounds are enough. Two slots and three clients is the least where a
slot is reused while another is in use and one client finds the server full.
One failing call reaches each failing branch with every state of the other
connections; the proofs cover any number. Conversations have a served type and
one without handlers between two served ones, bodies shorter and longer
than a header, and the longest that an `int16_t` can tell, one more, and the
longest that a header can tell. Six cells hold what two messages need at most, and are too few
for a third, so that each allocation succeeds and fails. Sixteen sections are
the least for which the dirty table has room; the four tiles that change lie in
corners of sections, two in the same. A column of three tiles has every
arrangement of runs of one, two and three, and ten types make two flag bytes;
the files found after a restart have less of everything than the others, and more.
A header has about a hundred and thirty fields, and the cuts lie in the file
header, in the seed, and at every fourth field of the part that depends on the
version. Lengths of texts lie on both sides of each number of length bytes and
of what a 16-bit length can say. Three registrations make a vector grow from
two to four elements, once it has memory and once it has not, and an event
inside of an event uses a vector that the outer one is walking through. Four
chunks are an object with two references and a holder, a pool in a pool with a
member, or a limit below a limit; a fifth adds siblings that no function looks
at, for all look at the first, at neighbours, or at each in turn. An address
is a model value and nothing compares two, so that chunks are symmetric. Four
elements have every order of an operand, an option with its argument, and
`--`; two log calls overlap in every way with one line and one client.

Bounds by name: `MaxJoins`, `MaxFaults`, `MaxEdits`, `MaxStops`, `LoopRounds`,
`Cells`, `Taken`, `Lengths`, `MaxRegistered`, `MaxDepth`, `MaxLines`,
`MaxClients`, `MaxClock`, `MaxArgc`, `Chunks`, `Limits`, `Sizes`, `PoolSizes`,
`LimitSizes`, `StringPools`, `MaxDestructors`, `MaxStrings`, `Bounded` of
`TallocStrings`, and `Cuts` of `MCWorld`. `BackReferences` says if a program
may let a chunk refer to one it is below (see below). Constants
that stand for larger ones of the code: `MaxPlayers` (255),
`WORLD_SECTION_WIDTH` and `WORLD_SECTION_HEIGHT` of `WorldSection` (200 and
150), `MaxByteType` (255), `TimerType` (144), `MAX_TALLOC_SIZE` (0x10000000).

### Fairness

libuv polls every watched descriptor and runs all pending close callbacks in
each iteration of the loop, and no callback blocks, so `OnConnection`,
`OnReadEnd` and `OnHandleClose` are weakly fair for each connection
(`FairSpec` of `Server`), and so is a round of the read loop (`PacketReader`).
There TCP delivers what was sent, and the client hangs up after its last
message, unless the connection breaks. The worker's timer repeats every 100 ms
once it is started (`FairSpec` of `WorldSection`); the only call that starts it is
commented out (`src/src/world.c:969`), and `CompressorStart` is as it would be. In `MCStart` the main thread and the console's
thread go on by themselves, as the operating system schedules both; typing,
the end of the input, connecting and the clock need not happen. Nothing is
assumed of clients in `Server`, of edits, of failures or of the start of the
worker.

### What was found

- A failed `player_new` or `uv_accept` leaves a bit in `player_slots` for ever.
- When the server was full once, libuv no longer polls the listener: later
  clients wait for ever, also when slots become free (`RefuseConnection` and
  `PlayerNewFails` set `listening` to FALSE and no action sets it back; no line
  of the repository promises otherwise, so no run reports it).
- `__alloc_buffer` advances the state of the packet although the following
  read may give nothing: a header is taken for a body. So it is whenever
  libuv's loop, having filled one buffer, asks for the next and finds the socket
  dry; and a part of a header or of a body is taken for the whole of it. `MCReader`
  has these behaviours, and its properties promise that every message is
  handled only up to the first read that falls short of its buffer.
- A message without a body makes libuv report an error and closes the player
  (`ReadNoBuffers` of `PacketReader`), and so does a packet for which there is no
  memory (`ReadNoMemory`). `HandlesEveryMessage` says that nothing else does on
  track, and where in the stream the connection is closed then.
- The length of a body is kept in an `int16_t` (`src/src/server.c:104`): the buffer
  for a body of 32768 bytes and more is asked for with a length above 2^31, and
  takes whatever follows. `src/include/packet.h:44` has an unsigned length:
  `MCReaderLength`.
- Replies are freed only with the player.
- A section whose first compression fails is not marked dirty.
- The table of types with frames is copied from ints to bools, by the byte
  (`src/src/game.c:156`), so that the first half of the table has the bytes
  of ints and the rest of it is what it was; `WorldLoad` starts with such a table.
- A seed is not freed when the number behind it is missing (`StringsAreFreed`
  states the exception).
- The result of reading the anglers is ignored, and the first is written behind
  the end of their array; after a failing allocation there the other fields are
  read from the wrong place. `ReadsAsWritten` is for reads without failures.
- An empty string can be written, and read from a buffer, and not from a file
  (`RoundTrip` states it).
- After a failed growth a vector counts elements it has no memory for, and the
  next event crashes (`MCStart` has it; `NothingLostWithMemory` excludes it
  where no allocation fails).
- A client with another protocol version is logged as disconnected and stays;
  `inventory_slot_handle` writes to a local copy (in `Session`, no property).

Of messages:

- PLAYER_HP, PLAYER_MANA, INVENTORY_SLOT and CLIENT_UUID have a function that
  makes them for sending, and none that writes them.
- TILE_SECTION is written with the third byte of a section for the address to
  copy from (`src/src/packets/tile_section.c:99`).
- `invasion_type` and `lobby_id` of WORLD_INFO are filled and never written;
  the `fast_forward_time` of a world is never told.
- The length a new CHAT_MESSAGE, WORLD_INFO or TILE_SECTION states before it is
  serialised is not what its write function writes. `packet_serialize` states
  the length again, which wraps at 16 bits: `LengthAsWritten` has its limits.
- `player_info_read` moves over the length of a name as one byte, whatever it
  takes (`src/src/packets/player_info.c:154`); names of 128 bytes and more shift
  what is behind. Three functions do not check `strdup` (`src/src/packets/world_info.c:112`,
  `disconnect.c:64`, `client_uuid.c:80`).
- `server_send` makes its packet a child of the server, and nobody frees it.

Of tiles and the game:

- The setters of colours and of the kind of a liquid only clear bits
  (`src/src/tile.c:184`), so that these are lost: `SentAsSaved` does not promise
  them, and no line of the repository does.
- A tile file that exists is mapped as it is, also for a
  world that has changed (`src/src/tile.c:121`). The loader then writes each
  tile, but not all of it: what a new record lacks stays as it was. `MCWorld` has
  such restarts, and `SentAsSaved` says what holds of them. A world of the same
  number and another size would map its tiles to other places, and is in no run.
- `tile_pack` compares the type of a tile with the size of the table where it
  should compare with the last entry (`src/src/tile.c:419`): the type that is one too
  many reads behind the table; a larger one ends the process, although the loader
  has accepted it.
- `ptGameOnlinePlayerSlots` looks for cleared bits and returns the free slots;
  its only caller has no caller.

Of the process:

- The outcome of `ptGameServerListen` is compared before it is stored
  (`src/src/game.c:165`): a process whose port is taken runs on, without a
  listener, until its console's input ends, and then exits with 1.
- `ptGameServerOnNewConnection` never accepts: the first client is seen, and no
  other (`RunsAsItReports`).
- Two threads log without a lock: lines mix, and one thread may print the time
  of the other. `LinesAreWhole` is for calls that do not overlap.
- getopt: `-W` with an ambiguous name skips one element too many
  (`src/src/getopt.c:915`), and `optind` can pass `argc`: `Getopt` has the step,
  but no such command line; a sign at the start of
  the option string is skipped in the first call only. No program here has long
  options: `main`'s call is commented out.

Of the vendored talloc:

- When a chunk at the top is freed whose only reference is held by a chunk below
  it, it is stolen by its own child: the two are a cycle that no root reaches.
  The comment at `src/src/talloc/talloc.c:960` is about such loops.
  `BackReferences = FALSE` leaves the case out.
- With a reference from below and another from outside, the owner is computed
  before the inner handle is gone. A reference held by no context does not keep
  a chunk alive whose parent's parent is freed. A chunk whose destructor refuses,
  and which is not the first of its siblings, goes to the null context
  (`src/src/talloc/talloc.c:1444`).
- `talloc_free_children` of a chunk whose child's destructor frees that chunk
  goes on in freed memory; appending a string to itself reads the old place
  after a move. Programs of `TallocChunks` do neither.
- A chunk stolen out of a limited tree is not subtracted
  (`src/src/talloc/talloc.c:1083`); a chunk that carries a limit loses it when it
  is stolen, and leaves a pointer to its old place when it is moved by realloc; a
  limit set where it is already becomes its own upper one, an endless loop; a
  pool's memory is never subtracted, as its size is 0; growing in a pool counts no
  header. `LimitsCount` is about what is left.

## Proofs

TLAPS proves the following for every value of the constants that satisfies the
assumptions named in the modules; TLC evaluates the same assumptions in each
run that uses the module. What they ask for:

| Assumption | Asks for |
|---|---|
| `ServerAssumption` | at least one slot, and words for all of them; bounds that are numbers |
| `WorldAssumption`, `CoordinatesFit` | whole sections, 16 of them or more; coordinates of 16 bits |
| `ReaderAssumption` | scripts of messages with a type of one byte and a body that a 16-bit length can tell |
| `TallocAssumption`, `ListsAssumption`, `SessionAssumption` | finitely many cells, none of which is a context or NULL; types that have handlers |
| `CodecAssumption` | sets of bits of an int and of a byte |
| `MessagesAssumption`, `WorldsAssumption` | texts of any length, any cells taken, any conditions of a world |
| `HeaderAssumption`, `FilesAssumption` | files of any version with two positions or more, any cut, any records in the columns |
| `SavedAssumption` | files as the game saves them: the flags of a record tell the fields it has, and the records of a column have all its tiles |
| `HooksAssumption`, `StartupAssumption` | finitely many events; bounds that are numbers |
| `GetoptAssumption` | elements of any characters; option characters of one kind each, none of them `W`; no value of an option that is getopt's -1 |

Each safety theorem has one form: `Init` establishes an inductive invariant,
each step keeps it, and it implies the property. TLC has checked each invariant
on the module's run before the proof; most are stated at the end of the module
they are about.
What follows says what it has beyond the properties and why.

`DataProofs`: `bitmap_set` and `bitmap_clear` change the one bit they name
(`SetSetsOneBit`, `ClearClearsOneBit`), for bitmaps of any number of words. The
argument is that a bit number is determined by its word and its offset.
`ReadFunctionLeaves` and `NewFunctionLeaves` say what the two patterns of
`PacketMemory` leave in any heap, for every way their allocations can fail: the
shape they promise, or what was there. All of `Session` and of the new functions
of `Messages` rests on the two. What the abstract `Talloc` promises of any tree
is in `FreeKeepsTheTree`, `StealMovesTheTree` and `NewStaysInTheTree`: no
sequence of the three calls loses a chunk that is in use or leaves one below
freed memory, provided a chunk is not stolen to below itself. A subtree is the
least set that is closed under children, so each proof takes any closed set of
the new heap and shows the old one's, with what changed, to be closed too
(`SubtreeCarries`).

From that tree to the pointers of `talloc.c` there are theorems for each
operation of `TallocLists`, for any number of chunks: `NewKeepsLists`,
`RelinkKeepsLists` (a steal), `FreeKeepsLists`, `OrphanKeepsLists` (null
tracking is turned off) and `MoveKeepsLists` (`realloc` to another address).
Each says that the lists are whole afterwards (`Linked`, of which
`ListsAreSound` checks the same in every heap that is reached) and which chunk
has which parent: the one that was meant has changed, and no other. Then
`RelinkStealsInTree` and `FreeFreesInTree` show relinking, and freeing a chunk
without children, to be `TallocSteal` and `TallocFree` of the tree that the
lists stand for. `Linked` says two things that the pointers next to a chunk do
not: every set of chunks has one whose `prev` is outside (there is no ring of
siblings), without which going back in a list finds no parent, and no chunk is
its own parent, which the first of a list cannot see of its siblings: without it
the second of two siblings could be the parent of both, and the pointers would
still fit. The parents follow from the pointers by one lemma (`ParentsAre`): a
function that agrees with the pointers step by step is what going back finds, as
a first chunk for which it is wrong cannot be. `KeepsTalloc` of `TallocChunks`
is the model-checked link for whole calls, in which a free or a steal also meets
references, pools and limits.

The lemmas `LeastNatural` and `PrimitiveRecursion` stand in
for induction and for recursive definitions, which the provers cannot take from
the library: a set of naturals that is not empty has a least member, and every
first value and step have a function, of which a recursive function of a model
(where a message starts, where a field lies) then is known to be one.

`ServerProofs`: the inductive invariant is `IInv`, the conjunction of `TypeOK`,
`NoDanglingPlayers`, `ReaderHasPlayer` and `ExclusiveSlots` with
three strengthenings. `LiveHoldsSlot` (a player object's slot is marked) is what
makes `ExclusiveSlots` inductive: a new player takes a slot whose bit is clear,
so it cannot be that of a live player, not even of one that a failed
`uv_accept` left behind and no table entry shows. `WaitingIsFresh` (a queued
connection has no objects of the server) says that a new player replaces none.
`LiveHasNotLeft` (the leave hook of a live player has not run) makes the action
property `LeaveIsLast` a fact about each step, `NothingFollowsTheLeave`.
`NextIInv` has one step per action; the three ways to make a player share
`PlayerNewKeeps`, the two ways to close one `PlayerCloseKeeps`. `Refinement`
shows that each step is a step or a stutter of `SlotPool`: `AcceptConnection`
acquires, `PlayerClose` releases, or changes nothing where the table has no
entry.

`PacketReaderProofs`: `IInv` says besides that a packet whose header was read
has the length and type of the message it was read from
(`PacketFollowsHeader`), that handled messages lie behind the reader
(`HandledLieBehind`), and, as long as each read filled its buffer, that the reader
stands at a start of a message or behind a header (`TrackAtMessage`). The second is why no
message is handled twice by a reader that has lost track; the third makes
`HandlesEveryMessage` inductive. Starts of messages are a recursive function,
monotone by `LeastNatural`. `BodiesGetTheirBuffer` is for bodies whose
length fits an `int16_t`; of the others `MCReaderLength` shows the contrary.
`MessagesOnTrackArrive` says where a reader that runs out of buffers stands, besides
that each message it was on track for is handled whole. `Refinement` maps each read that completes a
message to the step of `MessageStream` that takes it, and every other step to a
stutter.

`SessionProofs`: `Flat` says that between two messages the heap only has
texts and replies, right below the player; `ClosedIsEmpty` that a player who
is gone left none. With it each handler is followed from the cells its read
function left to the release of its packet. What a free takes with it is defined
as the set of cells below another, so lemmas say what is below a packet, a body
and a player in such a heap.

`MessageProofs`, about `Codec`: `StringIInv` says what is left of a length is
what was not yet written, seven bits at a time (`Writing`), and that what was
written is read back by both readers (`Written`). About `Messages`:
`MessageIInv` says which cells a stage has. For `ReadsWhatWasWritten` and
`LengthAsWritten`, `BufferIInv` says the buffer is the layout of its message.
Layouts are sequences of fields, whose widths depend on the text, and where a
field lies is a recursive function (`Position`); `PositionJoin` places the
fields of a concatenation, and `IsLayout` is what each message's fields are
shown to be. Of each type of message with both functions, what is placed by one
is compared with what is placed by the other. `FlagsCounted` says that
`__fill_world_info` maps conditions to bits one to one, so that the number of
bits is that of the conditions.

`WorldSectionProofs`: `OneSectionPerTile` says that the section
`world_section_num_for_tile_coords` names for a tile has the tile in its
rectangle, and that no other has; it rests on lemmas about quotients, as the
provers know little of division. `DirtyTableFits` is why `WorldAssumption`
asks for 16 sections: the table has `max_sections / 4` bytes and is used in
words of four. `CleanSectionsAreFresh` and `StagingProtectsData` are proved
from the invariant `IInv`, the conjunction of `TypeOK` and `CleanIsFresh`; the
step for `Edit` needs `OneSectionPerTile`: the section that is marked is the
only one whose tiles changed.

`WorldProofs`, about the headers: `HeaderIInv` says, while statements are
executed (`Reading`), that no version guard has returned (`Passed`), that the
fields behind the reader are those the file's version has in front of the next
statement, or all there are (`Offset`, a `Cardinality`), that none is missing
that a read would have noticed (`Intact`), and when a seed is allocated; and
after them what the properties say (`Finished`). There is a lemma per kind of statement
(`wide`, `byte`, `stop`, `from`, strings, the anglers), and facts about
the list itself, such as which statement is where. About the loader: `LoadIInv`
ties the loop over the table of types to the bits it has taken
(`i + 7 = 8 * consumed + flag2`: the reader takes a byte when it needs one and
never one too many), bounds the loops over columns, rows and records, and says
that without a stop only tiles that the loop has come to are not zero, which is
`NothingAhead`. A step of the loader copies a tile to any number of rows below.

`SentIInv` is what `SentAsSaved` rests on. As long as no other file has been found,
it says of every tile of the map, whichever load it is of, what a tile cannot have but
of the record it was saved in (`Keeps`): the bits the loader sets and never clears
are right only because an earlier load read the same file. Of any tile it says
that no step paints it (`Unpainted`): the bits of colours, slopes and liquids are only
ever cleared, and none of them reaches a packed tile. Of the tiles this load has come
to it says that they have all of their record (`IsLoaded`), whatever they had before, of
the loops that they are at the first row of a record as long as the file has one (`AtRecord`), and of the sections that they
are what `tile_pack` makes of their tiles (`Packed`). Behind the end of the file a
read takes nothing, or the first fields of a record, which is why
`SavedAssumption` is needed: a record whose flags announced more copies than it
has would be laid over its neighbours. Where a record starts is a recursive
function (`FirstRow`); that its rows rise, so that each tile has one record, is by
`LeastNatural` and `PrimitiveRecursion`. Then the tile is followed through the
parts of `__world_load_tile`, and the three flag bytes of `tile_pack` are
compared with those of the record bit by bit. A packed tile takes 12 bytes at
most, even with its frame, which is the other half of `SentAsSaved`.

`ProcessProofs`, about `Startup`: `LogIInv` follows the one line of a call that no
other overlapped from step to step (`AloneSoFar`), `MainIInv` the outcome of
`main` at each of its steps (`ReportedSoFar`) and that connections are only seen
by a listener. `StartupSpec`, `GetoptSpec` and `HooksSpec` are the three parts of the process that
`MCStart` runs one at a time; its `Spec` implies each, as `Spec` of `Messages` implies the
specifications of strings and of messages (`StringSpec`, `MessageSpec`). About
`Hooks`: `IInv` says that a vector with memory has the callbacks that were registered
(`Holds`), and of each call on the stack that it has called the first of them in
order (`CallSound`): a callback that registers others only adds behind, and
one that announces an event puts its call above.

About `Getopt`, `ExchangeRotates` says of `exchange` that its two stretches change
places, whatever their lengths: a round leaves to be done what makes the whole
exchange complete, and less of it than before (`RoundRotates`). `GetoptScansAsTyped`
is for every command line, every set of option characters and every list of long
options. `Says` is a recursive reading of the command line; that there is one is not
for granted, as what is said at a place depends on later places, and the provers
know a recursive function only where some function solves its equation.
`SomethingIsSaid` builds one from the last place to the first. The invariant
`GetoptIInv` then is an equation: what was returned, followed by what is said from
the place where the scanner is, is all that is said; the operands that were skipped,
followed by those that are found from there, are all operands (`IsRead`). The
skipped operands are a block in front of the scanner, behind it nothing has moved
(`Sorted`), and nothing is lost (`Everything`). `PermuteReads` and `EndOfOptionsReads`
keep it when `exchange` moves the block behind the options that follow it,
`DecodeScans` when an option character is read, alone or with an argument, and
`LongScans` for long options, also behind `-W`. `WIsUnambiguous` is needed: an
ambiguous `-W` breaks the equation, as the code passes over an element.

Only model-checked:

- liveness (`HangupReleases`, `ReadsEverything`, `EveryEditIsCompressed`,
  `EndsWithConsole`), which needs ENABLED;
- what is about whole calls of talloc (`ListsAreSound`, `PoolsAreSound`, `LimitsCount`,
  `ReferencesKeepAlive`, `KeepsTalloc`, `StringsSay`): a free calls itself for children
  and references in turn, which is in recursive operators that are out of the
  prover's reach. The steps such a call takes on the lists, and what it promises
  the other modules, the tree of `Talloc`, are proved in `DataProofs`.


## Not modelled

- Windows: the replacement of `mmap`, which exits unless the mapping is private
  while `tile.c` maps shared, and the headers of libraries in `win32/include`.
- The plugin tool and its protocol files, a program of its own.
- linenoise, which is not in the repository, and zlib: compressed data are not
  bytes, compression succeeds or fails.
- Of talloc: magic numbers, abort and log functions, the formats of reports;
  `printf`'s formatting, of which only the length matters here.
- Of getopt: the ordering RETURN_IN_ORDER, an option string that starts with a
  sign, `long_only`, and command lines with an ambiguous `-W`.
- Functions without a body or a caller: `server_send_packet`,
  `server_broadcast_packet`, `packet_recipient_all_online`,
  `packet_read_header`, `world_pack_tile_section`, `vector_steal`,
  `vector_steal_back`, `tile_container_destroy`, `tile_heap_new`, and code that
  is commented out in `main.c`, `game.c`, `console.c` and `param.cc`.
- Values: the fields of the world's header, as nothing reads them, and the
  numbers in messages are abstracted to their place and width; the plain copies
  of numbers have no control to speak of.
- Messages of a client whose header says less than its own length. A buffer of a
  length above 2^31 takes in `PacketReader` what arrives; that the memory behind it is
  shorter is left out.
- World files of another size under the number of a world that has a tile map.

## Plan

Done: the models of `Server`, `PacketReader`, `Session`, `WorldSection`,
`WorldLoad`, `WorldHeader`, `Codec`, `Vector` and `Hooks`; then `Messages`,
`Startup`, the chunks and strings of talloc, `Getopt`, and the load of a world
from its header to its tiles in one module; then the proofs about all of them,
of talloc's chunks about the lists.

Next, proving: a whole free in `TallocHeap`. Its recursion over children,
references and destructors would have to become a relation, or a stack of calls
with a step each, as `Hooks` has for events.

Next, extending the model:

1. A composition of `Server` and `PacketReader`: several connections whose
   errors close them while others read; with `Hooks` at join and leave.
2. A composition of `WorldLoad` and `WorldSection`: a load that
   fails before the sections are compressed.
