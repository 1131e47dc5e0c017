# ChompoC in TLA+

ChompoC is a tree-walking interpreter, in C++23, of the language Chompo. It is
also what its LangJam demo runs on: a chat server and a chat client, written in
Chompo, that talk over TCP through a password-authenticated, encrypted line
channel. This directory holds TLA+ models of its parts, the TLC runs that check
them, and TLAPS proofs.

Paths below are relative to the repository; file names without a directory are
under `src/interpreter/` or `src/parser/`.

## 1. Inventory

| Component | State | Operations | What makes it correct |
|---|---|---|---|
| Secure channel (`secure_channel.cpp`, `secure_network_builtins.cpp`) | per handle: a pending handshake or a session (key, two nonce prefixes, two counters) | begin, step, send_line, receive_line, forget | no nonce is used twice under a key; frames open in order, once, and only those of this handshake; both sides prove the password before a session exists; a failed write ends the session |
| Network manager (`network_manager.cpp`, `network_builtins.cpp`) | per handle: socket, kind, line buffer, end-of-stream flag; the next handle | listen, accept, connect, poll, send, receive, receive_line, close; netSendAll | no byte lost or moved; lines cut at newlines however bytes arrive; handles never reused; netSendAll counts honestly |
| Chat server (`langjam/Chompo/chat_server.chmp`) | parallel arrays of clients, names, statuses, roles, rooms; pending handshakes; rooms, histories, bans, whitelist | main loop, drainClient, registerName, the commands, broadcasts with recursive removal | names unique; one admin while anyone is named; nobody forgotten or skipped; every client served; whoever leaves, the server goes on |
| Chat client (`langjam/Chompo/chat_client.chmp`) | connection state, pending name | handshake loop, main loop, waitForGoodbye | every received line is shown; leaves after BYE or the end |
| Environments and closures (`environment.cpp`, `callable.cpp`) | chains of slots; pools of environments and of frames | define, get, assign, acquire, release | an environment in a pool is in nobody's closure; every exit restores the scope |
| Interpreter (`interpreter.cpp`) | current environment, control flow, call depth, argument buffers | execute, evaluate, call, assign | depth is bounded; environment restored on every exit; assignment targets still exist when written |
| Values (`value.cpp`, `collection_builtins.cpp`) | graph of shared arrays and maps | element assignment, push, pop, removeAt, equality, to_string | no array contains itself |
| Parser and resolver (`parser.cpp`, `resolver.cpp`) | position, loop and function depth; scopes | one pass each | the tree is the one that was written; jumps only where they belong; slots mean what names mean |
| I/O manager (`io_manager.cpp`, `io_builtins.cpp`) | current input and output, their buffers | set_input, set_output, set_streams, print, flush, read_line, poll_line | a refused redirection changes nothing, a done one loses nothing; what was flushed is in the file; no line of the standard input is lost |
| Terminal manager (`terminal_manager.cpp`) | edit buffer, cursor, history, escape state, the line on the screen | open, close, poll_line, read_line, key handling | the buffer holds whole characters; the screen shows it; hidden input stays hidden; the terminal's mode is restored |
| Lexer, system builtins, AST printer, program entry | none between calls | one pass each | |

How they interact. Everything runs on one thread. `main.cpp` parses, resolves and
interprets. Chompo programs call native functions; those of the network call
`NetworkManager` by handle; `SecureChannelManager` sits on it, keyed by the same
handles, without being told when a handle is closed. The chat programs are event
loops over `netPoll`. The concurrency is between *processes*: client and server
share a TCP connection, between two system calls of one call bytes arrive,
buffers fill, connections end, a user types.

What is hard: writes that stop half-way, handshakes repeated on one socket, end
of stream in the middle of a line, both sides writing into full buffers, line
buffers that `poll` cannot see, indices that are stale after a call that may
remove clients, assignment targets that are stale after the right side ran,
environments that are reused, streams switched with text on its way, escape
sequences cut in pieces. `PROJECT.json` lists each under "hazards", at its line,
with the properties that cover it.

## 2. Modules

    SecureLink               what the channel promises (abstract)
    SecureChannel            both endpoints, the connection between them
    SecureChannelProgress    SecureChannel used by two willing programs
    SecureChannel_proofs     proof: types, nonces, the order of frames, sessions, cut
                             streams and the refinement of SecureLink
    LineStream               what connections promise to a reader (abstract)
    NetworkManager           sockets of one program, the kernel, the other ends
    NetworkManager_proofs    proof: bytes, lines, counts, handles and the refinement
                             of LineStream
    NetworkEventLoop         the chat server's main loop over NetworkManager
    NetworkEventLoop_proofs  proof: the same of the loop
    Recursion                induction and recursive functions, for the proofs
    ChatServer, MCChatServer who is connected, named, admin and in which room
    ChatServer_proofs        proof: names, admins, connections, broadcasts
    LineEditor               what a line editor promises (abstract)
    TerminalEditor           terminal_manager.cpp
    TerminalEditor_proofs    proof: mode, screen, whole characters and the refinement
                             of LineEditor
    EnvironmentPool, MCPool  environments, closures and their reuse
    EnvironmentPool_proofs   proof: reuse is never seen
    Grammar                  the language: trees, what they look like, what names
                             in them mean (reference)
    Parser, Resolver         parser.cpp, resolver.cpp
    Interpreter              interpreter.cpp, environment.cpp, value.cpp, ...
    Chompo, MCChompo         main.cpp: parse, resolve, run; programs for TLC
    IOManager                io_manager.cpp, io_builtins.cpp
    IOManager_proofs         proof: flushes, switches, the standard input

### SecureChannel

Both endpoints run the code of `secure_channel.cpp`. State and code:

| Variable | In the code |
|---|---|
| `pending[e]`, `session[e]` | `Impl::pending`, `Impl::sessions` for the handle of this connection |
| `out[e]` | the `send_all` frame of the running call: the line, how much was written, whether there is a deadline, and what the call will store once it is written |
| `lines[e]`, `tail[e]` | bytes sent by `e` and not read by its peer, in socket buffers and in the peer's line buffer: complete lines, then a line still without newline |
| `open[e]`, `reset` | the handle exists in `e`'s manager; the connection was reset |
| `lastSalt` | how often `begin_server_handshake` drew a salt |
| `sealed`, `opened` | history only |

An action is a call up to its first `::send` (or the whole call when it does not
write); every attempt of `send_all` after that is an action: `WriteRest` (with the
code that follows in the caller: `HelloWritten`, `KeyWritten`, `ReadyWritten`,
`LineWritten`), `WriteShort`, `WriteTimesOut`, `WriteFails`. Between attempts the
other process runs, so all interleavings of two processes are there, with
timeouts at any attempt, `netClose`, crashes and resets at any point. An action
that fails clears the handle exactly where the code does. A write that is given up
leaves its bytes in the stream; what is then written on the same connection
continues that line, which is `Garbage` to the reader, and a frame given up just
before its newline is delivered whole when the stream ends, as in
`NetworkManager::receive_line`.

Abstractions. AES-GCM and PBKDF2 are perfect: a frame is the record of all its
seal binds. Salts are fresh; nonce prefixes may repeat. Lines are records, so
parsing is whether the record has the expected type. Which endpoint accepted the
connection decides its role; a step function for the other role returns Failed
and changes nothing, and is left out. The blocking wrappers are sequences of
begin, step and forget, each of which is an action.

`SecureLink` says what this amounts to: in every *epoch* (one handshake, one
salt) each side posts texts and accepts a prefix of what the other posted; the
server accepts the client's proof and answers in one step; nobody posts
application text before accepting the other's proof. `ImplementsLink` is the
refinement: epochs are salts, posts are seals, accepts are successful opens.

`SecureChannelProgress` restricts the actions to two programs that begin one
handshake with the same password and then step and receive whenever their loop
comes round, on a connection that lives.

### LineStream, NetworkManager, NetworkEventLoop

`entries` and `next_handle` are the members of `Impl`. `wire` is what the kernel
received, `far` the other end (open, closed in order, reset, or reset and reported,
after which the kernel gives an end of stream), `unsent` how full a send buffer is. `receive_line`
and `netSendAll` take one action per system call (`call` is the call in
progress), everything else is one action. `receive_line` reads `Chunk` bytes at a
time, keeps what is left after a newline and keeps what is over `MaxBuffered`.
`arrived`, `taken`, `lines` and `raw` are history.

`BytesAccounted` demands that taken, buffered and waiting bytes are all that was sent,
also of a connection whose other end has closed: what the closing must not cost is the
last line without a newline. Only of a connection that was reset the end may be
missing.

Two properties say what a line is. `LinesAsSent` compares all that `receive_line`
returned with the lines of all that was taken, read byte by byte (`Fed`, a function
over the bytes); it leaves out connections on which `receive` was used as well, where
bytes are taken that are in no line. `LineStream` says it step by step, of all
connections: the next line goes from where the last call stopped to the next newline,
and only at the end does what is left count as one. `ImplementsLineStream` maps what
arrived to what was sent, and the connections whose other end is closed or reset to
those that have ended; where the bytes are, in the kernel or in the line buffer, and
how many calls of `recv` it took, is not in it.

`NetworkEventLoop` is the main loop of `chat_server.chmp` in plaintext mode:
poll, accept everything, drain every client until Wait with `receive_line`, look
at the console. What processing a line means is left to `ChatServer`; here it, an
announcement, and a line of the console may remove any set of clients, so that
the loop's index may be stale in every way it can be.

### ChatServer

The same program from the other side: its arrays and its commands, over
connections of which only is known whether they are open, have a session, and
deliver lines. A client may be found dead by any line that is sent to it, and who
cannot be sent to is removed at once, in the middle of a broadcast or of another
removal, which may announce and promote in turn. So every `sendChatLine` is an
action, and `todo` is the stack of the calls in progress: each item is what a
function has left to do, with the index its loop has. A handler of `processLine`
is the action that pushes what it will do; the actions that take the stack down
are `AttemptLine`, `SendLine`, `RemoveClient`, `BroadcastLine`, `BroadcastEnds`,
`PromoteFirstAdmin`, `UseIndex` (an index from before a broadcast used after it)
and `ReturnLine`. Both modes are modelled: in plaintext mode `sendChatLine` is
true whatever happens (line 197 accepts any result), so nobody is removed by a
send. The five parallel arrays of clients are one sequence of records, the two of
pending handshakes another; every removal in the code removes from all of them
without a call in between. A line a client enters may be any command with any
name or room. `heard`, `deposed` and `of` in `todo` are history.

### TerminalEditor, LineEditor

`ed` is `TerminalManager::Impl` with the line it last drew, with `original` the modes
it found; `tty` is the modes of the terminal's two handles. `open` sets the input,
then, on Windows, the output; either may be refused, and what `open` and `close` put
back is what they remembered. That the terminal takes a mode back is assumed, and code
pages are left out. `call` says whether a `read_line` is in progress and whether it
asked for a mask. An action is a poll or a read that meets one byte (Unix) or one key
event with its repeat count (Windows), the end of input, an error, or a call of
open, close, set_prompt. Bytes are named by what `process_unix_byte` tells apart;
a unit of the buffer is its sequence of bytes, and the history holds joined bytes
that are split again when recalled. A character has the width the code gives it
(`unit_width`, and the terminal is taken to agree on single characters); a tab is
written as four spaces (`written_width`), which the code counts as two columns, so the
column of the screen is what was written less what the code moved back. `ImplementsLineEditor` maps the buffer, the
cursor and the history to `LineEditor`, whose steps are the keys: whatever
arrives in pieces, is ignored or is interrupted by a call is a stutter. A key that is
held down is one step that repeats it; it need not type the same each time, as the
second half of a surrogate pair, repeated, completes the pair once and is a
character of its own after that (lines 428-436).

### EnvironmentPool

The objects are environments and functions with their shared pointers: `parent`,
`slots`, `closure`, the pool of the interpreter, the frame pool of each function,
the references the C++ stack keeps, and the temporaries. A step drops and adds
references; what is left is the largest set in which everything is still referred
to (`Survivors`): objects in a circle stay, as with `shared_ptr`. Reuse goes by
the test the code makes, `use_count() == 1`. Programs are any sequence of blocks,
calls, declarations, copies, returns and errors.

### Grammar, Parser, Resolver, Interpreter, Chompo

Trees of the language are records. `Parser` is a recursive descent over tokens
with one operator, `Parsed(p, rule)`, for all the rules, as they call each other;
`Resolver` annotates occurrences of names with depth and slot; `Interpreter` is
the walk `Walk(e, s)` over a state `s` of environments, arrays, maps, output,
error and depth. An environment is never reused here: that reuse cannot be seen
is what `EnvironmentPool` shows. `Chompo` is `main`: a step parses, resolves, or
executes the next statement of the top level. `Grammar` says independently how a
tree is written, which trees can be read back, where jumps may stand and what a
name means without slots.

### IOManager

A stream is a path, a position and a buffer with a bound; a write may fail. The
standard input is a pipe that somebody writes to, with the buffer of `std::cin`
in between; a read blocks, and more arrives. Actions are the calls of
`io_builtins.cpp`, `print` by character, and the destructor at the end of the
program. `iostream` opens its files one after the other (`OpenInput`, `OpenOutput`),
each of which may be refused; the second is emptied by being opened, so what a refusal
leaves on the disk depends on the order.

## 3. Runs

| Run | Bounds | Shows |
|---|---|---|
| Channel | 2 passwords, 2 salts, counters to 2, 2 lines per direction, 1 prefix, 1 text | `NonceNeverReused`, `OpenedInOrder`, `SessionIsProved`, `CutStreamHasNoSession`, `CallsReturn` and the refinement `ImplementsLink`, over two handshakes on one socket |
| Progress | counters to 4, 1 salt | `HandshakeCompletes`, `EverythingIsOpened` |
| Step | 1 salt, 1 line per direction | finding: a handshake step retries its write for up to 2000 ms, where `secure_channel.h:33-35` promises one attempt |
| Sockets | 1 connection at a time, 3 handles, 3 bytes in chunks of 2, lines to 2, sends to 2 into a buffer of 1 | `BytesAccounted`, `LinesAsSent`, `SendAllCounts`, `HandlesAreNotReused`, the refinement `ImplementsLineStream` |
| Loop | 2 connections, 3 handles, 2 bytes each | `EveryLineComesOut`: every terminated line of two clients leaves the line buffer |
| Chat | 3 connections, 3 names, 2 rooms, 5 lines, 2 pending, deadline 1 turn | `OneAdmin`, `NamesAreFree`, `ConnectionsAreKept`, `BroadcastReaches`, `RoleReachesAdmin`, `PendingExpires` |
| Survives | 2 connections, 2 names | finding: a promoted client that is dead ends the server |
| Editor | 8 kinds of bytes, 8 keys, repeats to 2, 4 bytes of input, 1 line of history, 3 columns | `WholeCharacters`, `ScreenIsCurrent`, `HiddenInput`, `ModeRestored`, the refinement `ImplementsLineEditor` |
| Pool | 4 environments, 2 functions, pools of 1, depth 2 | `TypeOK`, `NothingDangles`, `CachedIsUnused`, `ScopeRestored`, `ClosuresKeepTheirScope` |
| Programs | 22,025 programs, call depth 3 | `ParsedAsWritten`, `JumpsArePlaced`, `MeaningKept`, `CallsUnwind`, `ArraysAreTrees`, `CallsAreLimited` |
| Stale | 4,096 programs with arrays | finding: `a[1] = pop(a)` writes past the end of the array |
| IO | 1 path, output buffer of 1, files to 2, 2 bytes sent | `FlushedIsWritten`, `StandardLinesInOrder`, `SwitchesLoseNothing` |

Why the bounds are enough.

- A stale line of the channel needs an old handshake and a new one: two salts.
  AUTH and READY use counter 0, so application lines use the next ones and
  exhaustion is reached soon; exhaustion is one comparison, which a small maximum
  exercises as well as 2^64 - 1. `Cap` 1 makes writes block at once, 2 lets a line
  be queued behind another. A partial write has two stages (`part`, and `body`:
  all but the newline), the only ones a reader can tell apart. One password is
  right, one wrong.
- A chunk of 2 may split a line, end between CR and LF, hold two newlines, or pass
  the limit. A send of 2 into a buffer of 1 takes several rounds. Three handles
  are a listener, a connection, and either again.
- With three named clients a broadcast can remove the admin, promote a second one
  and remove that one while the first broadcast is still under way. The five lines
  name everybody and leave two for commands.
- Four bytes of input hold two characters of two bytes, or a surrogate pair; with a
  window of 3 columns and a prompt of 1 the line is wider than the window. A pair
  and a lone half beside it take 7 bytes, which the proofs cover. A tab fills the four
bytes alone, and is moved over by Left and by Up and the end of a line.
- Pools of one are full and empty in turn; two functions can capture each other;
  one path shows every switch, to itself included.
- The programs are expressions of two levels of operators, one of each kind;
  scopes with one variable and one function name; sequences of three statements
  over shared arrays, maps, strings and chars; recursion through calls and default
  factories.

`CHECK_DEADLOCK FALSE` everywhere: programs end, both sides may have closed or
crashed, counters may be exhausted, bounds may be reached.

Fairness. `FairSpec` assumes that a call makes its first attempt, that its clock
reaches the deadline, and that `::send` on a dead connection fails; it does not
assume that an attempt after a short one ever succeeds, which is up to the peer.
`GoodSpec` assumes that programs call step and receive whenever there is something
for them, which the event loops do on every turn, and that a write goes on while
there is room for it: each of those receives takes what has arrived out of the
socket buffer, complete line or not. `LoopSpec` assumes the server keeps running.
Nothing is assumed of the other end of a connection except in `GoodSpec`, where it
is the second program. The other specifications state safety only.

Limits of what some properties say. `EveryLineComesOut` does not say that a client
is served while another sends without pause: the other ends send a bounded number
of bytes in the model, while `drainClient` has no limit of its own.
`BroadcastReaches` excepts a broadcast that removed the admin, because there the
code does skip clients (below). `MeaningKept` leaves out functions that mention a
local name declared only after them, `CallsAreLimited` programs with a default
factory, `ScreenIsCurrent` the cursor before a tab and the width of a line with one,
`FlushedIsWritten` and `SwitchesLoseNothing` an output that `iostream` has opened again
with text on its way, until the output is switched once more: in each of these the code
behaves otherwise, as section 5 says.

## 4. Proofs

Seven modules of the model have proofs; each argument is an inductive invariant, checked
by TLC on the small instance or proved outright, and the theorems follow from it.

### The channel

`SecureChannel_proofs` proves, for all values of the constants that satisfy
`ConstantsAssumption` and `NoneAssumption` (the two endpoints differ, the largest
counter is at least 2, a connection holds at least one line, `None` is no value):

- `InductiveCorrect`: `Spec => []Inductive`
- `TypeCorrect`: `Spec => []TypeOK`
- `NoncesAreUnique`: `Spec => []NonceNeverReused`
- `FramesOpenInOrder`: `Spec => []OpenedInOrder`

The last two are not inductive. That a counter is not used again holds because
the counters of a session *are* the numbers of frames sealed and opened under its
salt, and that must survive the calls that have sealed and not yet committed. So
`Inductive` adds:

- `SaltsInv`: nothing was sealed or opened under a salt not yet drawn;
- `RestInv`: between calls, a session or a client waiting for READY is in step
  with the histories, and a server waiting for KEY has an unused salt;
- `CallInv`: during a call, what the call will store is in step once written; the
  frame being written is the one not yet counted;
- `WireInv`: a sealed frame on its way is in its sender's history at the place
  its counter says, in whatever stage of being written or cut it is;
- `HelloInv`: a HELLO on its way carries a salt that the client has not used, and
  no two carry the same one, so a salt serves one handshake of the client.

The proof of type preservation goes action by action. The proof of the other
conjuncts has one lemma per conjunct and kind of step (a frame is sealed, a frame is
opened, a line is consumed, a write is given up, the connection is reset) and, for
each action, says which of these it is.

The last part of the module goes on from there:

- `TrustedCorrect`: `Spec => []Trusted`
- `SessionsAreProved`: `Spec => []SessionIsProved`
- `CutStreamsHaveNoSession`: `Spec => []CutStreamHasNoSession`
- `ChannelImplementsLink`: `Spec => ImplementsLink`

`Trusted` is `Inductive` with what these need besides:

- `SaltHasOneKey`: the frames both endpoints sealed under a salt have one key. The
  client chooses it with its proof, and the server seals only with the key that
  opened the proof;
- `ProofsAnswered`, `ProofsFirst`: the server seals under a salt only after it has
  opened a proof, and all but an endpoint's first frame is application text;
- `KeysInv`: a session, or one that a call or a handshake will make, has the key of
  the frames its endpoint sealed, and a session counts at least one frame opened;
- `UncutInv`: until the connection is reset, nothing cut stands in the stream of an
  endpoint with a session. A session is made only after the peer has read the line
  that announced its salt (HELLO or KEY), so what was cut before that line has been
  read too (`Announced`), and whatever cuts the stream after it (`send_all` throws,
  the process exits) takes the handshake and the session with it. So begin on a socket that
  still carries the end of an earlier handshake is safe: the piece makes the new
  handshake fail, or is read before it succeeds.

Five steps seal or open; `Steps` gives each its name (`Proves`, `Answers`, `Accepts`,
`Says`, `Hears`), and `LinkStep` maps each to the step of `SecureLink` it implements.
`Calm` and `StreamKept` say what all other steps leave alone.

### The network manager

`NetworkManager_proofs` proves, from `ConstantsAssumption`, for any number of
connections, handles and bytes and any sizes of the buffers:

- `InductiveCorrect`: `Spec => []Inductive`, and `TypeCorrect`: `Spec => []TypeOK`
- `BytesCorrect`: `Spec => []BytesAccounted`
- `SendAllCorrect`: `Spec => []SendAllCounts`
- `HandlesCorrect`: `Spec => HandlesAreNotReused`
- `WholeCorrect`: `Spec => []Whole`, and `LinesCorrect`: `Spec => []LinesAsSent`
- `ManagerImplementsLineStream`: `Spec => ImplementsLineStream`

`BytesAccounted` speaks of the streams there are; a stream comes from a connection
that may have carried bytes before anybody accepted it, and two streams on one
connection would take each other's bytes. So `Inductive` adds `NoByteLost`, which
accounts for the bytes of connections nobody has accepted as well, and `OneOwner`:
a connection is that of one handle, or waits once in the accept queue. `Counted`
says what the two counters of `netSendAll` mean while it runs, and that the handle
of the call in progress is in use; `GivenOut`, that every handle in use is below
`next_handle`.

The steps share few lemmas: `Took` and `Came` (bytes move from the line buffer to
the program, from the kernel to the line buffer), `ReadsKeeps` (whatever only moves
bytes of one stream is right), `ResettledKeeps` (handles come and go),
`FarKeeps` (the other end sends, closes, resets) and `OnlyTheCall`.

That the lines are right needs to know where they start. `Whole` adds `LineStarts`:
what was taken of a connection ends with a newline, unless `receive` was used or the
end was reached and the line buffer is empty; while `receive_line` is between two
system calls there is no newline in the line buffer, so that the first one it finds is
the first there is; the end is noted only when the other end has closed; and of a
connection nobody accepted nothing was taken. `Fed` is a recursive function over the
bytes: `FedFacts` says that it is the last of a sequence of readers, each fed the next
byte, `ReadersAgree` that two such sequences agree as far as the bytes do, and from
these `FedAppend` and `FedPlain` follow (one more byte; more bytes without a newline),
by the induction of `Recursion`. Reading is then one of four kinds of step, `ReadsLine`,
`ReadsRest`, `ReadsBytes` and `ReadsNothing`, whatever was in the line buffer and
however many chunks were read; `StepKinds` gives each step its kind, and each kind is a
step of `LineStream` (`LineTaken`, `RestTaken`, `BytesTaken`, `NothingTaken`).

`NetworkEventLoop_proofs` proves of the chat server's main loop:

- `LoopInvCorrect`: `LoopSpec => []LoopInv`
- `LoopBytesCorrect`: `LoopSpec => []BytesAccounted`
- `LoopLinesCorrect`: `LoopSpec => []LinesAsSent`
- `LoopHandlesCorrect`: `LoopSpec => HandlesAreNotReused`
- `LoopImplementsLineStream`: `LoopSpec => ImplementsLineStream`

The loop is not a program that `NetworkManager`'s `Next` covers: after a line, an
error or a command of the console it closes any number of handles in one step. So
`Closes` says what that is for any set of handles (`ClosesStep`, `ClosingKeeps`), and
`LoopSteps` that every step of the loop is one of the sockets or such a removal. A
removal between two system calls of a `receive_line` would pull its handle away;
`Drains` says that there is none: no call is in progress but the one `drainClient`
waits for, it is on the client being drained, that client is there, and what
`drainClient` looks at is what its own call returned.

### Environments and their reuse

`EnvironmentPool_proofs` proves, from `PoolAssumption`, for any number of
environments and functions, any limits of the pools and of the depth:

- `PoolInductive`: `Spec => []PoolCorrect`
- `PoolTypeCorrect`: `Spec => []TypeOK`
- `ScopesAreRestored`: `Spec => []ScopeRestored`
- `NoDanglingPointer`: `Spec => []NothingDangles`
- `PooledAreUnused`: `Spec => []CachedIsUnused`
- `ClosuresAreKept`: `Spec => ClosuresKeepTheirScope`

`PoolCorrect` is the conjunction of types, `ScopeRestored`, `NothingDangles`,
`CachedIsUnused` and `GlobalsStay` (no activation takes the global environment).
None of the four is inductive alone: an environment is taken from a pool only
because it is unused there, it goes into one only because `use_count() == 1` says
that nothing else refers to it, and that count is right only as long as nothing
dangles. The two facts that carry the proof are that what survives a step has all
it refers to surviving with it (`SurvivorsFacts`), and that the scopes around a
function that lives contain nothing that is taken from a pool or put into one
(`ChainAvoids`). The lemma of each step names what it takes, adds and gives up.

### The chat server

`ChatServer_proofs` proves, from `ChatServerAssumption`, for any number of
connections, names, rooms and lines, in both modes:

- `InductiveCorrect`: `Spec => []Inductive`, and `TypeCorrect`: `Spec => []TypeOK`
- `AdminCorrect`: `Spec => []OneAdmin`
- `NamesCorrect`: `Spec => []NamesAreFree`
- `ConnectionsCorrect`: `Spec => []ConnectionsAreKept`
- `BroadcastCorrect`: `Spec => []BroadcastReaches`
- `RoleCorrect`: `Spec => []RoleReachesAdmin`
- `PendingCorrect`: `Spec => []PendingExpires`

The properties speak of the arrays when no call is in progress, or of the call on
top; the invariant has to speak of the whole stack. Its parts:

- `Connected`, `Apart`, `DrainsClients`: every connection is in one array, once,
  and handles were given out before;
- `Distinguished`: names and admins are unique, and an admin has a name;
- `Promised`: while anyone is named there is an admin, or a promotion is still to
  come somewhere on the stack;
- `Ordered`: above a promotion, or a "ROLE admin" not yet sent, there are only
  lines, broadcasts and promotions: nothing whose failure drops the rest of the
  stack, so that the promise is kept, and nothing that removes a client without a
  name, so that indices stay;
- `RolesPointed`: those before the promoted client have no name, so that no
  broadcast can remove them, and the index is still that client's, or the client is
  gone;
- `BroadcastsSpoken`: a broadcast was heard by those before its index and by none
  from its index on; one that is interrupted has not begun, or has removed the
  admin. So the exception in `BroadcastReaches` is the only one;
- `BannedGo`: a banned client is removed next, but for its last line;
- `Stepped`: the handshakes before the loop's index were looked at in this turn.

There is a lemma for each kind of step. The handlers of lines share one,
`Enters`: a handler is right when it leaves the arrays in order and pushes only
calls that leave no index and no promotion behind (`Handled`).

### The I/O manager

`IOManager_proofs` proves, from `IOAssumption` and `NoneAssumption`, for any number
of files, any texts and sizes of the buffers, and writes that fail at any point:

- `InductiveCorrect`: `Spec => []Inductive`
- `FlushCorrect`: `Spec => []FlushedIsWritten`
- `StandardInputCorrect`: `Spec => []StandardLinesInOrder`
- `SwitchCorrect`: `Spec => SwitchesLoseNothing`

`FlushedIsWritten` speaks of the moment after a flush. What holds all the time is
`StreamsInOrder`: what a file ought to hold is what it holds and then what is in the
buffer of its stream, and the stream is at the end of the file, for the standard
output (also while output goes to a file) and for the file that was opened last,
unless a stream has failed. Letting an output go is two writes of which nobody asks
the result (`Detached`); `DetachesTo` says what they can do to any set of files, as
`set_output` lets go before it opens and `set_streams` after. That `iostream` to the
present output in mode "create" is refused, and in mode "append" harmless, comes out
of the proof: only "rewrite" with text on its way is left out by `leftover`.
`SwitchesLoseNothing` is about the old output and the files at a switch: `OldIsWritten`
says that what `Detached` leaves is what was expected, when no write failed and the
opens before it left the old file alone, and `OpenedFilesFacts` that the two opens of
`iostream` change nothing unless both succeed, for which their order is needed.
`ReadsReport` (a read that waits was not refused) excludes all other steps.

### The terminal

`TerminalEditor_proofs` proves, from `TerminalAssumption` (a limit on the history of
at least one line; no key is the name of a byte inside a character), for any bytes
and keys, any limits, any width of the window and any prompts:

- `TerminalInvariant`: `Spec => []TerminalInv`
- `TerminalModeRestored`: `Spec => []ModeRestored`
- `TerminalHiddenInput`: `Spec => []HiddenInput`
- `TerminalScreenIsCurrent`: `Spec => []ScreenIsCurrent`
- `TerminalWholeCharacters`: `Spec => []WholeCharacters`
- `TerminalImplementsLineEditor`: `Spec => ImplementsLineEditor`

`TerminalInv` has three parts. `ModesOf` is `ModeRestored` with the modes `open`
remembered: while the terminal is interactive they are those it was found in, which is
why `close` puts the right ones back; `ModesAfterOpen` goes through the answers of the
terminal, the refusal of the second mode included. `EchoOf` ties the echo to the call
in progress, in both directions. And `Core`:

- `Sound`: the cursor is in the line, the place in the history exists, and the
  screen holds either no line or exactly what `Drawn` says of the present state, so
  that no operation may change the line, the prompt or the echo without drawing;
- `WholeText`: the entries of the line are whole characters, the line is within the
  limit, and so is every line of the history, which is where a recalled line comes
  from;
- `Unfinished`: the bytes held back are the beginning of a character, so that one
  more byte completes or prolongs it.

The helpers of the model are recursive functions (`range_width`, `split_utf8`,
`joined`, `KeyTimes`). They are reasoned about by induction over the natural numbers
in first-order form, in the module `Recursion`: `LeastExists` (from the well-founded
order of the library) gives `Induction` for sets, and `RecursiveFunction` and
`RecursionUnique` for functions that are defined step by step. On
these rest the sums of widths (`TotalFacts`; `TotalAgrees`: two ways to measure agree on
a stretch where they agree on each unit, so what is written is what is counted where no
tab is), the window (`DrawnFacts`: there is always a start from which the text up to
the cursor fits, and the cursor is inside), `Joins` and
`SplitsFrom` (joining units and splitting the text again loses nothing, and gives
whole characters back if the text was made of them: `Whole`), and `OneMore` and
`OneLess`, a unit put in and taken out.

What bytes and keys do is reduced to eight relations between a line and the next
(`Still`, `Types`, `ErasesBefore`, ...; `Acts` combines all but `Enters`). For a held
key, `Holds` relates all the lines in between, and `Spliced` says that any number of
insertions, or of erasures, or of moves is one change next to the cursor. That is
what `LineEditor` promises, and how the proof found that one of its actions promised
too much: `Type` once said that a held key types the same character each time.

### Only model-checked

- Liveness and fairness (`CallsReturn`, `HandshakeCompletes`,
  `EverythingIsOpened`, `EveryLineComesOut`) are out of the prover's reach.
- `Parser`, `Resolver` and `Interpreter` are recursive operators, and what they
  compute for every program is an induction over trees.
- What the loop does with its array of clients: removing is `SelectSeq`, of which the
  prover has no definition. That the loop comes round to every client is part of
  `EveryLineComesOut`.

## 5. Where code and documents disagree, and other observations

Three runs look for a violation and find it:

- `Step`: `step_client_handshake` and `step_server_handshake` write with a timeout
  of 2000 ms (`secure_channel.cpp:641`), where `secure_channel.h:33-35` says they do
  not block for more than one attempt.
- `Survives`: `promoteFirstAdmin` sends to `clients[index]` after an announcement
  that may have removed that client (`chat_server.chmp:288`). When it was the last
  of the array the index is out of range and the server ends, where `README.md:187`
  lists graceful handling of disconnects.
- `Stale`: `a[1] = pop(a)` writes past the end of the array
  (`interpreter.cpp:1001`): the index was checked before the right side ran. `docs/wiki/Arrays-and-Strings.md:36`
  says an index is in range.

What the models show besides, without a run of its own:

- `promoteFirstAdmin`: when the promoted client is removed by its own announcement
  and another follows in the array, "ROLE admin" goes to that one.
- `broadcastRoom`, `broadcastAll`: a broadcast that removes the admin may skip a
  client, as the announcement of the next admin may remove clients before the
  index. No other broadcast does, which is proved.
- `cmdJoin` reads `roles[index]` after a broadcast (line 592): the announcement may
  carry another client's role, or the index is out of range.
- In plaintext mode `sendChatLine` is true whatever `netSendAll` returns (line
  197), so nobody is removed by a send, and the dead are found when they are read.
- "drainClient removes the client on failure" (line 1127): it does not when a
  handler returns false without removing it, as `sendPrivate` does; the same client
  is then drained again.
- `NetworkManager::receive_line` keeps the bytes of a line it refuses, and the next
  call returns that line when its end is there, longer than the limit that
  `docs/wiki/Network-API.md:81` states.
- A tab is put into the line as four spaces (`terminal_manager.cpp:417`, 522) and
  written as four columns (278), but `unit_width` decodes it as one character of four
  bytes, which is wide: two columns (93-97, 160-168). After Home, or Left over a tab,
  the cursor is moved back two columns too few per tab (280-282), and a line with tabs
  may be wider than the window it was cut for.
- `iostream` in mode "rewrite" with the path of the present output empties the file
  first and lets the old stream write what it still has afterwards
  (`io_manager.cpp:214-218`): text printed before the switch stands in the new file,
  where what is printed next overwrites it. `ostream` lets go first.
- `inputPoll` looks at the descriptor only, and may say "wait" while the buffer of
  `std::cin` holds a line.
- A map's default factory is called past the guard of the depth that
  `docs/wiki/Functions-and-Scopes.md:78` describes.
- A cycle through a map is accepted; `docs/wiki/Arrays-and-Strings.md:68` forbids
  indirect cycles.
- A function that mentions a local name declared after it gets the global one.
- `c += 0` fails for a char of 200, as `char` is signed on the usual platforms;
  `docs/wiki/Types-and-Operators.md:99` says 0 to 255.
- In mode "create" a file is checked for and opened in two steps.

## 6. Not modelled, and why

- The chat client: its calls are modelled (its half of the channel, its terminal),
  its own loops are not.
- The lexer and the AST printer: one pass over their input, no state afterwards,
  nothing that happens in between.
- The system built-ins, titles and styles of the terminal, name resolution, socket
  options, the command line: calls of the operating system with nothing decided
  about them here.
- Doubles, and integers near 64 bits: arithmetic of single expressions. Additions
  overflow without a check, which is undefined in C++.
- The Windows console branch of `standard_line_ready`. The terminal's Windows keys
  are modelled.
- What chat lines say, histories and statuses of the chat, texts of errors.

## 7. Running

    tlc -config MCChat.cfg MCChatServer.tla      (any cfg, with its module in PROJECT.json)
    tlapm ChatServer_proofs.tla
