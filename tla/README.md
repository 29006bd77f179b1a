# Verification of the C-Socket-API chat and game hub

The repository is a small Windows socket library in C-style C++ (`src/Socket`),
with which a *hub* (`src/ServerTest/server.cpp`) keeps a list of logged users,
pairs two of them at an invitation and relays game data between them. This
project models the hub, a client's process with its two threads, what goes over
the wire between them, and the whole they make, in TLA+; it checks the models
with TLC and proves their safety properties with TLAPS.

## 1. The system

| part | source | state | operations |
|---|---|---|---|
| user list | `CreateServer.cpp` 57-201, 412-434, `SockMacros.h` 89-106 | `g_UserList`, a cstl vector of `User` | `MakeUser`, `ConnectUser`, `DisConnectUser`, `TransferData`, `GetAllUsers`, `GetRequestedUser` |
| dispatch and framing | `CreateServer.cpp` 203-255, `CommonFunctions.cpp` 3-111 | the hub's receive and content buffers | the five requests as bytes, `ProcessMsg`, one handler per request code, `SockProc` for the rest |
| server loop | `CreateServer.cpp` 257-409 | `fd_A`, `fdsr`, `client_addr`, the listening socket | select, recv, accept, close |
| sender thread | `CreateClient.cpp` 27-142 | the shared `ClientOpt`: `buffer`, `data_len`, `pending`, `runonce` | connect, busy wait, send, clear `pending`, delete the buffer |
| client session | `CommonFunctions.cpp` 28-111 | the same `ClientOpt`, from the application's side | `Login`, `ExitGame`, `GetUserList`, `ConnectUser`, `SendData` |
| client process | `CreateClient.cpp` 7-25, `CreateServer.cpp` 257-409 | the listener's sockets; Winsock's reference count, shared with the sender thread | `StartClient`; start, accept, show an answer, end |
| `SendInfo` | `CommonFunctions.cpp` 113-130 | a `ClientOpt` on the stack | one message to one listener |
| game layer | `tcNetwork/tcNetwork.cpp` | a static packet, a configuration file | wrappers of `SendData`, `fgetstr`, `login` |
| test programs | `client.cpp`, `server.cpp` | none | command loops, `SockProc` |

How the parts interact. A client connects to the hub and only ever *sends* on
that connection. The hub answers and relays by opening a new connection to the
listener a client runs (the same `CreateServer`, at the port it announced at
login): `SendInfo` creates a sender thread for one message and waits for it.
The hub has one thread, so its handlers never interleave with each other; what
interleaves is the hub's loop with its clients and the network, and, in each
process, an application (or hub) thread with a sender thread that share a
`ClientOpt` without a lock. In a client's process the listener and the sender
also share Winsock, which `WSACleanup` shuts down for both.

What is hard. The one `client_addr` of the loop is read long after it was
written; the vector copies its elements with a copy function that loses two
fields, at one login in many; entries are found by name and by address although
neither is unique; invitations and exits write two entries at once and are
never asked about; TCP joins and cuts requests, also inside a name, and the handlers take
what is left for a whole name; slots are freed and filled while
a snapshot of them is being walked; the failure paths of accept, of the sender
thread, of thread creation and of `WSAStartup` leave shared state behind; buffers
keep the bytes of earlier messages behind the end of the present one; every
answer has a connection of its own, and the listener that takes them has few slots
and no order but that of the slots.

What makes each part right:

* the list: identities never change; whoever was paired has a listed, paired
  opposite; an address recorded for an opposite is one other user's, whole or
  blank; data is relayed for playing users only, and inside the pair; a paired
  user can always leave;
* the framing: what a handler reads is the fields of one request, or a cut of
  them, and never of two; whole requests are read back as they were made; nothing
  but a tag, or the digits of a code in a name, port or text, is taken for a tag;
* the loop: no live connection is lost, no read blocks, every client is served,
  requests are handled in order and at most once;
* the session: a request that returned 0 leaves whole, once and in order, unless
  the thread ends;
* `SendInfo`: the content leaves unchanged and at most once, before its `SendData`
  may write a buffer that is deleted; no thread outlives the stack frame it was
  given, and the call comes back;
* the client's process: answers are shown in the order they were sent, each once;
  the listener is not ended by a burst of answers nor by the other thread's end;
* the whole: data reaches only who was invited, or whose name begins that of
  somebody who was, in order; and only requests that can be told by their history
  bring the hub down.

## 2. Modules

| module | models | run(s) |
|---|---|---|
| `UserTable` | the list and every handler of `DispatchMsg`; the vector's growth | `user_list`, `opposite_info` |
| `PairingLedger` | what the handlers promise, without list, storage and addresses | `user_list` (implemented by `UserTable`) |
| `HubServer` | the loop, the sockets, the clients' streams; extends `UserTable` | `hub_loop`, `hub_dispatch`, `reply_to_requester`, `runs_forever`, `failed_accept` |
| `Framing` | the requests byte by byte, `ProcessMsg`, the handlers' reading of their fields | `framing` |
| `Answers` | the hub's answers byte by byte, through the listener's split and `SockProc`'s; extends `Framing` | `framing` |
| `CreateClient` | the sender thread | through the next two |
| `ClientSession` | the application thread of a client; extends `CreateClient` | `session` |
| `OneSlotChannel` | what a session promises | `session` (implemented by `ClientSession`) |
| `SendInfo` | `SendInfo` and its thread; extends `CreateClient` | `send_info` |
| `Winsock` | the count of `WSAStartup` and `WSACleanup` that the threads of a process share | `client_process` |
| `Listener` | a client's process with the hub that answers it; extends `HubServer` and `Winsock` | `client_process` |
| `Mailbox` | what a listener promises | `client_process` (implemented by `Listener`) |
| `ChatSystem` | the hub with scripted clients and their listeners; extends `HubServer` | `chat_system` |
| `UserTableProofs` | theorems about `UserTable` and its ledger | |
| `HubServerProofs`, `ChatSystemProofs` | theorems about `HubServer` and `ChatSystem` | |
| `ClientSessionProofs`, `SendInfoProofs` | theorems about the two users of `CreateClient` | |
| `FramingProofs` | theorems about `Framing` and `Answers` | |
| `ListenerProofs`, `MailboxProofs` | theorems about `Winsock` and a client's process | |
| `MC*` | instances for TLC | |

A module `X` extends what it is made of: `UserTable` <- `HubServer` <- `ChatSystem`
and `Listener`; `CreateClient` <- `ClientSession` and `SendInfo`; `Framing` <-
`Answers`. `ChatSystem` does not take the sessions and listeners apart again: it
uses what their abstract specifications promise.

### UserTable

`g_UserList` is a sequence of records with the fields of `User`; `capacity` is
what the vector has storage for; `sent` is the `SendInfo` call of the last
handler; `running` becomes FALSE when a handler dereferences NULL or an iterator
that was never assigned (the debug build stops there). One action is one handler
from the switch to its `break`, including the vector's move when a login finds
it full: `VectorPushBack` applies `CopyUser`, which is `_user_copy` with its two
self-assignments, to every entry. The first growth and the growth rule are those
of the library the repository links (`reserve(size + 1 + max((size + 1) / 2, 16))`);
the 16 is the constant `Slack`. An empty name (a request without `:`) is
`NoName`; logins with an empty name are not modelled. Addresses are hosts and
ports; the lengths of strings and the fixed buffers are not modelled.

### HubServer

A pass of the loop is `Select`, then one `Recv` or `RecvClosed` per reported
slot, in slot order, then `Accept`, `AcceptFails`, `AcceptFull` or `Again`. A
handler is dispatched with the current `client_addr`, as in the code. `stream`
holds what a client sent, in pieces: the tag with its `|||`, a beginning of the name,
its rest, a beginning of the second field, its rest, and the NUL. `Recv` takes any
non-empty prefix; `Readings` is `ProcessMsg` and the handlers' reading up to the first
NUL, so of joined requests only the first is handled. A field that ends with the chunk
was cut, and is read as one of the names that begin it (`NameCuts`), as a port read off
its beginning (`PortCuts`), as any data, or, for a second field, as nothing; the handler
takes it for a whole one. A chunk that starts inside a request goes to `SockProc`, unless
it starts at a name, port or text with the digits of a request's code (`CodeWords`) and
has a `|||` behind it, of the next request or of a text (`BarTexts`): then any handler may
run on any fields (`Strays`). So every cut the handlers can tell apart is there; those
inside a tag have the same effect as the ones before and behind it, and empty names are
left out as in `UserTable`. The cuts byte by byte are `Framing`'s.
A handler's `SendInfo` is one step here: that it comes back is what
`SendInfo` shows, except when its thread could not be created. The application's
`SockProc` is assumed to be set. Failures of `socket`, `bind` and `listen` end
the process before the loop and are left out here (`Listener` has them).
`Stopped` closes everything, as lines 398-404 do.

### Framing and Answers

`Make` writes one of the five requests as `CommonFunctions.cpp` does, with `itoa`
of the code, `|||`, the fields and the NUL that `data_len` counts. `Recv` takes
any prefix of what was made and not yet received, puts it into the content buffer
without clearing it, and runs `ProcessMsg` and the handler's reading on it with
the indices of the code: the loop that looks for `:` tests the byte before the
length. `did` is what the handlers did. `Answers` adds the opposite direction: the
three texts `SendInfo` is given, split once by the listener's `DispatchMsg` and
once by `SockProc` of `client.cpp`, which is given the number of bytes received
and not the length of its text. Characters are single TLA+ strings, because what
the module is about is where they stand; `Char` is their set.

`Atoi` skips blanks and a plus, as `atoi` does; the value after a minus is no request's.
What `SendInfo` sends when it is given a negative length is external (`Sent`): without a
`:` `TransferData` gives it the stale bytes behind the NUL and the length -1 (lines
146-157), and nothing leaves only because `send` fails on such a length.

Which names and texts there are. A name or port holds no separator and no NUL, a
text no NUL, since they are C strings and the handlers search them
(`FramingAssumption`); nothing else is left out. A user called `1004`, a port `1004` or a
text `1004|||k` makes the hub run a handler on what follows the digits when `recv` begins
a message at them, and then one request may be handled twice. No document says what a
name or a text may hold, so that this is a limit of the protocol and not a finding:
`TagIsOfRequest`, `EachRequestOnce` and `FieldsOfOneRequest` say exactly how far it goes.

### CreateClient, ClientSession, SendInfo

One step is one access to the shared `ClientOpt` or one call of the socket
library. The accesses are taken in program order, which is true of the Debug
configurations. `Socket.vcxproj` has a Release configuration with `MaxSpeed`, but as an
application without cstl's library, which does not make the library the programs link;
an optimised build might read `pending` once, before the busy wait, and the session would
not be live. The buffer is a whole message or `Garbage` (while it is being
written), and `data_len` is named by the message it is the length of, so that a
message sent with the length of another is visible. A failed step of the thread
leaves `pending` set and the buffer allocated, as in the code. `SendInfo`'s `SendData`
may write the buffer after the thread deleted it: the step then goes unnoticed or
ends the process (`AfterWrite`). Its `Return` waits for the thread and leaves the
thread's state as it is; only the next call reuses the stack. The busy
requests of `ClientSession` are the calls whose guard is false: they change
nothing.

### Winsock and Listener

`Winsock` is the reference count alone: a thread is new, holds Winsock or is over;
`StartupFails` calls `WSACleanup` although it has no reference, as
`CreateClient.cpp` 39-40 and the same lines of `CreateServer` do.

`Listener` runs the loop of `HubServer` as the listener of a client: a "client" of
that loop is one connection from the hub, and connection `k` carries the `k`-th
answer, an untagged piece that goes to `SockProc` (`ShowAnswer`). Before the loop
comes `CreateServer`'s preparation with its ends; beside it the sender thread,
whose beginning and end may shut Winsock down (`IfShutDown`: every socket of the
process is closed). The hub connects, sends and closes for one answer after the
other; a connect that finds nobody listening or a full backlog loses the answer,
as `SendInfo` does not try again. `wire` is what left the hub and has not arrived;
it keeps its order within a connection, and across connections unless `delayed`.
When the loop is left only the sockets in `fd_A` are closed: the listening socket
stays as long as the sender holds Winsock (`LoopEnds`).

### ChatSystem

Each client makes the requests of its script in order, over the streams of
`HubServer`, and may connect at any time. `mail` is what the hub's relays put into
the mailbox at the address they go to. The rest is history: `invited`, by whom, of whom
and whom the hub took for it; `logged`, whose login was handled, and `known`, whose was
handled with its whole name; `whole`, whether the last request was; `misplaced`, whether a
login was recorded at another client's address (finding `reply_to_requester`, or a port
that was cut to another's); `strayed`, whether a handler ran on bytes behind a tag. A
history is `Clean` when neither of the last two happened. (What runs on a text can be any
request in anybody's name, and a login at another's address takes its data, so that nothing
can be said of privacy after either.) `Fatal` names the requests that
can bring the hub down in terms of that history alone. `Asked(c, d)` says that `c` invited
`d`, or somebody whose name begins with that of `d`: this much, and no less, is what
privacy comes to when `recv` may cut a name.

## 3. Runs, bounds and results

* `user_list`: three names, two hosts, two ports, four logins, `Slack` 1 (so
  that the third login moves the list, with earlier pairs in it); 289 thousand
  states. Four entries are enough for two pairs, for a name logged in twice beside
  a pair, and for a third party. Names, hosts and ports are interchangeable:
  symmetry. The refinement mapping to the ledger reads the pairs off the list; it
  promises its pairs while names are distinct, and a relay's destination is mapped
  to the users at the address it goes to.
* `hub_loop`: three clients for two slots, one request each (an exit by a user
  that is not listed, so that the list stays out of the way), two of the clients
  close or reset at any moment, also in the backlog. Safety and liveness.
* `hub_dispatch`: two clients for one slot, two requests each, names and ports that
  begin one another, every cut and join of the pieces; one of the clients may leave at
  any moment, so that the slot is used again, and a connection too many stops the hub.
  1.4 million states. (List requests are in `chat_system`.)
* `framing`: two requests of every kind, of a client whose port is the code of a
  request, with one text that is `+1005|||k:` (a code behind a sign, with bars of its own)
  and one that begins with its bars; every cut and join of their bytes, buffers of 22
  bytes (one message may be longer than a request, and none overflows); on the other side
  two answers, among them relayed texts that leave separators and result codes behind in
  the listener's buffer. 96 thousand states. Two messages are what it takes for one to be
  completed with another's bytes, or for the second to begin inside the first's text.
* `session`: two messages, four requests that return 0. Fairness below.
* `send_info`: three calls in a row, two contents. 1.7 thousand states.
* `client_process`: three answers for two slots, a backlog of two, a network that
  keeps order and one that does not, the sender beginning and ending at any moment,
  one failed `WSAStartup` in either thread. 51 thousand states. Three answers are one
  more than the slots; `ListenerNeverEnds` is the same for every number.
* `chat_system`: nine scenarios of three clients with up to four requests each: a
  pair with a third client that only connects, a second login of either side, an
  exit of the guest and one of a stranger, an invitation repeated, an invitation whose
  guest's name begins with that of the third client, a text that is a code with bars, and
  two clients that invite the same third, so that a pair is parted by a third party.
  Every order of connects and accepts and every cut of each request that the handlers can
  tell. A client asks again once its last bytes were received (`Window` 0): requests that
  arrive together are `hub_dispatch`'s, and the theorems are for any window. At most two
  clients (in the last scenario, one) have bytes on the way at a time (`MaxBusy`): the hub
  handles one chunk after the other, and who is handled first stays open. 4.6 million
  states.
* `opposite_info`, `reply_to_requester`, `runs_forever`, `failed_accept` each
  show one disagreement between the code and what it says of itself
  (`PROJECT.json`, findings): the opposite's address lost at a move of the
  vector (`CreateServer.cpp` 428-429); answers to the host accepted last (218,
  229, 375); the server ending at a connection too many (389-393); a failed
  accept taken for a socket (376).

What else the models say of the code, stated as properties that hold:

* `UntaggedReachesNoCase`: neither "OK" nor the list of users has the `|||` that
  `SockProc` looks for (`GetAllUsers` writes `10013:`), so `client.cpp` never
  prints what it asked for (25-27).
* `HubFallsOnlyToFatal`: a list request from a host nobody has logged in from, an
  invitation by or of a user who is not listed under its whole name, any invitation or
  exit that is cut, or an exit of somebody never paired may end the hub for everyone; and
  once a name is listed twice, so may an exit of a paired user.
* `DataStaysBetweenInvited`: data may reach a user nobody invited, when its name begins
  that of the guest and `recv` cut the invitation there.
* `OkMeansSent`: the write into the deleted buffer can bring the hub down, but never
  before the message of that call was sent.
* `AnswersShown` and `NeverEnds`: an answer sent before the listener listens is
  lost; every one that could be sent is shown unless the listener ends, and on a
  network that keeps order it ends only after a failed `WSAStartup`.

`CHECK_DEADLOCK FALSE` is set where the system may really stop: the hub goes
down, a client runs out of requests, a call waits on the process handle.

Fairness. `HubServer`: the hub's thread is scheduled (weak fairness of the loop
as a whole; its program counter leaves one step at a time). Clients need not do
anything. `ClientSession`: the sender thread and a call that has begun are
scheduled; the application need not call. `SendInfo`: both threads are
scheduled. `Listener`: the listener's thread and the hub's are scheduled and what
is on its way arrives; the sender need neither begin nor end. Blocking socket
calls return, with success or failure, which the model leaves open at each of
them. `Framing`, `Answers` and `ChatSystem` state no fairness: only safety is
checked there.

## 4. Proofs

Every theorem is for all values of the constants: any sets of names, hosts, ports,
clients, slots and messages, any scripts, and every bound.

`UserTableProofs`:

1. `StepShape`: a handler appends an entry (possibly after a move), connects two
   *different* entries, or leaves the list alone. `AppendShape` and
   `ConnectShape` say what that does to each entry.
2. `TypeCorrect`, `IdentitiesStay` (no entry is renamed, readdressed or
   dropped) follow from the shapes.
3. `PeersRegistered`, `RoutesSound`: each is inductive together with the type
   invariant; a move turns an address to blank, never to a wrong one.
4. `RelaysStayInPair` reads the destination of a relay off `RouteSound`.
5. `PairedExitsSafe` is not inductive: `DisConnectUser` reads the opposite of the
   *first* entry of a name, which need not be the paired one. The strengthening
   `FirstsPaired` says that when any entry of a name (or any entry whose opposite
   has it) was paired, the first entry of that name was; it holds because
   `ConnectUser` stops at the first two hits.
6. `TableImplementsLedger`. The mapping reads the pairs off the
   entries; while names are distinct each name has one entry, so that a pair can be
   followed from name to entry and back. There is one lemma for each way in which a
   handler changes the list (append, connect, disconnect, none), and one for relays.

`HubServerProofs`:

1. `HubTypeCorrect`: the pieces of a stream and the numbers handled are of
   requests that were made.
2. `HubImplementsTable`: each step of the loop is a step of the list or a stutter;
   it needs that an address was accepted before any message is dispatched.
   `HubListSafe` takes the theorems of `UserTableProofs` over to the hub.
3. `HubNobodyForgotten` is not inductive: `Placed` adds that backlog and slots
   hold each client at most once, over both together, and nobody that never
   connected. `HubRecvNeverBlocks` follows from it: what a snapshot reports stays
   readable because no second slot could empty it.
4. `HubInOrderAtMostOnce`: the tag of a request comes after the pieces of all earlier
   ones in the stream, and after what was handled; tags are only taken from the front.

`ChatSystemProofs`: `ChatDataInOrder` from the last, since the mail of a client is
in the order its requests were handled, for any `Window`. `OwnReading` says what a chunk
read under its own tag gives: a field behind a name that was cut is missing. The next two
theorems are about `Clean` histories, with names cut and not, of clients told apart by
name and address (`DistinctClients`, which TLC evaluates for the instance).
`ChatDataPrivate`: an entry at the address of a client has its name, because an entry whose
name was cut has port 0 (`LoginPlaces`), and every recorded opposite is a name the hub took
in an invitation, hence one that begins the guest's. `ChatFallsOnlyToFatal` goes through the
ways a handler can fail; the list requests and invitations need that whoever is known is
listed (`KnownListed`), and the exits that, while names are distinct, whoever the hub took
for inviter or guest has an opposite (`InvitedPaired`), with `PeerRegistered`.

`ClientSessionProofs`:

1. `WireIsTaken` is not inductive: that a message leaves whole depends on who may
   touch the buffer when. `HandOver` strengthens it. `Ownership`: `pending`
   belongs to the application until it raises it and to the sender thread until
   it clears it, and the buffer and its length go with it. `Balance`: a request is
   owed exactly while `pending` is up and not yet sent, and then the buffer holds
   it.
2. `HandOverHolds`, and from it `SessionWireIsTaken` and
   `SessionNoWriteDuringSend`.
3. `SessionImplementsChannel`: under the mapping of `ClientSession`, `RaisePending`
   is `Put`, a successful `send` is `Deliver`, an early end of the thread is
   `Break`, and every other step is a stutter.

`SendInfoProofs`: the invariant `Course` says, for each place of the caller and of
its thread, who has written the buffer and what was sent, and that `SendData` gets past
its test only when the thread has sent; `Rest`, that between two calls the thread is
over, which `Return` finds and does not set; the four safety properties of the run follow.

`ListenerProofs` begins with `WinsockRefsHeld`: `RefsHeld` is inductive with the types;
the work is in the cardinality of the set of holders when a thread enters or leaves it.

`ListenerNeverEnds`, for two slots or more and any number of
answers. On a network that keeps order, and while no `WSAStartup` failed
(`Undisturbed`), the invariant `Calm` holds: at most one connection is open, the one
whose end has not arrived (`Sending`, `Connections`); backlog and slots hold the
connections in the order of their calls, so that one that waits is younger than
every one that has a slot (`Queue`). Hence a pass that finds a connection waiting
finds every slot's connection closed, and so readable; it empties at most one and
frees the others before it accepts (`Passes`), and two slots are never both taken
then. That the sender's end does not shut Winsock down is `RefsHeld`.
`ListenerArrivedFirst` assumes none of this: any network, any number of slots, any
end of either thread. The invariant `Course` says what a connection finds when it is
opened (`History`), where each answer is that has arrived (`Arrivals`: shown, or in
the stream of a connection that waits or has a slot, because the hub's connections
do not end before their answer is in), and that whatever had arrived before another
connection was opened is ahead of it at each place it passes (`Order`): before it in
the backlog, among the readable slots of the pass that accepts it, and shown when it
gets its slot. Slots are reached in their own order, not in that of the connections,
and this is why the property holds of connections and not of answers that arrive
while both have a slot.

`MailboxProofs`: `ListenerImplementsMailbox`. The mapping's queue is `InOrder` of the
answers sent and not yet shown. A set of numbers has one enumeration that ascends
(`OneEnumeration`, by the first place where two of them differ), which is what
`InOrder` returns (`InOrderIs`); a number behind all others goes to its end and the
least one is its head (`InOrderPosts`, `InOrderShows`). The invariant `Delivery` adds to
`Course` that an answer is in one place at a time, on the wire, in its stream or shown
(`Once`); that on a network that keeps order a connection that waits or has a slot was
opened when every earlier answer had arrived (`InLine`), so that `Order` speaks of all of
them; and that the queue ascends (`Sorted`). A posted answer is then behind all others,
what is shown is the least one left, and every other step is a stutter.

`FramingProofs`: the six properties of the run `framing`, for any names, texts,
buffer length and number of requests, however `recv` cuts and joins their bytes.

1. Numbers and rows. What the operators compute by recursion (`FlattenSeq`, `Number`) is
   proved over sets of natural numbers: `Least` and `SetInduction` come from the
   well-foundedness of `<`, and `FlattenIs` and `NumberIs` from them. `NumberOfFour` and
   `TagValue`: of the digits `itoa` writes, `atoi` reads the code back, and from the
   second digit on it reads no code.
   `AtoiAgrees`: the value of a row depends on it up to its first character that is no
   digit, with the blanks and the sign before it.
2. Strings in buffers. `HoldsString(b, P)` says that the buffer begins with `P` and a
   NUL; whatever stands behind it, the handlers read the same fields
   (`FieldsOfString`), although `TransferData` looks at the NUL and `DisConnectUser`
   writes over what is behind it. `ReadBack`: of a whole body they read what the
   request was made of.
3. The stream. Requests follow one another (`RequestsFollow`, `StartsGrow`), each byte is
   of one of them (`ByteOfRequest`), and a `|||` is the end of a tag or lies inside one
   text (`SplitIs`, `TextIsSplit`): never across two requests.
4. A message. `BodyValue`: where `atoi` reads a code in the bytes before a `|||` that is not
   the tag's own, it reads it at the end of a name, a port or a text (`WordFrom`).
   `ChunkHandled`: if a handler runs for the bytes from `a` to `b`, either they have the end
   of a request's tag with no `|||` before it, begin with that tag or at such digits of an
   earlier request, and the fields are those of the request's body, cut where the message
   ends (`AtTag`); or they begin inside a text at such digits, the `|||` is the text's, and
   the fields are those of the rest of the text, cut (`InsideText`).
5. `HandlersFollowRequests`: `Handlings`, which says this of every entry of `did` and that
   their messages do not overlap, is inductive. `SourceIs` finds the request again that
   the properties call the source, and each property follows. `HubSide` carries them over
   to the specification the run checks.
6. `UntaggedAnswersReachNoCase`: `Answered` is inductive; without a `|||` the listener's
   content begins with NUL, and `SockProc` reads no number, wherever a `|||` of an
   earlier answer stands (`NoNumber`).

Assumed: the empty name, host and port differ from the real ones; `Slack` is a
natural number; names, hosts and ports of the clients are among those of the
list, and so are the cuts of their names and ports; `Garbage` is not a message; the answers
of a `Listener` are numbered from 1; names hold no separator and texts no NUL
(`FramingAssumption`); a relayed text does not begin with the tag of a request, which a
client's listener would dispatch to a handler of the hub in its own process
(`AnswersAssumption`). All are checked by TLC in the runs. `DistinctClients` and `MaxListen >= 2` are
hypotheses of the theorems that need them. The session's and `SendInfo`'s arguments
take the accesses in program order, as an unoptimised (Debug) build does.

Only model-checked: liveness (`TakenIsSent`, `SendInfoReturns`, `AnswersShown` and
the hub's three), which these provers do not reach. Every safety property of a passing
run is a theorem.

## 5. Not modelled, and the plan

Not modelled:

* The lengths of strings and fixed-size buffers (`User` fields, the reply of
  `GetAllUsers`, `ClientOpt`): what follows an overflow is undefined, and nothing
  in the repository says how long a list or a name may be. The models keep strings
  within their buffers.
* cstl. The repository has a binary library and the headers to use it, which are by
  far most of its lines; their declarations hold no behaviour. The one function the
  program relies on in a way that matters, how `vector_push_back` moves elements, is
  modelled in `UserTable` from what it does to the registered type.
* The game layer. `tcNetwork.cpp` calls `ConnectUser` with three arguments and
  assigns to the arrays of `ClientOpt`: it does not compile against the present
  headers, so there is no program to model. Its events are wrappers of `SendData`;
  `fgetstr` and the configuration reader belong to it.
* Limits of the operating system: sockets left open after a failed connect, thread
  handles. `StartClient` returns a local array of handles that no caller in the
  repository gets to wait for.
* The sender's early end, as its application sees it: `pending` stays set for ever
  (`CreateClient.cpp` 84). The model has the step; no document says what should happen,
  and `TakenIsSent` leaves the case out.
* Printing and the prompts of the command-line programs.

The plan, in order of importance:

1. (done) `UserTable`, its ledger, its invariants and their proofs.
2. (done) `HubServer` on top of it, and the proofs of its safety.
3. (done) the sender thread with its two users, `ClientSession` and `SendInfo`, and
   their proofs.
4. (done) `Framing` and `Answers`.
5. (done) the client's process: `Winsock`, `Listener`, `Mailbox`.
6. (done) `ChatSystem` and its proofs.
7. (done) the proofs that the listener implements the mailbox and that the bytes are
   read back: `MailboxProofs` and `FramingProofs`.
8. Left: the invariants under the liveness properties, as theorems: what a waiting
   client of the hub, a raised `pending` and an answer on its way wait for in each
   state, and that only the steps with fairness can be what is missing.
