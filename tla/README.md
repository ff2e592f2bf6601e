# bulletHell.io: specification, model checking and proofs

TLA+ modules about the game in this repository (server in `serwer/`, client in
`klient/`, packets in `networking/`), checked with TLC. The safety properties and
the refinements are also proved with TLAPS. Paths below are relative to `src/`; `GameMain.cpp:52` and the like name
the file only where there is one of that name.

## The system

| Part | State it keeps | Operations | Modelled by |
|---|---|---|---|
| `Lobby`, `Queue` (`serwer/src/Lobby`) | the vector of queues, a parallel vector of timers, the vector of match threads | accept, name and color, start a match, send the queue, clear old games | `LobbyQueue`, promise: `LobbyPromise` |
| `GameInfo`, `ClientThread` (`serwer/src/Game`) | clients, their threads, the map `players`, the vector `invalid`, four `std::latch` | a round of four phases per 60th of a second, for the main thread and one thread per player | `GameMain`, promise: `LockStep` |
| Players on the server (`Game/Player`) | position, projectiles | create, update, validate (hit test) | `RemotePlayer`, without the empty slots; a hit is a choice in `GameMain` |
| `ServerSocketHandling` | none | accept, read a header, receive, send | what callers see of it, in `LobbyQueue`, `GameMain`, `GameProtocol`; reading a header, in `PacketCodec` |
| Packets (`networking/src/Packets.h`) | none | sendData, getData | `PacketCodec`, promise: `PacketChannel`; whole messages that may fail in `ClientStages` and `GameProtocol` |
| `GameManager` and its stages (`klient/src/GameManager`) | the stage, reset and change requests, the opponents | frames: input, drawing, then reset or change | `ClientStages` |
| Client sockets | one socket | connect, read a header | `ClientStages`, `PacketCodec` |
| Client movement and projectiles (`klient/src/Player`) | position, speed, 16 projectiles | move, shoot, send the update | `SelfPlayer`, `RemotePlayer` |
| Board, window, drawing; raylib and raygui in `klient/include` | | | not modelled: no logic of the game |

How they interact: a client connects, sends its avatar and waits in the lobby
thread's queues. The lobby thread starts a match as a thread of its own, which
creates one thread per player. These share `GameInfo` without a lock; the four
latches are all that keeps them apart. The match sends updates, `K` (a player is
out) and `W` (you have won). The winner's client closes its connection, and that
ends the match.

What is hard: the threads and the latches that the main thread deletes and
renews while players drop out (`GameMain.cpp:31-57`, `89-92`); the vector
`invalid` that they all append to; removing queues while a loop walks them by
index (`Queue.cpp`); reads whose result is ignored (`ServerSocketHandling.cpp:61`);
what a client makes of messages that arrive while it is in another stage, or all
in one frame after it has stalled (`GameStage1.cpp:53-81`); shots that exist three
times, in the client, in packets on their way and in the server's copy, of which
only the first copy ages (`ClientThread.cpp:13`, `Player.cpp:53-54`); a ring of
slots in which shots expire in any order (`SelfPlayer.cpp:53-60`); packets read field
by field, when a header may be one that was never sent: a byte string inside a packet that
nobody wanted, or what the stack held before (`Packets.h:281-330`,
`ServerSocketHandling.cpp:60-62`).

## Modules

| Module | What it is |
|---|---|
| `GameMain` | one match: main thread, player threads, latches, the racy vector, the ends of connections |
| `LockStep` | the abstract barrier that the latches are meant to be |
| `GameMainProofs` | the inductive invariant of `GameMain` and what follows from it, proved |
| `GameMainRefinement` | the proof that `GameMain` implements `LockStep` |
| `GameMainKills` | two more inductive invariants of `GameMain`, about the entries of `invalid` and the exact size of the latches, proved on top of the first |
| `LobbyQueue` | the lobby thread |
| `LobbyPromise` | what the lobby promises to one connection |
| `LobbyQueueProofs` | the inductive invariant of `LobbyQueue`, what follows from it, and that `LobbyQueue` implements `LobbyPromise` |
| `ClientStages` | the client programs and the two directions of their connections |
| `GameProtocol` | sessions: `ClientStages` with the lobby as one client sees it and one match |
| `GameProtocolProofs` | the inductive invariant of `GameProtocol` and what follows from it, proved |
| `SelfPlayer` | the player a client controls: steering, shooting, the ring of its shots |
| `RemotePlayer` | `SelfPlayer` with its updates, the server's copy of its shots and what the copy hits |
| `RemotePlayerProofs` | the inductive invariant of `RemotePlayer` and what follows from it, proved |
| `PacketCodec` | one direction of a connection, byte by byte: `sendData` and `getData` |
| `PacketChannel` | the promise of the two: whole packets, in their order, to a reader that has not skipped one |
| `PacketCodecProofs` | the inductive invariant of `PacketCodec`, what follows from it, and that `PacketCodec` implements `PacketChannel` |
| `SequenceLemmas` | what the proofs use about sequences: induction, `RemoveAt`, `ToSet`, `FlattenSeq` |
| `MCGameMain`, `MCLobbyQueue`, `MCGameProtocol`, `MCRemotePlayer`, `MCPacketCodec` | symmetry sets, functions that are constants, and the start of the liveness run of the protocol |

### GameMain

One variable per field of `GameInfo`: `latch[1..4]` are the counters of
`recvlatch`, `validationlatch`, `sendlatch` and `cleanlatch`; `clients` stands
for `clients` and `clients_threads`, which hold the same ids; `slots`, `count`
are the storage and the size of `invalid`. `step[p]`, `phase[p]` and `mainStep`,
`mainPhase` are the program counters; `killed` and `expired` are the
`thread_local` variables. `arrive_and_wait` is two steps, the count-down and the
return. The clean-up is one action per entry (`Reap`) between the sending of the
kills and `CheckForExitGame`.

`emplace_back` on the unlocked vector is a data race. It is modelled by its two
halves: the size is read (`Kill`), and later the element and the new size are
written (`EmplaceBack`). If another thread was in between, the entry of either
may be lost or an element left unwritten (`NoPlayer`). Outcomes in which the heap
is corrupted or the program aborts are not modelled.

A peer can be up, closed, or silent (gone without the kernel knowing). A read
from a closed connection leaves the header buffer uninitialised, so it may look
like anything.

The 60 Hz pacing, positions and the killer's id are left out; whether
`validatePlayer` finds a hit is a choice.

### LobbyQueue

`clients` and `timer` are the two parallel vectors; a timer is one number, the time
that passed plus what `TryResetTimer` credited to a full queue, capped just above
`Countdown`, as it is only compared with it. `t` is the int index of the `for`
loop in `RunQueue` and starts at 0 (sequences start at 1, hence `t + 1`). Time
passes only while the thread waits in `poll`: everything else in a pass takes no
noticeable time. When `t` is -1 the code reads memory in front of the vector:
the program crashes, or finds what looks like an empty queue.

An accept that fails still adds a client with socket -1, as the code does.

`Kept(s, K)` is what remains of a vector when all but the elements of `K` are erased
(`DismissClients`, `ClearOldGames`). It is written as a recursive function and not
with `SelectSeq`, so that it can be reasoned about.

### ClientStages and GameProtocol

`stage` is `currentStage`; a frame is the input of the stage and then
`GameManager::run`'s reset and change (`step` says which is next). In the game a
frame reads messages until there is none, one action per message. Frames in
which nothing happens are left out. `down` and `up` are the messages in the
connection, with bounded buffers: sending never blocks, and fails on a full
buffer or a closed connection. SCTP keeps the boundaries of messages, so a client
that reads only the header of an update gets the rest of it as further headers
("trash"). When the server closes a connection, what has not arrived may be lost.

The match in `GameProtocol` is `GameMain` seen through `LockStep`: phases follow
each other, threads take turns within one. That no entry of `invalid` is lost is
an assumption of this module, `GameMain` has the race.

Of the lobby only what one client sees is left: it is accepted, chooses an avatar, gets the
lobby's two messages or is dropped when one cannot be sent, and plays. A match takes any
`StartSize` or more of those that wait, whether or not others still choose; the timer,
the queues and their capacity are in `LobbyQueue`, which is checked against `LobbyPromise`
there. `GameProtocol` allows more starts than the queues do, so what holds here holds
behind them. `place` tells a client that the lobby dropped ("dropped") from one that its
match has removed ("out").

The rest of an update that a client of the queue stage does not want is skipped here
("trash"); that a header may seem to be found in it is the subject of `PacketCodec`.

### SelfPlayer and RemotePlayer

`SelfPlayer` is `SelfPlayer::move`: `pos` and `speed` per axis, `shots` the array of
optional projectiles (an empty slot is outside its domain), `projectileid` the slot
written next, `sinceShot` what the shot timer shows. The code adds the speed, clamps
the sum to the board and adds the speed again (`Steer`); a shot is written over
whatever is in its slot (`Shoot`); then every shot expires, has left the board, or
flies on (`Flown`). `Move` is one frame, `PlayerAges` the passing of time, in
rounds of the server. There may be any number of frames in a round, and of rounds in
a frame.

`RemotePlayer` adds the connection: `up` holds the updates that were sent and not
read, `copy` the projectiles in `GameInfo::players`. One thread of the server is cut
where `LockStep` allows it, into the read of phase 1 (`Receive`) and the rest of the
round (`Rest`, `Remove`). A read finds an update, nothing within 9 ms, the end of the
connection (`HangUp`), or an end of the connection that looks like an update, since
the header buffer is not initialised (`ReadLeftover`): that one is applied, without
shots, and restarts the three seconds. `Hits` is the test of `validatePlayer` for a
shot in the server's copy and a victim anywhere on the board. The age of a shot is a
history: it is not sent, which is why the server cannot know it.

`copy` is the server's. Each opponent draws a copy of its own, which changes when an
update reaches it (`Player.cpp:9-17` of the client), and not at all in rounds in which the
server finds its socket full and takes the update for lost (`ClientThread.cpp:62-63`): a
shot may stay on a screen longer than any bound here. Those copies decide nothing, as hits are
found by the server, and are not modelled. Nor is what `validatePlayer` reads in the empty
slots (`Player.cpp:53-55` of the server): that is undefined.

### PacketCodec

`net` holds the bytes of the messages in the connection, the first one without what
was read of it; a `recv` returns bytes of one message only, as SCTP does. `pc` is the
place in `getData`. A reader that does not want a packet comes back for headers and
reads the rest of it as such (`ReadHeader`). No byte is assumed to be unlike a header, so
it may find one there. `Close` ends the connection and may lose what has not arrived. On a
closed connection without data the server's `GetPacketHeader` returns what its variable
held before (`ReadLeftover`), and `getData` goes on from there with nothing to read.

`start` is a history of where the last header was read: the first byte of a packet, the
middle of one, or no byte at all. It tells apart what the callers cannot: `broken`, that
`getData` returned -1 or 0, is possible in the second and in the third case (both are
reached by the run), and `NoHalfRead` says that it is impossible in the first. `flight` is a
history too, the packets that `net` stands for; with it `PacketChannel` is the abstract side
of the refinement. There a reader that leaves a packet at its header is astray until it is at
the first byte of a packet again (`Wander`), and may take anything meanwhile (`Forged`); all
other readers take what was sent. A leftover header is not in `PacketChannel` at all: that it
takes no packet is part of what the refinement shows.

The count of structures is a signed byte compared with an unsigned loop counter
(`Packets.h:285`): `Signed` keeps that. A vector that is sent has at most `MaxCount < Half`
structures, as matches have at most four players; a count that is read where there is none may
be anything, and the loop does not end at a negative one. `data`
then keeps `Half` structures only. A header has one byte here and not three, a size one and
not two: only their place in the message matters.

## Runs

| Run | Bounds | What it shows |
|---|---|---|
| `match_safety` | 3 players, symmetric | types, the inductive invariant, no overlap of readers and writers of `players`, no latch deleted while in use, latches not below zero, no double entry in `invalid`, all survivors told of all kills, one winner; unless an entry was lost, each latch waits for exactly the threads still to come, and there is no deadlock |
| `match_live` | 2 players | rounds go on, lost players are removed, `GameMain` implements `LockStep` |
| `match_ends` (violation) | 2 players | a lost entry of `invalid` hangs the match |
| `lobby_safety` | 5 connections, queues of 4, matches of 3 | queues and timers agree, no connection leaks, only clients with an avatar play |
| `lobby_live` | 3 connections, queues and matches of 2 | complete queues start, clients that hang up leave, `LobbyQueue` implements `LobbyPromise` |
| `lobby_index` (violation) | 5 connections | index -1 after the first queue was removed |
| `lobby_waiting` (violation) | 3 connections | one client without an avatar holds everybody |
| `protocol_safety` | 2 clients, 3 messages per connection, symmetric | messages fit the stage that reads them, no update names an unknown player, client and server agree on the survivors, no stage is skipped |
| `protocol_live` | 2 clients, 2 messages, from where both wait in the lobby | clients that the lobby drops or the match removes return to the login, a match whose winner was announced ends |
| `protocol_winner` (violation) | 2 clients, 2 messages | a stalled winner is told that it was defeated |
| `player_safety` | one axis, a board of 3 places, speed up to 1, a ring of 2 slots and one unused, life 4, removed after 2 rounds of silence, 1 update on its way | players stay near the board, the ring keeps the order of firing, only recent shots of a player hit, the shots of a player who left end |
| `codec` | vectors of 0 to 2 structures of 1 byte and single structures of 2, 6 byte values, headers that are also payload or a size, 2 packets in the connection | a packet read from its first byte is not read in half, whole packets arrive in order unless the reader has skipped one (`PacketChannel`), a closed connection is read to its end |

Why the bounds are enough. Three players give a round in which two are killed
and one survives, and rounds of three, two and one players; the theorems cover any
number. With two players the race and the renewal of every latch still happen.
Five connections give a second queue behind a full queue of four, the case in which
indices matter; the smaller sizes keep every comparison (`KeepSize < StartSize
<= Capacity`). `Countdown` of 1 or 2 gives a timer below, at and above it. Two
clients and buffers of two or three messages give every kind of message behind
every other that can follow it, and full buffers at each send; a kill that a third
player watches is left to `match_safety`. (Three clients were tried: 9.3 million
states from the start of a match with one message per connection, without an error,
but too slow to be repeated on every change.)

For `player_safety` the axes do the same thing independently, and a place is only
compared with the borders and with a victim's; the board is small enough for shots to
leave it and large enough for them to fly on. A ring of two slots wraps, is full, and is
written over before its shots expire, as with 15 slots (`ShootCd` and `HalfLife` are
such that a third shot comes in time). One update on its way is read fresh or late, or
is lost because of a full buffer. The theorems cover any size. For `codec` the bytes
are six: two is the largest count that a signed byte of this width takes, a size and a count may
be any byte, the header of a vector is also a byte of payload and that of the other packet its size, and two packets are one
that is being read and one behind it, which a reader that has lost its place gets into. All of
this was looked for, and is reached: a packet is taken that was never sent, `getData` fails
behind a false header and behind a leftover one, a negative count keeps the loop going,
and a reader that had lost its place is at the first byte of a packet again.

`protocol_live` begins where both clients wait. The lobby may send, fail and drop them in
any order, before or instead of a match; a match starts there when the lobby's messages have
been read, as they would only make the state larger later (`WaitingNext`). Two messages
are the least: with room for one, every `W` may find the last update in its place. (Without
the restriction on the start both properties hold as well, over 798 thousand states, but
this takes more than five minutes.)

Deadlock checking is off: a match that is over stops, and the clients of the
lobby never have to do anything. `NoDeadlock` states what must not stop.

### Fairness

- `GameMain`: weak fairness of the main thread, of every player thread (the
  operating system runs them; `poll` waits 9 ms at most) and of `Expire` (time
  passes). Nothing about peers.
- `LobbyQueue`: weak fairness of the lobby thread, and strong fairness of a `poll`
  that times out and sees the clock advance. Connections cannot keep coming
  forever, as there are finitely many; that `time(NULL)` advances now and then
  needs strong fairness. Nothing about clients.
- `GameProtocol`: weak fairness of the match, of a client program's frames and of
  its timeout. The clicks of the users, and the lobby, have none.
- `RemotePlayer`: weak fairness of the server's two steps per round. Nothing about
  the client, which may stop at any point.
- `PacketCodec`: weak fairness of reading, as both programs come back for the next
  header in every frame or round. None of sending.

## Proofs

For any finite, nonempty set of players (`PlayersAssumption`):

- `Invariance`: `Spec => []IInv`.
- `TypeCorrect`, `LatchesNeverNegative`, `NoRaceOnPlayers`: consequences of it.
- `OneWinner`: at most one player is ever told that it has won, when all others are
  out.
- `Refinement`: `Spec => ImplementsLockStep`.

The argument. At any time one latch is being filled (`Current`: the one the main
thread is at, or the next one once that one is released). Every thread stands
between the latch before it and this one (`WindowInv`), or is out. A latch does
harm if it is released early, so the invariant bounds counters from below: the
counter of `Current` is at least the number of threads that have not arrived, plus
one for the main thread while it has not, plus the count-downs that the clean-up
loop still owes (`CurrentInv`). It stays so because latches not in use yet are
large enough for everybody who will arrive (`FreshInv`, `ReapInv`), and because
there are never more entries in `invalid` than killed clients (`CountInv`), so
`count_down` is not called too often, even when entries are lost or duplicated.
None of this needs the vector to be free of the race: a lost entry makes latches
too large, never too small. It hangs the match (`match_ends`), but does not break
the phases. `PlayersRaceFree` follows from `WindowInv` alone, which is not
inductive without the counters.

For the refinement `stage` is the phase before `Current` and a player is ready,
busy, done or out by its position relative to `Current`.

`OneWinner` needs that clients are only ever erased (`ClientsShrink`), and finiteness
of their set from `IInv`.

For any board, speeds, ring, cooldown, life, buffer and time limit that satisfy
`PlayerAssumption` and `RemoteAssumption` (each a natural number, the ring not empty,
and the bound `MaxAge` on ages above every age that is asked for):

- `RemoteInvariance`: `Spec => []RemoteInv`, the inductive invariant.
- `RemoteTypes`, `StaysNearBoard`, `ShotsInOrder`, `RecentShots`: `TypeOK`, `NearBoard`,
  `RingOrder`, `OnlyRecentShotsCount`.

`NearBoard` and `RingOrder` are inductive together with the types: a shot is written
where `Behind` is largest, so every other one is older by at least the cooldown.
`OnlyRecentShotsCount` is not: the server's copy is as old as the update that it was made
from, and that update may have waited behind others while the server read nothing. The
strengthening bounds ages where they wait. In the `n`-th update of the line a shot
is at most `HalfLife + Waiting(n) + silence` old (`OnTheWay`), where `Waiting(n) =
(UpBuffer - n) * Limit`: an update has waited for those that were in front of it,
each of which left within `Limit` rounds, or the player would have been removed. A
read resets `silence` and moves every update one place up, which is worth exactly
`Limit`. The bound for the copy (`InTheCopy`) is that of an update that has just
been read; in phase 1 `silence` is below `Limit`, since a player who reached it was
removed.

For any finite, nonempty set of players again, and from `IInv` and `KillInv` together
(`GameMainKills`):

- `KillInvariance`: `Spec => []KillInv`.
- `NoDoubleEntry`, `SurvivorsKnown`, `LatchesDeletedUnused`: `InvalidIsSet`,
  `SurvivorsToldOfKills`, `NoLatchDeletedInUse`.

The storage of `invalid` outlives a round, and the race can leave a name behind its
end, where a later `emplace_back` of another thread would make it an entry again. That
this does no harm is what `KillInv` adds. A name is stored once (`OnceNamed`), no
further than there are killed clients (`NearStart`). A name of a client behind the
last entry means that a count-down is missing, so latch 1 is too large by one and the
next round does not begin (`StaleStops`). Once a round has begun, then, no thread that
is out is still named (`NoneStale`). For this one case `latch[1]` is bounded from below
more tightly than by `CurrentInv`. `ToldInv` says what each survivor was told while the
clean-up is under way.

The counters from above, from all three invariants (`GameMainKills` again):

- `ExactInvariance`: `Spec => []ExactInv`.
- `LatchesExact`: `ArrivalsToCome`.
- `NoThreadStuck`: `Spec => []SomeoneCanStep`, which is `NoDeadlock` with the guards
  of the actions written out.

`IInv` says that no latch opens too early; `ExactInv` says that none opens too late. A
latch is made for all clients of the moment and the main thread (`FreshExact`); the
clean-up takes one from three of them per *entry*, and erases the *client* of that entry.
Where an entry was lost the two part: `recvlatch` and `validationlatch` are then too large,
both by the same amount, and nothing else makes them so (`StartExact`). Too large a
`recvlatch` never opens, so a round that got further began without a lost entry, and
its later latches are exact as long as no client is killed without its name in the
storage (`RoundExact`). "Lost" is a statement about entries that are visible now and
changes back and forth when names are overwritten, so the invariant speaks of names that
are stored nowhere (`Forgotten`), which stay so.

If nobody could take a step, everybody would wait, and by `OpenInv` all at the latch being
filled, as the one before it is open. Then nobody is to come to it, its counter is zero by
`LatchesExact`, and those who wait may go on. In the clean-up the main thread waits
in `join` for a thread with an entry, which is on its way out and waits for nobody.

For any finite set of connections and any sizes with `1 <= KeepSize < StartSize <=
Capacity` (`LobbyQueueProofs`):

- `LobbyInvariance`: `Spec => []LobbyInv`.
- `LobbyTypes`, `NobodyLost`, `PlayersReady`: `TypeOK`, `QueuesAgree`, `OnlyNamedPlay`.
- `LobbyRefinement`: `Spec => ImplementsPromise`.

`LobbyInv` adds where the index of the loop may be (`LoopInv`): -1 only when another
queue has moved to the front. It also adds that a timer which runs belongs to a queue
in which everybody has an avatar, in the part of the vector that `RunQueue` has served
(`ReadyInv`); a queue is dismissed between that test and the start of its match. The
refinement splits every action by what it does to the connections (accepted, chosen,
dropped, started), for each of which the promise has a step. `TypeOK` bounds the number
of queues by that of the connections, as no queue is ever empty.

For any finite set of players, any buffers, and matches of at least one player
(`GameProtocolProofs`):

- `SessionInvariance`: `Spec => []SessionInv`.
- `SessionTyped`, `LoginNotSkipped`, `UpdatesKnown`, `SurvivorsInAgreement`,
  `MessagesMeetStage`: `TypeOK`, `NoStageSkipped`, `UpdatesNameKnownPlayers`,
  `SurvivorsAgree`, `MessagesMeetTheirStage`.

What a client knows now says nothing about what it will read, so the invariant is
about the whole connection. Messages are ordered by `Rank`: those of the lobby, one packet
that creates the players, those of the match (`ChannelInv`). `Opponents(p)` are the
keys of the client's map, or what that packet is going to make of it, and `Gone(d, n)`
the players that the kills among the first `n` messages name. An update at place `i`
names nobody but `Opponents(p) \ Gone(d, i)`, and `Opponents(p)` without all kills on
their way are the players that stay in the match (`MapInv`); the second inclusion needs
that no message was missed. A client without such a packet ahead of it has missed it,
or the match has not begun for it.

For any bytes, headers, sizes and buffers that satisfy `CodecAssumption`
(`PacketCodecProofs`):

- `CodecInvariance`: `Spec => []CodecInv`.
- `CodecTyped`, `NeverHalfRead`: `TypeOK`, `NoHalfRead`.
- `ChannelRefinement`: `Spec => ImplementsChannel`.

`CodecAssumption` does not say that a byte is no header. Every message behind the first is
a whole packet (`StreamInv`). Of the first, when its own header was read as one, there is left
just what `sendData` wrote from the next field on: the count and all structures, the
structures not read yet, the end sign (`FieldInv`). A header that nothing was read into
comes from a connection that stays closed and empty, so that its reader fails at the
structure and never reaches the end sign (`LeftoverInv`). Of a reader that has found a header inside a packet
the invariant says nothing but the types, and the refinement maps its steps to `Wander`,
for which it has only to be shown that whole messages go and that the reader is astray until it
is at a message's first byte (`AstrayStep`).

`SequenceLemmas` proves induction over the naturals and over an interval for a *set* of
numbers (`SetInduction`, `RangeInduction`), from the least element of a set; the
library's induction theorems have an operator as a parameter, which no prover here
takes. With it recursive functions are shown to exist and to satisfy their equation
(`KeptExists`, `FlatExists`), hence what `Kept` keeps (`KeptProperties`), and that
`FlattenSeq` is the first sequence followed by the rest (`FlattenFirst`).

Only model-checked:

- Liveness, which is out of reach of the provers: `LostPeerRemoved`, `FramesGoOn`,
  `CompleteQueueStarts`, `GoneClientsLeave`, `DroppedClientsLeave`, `WinnerEndsMatch`,
  `LeftShotsEnd`, `ConnectionDrained`.
- `NoDeadlock`, since it is stated with ENABLED; with the guards written out it is
  the theorem `NoThreadStuck`. (With three players the guards and ENABLED were found to
  agree, thread by thread, in every reachable state.)

All other properties of the passing runs are theorems.

## What the checks found

1. `invalid.emplace_back` is not locked (`ClientThread.cpp:9,20,46,58,69,83,115`).
   Two kills in one phase can lose an entry, and the match hangs (`match_ends`).
2. Removing queue 0 leaves the index at -1 for the rest of the loop body
   (`Queue.cpp:72,82,96,135,145` and `162,165`; `lobby_index`).
3. A client that never sends an avatar restarts the countdown of its queue in
   every pass (`Queue.cpp:30`; `lobby_waiting`).
4. A winner whose program stalls for three seconds is shown "You've been
   defeated" (`GameStage1.cpp:53-81`; `protocol_winner`).

Seen while modelling, without a run of their own:

- The match. Two last players killed in one round: nobody wins
  (`GameMain.cpp:102` against `README.md:24`). `char` arrays without a terminator
  become strings (`GameMain.cpp:64-65`, `ServerSocketHandling.cpp:60-62`), and a message
  of type `T` may hold a zero byte.
- The lobby. A full queue's credit of 30 seconds outlives a client that leaves, so
  three clients start at once (`Queue.cpp:33` against `README.md:21`). The countdown runs
  with two clients though the comment at `Queue.cpp:29` says three. Finished matches stay
  in `games`, since a `jthread` whose function has returned is still joinable
  (`Lobby.cpp:39`). A client whose accept failed keeps its queue from ever starting.
- Shots. The comment at `Packets.h:90` gives a shot two seconds, more or less a quarter.
  Under continuous fire the 15 slots are used again after about a second, so shots
  vanish early; those of a client that has fallen silent stay deadly for up to three
  seconds more (the term `silence` of `OnlyRecentShotsCount`). The server reads one
  update per round, the client sends one per frame: a client that makes more frames
  than the server rounds fills the buffer, and everything the server knows is as old as the
  backlog. A shot within the hit radius of a victim does not count while it is exactly
  at (0, 0), and is not drawn while either coordinate is zero. The test looks into the empty
  slots without asking whether there is a shot (`Player.cpp:53-55` of the server).
- The client. The names in a kill are shown in the order of the message, which is not
  that of the text (`GameStage1.cpp:69-73`); `playerList` is never cleared between
  sessions and lacks the player's own name (`:93`). The second border check,
  `x < 0 && x > width`, never holds (`SelfPlayer.cpp:86`).
- Packets. The assertions in `getData` are `assertm(true, ..)` and cannot fail
  (`Packets.h:303,329`), and nobody looks at what it returns. On a closed connection with a
  header left over it returns -1, and the caller goes on with what its variable held. An empty
  vector is sent by way of its first element (`Packets.h:210`). A count above 127, which no
  sender here writes but a reader that has lost its place may find, is negative: the loop goes on
  as long as structures arrive, and for good at the end of a closed connection, where a structure of
  no size is read without an error.

## Assumptions

- Rounds of the server are equally long; clocks are counted in them.
- Positions are integers: the rounding of floats is left out.
- A client of the queue stage that skips an update finds no header in it (`ClientStages`;
  `PacketCodec` does without this).
- A header that arrived as a whole is recognised. The buffer for it has no terminator
  (`ServerSocketHandling.cpp:60-62`), so what follows it in memory decides; what the
  models take from this is that an *end* of the connection may look like anything.
- The heap survives the race on `invalid`.

## Not modelled, and the plan

In this order:

1. Matches of three in `GameProtocol`, with a smaller state: the run above is too slow.
2. The client's list of names over several sessions. `ClientStages` opens one connection
   per client, since nothing else survives a return to the login stage.
3. Proofs: liveness, when the provers can do it. `NoThreadStuck` is the safety part of
   `FramesGoOn`; what is missing is that every round is bounded, by the number of steps
   that the threads have left in it.

Left out for good: drawing, sounds, the window and its widgets; the player that turns
while an avatar is chosen (`RotatingPlayer`, which shoots with the code of `SelfPlayer` and
affects nobody); creating the listening socket; build files and resources. Of the
15 900 lines of implementation in the repository 13 100 are the vendored headers of
raylib and raygui (`klient/include`), which are not this program; the models cover more
than 1100 lines of the remaining 2700, most of which is drawing.
