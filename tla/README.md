# Verification of Counter-Strike 2D

TLA+ models of the server and the client of this repository, TLC configurations
that check them on small instances, and TLAPS proofs of the results that hold
for every size. Everything is translated from the code; paths below are relative
to the repository.

## 1. The system

A server process accepts clients, runs one thread per match, and three threads
per client. A client is a process with two windows, a view and three threads.

| Part | State | Operations | Interacts with |
|---|---|---|---|
| `Game` (`common/game.cpp`) | maps of living and dead players, bullets, bomb, bursts, flags `exploded`, `deactivated`, `winner_cheat`, round number, statistics | one method per client action, `get_objects` (a tick of bullets and bomb), `start_/end_round_game_phase`, `is_over` | called by its match thread, and by `add_player` from other threads |
| the registry inside `Game` | the vector of objects, the matrix of cells | moves, flights, collisions, random places | `Game`'s maps |
| `Player`, `Weapon`, `WeaponShop` | weapon slots, the weapon in hand, money, ammunition, health, cheats | buy, shoot, pick up, drop, rewards | `Game` |
| `Match` (`server/match.cpp`) | the phase, by where its thread is; timers | lobby, shopping, game and stats phases | pops one shared receive queue, pushes to every client's send queue |
| `MatchesMonitor` | table of matches and their queues, one mutex | create, join, list, reap, clear | handlers' threads, acceptor |
| `ClientHandler`, `ServerReceiver`, `ServerSender` | `stop_flag`, the threads' flags, the two queues | lobby exchange, receive loop, send loop, `hard_kill` | monitor, queues, socket |
| `Acceptor`, `Server` | list of handlers | accept, reap, clear | socket, handlers, monitor |
| `Queue` (`common/queue.h`) | items, `closed`, two condition variables | push, pop, try_push, try_pop, close | all threads |
| `Socket`, `SocketManager`, both protocols, `ByteConverter` | the descriptor, the stream's state | connect, accept, send, receive, shutdown, close; encode, decode | the kernel |
| `Client`, `ClientSender`, `ClientReceiver` | `stop_flag`, two queues | forms, poll, update, render, end | its socket, the view |
| `PreLobby`, `Lobby` (Qt) | widgets, and `info_aux` beside them | the slots of the widgets | `Client` |
| `GameView` and its views (SDL) | what the last messages showed | update, render, questions of the input handler | `Client` |
| editor, map loader, configuration | files | input and output | |

What makes it hard: players join from another thread while the match runs,
quit in any phase, and die while their bullets fly; the end of a round has to
undo all that a round did, however it ended; the last snapshot of a round
changes the game after its end was decided; the threads of a client are stopped
from outside while they block on queues and sockets; a session fails at any
point of its setting up; the matrix, the vector and the maps are changed one
after the other by hand in a dozen places; what one end serializes the other
reads at offsets of its own; a view remembers in flags what messages said, and
a form keeps its fields twice.

What makes each part correct:

* Game: a player is alive or dead, never both, and only the living carry the
  bomb; the countdown of the bomb is not disturbed; a round starts from a clean
  field; sides and teams stay in step over the half, late joiners included; a
  team does not outgrow its places, and the statistics have an entry for everyone
  they name, but for who joined in the one way the code leaves open.
* Registry: matrix, vector and maps hold the same objects; nothing flies through
  anything; nobody gets into a wall or another player unless a bullet stops him
  there; all of it with players who join at any moment.
* Weapons: each weapon is in one place; every balance is what was earned less what
  was spent, to the width of the counters.
* Match: at most `rounds_total` rounds of shopping and fighting, each worth at
  most one point; a stopped match ends.
* Queue: nobody sleeps on a queue that can serve him; `close()` releases
  whoever waits for an item, and lets in nothing but what waited; the queue stays
  within its size.
* Monitor and sessions: only threads that were started are joined, none is
  destroyed unjoined, every session is deleted in the end, the shutdown reaches
  everyone, the end of a match reaches each client registered before it.
* Wire and sockets: what one end sends the other reads, whole and in order;
  nobody uses a descriptor that is not his; a kill ends who waits.
* Client: what is shown agrees with the last message, what is asked for is what
  is on the screen, and the client ends with both its threads.

`PROJECT.json` lists the components with their state of modelling, and under
`hazards` each place where the code can go wrong in a way tests hardly reach.

## 2. The modules

| Module | Models | Extends |
|---|---|---|
| `Game` | rules: lives, bomb, rounds, sides, score | |
| `Match` | the match thread, phase by phase, with joins and shutdown beside it | `Game` |
| `RoundCycle` | abstract: what a match promises to its scoreboard | |
| `Arsenal` | weapons, ammunition, money and health | |
| `Geometry` | cells, neighbourhoods, shapes, distances | |
| `World` | where everything is, and the registry that finds it | `Geometry` |
| `Queue` | the blocking queue | |
| `Server` | acceptor, sessions, monitor and the lives of matches | |
| `Socket` | the sockets of a connection and the kernel's side of them | |
| `Wire` | serializers and deserializers of both ends | |
| `Link` | a sender and a receiver over a connection | `Socket`, `Wire` |
| `Forms` | the two windows before the match | |
| `GameView` | what the client shows of the match | |
| `Client` | the client's three threads | `Forms`, `GameView` |
| `MatchProofs`, `QueueProofs`, `WorldProofs`, `FlightProofs`, `ArsenalProofs`, `ServerProofs`, `LinkProofs`, `ClientProofs` | theorems | |
| `MC...` | instances for TLC | |

`Game`, `Arsenal` and `World` are three views of one class. Each keeps what its
properties need and chooses freely what the others decide, so that each behaviour
of the program is a behaviour of each of the three. The same holds between
`Match`, `Server`, `Link` and `Client`: `Server` has of a match only that it
starts, sends and ends; `Client` has the order of a match's messages from
`Match`; `Link` carries any messages.

Operators whose comment starts with "Mutant" are wrong versions of the
definition they stand before. Each is a plausible bug, and each property of a
passing run fails when one of them takes the place of the right one.

### Game

Kept: who is in `players` and in `dead_players`, each player's side and
`has_bomb`; the pointer `bomb`, its countdown, and whether the matrix holds a
`Bomb` the pointer no longer has (`stray_bomb`); `exploded`, `deactivated`,
`winner_cheat`; whose bullets fly and whose bursts wait; the round number; which
ids have entries in the three maps of `Stats`, the last winner and the two
scores.

Abstracted: positions (being near a bomb, in a bomb zone, in the way of a bullet
is chosen freely), health (a hit kills or not), weapons, money, and how many
bullets each shooter has. `CHANGE`, `ROTATE`, the shop and the health, ammo and
money cheats change nothing that is kept and are not steps.

Undefined behaviour is a nondeterministic choice. Where the code dereferences an
end iterator or a null pointer, `fault` may take the place's name, and then
nothing more happens, or the program goes on. The knife reads a slot of a vector
after the erasure: the death is then counted to any id.

Counts and numbers of places are compared by their low eight bits, as
`add_player()` does. Assumed: `drop_weapons` always finds a cell without an
obstacle; a map always has room for the players; `add_player` from another thread
is one step (it is a data race in the code: see the hazards). Ids are not reused.

### Match

`pc` is the place of the thread. `LobbyCheck`, `NextRound`, `Tick`,
`ShoppingEnd` and `DrainEnd` are the evaluations of the loop conditions, which
call `is_over()` and so record the winner, unless the match is stopped, when the
short circuit leaves the last winner as it was. `LobbyPop`, `ShoppingPop`,
`DrainPop` and `StatsPop` pop one action: any client that joined may have any
action in the queue, also if the game rejected it, it is dead or it has quit.
Snapshots are three kinds of steps: `SnapshotBegin` fires bursts, `SnapshotKill`
is one kill by a bullet, `SnapshotEnd` drops bullets and runs the countdown.
`Join` and `Stop` are the other threads and come between any two steps.

`Join` has no guard on the phase, as `join_match()` has none: the client lists only
matches that have not started, but its list may be old when it answers. Three history
variables tell what such joins do: `team` is the side each client joined for, named
as it was at the start of the match; `late` who joined after `initialize_stats()`;
`stand_ins` who was let in while a teammate was dead, whose place he takes since only
the living are counted, or while the side had more players than places already.
`skipped` remembers that the last tick sent no snapshot: a tick takes a whole snapshot
interval, so the next tick sends one.

### RoundCycle

Waiting, then rounds of shopping and fighting, at most `RoundsTotal`, a point
for one team or none at the end of each fight, then over. `Match` implements it
with `Phase` and `Played` for its `phase` and `played`.

### Arsenal

Kept: each player's three slots, the pointer `current`, health, money, the two
cheat flags and the money the statistics credit him with; the weapons on the
floor under their ids and `next_weapon_id`; who has shots on their way. Money and
ammunition wrap at `Uint16` as the code's do at 2^16; the weapon ids do not, and
`MaxWeaponId` bounds how many the shop builds. The history variables `earned`,
`unpaid` and `spent` add up rewards paid, rewards credited to one who was not living,
and charges, at full width. `StartRound`, `ShopWeapon`, `ShopAmmo`, `ChangeWeapon`, `PickUpWeapon`,
`ShootBullets`, `BulletHits`, `EmployKnife`, `Cheat`, `EndRound` and `Quit` are
the methods of `Game` and `Player` of those names, with the purchases' tests in
the code's order.

Clients join in any phase. The dead keep knife and pistol, as in the code: the
manual's line on that is listed below. Abstracted: positions (who is near a weapon, and who is hit with what damage, is
free), sides (any set of the living may be the winning side), and bullets, of
which only whose they are is kept. A hit that kills pays the shooter only when
he is alive: what happens when he is not is in `Game`.

### Geometry and World

`Geometry` has the functions of `game.cpp` that compute with positions only.
Coordinates are naturals and a distance is compared by its square, so nothing is
rounded; `distance_between` rounds down, as the code's cast does.

`World` has the vector of objects, the matrix as pairs of a cell and an object,
and the maps of living players, of dead ones and of bullets. `get_max_position`
goes pixel by pixel and asks only for what is near the end of the way, as the
code does. `update_bullets()` is `MoveBullets`, one `UpdateBullet` for each
bullet in the order of the ids, and `DeleteBullets`; the reset of a round is
`EndRound`, one `RelocatePlayer` for each player, and `NextRound`. `phase` keeps
other steps from coming between, as the code's loops do.

`AddPlayer` comes in any phase, between any two steps: in the lobby, in the match,
between the loops of `update_bullets()`, and in the reset, where a player who joins
may or may not still be come to by the loop (`Visited`: the map is in the order of the
ids, so the loop passes everyone behind it). `newcomers` is a history variable, who
joined since the bullets got their positions. `StartMatch` is a match with all its
places taken or one that START began with somebody on each side; `Quit` comes in the
lobby too.

Shots are aimed along any vector of integers. `Away` is a position at a distance along
one: each coordinate is rounded by itself and cut at the border, without the root (a
coordinate is the number whose half steps enclose it, compared by squares), and where it lies on a half,
both ways, since the code's floats decide. For the same reason a shot off the axes
starts at its first offset or at the next.

Simplified: the vector is a set, and the collider the code finds first in a set
ordered by addresses is a free choice, but the one that stopped a mover is found
again, for the addresses did not change. Whether a hit kills is free. A join is one
step though `add_player()` takes no lock that the match's thread takes; the first loop
of `update_bullets()` is one step, so a join that falls inside it comes before all the
bullets or after all. Of a burst only the first shot is here: those that follow start
from the position saved with them. The cones of the M3 are left out, and the knife,
the bomb and the weapons on the floor, which nothing collides with. `Shoot` waits for
an id no bullet in flight has: 65535 shots would have to be fired while it flies.
Where no place is free in a zone, the code draws for ever: `AddPlayer` and
`RelocatePlayer` have no step then.

### Queue

One step is what a thread does between taking the mutex and giving it up.
`is_not_full` and `is_not_empty` are the wait sets, `pushing` and `popping` the
threads inside a call that has waited; a thread that was notified has left the
wait set and still has to get the mutex. `PushResumes` does not look at `closed`
again, as the loop in `push()` does not. `WakeUp` is the spurious wake-up. The
order of items is that of `std::queue` and is not modelled.

### Server

The main thread, the acceptor, and for every client the handler's thread, its
receiver and its sender; the mutex of the monitor; of each match its thread's
life, its players, and the queues it fills. `handler[c]` is the place of
`ClientHandler::run()`; between `enter` and `configuration` it holds the
monitor's mutex, and the player is in the match before his queue is registered.
`acceptor` and `pending` are the place of the loop of `reap()` or `clear()` (`mode`) over the
list, which is in the order of the ids, since handlers are appended as they are
numbered; the look `hard_kill()` takes at the flags is a step of its own. A
`std::thread` is `unstarted`, `running`, `ended` or `joined`; destroying one that
is running or ended sets `terminated`, the `std::terminate()` of the standard.
`stop_flag` is the handler's and is shared by both threads.

A thread that was started and has not looked at its loop's condition yet is `started`
in the sender (`Begin`) and may end at once; the receiver's look (`ReceiveNoMore`) may
come at its start or after any action, and nobody has to send one. `Places` are the
numbers of players the creators typed: a match starts with all taken, or with two or
more players, of whom somebody may have sent START; who of those that entered is a
player of it, and on which side, is free. `late` is a history variable: who was
registered after the `END` of his match had been sent.

Simplified: a client's messages are the lobby's answer; those that follow go into the
match's queue, which has no bound, and do nothing here; a match sends an initial
snapshot and an `END`, which stand for all that lies between. Sends and receives
succeed, fail or throw as far as the two ends of the connection allow.

### Socket, Wire and Link

`Socket` has the four sockets of a connection: the client's, the server's
listener, the temporary `accept()` returns and the one the handler keeps, with
moves from one to the other. The kernel's side is the set of open descriptors,
the bytes on their way and the ends that were shut down. Looking up an address is
a number of addresses to try.

`Wire` is written from both sources separately: the serializers append bytes,
the deserializers read them at offsets, as the code does. Numbers have their two
bytes, a float is the four bytes it is in memory, a byte past the end of the
data, which `client_protocol.cpp` reads for the score, is 0 or 255.

`Link` runs a sending and a receiving thread over the sockets: a size, at the
client a type, then the rest, each of them with `sendall` and `recvall` that may
be cut short, and `kill()` of either end as two steps, a shutdown and a close.
One direction is taken at a time, chosen at the start: they share nothing else.

### Forms, GameView and Client

`Forms` has the widgets of both windows (`ui`) and the member `info_aux` that
some slots write and `saveDTO()` fills up, validates and turns into `info`. The
numbers of players are those `toInt()` makes of a text; they are cut to 16 bits when
the message is made, after they have been found different from zero.

`GameView` has what outlives a message: the map of views (which ids have one, and
which of them is a null pointer), the flags of the bomb, the overlays, the field
of view and `is_alive`. `Update` is `GameView::update()` with the five updates it
calls, `Render` follows it. The ids of a snapshot go into a set of `uint8_t` and are
looked up in it, so `Gone` compares their low bytes. Of the bombs of a snapshot counts
which of the three things they say (65535, a countdown, 0) and which the last of them
says, for each sets its flags and none clears another's. Sounds, positions, health, textures and the camera
are left out: they decide nothing of these.

`Client` composes both with the three threads. `pc` goes through `lobby()`, the
frames of `match_loop()` (`poll`, `push`, `drain`, `render`) and the end of
`run()`. The server is the environment: the order of its messages is that of
`Match`, a client may come in at any point of it, and the connection may be
closed, with what was sent still arriving, or reset, with all of it lost. What a
snapshot holds (`Contents`) is any of the other players and any bombs, several and in
any state; the local player until it comes without him, and then not before the next
shop: he may be killed before the first snapshot he gets, or not have been let in.
`missed` is a history variable, that the first snapshot after he joined, or after the
last shop, came without him. Calling a method of a null view is `Crash`: the process
is gone.

Simplified, so that the state space stays small: the test of its flag is folded
into the end of each turn of a thread; the form's fields are forgotten when the
lobby ends, the view's in `Kill`, the server's when the connection ends, since
nothing reads them again; the server waits while the form is filled in, as it
would be seen only later; repeated `UNKNOWN` actions in the queue are one.

## 3. The runs

| Run | Bounds | Shows |
|---|---|---|
| `teams` | 3 clients, 2 places against 1, 1 round, countdown 2, joins in any phase; 5 234 719 states up to symmetry | `LifeLedger`, `FirstRoundCountdown`, `ExplodedHasBomb`, `TeamWithinPlaces`, `StatsServable` |
| `rounds` | 2 clients, 1 against 1, 2 rounds, countdown 1, joins in any phase, fair; 531 900 states | `RoundStartsClean`, `SidesInStep`, `RightTeamCredited`, `ImplementsRoundCycle`, `StopEnds`, `BombResolves`, `AbandonedEnds` |
| `wakeups` | 5 threads, 2 places, fair; 3 733 states | `WithinCapacity`, `NoLostWakeup`, `OnlyEarlierPushes`, `ConsumersReleased`, `ConsumersServed` |
| `sessions` | 2 clients, 1 name, 2 matches for one and for two players, fair; 229 653 states | `ReapFindsThreads`, `SurvivesServing`, `StillRegistered`, `Reaped`, `ShutdownEnds`, `EndReachesClients`, `TypeOK` |
| `link` | every kind of message, then a short one; each call cut once; 2 addresses, fair; 261 495 states | `InOrder`, `DescriptorsOwned`, `Delivered`, `KillEndsReceiver`, `TypeOK` |
| `client` | 2 ids with the same low byte, every content of a snapshot, 1 message and 1 action on their way, one map, match and skin of each side, a number above 65 535, fair; 388 102 states | `NoNullPlayer`, `ShowsLastMessage`, `SentAsShown`, `ClientEnds`, `TypeOK` |
| `arsenal` | 2 players, 5 actions, 2 rounds, weapon ids to 15, money to 15, a kill worth 7; 3 178 808 states | `OneKeeper`, `Solvent`, `TypeOK` |
| `world` | 3 players for 1 and 2 places, 2 bullets, 2 aims, a wall, 3 by 3 cells, 3 moves and shots, 2 rounds, joins in any phase; 833 572 states | `Registered`, `NoTunnelling`, `OnlyBulletsPush` |

Runs that end in a violation, each against something the repository says:

| Run | Property | What happens |
|---|---|---|
| `bombs` | `OneBomb` | the second round gives out a bomb while somebody still has, or left on the floor, that of the first |
| `killer` | `KillerIsFound` | the shooter to be paid is dead or gone, and the iterator is `end()` |
| `stats` | `StatsArrive` | the client reads the bytes of the score as one more player, and the score past the end |
| `shutdown` | `NotYetStarted` | `hard_kill()` takes a handler that is about to start its threads for one that never will |

### Why the bounds are enough

Two terrorists are enough for a bomb to change hands and for a killer to be
killed, and one round to its end shows what a round leaves behind. Three clients
for two places and one are more than either side takes, so one is refused, or comes
in a dead player's place. Two rounds have the half between them: what a round leaves
meets the next one, and both sides of the change are seen. In the run of two rounds
either client may be the one who joins late, on either side of the half. Countdowns
of 1 and 2 snapshots stand for the 450 of the code: what counts is that events come
before, at and after the snapshot that explodes the bomb. The queue's items are only
counted; with five threads there are several on each side of both wait sets at once.

In `sessions` two clients meet each other in everything they share: the monitor's
mutex, a match, the list `reap()` walks. Two matches are needed for one to take
the other's name. The first is for one player, so that it can start and be over
before the second is registered with it; the other waits for both.

`link` has each kind of message and each kind of object of a snapshot, first and
last in it, with bytes that tell fields and halves of fields apart. A second
message shows that the stream stays in step. One cut per call puts the end of a
read inside a number, between fields, and across two messages. `STATS` is in the
run `stats` only: its end is read wrongly whatever the stream does.

In `client` the second player tells the local player's death from that of
another, and its id, 257, has the low byte of the local one, 1: either keeps the
other's view there. The number typed is 65 538, which the form accepts and the
message carries as 2. One message and one action on their way are enough to be looked at by
one thread while another ends; what matters is what is in the queues when the
main thread comes to `drain`, and `drain` takes one at a time.

In `arsenal` two players are one who drops and one who takes. Five actions are
buying, dying, taking and buying again, with a cheat between. The widths are
small so that both counters get to their ends, and rewards of a few kills pass them:
the balance wraps and the books do not. Weapon ids stop at `MaxWeaponId`: past the
wrap of the id counter, 65 536 weapons into a match, a weapon may share its id with
one that is kept, and `OneKeeper` is not claimed there.

In `world` the wall begins in the last pixel of its cell and is as wide as one,
so it reaches into the next cells, which do not list it; a bullet flies 6 pixels,
a whole cell, in a step and a player 4. One aim is along an axis, and the other,
two to the right and one down, has steps whose coordinates are rounded each by
itself and flights longer than the step. There are two bullet ids, so that one
flies while another has its turn, and three players, one of whom can join between
these turns or in the reset. Zones have room for one player each: where two are to
be put in one, the reset waits for ever in the model as the loop draws for ever in
the code, and goes on only if one has been killed or has quit before.
`ScaleAssumption` is what the program's own sizes satisfy (cells of 32, walls of 32,
steps of 5 and 10, radii of 16 and 2, of players and of bullets): a search two cells
around the end of a way finds all that may be on it. It is what the theorems need,
too, and the values of the run are at its limit or near it.

Deadlock is not checked: the threads end, a program that met undefined behaviour
does nothing more, bounded actions run out, and a closed empty queue has nothing
left to do.

### Fairness

`Match`: weak fairness of `Advance`, the steps the thread takes without anything
to pop. The thread never blocks: `try_pop` returns, sleeps end, and every loop
that pops is bounded by a timer or by the length of a tick; so however many
actions the clients send, the thread comes to the end of each loop. Nothing is
assumed of the clients, of joins, of kills or of `Stop`. The game phase has no
clock, so a match whose players stand still does not end: none of the properties
says so. A fault is an end too, and named as one (`Stuck`).

`Queue`: weak fairness of each thread that was woken, that is, of the mutex.
Nobody has to call anything, and a spurious wake-up never has to come.

`Server`: weak fairness of the server's threads taken together, and of a match
only once it is stopped: while one of them can run, one does. That is less than
fairness of each, and enough, since each blocks until another has gone on.
A receiver whose loop's condition does not hold any more need not look at it, since
that takes an action that nobody has to send. Nothing is assumed of the clients or of
the `q`.

`Link`: weak fairness of the sending thread, of the receiving one, and of the
close that follows a shutdown. Nobody has to send or to kill.

`Client`: weak fairness of each of the three threads, and strong fairness of
`RenderFrame`. The latter says that the main loop comes to find its queue empty:
snapshots are `SNAPSHOT_TIME` apart, and taking one takes less. Without it a
server that fills the queue as fast as it is drained keeps `match_loop()` from
ever looking at `stop_flag`. Nothing is assumed of the user or of the server.

### Where the repository's own texts and the code part

Four runs end in a violation of what a document or a comment says; they are the
findings in `PROJECT.json`. Other sentences disagree with the code as well. The
properties there state what the code does and where it leaves the sentence, so that
they pass without saying that the sentence holds:

* `game.cpp:286`, the comment of `end_round_game_phase()`, has `exploded` and
  `deactivated` false after it. `reset_bomb()` clears `exploded` only if a bomb is on
  the floor, which it is whenever it has exploded (`ExplodedHasBomb`), and
  `deactivated` only if none is: a deactivation stays when there is a second bomb.
  `RoundStartsClean` says that this takes the second round or a later one, and that
  then no other round begins.
* `queue.h:24`: "On a closed queue, any method will raise ClosedQueue". A `push()`
  that waited for a place looks at `closed` before it waits and never again, and
  `close()` does not wake it. `OnlyEarlierPushes` says that nothing else gets into a
  closed queue, and `NoLostWakeup` that such a thread sleeps only while it is full.
  `pop()` and `try_pop()` also go on giving what a closed queue holds.
* `documentacion_tecnica.md:121` has the message of the end close the session. A
  client whose queue is registered after it was sent (`join_match()` looks at nothing)
  never gets one: `EndReachesClients` says that these, and only these, do not.
* `manual_de_usuario.md:79` has every balance grow each round by an initial sum
  besides the rewards. The code pays no such sum: `Solvent` is the exact balance,
  with nothing in it but the money one begins with, rewards and charges.
* `manual_de_usuario.md:62` has a player who is killed lose all his weapons. The code
  drops the primary one and the bomb; knife and pistol are kept, with what
  ammunition they have. `OneKeeper` is about the primary weapons.
* `game.cpp:1073`, the comment of `get_random_player_position()`, has a place inside
  the team's zone. It draws from a square of 500 around the middle of the zone.

### Seen on the way

What TLC or the reading showed besides:

* From the second round on a burst of the last round fires in the next.
* With one round in all `rounds_total / 2` is 0, the sides never change and the
  statistics credit the wrong team; `RightTeamCredited` is proved for two rounds
  or more.
* Clients whose list of matches is old join a match that runs. They may take a
  dead player's place, so that the team is larger than it was to be from the next
  round on, and have no entry in `deaths`; one who kills before he dies has one in
  `kills`, and the senders of the statistics then look up what is not there.
  `TeamWithinPlaces` and `StatsServable` say that there is no other way to either.
* A player who joins between the loops of `update_bullets()` may stand where a bullet
  has just passed; never where one is, since his place is drawn beside it.
* A player who walks stops on a bullet but one pixel before a wall; where he
  meets both on the same pixel he may stop in the wall. `OnlyBulletsPush` asks that
  a bullet that lay there hit him in that very step.
* A client whose first snapshot comes without the local player (killed before it, or
  not let in) puts a null pointer among its views and dies of it with the next frame
  or click. `NoNullPlayer` says that nothing else brings that about.
* A reset connection ends the client's receiver without a word: the window stays
  until the user closes it.

## 4. The proofs

All theorems are about the specifications as they stand, for any set of clients
(finite, so that they can be counted), any numbers of places, rounds and
snapshots, any threads and any queue size, any map, cells, radii and steps, any
catalog, prices and amounts, any numbers of connections, matches and addresses
(`GameAssumption`, `MatchAssumption`, `QueueAssumption`, `GeometryAssumption`,
`WorldAssumption`, `ArsenalAssumption`, `ServerAssumption`, `SocketAssumption`,
`LinkAssumption`; the theorems of `FlightProofs` need `ScaleAssumption` too).

`MatchProofs`, in order:

* `TypeCorrect`. One lemma per group of methods, then one step per action.
* `LifeLedgerHolds` from `LifeInv`: the ids in the two maps belong to clients
  that joined. Without it a joining id could be in the map of the dead already.
* `FirstRoundOneBombHolds` from `BombInv`, which adds that before the first
  round there is no bomb at all; `FirstRoundCountdownHolds` follows, as no step
  may then create a bomb while one is planted.
* `RoundStartsCleanHolds` and `ExplodedHasBombHolds` from `CleanInv`: they need
  each other, and that the lobby has nobody's shots or deaths in it. The heart is that
  nothing takes the bomb from the floor between the snapshot that explodes it and
  `reset_bomb()`, which clears `exploded` only if the bomb is there. The first needs
  `DeactivatedInv` too, which says where a deactivation may stand.
* `MatchImplementsRoundCycle` from `RoundInv`, which ties the loop variable of
  `match_loop()` to `Game`'s `round_number`; `ScoreHolds` then carries the
  invariant of the abstract cycle over to the match.
* `SidesInStepHolds`, and from it `RightTeamCreditedHolds`, for matches of two
  rounds or more.
* `StatsServableHolds` from `StatsInv`: whoever may still get a kill, living,
  dead or with a bullet or a burst in flight, has his entries already or joined
  after they were made.
* `TeamWithinPlacesHolds` from the sides, the clean lobby and cardinalities: a team's
  players that are no stand-ins were let in while all of it was alive and counted.

All of them are about matches that clients join in any phase.

`QueueProofs`: `TypeCorrect`, `WithinCapacityHolds`, `NoLostWakeupHolds`, which are
inductive with the types alone, and `OnlyEarlierPushesHolds`, which needs no more.

`WorldProofs`: first `NeighboursSuffice`, what the search relies on: the corner of
whatever a circle may touch on its way is in a cell at most two from that where
the way ends, if radius, size and step fit in two cells. `CircleGap` and
`RectangleGap` say that what overlaps is near on both axes; the squares of the
distances are taken apart with lemmas of their own. Then `TypeCorrect`, and
`RegisteredAlways`, which is inductive with the types. The statement that makes it so is `Seat`: inside `update_bullets()` a
bullet is still in the cell it left, and in the reset a revived player is in
none, so the agreement of matrix, vector and maps is about seats and about those
who are placed. A player who joins between the turns of a loop is in all three at
once and in no loop, or in that of the reset. Each action then takes out exactly the entries of what goes and
puts in one for what comes; `Removed`, `Added` and `Refile` say that no other
object loses or gets one.

`FlightProofs`: `NothingTunnels` from `FlightInv`, which adds to the above that
the pixels a bullet has passed before its last are clear of walls and of the players
there were (`Settled`) while its turn of the second loop is awaited, and stay so
because of these in between some only go; those who join are `newcomers` until the
third loop. The last pixel is searched again in that turn, and clear of them too. A way
is any two positions, each coordinate going its own length, so nothing depends on the
aim or on how `Along` rounds. `SearchFinds` is where the scale
comes in: what overlaps on any pixel of a way is within two cells of its end.
`NobodyIsInside`, from the same invariant, goes over the ways a player gets
somewhere: put by a join or a new round, where the search was at the very place,
and his own steps, where he stops one pixel short of what is solid, or on a bullet
that the same step takes away (`HitThere`).

`ArsenalProofs`: `TypeCorrect` and `OneKeeperHolds` from `ArsenalInv`. That no
weapon is in two places is not inductive: a weapon just bought could have the id
of one on the floor. `Numbered` adds that whatever is held or lies anywhere has an
id the shop has given and no other weapon has; the shop then gives the next one,
and the exchanges of weapon between hand and floor are permutations. The types
need that `current` points at what its player holds, through deaths too.
`SolventHolds` is about the balance itself, at the width it has. Its invariant
`Accounts` holds the counter of each player against the full sums of the histories:
modulo `Uint16` each reward and each charge changes both alike, and what is charged is
never more than there is, which `SellsWeapon` and `SellsAmmo` test before; so no hypothesis on prices,
rewards or the length of a match is needed, and a wrap is part of the statement.

`ServerProofs`: everything rests on `ServerInv`, which ties three places of the
code together. `Progress` tells from where a handler is in `run()` which of its
threads there are, and that `stop_flag` cannot be up before the receiver is
started. `Pass` says that `reap()` kills only a handler that has ended with
`stop_flag` up, and that only what it has deleted was ever joined. `Fills` says
that from `add_queue_to()` on the queue is among those of the match of `session`.
`ReapFindsThreadsHolds` follows: a handler that has ended started both threads or
none, and with `stop_flag` up not none. `StillRegisteredHolds` is part of `Fills`;
what makes it inductive is that `send_update()` forgets only closed queues and
that a queue once closed stays so. `SurvivesServingHolds` adds that a name stands
for one match whose thread is there (`Named`) and that both threads of a handler
about to be deleted by `reap()` were joined (`Joined`); `Clearing` shuts out the
shutdown, where the statement is false (run `shutdown`).

`LinkProofs`: `DescriptorsOwnedHolds` from `SocketInv`. `Owned` is the statement
itself, descriptor by descriptor; `Stages` adds the order in which sockets come to
be, which is why a constructor's process has nothing open but what it tries, and
why a new descriptor is never one that is held. It needs `SocketAssumption` only.
`TypeCorrect` supposes that what either end writes are bytes, fewer than the two of
the size can say (`AllFramed`).

`InOrderHolds` is about the three calls `recvall()` that make one message and the
cuts the kernel may put anywhere. Its invariant `Stream` speaks of all the bytes ever
sent, one after the other (`stream`), of where in it each message ends (`cut`) and of
where the `recvall()` that waits began (`base`). `Layout` says what the stream is made
of; `Supplies` that what the kernel holds and the sender still has continues it from
where the receiver is; `Reads` that `base` is where this part of the message begins,
so that no call ever begins inside another message. It holds while the receiver can
still be told something (`Intact`): a reset loses bytes, and after it nothing more is
delivered, which `Marked` takes from the states of the stream. A step of the kernel
moves bytes from one part of the stream to the next; a message sent makes the stream
longer. The hypotheses are about the codec, one message at a time:
`ClientUnderstands` and `ServerUnderstands` say that an end that is given just the
bytes the other wrote gives the message back. The first is false of the statistics,
as run `stats` shows.

`RoundTrip` proves `ServerUnderstands` for every message the client can write
(`ClientRecords`: any names, positions, angles, amounts), if its frame fits in the
size. `Lies` says that a field stands at a place of the message; fields appended
after it do not move it, and the deserializer's offset finds it there. It matters for
the names: in a creation the map has no length of its own, and in a join neither has
the match; each is cut out between what is counted from the front and from the back.
The same is proved of the client for the end, the winner, the configuration and the
shop, and `RecordsInOrder` is `InOrder` with no hypothesis about all of these. What is
left to suppose are snapshots and lists, whose readers are recursive functions or
folds. TLC evaluates both hypotheses' instances in run `link`: were one false for a
message of it, `InOrder` or `Delivered` would fail.

`ClientProofs`: everything rests on `ClientInv`. Its core is `OrderKept`: what is
in the receive queue and on the wire continues the last message taken in the
order the server sends (`Chain`), and the newest of them fits where the server is
(`Sent`). A step of the server appends at one end, one of the main loop takes from
the other; `ChainAppend` and `ChainTail` are about these two. It holds only while
frames are drawn (`Live`), as `match_loop()` drops what is queued when it ends.
`FormsInv` ties what the lobby window saved to its widgets: `SentAsShownHolds` needs
no more, for numbers of any size, sent modulo 65 536. For `NoNullPlayerHolds` and
`ShowsLastMessageHolds` `ViewInv` says message by message what the view shows; a
snapshot is right because the server's order tells what the last one had left. Its
part `LocalInv` ties the local player's entry and flags to what the snapshots held of
him since a shop, and a null pointer to `missed`. Ids are any of 16 bits, and what is
erased is decided by their low bytes: `players_in_game` in `game_view.cpp` is a set of
`uint8_t`, so a view may outlive its player while another with his low byte is there,
and no view of a player the snapshot holds is erased.

Every invariant and every action property of the passing runs is the statement of a
theorem. Only model-checked are the eleven properties with fairness (`StopEnds`,
`BombResolves`, `AbandonedEnds`, `ConsumersReleased`, `ConsumersServed`, `Delivered`,
`KillEndsReceiver`, `Reaped`, `ShutdownEnds`, `EndReachesClients`, `ClientEnds`),
which TLAPS does not prove, and that the client reads back snapshots and lists of
matches: both are written and read by repetition, whose induction is out of the
prover's reach.

## 5. What is left, in order

1. An abstract session (comes, plays, is gone) that `Server` implements.
2. The cones of the M3, the bursts of the AK-47 and the knife's angle in
   `World`, with damage by distance and the number of deaths.

## 6. Not modelled

* The map editor: a Qt program of one thread that writes map files and shares no
  state with the game.
* Reading of maps and of `config.yaml`: done once, into what are constants here.
* Drawing, textures, fonts, sounds, the camera: no state another part reads.
* Torn reads and writes of the data race between `add_player()` and the match's
  thread: joins are one step between steps of the match, which is one of its
  outcomes.
* A burst's later shots and the M3's cones: see `World`. Weapon ids past the wrap of
  their counter: see `arsenal`.
* Amounts of damage, `rotate()` and the count of deaths: no rule depends on them.
