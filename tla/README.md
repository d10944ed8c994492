# Verification of the RPCN server in TLA+

RPCN is a matchmaking server: game consoles log in over TCP, find each other in
rooms, exchange notifications, and keep scores and small data ("title user
storage", TUS) on the server. It is a tokio program. Every client has a task
that reads its commands and a writer task behind a bounded channel of 32
packets. State shared by the tasks is behind `parking_lot` locks (`room_manager`,
`gui_room_manager`, `client_infos`, `cleanup_duty`, the score tables) or in an
SQLite database, and some of it in files. A lost connection is cleaned up by a
task that `Drop` spawns. A command that returns `Err` or panics ends its
connection, and what it had written stays: `parking_lot` locks are not poisoned
and few statements share a transaction.

So the questions are of four kinds, and the modules follow them:

1. data structures with redundant indexes, under one lock, with requests that
   fail half-way (`Room`, `RoomManager`, `GuiRoomManager`);
2. tasks that meet between locks and awaits (`Sessions`);
3. a cache in front of the database, and files beside it, with restarts
   (`Scores`, `TusData`, `Friends`);
4. statements of several clients on the same rows, without transactions
   (`TusVar`, `Friends`, `Accounts`).

## Inventory

| Part | Source (`src/server/`) | Module | Extent |
| --- | --- | --- | --- |
| Matching2 rooms | `room_manager.rs`, `client/cmd_room.rs` | `Room`, `RoomManager` | all changes but payload attributes, signaling and rematch pairs |
| Rooms as clients see them | the same | `RoomService` | abstract specification |
| GUI rooms | `gui_room_manager.rs`, `client/cmd_room_gui.rs` | `GuiRoomManager` | all changes |
| Sessions | `client.rs`, `client/cmd_account.rs`, `client/notifications.rs`, bans in `client/cmd_admin.rs` and `api_server/admin.rs` | `Sessions` | login to cleanup |
| Game tracker | `game_tracker.rs` | `Sessions` | users, games (not tickets) |
| Friends | `client/cmd_friend.rs`, `database.rs` | `Friends`, status notifications in `Sessions` | all changes (blocks are unimplemented in the code) |
| Accounts | `client/cmd_account.rs`, `database.rs`, DelUser in `client/cmd_admin.rs` | `Accounts` | all changes; credentials are inputs |
| Daily cleaner | `daily_cleaner.rs`, `database.rs` | `Accounts` | all changes |
| Scoreboards | `score_cache.rs`, `client/cmd_score.rs`, `database/db_score.rs`, `utils.rs` | `Scores` | all changes |
| TUS variables | `client/cmd_tus.rs`, `database/db_tus.rs` | `Tus`, `TusVar` | all changes |
| TUS data | the same, `utils.rs` | `Tus`, `TusData` | all changes |
| Presence and messages | `client/cmd_misc.rs`, `client/cmd_session.rs` | `Friends`, `Sessions` | who may be invited, ResetState |
| Signaling, UDP helper, server and world lists, search adjustment, statistics, tickets, wire format, start-up | the other files | - | not modelled, see below |

## Modules

### Room, RoomManager, RoomService

`Room` is `struct Room` as a record with pure operators for its methods, for what
`create_room` makes of a request and for what its owner may change. Occupied
slots, flags and masks are sets; `users` is a set of records that carry their
member id. `get_a_slot` is split into its decision (which group and slot, or
which error) and `ClaimSlot`, what it has written by the time it returns or
panics, because `join_room` can still fail after it. The first slot of a group,
which the code adds up while it searches, is the recursive function `cur_slot_id`.

`RoomManager` has the rooms and the four indexes `room_cnt`, `world_rooms`,
`lobby_rooms` and `user_rooms`. Every command of `cmd_room.rs` holds the write
lock from its first check to its last write and is one action:

| Action | Code |
| --- | --- |
| `create_room` | `create_room`, `unfailing_create_room` |
| `join_room` | a join that succeeds |
| `join_room_malformed` | the slot is claimed, then the attributes do not decode |
| `join_room_panics` | the group has counted the joiner, then `req_specific_slots` panics |
| `leave_room` | departure, succession, destruction; also used by the cleanup |
| `set_roomdata_internal` | the owner's flags, group passwords, mask and ranks, up to the part that does not decode |
| `set_roommemberdata_internal` | teams |

Requests refused without a write appear as guards only. `is_slot_private` is
modelled as it is written, with a number in place of a bit. Payload attributes
are left out.

`RoomService` is the promise to clients: rooms with members, an owner among them
and a capacity, and ids never issued twice. `RoomManager` is proved to implement
it (`RefinesRoomService`), and `Sessions` is composed with it.

### GuiRoomManager

The older GUI matching rooms: `rooms`, the index per game, the index per user and
`closing`, the users whose connection is gone and whose cleanup leaves their
rooms one by one. The cleanup awaits notifications: to the members of the user's
other rooms before it begins, and to those it leaves behind in each GUI room
before it goes on. `waiting` holds the users whose next room waits for that.
`add_member_to_room` writes the member entry before its assertion; where the
assertion fails the model keeps the write and moves the user to `closing`, as the
unwinding task does.

### Sessions

One action is what happens under one lock, or between two awaits, of one task.
`state[c]` is where the task of connection `c` is: `new`, `checked` (credentials and
ban flag were read), `greet` (logged in, notifying friends), `online` (waiting in
`select!`), `packet` (a header was read; the rest is awaited, or its command carried
out), `reset` (ResetState), then `cleanup`, `infos` and `offline` for the task
spawned by `Drop`. `sending[c]` is the channel that a notification waits for;
`queue[c]` counts the packets in a channel. `told` and `overtaken` record what a
client was told of its friends: by the login reply and by notifications queued after
it, or before it. Bans are written to the database and then look for the session to
kick. Rooms are those of `RoomService`. A room's own notifications, and the replies
to commands other than the login, are left out: they go through the same channels in
the same way as those to friends. Friendships are fixed here, and whether an account
exists is left to `Accounts`: a login may be refused at any point.

### Friends

The `friendship` table (a row per pair, under the smaller id, with a flag for each
of the two) and the list of friends that `client_infos` keeps for every user who
is online. `add_friend` and `remove_friend` read the row, `Write` replaces it by
what was read with the change, `UpdateOwn` and `UpdateOther` change the two lists,
which happens under `client_infos.read()` and so excludes logins, cleanups and
deletions. `WriteFails` is a failing statement, or one about an account that has
gone. `asked` records who ever sent AddFriend about whom; `raced` the pairs whose
commands about each other overlapped since the last login, for which the lists
promise nothing. `Invitable` is what `send_message` makes of the list.

### Accounts

One action per SQL statement. `pc[t]` is the command of a connection that is not
logged in: a creation (`create`, `insert`, `id`, `stamp`), a login between
`check_user` and the lock, a deletion (`delete`, then under the lock `hash_name`,
`hash_email`, `row`), a mail (`new_code`, `mail`, `sent`) or a ResetPassword
(`password`). `lock` is who holds `client_infos.write()` over more than one
statement: a deletion or the cleaner. Times are abstracted to what is compared:
whether there was a login, and whether a mail was sent in the last 24 hours
(`Elapse`). Names are compared as the code does: the table refuses a second name
that differs in case only (`Fold`), every other statement and the hashes of
deleted names go by the spelling. `Fails` ends a command that holds no lock at its
next step. Ghost variables record what the properties compare with: how often a
code changed a password (`uses`), who has logged in (`seen`), and the two
exceptions `reborn` and `hasty` described under "Observations". A reset code is an
input; only the one that was drawn last for a mail is accepted. The code that
`update_user_password` draws is told nobody and is `NoCode`, like none.

### Scores

One board: the rows in the database, the sorted cache with its `npid_lookup`, the
files with score data and the id dispenser. `record_score` (database) and
`insert_score` (cache) are separate steps, and an upload is four: check, file,
cache, database. `Restart` may happen between any two steps; it reloads the cache with
the SQL order, which breaks ties differently from `DbScoreInfo::cmp`, and cleans
the files. A refused score (`ScoreNotBest`) changes nothing and is not a step.

### Tus, TusData, TusVar

`Tus` has what the two kinds of storage share: owners and slots, who may write
where, and what an upsert, a deletion of slots and the deletion of an account make
of a table.

`TusData`: rows of both tables in one function, files, and the id dispenser.
Storing is check, file, row; reading is row, file. Creating a file may fail and
then gives the id 0. Where it does not, `write_all` has only handed the data to a
thread: the file is in `writing` until that thread has written it or has failed
unseen (`DataWritten`), or the server stops. Files are told apart by the upload
they are of; how much of its data a file holds is not recorded. At a restart files
that no row names are deleted; if an id occurs twice the server does not start
(`up`).

`TusVar`: the statements of set, add, compare-and-set and delete. A conditional
change is an upsert with `RETURNING` and, if its condition fails, a `SELECT`.
Integers beyond 64 bits become floating point in SQLite; here they are the values
beyond `MaxVar`, and reading one ends the command. The condition of a client has
any date of `Date`, also one to come, and an author seen in the row or one who left
since.

## What is checked

Each property is stated above its definition. All runs finish within three
minutes on two workers.

| Run | Shows |
| --- | --- |
| `rooms` | Rooms of every kind, three users, failing requests: one owner that is a member and bears the flag; each member holds an occupied slot alone; FULL follows the members; group counters never fall below members where group numbers fit a `u8`, nor there below occupied slots unless the first group is empty; user, world and lobby indexes are exact; succession in the owner's order; `RefinesRoomService` |
| `gui` | GUI rooms: both indexes exact, at most one owner, capacity, ownership lost only by the owner joining again, and the cleanup leaves every room if the members left behind take their notifications |
| `gui_rejoin` (violation) | `add_member_to_room` asserts that the user is not yet in the room; quickmatch and search-join pick a room the user is in |
| `sessions` | One session per user, cleanup included; exact counters; friends know each other's status; a user without a session is in no room; every session that ends or is kicked is cleaned up, through full channels, among clients that read and finish their packets |
| `sessions_ban` (violation) | A ban between the password check and the lock leaves the user online |
| `friends` | The cached friend lists agree with the database; no flag for a user who did not ask |
| `accounts` | Nobody online without an account; a reset code works once; the cleaner takes no account in use |
| `scores` | Lookup exact, ranking ordered, cache equal to the database, no better score left out, data files belong to their rows |
| `tus_var` | Owners and authors of rows are accounts; own slots private; replies tell the outcome; changes on the condition of a date that is not to come keep dates in order |
| `tus_author` (violation) | A condition on a deleted author is dropped instead of failing |
| `tus_data` | Rows name the files made for them; readers find the file of the row they saw, complete or not; stores on the condition of a date that is not to come keep dates in order |
| `tus_ids` (violation) | Two failed uploads store the id 0 twice, which start-up refuses |

Every property of a passing run is paired with a mutant, an operator above the
definition it replaces that is marked "Wrong:" and stands for a plausible slip.

### Bounds

- `rooms`: `MemberIdMod` is 16 in the code; 2 here, so that the counter of member
  ids wraps within a run. `GroupIdMod` is 256 in the code; 3 here, so that rooms of
  two groups have group ids that fit, and rooms of three and four groups have a last
  one whose members are noted in no group and in the first. Three users fill a room
  of three slots, let an owner leave two possible heirs, and make a group of two
  overflow. `MaxCounted` bounds the count of a group whose joins panic again and
  again. `MaxRooms` is 2, so that an id outlives its room. `Explored` lets only the
  first room, while it is alone, be of any kind; two rooms at a time, and a second
  room after the first is gone, are plain ones. The rooms of the manager meet only
  in the indexes, to which what a room is like inside makes no difference, and what
  happens inside a room does not depend on its id. The `slot_num`s of the groups are
  added up as integers; the code adds `u32`s, and a sum of group sizes that wraps in
  a release build is left out. `num_members` is an integer that stands for its value
  modulo 2^32, as in a release build: below zero it is a huge count, so that the
  group is full. In a debug build the subtraction panics instead. Counting up past
  2^32, by as many panicking joins, is left out.
- `gui`: three users and rooms of two slots, so that a room can be overfilled;
  one request of 65 slots, above the limit of 64; `MaxRoomId` 2.
- `sessions`: two friends and two connections, which are accepted again after they
  were closed, so that a user can come back while an earlier session is cleaned
  up. `Capacity` is 1 in place of 32, so that senders wait at once.
- `friends`: three users, the second of whom is friends, or is about to be, with
  both others (`Neighbours`): its id is the larger one of one pair and the smaller
  one of the other. It may be deleted.
- `accounts`: one name in two spellings and one e-mail, for which two connections
  and the cleaner compete; two accounts (`MaxId`), the second one created after the
  deletion of the first; two reset codes (`MaxCode`), one that is mailed and one
  that replaces it.
- `scores`: three users for two ranks make evictions; two scores and two instants
  make ties; two file ids are a first upload and one after it.
- `tus_data`, `tus_var`: two users, a virtual user both may write to, two or three
  instants, and dates (`Date`) that are before, at and after the timestamps of the
  commands that name them.

Users are symmetric in `rooms`, connections and spellings in `accounts`, slots in
`tus_var`, users in `tus_data`. Symmetry is not used where liveness is checked;
`CleanupLeavesRooms` is checked of one user, since they are interchangeable.

Deadlock checking is off for rooms, scores and TUS variables, whose bounded
counters and clock come to an end. It is on everywhere else.

### Fairness

- `GuiRoomManager`: weak fairness of each cleanup where it does not wait for a
  notification. It is a spawned task that then needs nothing but a lock, and locks
  are held for one command. The end of such a wait is not assumed to come: a
  member that reads nothing can prevent it. `CleanupLeavesRooms` has it as its
  premise.
- `Sessions`: strong fairness of a task's own steps: a `send` waits for room in a
  channel, which may fill again, but tokio serves waiting senders in their order.
  Strong fairness of the kick arm: the permit is kept by `Notify`, and `select!`
  polls its arms in random order whenever a busy client comes back to it. The
  writers depend on their peers (`write_all` has no timeout), and so does the read
  of the rest of a packet (neither a timeout nor a kick arm): no fairness is
  assumed of them. `EndingSessionsClose` has as its premise, `ClientsKeepUp`, that
  no channel stays full and no packet unfinished for ever.

The other modules state safety only and assume no fairness.

## What is proved

The proofs hold for all users, connections, games, requests, slots and bounds. They
rest on the named assumptions of the modules: requests have their types, a team
and a lobby id 0 mean none, `MemberIdMod` and `Capacity` are positive, `GroupIdMod`
is at least 2, user ids of
`Friends` and `Scores` are numbers, scores are integers, values of TUS variables are
integers of the database, a board has a rank, `Conn` is finite, special values differ
from ordinary ones.

- `RoomManagerProofs!Invariance`: `IInv` is inductive. Its part about a room is
  `WellFormed`. The properties are not inductive one by one: that FULL is lowered
  rightly needs members to hold distinct slots, that a join replaces nobody needs
  members' slots to be occupied, and that group counters do not wrap needs every
  member to be in a counted group. A member's `group_id` is always 0 or a group of
  the room; that it is the group which counted the member, and hence all that is
  said of counters, needs the groups' numbers to fit it (`GroupIdsFit`). The indexes
  need that no room has an id yet to be given out. `RoomProofs` shows for each
  operation of a room that it keeps `WellFormed`, from what it makes of the fields
  (`Joined`, `Left`, `Inert`); also for a join that fails after `get_a_slot`.
  `OwnerUnique`, `SlotsExclusive`, `FullFlagFollows`, `UserRoomsAgree`,
  `IndexesAgree` and `GroupCountsSuffice` follow. `SuccessionFollowed` is the action
  property `SuccessionRespected`: only the owner's departure changes the owner, and
  what `Heirs` finds after it is the first ranked member that stays.
- `RoomManagerProofs!SeatsKeptAlways`, and from it `GroupCountsCoverSlots` and
  `NamedJoinsSeated`: in a room whose first group is not empty and whose groups'
  numbers fit a `u8`, a labelled group that is not full has a free slot, so that
  this path of `get_a_slot` never reaches `unreachable!()`. That a group counts its
  occupied slots is not inductive: a member who leaves lowers the count of the group
  it is noted in and frees a slot that must be of the same group. So `Seated` adds
  that members sit in their own groups and that groups lie within the room. The
  slots of different groups are disjoint because `cur_slot_id` increases
  (`FirstSlotsIncrease`, `GroupsApart`). What this recursive function computes is
  shown by a least counterexample, since induction rules cannot be cited. A join
  that fails after `get_a_slot` keeps this, as the count and the slot are both taken
  by then (`ClaimSlot`).
- `RoomManagerProofs!Refinement`: the manager implements `RoomService`. That a
  joiner finds a seat is counted from distinct slots (`MembersFit`), that the
  owner's view passes to a remaining member from `OneOwner`.
- `GuiRoomManagerProofs!GuiInvariance` and its corollaries, and `GuiOwnerKept`, the
  action property `OwnerLostOnlyByRejoin`. Every action replaces, adds or removes
  one room, and each of the three keeps the invariant if the room is `Good`.
- `SessionsProofs!SessionsInvariance`, with `SessionsUnique`, `MembersOnline`,
  `TrackerCounts` and `FriendsInformed`. The invariant says that `client_infos`
  names exactly the connections between `greet` and `infos`, that the user of an
  ending session is in `cleanup_duty` until friends have been told (so that no login
  comes in between), and that a cleanup still has every room of its user on its
  list. The counters are exact because each step moves one connection into or out of
  the set that is counted. `FriendsTold` is kept because only a session that is
  telling its friends waits for a channel (`SenderInv`), and no friend leaves its
  list before a notification for that friend's present session is under way. It
  needs `OneSession`: of two sessions of a user one could announce the end while the
  other goes on.
- `FriendsProofs!FriendsInvariance`, with `FriendListsCurrent` and
  `FriendsConsented`. For a command that has read a row and not raced with the
  other user, the row is still what it read until it writes (`RowInv`); between
  the write and the end of the list updates each list is right but for that
  friend (`ListInv`). Consent needs that what a command is about to write back
  for the other user was once asked for (`ConsentInv`).
- `AccountsProofs`: `ResetCodesOnce` from codes that are unique, never above the
  last one drawn, and gone from every account once used (`CodesInv`);
  `OnlineUsersHaveAccounts` and `CleanerSparesUsed` from
  `AccountsInvariance`: the lock has one holder and no deletion under it is of a
  user who is online (`LockInv`), a login whose account has gone finds no account
  of that name unless it is marked `reborn` (`LoginInv`), and an account that has
  been used has its `last_login` set unless it is `hasty` (`UsedInv`).
- `ScoresProofs!Invariance` and its six corollaries, one for each property of the
  `scores` run, for any number of users, characters, scores and ranks, both sort
  modes and both update modes. `Ranking` says that the cache is sorted, without a
  key twice, and that `npid_lookup` is its inverse. That `insert_score` keeps it is
  shown on sequences first: what taking out, putting in and cutting off a row make of
  positions (`CutElements`, `PutElements`), of the order (`InsertOrdered`) and of an
  index that is renumbered from `ReorderStart` on (`InsertIndexed`). Between two
  steps of a command the database and the cache differ in a way that `CommandOK`
  states: a recorded row only replaces one that does not beat it, and data being
  attached is set in the cache before the database and by this command alone. That
  nobody is left out wrongly (`LeftOut`) needs this, since a row that is taken out
  must not come back with a worse score. For a restart, `LoadedRows` shows that a
  prefix of the rows in the order of the database is such a ranking.
- `TusProofs!TusDataInvariance`, with `DataStaysOwned`, `ReadersFindFiles` and
  the action property `DatesKept`. The next id is above all files, and the file of
  an upload without a row belongs to that upload alone (`UploadInv`): so neither a
  store that replaces a row nor a restart takes a file that somebody is to name.
- `TusProofs!TusVarInvariance`, with `VarsWellTyped`, `VarsStayPrivate`,
  `RepliesTruthful` and the action property `VarDatesKept`. A reply is told from
  somebody else's row by author and timestamp alone. That this never deceives needs
  that, until a command has written, every row of its user is older than it
  (`UserInv`): so the row that a failed change reads afterwards, whoever wrote it,
  is never the user's own with this timestamp. A step of one user keeps this for the
  others because it writes no row in their names (`OthersKept`). Authors stay
  accounts, as an account is deleted only while it has no command under way.

Every safety property that a passing run checks has its theorem. Only model-checked
is liveness (`CleanupLeavesRooms`, `EndingSessionsClose`), which is outside the reach
of the proof system, and with it `ENABLED`. The violations are found by TLC.

## Observations

Met while modelling and not the subject of a run:

- `room_manager.rs:1133`: the search for a group without a label neither sets the
  label, as the comment above it says, nor looks whether the group is full. A full
  one leads to `unreachable!()` at line 1077 with `num_members` already increased.
  The model has this as `join_room_panics`.
- `room_manager.rs:1270`: a room may be created with an empty first group. Its
  creator is counted there and takes slot 1, which belongs to the next group. That
  group can then have no free slot and not count as full, and a join by its label
  reaches `unreachable!()` (the exception in `GroupCountsSlots`; members' own counts,
  `GroupCountsMembers`, hold there too).
- `room_manager.rs:1126`, `1152`: the number of a group is returned as a `u8`, and
  nothing but the sum of their sizes limits the groups of a room, some of which may
  be empty. From 256 groups on, a member can be noted in no group, or in an earlier one
  than the one that counts them. When they leave, the earlier group counts one member
  too few: it forgets its label, lets a labelled join reach `unreachable!()`, or wraps
  below zero at line 1537 (the exception in `GroupCountsMembers` and
  `GroupCountsSlots`).
- `room_manager.rs:1049`: `is_slot_private` masks with the number `64 - slot`;
  `to_RoomDataExternal` announces private slots by bit `63 - i`. A joiner without
  a password can be given a slot announced as private.
- `room_manager.rs:1457`: the hub of a star room may have left; the join that then
  unwraps it panics after the member was added.
- `gui_room_manager.rs:450`: a quickmatch room that `join_room_gui` has filled is
  not hidden and takes one more quickmatch player, after which it is never
  announced complete.
- `client.rs:434`: `write_all` has no timeout. While a client reads nothing its
  channel stays full, and whoever notifies it waits: a login, a command, or the
  cleanup of another user, who cannot log in again meanwhile.
- `client.rs:602`: the read of a packet's rest has no timeout and no kick arm. A
  kick takes effect only when the packet is complete or the connection ends.
- `client.rs:651`: a friend's status notification can be queued before the login
  reply with the older status (the exception in `FriendsTold`).
- `cmd_friend.rs:43`: both flags of a friendship are read and replaced. Of two
  friends who add or remove each other at once, one may restore a flag that the
  other has just withdrawn, or leave the cached lists wrong until the next login
  (`raced`, the exception in `ListsCurrent`).
- `cmd_account.rs:110`: the check under the lock looks for the name, while the
  session goes on with the `user_id` read before. If the name was deleted and
  created again in between, the session has no account (`reborn`).
- `database.rs:874`: an account can log in before `add_user` has inserted its row
  of times. Its `last_login` then stays NULL until the next login, and the daily
  cleaner may delete the account after 30 days (`hasty`). An account whose second
  insertion fails can never be sent a mail, since the time of the last one cannot
  be read.
- `database.rs:874`: `get_user_id(..).unwrap()` panics if the account was deleted
  since it was inserted.
- `database.rs:841`: the hash of a deleted name is looked for before the
  password is hashed, so that a creation which overlaps the deletion can still get
  the name.
- `database.rs:785`: the hash is of the name as it is spelled, while the table keeps
  names unique without regard to case (line 183). A deleted name can be created
  again in another spelling while its hash is kept.
- `database.rs:957`: a second ResetPassword with the same code replies `NoError`
  and changes nothing.
- `database.rs:717`: the comments of `cleanup_expired_hashes` speak of 180 days,
  the code takes 90.
- `cmd_account.rs:375`: if a reset mail cannot be sent, the account keeps a code
  that nobody knows, and the old code no longer works.
- `client.rs:369`: the table of rematch pairs is made anew for each connection.
- `stat_server.rs:191`: the timestamp of the usage cache is never written, so the
  cache is always stale.
- `cmd_tus.rs:674`: the timestamp is taken before the file is written, so an
  unconditional store that ends later can turn the date of a slot back. So can a
  conditional one, here and in `cmd_tus.rs:394` and `:491`, if the client names a
  date after the timestamp of the command: dates of requests are not compared with
  the clock (the exception in `ConditionalKeepsDates` and `ConditionalVarDates`).
- `cmd_tus.rs:93`, `cmd_score.rs:157`: `write_all` on a tokio file returns as soon as
  the data is buffered, and nothing flushes it. The row is stored while the file may
  be empty or partly written, a reader may get it like that, and an error of the
  write, or the end of the server, leaves it so.
- `db_tus.rs:204`: a sum beyond 64 bits becomes a floating point number in SQLite,
  and `get_unwrap` panics on it in every later read of the row.
- `score_cache.rs:267`: a board with `rank_limit` 0 panics on its first score, and
  two characters of one user with the same score and timestamp (a clock that was set
  back) make `binary_search_by(..).unwrap_err()` panic. The model gives the scores
  of a user distinct instants and the board a positive limit.

## Not modelled

- Searches, listings and other reads, which change nothing; the invariants say
  what they can rely on.
- Payload attributes, presence, messages, signaling addresses and the table of
  the UDP helper: values that are stored or forwarded and that no decision of
  another part depends on.
- The rematch pairs of `cmd_room.rs`: seen only by the connection that wrote them.
- Server, world and lobby lists: inserted once if they are missing and then read.
- Wire format, tickets, mail contents, TLS, HTTP and configuration: pure I/O or
  encoding. That a request does not decode is an input of the models.
- Passwords and tokens as such: that they match is an input.
- A server that stops in the middle of the statements of `delete_user` that rewrite
  TUS authors: `TusVar` and `TusData` take them and the removal of the account, with
  the rows that go by `ON DELETE CASCADE`, as one step.
- The shutdown broadcast, after which the process ends.
