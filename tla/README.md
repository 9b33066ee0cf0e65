# Verification of xkk

xkk is the back end of an online game: a handful of Rust services (Auth, Gate,
Logic, Public, Query) that share Redis and Mongo and talk over RPC.  This
directory holds TLA+ models of the parts whose correctness depends on the order
of events, the TLC configurations that check them, and TLAPS proofs about all of
them: every invariant and action property that a run checks is proved for any
instance.  The Logic Runtime is also shown to implement an abstract specification
of what its callers are promised.

## 1. The system

| Part | Source | State | Operations | What is hard |
|---|---|---|---|---|
| Logic Runtime | `service/logic/src/runtime.rs`, `persistence.rs` | admission counters, a directory of per-player mailboxes, runner tasks, cached player cells with a save gate, the dirty budget | `try_use`, `try_use_preloaded`, the runner loop, cache callbacks, `shutdown` | enqueue racing retirement, counters released on every failure path, eviction of a player in use, the drain of the shutdown |
| Gate client streams | `service/gate/src/session.rs` and its callers in `gateway.rs` | per player: sequence numbers, outbox, reconnect and request times | requests, acks, pings, pushes, reconnect in two critical sections, replay, expiry | wrap of `u32`, cumulative acks, eviction and expiry during a reconnect, limits over sliding windows |
| Gate sessions | `service/gate/src/gateway.rs`, `session.rs` | connection workers, the player table, `online_count` | login, reconnect, logout, kick, disconnect, expiry, shutdown | every handler awaits RPC or Redis in the middle; the worker may be aborted at an await |
| Logic login handlers | `service/logic/src/player.rs` | `PlayerState.session`, `online_count` | `LogicLoginReq` (kick, login, owner, undo), `LogicDisconnectNtf` | late notifications, a kick of a session that is not installed yet, a failed owner save |
| Online record | `cache/src/online.rs` | Redis hash `gamer:{gid}` | `load_online`, `save_online`, `set_token`, `set_logic_owner`, `clear_gate_by_session` | read-modify-write across an RPC |
| Public mail | `service/public/src/mail.rs`, `service.rs` | mails of a player | list, read, delete, claim, send | a claim marks before it grants; expiry; the limit |
| Public player cache | `persist/src/public_players.rs`, `public_player.rs` | cached aggregates, the dirty set | `read`, `update`, `flush_dirty`, the savers | a mutation during a flush, a late write, crash, eviction |
| Items | `service/logic/src/player.rs` | item counts, the dirty flag | use, add, remove, check, info | 64-bit sums, partial mutation on overflow, failed saves |
| Auth | `service/auth/src/api.rs`, `service.rs` | permits, account lock and document, token, counts of the Gates | login, use_role, refresh | a lock with a TTL around two Mongo calls, room read before awaits |
| Login queue, online counts | `cache/src/login_queue.rs`, `service_online.rs` | Redis sorted set, Redis hash | enqueue, leave, publish, load, delete | stale entries, counts that lag |
| Service processes | `app/src/process.rs`, `service.rs` of the five services | opened clients, background tasks, the published count, the result | start, periodic tasks, shutdown, every failure of them | a start that fails half-way, commands under way when their task is aborted, the order of the cleanup |
| Query requests, configuration, protocol, common, robot | | none or only at start | | not stateful |

How they meet: a client logs in at Auth, which writes the token into the online
record; Gate verifies token and record, picks the Logic that owns the player
and asks it to log the session in; Logic serialises that in the player's runner,
tells the Gate of a replaced session to kick it, and writes itself into the
record; Gate then installs the session and saves the record.  Requests of a
bound connection are sequenced by its stream and forwarded to Logic or Public;
Public pushes mail through the Gate the record names, and asks Logic for the
items of a claimed mail.

What makes each part correct is stated as properties below; `PROJECT.json`
lists the hazards they answer, by line.

## 2. Modules

    component           for TLC             proofs
    LogicRuntime        MCLogicRuntime      LogicRuntimeProofs
    PlayerCalls         (abstract; LogicRuntime implements it)
    ClientStream                            ClientStreamProofs
    PlayerSessions      MCPlayerSessions    PlayerSessionsProofs
    PublicMail          MCPublicMail        PublicMailProofs
    PlayerItems                             PlayerItemsProofs
    AuthApi             MCAuthApi           AuthApiProofs
    ServiceLifecycle                        ServiceLifecycleProofs
                                            SumTheorems  (used by LogicRuntimeProofs and PlayerItemsProofs)

An `MC` module only adds symmetry sets.  Definitions marked `Mutant:` are
plausible mistakes in the definition that follows them; no specification uses
them.  They show that the properties can fail.

### LogicRuntime

One action per critical section, atomic operation or await of `runtime.rs`.  A
call is one `try_use`; `call[c].pc` follows it from `enqueue` (`kib`, `undo`,
`push`) through the mailbox and the runner to the two counters that
`GlobalPermit::drop` releases one after the other (`finished`, `dropping`).  A
runner is named by the call that spawned it, a player cell by the runner that
loaded it.  `dirLock` is the pair of locks (directory, mailbox) that `enqueue`
holds while the lock-free admission counters move under it.  `val` and `disk`
are sets of calls: the mutations a copy of the player contains, so that a lost
or resurrected update is visible.  A failed save may have reached Mongo.
Shutdown is a task of its own: close, two loads per drain check, `notified()`,
check again, wait, flush.  The cache, crate `xlru`, is external: `Evict` may drop a
value at any moment and then runs the saver; `LossyCache` also lets it drop
dirty values and lose a `set_i64`.

`PlayerCalls` is what callers are promised: accepted calls of a player are
served one at a time in order, answered once, a failed call has no effect, and
what is stored is never lost.  `ServesPlayerCalls` is the refinement: the abstract
queue of a player (`Pending`) is its mailbox with the call that is being served
and not answered yet in front.

### ClientStream

One player, one Gate.  Connections deliver in order and may break at any time;
the client (external) acknowledges the newest message it has.  Wire sequences
are absolute numbers modulo `SeqMod`, a small even number that stands for 2^32;
the absolute numbers exist only for the properties.  Reconnect is split where
the code awaits: `AuthorizeReconnect`, the Logic RPC (`ReconnectFails`),
`CompleteReconnect`, `save_online` (`KickLocal`), `Replay`.

### PlayerSessions

One player, several Gates, Logics and connections.  Every handler is cut at its
awaits; the abort of a worker by `on_disconnected` can hit any of them.  The
Redis scripts are atomic steps.  Logic's runner is a single `lbusy` flag (proved
and checked in LogicRuntime: `OneRunnerPerGid`).  Constants select the
environment: `Overlap` (logins that overlap), `Reconnects`, `Logouts`,
`CloseRace` (a close between `is_closed` and the install), `MayStop`, and
`Faults`, what may fail.  `raced` is a book kept for `TokenCurrent`.

### PublicMail

One player.  A cell is one loaded `PublicPlayer`; `version` numbers the
mutations.  `get_i64` and the update under the lock are separate steps, as are
snapshot, write and cleanup of a flush.  A crash loses memory; a write under
way may still land.  The cache drops a player only while no request holds
it: ADR 0016 makes that a condition on the deployment.  A claim marks its mails,
looks the player's Logic up (`Locate`) and asks it for the items: `Grant` is an
answer (ok, refused, or an error although the items were added), after
`GrantTimesOut` the request may still be carried out (`LateGrant`).  `claims`,
`granted`, `confirmed`, `atRisk` and `failed` are books kept for the properties.

### PlayerItems

One player's items between the runner and Mongo.  Calls are atomic because the
runner serves one at a time and holds the save gate until the save has ended;
`Finish` is that save, with the three outcomes ok, failed, failed but stored.
`cell` is the cached `PlayerState`, `doc` the document.  i64 is scaled down to
-4..3 so that `checked_add` refuses and the sum of two entries wraps; a request
has up to `MaxEntries` entries.  A
HashMap is visited in any order, so an `add_items` that meets an overflow may
have inserted any of the other items.  `acked`, `unsure`, `wrapped` and `silent`
are books kept for the properties; `silent` says that memory may hold a
change that no save has been asked for.

### AuthApi

A slot is a permit of the `inflight` semaphore together with the request that
holds it, so that the number of slots is the concurrency of the service.
Login is cut into lock, load, save, unlock and token; use_role into the reading
of room and clock, the queue's script, the limiter with the choice of a Gate, and
the leave.  A client may hang up at any await, which drops the handler and leaves
an account lock to its TTL.  Gids are numbers because ZRANK orders equal scores
by member.  Gates publish any count up to `MaxOnline`; what a Gate counts is
PlayerSessions' subject.  A client has one use_role request at a time, as the
robot does.

### ServiceLifecycle

One process, of any of the five kinds.  `StartSteps` and `StopSteps` are the
bodies of `Application::start` and `Application::shutdown` of each service as
sequences of steps; `pc` is the place in `xkk_app::run`.  Every step that can
fail may fail.  `SpawnStep` and `StopStep` name the steps of a task.  Commands to Redis are a queue (`wire`): one connection, in order,
each command executed, lost, or given up by its sender and executed later; an
aborted task does not take its command back.  What the frame (`xframe`) does with
an application whose start failed is outside the repository, so it may or may
not call its shutdown.  Only the shutdown of Logic's runtime reports an error;
Public logs a failed final flush and still succeeds.

## 3. Runs

Every run is listed in `PROJECT.json`; `tlc -config X.cfg M` repeats one.
Deadlock is not checked: in all models the finite set of calls, connections or
requests can be used up, or the process ends, and the system is rightly at rest.

| Run | Instance | Shows |
|---|---|---|
| `logic_live` | 1 player, 2 calls, lossy cache, fairness | `OneGeneration` (the assertion of `retire_or_take_next`), `AcceptedCompletes`, `ShutdownEnds` |
| `logic_two_players` | 2 players, 2 calls, sizes 1 and 2, budget 1 | `TypeOK`, `OneRunnerPerGid`, `NoOrphanCall`, `CallsExact`, `AckedDurable`, `KibExact`, `DirtySlotsExact`, `DrainedBeforeFlush`, `StoppedMeansSaved`, `ServesPlayerCalls` |
| `stream_delivery` | 2 reconnects, pushes, refusing write queue, wrapping sequence | `TypeOK`, `NoSilentLoss`, `StillThere`, `AcceptedOnce` |
| `stream_limits` | 3 reconnects, small windows, refusing write queue, no pushes | `RequestLimits`, `ReconnectLimits`, `InOrder` |
| `sessions_takeover` | logins in turn on 2 Gates, reconnects of the recorded session, one Gate shuts down | `OneActive`, `RecordRight`, `ActiveKnown`, `CountsExact` |
| `sessions_owner` | 2 Logics, logouts, 2 tokens, closes during the install, most faults | `OneOwner`, `TokenCurrent` |
| `sessions_overlap` | two logins that overlap | violation of `OneActive` |
| `mail_saves` | 4 requests, 2 mails, limit 1, failing saves, a crash | `DirtyRegistered`, `ShutdownSaves`, `DiskForward` |
| `mail_claims` | 3 requests, 1 mail, eviction, a crash, refused, late and lost grants | `GrantedOnce` |
| `items_account` | 2 items, requests of up to 2 entries, i64 scaled to 3 bits, 2 doubtful requests | `Accounted`, `AnswerStored`, `Solvent` |
| `auth_admission` | 2 accounts, 2 permits, 1 Gate, capacities 1, TTL 2 | `OneRole`, `BookingBound`, `PlaceKept` |
| `service_lifecycle` | 5 services, 2 handlers, 3 commands under way, fairness | `CleanedUp`, `StaysDeleted`, `SuccessMeansSaved`, `Exits` |

Every module has a `TypeOK` that documents its state.  It is a property of a run
where it says more than types: in LogicRuntime no counter goes below zero, in
ClientStream the outbox stays within its limit.

Bounds.  Two calls of one player are enough for a runner to serve one and
to meet the other in its retirement; two players are what it takes to
contend for the shared counters.  (Three calls of one player were checked as
well, with the limits at 2.)  In ClientStream two or three reconnects
let a later one meet what the first left behind; `SeqMod` is chosen so that
the sequence wraps during the run while the window stays below half of it, as
in the code.  In PlayerSessions three connections (two where every fault is
on) give a session, its replacement and a late message of the first.  In
PublicMail four requests fill and overflow a mailbox of one and act again after
a crash.  PlayerItems needs no bound on calls: the counts are finite, and only
requests that take effect but are answered with an error are counted
(`MaxUnsure`).  In AuthApi two permits give one request that acts on what
the other has changed since; with capacity 1 the second player meets a full
Gate and a full queue; the clock reaches the TTL once.  Requests are not bounded.
In ServiceLifecycle a command of the starting process, one of an aborted task
and the deletion fit on the wire together.

Fairness is assumed in two places.  `FairSpec` of LogicRuntime has weak fairness of
each runner, of an enqueue that holds its locks, of the cache's saver and of the
shutdown task.  Tokio polls every task that is ready, and RPC, Mongo and
preload futures are assumed to end, with success or failure.  Nobody has to
submit a call, evict, or shut down.  `Spec` of ServiceLifecycle has weak fairness
of the main future, of each task, of handlers and flushes under way and of
Redis: Tokio again, calls with timeouts, and shutdown functions that
return, which for Logic is `ShutdownEnds` (with its exception of section 5).
Ticks and signals need not come.

## 4. Proofs

`tlapm M.tla` checks the proofs of a module.  Every theorem holds for all values
of the constants that meet the named assumptions of its component's module:

* LogicRuntime: limits above zero (`RuntimeConfig`), `None`, the saver and the calls
  are different (`DistinctNames`), finitely many calls (`FiniteCalls`);
* ClientStream: an even modulus, limits above zero and the comparisons that
  `SessionConfig::validate` asserts (`StreamConfig`);
* PlayerSessions: `None` is new, at least one token (`SessionConfig`);
* PublicMail: at least one mail and one generation (`MailConfig`);
* PlayerItems: counts are positive and fit an i64 (`ItemConfig`), `NoneIsNew`;
* AuthApi: capacities and TTL above zero (`AuthConfig`), finitely many permits
  (`Permits`), `NoneIsNew`;
* ServiceLifecycle: `Kinds` are among the five services (`LifecycleConfig`).

| Theorem | Module | Property | Under |
|---|---|---|---|
| `OneRunner` | LogicRuntimeProofs | `OneRunnerPerGid` | |
| `NoCallLost` | LogicRuntimeProofs | `NoOrphanCall` | |
| `TypeCorrect` | LogicRuntimeProofs | `TypeOK` | |
| `CallCountersExact` | LogicRuntimeProofs | `CallsExact` | |
| `KibCountersExact` | LogicRuntimeProofs | `KibExact` | |
| `DirtyBudgetExact` | LogicRuntimeProofs | `DirtySlotsExact` | |
| `DrainComplete` | LogicRuntimeProofs | `DrainedBeforeFlush` | |
| `OneGenerationInUse` | LogicRuntimeProofs | `OneGeneration` | |
| `AnswersAreDurable` | LogicRuntimeProofs | `AckedDurable` | `~LossyCache` |
| `StopSavesAll` | LogicRuntimeProofs | `StoppedMeansSaved` | `~LossyCache` |
| `RuntimeServesPlayerCalls` | LogicRuntimeProofs | `ServesPlayerCalls` | `~LossyCache` |
| `TypeCorrect` | ClientStreamProofs | `TypeOK` | |
| `AcceptedAtMostOnce` | ClientStreamProofs | `AcceptedOnce` | |
| `ReconnectsLimited` | ClientStreamProofs | `ReconnectLimits` | |
| `RequestsLimited` | ClientStreamProofs | `RequestLimits` | `BurstWindow <= RequestWindow` |
| `StillInOutbox` | ClientStreamProofs | `StillThere` | `MaxSends < SeqMod \div 2` |
| `NeverSilentlyLost` | ClientStreamProofs | `NoSilentLoss` | `MaxSends < SeqMod \div 2` |
| `ReceivedInOrder` | ClientStreamProofs | `InOrder` (action property) | `MaxSends < SeqMod \div 2`, `~Pushes` |
| `TypesHold` | PlayerSessionsProofs | `Types` | |
| `TokenStaysCurrent` | PlayerSessionsProofs | `TokenCurrent` | |
| `OneLogicOwns` | PlayerSessionsProofs | `OneOwner` | `OwnerConfig` |
| `OneSessionActive` | PlayerSessionsProofs | `OneActive` | `TakeoverConfig` |
| `RecordHolds` | PlayerSessionsProofs | `RecordRight` | `TakeoverConfig` |
| `ActiveSessionKnown` | PlayerSessionsProofs | `ActiveKnown` | `TakeoverConfig` |
| `CountsStayExact` | PlayerSessionsProofs | `CountsExact` | `TakeoverConfig` |
| `ChangedIsRegistered` | PublicMailProofs | `DirtyRegistered` | `~Evicts` |
| `ShutdownFlushes` | PublicMailProofs | `ShutdownSaves` | `~Evicts` |
| `DocumentForward` | PublicMailProofs | `DiskForward` (action property) | `~Evicts` |
| `ItemsGrantedOnce` | PublicMailProofs | `GrantedOnce` | |
| `ItemsAccounted` | PlayerItemsProofs | `Accounted` | |
| `ItemsSolvent` | PlayerItemsProofs | `Solvent` | |
| `AnswersStored` | PlayerItemsProofs | `AnswerStored` | |
| `OneRolePerAccount` | AuthApiProofs | `OneRole` | `"slow" \notin Faults` |
| `WaitingKeepsPlace` | AuthApiProofs | `PlaceKept` | |
| `BookingsBounded` | AuthApiProofs | `BookingBound` | |
| `ClientsOutliveUsers` | ServiceLifecycleProofs | `CleanedUp` | |
| `DeletedCountStays` | ServiceLifecycleProofs | `StaysDeleted` | |
| `SuccessIsSaved` | ServiceLifecycleProofs | `SuccessMeansSaved` | |

The conditions in the last column are met by the run that checks the property.
`~LossyCache` is what the runtime relies on in
xlru: a value whose saver could not store it stays in the cache, and `set_i64`
keeps what it is given.  `~Evicts` is the condition of ADR 0016 ("capacity and TTL
must be sized to avoid active-player eviction").  `"slow"` is the login that
outlives its lock (section 5).

`BurstWindow <= RequestWindow` holds of `HARD_LIMITS` (1 s and 5 s); `validate` does
not assert it, and without it the deque forgets requests that the burst window still
counts (`RequestLimits` fails in `stream_limits` with 1 and 3).  `MaxSends < SeqMod \div 2` means fewer than 2^31 messages in one stream:
beyond that `seq_after` no longer orders what a stream has sent (`StillThere` and
`NoSilentLoss` fail in `stream_delivery` with `SeqMod = 4`, `StartSeq = 2`).  The
sequence may start anywhere, so the wrap of `u32` is included.

`OwnerConfig`: logins do not overlap, and not both `"busy"` and `"redis"` are among
the faults.  `TakeoverConfig`: logins do not overlap, reconnects are of the recorded
session, no logouts, no close between `is_closed` and the install, and `"busy"` is
the only fault.  Both leave Gates, Logics, connections and the Gates that shut
down open; section 5 has the behaviours that they exclude.

### The Logic Runtime

`Types` gives every variable its type, with the counters as mere
integers.  `Ownership` is the core: no property is inductive without it.
It says who holds a gid's locks (`LockOwner`), that a call that has not started
is nowhere (`NotStarted`), which call a runner works on or has taken next
(`CurCall`, `NextCall`), that a call in flight is in the hands of exactly one
runner (`InFlight`), that a mailbox holds queued calls of its gid without
repetition (`Mailboxes`), that a fresh runner finds a call (`TakeFinds`), and
`OneRunnerPerGid` itself.  The retire race is the step `Retire` under
`OneRunnerPerGid`: it removes the slot only with an empty mailbox, and an
enqueue in progress holds the lock.

`Counting` adds that the counters are the
cardinalities of the sets of calls that own a unit, and that an enqueue that
passed the limit test still has room when it pushes (`Room`); `Weighing` says the
same of the sums of their sizes.  `Budget` adds
who is inside a save gate (`Gates`): without it a cell could become clean
between a runner's test of `dirty_slot` and its commit.  That the counters
never go below zero, hence `TypeOK`, follows only from these.  `Drained` is about
the two loads of a drain check: admission is closed before them, so a call count
once found at zero stays there, and then no slot can appear any more.

Durability (`Durable`) says where the mutations are: a dirty cell is in the cache or
in a runner's hand, a cell in use contains what the database contains, and what ran
is in the database or in a dirty cell.  The refinement then maps every step.
A call leaves the abstract queue when it is answered, not when it is popped;
taking a call from the mailbox, in the three places where a runner does so, is a
stutter (`PopUnseen`), and every answer goes to the oldest call (`AnswerServes`).
`Owed` says which mutations a late save may still bring to the database: those that
were answered "unsaved", and the one being saved.

### Client streams

`Types` and `Bounds` (the capacities) come first; the methods of `ClientSession`
are described field by field (the lemmas `...Fx`) and every later argument uses
those descriptions.  `Wired` says what a reconnect may find: only the client's
last connection is open, it carries the stream unless its worker is still
authorized and waiting, a closed connection carries nothing, and while a captured
replay is not written its client has not been told that the stream is resumed.

For requests, the stream's `client_seq` is the remainder of a number that no
accepted request exceeds and the client has reached (`SeenSome`); since the
client's numbers only grow, a frame that passes `seq_after` is new, and no condition
on the modulus is needed.  For the limits, a deque is a suffix of the whole history
and what it dropped has left the window (`Forgotten`), so that a test of the deque
is a test of the window that ends now; `Within` extends it to windows that start
anywhere.

For messages, `Stocked` ties wire sequences to absolute numbers: the outbox is in
order and every entry's sequence is the remainder of its number (`Boxed`);
`dropped_through` stands for a number `d`, and what is beyond `d` and not received
is in the outbox (`Dropped`).  `d` is what makes `StillThere` inductive: eviction and
expiry move it, an acknowledgement does not, and a reconnect is refused by
comparing with it (`OutboxGap`).  For
`InOrder`, `Ordered` says that the numbers on a wire, then those of a replay, rise
above what the client has.  `NoSilentLoss` needs `Whole`: an answer that resumes
the stream comes before everything it replays (`Answered`), what is to arrive at
the connection that owns the stream is received, refused, on its wire or in its
replay (`Delivers`), and a client that is in the stream has not passed anything else
(`Confirmed`).

### Sessions

`Types` is not inductive alone, because a step reads the Gate and the Logic of its
worker; `Begun` says that what has begun has them.  Each action is described once
(`...Fx`), and the invariants are shown from that.  `TokenCurrent` is inductive:
a worker that holds a record holds the current token unless `raced`.  `Owned`: one
request is under way, it goes to the Logic of the record when there is one, and a
Logic that the record does not name has a session only while its request is about
to record or undo it.

`Agree` relates sessions, record, Logic and counts in the middle of every handler.
`Phases` is the control: one worker at a time, what each request, kick and
disconnect may be doing.  `Lives` says which sessions are live at a Gate: with a
closed connection only if a disconnect or a draining Gate will still take them
off.  `Known` says what Logic knows of a live session, `Records` that the record
names a live session or one that a named handler is still to clear or replace,
`Counts` that a count differs from the live sessions by kicks that have still to
subtract.  The four properties speak of states in which nothing is under way;
there every exception is empty.

### Mail

`Versions` orders the versions that exist: no snapshot is newer than the last
change, only one flush is under way, and none is older than the document it will
replace (`Forward`, from which `DiskForward`).  `Saves` is the dirty set's
contract: a changed player is registered; a clean one is stored, being written, or
its save failed (`Settled`); after the shutdown's flush nothing changes it
(`Final`).  `Claims` is independent of eviction: a claim that is not at
risk is in the cached player, in the snapshot a saver holds and in the document
before the player can be loaded again (`ClaimsKept`), so that a second claim finds
the mail spent.

### Items

`Accounted` is about the document, which a failed save leaves behind the cached
player; `Books` says the same of both, and `Clean` when they agree.  Each call
changes memory by the sums of its request; that these are the mathematical sums
unless one overflows is a lemma about `aggregate_items` (`ValidRequest`).

### Auth

`RoleInv`: a login under the lock knows the account that Mongo holds, since
nobody else can save it meanwhile.  `PlaceInv`: a request's clock reading is
never ahead of the clock, so no script call prunes an entry whose TTL runs.
`BookInv`: requests that have seen room are counted in the bound before they take
it, so that taking it changes nothing.

### Service processes

What is right about the order of steps is one predicate, `Ordered`: no step that
can fail follows the spawning of a task, every task that is spawned has a stop step,
and the count is deleted after its task was stopped.  It is established for
the five services by evaluation (`AllOrdered`), and `LifeInv` is inductive for
any steps that are so ordered: a service whose start or shutdown is changed only
has to meet `Ordered` again.  `MainWaits` is the part that is easy to miss: the
answer on the wire belongs to the step the process is at, so a late answer
cannot skip a step.

### Only model-checked

Liveness (`AcceptedCompletes`, `ShutdownEnds`, `Exits`), which is outside the
prover's reach.  The instances that the conditions above exclude are not proved
either; section 5 tells what TLC finds there.  The induction over sums that `KibExact` and `Accounted` need is done in
SumTheorems by the choice of a smallest counterexample among the subsets of a
finite set, because an induction rule with an operator as parameter cannot be
instantiated here.

## 5. Where code and documents differ

One run fails as expected, next to the passing run that shows the property once
the cause is excluded:

* `sessions_overlap`: the kick of a login that is not installed yet finds
  nothing; two sessions stay active.  (`sessions_takeover` has `Overlap = FALSE`.)

The passing runs leave out some more environments in which the code does not
keep a property.  Changing the constant named here in the run named here shows
each of them:

* `logic_live` with two players, `MaxKib = 1` and `LossyCache = FALSE`,
  `ShutdownEnds`: a call refused for its KiB while `shutdown()` waits gives its
  count back without a notification, and `shutdown()` waits for ever.  A caller
  still has to be inside `try_use`; the repository's README has xframe drain the
  RPC handlers first.
* `stream_limits` with `Pushes = TRUE`, `InOrder`: a mail pushed while a
  reconnect awaits `save_online` is delivered before the replayed messages.  ADR
  0012: "Gate replays only later outbox entries and then continues the same
  stream."
* `sessions_takeover` with `Reconnects = "any"`, `OneActive`: a retained stream is
  resumed after a login on another Gate.  ADR 0012: "Reconnect replaces the
  session only when the recorded session is either the disconnecting session or
  already offline."
* `sessions_takeover` with `Logouts = TRUE`, `RecordRight`: a logout aborted by
  its own client's close leaves the route in Redis.
* `sessions_owner` with `Overlap = TRUE`, `OneOwner`: two first logins pick two
  Logics.
* `sessions_owner` with `"busy"` among its `Faults`, `OneOwner`: a login whose
  `set_logic_owner` failed and whose undo the runtime refuses stays in a Logic
  that the record does not name.
* `auth_admission` with `"slow"` among its `Faults`, `OneRole`: a login whose
  account lock expires before its save creates the account a second time, and the
  gid that the first login returned is lost.

Some properties name their exception.  `NoSilentLoss` excepts messages that the
write queue `refused`: the client never gets one that it acknowledges past, and
ADR 0012 argues only for frames that "have already entered its live send path".
`StillThere` says that until then the message waits in the outbox.  `RecordRight`
excepts `Forsaken`: a reconnect that breaks between
`complete_reconnect` and `save_online` leaves the record with the session it
resumed, and a `kick_local` whose kick closes the worker's own connection may be
aborted before its clear; nobody clears those sessions any more.  `TokenCurrent`
excepts a token that was issued while a worker was between `load_online` and
`save_online` (`raced`): the save writes the older token back, and the new one is
refused.  `GrantedOnce` excepts mails `atRisk`: their claim was not stored when a
crash or an eviction dropped it.  `AnswerStored` excepts `silent` changes: an `add_items` that overflows
leaves what it had inserted in memory, visible and not dirty, to be stored by
the next save or lost.  `Accounted` and `Solvent` end with the first sum beyond
i64 (`wrapped`): `aggregate_items` wraps in a release build, after which an
addition can leave a negative count and `remove_items` can panic on an item that
is not there.

One more is plain from the actions: with `CloseRace` a close between `is_closed`
and `install_login` leaves an active session that never expires.

Where a property covers a hazard only in part, `PROJECT.json` says so.

## 6. Not modelled, and plan

Not modelled: what the metrics tasks and latency histograms report; the requests
of Query (one read of Mongo under a permit); configuration (parsed and validated
once, before anything is opened); the protocol registry and generated code
(message numbers and types); stores and catalog (single Mongo operations, which
the models take as atomic writes that may fail before or after they took effect);
the test clients.  Mongo, Redis, xframe, xnet and the cache crate appear only as
the components use them.

All parts of the plan are done: the Logic Runtime with its refinement, client
streams, sessions, mail with the item RPC of a claim, items, Auth and the service
processes, each with proofs.  What remains open are the environments of section 5, in which
the properties of sessions do not hold of the code as it is.
