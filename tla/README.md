# eOMI: a verification development

TLA+ models of the firmware in this repository (a web-of-things node for the
ESP32-S2, written in Rust), the TLC runs that check them and the TLAPS proofs
about them. The models are written from `src/` (paths below are relative to it:
`omi/engine.rs` is `src/src/omi/engine.rs` of this tree). Where a document in
`doc/` or `specs/` says something else, the model follows the code, and section 5
says where they part.

Contents: 1 the system; 2 the modules and how they correspond to the code; 3 the
runs, their bounds and the fairness assumed; 4 what is assumed of the outside;
5 disagreements between code and documents; 6 the proofs; 7 what is not modelled;
8 what would come next.

## 1. The system

The firmware keeps a tree of *InfoItems* (the O-DF tree), each with a history of
values, and serves it over HTTP and WebSocket in the O-MI protocol. Clients read,
write and delete items and *subscribe* to them: to each write (event
subscription) or every so many seconds (interval subscription), delivered to a
callback URL, to the client's WebSocket, to a script on the device
(`javascript://` URL), or into a buffer that the client polls. Items can carry
scripts that run when they are written (*onwrite*) or read (*onread*). Pins and a
serial bus appear as items. A device without WiFi credentials opens a captive
portal, or asks a gateway to let it in.

| Part | State | Operations | Talks to |
|---|---|---|---|
| Value history, `odf/value.rs`, `odf/item.rs` | ring of values | push, query | owned by the tree |
| O-DF tree, `odf/tree.rs`, `odf/object.rs` | objects, items, metadata | write_value, write_tree (a merge), delete, resolve | owned by the engine |
| Subscription registry, `omi/subscriptions.rs` | subscriptions, event index, interval queue, poll buffers, next id | create, cancel, cancel_by_ws_session, notify_event, tick_intervals, poll | owned by the engine |
| Engine, `omi/engine.rs` | tree, registry, script engine | process, tick, run_onwrite/onread/callback_script | behind one lock |
| Scripting, `scripting/` | one mJS interpreter, its globals, pending writes, depth | odf.readItem, odf.writeItem, nested onread scripts | tree |
| Server, `server.rs` | ws_senders, fd_to_session, pending_deliveries, provisioning status, page store | handlers of `/omi`, `/omi/ws`, pages, portal, update; dispatch_deliveries | engine, main loop |
| Main loop, `main.rs` | WiFi and portal flags, deadlines | a turn every 100 ms: drain and dispatch, pins, WiFi, onboarding, tick, save | everything |
| WiFi, `wifi_sm.rs` and its drivers in `main.rs` | state, network index, rotation, back-off; access point and DNS flags | boot, provision, reconnect, scan, factory reset | portal mode read by the server |
| Persistence, `device.rs`, `nvs.rs` | dirty flag, NVS blob | collect, save, load, replay at boot | engine, main loop |
| Onboarding, `wsop/` | joiner machine; gateway's pending requests | join request, approval, time-outs, polling | tree, WiFi |
| Pages, `pages.rs`; update, `ota.rs`, `compress.rs` | pages and their total; a lock, the flash slots, the decoder | upload, remove; upload of a firmware, restart, confirmation | server |
| Peripherals, `gpio/`, `board.rs` | pins, interrupt flags, last values | poll, drain_edge_events, sync | tree, by the main loop |
| JSON, `json/`; stored and exchanged blobs, `wifi_cfg.rs`, `wsop/protocol.rs`, `dns.rs`, `captive_portal.rs` | none (pure) | lex, parse, write, encode, decode | all of the above |

Two threads matter. The **HTTP task** of ESP-IDF runs all handlers, one after the
other; the **main loop** does the rest; interrupt handlers set flags. The threads
share the engine, the senders, the queue of deliveries and the provisioning
state, each behind a lock of its own; neither holds two of them at once
(`server.rs:3-4`). A few flags are atomics (`nvs_dirty`, the portal mode, the
edge flags).

### What is hard here, and what would make it right

* *Registry*: five structures kept in step by hand, with cancellation from five
  call sites, while time runs and jumps (SNTP) and ticks come late. Right: the
  indexes agree with the subscriptions; every slot of an interval fires once;
  nothing is delivered after expiry; what expired goes.
* *Server*: deliveries leave the engine lock and travel through a queue and a
  senders lock, while connections open, vanish and close and sends fail half-way.
  Right: subscriptions and senders end with their connection; nothing queued is
  lost, repeated or reordered.
* *Scripts*: a write starts scripts that write, which start scripts; one
  interpreter with one set of globals serves scripts nested in one another.
  Right: subscribers end with the value the item ends with; each script sees its
  own globals, and its own writes. Not limited: how long callback scripts may
  set one another off.
* *Paths*: the tree trims the segments of a path, while the event index, the
  guard against self-reads and the compiled onread scripts go by the text. Right:
  whoever uses the same text is served; whoever does not, is not (section 5).
* *Persistence*: writes are acknowledged before they are saved, and a restart
  comes at any time. Right: an acknowledged value is lost only if the power goes
  before its save or after a failed one, if the boot overwrites it, or if the flash
  cannot be read; any other is in flash and in the tree; a dirty flag is never
  missed.
* *WiFi*: the machine returns actions that its drivers carry out, or drop. Right:
  connected, or trying with a timer set, or reachable by a user.
* *Onboarding*: many devices talk through items that keep one value and that
  nothing empties. Right: none gets in without approval, none fails because of
  an answer to another, all come to an end.
* *Update*: some fifteen ways out of one handler, and a power failure between
  any two of its steps; a compressed stream cut into chunks anywhere. Right: there
  is always a firmware to start; lock and handle are released; what is flashed is
  what was sent.
* *Peripherals*: an interrupt disables itself and the loop enables it again while
  the next edge may come. Right: no edge lost or counted twice, no value sent
  twice.
* *Formats*: lengths in one or two bytes, blobs limited to 4000, fields cut
  anywhere, escapes, nesting limits. Right: what is written is read back; what is
  cut short is refused; a message means what it says.

`PROJECT.json` lists the hazards one by one at their lines, with the properties
that answer them, and says of the others why none does.

## 2. The modules

```
BoundedFifo   <- implemented by - PollBuffer, ValueRing     ring buffers, slot by slot
  ValueFlow                       history -> poll buffer (both composed)
SubscriptionRegistry              the registry as a value, one operator per method
  Subscriptions                   requests, tick and clock
  Server                          HTTP task and main loop over the same registry
ObjectTree                        the O-DF tree as a value
  Device                          engine with scripts, dirty flag, save, restart
  OnreadScripts                   scripts inside scripts, in one interpreter
    ScriptMeaning                 what a read is to give, by recursion
WifiSm                            the machine of wifi_sm.rs as operators
  WifiLifecycle                   its drivers, portal, forms, flash, radio
OnboardSm                         the machine of onboard_sm.rs as operators
  Onboarding                      joiners, gateway, owner
GzipStream <- GzipFormat          the decoder, and the format it has to follow
Pages, GzipFormat <- Ota
  Web                             page store and firmware update (both composed)
Peripherals                       pins, interrupts, a bus, the loop's turn
Blobs <- JsonLexer <- Encodings   bytes: blobs, tokens, strings, base64, hex, DNS, forms
JsonParser <- JsonWriter <- Messages   a message's tokens to its meaning, and back
*Proofs                           theorems (section 6)
MC*.tla, *.cfg                    instances for TLC
```

In every module an action is a handler, a critical section, or a turn of a loop
that holds a lock; helper operators keep the names of the functions they model.
A definition marked *Mutant* is a variant of the one that follows it, as a
plausible slip would have it; under it TLC finds the property it belongs to
violated. Each property of a passing run has one.

**ValueRing, PollBuffer, BoundedFifo, ValueFlow.** `Push` and `Drain` are the
methods, `Get` and `OldestIndex` the index arithmetic, `QueryResult` the query.
`BoundedFifo` is the abstract specification both implement, by the refinement
mappings `Held` and `OldestToNewest`. Because they do, other modules use
sequences.

**SubscriptionRegistry, Subscriptions.** A registry is a record with the fields
of the struct; each method is an operator to the registry it leaves behind
(`Created`, `Cancelled`, `Notified`, `Fired`, `Polled`). Requests are one step, but
for two that hold the engine lock over several. `tick_intervals` is a loop over the
queue, so it is `TickBegin`, then `TickDrop` or `TickFire` per turn, then `TickEnd`,
with its `now` fixed at the start while the clock (`Advance`) runs on. A write
stores (`Write`), its onwrite script may write the same item again or others
(`ScriptWrite`, on the stack `writing.todo`), and then it is announced (`Announce`)
with the value read back from the tree, as `notify_write_event` does. `Path` is the
set of *texts* of paths and `ItemOf` what parsing makes of them: the tree goes by
items, the registry by texts. Times are integers in units of the shortest interval
accepted.

**Server.** One step per critical section. HTTP: `HttpWrite` (engine) then
`HttpQueue` (queue); `Connect` then `HttpJoin`; `Close` then `HttpCancel` (engine)
then `HttpLeave` (senders); subscriptions and cancellations. `http.at` says where
the handler in progress is. Main loop: `stack` holds the calls of
`dispatch_deliveries` in progress: `MainDrain` starts one, `MainSend` sends under
the senders lock (any set of the sends that may fail, fails), `MainScript` runs
one callback script under the engine lock and pushes a call for what its writes
notify, `MainReturn` cancels the sessions that failed. `written`, `newest` and
`seen` are history variables.

**ObjectTree, Device.** The tree is a record of objects and items by path;
`write_value`, `write_tree` with `Merged` (`Object::merge_from`), deletion and
resolution with their refusals are operators. They take texts, sequences of
segments; `Parsed` is `parse_path`, with the constant `Trimmed` for the segments
that have blanks around them. In `Device` the work of the holder
of the engine lock is a stack of tasks (`todo`): a write stores and puts its
script's writes and then its notification on top, which is the recursion of
`process_write_single` and `run_onwrite_script`. The HTTP handler replies after it
set `nvs_dirty`; the main loop clears the flag (`TakeDirty`) and only then
collects and saves (`Save`), which may fail; `Crash` leaves only the flash, and the
boot builds the tree (`Populate`), loads and replays (`Restore`). History variables
follow the promises: `answering` is what the answer under way will promise (of a
written tree the writable items, as others are never saved), `acked` what was
promised and not replaced since, and stays through a crash; `lost` names those of
them that the device did not keep, each put there by the step that lost it.

**OnreadScripts.** `frames` is the stack of scripts that run inside one another;
`globals` the interpreter's `event`, `odf` and `__ctx`. A script is a list of
calls of readItem and writeItem and what it gives at the end; its value is the
tuple of what it saw, so that two computations agree exactly when they saw the
same. `failed` is the error the interpreter keeps. `ScriptMeaning` says what the
engine is to answer by a definition over the depth of nesting, without stack,
globals or error flag: there a script that fails gives way to the stored value,
wherever it runs, as the specification of onread scripts has it.

**WifiSm, WifiLifecycle.** Each method of the machine is an operator from a
machine to the machine and the action it returns. The drivers carry the action
out in steps of their own (`attempt`), since an attempt to connect takes seconds in
which networks come and go. `apActive`, `dns`, `deadline` are what main believes;
`radio`, `link`, `air` what is so.

**OnboardSm, Onboarding.** `joiner[d]` runs the machine, one action per state.
`request`, `approval`, `response` and `board` are the newest values of the four
InfoItems; the gateway's turn is `GatewayJoin`, `GatewayApprove`, `GatewayExpire`,
`GatewayList`, with clients in between. A key pair and nonce are the pair of
device and attempt.

**GzipStream, GzipFormat, Ota, Pages, Web.** The decoder byte by byte, each field
with its counter; the update from lock to restart with every error return; `boot`,
`slot` and `running` are what ESP-IDF's bootloader keeps (external). Deflate is a
literal, an end, or garbage; checksum and size of an output are functions of its
length, in four bytes. `GzipFormat` is the reference: where each field of a whole
stream ends, how much the first n bytes decode to, and which streams are sound. It
says nothing of chunks and counters.

**Peripherals.** Interrupts (`Edge`) come between any two steps; `Service` is the
order in which the loop swaps a pin's flag and enables its interrupt. Outputs and
the bus are driven from their items by `last` and `lastTx`.

**Blobs, JsonLexer, Encodings; JsonParser, JsonWriter, Messages.** Pure functions,
byte by byte for the first three, token by token for the others. `Messages.Means`
is the reference definition: what a document means by the rules of the message
format, written over the document and not over tokens.

## 3. The runs

| Run | Asks | Bounds | States |
|---|---|---|---|
| `subscriptions` | indexes agree; slots fire once; none after expiry; ticks serve all due; expired ones go; every write is told with the value the item has by then | 1 text, 2 values, one URL and session, 2 places, 3 subscriptions, clock to 3, intervals -1, 0, 1, 2, lifetimes 0, 1, 3, poll buffers of 1, 1 write by a script | 667,000 |
| `server` | no orphans, no leaked senders; writes sent in order, and to the last; queued ones served; failed sessions cancelled | 2 sessions on one descriptor that is reused, 2 subscriptions, 2 writes, 3 paths and a chain of 2 scripts: one on `a` that writes `b`, one on `b` that writes `c`; the portal opens, any send may fail | 571,000 |
| `device` | subscribers end with the item's value; saved unless dirty or lost in a listed way; saved in the end | 2 requests of every kind, paths with blanks among them, 1 crash, 1 failed save or load, depth limit 4, room for 2 items in flash | 124,000 |
| `reading` | globals are own; scripts read their writes; the answer is the defined one; histories and poll buffers are bounded FIFOs; queries keep their promise | some 2,200 trees of 3 items with 10 scripts that read one another in cycles, one under another text of its path, depth limit 4, 15 requests; a history of 3 and a poll buffer of 2, which wrap at different times, so that every alignment is reached | 164,000 |
| `wifi` | DNS off when connected; reachable when given up; portal only after all were tried; forms answered; retries end | 2 networks, 2 forms, 1 restart, 1 fault, 2 rotations | 169,000 |
| `onboarding` | only the approved get in; failures are own; joiners end | 2 devices with 2 attempts each, a queue of 2, windows of 1 tick | 595,000 |
| `web` | total exact; decoder in step; flashed as sent; never bricked; idle is clean | all 16 sets of optional gzip fields, an empty extra field, another method, wrong sums, garbage, bytes behind the trailer; chunks of up to 5 bytes; page store of 5 bytes | 171,000 |
| `peripherals` | edges kept; values sent once; pins settle | the board of `boards/esp32-s2-wrover.toml` with an edge pin, 2 writes, 2 edges, 1 fault | 799,000 |
| `formats` | round trips; cuts refused; the lexer and the parser agree with what a text means | field lengths at 0, 1 and around 32, 255 and 4000; code points at the ends of their ranges; every prefix of an image of up to 120 bytes and eight chosen ones of a longer one; some 2,700 documents, sound and unsound | 51,000 |
| `nested`, `dark`, `typed` | violations, see section 5 | the same modules, on instances as small or smaller | |

Why the bounds are enough. Two entries suffice for any order between two (queue,
deliveries, indexes); a third subscription makes the registry of two places refuse and
reuse one; a clock to 3 with interval 1 lets a late tick fire one subscription several
times while another expires. Two sessions on one descriptor let one be torn down while
the next is set up. With two scripts in a chain and two subscriptions, a call of
`dispatch_deliveries` set off by a script sends, and fails to, inside another call, or
runs a script itself; a send below that would need a third subscription, which two
sessions and two writes leave no room for. One restart and one fault can come between
any two steps. Two attempts of two devices fill the queue, so that a retry finds it
full and an old answer meets a new attempt. A chunk of 5 bytes spans every field of a
gzip header and cuts each. Depth limit 4 is the firmware's own. Where a theorem of
section 6 states the property, it holds without the bounds.

`TypeOK` is an invariant of no run by itself: the theorems `TypeCorrect` prove it
for `Subscriptions` and `Server`, and the invariants of the others' proofs contain
their types where a proof needs them. Deadlock is not checked where the bounds, or
a joiner's end, stop the system.

**Fairness.** *Subscriptions*: weak for the steps of the tick (sequential code in a
loop without end), the announcement of a write and the clock; strong for the start of
a tick, since writes that come for ever take the engine lock again and again, and a
FreeRTOS mutex is handed to the tasks that wait for it. *Server*: weak for a handler
that has started and for the main loop. `QueuedIsServed` and `FailedAreCancelled`
suppose that no script sets itself off again (`NoCircle`): without that the recursion
need not end (section 5). *Device*: weak for the holder of the engine lock and the
HTTP handler; strong for the main loop's turns that need the lock (`TakeDirty`, `Save`
and the boot), since its turns come for ever and the lock is not always taken.
*WifiLifecycle*: weak for what the main thread is in the middle of, strong for the
checks every turn of its loop makes, as their condition may come and go between turns.
*Onboarding*: weak for each joiner and the gateway. *Peripherals*: weak for the loop.
No fairness of clients, owners, networks, interrupts, or the success of anything that
may fail.

## 4. Assumptions about what is outside

The HTTP server of esp-idf runs its handlers one at a time, calls the WebSocket
handler once with `is_new` and once with `is_closed` for each connection, and
reuses a descriptor only after the latter returned. A detached sender writes to
the connection it was made for, or fails. Mutexes are never poisoned
(`lock_or_recover`). NVS writes are atomic. `esp_ota_begin` refuses while the
running firmware is on trial; the bootloader gives a new firmware one trial and
goes back if it was not confirmed. `mjs` keeps an error until the next execution.
An interrupt handler runs to its end. These are marked external in `PROJECT.json`.

## 5. Where code and documents part

Shown by a run:

* **dark** - after a form that led to a connection, `ap_active` stays set although
  the access point is gone; when all networks are lost later, the machine enters
  Portal and `start_ap` is skipped (`main.rs:946`, `:1057`).
  `specs/002-wifi-provisioning/spec.md:37` says that the device reopens its portal.
* **typed** - a script's write with `{type: "hex"}` is decoded when it is stored and
  again when it is sent, which fails; nothing is sent (`omi/engine.rs:657`,
  `gpio/peripheral/uart.rs:117`). `specs/005-gpio-peripheral-system/spec.md:72`
  says that the decoded bytes are transmitted.
* **nested** - a nested onread script that fails leaves the interpreter's error set,
  so that the script that read it is stopped too (`scripting/bindings.rs:585-592`,
  `vendor/mjs/mjs.c:8962`), and the stored value of *its* item is answered.
  `specs/006-infoitem-onread-trigger/spec.md:72` (FR-005), `:57`, and the comment at
  `bindings.rs:592` have the reader go on with the stored value of the item it read.

Met while modelling, and modelled as the code has them:

* **Texts of one path.** `parse_path` trims segments (`odf/tree.rs:61-64`), so that
  `/a/ b` and `/a/b` are one item; the event index is keyed by the text
  (`omi/subscriptions.rs:223`, `:290`; `omi/engine.rs:277`). A write under one text is
  not told to subscribers of the other. `doc/omi-lite.md:526` says that a response
  is sent when a subscribed value changes. `Subscriptions` keeps texts and items
  apart; `WriteNotifiesAll` promises no more than the code does, to the subscribers of
  the text written.
* The guard against self-reads compares texts too (`scripting/bindings.rs:510`), and
  so does the exception of the compiled functions (`omi/engine.rs:757`): a request
  for `/D/ b` sets off the script of `/D/b`, whose read of `/D/b` runs it once more,
  against `specs/006-infoitem-onread-trigger/spec.md:75` (FR-008). The depth limit
  ends it. The `reading` run has such requests.
* **Durability.** A write is answered when its value is in memory and the dirty flag
  set (`server.rs:605-617`); the main loop saves later (`main.rs:824-828`) and only
  logs a failure. `doc/omi-lite.md:398` says that the server must not respond with
  success until the write is durable. `Device` keeps every promise in `acked` through
  crashes, and `SavedUnlessDirty` says what is left of them: `lost` names those the
  code did not keep.
* **Cascades without a limit.** `dispatch_deliveries` and `run_callback_script` set
  each other off without a depth (`server.rs:337`, `omi/engine.rs:1059`): two scripts
  that write each other's items recurse for ever.
  `specs/008-javascript-callback-subscriptions/spec.md:63` (also FR-012, `:87`, and
  SC-007, `:107`) relies on the script depth limit. `QueuedIsServed` and
  `FailedAreCancelled` suppose `NoCircle`.
* The serializer leaves out the values of an item that has none
  (`json/serializer.rs:343`), and the parser demands them (`json/parser.rs:431`).
  `specs/007-lite-json-parser/spec.md:118` (SC-004) has all valid messages survive.
  Such messages are among those of the `formats` run; `RoundTrips` says that they are
  refused, and that all others survive.
* Deletion never touches the registry: subscriptions on what was deleted stay and
  are told nothing (`omi/engine.rs:1083`); `doc/omi-lite.md:420` says they receive
  an empty notification and stop.
* After one failed send over a connection that stays up its sender is gone and its
  session still mapped: later subscriptions over it are accepted and never
  delivered (`server.rs:317`; `doc/omi-lite.md:545`).
* With `deny_api_during_provisioning` a WebSocket opened in portal mode is not
  closed and not mapped; a subscription over it belongs to session 0 and outlives
  it. `NoOrphans` exempts session 0 by name (`server.rs:647`).
* `expire()` is called by tests only; an event subscription past its lifetime goes
  when its path is next written or its rid polled.
* A nested onread script of several statements gives `undefined`, so the stored value
  is read (`specs/006-infoitem-onread-trigger/spec.md:74`). One that is read under
  another text of its path is not found among the compiled functions
  (`scripting/bindings.rs:332`), with the same effect. `ReadsOwnWrites` compares the
  texts of writes and reads, as the code does (`bindings.rs:543`).
* A written tree replaces an item that exists, its history included
  (`odf/object.rs:57-67`), as does a boot that builds its sensors;
  `doc/omi-lite.md:395` says that values are appended, not replaced. Its items are
  stored as they come: without a look at writability, and those that are not writable
  are answered with success and never saved, so that they are no promise in
  `SavedUnlessDirty`.
* `write_tree` inserts the ids of a tree as they come (`odf/tree.rs:358-400`), with
  blanks, empty or `..`, although no path can name such an Object afterwards. The
  models take ids to be trimmed.
* Edges, sensors and digital inputs are written past the engine (`main.rs:441`), so
  that event subscribers of these items are told nothing, against
  `doc/omi-lite.md:526`.
* The joiner asks for URLs `/write` and `/read` that the gateway does not serve
  (`wsop/joiner.rs:421`, `:432`). `Onboarding` has this as the constant
  `ServesJoiner`; the run and what it shows suppose that they are served, the
  theorems hold both ways.
* A board that lists I2C before UART never starts the UART (`break` in
  `boards/esp32_s2_wrover.rs`); the run lists the UART first.
* A pin whose interrupt could not be enabled again stays deaf (`gpio/pwm.rs:392`;
  exempt in `EdgesAreKept`). Infinity, which the lexer reads from `1e999`, is
  written as null.

## 6. What is proved

Proofs need no bounds: they hold for every value of the constants that satisfies
the named assumptions, through any number of steps. Each follows the same lines:
an invariant `Inv` holds initially (`InvInit`), every step keeps it (`InvStep`, from
one lemma per action), so it always holds (`Invariance`), and it implies the
property.

| Module | Theorem | Property |
|---|---|---|
| `SubscriptionsProofs` | `TypeCorrect`, `QueueAlwaysSorted` | types; the queue is sorted |
| | `IndexesAlwaysAgree` | `IndexesAgree` |
| | `EverySlotFiresOnce` | `OneFiringPerSlot` |
| | `TicksServeAllDue` | `TickServesAllDue` |
| | `WritesNotifyAll` | `WriteNotifiesAll` |
| | `NoneDeliveredAfterExpiry` | `NoDeliveryAfterExpiry` |
| `ServerProofs` | `TypeCorrect` | types |
| | `NoneOrphaned`, `NoSenderLeaks` | `NoOrphans`, `NoLeakedSenders` |
| | `WritesSentInOrder` | `InWriteOrder` |
| | `SubscribersKeptUpToDate` | `SubscribersUpToDate` |
| `DeviceProofs` | `Invariance` | types, and what the invariant says of the lock and the tasks |
| | `SubscribersToldFinalValue` | `SubscribersSeeFinalValue` |
| | `AcknowledgedIsSaved` | `SavedUnlessDirty` |
| `ReadingProofs` | `ScriptsSeeTheirOwn` | `GlobalsAreOwn` |
| | `WritersReadTheirWrites` | `ReadsOwnWrites` |
| | `HistoryImplementsFifo`, `PollImplementsFifo` | `HistoryIsFifo`, `PollIsFifo` (refinements) |
| | `QueriesKeepPromise` | `QueryKeepsPromise` |
| | `AnswersAsDefined` | `AnswerAsDefined` |
| `WifiProofs` | `DnsOffWhenConnected`, `ReachableWhenGivenUp` | `CaptiveDnsOff`, `GaveUpIsReachable` |
| | `PortalIsLastResort` | `PortalAfterAllTried` |
| `MainLoopProofs` | `NoneGetsInUnapproved`, `NoneFailsForAnother` | `OnlyApprovedGetIn`, `FailuresAreOwn` |
| | `NoEdgeIsLost`, `NoValueIsSentTwice` | `EdgesAreKept`, `SentOnce` |
| `WebProofs` | `AlwaysBootable`, `AlwaysClean` | `NeverBricked`, `IdleIsClean` |
| | `TotalAlwaysExact` | `TotalIsExact` |
| | `DecoderKeepsInStep`, `FlashedAsSent` | `GzipInStep`, `FlashIsUpload` |

**Subscriptions** (from `RegistryAssumption`, `BoundsAssumption`, `ItemAssumption`).
The invariant is types, `IndexesAgree`, a sorted queue and `OneHolder`: a write is
announced while no tick runs. The first three lean on one another: that the queue
stays sorted needs each rid to be in it at most once and to have a subscription; that
cancellation restores `IndexesAgree` needs the event index to hold exactly the
subscriptions of its text; and while a tick runs, the rids it popped for good are in
no queue, so `Indexed` takes them as a parameter. The steps are lemmas about the
registry's operators alone (`SubscriptionRegistryProofs`). `OneFiringPerSlot` needs a
second induction over the history variable. For `WriteNotifiesAll` the tree holds a
value for the item of every text whose announcement is due, and an announcement reads
just that value back, for all the texts of the write, one after the other
(`TreeHolds`, `AnnounceFinds`).

**Server** (from `RegistryAssumption`, `ServerAssumption`). Besides types and the two
properties the invariant has `JoinsOpen` (a handler about to add a sender does so
for a session still open) and `FreshDescriptors` (a descriptor not connected has no
session). The main loop only takes subscriptions and senders away, which is one
lemma for all its steps. The order proof adds `Numbered` (what was seen or is under
way is no later than the last write), `ScriptsAbove` (only the call at the bottom of
the stack carries writes over HTTP) and `OnlyQueued`. That subscribers are kept up to
date rests on the order: `Informed` (the last write to its path was sent to a
subscriber that has a sender, or is under way to it) outlives a send because nothing
under way is newer than the last write (`NotAhead`) and nothing older follows what
was seen (`InWriteOrder`); it outlives the coming of a sender because that sender's
session has no subscription yet (`NoneJoining`, with `SessionsGiven`: a number is
given once), and `OnlyEvents` says that a subscription told by a write is woken by no
other thing.

**Device** (from `DeviceAssumption` and `TreeAssumption`). `Promises` follows a value
from the write to the reply: `TouchedKept` while the engine works on the request (it
is in the tree, where a save will collect it, and is no promise yet), `AnsweringKept`
while the handler still has to mark the data dirty, `AckedKept` once the client was
told. Each says where the value is,
unless its key is among the `lost`: in the tree, or in flash with the boot about to
restore it; and in flash unless a save is due, under way or failed. Promises end only
when a write or a deletion replaces the value, and go to `lost` only by a step that
loses it (`Outlive`, `Forgotten`, `Losing`); a crash ends none. Promises are kept by
key, while requests come with texts: `Trimming` and `ParsedTexts` say that parsing a
key gives the key again, and that a text and its key find the same item. That the flag
is taken *before* the tree is collected is what `AtRisk` needs, and that the tree is
only collected under the lock is `Exclusive`. `RefusedAlone` makes an error answer
mean that nothing was stored. `ToldOrDue` says of every subscriber to a path touched
that it was told the newest value or that a notification is still on the stack of
tasks, whatever scripts put above it.

**ValueFlow** (from `CapacityAssumption` and, for queries, `CountsAssumption`). The
argument orders the slots of a ring by age: a write moves the values of all slots but
the oldest one place forward and puts the new one last (`MovedOn`, `SlotsApart`),
which is what `Kept` does to a sequence (`QueueGrows`, `QueueMoves`). `FlowInv` says
that a ring that is not full fills from its first slot on (`HistoryInv`) and that head
and length are in range (`PollInv`); `NewestIsNotified` carries a value from one ring
to the other. A query is what its promise says because the values `retain` keeps are
listed by an ascending list of places (`Lists`, by induction over the loop:
`EveryPlace`, `RetainedLists`); the count limit takes a part of that list
(`ListedPart`), and the k-th place from its end has k - 1 others after it
(`ListedCounts`, `LatestFirst`).

**OnreadScripts** (from `ScriptAssumption`, which gives the types of trees and
scripts). `GlobalsAreOwn` is not inductive: when a script returns, the globals it puts
back must be right for the one that goes on. `AllProper` says so for the whole stack:
what each frame has saved is proper for the frame beneath it. `IsStack` supplies the
types, for whatever sets of paths, scripts and values there are. `ReadsOwnWrites` adds
`WriterInv`: a script that writes runs alone, since for it no onread script is
compiled, and for each path the last write pending is that of the last call accepted
(`Matches`); its reads are never taken for reads of itself, since its context has the
empty path (`WriterContext`) and what is left of a path under `/value` is not empty.
`AnswerAsDefined` adds `MeaningInv`: a frame at depth d has so far seen what the
definition lets a script at that depth see (`Faithful`), and the frame beneath it
waits for just that script's answer (`Awaits`). Once the error flag is up it stays up,
every script of the stack fails in its turn, and the stored value is answered: only
the frame at the top may then have seen an error. Scripts are named by texts; the
property, and with it the proof, is about trees and requests that write paths as the
tree lists them (`PathsAsListed`), since the guards against recursion compare texts.
The definition is a function on the depths, so that its equation comes from the
existence of its levels (`LevelsExist`, `NestedIs`); scripts, items and requests have
the types of `ScriptAssumption`.

**WifiLifecycle** (from `MaxRotationsAssumption`, `CredentialsAssumption`). `DnsOK`,
`DeadlineOK`, `AttemptOK` and `RadioOK` say for each place of the main thread how
machine, responder, timer, action under way and radio agree; the machine's operators
are described once, by what they return (`FailureOutcome`, `LostOutcome`, ...), and
never opened again. `PortalAfterAllTried` adds `Rounds`: the machine's number of
credentials is that in memory, the attempt at hand is the one the machine is at, and
in every rotation but the first the credentials before it have been tried
(`GoesThrough`). It is proved for two rotations or more, of which main.rs makes five:
the first rotation after a form begins at the form's new credential, and with one
rotation would open the portal without the older ones. `AddedAllSeq` gives the list
that the recursion over a form's credentials makes its type, by a least
counterexample.

**Onboarding** (from `OnboardingAssumption` and the machine's). `AnswersBacked`: the
newest approval and response go back to a decision; `UseBacked`: whoever decrypts,
or has, has been approved.

**Peripherals** (from `PeripheralsAssumption` and, for the bus, `NamesAssumption`: no
pin is named like an item of a bus). `EdgesInv`: an interrupt that is enabled has set
no flag, so that an edge never falls on a flag still set; and while a pin is served
its flag is clear and its interrupt disabled, which is what clearing before enabling
gives. `WireInv` numbers the writes: the ids sent rise and do not exceed the last one
given, and the newest value is either newer than all that was sent or the one the bus
remembers (`NewestOnce`), so that nothing but a new write is sent next.

**Web** (from `PagesAssumption`, `GzipAssumption` and, of uploads, that they are bytes:
`OtaAssumption`). `RunningOK`: the running firmware is
confirmed, or on trial beside a confirmed one. `BootOK`: what is started next is the
running one, or, before the restart, a whole new one. `UpdateOK`, `HandleOK`,
`LockOK`: where in the handler an update may write, and what is open there. The
total of the page store is the number of units its pages hold, which are sets apart
from one another (`UnitsApart`), so that what a page adds or gives back can be counted.

The decoder: `InStep(g, s, m)` says what it keeps after the first m bytes of a stream s,
field by field: the bytes of a fixed field gathered so far (`Gathered`), what is left
of the extra data to skip, whether the data have ended and what waits to be handed
out. `Consumes` shows that an iteration of `feed`'s loop on any further piece of s
leads from there to a later place of s, or to failure, and then s is not sound
(`Advances`); one lemma per field, of which each compares a counter or a search in the
piece with an end defined over the whole stream (`Collects`, `FoundInPiece`).
`FieldFollows` compares the decoder's tests of the header's flags with the order of
the ends. `UploadFed` carries it through the handler: at every step the decoder has
taken all but what is left in the chunk, and what was written and what is ready to be
written add up to what it gave out. No stream is assumed to be well-formed, and a field
may be as long as it likes.

Model-checked only: all liveness (out of the prover's reach); and `formats`, whose
modules define by recursion what data mean.

About the prover: tlapm 1.4.5 translates sequences for Z3 with the axiom that a
function is of length n exactly when its domain is `1 .. n`, for every n, which is
false of functions of other domains and of negative n. The proofs keep such
functions out of the leaves that speak of lengths: where a ring's slots begin
at 0 they are counted by `On`, and its contents meet `Append` and `Tail` only as a
function on `1 .. n`.

## 7. Not modelled, and why

* Cryptography: a sealed answer is one that only its attempt can open.
* Authentication, HTML, response wording, the LED display, memory statistics:
  no state that a property is about.
* HTTP POST callbacks (no state); reads of whole Objects (change nothing).
* The mJS interpreter, mDNS, SNTP, ryu's formatting of f64, deflate: libraries.
  Scripts are lists of calls; discovery is what a list of peers does to the tree.
* SPI, which no board sets up; the hidden access point of a gateway.
* Notification of subscribers about edges and sensors: the code makes none.
* Memory exhaustion, `u32` wrap-around of rids and session ids, f64 rounding of
  times; a panic counts as a restart.
* The main loop as one process: each of its duties is in the module of what it
  serves, since they share only the engine lock, which each takes anew.

## 8. What would come next

Lifetimes in `Server`; a module that interleaves all duties of the main loop over one
engine lock; the written form of a message as a relation between documents and token
sequences, so that `RoundTrips` could be proved without recursion.
