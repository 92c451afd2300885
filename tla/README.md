# Verification of galaxIA-SDK

TLA+ modules, TLC configurations and TLAPS proofs about the SDK of the FHS
network (`rust/fhs`, `packages/*`, `apps/satellite-web`). Paths below are
relative to the root of the repository; `p2p/` stands for `rust/fhs/src/p2p/`
and `web/` for `apps/satellite-web/src/node/`.

Contents: [the system](#1-the-system) ·
[modules](#2-modules-and-the-code) · [runs](#3-runs-bounds-and-fairness) ·
[proofs](#4-proofs) · [disagreements found](#5-where-code-and-text-disagree) ·
[what is left out](#6-not-modelled) · [plan](#7-plan)

## 1. The system

A *Navigator* (client) wants a mission done, *providers* do it, and a
*bootstrap* introduces them. They talk over libp2p: signed GossipSub messages
(advert, offer, bid, assignment), a DHT record with the provider's addresses,
and one direct stream per mission with length-prefixed signed envelopes.

| Component | Code | State | Operations | Talks to |
|---|---|---|---|---|
| Decode budget | `p2p/framing.rs` | semaphore `BUDGET`, counter `WAITERS` (both global), a permit per frame | `reserve`, `read_frame`, `read_verified`, `write_envelope` | every stream, of providers and of clients |
| Stream limits | `p2p/limits.rs` | total and count per peer, behind a mutex | `try_admit`, `Drop` of a permit | `provider::serve` |
| Provider | `p2p/provider.rs` | a task per stream, `Reply` with its `broken` flag, two broadcast subscriptions | `serve`, `run_stream`, `bid_loop`, `assign_log` | limits, budget, `NodeHandle` |
| Client | `p2p/client.rs` | a session under an outer timeout | `chat`, `call_tool`, `open_session`, `dial_provider` | budget, auction, provider |
| Auction | `p2p/mission.rs`, `BidCollector` of `p2p/node.rs` | open windows by mission id, with a `Notify` each | `run_mission_cycle`, `collect`, `deliver`, the selection rule | providers over gossip, `connected` |
| libp2p actor | `p2p/node.rs` | connections, pending dials, listen addresses, watch channels, last adverts | event and command handlers | everything |
| Bootstrap and DHT loops | `p2p/node.rs` | back-off, `connected_once`, watch channels, a `Notify` | `bootstrap_loop`, `dht_beacon_loop` | actor |
| Adverts | `advertise_loop` of `p2p/node.rs`, `p2p/peer_cache.rs` | beacon, entries by DID with their expiry | `upsert`, `get`, `live`, `set_advertise_beacon` | auction, command tables |
| Mobile provider | `web/satellite-node.ts`, `web/provider-core.ts` | the verified Navigator, `AssignmentBook`, `bidded`, `active` | `onAdvertise`, `onOffer`, `onAssign`, `serve` | Navigator, engine |
| Engine | `web/engine.ts`, `worker.ts`, `packages/satellite-capabilities` | a worker and its pending calls | `solve`, `run`, `reset` | mobile provider |
| Mission log and page | `web/metrics.ts`, `web/ui.ts` | records by short id, the running node, the wake lock | `touch`, `join`, `leave` | mobile provider |
| Identity | `p2p/identity.rs`, `web/identity-store.ts` | a key in a file or in IndexedDB | load or create | everything |
| Command tables | `rust/fhs/src/commands.rs`, `packages/fhs-protocol/src/commands.ts` | a table built from the peers | `from_peers`, `resolve`, `classify_line`, `parse_args`, `validate_result` | adverts |
| Authorisation | `rust/fhs/src/authorization.rs`, `p2p/dynamic.rs` | none | digests of what a person authorises; values from and to JSON | command tables |
| Signatures | `rust/fhs/src/signing.rs`, `p2p/wire.rs` | none | sign, verify, seal, convert | everything |
| IPFS client | `rust/fhs/src/ipfs.rs` | none of its own; the pins of a daemon | `add`, `pin_rm`, `pin_ls`, `cat` | a Kubo daemon |
| WASM capabilities | `packages/satellite-capabilities-wasm/src/lib.rs` | none | CURP, arithmetic | engine |
| TLS | `p2p/tls.rs` | none | reads certificates at start | provider |

What is hard in it: futures that are dropped at an `await` by an outer timeout;
global counters that many tasks move; gossip that loses, repeats, delays and
reorders; clocks that differ; watch channels that show only the last value;
JavaScript handlers that check, await and then act; and limits (budget, waiting
room, streams, book) whose exhaustion must not be permanent. PROJECT.json lists
the hazards one by one, each with its line and the properties that watch it.

What makes each component correct:

- *Budget*: permits are conserved on every way out of a frame; the memory of
  frames in flight stays under the budget; the waiting room is bounded and
  refuses only when full; a reservation always ends.
- *Streams*: the counters are the live streams; neither limit is exceeded; a
  permit comes back once its Navigator has gone; a completed answer has no hole.
- *Auction*: the winner obeys the rule over the bids that came in time, though
  connections change while they are filtered; every cycle ends; no window
  outlives its cycles.
- *Adverts*: a reader does not go back to an older beacon, and does not lose a
  provider that keeps advertising.
- *Link*: `connected` is exact; a lost bootstrap is found again; it ends with
  the current beacon.
- *Mobile provider*: a mission runs at most once, and only on an offer and an
  assignment of the same Navigator in force; no wake-up is lost; one bid for a
  mission; the count of running missions is exact.
- *Command tables*: a node that the policy does not name has no effect; every
  node an active command lists serves it; a name does not silently come to mean
  another contract; what was parsed of a line is what a person can read back,
  each argument has its own field in what is sent, and what the node answers is
  shown in one way only.
- *Authorisation*: a digest stands for one call, batch, file or set of
  fragments and for no other.
- *Signatures*: what one implementation signs, another verifies, though they
  order fields and maps differently and know different fields.
- *Identity*: a node has one key over starts, failures and crashes, and a key
  that was there is not replaced.
- *IPFS client*: an answer says what was so at some moment of its call, though
  calls overlap and the daemon may serve one long after it timed out; content is
  never cut without saying so; a retry of what was done is no error.
- *Engine*: a calculation that has the worker to itself is answered, whatever
  happened to the ones before it.
- *WASM capabilities*: every CURP computed is one accepted, as of the same date
  of birth; an expression means what its precedence says, and is refused when it
  divides by what comes out as zero or has no finite value.

## 2. Modules and the code

`PROJECT.json` maps each definition to its lines. In every module an action is
the code between two points where another task may run: two `await`s, or two
atomic operations on shared memory.

**`DecodeBudget`** — `reserve`, `read_frame`, `read_verified`. `pc` follows a
stream through the loop; `free` and `ahead` are tokio's fair semaphore (freed
units go to the head of the queue, and a later `try_acquire` cannot overtake);
`waiters` is `WAITERS`, whose `fetch_add`, test and `fetch_sub` are separate
steps. `Cancellable` streams belong to client sessions and may be dropped at
any `await`. `leaked` is a history variable: the waits dropped between
`fetch_add` and `fetch_sub`. Frames are their lengths.

**`ProviderStreams`** — the limiter, a provider's task per stream, `Reply`, and
the client's end. `up` and `down` are the two directions of a stream, as FIFO
queues of message kinds. A write may fail at any time, and a client may leave
at any `await`, also before it wrote its handshake. `Foreign` streams belong to
Navigators that are not built on `client.rs` and send any kind in any order.
`peerOf` is chosen at the start, so that one instance holds both the case of
several streams of a peer and that of several peers.

**`Auction`** — caller and collector are two tasks of a cycle; `windows` is
`BidCollector::open` by mission id, which two cycles may share. A bid is keyed
by the offer it answers, and is delivered at any later time, or never; a second
offer of the same mission id brings a second bid. The two locks of `collect` are
two steps: `CloseEarly` and `Cutoff` end its loop, `TakeWindow` removes what is
there by then. `filter_allowed` asks `is_connected` for each bid by itself, so
`Look` is the reading for one bid, and connections change in between; `met` and
`steady` are histories of who was connected at some and at every moment of the
filter. `Select` is `select_winning_bid` over what was kept, in the order of
arrival. Who beats whom follows trust, reputation, then latency; a tie falls to
the first that arrived. `SelectionSound` says what is left of the rule when the
readings differ: the winner was reachable at some moment of the filter, and
loses to nobody who was reachable all along.

**`AdvertCache`** — one provider that advertises (periodically, on connecting,
and when its beacon changes) and may stop or start again, and one cache. Each advert is delivered at any
later time, any number of times; at most `MaxLost` periodic ones in a row do
not come before the next. `upsert_at` is two steps, its read lock and its
write lock, with readers (`live`) in between. The provider's clock is off by
`offset`.

**`BootstrapLink`** — the two loops and the connection events they watch. Each
loop sees the value of the watch channel when it reads it. The bootstrap may
restart (its records are gone), connections come and go, also by other means
than the loop's own dial (Kademlia, a dial that timed out and then succeeded).

**`DispatchRule`** — the abstract rule stated at the head of
`provider-core.ts`: a mission is dispatched at most once, on an offer and an
assignment of one Navigator, in force. It has no maps, waits or streams.

**`MobileNode`** — the handlers of the browser's node, split at each `await`:
the checks before a signature is verified and what follows are two steps. The
book's maps are sequences in insertion order (JavaScript's `Map`), so that
eviction and the re-insertion of a known key are exact. A message is in
`verifying` while any handler awaits its signature: as the number of copies that
arrive together has no bound, each that goes on may leave others behind. A
signed message is a member of `Signed`. `Rule` instantiates `DispatchRule` on the history `served`,
and `KeepsDispatchRule` says that every behaviour of the node is one of it.

**`CommandTable`**, on **`CommandContract`** — nodes announce beacons, change
them and fall silent; the Navigator rebuilds its table when it likes. `Rebuild`
is `from_peers` over `PeerCache::live`: of the adverts that have not expired by
their own TTL it validates what each declares (`CommandContract`: the closed
registry, limits, names, arguments), leaves out what the policy does not admit,
and groups the rest by name. Two different contracts under one name disable it;
else every node that offers it serves it, and the lowest DID gives its texts. A
fingerprint is a SHA-256, so the contract stands for it. **`Texts`** has texts as sequences of code
points and their order.

**`CommandLine`** — from a typed line to the arguments of a tool call and from
a result to the text shown. A parse returns the set of its outcomes, empty for
an error. Characters are kept here because what may be lost is a character:
leading blanks, a sign of zero, a trailing argument. `parse_args` walks the line
argument by argument: `Cursors` is what is left of it after each, `Taken` what
each takes. `ArgsValue` is `args_value`, the object that is sent. A number goes
in it as the `f64` nearest to its text: what that loses (9007199254740993 and
9007199254740992 are the same float) is not modelled and no property speaks of
it, so that `CallsAndResultsSettle` is about what was parsed, where the object
has it and the sign of zero.

**`Digests`** — the framing of what a person authorises (lengths before texts,
a domain before all) and the digests of fragments and of files; **`Values`**
extends it with those of values, commands and batches. A digest is the bytes
that are hashed, so two values are told apart when their bytes differ. A value
is a record with its kind. What the code computes by calling itself on the
values inside a value (`encode_value`) is here a function on all the parts of
the value (`Parts`, found level by level), each from those it holds (`Code`).
`MaxDepth` bounds the levels, and no value is deeper; `Width` is the bytes of a
number. **`DynamicJson`** is the way from JSON to a value and back, one level at
a time in the same way (`ValueFrom`, `JsonFrom`): the lists and objects of JSON
are those of values, so `Parts` finds what is inside of either.

**`Wire`** — an encoded message is the sequence of its fields as its encoder
ordered them; a signature names its key and the text it signs. The other end
encodes maps in another order and knows other fields. The beacon is signed as it
is decoded and encoded again, so what the build decodes of it stands for that.

**`Identity`** — `load_or_create` over starts, failures of the file system and
crashes of the process; `Open` (which truncates) and `Write` are two steps.
`path.exists()` answers false also when the metadata cannot be read; the model
takes it to be true of a file that is there. If that error passed before the
file is opened, a new key would be written over the old one.

**`Kubo`** — several tasks call the daemon at the same time. A call is sent, the
daemon takes it up when it likes, and the client meanwhile waits, gets an answer
or gives up: what it asked stays with the daemon, which may serve it long after
`CALL_TIMEOUT`, between the steps of other calls. An answer may be garbled
(`Parse`), name a CID that does not parse (`Cid`), or be an error whose text is
lost. A `cat` arrives in chunks and stops at its limit. As the pins change under
a call, `AnswersAreTrue` compares what it returns with what they were at any
moment of it (`during`).

**`Engine`** — `solve` and `workerSolver` with the `reset` of `serve`: calls
share a worker, a load and a calculation take their time, each call has its own
timer, and `reset` ends the worker and whatever else it was computing.

**`Curp`**, **`Expression`** — `compute_curp`, `validate_curp_encoded` and
`solve_expression` as operators. The instance has a value as the tree it was
computed by, so that any difference of grouping shows, and as a number, so that
what is zero or not finite is computed: a fraction, infinite beyond 100. The
rounding of `f64` is not modelled.

**`Cases`** — `CommandLine`, `Values`, `DynamicJson`, `Wire` and `Curp` keep
nothing between two calls. One case, what a part is called with, is drawn out of
`Drawn` and looked at; `DrawnAssumption` says what the callers of the code call
it with: any line, commands of a beacon that was accepted, JSON no deeper than a
value.

**`Basics`** has no code of its own: it proves what the operators of the library
return that the other proofs rest on, such as `SumFunctionOnSet`, for the sum of
`DecodeBudget` and for the check digit of `Curp`. The `_proofs` modules are
described [below](#4-proofs).

`CommandTable`, `CommandLine`, `Values` on `Digests`, `DynamicJson`, `Wire`,
`Identity`, `Kubo`, `Engine`, `Curp` and `Expression` have no state in common.
`MCCommandTable` and `MCLibrary` instantiate them, and `MCLibrary` holds the cases and the reference
definitions they are compared with: `Printed`, for example, writes a tree the
way the documented precedence says, and `Solve` must give the tree back.

## 3. Runs, bounds and fairness

`MC*.tla` modules only give the constants their values. Each property of a
passing run has a mutant in PROJECT.json: a plausible bug of the mapped code
(the operators next to the definition they change, such as `NeedWithoutCopy`
next to `Need`) with which TLC finds the property violated in the same instance.

| Run | Instance | Shows |
|---|---|---|
| `decode_budget` | 3 streams (one cancellable), budget of 2 units, frames of 0, 3 and 4 bytes (4 is too large), one waiter, one leak | `PermitsConserved`, `MemoryBounded`, `WaitersAccounted`, `ReservationsEnd` |
| `decode_budget_cancel` | the same | violates `RefusedOnlyWhenFull` |
| `provider_streams` | 3 streams, 2 in all and 1 per peer, from 2 or from 3 peers; one answer of up to 2 deltas | `PermitsCounted`, `LimitsHold`, `NoTruncatedAnswer`, `PermitsReturn` |
| `auction` | 2 cycles of one mission id, 3 providers: the preferred one lacks a capability, another has no addresses | `SelectionSound`, `AssignedDidBid`, `NoWindowLeftBehind`, `CyclesEnd` |
| `auction_early_close` | the same | violates `EarlyCloseHasWinner` |
| `mobile_node` | 2 Navigators, 2 missions, 2 streams, a book of one entry, one forged assignment | `BookIsSigned`, `NoLostWakeup`, `ActiveCounted`, `BidsOnce`, and the refinement `KeepsDispatchRule` |
| `mobile_node_bid` | the same, one verification at a time | violates `RunsOnlyAfterBid` |
| `advert_cache` | 10 units of 15 s, one change of beacon or one restart of a provider that may stop, one advert lost, clocks up to a unit apart | `ShowsNewest`, `KeepsUp` |
| `advert_cache_replay` | the same, a provider that may fall silent | violates `AcceptsOnlyNewer` |
| `bootstrap_link` | 2 restarts, 2 connections, one change of beacon, back-off 2..30 s | `ConnectedExact`, `LinkRecovers`, `BeaconReaches` |
| `bootstrap_link_rest` | the same | violates `RestsPublished` |
| `library` | one part of `commands`, `identity`, `kubo`, `engine`, `case` per behaviour | see below |

The run `library` puts side by side the parts that are called and return. They
share no state, so `part` chooses one at the start and the others rest; its
states are the sum of theirs (some 568,000 in about two minutes), not the product.

| Part | Instance | Shows |
|---|---|---|
| `commands` | 2 nodes, 6 beacons (that agree, disagree or break one rule), 3 policies, adverts that live one unit and one of grace | `StrangersDoNotMatter`, `ActiveServes`, `NoSilentSwap` |
| `identity` | 2 keys, one of another type, every kind of file before the first start | `IdentityKept` |
| `kubo` | 2 clients with any call each, 2 contents of 2 and 3 bytes, limits 0 and 2, CIDs that parse or not, an empty daemon at first | `AnswersAreTrue` |
| `engine` | 3 calls, each load and calculation at once or longer than the timeout | `AloneIsAnswered` |
| `case` | one case drawn of lines (all of up to 4 characters of 7), descriptors, values (all of up to two scalars), JSON, batches, fragments, messages, people, expressions (all trees of depth two over 0 and 2, and with a literal out of the range) | `CallsAndResultsSettle`, `DigestsTellApart`, `SignaturesSurvive`, `CurpRoundTrips`, `ExpressionMeans` |

Why the bounds are enough. Every limit of the code is set so that it binds:
three readers are the fewest with one that holds, one that waits and one that
is refused, and lengths 3 and 4 are the last that fits and the first that does
not; two units are exactly one longest frame; the limit per peer binds when two
streams come from one peer, the limit of the node when all come from different
ones; a book of one entry makes any two missions evict each other; an answer
needs two deltas to lose one of them. In `advert_cache` a unit divides every
time of the code (interval 30 s, TTL 60 s, grace 30 s, skew 120 s), and ten
units outlast one advert's life. With two restarts the bootstrap forgets what
was published again after the first. In `library`, two nodes are the fewest that
can disagree about a name, and the time from an expiry to the end of the grace
is there to rebuild in; three calls are one that resets, one that is in flight
then and one that comes after; two clients are the fewest of which one may be
served late, in the middle of the call of the other, and limits 0 and 2 are
below, at and above the lengths 2 and 3; the texts of values include ones that look like the encoding
of others, and a value in a list or an object in the arguments of a
call is at the level `MaxDepth = 2`; three bytes for a number (`Width`) hold
those of the instance, the negative ones included; the years reach both ends of the range. `MaxInteger = 127` stands
for `i64::MAX`, as nothing but its bound is used. `Horizon` is a
bound. `MaxLeaks`, `MaxVerifying`, `MaxTime`,
`MaxLost`, `MaxVersion`, `MaxRestarts`, `MaxLinks` are bounds for TLC or, as
`MaxLost`, an assumption about the network; the rest are the code's constants,
scaled.

`KeepsUp` has a limit that the instance states: with the provider's clock two
units (30 s) behind the reader's, one lost advert is enough to drop a healthy
provider for a moment, because an advert's life counts from its own timestamp
(`p2p/peer_cache.rs:197-198`). `MCOffsets` therefore stays within one unit;
`Room` in `AdvertCache_proofs` is that condition for all values.

`CHECK_DEADLOCK FALSE` is set for `AdvertCache`, where a provider that
stopped before it sent anything leaves nothing to do at the last instant, and
for `library`, where a case that was drawn, the last answer of the daemon and the
last instant of the worker end a behaviour. Runs with
liveness use no symmetry; `mobile_node`, which has none, is symmetric in its
streams.

Fairness, and what justifies it:

- `DecodeBudget`: weak fairness of the steps of the runtime, and of tokio's
  timer (`Expire`). None of a peer: it may announce a frame and never send it.
- `ProviderStreams`: weak fairness of the provider's tasks, each spawned. None
  of Navigators, and none of `ReadFails`. A handler (`Provider::handle`) is
  assumed to end.
- `Auction`: weak fairness of both tasks of a cycle and of the timer of the
  window. None of bids.
- `BootstrapLink`: weak fairness of the two loops; strong fairness of a dial
  that succeeds, as dials repeat with interruptions: a bootstrap that runs does
  not refuse for ever. Only `LinkRecovers` needs it. None of Kademlia.
- `MobileNode`, `AdvertCache`, `library`: safety only. In `Engine` a page
  handles the events of an instant before those of the next (`Elapse` waits for
  them), so that `AloneIsAnswered`, which is about a deadline, is safety too.

Assumptions on the environment: only calls of these clients change the daemon's
pins (`Kubo`), and it takes up a call that was sent at any time, or never; a process may crash but the machine does not, so what was written stays
written (`Identity`); a hash has no collisions and nobody signs with a key that
is not theirs.

## 4. Proofs

Proved by TLAPS for every value of the constants that meets the named
assumptions of the module:

- **`DecodeBudget_proofs`**. `TypeCorrect`, `WaitersStayBounded`,
  `WaitersExplained`. `WaitersBounded` alone is not inductive: a reader gets in
  on the value `WAITERS` had, so `IInv` adds that the counter is the readers
  in the waiting section plus the leaks (`WaitersAccounted`), and that the
  readers past the test (`Admitted`, waiting or not) are at most the limit.
  `UncancelledRefusals`: where nothing is cancelled, a frame is refused only
  when the waiting room is full, so the violation of `decode_budget_cancel`
  has no other cause. `PermitsAreConserved` and `MemoryStaysBounded`, by
  `BudgetInv`: that no unit is lost is kept by every step only together with
  `free >= 0` (who takes units took no more than were free), and the two bound
  the memory. The units held are a sum over the streams that hold any, and a
  step of one stream leaves it (`UnitsStay`), adds its own or gives it back.
- **`Basics`**: the sum over a finite set, in whichever order `SumFunctionOnSet`
  takes the elements, is a number, grows by the element that is added, and
  only depends on the values (`SumType`, `SumElement`, `SumAdd`, `SumSame` and others);
  steps taken one after the other exist (`StepsExist`); and texts that are cut,
  reordered, or joined from either end, have the characters they should (`SplitIs`,
  `JoinCut`, `FlattenForth`, `FlattenBack`). An induction would need a theorem
  with an operator for a parameter, so each fact comes from a smallest set or
  number that would be a counterexample (`SmallestSet`, `LeastNumber`), which
  is first-order.
- **`ProviderStreams_proofs`**. `TypeCorrect`, `CountersExact`,
  `LimitsAlwaysHold`. The invariant `Counted` joins the three: the test of the
  counters bounds the streams only because the counters are exact. The lemmas
  `LiveGains`, `LiveLoses` and `LiveKept` say how a step changes the counts;
  `SetOpenGives` and `ForgetGives` do so for the map. `AnswersAreWhole`:
  `NoTruncatedAnswer` says nothing of what is still in the stream, so the
  invariant `Sessions` says for each stream what its two ends and both queues
  may hold while it is acknowledging, answering or answered: what the Navigator
  read, then what is in `down`, is a prefix of the answer, and the completion
  is there only when nothing was left out before it.
- **`Auction_proofs`**. `TypeCorrect`; `SelectionAlwaysSound`, an action
  property, from the lemma `Best` (bids that qualify have a best one, by trust,
  then reputation, then latency, which needs `TermsAssumption`: the terms are
  naturals and have a highest value) and `SelectGives`, with two invariants of
  the filter: only bids it has looked at are kept (`PlacesLooked`), each of those
  that could be reached all along is, and none that never could (`FilterHonest`); `WindowsAreTaken`, for
  which `NoWindowLeftBehind` is strengthened by `IdleHasNone`; and
  `WinnersBid`, for which `AssignedDidBid` is strengthened by `BidsAreMade`:
  every bid in a window, in a task's hands or on its way was made.
- **`Library_proofs`**, about the parts that are called and return.
  - `CommandTable`: `TypeCorrect`; `StrangersHarmless`; and from `TableBuilt` (the
    table is what `from_peers` gave of the adverts it was built from)
    `CallsAreServed` and `NamesKeepTheirContract`, an action property; for any
    registry, policies and beacons that meet the assumptions.
  - `Identity`: `IdentityIsKept`, from `FileSettled`: once a key was answered
    the file holds it, and only an absent file is ever created.
  - `Kubo`: `AnswersAreAlwaysTrue`, for any number of clients. What a call
    returns depends on what happened to it since it was sent, so `KuboInv` says
    of each kind of call what its reply may be: of an `add` that was served the
    content was pinned at some moment of the call, of a `pin_rm` it was not, a
    list was that of the pins (all in `during`, which only grows while the client
    waits, also by what the daemon does for others and for calls given up), and
    what a `cat` kept with what is to come is the start of the content, up to
    one byte more than the limit (which is how a longer content shows).
  - `Engine`: `AloneIsAlwaysAnswered`, for any number of calls, durations and
    timeout. It says nothing of a call before it times out, so `EngineInv` adds
    two facts: a current worker lives, and is free by now, has failed, or is
    free as soon as it is done with a call that still waits (`CurrentWorker`);
    and who waits alone does so at a worker that lives and that the clock has
    not passed (`AloneWaits`). The first is what a `reset` that keeps the
    worker breaks.
  - `Wire`: `SealsSurvive`, for an envelope with any head, signer and payload:
    it verifies in any order of its fields, and with another payload it does
    not. `WireAssumption`: the tags of payloads are none of the others, and a
    signer has a DID. `TopicsSurvive`, for a message of any topic with lists of
    any length: it verifies also with its capabilities, or the fields of its
    beacon (none of them twice), in another order. Both rest on what a reordering keeps
    (`ReorderedFields`, `SameReorderings`).
  - `Digests`: `FilesAreToldApart`, for texts of any bytes and lists of any
    length that 32 bits can count: a text framed by its length is read back in
    one way only (`BytesTold`), and so is a list of fragments (`PushAllTold`),
    and no file has the digest of a list.
  - `Texts`: the order of texts by their bytes is total (`PrecedesTotal`,
    `PrecedesOneWay`), any list can be sorted (`PlacesExist`), and what is
    sorted has the same elements and says nothing of the order they came in.
  - `Values`: `ValuesAreToldApart`, for values of any depth, with any texts,
    lists and objects that 32 bits can count, and numbers of any width. The
    parts of a value are values that nest less (`PartsClosed`), so `EncodeValue`
    is the one function that does on every part what the code does
    (`ComputesExist`, `ComputesAgree`), and a smallest depth at which two values
    are confused leads nowhere. What is shown of it is more than the claim:
    whatever bytes follow, two codes that begin the same text are of the same
    value and end at the same place (`Told`); two that are merely equal say too
    little about the values inside them. Numbers come back from their bytes
    (`BigEndianTold`, `BitsAre`), and objects from their keys in order.
    `BatchesAreToldApart` is the same of batches, whose items differ in their
    id; nothing in `batch_digest` makes them, but the decisions name items by it.
  - `CommandLine`: `EveryLineKept`, of any text that is typed. `CallsKept`, of
    any valid descriptor and any rest of a line: what is parsed and written
    again parses to itself, no argument takes the field of another in what is
    sent, as valid descriptors have no name twice (`FieldsApart`), and no minus
    zero is sent (`NoMinusZero`). A word is what ends at a blank (`WordLen`), so the
    argument has to be one word of its own when it is written again. Validation
    is needed for the rest (`ValidIsOrderly`): only the last argument takes the
    rest of the line, and no required one follows one that may be missing. The
    text `rest` holds at most `MaxLineChars` less two characters, because the
    line that is written again may be longer by that, and the limit is of the
    line.
    `ResultsSettle`, of any result: an integer is written by `DecimalOf` as the
    digits it was read from (`NaturalOf` and `DecimalOf` undo each other), and a
    number loses the sign of its zeros once and for all.
  - `DynamicJson`: `JsonsAreStable`, for JSON of any width, as deep as a value
    may be. An artifact leaves as an object that is one again, but an object
    that is none must not leave as one, or it would enter as another value:
    `Returns` therefore says also that texts, and only texts, leave as texts,
    and as the same, so that the words of an artifact are found in what leaves
    exactly where they were in what entered.
  - `Cases`: `CallsAndResultsAreSettled`, `DigestsAreToldApart`, `SignedVerifies`
    and `CurpsAreAccepted` bring the theorems on lines, JSON, values, batches,
    files, signatures and CURP to what `library` checks of each case that is
    drawn.
  - `Curp`: `ComputedIsValid`, for any names (also empty, or of connectors
    only), date, sex, place and differentiator, and any catalogue with codes of
    two letters (`CatalogueAssumption`): what is computed for 1900 to 2099
    validates, as of the date that was given. Each position is of its kind, the
    entity is found again by its code, and the differentiator gives the century
    back.
- **`MobileNode_proofs`**. `TypeCorrect`, `RunsAreCounted`, `BookStaysSigned`,
  `NoWakeupIsLost`, `OneBidForAMission`, and `ImplementsDispatchRule`, the
  refinement. The last rests on two facts: the book holds signed messages
  only, and `used` is exactly the missions of `served`; eviction from the
  other two maps then cannot bring a mission back.
- **`AdvertCache_proofs`**. `TypeCorrect`; `NoRollback`, an action property:
  an entry is replaced by a newer one only, although readers may purge it
  between the two locks; `ReadersSeeNewest`: with one lifetime for all adverts
  (the code has one, `ADVERTISE_TTL_SECONDS`), what is shown is the newest ever
  accepted. With several lifetimes it is false, so the assumption is needed.
  `ProviderIsKept`: `KeepsUp` for every interval, lifetime and clock that meet
  `Room` (a fresh advert is accepted, and outlives `MaxLost + 1` intervals on
  the reader's clock). The invariant `Kept` says that when the next advert that
  is not lost comes (`Deadline`), one sent after the last change of the beacon
  is still held, or on its way, or none is asked for yet; `Dated` orders the
  adverts by the clock of the provider.
- **`BootstrapLink_proofs`**. `TypeCorrect` (the back-off stays within its two
  constants) and `ConnectedIsExact`.

Every safety invariant and action property of the runs of a component is proved.
Only model-checked:

- all liveness (`ReservationsEnd`, `PermitsReturn`, `CyclesEnd`, `LinkRecovers`,
  `BeaconReaches`), which with fairness and `ENABLED` is out of this prover's
  reach;
- of the cases of `library`, `ExpressionMeans`: its parser and the operators it
  is compared with call each other recursively, which the prover cannot reach.

## 5. Where code and text disagree

Each has a run whose expected result is a violation; PROJECT.json quotes the
text.

1. `reserve` is not safe to cancel: the wait in `p2p/framing.rs:74` sits
   between `fetch_add` and `fetch_sub`, and a client's timeout drops it there.
   `WAITERS` then stays too high until the process ends.
2. An early close of the window (`p2p/node.rs:195`) by a preferred provider
   whose bid does not qualify: it is not "ya el ganador", and the others are
   not waited for.
3. `serve` runs a mission this node never bid on, as long as it was offered
   and assigned (`web/satellite-node.ts:429`).
4. The anti-replay timestamp of a DID is forgotten with its entry
   (`p2p/peer_cache.rs:213`); `ShowsNewest` is what remains true.
5. The DHT record is not always published on connecting to or recovering a
   bootstrap (`p2p/node.rs:884`, `:827`); the timer of 30 minutes repairs it,
   which is `BeaconReaches`.

Others were met while reading and have no run, as their two sides are not both
modelled, or the text is not precise enough to state:

- The WASM and the TypeScript versions of CURP
  (`packages/satellite-capabilities`) differ: a small `ñ` is dropped by one and
  becomes `X` in the other, likewise letters with a grave or a dieresis; only
  one takes a differentiator in lower case; `Date.UTC` reads the years 0 to 99
  as of the 20th century. The tokenizers differ on `.5`.
- `canonical_number` is documented to turn every negative zero into `0`
  (`rust/fhs/src/commands.rs:550`, and its twin,
  `packages/fhs-protocol/src/commands.ts:279`); of `-0.0` it makes `0.0`, so `0`
  and `0.0` are shown as two texts. `CallsAndResultsSettle` claims only that no
  sign of zero is left and that a text is final.
- A `reset` of the engine kills the calculation of another mission that shares
  the worker (`MAX_ACTIVE` is 2), whose promise then only its own timeout ends;
  the comment of `web/engine.ts` names a function that does not exist.
- A number of more than `MAX_SCALAR_CHARS` (32) is refused as a result too,
  although a descriptor may promise `MAX_RESULT_CHARS` (64).
- A beacon is verified as this build encodes it again, so that one signed with
  a field that the build does not know fails; an envelope is verified over the
  bytes received (`Reencoded` and `RawEnvelopePayload` in `Wire`).

## 6. Not modelled

- libp2p itself (GossipSub, Kademlia, transports), tokio and the vendored
  `libp2p-websocket`: they appear as the environment, from how the code uses
  them. Ed25519, SHA-256 and Protobuf's byte layout: a signature names its key
  and its text, a digest is what it hashes, a message is its fields.
- `latest_advertises` (`p2p/node.rs:681`): the last advert of each provider,
  which the bootstrap role replays. A reader sees no more of it than a late
  and repeated delivery, which `AdvertCache` allows of any advert at any time.
- The TypeScript twins of modelled Rust (`packages/fhs-protocol`,
  `packages/satellite-capabilities`), which fixtures of the repository compare
  with it, and the IndexedDB store of the browser's identity.
- Of modelled files: `parse_api_url`, the token and the queries that only read
  (`repo_stat`, `free_space`, `id`, `swarm_peers`) of `ipfs.rs`; `usage`,
  summaries and texts of errors of `commands.rs`; `checkInput` and `mapRaw` of
  the engine beyond refusing or not; `advertise`, `connectBootstrap`,
  `maintain` and `stop` of the mobile node; the derivation of a DID from a key.
- Floating point: a number of a command goes as the nearest `f64`, and the
  arithmetic of the worker rounds; the models keep the text, and fractions.
- Metrics, the mission log and the page (what is shown); TLS configuration
  (read once at start); logging, generated code, containers, helpers and the
  documents of `spec-native`, which have no behaviour of the system.

## 7. Plan

Done, in the order of writing:

1. `DecodeBudget` — the state all streams share. Safety proved.
2. `ProviderStreams` — admission, service and sessions. Safety proved.
3. `Auction` — cycle, window, selection. Safety proved.
4. `MobileNode` implementing `DispatchRule`. Proved.
5. `AdvertCache` — adverts. Proved.
6. `BootstrapLink` — link and DHT record. Safety proved.
7. `CommandTable` on `CommandContract`. Proved.
8. `Identity`, `Engine`, `Kubo`. Proved.
9. `Digests`, `Values`, `Curp`, `Wire`. Proved for all inputs.
10. `CommandLine`, `DynamicJson`. Proved for all inputs.
11. `Expression`. Checked over bounded inputs.

Left:

1. `latest_advertises` itself: which advert the bootstrap keeps, and its bound.
2. A composition of `Auction` and `MobileNode`: the assignment of a cycle is
   the one the mobile provider consumes.
3. The identity store of the browser, with a second tab in between.
4. `Expression` as functions over the positions of the text, to prove what
   `library` checks of it.
