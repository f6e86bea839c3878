# aioduct in TLA+

aioduct is an asynchronous HTTP client library (HTTP/1.1, HTTP/2, HTTP/3) with a
command-line downloader. This directory holds TLA+ models of its parts, TLC
configurations that check them on small instances, and proofs checked by TLAPS.
Source paths below are relative to `src/crates/aioduct/src/` unless they say
otherwise, pages of documentation (`*.md`) to `src/docs/src/`. `PROJECT.json` maps every definition to the lines it models.

1. [The system](#1-the-system): the parts, their state, what is hard about them
2. [The modules](#2-the-modules): what stands for what
3. [The runs](#3-the-runs): questions, bounds, fairness
4. [The proofs](#4-the-proofs)
5. [Where code and documentation disagree](#5-where-code-and-documentation-disagree)
6. [What is left out, and the plan](#6-what-is-left-out-and-the-plan)

## 1. The system

A request enters at `RequestBuilder::send`, passes the execute loop (redirects,
retries, authentication, cache, cookies, limiters), reaches **dispatch**, which
gets it a connection from the **pool** or by dialling (DNS, happy eyeballs,
proxy handshakes, TLS, h2c probing), sends it with hyper or h3, and hands the
connection back when the response allows it. Everything runs in tasks of an
async executor (tokio, smol, compio), on any number of threads; a task can be
cancelled at every `await`. Each dispatch file exists twice, for executors that
move tasks between threads (`*_send.rs`) and for those that do not
(`*_local.rs`); the logic is the same.

| Component | State it keeps | Operations | What is hard | What makes it correct |
|---|---|---|---|---|
| connection pool (`pool/`) | idle queues, active counts, SAN index behind one mutex; per transport: stream count, retired flag, age | reserve, attach, rekey, check out, check out coalesced, share, check in (now or when the body is drained), drop, evict, reap | slots handed from owner to owner; atomics outside the mutex; destructors at any await; background tasks; limits | counts equal owners; caps hold; a socket has one user; nothing idle is in use; expired sockets close |
| dispatch (`client/dispatch_*.rs`, `connection_lifecycle.rs`, `replay.rs`) | the locals of each request; `connecting_h2` marks in the pool | look up, coalesce, mark, wait, dial, fall back, rekey, share, send, recover, replay, check in | tasks that wait for each other's dial; failure or cancellation between mark and unmark; what may be sent twice | every mark has an owner; every request ends; one replay at most; nothing non-idempotent is processed twice |
| h2c probe cache (`h2c_probe.rs`) | capability and generation per endpoint, number of active probes | begin, confirm, reject, finish, evict | overlapping probes that end in any order, expiry | later and stronger evidence wins; nobody skips a probe while one is under way |
| retry and execute loop (`retry.rs`, `client/execute_*.rs`, `request_flow.rs`, `replay.rs`, `request/request_send.rs`) | token budget shared by clones; per call: attempt, eligibility, reservation, snapshot of the last request, queued replay | withdraw, commit, refund, deposit, redirect, challenge, retry | cancellation between withdrawal and dispatch; a snapshot that outlives its hop | tokens are conserved; what is retried is what failed; secrets stay with their origin; calls end |
| happy eyeballs (`happy_eyeballs.rs`) | running attempts, next address, delay timer | start, finish, delay | order of completions | a reachable address wins |
| timeouts and HTTP/3 upload (`timeout.rs`, `h3/request.rs`) | timer, body-complete flag, control channel of the upload task | poll, fire, cancel, detach | the timer starts on a poll nobody may cause; two tasks share the exchange | a silent server is noticed; an abandoned upload stops, a detached one goes on |
| rate and bandwidth limits (`throttle.rs`, `bandwidth/`) | tokens, time of last refill (two atomics) | refill, acquire, wait | refill is not atomic; bodies share a bucket | never more than the rate plus one bucket; every frame is delivered |
| Alt-Svc cache (`alt_svc.rs`) | alternatives, suppressed authorities (two mutexes) | look up, suppress, advertise, clear | an operation falls between the two locks of another | a failed HTTP/3 endpoint is not tried during its backoff |
| SSE (`sse/`) | buffer, scan position, draining flag | feed, decode | input split anywhere, oversized events | same events however the input is split |
| observers (`observer/`, `body/mod.rs`, `upgrade/`) | one owner of a request's end, and of an SSE stream's | hand over, finish, drop | the owner moves through five carriers, each of which may be dropped | one end is told, the true one |
| chunk download (`chunk_download/`) | tasks, channel, results by index | split, collect, assemble | lost tasks; uneven sizes | every byte once, in order; it ends |
| CLI downloader (`src/crates/aioduct-cli/src/download/`) | pieces, in-flight sets, workers; output and control files | probe, resume, assign, fetch, write, complete, retry, checkpoint, finish | lost wake-ups, end game, kill between write and checkpoint, resource replaced between runs | the control file claims only what is on disk; no mixed versions; no orphaned piece or worker |
| cache (`cache/`), cookies, HSTS | maps with expiry behind mutexes | store, look up, expire | date arithmetic, matching rules | nothing expired is used as fresh |
| proxies (`socks4.rs`, `socks5.rs`, `client/proxy_connect*.rs`) | handshake phase | read and write messages | malformed answers | the tunnel is used only after success |
| TLS, connectors, forwarding, signatures, multipart, decompression, authentication, runtimes, wasm, terminal UI | little or none of their own | adapters, parsers, formatters | | |

The interactions that the models are about:

- dispatch calls the pool's methods; each takes the mutex once, so what other
  threads see between two calls is any interleaving of whole methods;
- a `PooledConnection` or `ActiveReservation` gives its slot back in `Drop`, so
  every error path, timeout and cancellation is a call of the pool too;
- a response keeps the connection: an HTTP/1.1 connection goes back when its
  body is drained, by a spawned task with a timer (`checkin_deferred`); an
  HTTP/2 CONNECT response keeps a stream permit;
- two dispatches for the same HTTP/2 key meet in `connecting_h2`: the first
  dials, the second polls the pool for the result;
- two calls meet in the retry budget, two requests in the limiter's atomics, two
  dials in the probe cache, two bodies in a bandwidth bucket;
- a future is polled again only when a waker it left behind fires (first-byte
  timer, bandwidth-limited body, worker of the downloader);
- two runs of the downloader meet in the files the first one left behind.

The hazards, each at its line, with the properties that would show it going
wrong, are listed in `PROJECT.json`.

## 2. The modules

| Module | Models | Uses |
|---|---|---|
| `ConnectionPool` | `pool/mod.rs`, `pool/connection.rs`, the check-in helpers of `client/connection_lifecycle.rs` | |
| `Dispatch` | `execute_single_with_hint_send` (`client/dispatch_send.rs`), `client/replay.rs`, `client/connection_lifecycle.rs` | extends `ConnectionPool`: composes requests with the pool |
| `ConnectionPoolProofs`, `DispatchProofs` | theorems about them | TLAPS; the second extends the first |
| `H2cEvidence` | what the probe cache promises, without generations and counters | |
| `H2cProbe` | `h2c_probe.rs` | instantiates `H2cEvidence` with a refinement mapping |
| `Execute` | `send_with_retry` (`request/request_send.rs`), `execute_send` (`client/execute_send.rs`), `client/request_flow.rs`, `retry.rs`, the finalised-request state of `client/replay.rs` | |
| `Upload` | `timeout.rs`, the upload task of `h3/request.rs` | |
| `HappyEyeballs` | `happy_eyeballs.rs` | |
| `RateLimiter`, `Bandwidth` | `throttle.rs`; `bandwidth/` | |
| `AltSvc` | `alt_svc.rs` and its callers in dispatch | |
| `SseDecoder` | `sse/mod.rs`, `sse/stream.rs` | |
| `Observation` | `observer/continuation.rs`, `body/mod.rs`, `sse/observation.rs`, `upgrade/` | |
| `ChunkDownload` | `chunk_download/chunk_download_send.rs` | |
| `Downloader` | the multi-file command of `src/crates/aioduct-cli/src/download/` | |
| `H2cProbeProofs`, `ExecuteProofs`, `DownloaderProofs`, `SseDecoderProofs` | theorems about the module of that name | TLAPS |
| `SharedProofs` | theorems about `AltSvc`, `RateLimiter` and `Observation` | TLAPS |
| `ExchangeProofs` | theorems about `Upload`, `ChunkDownload`, `HappyEyeballs` and `Bandwidth` | TLAPS |
| `MCConnectionPool`, `MCDispatch`, `MCDownloader`, `MCBandwidth` | instances for TLC | |
| `MCExchange` | `Upload`, `HappyEyeballs`, `Bandwidth`, `Execute` and `ChunkDownload`, each by itself: an initial state gives one of them something to do | |
| `MCShared` | `H2cProbe`, `RateLimiter`, `AltSvc`, `SseDecoder` and `Observation`, each by itself: `part` names the one that moves | |

A definition that no next-state relation uses and that stands above another one
with the same parameters is not part of a model. It is the form the definition
below it would have with a plausible bug, and is used to show that a property
notices it; `PROJECT.json` lists the pairs.

### ConnectionPool

`idle`, `active` and `sanIndex` are the fields of `PoolInner`; `conn` is what the
clones of a transport share (alive, busy with a response body, age, live stream
permits, retired); `handle[s]` is what owner `s` holds: nothing, an
`ActiveReservation`, a `PooledConnection` (original or multiplex clone), a
background check-in task, or the permit of an upgraded response; `reaper` is the
time until the reaper task wakes. One method that takes the mutex is one action:

| Action | Code |
|---|---|
| `TryReserveActive`, `DropReservation`, `AttachActiveReservation`, `RekeyActive` | `try_reserve_active`, `ActiveReservation` and its `Drop`, `attach_active_reservation`, `rekey_active` |
| `CheckoutMatching`, `CheckoutMatchingMiss` | `checkout_matching` with its scan: expired entries go, saturated ones are re-stamped, the newest usable one is handed out or cloned |
| `CheckoutCoalesced`, `CheckoutCoalescedMiss` | `checkout_coalesced` through the SAN index, with its pruning |
| `ShareFresh` | `share_fresh`: a fresh multiplexed connection goes into the pool and its owner keeps a clone |
| `CheckinNow`, `CheckinDeferred`, `CheckinDrained`, `DrainAbandoned` | the three branches of check-in, and the end of the background task |
| `DropHandle`, `DropPermit`, `RetainConnectStreamPermit`, `RetirePermitTransport`, `RetireMultiplexTransport`, `Evict` | `Drop` of `PooledConnection` and of the permit, CONNECT responses, retiring, eviction |
| `PruneExpired`, `Tick`, `PeerClose`, `BodyDrained` | the reaper, time, and the peer |

The clients of the pool are unrestricted: every owner may take any step its
handle allows at any time, which covers cancellation. Time is a number of ticks.
An age stops at the bound it is compared with (`Older`), so it stays finite and
every comparison has the value it has in the code. `Conns` is a set of transport
identities; one is reused when nothing refers to it.

### Dispatch

One task per request. `task[t]` holds the phase and the locals of
`execute_single_with_hint_send`; a phase ends where the code releases the pool's
mutex or awaits. A task has two owners of `ConnectionPool` (`Slots = Tasks \X {1, 2}`),
because it holds two connections while a fresh one is exchanged for a pooled one.
Each action of a task conjoins the pool's action it calls, so composition is
literal and `DispatchSpec => PoolSpec` is a theorem about it.

- look-up: `LookupHit`, `LookupMiss` (adaptive h2c looks under the h2c key, then
  under Auto), `ResolveHit`, `ResolveMiss` (DNS, then coalescing);
- leadership: `Mark`, `WaitHit`, `WaitMiss`, `Remark` (`connecting_h2`, the poll
  loop, and giving up);
- dialling: `Reserve`, `Dialled`, `FellBack`, `Rekey`, `PreferExisting`, `Swap`,
  `Share`, `Unmark`;
- sending: `Accepted`, `Rejected` (hyper returns the request unsent),
  `Responded`, `Malformed` (CONNECT), `Stale` with its evidence, `Resume`,
  `CheckIn`;
- failing: `Abandon` is an error, a timeout or a cancellation at an await;
  `UnwindHandle` and `UnwindMark` drop the locals in Rust's order.

`wire` counts how often a request was written to a connection and `processed` how
often a server acted on it. They are history variables: no guard reads them.

### H2cProbe and H2cEvidence

`endpoints` is the map of `H2cProbeCache` with the generation, capability, expiry and
number of active probes of each entry; `tokens[p]` is the `H2cProbeToken` request `p`
holds and how far it is. One method under the lock is one action; a dropped token is
one too. `H2cEvidence` knows rounds of overlapping probes, what was observed in the
round now open, and whether that is still fresh: evidence is lost by expiring, and no step
of a probe makes it stale. The mapping reads an entry's fresh capability as the evidence,
its count of probes as "a round is open", and equality of its two generations as "observed
in this round", so a token that is miscounted, a generation that is not shared by a
round, or a failed attempt that wipes what its round has just seen breaks `EvidenceKept`.

### Execute

`budget` is the `RetryBudget`; `call[c]` is one `send_with_retry` with what
`FinalizedRequestState` keeps across attempts (the snapshot of the request last
finalised, the queued replay, the attempt count, eligibility and reservation) and
the locals of `execute_send`. Each await is a state: preparing (cache and cookies),
signing, on the wire, draining a challenge or redirect, backing off. In each of them
`TimesOut` may drop the attempt and `Cancel` the whole call. What a request carries is
abstracted to its URI, method, kind of body and the origins whose secrets its headers
hold. One attempt on the wire is one step; `Dispatch` refines it.

### Upload, HappyEyeballs, Bandwidth, RateLimiter, AltSvc

These model futures together with what wakes them, or several requests at the grain
of their atomic steps.

- `Upload`: the request's future under `FirstByteTimeout`, the task that uploads (hyper's
  connection task, or `supervise_upload` with its control channel), the server.
  `woken` says whether the executor will poll the future: the body-complete flag wakes
  nobody, so who polls when is part of the model. A request may wait for ever behind an
  upload whose end nobody reports; `UploadedRequestEnds` covers the ends that are reported
  (section 5).
- `HappyEyeballs`: one future over a vector of attempts and a delay, polled in the
  order of the vector; the fate of each address, silence included, is the network's choice.
  `interleave_addrs` gives each address the place the alternating loop gives it: its pass,
  and in a pass the leading family first.
- `RateLimiter`: `refill` is a read of the clock, a read of `last_refill_ns`, a
  compare-and-swap and an addition, each a step; then the token is taken or the caller
  sleeps and tries again.
- `Bandwidth`: bodies that share a bucket; `wait_duration` and `try_consume` are two
  steps between which other bodies run. A sleep is made, then polled once for its waker: one
  whose time has come by then is either armed all the same (tokio) or over without a waker
  and silent ever after (`"missed"`: the timers of smol and compio), and the model takes
  both. A body's task may also be polled for reasons of its own.
- `AltSvc`: `lookup_h3`, `suppress_h3` and clearing take two locks one after the other
  and are two steps each.

### SseDecoder

The decoder's buffer, scan position, byte order mark and draining of an oversized
event, fed in pieces of any length, against `Reference`, a decoder that sees one byte at
a time and keeps no buffer. A `Decode` step is one pass of the loop of `decode_impl`: a block
without data lines (`skip`) leaves the loop where the next pass finds it, and what stands
before the loop changes nothing when it is read again.

### Observation

`stage` says which carrier holds the owner of a request's end: `send` itself, the body,
an SSE stream, an upgrade (of any response: one that switches no protocol fails it). `inner`
and `sse` record what the observer was told; `fact`
is how the request really ended, a history variable no guard reads.

### ChunkDownload and Downloader

`ChunkDownload` is `ChunkDownloadSend::download`: the split, one task per range, the channel,
the assembly; a task may vanish without sending. A plain GET, without ranges, returns the
body it gets whatever its status: the file or an error page (section 5).

`Downloader` is one command and its reruns. `server` and `disk` and `ctl` (output and
control files) survive a `Kill`; `task` (probe result, piece storage, status), `worker`
(the locals of `pool_worker_loop`) and `cancelled` do not. Each method of the scheduler
or of a file's storage is a step, since each is a mutex; workers, checkpoints and the
user interleave. `Woken` is `notify_waiters`: it wakes who is parked now and leaves
nothing for who parks later.

## 3. The runs

Passing runs:

| Run | Question | Instance | Distinct states |
|---|---|---|---|
| `pool_accounting` | Do counts match owners, does the cap hold, has every socket one user and one key, does the SAN index cover what is idle, is nothing idle busy? Do expired entries leave and background check-ins end? | an h2c key and its Auto key, an HTTP/1.1 and an HTTP/2 transport, three owners, caps of 2 idle, 2 handles and 1 stream; with fairness | 75 thousand |
| `pool_tunnels` | Is a slot ever released early, are stream counts exact, does an evicted transport stay away? | one key; an HTTP/1.1, an HTTP/2 and an HTTP/3 transport through a queue of two; CONNECT; idle timeout and lifetime | 0.3 million |
| `dispatch_marks` | Has every mark one owner, whatever fails? Is every step one that the pool allows? | plain and adaptive requests, keys h2c and Auto | 0.5 million |
| `dispatch_web` | What is sent and processed how often? Does a request that ended hold nothing? | GET, POST, a one-shot upload and CONNECT over https with coalescing, two HTTP/2 transports, a cap of two | 2.5 million |
| `dispatch_ends` | Does a waiter leave its loop, does a request end? | liveness, two polls | 0.2 million |
| `download` | Does the control file claim only what is on disk? Are versions mixed, pieces or workers orphaned, control files removed too early? | one ranged file of three pieces (the last one short) and one on a single connection, two workers, failing fetches and writes, kills, reruns, a replaced resource | 1.9 million |
| `exchange` | Are tokens conserved, is what is retried what failed, do secrets stay home, do calls, uploads, races, frames and chunked downloads end as they should? | see below; with fairness | 0.3 million |
| `shared` | Does the probe cache implement `H2cEvidence`? Is the rate kept, a failure remembered, the decoding independent of the split, one end told? | see below | 0.7 million |

What each property says is in the comment above it. Those that took the most care:

- `NoEarlyRelease` and `SlotsBalanced`: the count of a key against the owners
  that will decrement it, through seven kinds of hand-over;
- `OneOwner`: an HTTP/1.1 socket is idle in one place, or owned by one handle or
  drain task, never both, and no clone is under another key;
- `EvictionIsFinal`: a stale HTTP/2 transport stays out of the pool although
  clones of it are alive;
- `MarkOwned`: exactly one task will remove a mark, including when the key
  changes under it on adaptive fall-back and when a waiter gives up and dials;
- `ProcessedOnce`, `OneShotSentOnce`, `OneReplay`: over all sequences of
  pooled, coalesced, awaited and fresh connections;
- `WaitEnds`, `RequestsEnd`: no waiting or replaying for ever;
- `TokensKept`: eligibility, reservation and dispatch each have a refund of their own,
  and every await may be the last; `RetriesSafe`: the snapshot never belongs to another hop;
- `ClaimsOnDisk`, `NoMixedVersions`, `WaitersHaveWorker`: through kills, checkpoints in the
  middle of anything, end-game duplicates and resources replaced between runs;
- `EvidenceKept`: the refinement, over all orders of begin, fail, reconnect and end.

Bounds, and why they are enough to meet the cases:

- *Owners and tasks.* Two or three owners, two tasks. Every conflict in this
  code is between two parties (leader and waiter, holder and evictor, clone and
  original); a third owner in `pool_accounting` lets a cap of two be full while
  somebody asks. The theorems remove this bound for the properties they cover.
- *Transports.* Two or three. With two, one can be idle while another is dialled;
  with three, a queue of two overflows and the scan passes over several kinds.
- *Limits of the pool.* `MaxIdlePerHost` 2, `MaxActivePerHost` 2 or 3,
  `MaxActiveStreams` 1: each is reached, except that the queue of `pool_accounting`
  never overflows.
- *Time.* `IdleTimeout` and `MaxLifetime` of one or two ticks: an entry can be
  fresh, on the edge, and expired. The reaper interval is derived from them as in
  the code.
- *Polls.* `MaxPolls` 1 or 2 where the code has 200 polls of 5 ms. What counts is
  that the bound is reached, and in `dispatch_ends` not on the first miss.
- `exchange`: bodies of up to two frames; up to three addresses of two families with any
  fates; two bodies under a bucket of three bytes, with frames as large as the bucket and sleeps
  that may be over at their first poll; two
  URIs of two origins, one call of any kind alone or two calls that share a budget of one
  token, one retry and one redirect, so that every limit is reached; files of up to five
  bytes in up to three chunks. Nothing in these parts depends on more than the next
  frame, address or hop.
- `shared`: three probers on two endpoints (two that overlap and a later one), eviction
  above one entry, three generations; two callers of a limiter of two tokens over five
  ticks; three requests to an authority (one failing, one advertising, one looking up);
  every stream of at most seven bytes, with and without a byte order mark, with payload
  limits of 1, 3 and none, in every split.
- `download`: two versions, two tries, `--split` 2: the end game begins while pieces are
  left, and a failure can be the last one allowed. `download_leave` has one worker, so that
  its counterexample cannot be a lost notification: with `all_done` looking at the files of
  the pool the same instance satisfies `WorkersLeave`.
- Owners (tasks, workers) are symmetric in the safety runs; no symmetry is used in the
  liveness runs. `VIEW` identifies states that differ only in the remains of a
  transport nothing refers to (its stream count excepted), in ages that no limit reads,
  in locals of a worker that its phase no longer reads, or in the memory of a process that
  has ended.
- `exchange` and `shared` do not check for deadlock: each of their parts comes to its
  end. The other runs do.

Fairness:

- `pool_accounting` assumes weak fairness of the clock, the reaper
  (`PruneExpired`), and of the two ways a background check-in ends
  (`CheckinDrained`, `DrainAbandoned`): tasks the library spawns itself and timers
  of the executor. Nothing is assumed of requests or of the peer.
- `dispatch_ends` assumes weak fairness of the poll loop only, whose timer always
  fires: `WaitEnds` therefore holds although the dial it waits for may hang for ever.
  `RequestsEnd` states its own assumption, `AwaitsEnd`: every await of a task ends,
  which the code guarantees for the wait loop and leaves to the caller's timeouts
  for dials and responses.
- `exchange` and `bandwidth_stall` assume that timers fire, that the executor polls a
  future whose waker fired, and that a task hears its channel. Servers owe nothing: they
  may never answer, never take an upload, hang a connection attempt. Calls have a
  per-attempt timeout, without which a silent server keeps a call for ever. A chunk task
  ends with a result or is lost; an address whose fate is to answer answers.

Four more runs show a disagreement with a comment, a test or a page of documentation
(section 5).

## 4. The proofs

The theorems hold for every value of the constants that satisfies the named assumptions
of the modules, which TLC evaluates in the runs. `FiniteAssumption`, `AttributeAssumption`
and `LimitAssumption` (`ConnectionPool`) say that the sets of keys, transports and owners
are finite, that the attributes of keys and transports are functions of the right type,
that a limit is a number or absent, and that caps are at least one as the builder requires;
`DispatchAssumption` says that a task has two owners. The others say that requests that are
counted are finitely many (`Probers`, `Calls`, `Callers`, `Workers`), that the downloader has
a worker and no more than `--split`, and that sizes and limits are natural numbers. What the
models bound for TLC only (generations, clock ticks, sizes, versions) is bounded by an
arbitrary number in the proofs.

Every proof has the same shape: an inductive invariant in named parts, one lemma for the
initial states, one per group of actions, and a theorem that reads the property off. Where an
action edits a record inside a function, a lemma first says what the step does in general
(one owner lets go, one call moves on, one worker changes its file), and the actions are
classified under it.

**The pool** (`ConnectionPoolProofs`). Counting and owning are proved one after the other.

    Inv     == TypeOK /\ StreamsExact /\ NoEarlyRelease /\ ActiveWithinCap /\ StreamsWithinCap
    PoolInv == Inv /\ OwnerInv /\ NeverBusy /\ NoBusyIdle /\ SanIndexCovers

Types alone are not inductive: the stream counter stays a natural number only
because it equals the number of permit owners (`StreamsExact`), so that a release
finds it positive. `NoEarlyRelease` is needed for the same reason on the active
counters: the saturating decrement would hide a release too many, and the caps
would mean nothing. The argument counts owners. `CountChange` says how the
cardinality of a set changes when one element enters or leaves; `HoldersCount` and
`PermitCount` apply it to a step that changes one owner. `SlotStepAll` then shows,
action by action, that a step never lowers the *slack* (the count minus the
owners), keeps it equal when there are no tunnels, and raises a count only below
the cap or by rekeying; `StreamStepAll` shows that a step moves at most one permit
and the counter with it. The theorems: `TypeCorrect`, `NoEarlyReleaseHolds`,
`SlotsBalancedHolds` (without CONNECT; with it the finding of section 5 breaks it),
`ActiveWithinCapHolds` (on keys that `rekey_active` does not move slots to, for the
same reason), `StreamsExactHolds`, `StreamsWithinCapHolds`.

`OwnerInv` follows a transport instead of a count: it is in the queues once (`IdleOnce`) or
has one original (`OwnedOnce`), and its clones and its idle place agree on the key
(`KeysAgree`, without which rekeying or a late check-in could move it under another). The
queue lemmas say which transports the scan of a checkout, an eviction at capacity and an
expiry leave (`ScannedNames`, `CheckoutNames`, `PushedNames`): they rest on what `Keep`
returns, which `EnumerationExists` and `KeepSubsequence` prove for any queue. Each action is
then one of six moves of a transport (`OwnStep`): things fade, a clone is made, an HTTP/1.1
connection is taken out, one is dialled, rekeyed, or put back. The theorems: `OneOwnerHolds`,
`NoBusyIdleHolds` (`NeverBusy`: a multiplexed transport is never busy), `SanIndexCoversHolds`,
and `EvictionIsFinalHolds`, an action property: only an original can be put back.

**Dispatch** (`DispatchProofs`). The inductive invariants are

    DispatchInv == DispatchTypeOK /\ MarkInv /\ ReplayInv
    HoldInv     == \A t \in Tasks : TaskHolds(t)

`MarkInv` strengthens `MarkOwned` by the phases in which a task can own a mark:
without it, a step that ends a request could leave one behind. `ReplayInv` relates,
for every task, the number of wire attempts to whether the one replay has been
claimed and to the phase, and the number of times processed to the evidence the
code asked for before it replayed. The theorems: `DispatchTypeCorrect`,
`MarkOwnedHolds`, `OneReplayHolds`, `OneShotSentOnceHolds`, `ProcessedOnceHolds`.
`DispatchImplementsPool` shows that each step of dispatch is a step of the pool or
leaves it alone; `DispatchPoolSafe` follows: what is proved of the pool's counts, caps and
owners holds while requests run. `HoldInv` says, phase by phase, what a task's two slots
hold (nothing, the reservation, one connection, two while it swaps them); its steps need the
type of `handle`, which comes from the pool by the refinement. `EndedHoldsNothingHolds` is
what it says of a task that is idle.

**The probe cache** (`H2cProbeProofs`). `ProbeInv` adds to the types that a request holds a
token exactly while it probes or falls back, that no evidence is of a later generation than
its round, and `ProbesCounted`: the probes an endpoint counts are the tokens held for it, all
of the open round. `H2cEvidenceKept` is the refinement: through the mapping, every step of
the cache is a step of `H2cEvidence` or none, and only the passing of the time-to-live is its
`Expire`. Without the count a finished probe could close a round others are still in, and the
mapping would not know.

**The execute loop** (`ExecuteProofs`). `ExecuteInv` says of every call that a queued replay
is paid for and a permit lives only while a challenge is drained (`ReservationHeld`), that
retries are counted, that the snapshot is what went on the wire last (`SnapshotSent`) and that
a request carries only the secrets of where it goes (`SecretsHome`), and of the budget that
it lacks no more than the calls have spent or hold, and has no more than deposits explain.
`StepKeeps` reduces a step of one call to its own state and the change of its share. The
theorems: `ExecuteTypes`, `ExecuteTokensKept`, `ExecuteRetriesSafe`,
`ExecuteCredentialsStayHome`.

**The downloader** (`DownloaderProofs`). `DownloaderInv` relates, for every file, the
server's version, the probe's and the control file's, and says that both the bitfield and the
control file claim only bytes on disk that may stand there; that a worker has fetched or
written bytes of the version probed; `FlightOwned`; that a file that has just become whole is
about to be marked; and that somebody is at a piece or about to look for one. `ClaimsOnDisk`
speaks of the server's version only and is not inductive: the server may replace the file
between probe and write, so the claims are kept for the version probed as well. For
`WaitersHaveWorker` the proof shows that `next_work` comes back empty only when nothing is
left or somebody else is busy (`LastFindsWork`), and that `all_complete`, which counts too few
entries (section 5), still never says yes too early (`AllDoneMeansDone`). The theorems:
`DownloaderTypes`, `DownloaderClaimsOnDisk`, `DownloaderNoMixedVersions`,
`DownloaderFlightOwned`, `DownloaderWaitersHaveWorker`, and `DownloaderControlKept`, an action
property.

**Parts of an exchange** (`ExchangeProofs`). `UploadDetachedKept`: a cancellation, sent or
heard, is on behalf of somebody who gave the exchange up. `ChunkAssembledWhole`, for any size
and any number of chunks, of a download over ranges: the ranges tile the file (`Division`, `RangesTile`), and a function
defined by recursion on the results concatenates what arrived to the bytes up to the end of
each range (`PiecesMakeTheFile`, by least counterexample). `RaceTriesAll`, for any answer of
the resolver: the race fails only when every address was tried and refused, and while it runs
an attempt is out and the delay of the next one is set if an address is left. It rests on
`Interleaved`, that the interleaving holds every address and no other (no two addresses have
the same turn, so the places are a bijection), and on an invariant that settles every address
already started. `BodiesAreWoken`, for any bodies, frames of any size and timers of either
kind: a body with a frame to hand out is being polled, is woken, has an armed timer, or had a
sleep that was over at its first poll. So a reader that never goes on is one that wakes in vain
(`bandwidth_stall`) or one whose timer was missed (section 5); nothing else, the polls of
other bodies and of its own task included, loses its wake-up.

**Server-sent events** (`SseDecoderProofs`). `MessagesAreTheStreams` is `SplitInvariant` for
every body, cut anywhere, and every payload limit. The inductive invariant, `SseInv`,
compares the decoder with `Reference` at one place of the body, the one where the buffer
begins: either nothing was taken off yet and a byte order mark may be to come (`Untouched`),
or that place is between two events (`Between`), or inside an event whose error was returned
and whose rest is being dropped (`Dropping`); and the outcomes returned are right for the
events before it. `SplitInvariant` alone is not inductive, for it does not say how far the
buffer is. The lemmas climb from the byte to the pass: what one byte does to the reader
(`ByteRead`), that inside a block it collects lines until the first empty one, which is where
`find_event_boundary_from` finds the boundary whatever position the search resumes at, that
the lines of the block are then those the reader has, and that a scan which holds back a CR at
the end of the buffer stops where the reader ends the event. One lemma for each way out of a pass
(`FoundPass`, `PassWaits`, `PassDrops`) and one for the drain (`DrainKeeps`) make up
`DecodeKeeps`.

**Shared state** (`SharedProofs`). `AltSvcFailureRemembered` is inductive
with what the two maps promise while an operation is between their locks: an old entry is
there only while a suppression has its second half to do. `RateLimiterRateKept` counts the
tokens that callers have claimed from the clock and not yet added (`TokensAccounted`), so that
a compare-and-swap cannot claim an interval twice. `ObservationFinishTold` keeps the claim on
the finish, what was told and what happened in agreement through every carrier of the owner.

**Only model-checked.** Liveness (`ExpiredReaped`, `DrainEnds`, `WaitEnds`,
`RequestsEnd`, `AbandonedUploadStops`, `UploadedRequestEnds`, `ReachableWins`,
`FramesDelivered`, `CallsEnd`, `ChunkDownloadEnds`), because the prover has no reasoning
about fairness and `ENABLED`. `RaceTriesAll` and `BodiesAreWoken` are the safety halves of
`ReachableWins` and `FramesDelivered`: nothing is given up early, and nobody sleeps for good
but where the timer was missed.
Every other property of a passing run is stated by a theorem.

## 5. Where code and documentation disagree

Shown by a run:

| Run | What happens | What is said |
|---|---|---|
| `pool_tunnel_leak` | When a CONNECT answer is malformed, `retire_multiplex_transport` clears the handle's key without releasing its slot, so `Drop` releases nothing and the key's count stays one too high. Under a cap such slots add up. | `pool/mod.rs:506`: "check-in or drop releases the active slot exactly once" |
| `download_skip` | A process killed before the first checkpoint leaves a file of full length without a control file. The next run takes it for complete and skips it (`download/mod.rs:144`). | `cli/download.md:44`: "Re-running the same command automatically resumes interrupted downloads." |
| `download_leave` | `all_done` counts positions where the statuses are indexed by file id (`download/scheduler.rs:365`). With a single-connection file before a ranged one, the only worker completes the last piece, finds `all_complete` false and waits for ever, and the command with it. | the test `file_completion_detected` (`download/scheduler.rs:445`): "assert!(scheduler.all_complete());" once every piece is complete; `download/engine.rs:478`: "// Wait for all workers" |
| `bandwidth_stall` | A frame larger than `bytes_per_sec` waits for a level the bucket never reaches (`bandwidth/mod.rs:65`). | `bandwidth.md:29`: "the frame is buffered and the read yields until tokens refill" |

Met while modelling, in the models as the code has them, without a run of their own:

- A worker of the downloader looks at `all_complete` and only then waits
  (`download/worker.rs:493-497`), and `notify_waiters` keeps nothing for it: with two workers
  the notification of the last file can fall in between, and the worker waits for ever. (With
  `all_done` corrected and two workers, `WorkersLeave` fails in this way.)
- A worker that cannot write its piece ends with the piece in flight
  (`download/worker.rs:552`) and still counts as a worker of its file: another one gets the
  piece in the end game at best, and not when it is the last, so that the others wait for
  the file until the command is cancelled. `FlightOwned` and `WaitersHaveWorker` except dead workers.
- Without a strong entity tag or a date nothing is resumed (`download/engine.rs:1031`), but
  no `If-Range` is sent either (`download/worker.rs:289`): a resource replaced during a run is
  then mixed of two versions. `NoMixedVersions` is about files with a validator.
- The first-byte timer does not always start. `timeout.rs:112` says "Timeout that starts
  after request upload completes." and `forward/mod.rs:530-533` "The timer starts after the
  terminal request bytes reach the transport." But the end of an HTTP/1 or HTTP/2 upload wakes
  nobody (`timeout.rs:160` looks at the flag only when the future is polled), and an HTTP/3
  upload that the peer stopped without an error never sets the flag (`h3/request.rs:327`): a
  silent server then keeps the request for ever. The other way round, the flag is set when
  the body has been read, which may be before its last bytes are written.
- `poll_frame` throws away the answer of the first poll of its sleep (`bandwidth/body.rs:70`
  and `:87`). The `async_io::Timer` of smol and compio (`runtime/smol_rt.rs:31`,
  `runtime/compio_rt.rs:28`) answers Ready once, without keeping a waker, when its time has
  already come, as it has after a wait of 0 or a few nanoseconds; later polls (`:52-57`) find
  it Pending for good. `bandwidth.md:29` says "the read yields until tokens refill".
- A chunked download that falls back to a plain GET does not look at the status
  (`chunk_download_send.rs:82-88`): the page of a 404 or 500 comes back as the file, where
  `chunk_download.md` promises "the complete downloaded content". `AssembledWhole` is about
  downloads over ranges.
- `rekey_active` moves a slot to the Auto key without looking at that key's cap
  (`pool/mod.rs:525`; `connection_pool.md:43` says the cap covers all handles of a key).
- A one-shot request that a pooled connection returned unsent may meet further pooled
  connections before a fresh one (`dispatch_send.rs:324`; `request_dispatch.md:46` says "once
  on a fresh connection"). It is not sent twice.
- An adaptive request that hit a dead connection under the Auto key keeps that key; if its
  fresh dial speaks h2c, the connection is pooled under Auto (`dispatch_send.rs:265`;
  `connection_pool.md:11` and `pool/mod.rs:159` speak of segregation by protocol).
- A retry replays the request last finalised, not the whole operation with its redirects
  (`retry.md:114`); every response that is not retried deposits into the budget, a 5xx too
  (`retry.md:128`).
- `debug_assert!` at `client/replay.rs:304` can fail: a timeout during the signature of a digest
  replay leaves its reservation in place. A release build gives up the retry.
- A 307 of a POST with an empty body is an error, since there is no body to replay.
- A 304 does not refresh the stored entry (`caching.md:69`), and there is no background
  revalidation (`caching.md:49`). These are outside the models.

## 6. What is left out, and the plan

### Left out of the modelled parts

- the HTTP/3 branch of dispatch (`dispatch_send.rs` 606-884), except its Alt-Svc lookup and
  suppression; HTTP/3 transports and keys are in `ConnectionPool`, its upload in `Upload`;
- hit and miss counters, snapshots and observer events of the pool and of dials, which
  nothing reads back; poisoned mutexes; the cause of a dial's failure;
- in `Execute`: custom classifiers and redirect policies, `Retry-After` and the length of a
  backoff; what cache and cookie jar hold is a choice;
- in `SseDecoder`: fields other than data;
- in `Downloader`: checksums, WebDAV listings, the terminal UI, and `download_segmented`,
  which no command calls; power failures (a killed process keeps its page cache; pieces are
  not synced before the control file claims them, `download/disk_writer.rs:26`);
- in `ChunkDownload`: a resource that changes between the chunks, which the code does not
  notice.

hyper, h3 and the executors are external: what the models assume of them is what the code
asks them (`is_ready`, `is_closed`, a request returned unsent, the evidence in an error, wakers).

### Not modelled

More than half of the repository is tests, examples, the terminal UI and platform adapters,
and most of the rest that no module maps is work on strings without state of its own:

- the response cache, cookies and HSTS: each operation is a decision over header values and
  dates under one lock; the logic is in parsing and date arithmetic;
- proxy handshakes: sequential exchanges of one future over one stream, that encode and parse
  bytes; in `Dispatch` a proxied dial is one of the ways a dial succeeds or fails;
- message signatures, structured fields, multipart, digest headers, forwarding rules,
  decompression: parsers and formatters without state;
- TLS, connectors, runtimes, the blocking, wasm and terminal interfaces: adapters.

### Planned theorems

What is left to prove are facts that no run states yet: how many bytes `Bandwidth` lets
through in a given time (a frame goes out whatever `try_consume` granted, so bodies that pass
`wait_duration` together exceed the rate), and that a race starts one attempt per address.
