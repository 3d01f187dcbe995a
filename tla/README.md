# Formal model of vpn-demo

TLA+ specifications of the protocol and concurrency core of this VPN (`src/pkg/session`,
`src/pkg/ratelimit`, `src/cmd/server`, `src/cmd/client`, and the UDP path between the two) and of
the start of its programs (`src/cmd`, `src/pkg/tun`, the key files), TLC configurations that check them on small instances, and proofs for TLAPS. Every definition is
translated from the Go source; `PROJECT.json` maps each to its lines.

## The system

| component | state | operations | talks to |
|---|---|---|---|
| replay window (`session/replay.go`) | highest number, 1024-bit bitmap, started flag | `accept` | called by `Session.Decrypt` |
| session (`session/session.go`) | sending nonce, receiving key, replay window | `Encrypt`, `Decrypt`; `Initiator`, `Responder` | `flynn/noise` |
| channel (`session/channel.go`) | current and previous session, end of the grace | `Encrypt`, `Decrypt`, `Rotate` | sessions; used by client and server |
| packet format, UDP transport (`transport/`) | a socket | `Send`, `Receive`, `Marshal`, `Unmarshal` | the network |
| rate limiter (`ratelimit/`) | a global bucket; a bounded table of buckets per source | `Allow`, eviction | called by the server before each handshake |
| server (`cmd/server`) | table address -> client (channel, lastSeen) | goroutines `handleUDP`, `handleTUN`, `cleanupClients` | transport, TUN device |
| client (`cmd/client`) | channel, pending initiator | initial `handshake`, then goroutines `handleUDP`, `handleTUN`, `keepAlive`, `rekeyLoop` | transport, TUN device |
| identity files, keygen (`session/identityfile.go`, `cmd/keygen`) | a key file | load or create; replace | read at start-up; the peers are told the public key |
| allowlist (`cmd/server`, `buildAllowlist`) | a set of keys | parse | read at start-up |
| TUN device, set-up, Wintun (`tun/`) | one adapter; `wintun.dll` beside the executable | open, read, write; `EnsureWintun`, `SetupInterface` | the operating system |
| `ipparse` | | `Describe` | log lines |
| scripts | | | |

What is hard here: three goroutines of the server and four of a client share channels, the table
and the pending initiator with several short holds of a lock per operation; UDP loses, duplicates
and reorders; both ends switch keys at different moments; the server forgets everything when it
restarts; the replay bitmap reuses its bits; time limits (grace, idle limit, refill) race with
late messages; a key file and a DLL are written in place by programs that may be started together,
killed, or lose power in the middle. `PROJECT.json` lists these hazards with their lines and the properties that watch
them.

## Modules

| module | models | notes |
|---|---|---|
| `ReplayRule` | which numbers are fresh after a set was accepted | the rule all others build on |
| `ReplayFilter` | abstract anti-replay filter | remembers every number |
| `ReplayWindow` | `replayWindow` | words and bits; one call of `accept` is one step, its outcomes are the actions `First`, `Advance`, `TooOld`, `Duplicate`, `Late` |
| `ReplayWindowProofs` | proofs about it | |
| `Delivery` | abstract datagram service | may lose and reorder, hands up each datagram at most once, only if it was sent |
| `ChannelOps` | the value of a `Channel` | `Rotated`, `Opens`, `Accepts`, ...; used by `Channel`, `VpnServer`, `VpnClient` |
| `Channel` | one receiving channel and all that can reach it | `Seal`, `Decrypt`, `Rotate`, `Tick` in any order |
| `ChannelProofs` | proofs about it | |
| `DataPath`, `MCDataPath` | `Channel.Encrypt`, `Channel.Decrypt`, `Session.Encrypt`, `Session.Decrypt` lock by lock | any number of goroutines that send and receive at both ends, and rotations between any two of their steps |
| `DataPathProofs` | proofs about it | |
| `PacketFormat` | sizes: `Marshal`, `Unmarshal`, receive and read buffers; what `Describe` reads | operators and theorems only |
| `Wire` | the datagrams under way, and what is sent and written at the TUN devices | the constant `Faults` says what may go wrong |
| `VpnServer` | `cmd/server/main.go` | see below |
| `VpnClient` | `cmd/client/main.go` | any number of processes |
| `Tunnel` | composes the two over `Wire` | time, restarts, losses, fairness; the end-to-end properties |
| `TunnelProofs` | proofs about it, whatever the timers and the network do | types, authorisation, delivery |
| `TunnelSyncProofs` | proofs about it under `Patient` | the two ends stay in step, dead clients leave |
| `TokenBucket`, `RateLimit` | `ratelimit.go` and the order in which `handleHandshake` asks the limiters | |
| `RateLimitProofs` | proofs about it | |
| `Startup`, `MCStartup` | `main` of the three programs up to the socket: key file, allowlist, DLL, adapter | any number of processes on one host, ends, power losses |
| `StartupProofs` | proofs about it | |

### How steps correspond to the code

*Server.* `handleUDP` serves one datagram after the other, so its local state is explicit: `reply`
is the response between the unlock after `Rotate` (`AcceptHandshake`) and `Send` (`SendReply`), and
`taken` the packet between `Decrypt` (`DecryptData`) and the second lock of `handleData`
(`FinishData`). `handleTUN` takes a snapshot (`ReadTun`) and serves its entries one by one
(`SendDown`). `CleanupClients` and `HandlePing` are one hold of the lock each. Entries are objects
in a heap: a handler keeps using the one it looked up, also when it has been deleted or replaced;
an object nothing refers to is dropped (`Kept`).

*Client.* Before the first response only `main` runs (`Start`, `FinishHandshake`; anything else that
arrives ends the process, `FailHandshake`). Then `completeRehandshake` is two steps, because it
releases `pendingMu` in between: `ReadResponse` and `CompleteRehandshake`. Storing the pending
initiator and sending its message are one step (`StartRehandshake`), since the network may delay the
message anyway; the same holds for sealing and sending a frame. Clearing `pending` and `Rotate` are
one step: what other goroutines can do in between is the same before or after.

*Data path.* `Tunnel` takes a call of `Encrypt` or `Decrypt` as one step. `DataPath` is what justifies
it: `PickSession` is the hold of `Channel.mu` in `Channel.Encrypt`, `TakeCounter` takes `sendMu` and
reads the nonce, `Seal` (or `Exhausted`, at the last nonce) seals under the cipher state's own nonce
and releases it; `ReceiveFrame` is the hold of `Channel.mu` in `Channel.Decrypt`, `SetNonce` takes
`recvMu`, `Open` decrypts, releases it, and goes on to `Accept` (the replay window, after `recvMu`) or to
the previous session. The cipher states keep a nonce of their own, so that a step of another goroutine
between `SetNonce` and `Open`, or between `TakeCounter` and `Seal`, would show. A session has two keys,
one a direction, and the network may hand a frame back to the end that sealed it.

*Start.* In `Startup` a file is missing, or has a head and a tail that are written or not; a key half
written, or put together from two writes, is a value of its own. `os.WriteFile` is `CreateKeyFile`, which
empties the file, and `WriteKey`; `WriteKeyCut` is a write that ends early. The unpacking of the DLL is
`CreateDll`, `CopyHead`, `CopyTail`; any error of `os.Stat`, not only a missing file, starts it (`Stat`). `Exit` may follow any step: it is every `log.Fatalf`, a signal, or a
kill. After a power loss a file that was not flushed is as written, empty or missing. `told` is the
identity the peers have been given; they are given a new one after a race for the file, when keygen has
replaced it on purpose, or when a power loss has removed it. A file that a power loss has only emptied
is no such case: no start gets past it, and none may put another identity there. `given` is what a
server gets as `-peers` and `-peers-file`: keys in canonical base64 or with stray trailing bits (which
the decoder takes), lines that are no keys, and a file that cannot be read. Blank lines and comments
are no lines. `BuildAllowlist` normalises the keys; `Admits` is the look-up of `handleHandshake`.

*Cryptography.* `flynn/noise` is external. A first message names the initiator state that made it
and the client's static key; a response completes exactly that initiator with one session; a frame
opens under the session it was sealed with and no other; a failed read leaves the initiator usable.
A session is an identity, nonces and replay windows are kept per session and direction.

*Time* is a `Tick`. The grace counts down; `lastSeen` is an age that stops at the first value that
no longer makes a difference; a sweep that is due happens before the next tick.

*Messages* are records. Their sizes are in `PacketFormat`: header, length field, padding and buffers.
The bytes themselves, log lines, TUN write errors and base64 are left out.

*Histories* (`sent`, `writes`, `owner`, `disturbed`, `gone`, `retired`, `hasty`, `spent`, `due`, ...)
are read by no guard of a handler: they only serve properties.

## Runs

| run | instance | shows |
|---|---|---|
| `replay_window` | window 4 in words of 2 bits, numbers 0..10 | types, `HighWater`, `BitmapExact`, and refinement of `ReplayFilter` (`FilterSpec`). Every residue is reused twice, jumps below, at and above the window happen |
| `channel` | 3 sessions, 3 numbers, window 2, grace 2 | each frame handed up at most once (`DeliverySpec`), windows record exactly what was handed up, the grace holds between rotations at least a grace apart, old keys expire |
| `tunnel_patient` | 1 client, 2 addresses, 3 sessions, a packet each way, no loss except refused handshakes | `SettledInSync`, `UplinkOpen`, `DeadClientsLeave`. Three sessions allow two rekeys, or a rekey and a client that returns from the other address |
| `tunnel_faults` | an allowed and a foreign client, duplication, reordering, refusals, stray pings, a server restart, impatient timers, 2 sessions | `OnlyAuthorised` and end-to-end `DeliverySpec` |
| `tunnel_recovery` | 1 client, loss, refusals, a restart, identities reused | liveness: `Recovers` |
| `rate_limit` | 3 sources, table of 2, a token is 3 units and a tick refills 1 (2 globally) | `GlobalBound`, `SourceBound`, `OwnBudget`, `RecentStay` |
| `data_path` | a sender pair at the client, one receiver there and two at the server, 3 packets, 2 sessions, 2 numbers, window 2 | unique nonces equal to the counters in the headers (`NonceOnce`), genuine frames authenticate (`GenuineOpens`), at most once and only at the far end (`DeliverySpec`), no lock is kept (`LocksAreBrief`) |
| `startup` | a server, a client and a keygen with one key file, 3 keys, Windows; each list empty, with a client's key, or mistyped, the file readable or not | `SameIdentity`, `GenuineIdentity`, `AdmitsAsListed` |
| `rekey_gap`, `pending_overwritten`, `unauthenticated_ping`, `limit_order` | | each finds a behaviour that contradicts a comment or the README, see "Findings" |

*Bounds.* `MaxCounter`, `MaxSessions`, `Sess`, `Ini`, `Entry`, `MaxRestarts` and `MaxTime` bound what
is unbounded in the program. In the runs without `Recycle` a session identity is used once, and when
all are used a further first message is lost (`Lose`), which the code cannot tell from the network.
In `tunnel_recovery` an identity that nobody holds and no message names is used again, so behaviours
are infinite and the loop of rekeys is complete. `MaxCounter` 1 lets a client send two frames under
a session, enough for one before and one after a switch; the window itself is checked in
`replay_window` and `channel`.

`data_path` has more goroutines than the programs start: each end has one that sends and one that
receives, and `session.go` promises no more than "one sender goroutine and one receiver goroutine". The
locks are made for any number, and the properties hold for any number; two of each are what lets
every pair of steps interleave. Only the way up carries packets, since the two directions share nothing
but the channel; the theorems cover both. 3 packets and 2 numbers exhaust a session, so `Exhausted`
happens too. In `startup` three keys are enough for each process to draw one: an identity that
nobody holds and no file names may be drawn again, which stands for a new one.

*Patient.* In the runs with `Patient`, tickers fire only when nothing is under way at that client,
and clocks advance only when nothing is under way anywhere: the timers of the program (30 s, 120 s)
are orders of magnitude longer than a datagram takes. `SettledInSync`, `UplinkOpen`,
`DeadClientsLeave` and `Recovers` need it; the at-most-once and authorisation properties do not and
are checked without it.

*disturbed.* `SettledInSync` and `UplinkOpen` hold until a response is lost, an idle client is removed
or the server restarts: the server has then switched, or forgotten, and nothing but the next
rehandshake repairs it. That it does is `Recovers`.

*Fairness* (`FairSpec`). Weak fairness of `handleUDP` on both sides, of the sweep, and of the removal
of datagrams for processes that are gone: these are goroutines that are never blocked for good.
Strong fairness of the tickers (`Tick`, `RekeyStep`), which keep firing whenever the patience
condition lets them, and of accepting a first message and reading a response: of infinitely many
handshakes some get through the network and the limiter. Without that last assumption a network that
loses every response would be fair. `Recovers` needs `Rekey = TRUE`: with `-rekey 0` a client never
recovers from a restart of the server.

## Proofs

TLAPS proves, for all values of the constants that meet the named assumptions:

* `WindowInvariant` and its corollaries, `WindowRefinesFilter` (`ReplayWindowProofs`): `HighWater` and `BitmapExact` are
  invariants, and `ReplayWindow` implements `ReplayFilter`, for any window that is a multiple of the
  word size. The inductive invariant adds that the window is blank before the first number; the core
  is that two numbers closer than `Window` never share a bit (the lemmas `ResiduesDiffer` and `SlotsDiffer`, on `%` and
  `\div`).
* `ChannelInvariant` (with `ChannelTypes` and `GraceIsKept`), `ChannelDelivers`, `ChannelOldKeysExpire`
  (`ChannelProofs`): the inductive invariant adds how the previous session and its remaining time relate
  to the history of rotations.
* `TunnelTypes`, `TunnelAuthorises`, `TunnelDelivers` (`TunnelProofs`): for any number of clients,
  addresses, sessions, packets and table entries, any `Faults`, patient or not. `DeliverySpec` speaks of
  packets, the handlers of nonces and windows, so the inductive invariant `Inv` has five parts:
  `Shapes` (the types, and that whatever a goroutine of the server still refers to is an object of the
  address it looked up, also after the entry was replaced), `Owners` (whose session a response, a
  channel or a frame belongs to, back to the initiator that asked for it), `Untouched` (a session a
  client is about to rotate to is new to all clients, so that its nonce and window may start afresh,
  although the server may have sealed frames under it already), `Sealed` (one frame a datagram, one
  datagram a nonce, all below the counter) and `HandedUp` (what was written, or is in `handleData`
  between its two locks, has its number in the window). A step that writes a packet finds its number
  outside the window, hence the packet not yet written.
* `DeadClientsAreSwept` (`TunnelSyncProofs`), under `Patient` and without stray pings: `Abandoned` says that
  for an address nobody uses nothing is under way that could renew `lastSeen`, so that the entry's age
  is at least the time the process is gone; `Swept`, that no entry outlives the limit by more than the
  time since the last sweep. Without the second hypothesis the property is false (finding 3).
* `EndsAgree`, `UplinkSurvivesRekey` (`TunnelSyncProofs`), under `Patient`. That both use the same session when
  all is quiet says nothing of the states in between. `InStepWith` does: either nothing is offered to the
  client and both ends hold the same two sessions for the same time, or the server is ahead by exactly
  the session offered (in a response, or read and not rotated to) and has kept the client's current one
  for the whole grace. It needs `OwnAddress` and `OneHandshake` (one process at an address, and one handshake
  under way there, the one its client awaits: this is where `Patient` enters), and `Unseen` (no frame
  under way was accepted before, and a client counts on from where the server has seen it), which makes
  every frame of a held session fresh. A frame that a later one overtakes by a whole window is refused by
  the window on purpose; `UplinkOpen` excepts it (`Overtaken`).
* `LimitsHold` (`RateLimitProofs`): the bounds alone are not inductive. Units spent since a tick
  *plus* units still in the bucket never exceed the burst and the refill since then; this holds for
  the global bucket and for each source, and survives evictions because an evicted source starts a
  new account with at most a full bucket. `LimiterTypes`, `GlobalLimitHolds` and `SourceLimitHolds` are its
  parts.
* `RecentAreKept` (`RateLimitProofs`), for any table size: an entry's `seen` is the time of its source's last
  event, and a source heard but not tracked has at least `MaxKeys` others heard since. When an entry
  is evicted, the `MaxKeys - 1` that stay, being seen no earlier, and the new one are those; later events
  only add to them.
* `DataPathSafe` and its corollaries, `GenuineFramesOpen`, `DataPathDelivers` (`DataPathProofs`): for any number of goroutines
  at both ends, sessions and packets. The inductive invariant says what a goroutine inside a call may
  rely on: who is at `seal` holds `sendMu` and its counter is still the cipher state's nonce, who is at
  `open` holds `recvMu` and the nonce is still its frame's, every frame of a key is below that key's
  nonce, and a packet is in one place only: unread, with one sender, or in one frame. The last, with
  `NonceOnce` and the window, is why a packet is handed up once although two receivers may have
  authenticated the same frame.
* `IdentityIsStable` (with `StartupTypes`), `IdentitiesAreGenuine`, `ServersAdmitAsListed` (`StartupProofs`): for any number of programs and
  keygens on a host, and any lists. `SameIdentity` is not inductive: without a race, a program that will create the key file does so
  where none is, one that has it open is the only one with an identity, and a file whose identity was
  told holds it or is empty. For the lists, `AllowInv` keeps a server's allowlist tied to what it was given.
* `PacketReadBack`, `PacketsOfTheDeviceMarshal`, `DescribeReadsInside` (`PacketFormat`): arithmetic over all
  sizes, hence without a run.

The assumptions are the named ones of the modules: positive bounds, and model values (`None`, `Nil`,
`NoSession`) distinct from what they stand beside.

`Patient` in a theorem's hypotheses is the constant of that name, TRUE in the run that checks the same
property: the tickers wait until nothing is under way at their client, see "Bounds".

Every invariant and action property of the passing runs is proved, and the four refinements of an
abstract specification. Only model-checked: `Recovers`, since liveness under fairness and `ENABLED` are out
of the prover's reach. The properties of the four violation runs are false, and TLC's behaviours show it.
The proofs are about the models: that `Tunnel` may take a call of `Encrypt` or `Decrypt` as one step is argued
from `DataPath` in words, not by a refinement between the two.

## Findings

1. `rekey_gap`: the server seals with the new session from `Rotate` on, before the response has left
   (`server/main.go:209` and `:225`). A client cannot open such packets, so a rekey can lose packets
   to the client on a perfect network; the README says it does not break traffic. The other
   direction is sound (`UplinkOpen`).
2. `pending_overwritten`: `completeRehandshake` clears `pending` whatever it holds by then
   (`client/main.go:223`).
3. `unauthenticated_ping`: `handlePing` renews `lastSeen` without authentication
   (`server/main.go:266`), against the comment in `handleData`. Without such pings
   `DeadClientsLeave` holds.
4. `limit_order`: the global token is taken before the source's own bucket is asked
   (`server/main.go:166`), so refused handshakes of one source count against all.

Also seen while modelling, and excluded by name in the properties: two rotations within one grace
drop the older session early (`hasty` in `Channel`); a lost response leaves the two ends apart until
the next rehandshake; a client that gets anything but the response first ends (`FailHandshake`); two
programs that create one key file at the same time, after which the one that goes on may not be the one
the next start loads (`race` in `Startup`; keygen beside a running program is the same case); and an
allowlist of nothing but comments, which counts as none and admits everybody (`AdmitsAsListed` says
exactly that much).

Also seen, and claimed by no property: a DLL cut short is taken for an installed one by every later
start until it is deleted by hand, a program started while another unpacks the DLL goes on to load what
is there, and one that found none, or whose `os.Stat` failed, empties what another has just unpacked. `Startup` has these
behaviours; the process then fails at `WintunLoads`. What would still hold with exceptions for
all of them says nothing about the code, so the DLL is in the model and in no property.

## Plan

Done, in this order: replay window, channel, tunnel, rate limiter, data path, packet sizes, start; proofs
about each of them. Next:

1. `Channel` implemented by `DataPath` (a call of `Decrypt` takes effect where it takes the window's lock), and
   by each end of `Tunnel`.
2. Under which conditions the refuted properties do hold: `DownlinkOpen` without rekeys and returning
   clients, `PendingAwaits` when a rekey waits for the previous one.
3. The refinement of an eager token bucket by the lazy one.

## Not modelled

* The cryptography: `flynn/noise` and the curve are external, and assumed to do what their interface
  says.
* What the commands of `SetupInterface` do to the host. They are one step that may fail. On Windows a
  failure to set the MTU is ignored although the read buffer depends on it (`setup_windows.go:53`,
  `interface.go:73`); `PacketFormat` takes the configured MTU.
* The ephemeral identity of `-key-file ""`, keygen without `-out`, and the download of the archive: they
  leave nothing behind that a later step reads.
* Log lines and their text, and the scripts.
