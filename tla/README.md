# TLA+ models of tuzy

tuzy publishes a local web application under a public name. An *agent* (the Go
CLI, `internal/`) holds one WebSocket per tunnel to the *edge* (a Cloudflare
Worker with one Durable Object per name, `edge/src/`); the edge accepts visitors
and multiplexes their requests over that socket (`protocol/PROTOCOL.md`). This
directory holds TLA+ modules of the parts where order, failure and sharing
matter, the TLC configurations that check them and TLAPS proofs about them.

`src/` in `PROJECT.json` stands for the root of the repository; paths below are
relative to it.

## 1. Inventory

| Component | State | Operations | Talks to | Must hold | Here |
|---|---|---|---|---|---|
| Credit primitives (`flow.go`, `flow.ts`) | credit, receive window | take, add, received, consumed | body paths | never more than a window outstanding, nothing lost | `CreditLoop` |
| Request bodies (`http-stream.ts` pump, `http_stream.go` feed) | stream state on both ends, queues, coalesced credit | REQ_HEAD/BODY/END, RESET, WINDOW, early answer, discard, timeout, hibernation | shared connection window | no innocent upload is reset, no upload is stranded, credit comes home | `RequestFlow` |
| Response bodies (`http_stream.go` run, `http-stream.ts`) | the same in the other direction, two output queues, write chain | RES_HEAD/BODY/END, RESET, WINDOW | as above | a clean end is a whole response, no visitor hangs, the agent is never blamed | `ResponseFlow` |
| Tunnel object, connecting (`tunnel-object.ts`) | epoch, generation, suspended, sockets and attachments, controlSeq | connectAgent, adoptGen, replace rules, HELLO, DRAIN, control RPCs | Worker, D1, outbox | one agent serves; nobody serves a name taken away | `TunnelConnect` |
| Worker connect (`connect.ts`) | - | handleConnect, recordSession | D1, object | a revoked token keeps no session | `TunnelConnect` |
| Control plane (`name-repo.ts`, `moderation.ts`, `token-routes.ts`, `account-routes.ts`) | reservations, users, tokens, sessions (D1) | reserve, rename, remove, block, suspend, reinstate, delete, revoke | outbox | change and notification are atomic | `TunnelConnect`, one name |
| Outbox and cron (`outbox.ts`, `scheduled.ts`) | do_outbox rows | push, retry, reconcile | object | changes arrive and converge | `TunnelConnect` |
| Visitor WebSocket relay (`tunnel-object.ts`, `ws_stream.go`) | message credit, buffers, pending flag, close state | open, message, ack, close | agent, visitor | no message lost or reordered before the close, one close each way | `WsRelay` |
| Agent session (`session.go`) | two output queues, writer state, alive and probe channels, streams, cause of the end | read, write, heartbeat, probe, drain, GOAWAY | edge, streams | an orderly end keeps its order, no false alarm, run always returns | `AgentSession`, bodies in the flow modules |
| Agent process (`resolve.go`, `run_tunnels.go`, `client.go`) | per tunnel: name, force, rename hops, attempt, result | resolve names, dial, hand shake, serve, follow, back off, stop all | API, edge, session | never evicts by itself, renames end, one failure stops all and is reported | `AgentRunner` |
| Inspector (`internal/inspector`, `ui/app.js`) | ring of entries, byte total, recorders, event channels, the page's list | capture, evict, clear, replay, publish, subscribe, fetch the list | streams, browser | exact accounting, a replay is whole or refused, no stale page | `Inspector` |
| Self-update (`internal/update`) | executable, temporary and old files | download, verify, swap, roll back, clean up | other processes | a working executable at every moment | `Updater` |
| Credential store (`internal/auth`) | keychain entry, file | login, logout, add-token, Get | OS keychain | never an older token | `Credentials` |
| Service manager (`internal/service`) | definition, supervisor's copy, job | install, uninstall, start, stop, restart | launchd, systemd, Task Scheduler | a restart runs what was installed | `ServiceManager` |
| Names (`name-repo.ts`, parts of `moderation.ts`, `account-routes.ts`) | reservations, default, holds, hints | reserve, rename, remove, block, delete, release | agent connects | a default, bounded holds, hints one hop long | `NameRepo` |
| Login codes (`login-codes.ts`, `auth-routes.ts`) | login_codes, attempts, account | issue, verify | - | one token per login, no guess without an attempt | `LoginCodes` |
| Long-stream budget (`tunnel-object.ts`, `usage.ts`) | pendingUsage, longStreams, D1 total, alarm | admit, accrue, flush, alarm | D1 | every second charged once | `UsageBudget` |
| Reports and trust (`abuse.ts`, `abuse-routes.ts`, `moderation.ts`) | abuse_reports, status, trust, the object's `trusted` | report, quarantine, untrust, suspend, setTrusted | outbox, connects | what a quarantine entails happens, trust does not come back | `Moderation` |
| Codec, headers, pages, file server, CLI wiring, logs, diagnosis | - | pure functions and I/O | - | - | not modelled |

What is hard here: two programs in two languages that keep the same counters;
goroutines and event handlers that see the end of a stream in different orders;
an object that forgets its memory when it hibernates but keeps its sockets;
requests that await a database while others change it; notifications pushed more
than once and in any order. `PROJECT.json` lists these hazards at their lines.

## 2. Modules

Each model keeps one action per operation or handler. Frames, bodies and names
are counts and model values. The definitions that `PROJECT.json` names as the "as" of a
mutant are faulty variants of the definition that follows them, used only to see that a
property notices; no specification uses them.

**`CreditLoop`** is the abstract specification of a window: `credit` at the
sender, `sent` on its way, `held` by the receiver, `back` in WINDOW frames.
`SpecExact` moves bytes from one to the next and loses none. `SpecEnding` adds
`Forget`: when a stream ends its bytes and credit may vanish, never appear.

**`RequestFlow`**: uploads. Per stream the edge's `HttpStream` (`edge`,
`credit`), what is in flight in both directions, and the agent's `httpStream`:
the `feed` queue, `streamUngranted`, whether it is discarding, answered, or
removed from the session; per connection `connCredit`, its saved copy in the
attachment (`savedCredit`), and `connUngranted`. The edge's acquireCredit and send are one step: when the
credit is there, awaiting it yields for a microtask only, in which no handler of a message runs
(`http-stream.ts:259`); `feed` and the application's reads are separate. `Hibernate`
happens when the object has no active stream and resets connection credit
to the attachment's.

**`ResponseFlow`**: downloads. The agent's `acquire` and `sendData` are separate
steps, since the data queue may be full between them. The agent has two queues:
`ctrl` (RESET, WINDOW) is preferred by the writer and overtakes `data`; hence
`toEdge` is a set and `bodyWire` a count, and "head before body before end" are
the only orders assumed. The visitor reads the edge's write chain.

**`TunnelConnect`**: one name. A D1 batch is one step and so is a handler of the
object between two awaits. An attempt goes idle - sent - reading - read - accepted
or refused, then recordSession: settled, unrecorded, lost. `stale` is the set of
attempts whose snapshot of `controlSeq` is out of date (only equality is ever
tested). `att` holds the attachments of the open sockets. A row of the outbox is
in a set, since it is pushed an arbitrary number of times anyway. isDead's verdict
depends on clocks and is free. Every user has one token.

**`AgentSession`**: `session.go` goroutine by goroutine. `ctrl` and `data` are
bounded queues, the writer prefers `ctrl`, an action per case of each select. The
close frame is queued by drain behind the data of finished streams. A write blocks on
a half-open socket until its 30 seconds end it. What a frame carries is left out.

**`AgentRunner`**: the tunnels of one process. First every name is settled
(`resolve.go`: explicit, remembered, first name with retries), nothing connects before
all are; then each client dials, shakes hands, serves, follows a rename, backs off
or returns, and the first failure cancels the rest. The edge may give any answer it
has for that name; `rival` says whether another process holds it.

**`Inspector`**: the store under its mutex, the recorders of each stream (two
goroutines, `TryLock` for chunks), eviction, replay, and events that are published
after the unlock. A body is the sequence of its chunks' numbers. REQ_END is read by
`RequestEnd` whatever `feed` does, and `Fed` may leave at any time, with chunks that the
capture has not seen. The page (`ui/app.js`) connects (`Subscribe`) and then fetches the list: the
server answers (`List`), events are read meanwhile (`Receive`), and the answer replaces what
is shown (`Loaded`), or a fetch fails and nobody tries again (`LoadFails`). `behind` and `missed` are
not in the code: they say which entries' last event an older list may have undone.

**`Updater`**: several processes swap one executable by renames, on Unix and
Windows, and die anywhere. **`Credentials`**: the token in keychain or file, one
command at a time, cut off anywhere; `leftBehind` says that a `Set` has not got rid of an older
token in the file. **`ServiceManager`**: one command at a time,
whose steps may fail, against a supervisor that keeps its own copy of the definition.

**`NameRepo`**: the tables of names. rename, remove and block read first and act in
a later batch; in between others act. **`LoginCodes`**: verifies of one address are three
D1 calls each and overlap. **`UsageBudget`**: each object takes whole seconds out of
its memory, awaits D1, and puts them back if that fails. **`Moderation`**: each
report's request is a chain of D1 calls; pushes of trust race connects.

**`MCParts`** puts nine of these, all from `AgentSession` on but `Inspector`, which share no state,
into one run: `part` says which of them a behaviour is of. It is a harness, not a composition; `EdgePartsProofs` proves
that it is a sound one: the safety properties of a part alone hold of it there.

**`WsRelay`**: one visitor WebSocket from upgrade to the end of both sockets. A
message is its number. The edge keeps `outstanding` and `pending` in the
attachment, which `Hibernate` preserves, and `buffer` in memory, which it loses.
The agent is three threads: the session's reader (`Recv...`), pumpEdge
(`edgePump`) and pumpLocal (`localPump`), which talk through the inbox, the wake
token and two close requests. ACKs are counted apart from the frames: the agent's
travel on its control queue, the edge's commute with what surrounds them. A write
to the application may fail before or after it got the message; what is queued
when a close is due is dropped, as in the code. The byte budget that all visitors
of a tunnel share is the parameter `refused`. **`Pipe`** is what one direction
promises: in order, once, no gap,
nothing after the end, everything before the sender's own close.

**`MC*`** instantiate them for TLC; **`*Proofs`** hold the theorems: one module for each of the
large models, `AgentPartsProofs` and `EdgePartsProofs` for the nine of `MCParts`, the inspector and `MCParts`
itself, `SumProofs` for sums over finite sets, on which the others rest.

Composition: `RequestFlow` and `ResponseFlow` instantiate `CreditLoop` per stream
and once for the connection, with the refinement mappings `StreamLoop(s)` and
`ConnLoop`. `WsRelay` instantiates `Pipe` twice, as `Uplink` and `Downlink`.

## 3. Runs

Windows are scaled from 256 KiB / 1 MiB to 4 or 8 units, keeping what the code
depends on: a quarter window is at least one unit, a chunk is smaller than a window, and some
bodies are longer than a stream window, so that a sender runs dry and needs credit
back. In `RequestFlowLive` a body is longer than the connection's window too. The two streams of
`ResponseFlowTwo` share that window, and whichever ends first must leave its share whole; their
bodies fit into it together, so neither waits for the other. That nothing is lost when streams
compete, and what two uploads do to each other, is left to the theorems, which are for any streams, bodies and windows.

| Run | Instance | Shows |
|---|---|---|
| `RequestFlowOne` | 1 stream, windows 4/8, bodies 0, 3, 9; all failures, hibernation | the agent never has to answer `flow_control` (`NeverOverrun`); connection credit is never minted (`ConnBounded`); each stream window implements `CreditLoop!SpecEnding` |
| `RequestFlowLive` | 1 stream, windows 8/8, bodies 0, 9; no hibernation | the connection window implements `CreditLoop!SpecExact`: whatever goroutine sees the end of the stream, no byte is lost; uploads complete although both windows are coalesced; the connection's credit comes home, however the stream ends |
| `RequestFlowLeak` | 1 stream, hibernation | *violated*: see finding 1 |
| `ResponseFlowOne` | 1 stream, windows 8/8, bodies 0, 3, 9; all failures | the edge never blames the agent (`NeverFaulty`: neither a stream reset nor a closed socket), a clean end is complete (`CleanEnd`), downloads complete, visitors never hang |
| `ResponseFlowTwo` | 2 streams, windows 4/8, bodies 3 | apart from finding 2 the connection window loses nothing, at every step and at rest |
| `ResponseFlowLeak` | 1 stream, a body of 2 | *violated*: see finding 2 |
| `TunnelConnect` | 3 connects, 2 users, 2 processes, 2 generations, 3 changes | one agent serves, of the current generation; what was taken away is closed |
| `TunnelConnectRace` | 2 connects, 1 user, 4 changes | *violated*: see finding 3 |
| `TunnelConnectConverge` | as above | *violated*: see finding 4 |
| `WsRelay` | 1 visitor, credit 1, tolerance 2, 3 messages up, 2 down; hibernation and every failure | both directions are pipes (`RelayIsTwoPipes`); credit is conserved across hibernation; a close reaches the other end and messages arrive or the relay ends |
| `Inspector` | 2 recorded streams, 3 entries, 1 page, below | entries and bytes are bounded and counted exactly (`StoreBounded`); what may be replayed has no gap and, with one exception, is whole (`ReplayIsWhole`); a connected page shows a finished request as pending only if an older list undid the event (`BrowserNotStale`) |
| `MCParts` | the nine small modules, below | a session that drains keeps its order, ends, and raises no false alarm; clients never evict nor hammer, and one failure stops all; the executable always works; Get returns the latest token, with one exception; a restart runs what was installed; names have a default, bounded holds and short hints; one login per code; usage is counted once; quarantines are carried through and trust stays revoked |

Bounds: `Bodies` (body lengths), `MAX_GEN` and `MAX_OPS` (incarnations of the name
and changes of the control plane). Three changes are enough for reserve - remove -
reserve and for reserve - suspend - reinstate, each racing three connects;
`TunnelConnect` also passes with four changes (5.6 million states), which takes
too long for a routine run. In `WsRelay` credit and tolerance are scaled from 8 and 16: three messages fill
the credit, fill the buffer and overflow it. Its safety properties also hold with
credit 2, tolerance 3, 4 messages up and 2 down (866,211 states).

`Inspector`: two recorded streams; two entries kept, one byte captured of a body, three bytes in all; headers of one and
of two bytes, an upload as long as the cap and one longer; three entries, two of them when a
page follows; one fetch of the list at a time; an event channel of one place. So an entry is
evicted under its recorder; two entries are too many bytes, and dropping the older one's body
is enough or not; two entries are over the limit without any body, so that only headers
remain; the cap cuts an upload; the channel overflows and the page connects anew. Captures and the page
do not affect each other, so a behaviour has either bodies or a page (`watched`). Bodies of responses, which share
the counting, would make the run too long: they, overlapping fetches, and any other sizes are left to
the theorems.

`MCParts`, part by part: *session*: both queues of one place, one stream of two frames, one
message of the edge's own. *runner*: two clients, one rename hop, two name tries; attempts
are told apart as first or later. *updater*: two processes, three executables. *credentials*: three tokens, two
login attempts. *service*: two installs on each platform. *names*: one user, three names, two
holds, one call between read and batch: reservations, a new default, administrators' suspensions, expiring holds
and the account's deletion come between. That two calls overlap is left to the theorem (with two users: 981,224 states, also passes). *codes*:
two verifies, two codes, two attempts (with three codes: 196,535 states). *usage*: one object, two
long streams, two flushes, two ticks a second (with two objects and three ticks: 3,018,296
states). *moderation*: two names, two requests, two reports or administrators' calls (with
four: 1,320,527 states). The limits that the code guards are reached: a full
queue, the last hop, the holds, the last attempt, the threshold.

`CHECK_DEADLOCK FALSE` is set where the bounded
system may stop: when every attempt, or every body, is used up.

`RequestFlowLive` uses a specification without hibernation
(`AwakeSpec`), and `ResponseFlowTwo` one without `Cut`: these are
the two behaviours the findings are about, and the runs show that they are the
only ones that lose connection credit.

**Fairness.** Weak fairness of the agent's goroutines, of the edge's event
handlers and of frame delivery: the Go scheduler, the Workers runtime and
TCP give it while the connection lasts. Nothing makes the application answer or
the visitor read: where a property needs it, it is the premise `Cooperation`.
In `WsRelay` a dial and a write end, if only by
their 30 seconds, one way or the other. In `AgentSession` every
goroutine that can go on does and every timer fires; a drain that waits for room in a queue is
strongly fair, since Go's channels serve senders in order; nothing is assumed of the
edge, the network or the application, a stream only ends once its context is
cancelled. In `AgentRunner` a client that can go on does and runTunnels returns once all
have. Failures are never fair.

## 4. Findings

1. **Connection credit is lost by hibernation** (`RequestFlowLeak`). The edge
   saves send credit when the last stream ends; a WINDOW(0) arriving later changes
   memory only (`tunnel-object.ts:246`, `573`). PROTOCOL.md 4 promises that the
   connection window never leaks.
2. **Connection credit is lost by cancellation** (`ResponseFlowLeak`). `sendBody`
   pays in `acquire`; `sendData` may drop the bytes when the stream is cancelled
   (`session.go:573`).
3. **A stale connect is admitted** (`TunnelConnectRace`). goaway and setSuspended
   with a generation that is not the object's do not bump `controlSeq`
   (`tunnel-object.ts:883`, `893`), so a connect holding an answer from before the
   change is not retried and adopts that answer: an agent serves a removed or
   suspended name. `OnlyMissedLinger` shows that this is the only way: an agent
   that lingers was admitted under a generation whose push had been ignored.
4. **A reinstated name may stay suspended** (`TunnelConnectConverge`). Rows of one
   name are pushed in any order and retried later; so is the reconciliation's row.
   A suspension applied after the reinstatement of the same generation stays, and
   nothing repushes active names.

Further disagreements between code and comments, found while modelling and not given a
run of their own:

- After a reconnect, `onEvent` (`run_tunnels.go`) sets the inspector's HostHeader back to the
  flag's value although a switched tunnel stays "rewrite" (`inspector/store.go:141`).
- A replay during an upload sends a prefix of the body: `ReqIncomplete` is only settled when
  the entry ends (`inspector/server.go:202`). `ReplayIsWhole` is about entries whose feed
  was over when they ended (`settled`).
- After REQ_END the feed of an upload may still leave by its context with chunks in its queue
  (`http_stream.go:113`), and the edge's pump sends REQ_END early when the response ends first
  (`http-stream.ts:279`). The request ends without having been captured whole; when its length was
  not declared nothing tells, and the entry is not flagged. This is the one exception of
  `ReplayIsWhole` (`cut`).
- The page's resync can undo an event. `onopen` subscribes first; `load` then awaits two fetches,
  clears, and shows the list as it was when the server answered (`ui/app.js:304`). An "updated" event
  delivered meanwhile is lost and a finished request stays pending, though `store.go:349` promises a
  resync "instead of silently missing events forever". It is the one exception of `BrowserNotStale` (`behind`);
  without the exception TLC shows it in nine states.
- A page load that fails is not retried (`app.js:295`): the page keeps what it shows.
- The "cleared" event is published after the unlock and may follow a later "created".
- `RefreshNotice` overwrites NotifiedAt, so a notice can appear more than once a day
  (`update_cmd.go:98`); a `.tuzy-update-*` file left by a crash is never removed.
- `SetFile` ignores a failing keychain delete (`auth/store.go:75`), and a fallback of `Set` to the
  file leaves an older keychain token; `GetsLatest` therefore assumes a keychain that
  answers steadily.
- A stale token can come back. `Set` ignores a failure to remove the file's older copy
  (`auth/store.go:61`); a later `SetFile` deletes the keychain's copy (`auth/store.go:76`) before it
  reads and writes the file. If that fails or is cut off, `Get` returns the older token from the file,
  though the comment says "so Get can't return a stale one". It is the one exception of `GetsLatest`
  (`leftBehind`); without the exception TLC shows it. Otherwise a `SetFile` cut off after the
  keychain delete may leave no token at all. Two commands at once may lose one's change of the file.
- On macOS `Install` goes on after a failing bootout; on Linux and Windows a start after a
  re-install leaves the old job running. Only a restart is sure (`RestartRunsInstalled`).
- The comment of `sendCtrl` says the heartbeat detects a stalled socket; the 30 s write timeout
  does, the heartbeat itself waits for room in the queue.
- `renameHops` is reset by READY only, so a chain of renames cut by network errors counts
  as one chain.
- `blockName` reads the owner before its batch (`moderation.ts:125`): if the name has changed
  hands since, the new owner's default goes without a promotion, although names are resolved on
  the assumption that there is one. `NamesSettled` exempts such users (`orphaned`).
- Removes that overlap at the hold cap: the loser is told 404 for a name it still owns.
- A losing verify consumes newer codes: `consumeCodes` is not gated by `changes()`.
- The token cap is counted before the insert (`token-routes.ts:45`); two requests can pass it.
- `flushUsage` iterates over a snapshot of `pendingUsage`: with two users in one object (the name
  changed hands while D1 was failing) the second user's amount is out of date after the
  first await. `UsageBudget` has one account.
- The alarm's handler looks at `pendingUsage` while another flush may have taken the seconds out;
  if that flush fails afterwards the seconds wait without an alarm, and go when the object
  hibernates.
- Reinstating dismisses open reports "so one more report can't re-quarantine at once"
  (`moderation.ts:57`), but a report an administrator upheld still counts for its 24 hours, and
  a request that had already read the score quarantines again.
- `setTrusted` carries no generation, so a push for a former owner may reach the new owner's
  object; and pushes overtake each other (`overtaken` in `Moderation`), as in finding 4. The
  next connect repairs both.

## 5. Proofs

All theorems are checked by TLAPS for every value of the constants that satisfies the
assumption named in the module that declares them: windows, chunks, capacities and step sizes are
positive, bounds are naturals, and the sets of streams and of objects are finite (ids and names
are). The bounds are part of the models, so the theorems hold for any of them, not for a system
without them. Every invariant and every action property that a run expects to pass is stated by a
theorem. A few theorems go beyond the runs (`...Stranded`, `EndsAreTold`, `NobodyHoldsTheEnd`...): they are
the safety half of a liveness property, that in no state everyone waits for somebody else. What is
left of that property is fairness, which TLC checks.

An inductive invariant is named after its parts; each action has one lemma or one step, and under
it one step per part that the action can disturb. Steps that leave a component alone are
collected first (`RecorderStep`, `OneFollows`, `FewerSockets`...).

*`CreditLoopProofs`.* `ExactConserves`: credit + sent + held + back = Window, the
inductive invariant itself. `EndingNeverOverruns`: with `Forget` it is <= Window.

*`SumProofs`.* What one stream's or one object's change does to a sum over all of them
(`SumIsNat`, `SumOfZeros`, `SumChange`, `SumAtLeast`, `SumGrows`, `SumAdds`). `SumFunction` is a
recursive fold that the provers cannot unfold by induction. Its recursion is therefore stated at each
set (`IsSum`), shown to have a solution (`SumExists`) and a unique one (`SumsAgree`), each time
from a smallest counterexample (`MinimalSet`: the strict subsets of a finite set are well-founded).

*`RequestFlowProofs`.*
- `TypeCorrect`: `Spec => []TypeOK`. Every counter is a natural: no action takes
  more than is there.
- `StreamsBounded`: for every stream, credit + bytes in flight + queued +
  coalesced + WINDOWs in flight <= one window. It is inductive with the type
  invariant: bytes only move, and every end of a stream only forgets.
- `NeverOverruns`: `Spec => []NeverOverrun`, a consequence: a frame that arrives
  is one summand of that sum, so it fits the agent's window.
- `StreamsRefineLoop`: every stream window implements `CreditLoop!SpecEnding`; one
  step lemma per action maps it to a step of the loop or a stutter.
- `ConnectionBounded`: `Spec => []ConnBounded`. `ConnInv` adds `SavedNotMore`: while no stream is
  active the attachment holds no more credit than memory, so a hibernation mints none.
- `ConnRefinesLoop`: `AwakeSafe => ConnImplementsLoop`, and `WholeUnlessHibernated`:
  `AwakeSafe => []ConnFullAtRest`. With finding 1 this says that hibernation is the one leak.
- `PumpNotStranded`: once nothing of an open upload is in flight or queued, the edge has more than
  three quarters of its window. `StrandInv` adds that the window is exact while both ends have the
  stream (`StreamExact`), how far each end may be ahead of the other (`StreamStory`), and that less
  than a quarter is coalesced. So a pump that waits has bytes or a WINDOW to wait for,
  whatever the chunks and with hibernation. `ConnNotStranded`: the same of the connection's window,
  for `AwakeSafe`. Both are the safety half of `UploadCompletes`.

*`ResponseFlowProofs`.*
- `TypeCorrect`, `StreamsBounded`, `StreamsRefineLoop` as for uploads.
- `ConnectionBounded`: nothing is minted, and the edge's count of what it holds is exact, also
  across a hibernation, because credit is coalesced only while a stream is active (`Flushed`).
- `ConnRefinesLoop` and `WholeUnlessCut` for `UncutSafe`: finding 2 is the one leak.
- `AcquireNotStranded` and, for `UncutSafe`, `ConnNotStranded`: the same as for uploads, of the
  agent's `acquire`: the safety half of `DownloadCompletes`.
- `VisitorNotLeftHanging`: when the agent's stream has returned while the edge's is active, its END
  or RESET is on its way or queued: the safety half of `VisitorEnds`.
- `EndsWhole` and `AgentNeverFaulty`: `Spec => []CleanEnd` and `Spec => []NeverFaulty`. Their
  invariant `Order` says, for each place an agent's stream can be in, which frames are still on
  their way and how many bytes they carry; the control queue's RESET may come first, nothing else.

*`TunnelConnectProofs`.*
- `TypeCorrect`: `Spec => []TypeOK`.
- `SocketsOfOneGeneration` and `OneAgentServes`: `Spec => []SameGen` and
  `Spec => []OneServing`. The inductive invariant `Sockets` adds that no open socket
  has an epoch above the object's. Most steps only close sockets (`FewerSockets`).
  The case that matters is `Finish`: adopting a generation leaves its sockets only
  (`SurvivorsAgree`), and what the replace rules keep is draining (`KeptDrain`):
  a kept socket that is not the current one by the invariant, the current one
  because rules 1, 2 and 4 would have dropped it or rule 5 refused the newcomer.
- `RevocationCloses`: `Spec => []RevokedIsClosed`. `Settled`: the token of an open socket whose
  session was recorded has its row in tunnel_sessions or is revoked, and once it is revoked a push
  is due.
- `LegitimateUnlessMissed`: `Spec => []OnlyMissedLinger`. `Excuses`: an open
  socket, and an answer of D1 that no bump of controlSeq has made stale, is legitimate, or a push
  that ends it is on its way, or the object has ignored one.

*`WsRelayProofs`.* `RelayInv`: the places of the threads fit each other (`Stages`), what is in the
queues is of the protocol (`Framed`), the messages on their way are consecutive numbers, from
the receiver's last to the sender's (`Numbers`), and both credits add up (`EdgeCredit`, `AgentCredit`).
- `CreditIsConserved`: `Spec => []CreditConserved`.
- `RelayRefinesPipes`: `Spec => RelayIsTwoPipes`. Every step of the relay is a step of `Uplink` and
  one of `Downlink`, or a stutter of either.
- `NothingIsStranded`: while a message is not there yet a frame or an ACK is under way or a pump can
  take a step; the safety half of `MessagesArrive`. `EndsAreTold`: of an end that has closed the other is
  told, or about to be; the safety half of `EndsMeet`. Both rest on `Lively`: a pumpEdge that waits has nothing to
  do or a token (`Alert`), the edge buffers only on spent credit (`Backed`), the agent owes ACKs for what it
  holds and for nothing else (`Owed`), a visitor that is over has said so (`Informed`), and no pump leaves a visitor
  that waits without a word (`Telling`), even though select may take `localDone` before `wake`.

*`AgentPartsProofs`*, one invariant for each part.
- Session: `SessionEndsInOrder` from `Orderly` (while the writer works, what is owed is
  written, or queued ahead of the close) and `Joined` (run waits for its goroutines);
  `NoAlarmIsFalse`, an action property, from `Signalled` (what was read since the ping is in
  the alive channel for as long as the heartbeat waits). `LoopsLeaveTogether`: types and channel
  capacities, and nobody leaves before the session is over or stays on an open socket after. From it
  `NobodyHoldsTheEnd`: a session that is over, cancelled, or on a broken path always has somebody whose
  turn it is; the safety half of `SessionEnds`.
- Reconnect: `ClientsArePolite`, an action property. `ReturnIsLast`: runTunnels returns after the
  last client, and nil only if none failed; the safety half of `OneFailsAllStop`.
- Updater: `UpdateIsSafe`. `FileInv`: a process's temporary file is its own, is genuine once
  downloaded and runs once verified; on Windows a running image is never deleted.
- Credentials: `GetIsLatest`. `Placed`: what Get returns at each step of a command, also one that
  is cut off there; `Bared` is the exception, that the keychain's token is gone and the file has
  one that a Set left behind.
- Service: `RestartIsInstalled`. `Rest` lists the steps a command has left; `Supervised`, `Installing` and
  `Restarting` relate them to the definition the supervisor holds.
- Inspector: `InspectorStaysWellTyped`. `ReplaysAreWhole` from `RecordersInv`: an entry that is
  not flagged has what feed has brought (`Gathered`), whole once the upload is over, and without
  gaps in any case, so that the replay of a replay has none either (`Complete`). `BrowserKeepsUp` from
  `BrowserInv`, for any number of fetches under way: for each entry that is done, and that the page or
  a list on its way to it shows as pending without being known to be behind (`Pends`), the event
  that says so is in the channel, behind any that says otherwise, or is yet to be published
  (`Told`). What a recorder has yet to publish is what it did last (`Spoken`).
  `StoreStaysBounded` from `Stored`: order lists each entry once and total is the sum over them;
  `EntriesEvicted` and `BodiesEvicted` show that evictLocked's two loops restore it after any
  entry is added or has grown.

*`EdgePartsProofs`*, likewise.
- Codes: `OneTokenPerLogin`. `Paid`: a token is paid for by a code that is consumed with
  it, and a code still unconsumed was issued after the last token.
- Names: `NamesStaySettled`. `OneDefault`, `SomeDefault`, `HoldsCapped`, `HintsEnd`, and `CallsFit`:
  a rename's row is the one it read, as long as that is fresh.
- Usage: `UsageAddsUp`. `Counted`: row, calls under way and memory add up to what is due, over all
  objects; `Woken`: an object with a long stream has an alarm set, or a flush that the alarm began.
- Moderation: `QuarantineIsFollowed`. `Followed`: until the trust, or the account, follows a
  quarantine, a handler is on its way to see to it; `Announced`: a revocation that the object, or a
  connect, does not know of is in the outbox, unless a later push overtook it.
- All together: `PartsInv` conjoins the invariants of the nine parts, with the types that the
  proofs above did not need (`CodesRest`, `RepoRest`, `ModerationFields`). Its step is each part's
  own, since every step of the harness is a step of one part and a stutter of the others (`PartsApart`).
  `PartsStayTyped`: `PartsSpec => []PartsTypeOK`. `EachPartIsItself`: a behaviour of the harness is
  one of each of the seven parts without fairness. `PartsKeepTheirPromises`: it has every safety
  property above of these parts, so the run checks what the theorems of the parts state.

**Only model-checked.** Liveness, since fairness and ENABLED are out of the prover's reach: uploads and
downloads complete, credit comes home, visitors end, messages arrive and a close reaches the other end,
a session ends, one failure stops all. Proved of these is the safety half given above; `CreditComesHome`
rests on `ConnRefinesLoop`, that what is not home is still somewhere. What remains is that whoever can
go on does, and that it goes on finitely often. The findings, which are counterexamples. What a recursive sum
computes is characterised (`SumProofs`), not computed.

## 6. What is abstracted or left out

- `content-length` checks, null bodies (a Deliver followed by a Consume), the
  wording of errors, header rewriting.
- After the edge closes an agent's socket for exceeding the connection window
  (`dropped`) that connection is not followed; `NeverFaulty` shows it never happens.
- Stream ids do not run out; `MAX_WINDOW` overflow cannot be reached once the sums
  above are bounded by a window.
- In `TunnelConnect`: trust (see `Moderation`), visitors, the KV marker, the age limit of
  tunnel_sessions. Rows are never given up (the code stops after 20 attempts).
  Holds (see `NameRepo`) run out and are lifted, so another user may reserve the name at once. A
  rename is a removal of this name and a reservation of another. Hibernation
  changes nothing here: sockets and attachments survive it, and a pending connect
  keeps the object in memory.
- In `WsRelay`: text against binary, close codes and reasons beyond who closed,
  malformed WS_CLOSE frames, the byte count of the shared buffer budget.
- In the modules of `MCParts`: delays are not measured, a timer may fire at any time; output,
  headers, templates and email are left out. `UsageBudget`: the turn of a month.
  `Moderation`: emails; a network's newest report stands for all of its reports.
  `LoginCodes`: the caps on codes are one bound; the code for deleting an account.
- The components marked "not modelled" in `PROJECT.json`, each with its reason.

**Not modelled**, and why: the frame codec (pure, covered by shared test vectors); visitor
headers, hosts and pages (stateless rewriting); the local upstream and the file server (the
application, which the models let answer or fail as it likes); command wiring, configuration,
diagnosis, logging and UI (files and output without protocol state); the daily update notice;
lists, audit rows and alert emails of the control plane.

## 7. Plan

1. Done: the modules of section 2, a theorem for every safety property that a run expects to
   pass, and the safety half of most liveness properties.
2. Proofs worth adding: that the clear event and the entries' numbers order what a browser shows.
3. Worth adding to the models: the token cap, the shared buffer budget of the relay, two users
   in one object's usage.
