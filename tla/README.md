# A formal model of RemoteControllApp

RemoteControllApp lets a viewer see and control a host's desktop. A NestJS
server (`apps/server`) introduces the two through socket.io; after that they
talk over WebRTC (`apps/desktop`, an Electron app that can also embed the
server). This directory holds TLA+ modules translated from that code, the TLC
configurations that check them and the TLAPS proofs about them.

## 1. Inventory

### Server, `apps/server`

| component | state | operations | correct when |
|---|---|---|---|
| Signaling gateway (`signaling/signaling.gateway.ts`) | sockets, connection counts per address, three limiters, approval cache, joins suspended at an await, socket.io rooms | connect, disconnect, `session:join`, heartbeat, shutdown, relays, 30 s cleanup timer | every join is answered; a viewer gets in only with the password and, if asked for, the host's consent; rooms and announcements agree with the membership; slots are exact |
| Session store (`signaling/sessions.service.ts`) | Map of sessions to peers with `lastSeenAt` | add, remove, touch, expire, look-ups | one peer per role, capacity limits, live peers are kept, dead ones go |
| Rate limiter (`signaling/rateLimit.ts`) | timestamps per key | `isAllowed`, `record`, `consume`, `reset` | never more than the limit inside a window |
| Host settings (`settings/settings.service.ts`) | a JSON file | read, update, verify password | updates are not lost, a read is never half a write |
| Discovery responder, TURN list, statistics, web client, bootstrap | none worth modelling | | |

### Desktop, `apps/desktop`

| component | state | operations | correct when |
|---|---|---|---|
| WebRTC client (`renderer/.../RemoteControlClient.ts`) | socket, peer connection, peer id, lifecycle, timers | connect, disconnect, join, offer/answer/candidates, reconnect, network recovery, watchdog | given up means given up; a broken connection is replaced; candidates go to the right connection; the viewer gets a picture |
| Desktop capture (same file) | current source and settings, captured streams, what the senders send | switch, settings, publish | what is sent is live, and is the monitor both sides call active |
| File transfer (same file, `main/fileIpc.ts`, `main/fileTransfer.ts`) | outgoing and incoming transfers with a promise queue each, sessions of the main process, files | start, chunk, complete, fail, abort, timeout, close | a file appears whole in one instant or not at all; one outcome per file; every file ends |
| Clipboard (same file) | two snapshots, a pending text, timers, at both ends | poll, send, receive | no echo; copies arrive; the ends come to rest |
| Adaptive bitrate (same file) | bitrate, frame rate, last sample | poll, adapt, apply | samples belong to the connection; the bitrate comes down and back |
| Prompts (`renderer/.../App.tsx`) | one resolver each for approval and password | ask, answer, disconnect | an answer belongs to the question shown |
| Host presence (`App.tsx`, `main/appIpc.ts`) | the peer, the last name, tray, notifications | render, update | tray and notifications follow the seat |
| Embedded server (`main/backendProcess.ts`, `main/index.ts`, `main/updater.ts`, `server/main.ts`) | child process, status, port, quit flags, log files | start, exit, stop, quit, rotate | at most one child, none after quit; viewers are told; the advertised port is served |
| Discovery (`main/discoveryClient.ts`, `main/discoveryServer.ts`) | a scan, its sockets, probes and results | UDP, HTTP, merge | each scan settles, every address is probed once, who answered is listed |
| Server picker (`hooks/useServerDiscovery.ts`, `App.tsx`) | the url, servers, connected | scan, enter, connect | a scan does not replace what the user entered (one at the start of the app may: section 3) |
| Settings files (`main/appIpc.ts`, `main/fileIpc.ts`, `settings.service.ts`) | two JSON files, the login item | the handlers that read, change and write them | no update is lost, no half-written file read, no password dropped (the code keeps these with exceptions: section 3) |
| Input control (`main/hostControl.ts`, `RemoteVideo.tsx`, `hotkeys.ts`) | pressed keys and buttons at both ends, pointer lock, capture | press, release, focus loss, shortcuts, renders | nothing stays pressed |
| Viewer control settings (`App.tsx`) | take control, capture, what is saved | toggles, load, connect, restart | what is saved is what was chosen (exceptions: section 3) |
| Pointer mapping (`RemoteVideo.tsx`, `main/index.ts`) | virtual pointer, video size, displays | move, switch, resize | the pointer lands on the monitor shown |
| Windows, UI, IPC sanitizers, scripts | | | not modelled: see section 6 |

### How they interact

* Clients call the gateway by socket.io events; joins are acknowledged, the
  other events are not. The gateway calls the session store and the limiters
  synchronously and awaits the settings file, the password hash, the host's
  acknowledgement and socket.io's room operations.
* The gateway calls back into the host's client (`session:approval-request`
  with an acknowledgement and a 30 s timeout), which asks the user.
* The desktop's main process and the server it embeds write the same settings
  file.
* Host and viewer exchange offer, answer and candidates through the gateway and
  then control messages and files over a data channel; the receiver's renderer
  writes files through the main process.
* Viewer commands (switch monitor, stream settings, input) go over that channel
  to the host's renderer and, for input, on to its main process; the host's
  state comes back the same way.
* Renders of React stand between an event and the handlers that use its state:
  handlers read the state of the render they were made in.

### What is hard

Suspended joins: everything can happen at each of the five awaits of
`session:join`, and the roster, the rooms, the limiters and the approval cache
are read before and used after them. Sockets that vanish while a join is
suspended. Clocks: peer TTL, cache TTL, limiter windows, the approval timeout.
On the desktop: reconnects racing with user actions, aborts racing with chunks,
two processes writing one file, and a child process whose exit arrives late.
`PROJECT.json` lists each hazard at its line with the properties that watch it.

## 2. Modules

| module | models | state and actions |
|---|---|---|
| `RateLimit` | `SlidingWindowRateLimiter`, one key | a log counts events by age in ticks; operators `IsAllowed`, `Record`, `Reset`, `Older` |
| `Sessions` | `SessionsService` | a roster is a set of seats (session, client, role), `idle` the time since a seat was touched; operators from the old roster to the new one |
| `Gateway` | `SignalingGateway` with the two above | one action per handler part between two awaits (below) |
| `Admission` | what the gateway promises | who is `members` of a session, who is `silent`, who stands at the `door` and who is `trusted`; one action per thing that can happen to a visitor or a place |
| `GatewayProperties` | | what should hold, and the refinement mapping to `Admission` |
| `GatewayProofs` | | theorems, checked by TLAPS |
| `AtomicDelivery` | what file transfer promises | `visible`: a file's name is absent, reserved or holds the whole file; `Offer`, `Reserve`, `Publish` |
| `FileTransfer` | `sendFile`, the data channel, the receiver's `RemoteControlClient` and its main process | one action per part of a function between two awaits (below) |
| `FileTransferProperties` | | what should hold, the refinement mapping and the inductive invariant |
| `FileTransferProofs` | | theorems, checked by TLAPS |
| `PeerClient` (+`Properties`, `Proofs`) | `RemoteControlClient`: connect to disconnect, for a host or a viewer | the fields are a record `c`, what is suspended at an await is a task; one action per event or continuation, composed of the methods it calls, each a function of the record; `surroundings` says which faults the world may have |
| `BackendProcess` | the embedded server's child, its ports, quitting and updating | one action per step between awaits, in the app, in the child and in other programs |
| `BackendLog` | log rotation | one action per file system call, each of which may throw or be the last |
| `SettingsFile` (+`Proofs`) | a JSON file read, changed and written back by calls that overlap | `Begin`, `ReadFile`, `OpenFile` (which empties it), `WriteFile`, `UpdateFails` of a call; `AppRestarts` |
| `HostSettings` | `host-settings.json`: the handlers, the login item, the start of the app, the password check | `SettingsFile` and what follows |
| `AppSettings` | what `settings.json` holds, the list of recent servers | pure operators |
| `InputControl` | keys and buttons of a viewer and on the host | one action per DOM event, toggle, effect, render and message |
| `HostCapture` (+`Proofs`) | monitor switching and stream settings | a call of `handleHostCommand` is a record with the phase it is suspended in |
| `HostApproval` | the approval dialog with the gateway's side of it, tray and notifications | both ends of the host's socket, the renders in between |
| `PasswordPrompt` | the viewer's password dialog and the clients that share it | one action per attempt, answer and reply |
| `DiscoveryScan` | one scan | sockets, datagrams, probes, workers, the timeout |
| `SubnetProbes` | the addresses a scan asks | pure operators, checked over every pair of interfaces |
| `HostApp` (+`Proofs`, of `HostApproval` too) | the host's side of the app | composes `HostApproval`, `BackendProcess`, `BackendLog`, `HostSettings`, `Bitrate` |
| `ViewerApp` (+`Proofs`) | the viewer's side of the app | composes `PasswordPrompt`, `InputControl`, `ViewerControl` over the fields of `AppSettings`, `DiscoveryScan`, `ServerPicker` |
| `Session` (+`Proofs`) | a session between two apps | composes `HostCapture`, `PeerClient`, `PointerMapping`, `Clipboard` |
| `ServerPicker` | url, scans and the user, who acts while they run | scans keep the values of their render |
| `ViewerControl` | `settings.json`: its handlers, and take control and capture in the renderer, with load, connect and restart | `SettingsFile`, with the state of the renderer |
| `PointerMapping` | from the mouse to the host's display | one action per move, switch, resize, display change |
| `Clipboard` | both ends of the synchronisation | `Poll`, `SendPending`, `Receive` |
| `Bitrate` | statistics and bitrate | `collectStats` before and after its await, the network as its environment |

`Gateway` composes `RateLimit` and `Sessions` and implements `Admission`;
`FileTransfer` implements `AtomicDelivery`; `HostSettings` and `ViewerControl` extend
`SettingsFile`; `HostApproval` composes the dialog with the part of the gateway
that asks, and with the presence that follows. `HostApp`, `ViewerApp` and `Session` put
modules side by side that share no state: each takes what it receives from its neighbours
as actions of its environment, and a step of the composition is a step of one of
them. What users and surroundings do is a variable that is chosen in `Init` and
never changes (`alone` of `Clipboard`, `conditions`, `surroundings`, `captureMode`, and
`keys` and `events` of `InputControl`), so that one
specification covers every choice and a theorem speaks about all of them.

The `MC` modules give constants their values and put modules side by side:

| module | parts |
|---|---|
| `MCGateway` | values for `Gateway` |
| `MCGatewayLimits` | `Gateway` twice, near the limits of sessions and prompts, and of passwords |
| `MCFileTransfer`, `MCFileSlots` | values for `FileTransfer`; two files with two slots, and with one |
| `MCHostApp` | values for `HostApp`: other programs take ports or none does, both capture modes; a bound on the calls of the settings |
| `MCViewerApp` | values for `ViewerApp`, with `InputControl` capturing, and reconnecting, and the settings once with the switches and once with history and folder; beside it `SubnetProbes` |
| `MCStream` | values for `Session`: captures in turn, overlapping, and failing; a host and a viewer in rough and in calm surroundings; both users copy, or one does |
| `MCProgress` | `Gateway`, `FileTransfer`; `PeerClient`, `BackendProcess`, `DiscoveryScan`, `Clipboard`, `Bitrate`, with fairness |
| `MCInputControl` | values for `InputControl` |

The parts of such a module share no variable, or are instances of the same
variables that never meet. What a part does alone it does also beside the others,
so their interleaving would add states and no behaviour of a part: for TLC `part`
is chosen at the start and only that part moves. The theorems about `HostApp`,
`ViewerApp` and `Session` are about the interleaving.

`session:join` is the only asynchronous handler. A running join is a record
`call[j]` whose `pc` names the await it is suspended at:

| code, `signaling.gateway.ts` | action |
|---|---|
| 112-131 and, for a host, 179-199 | `StartJoin` |
| `getHostSettings` and 134-142 | `ReadSettings`, at pc `"settings"` |
| `verifyHostPassword`, 144-182 | `CheckPassword`, at pc `"password"` |
| the acknowledgement, 317-335 and 168-182 | `HostAnswers`, `ApprovalTimesOut`, at pc `"approval"` |
| after `client.leave`, 184-199 | `ResumeAfterLeave`, at pc `"leaving"` |
| after `client.join`, 201-213 | `FinishJoin`, at pc `"joining"` |
| `handleConnection`, `handleDisconnect` | `Connect`, `Disconnect` |
| heartbeat, relays, shutdown | `Heartbeat`, `RelaySignal`, `AnnounceShutdown`: their effect here is a touch |
| the 30 s interval | `CleanupTimer` |

Variables carry the names of the code where it has one (`connectionCounts` for
`connectionCountsByAddress`, `approvals` for `recentApprovedViewers`). Two are
history and no guard reads them: `told` (which peers a socket has
been told are present) and `consentAge` (when a host last said yes).

In `FileTransfer` the state is that of four places, each with its own variables:

| place | code | variables | actions |
|---|---|---|---|
| sender | `sendFile`, 337-402 | `sender`, `abortReasons` | `SendFile`, `ReadChunk`, `Drained`, `DrainFails`, `Flushed`, `SenderReceivesAbort` |
| channel | `RTCDataChannel` | `open`, `generation`, `closeEvents`, `toReceiver`, `toSender` | `OpenChannel`, `CloseChannel` |
| receiver's renderer | `beginIncomingFileTransfer` to `clearIncomingTransferTimeout`, 1151-1365 | `incoming`, `transfer`, `reports` | `ReceiveStart`, `ReceiveChunk`, `RunChunk`, `ReceiveComplete`, `Complete`, `ReceiveAbort`, `TimeOut`, `ReceiverSeesClose`, `Disconnect` |
| its main process | `fileIpc.ts`, 123-222 | `saves`, `entry`, `disk` | `StartDone`, `StartFails`, `AppendDone`, `AppendFails`, `RenameDone`, `RenameFails`, `Unlink` |

A promise chain `transfer.queue` is the call under way (`busy`) and the chunks
whose `then` has not run (`queue`). `reports` is history: what the user was told.

Simplifications of `Gateway`, each of them deliberate:

* Payloads are those the sanitizers accept. Names, TURN lists and SDP are left
  out.
* A tick ages all dates at once. A window or TTL of n ticks is any multiple of
  a real duration; a limiter window of 0 ticks means that the limiter has
  forgotten everything between two of its uses, which takes it out of a run.
  Ages saturate where the code no longer distinguishes them.
* Reading the settings file and the code after that await are one step. The
  file may change to any of `HostConfigs` and back between two steps, so a join
  that goes on with an older value is a behaviour of the model too. A read
  that meets a half-written file yields `{}` in the code, no password and
  approval required; that is one more value of `HostConfigs`.
* The room operations of the in-memory adapter take effect in the call; the
  await after them is still a point where others run.
* Ids of sockets are never reused. `Connect` takes a name again only when
  nothing in the state mentions it, which keeps the instance finite.
* Two joins of one socket that overlap name the same session (`JoinsAgree`):
  the client has one session id, and a new connect uses a new socket.
* External code: socket.io empties a socket's rooms before the disconnect
  handler runs, ignores a join of a socket that is gone, and settles a pending
  acknowledgement only by its timeout when the asked socket closes.

Simplifications of `FileTransfer`:

* Chunks carry their number instead of bytes, so sizes are counted in chunks.
  The checksum is left out: it agrees whenever the chunks are the sender's, in
  order, which is what the model is about. Messages are well formed and no file
  is larger than the limit, which both sides check first.
* A call of the main process runs up to its first await when it is made and
  returns to the renderer together with what follows that await. In between
  nothing looks at what the reply changes, and calls arrive in order.
* One direction. The other uses the same code with maps of its own, except that
  an abort for an unknown incoming file is kept as if it were an outgoing one.
* Ids are never reused, so a transfer is started once.
* When the channel closes, an end of what is under way is lost, and the
  receiver's close event may come late (a new channel may be open) or never.
* A write that fails leaves nothing behind; an append may itself fail at any time.
* `createUniqueFilePath` takes the first free name. Names are never freed, so
  its loop of awaited attempts has the same result as one look.

Simplifications of `PeerClient`:

* One client and the outside world: the socket delivers what the gateway may
  send, the peer connection reports what a browser may report. Two clients
  against each other are not modelled: what they negotiate depends on how the
  browser treats an offer whose fingerprint changed.
* External code: promises of a closed connection do not fulfil,
  `addIceCandidate` succeeds on an open one, a closed connection has no events.
  Candidates have no content: a stale one that the peer sent for an earlier
  connection may get into the next one's queue, as in the code.
* A capture that returns after `disconnect` leaks in the code; the model lets it
  return and be dropped.
* The lifecycle may say `session-joined` or `peer-connecting` while the link is
  up, and a refused rejoin tears down a healthy session: behaviours of the code
  that no document speaks about.

`BackendProcess`: `SlowProbe = FALSE` says that the port search ends within the
grace period of a quit; with `TRUE` an orphan is possible. A child's look at a
port and its next one are one step each. Settings windows do not count in
`window-all-closed`.

`SettingsFile`: nothing orders the calls, which is what `ipcMain.handle` and the
backend's process do; each is a record `op[c]` with its patch, what it read and
`stale`, which is history: another call opened the file after this one had read it.
A field that is at risk (`atRisk`) may have been written over by such a call or torn by a
write that failed or was killed half-way; saving the field again undisturbed ends
that. Both are history and no guard reads them. `WriteFile` writes in one piece; where two
calls have the file open the longer text may stick out behind the shorter one.
Fields are read and written whole, and a switch of a viewer that is not in the file is
its default. In `HostSettings` `saveDirectory` of the server's updates is like
the launch setting and has no action. `alone` and `agreed` say who moved the login item
with nobody else moving it, and are history too.

`InputControl`: calls of nut.js take effect in order. `Modifiers` stands for
Ctrl, Alt and Shift together. `typeText` and `click` are sent by no viewer code.
A key let go while another window has the focus is lost (`loose`); out of a
capture the code does nothing about it, and no property excludes that.

`HostCapture`: the viewer stays connected (captures across reconnects are in
`PeerClient`). `conditions` says whether a command waits for the one before it
("inTurn"), captures may fail ("capture") and monitors may be unplugged ("unplug").

`HostApproval`: opening the dialog and clicking in it are atomic with the React
state behind them. A recent approval, which counts for every viewer behind the same
address, does not expire within a run (`Gateway` has the cache's time). Renders may take
several changes of the peer together.

`PasswordPrompt`: the user types the password for the server whose client asked.
After a refused re-join the hook still says connected, so a host does not
connect again by itself, and Cancel in a dialog that such a re-join left open
disconnects whatever session is up: behaviours of the code that no document speaks about.

`DiscoveryScan`: exceptions of the bind callback (membership, broadcast flag) are
left out, datagrams are neither lost nor repeated on purpose (a lost one is a
server that stays silent; a repeated one is idempotent). `SubnetProbes` has
octets of two bits and addresses of two octets: the operators take
`OctetBits` as a parameter of the arithmetic, and masks, signs and the two ways
to compute a broadcast address meet at every prefix length.

`ServerPicker`: latencies are measured, not valued. `raced` is history: the url was entered
while a scan was looking for servers on behalf of the default url. `ViewerControl`:
the calls are not waited for, and `connect` goes on when its own call is over.
`unsure` and `crossed` are history: a switch was used while it was being saved or
loaded, a choice changed while connecting waited.

`PointerMapping`: one axis; the other has the same operations. Sizes are a few
pixels, rounding is the code's.

`Clipboard`: what a system does to a text that is written is external
(`Written`); a lost channel's events come before the next channel opens.
`Bitrate`: kilobits instead of bits, truncated as the code rounds;
`setParameters` is atomic and succeeds.

## 3. What is checked with TLC

All bounds are constants of the `.cfg` files or of the instances in the `MC`
modules. For the gateway: the sets `Clients`, `SessionIds`, `Calls`
(overlapping joins), `Addresses`, the limits and the windows.

| run | instance | properties | what it shows |
|---|---|---|---|
| `joins` | host, two viewers that share an address and its one connection, one session, two joins; a host that opens its session and guards it with a password and approval | `TypeOK`, `SlotsMatchSockets`, `SeatedPeersReachable`, `PeersAnnounced`, `SeatsNotStolen`, `ConsentRespected`, `NoReprompt`, `AdmissionSpec` | the awaits between removePeer, leave, addPeer, join and the announcements leave no gap; the approval cache and its expiry; slots through refusals, joins and disconnects; the refinement of `Admission` |
| `moving` | host, viewer, two sessions, two joins, approval switched on and off | `OneSeatPerClient` | moves between sessions, also by overlapping joins and while prompts are pending |
| `limits` | everybody behind one address; host and viewer, two sessions of which one may exist, approval asked for, one prompt per tick; or two joins of a viewer and a password set and cleared, two failures in two ticks | `RosterWithinLimits`, `AskedAndGuessedWithinLimits` | the limits at their boundary; both limiters around their awaits: wrong passwords exceed theirs by at most the joins that overlap, prompts never |
| `one_file` | a file of two chunks, two channels that may close, an old file and an orphaned partial file of the same name | `FileInv`, `DeliverySpec` | the inductive invariant, and the refinement of `AtomicDelivery` |
| `two_files` | two files of one name and one chunk, two or one at a time | `SavedFilesWhole`, `OneVerdict` | names and partial files are never shared, saved files stay; completion, timer, aborts and disk errors race for one outcome |
| `host_app` | one part at a time: three viewers of two names and three joins; four ports and two shocks (crashes, programs that take a port); every file system call of the log may fail or be the last; three calls of the settings of which two overlap, any of which may fail or be killed, from a hash or a plaintext password, while the app starts and sets the login item; two faults of network, connection or capture | `SeatedIsAllowed`, `TrayTellsSeat`, `NoticesPair`, `ChildIsHeld`, `NothingLostSilently`, `DiskAddsUp`, `EncoderFollowsSamples` | expired and late answers seat nobody whose address was not allowed; the controller knows its child and none is left behind; viewers are told; only a stale, failed or killed write loses a setting, only two movers at a time part the login item from its field; samples belong to the connection |
| `viewer_app` | three servers, two with a password, three clients; keys, buttons, the shortcut, lost locks, blurs, renders, lost channels; three calls to save of which two overlap, any of which may fail or be killed: switches and a connection with a capture saved before, or connections to three servers and the folder dialog with a list of two; a scan of three servers at two addresses; interfaces over four-bit addresses; three scans and a user who enters urls and connects while they run | `PasswordGoesToItsServer`, `AttemptIsAnswered`, `InputLetGo`, `ChoiceKept`, `HistoryKept`, `ServersFound`, `SubnetsProbed` | one dialog for all clients; what a capture pressed is released, however it ends; a choice is saved unless another call went over it; who answered a scan is listed; a url is replaced only by a scan it raced with; every neighbour is probed, at every prefix length |
| `stream` | one part at a time: two monitors, four commands in turn, three that overlap or two that overlap and may fail or be unplugged; a host or a viewer with two peers, any fault or only drops, breaks and refusals; three layouts of two monitors, two changes; five copies by both users or four by one | `SentIsLive`, `CaptureSettles`, `ClientInOrder`, `RecoveredHostStreams`, `PointerNearMonitor`, `ClipboardsAgree` | what is sent is never stopped; giving up is final, seat, candidates and timers belong to the connection; a recovered host sends the desktop; no echo |
| `server_progress` | host, viewer, two joins; one file, one channel; fair | `GatewayComesThrough`, `FileIsSettled` | nothing stays pending or seated for ever; every file ends, for the user and in the main process |
| `app_progress` | a viewer with timers, a quit with one shock, a scan whose binds may fail, clipboards of which one converts what is written, one fault of the encoder in both capture modes; fair | `ViewerRecovers`, `AppsComeToRest`, `BitrateFollowsNetwork` | recovery and watchdog get to work whatever else happens; quits, scans and clipboards end; the bitrate's way down, and back as far as the capture mode lets it |

A property with a name of the app's kind (`DiskAddsUp`, `ClientInOrder`, ...) stands
in `HostApp`, `ViewerApp`, `Session` or the `MC` module and is the conjunction of those of its parts (`LogInv`,
`UpdatesSurvive`, `PeerClientInv`, ...), which are stated and explained in the
modules of the components.

Two runs find what they look for, a place where the program does not do what
the repository says; `PROJECT.json` quotes both sides under `findings`:

| run | violated | what happens |
|---|---|---|
| `returning_viewer` | `HostStreams` | the viewer after the first gets a connection without video |
| `disconnect_shortcut` | `KeysLetGoAfterDisconnect` | Ctrl, Alt and Shift stay down on the host |

Other disagreements have no run of their own. Either the run's property names them as
an exception, and fails without it:

| property | exception | what happens |
|---|---|---|
| `UpdatesSurvive` | `atRisk` | two updates of one file overlap, both are reported as done and one is lost; the folder dialog writes back the settings of before it opened; a write that fails or is killed leaves half a file, which is read as no settings |
| `PasswordKept` | `atRisk` | a call that read while another one had the file open found no settings; what it writes has no password, and the host is open |
| `PasswordKept` | `legacy \in done` | any update by the backend deletes a plaintext password and leaves the host open |
| `LoginFollowsSettings` | `agreed` | two changes at a time, or one while the app starts and asks the backend, leave the login item and the setting apart |
| `SavedIsChosen` | `atRisk`, `unsure` | one click saves twice and may restore what it turned off; a load that comes late undoes a choice; a save that failed is only reported in the status line |
| `CaptureIsSent` | `crossed` | a choice made while the history is written is undone by connect(); when the history cannot be written, control is not turned on |
| `EnteredUrlStays` | `raced` | the scan at the start of the app replaces a url that was entered meanwhile |
| `OnlyOldestIsLost` | `cut` | after a rotation that was cut short the next one deletes the oldest log though a number is free |
| `PutNearDisplay` | one line past the edge (`PutOnDisplay` has none) | a move to the far edge of the video goes to the next monitor's first line |
| `ComesBack` | `TooLowToGrow` in "desktop" | below 1875 kbit/s an increase of 8 per cent is less than the step of 150 and is never made |
| `SeatedIsAllowed` | the address, not the viewer | a viewer behind an address that was allowed is seated without a click for it |

Or each shows when the instance of its module is changed as the table says, or when the
stronger property is checked in the place of the one the run has:

| module | change | violated | what happens |
|---|---|---|---|
| `BackendProcess` | `MaxShocks` 1 | `AdvertisedIsServed` | a port taken between the app's and the child's search: the app shows the old url |
| `InputControl` | `events` {"stats"} | `CaptureSurvivesRender` | a render ends the input capture |
| `HostCapture` | `conditions` without "inTurn" | `SeesActiveMonitor` | two quick switches: the picture is of one monitor, the menu names the other |
| `HostApproval` | | `RefusedByUser` | a dialog left open refuses later viewers unasked |
| `DiscoveryScan` | `BindFails` {1, 2} | `ProbedIsListed` | when UDP fails, what HTTP found is thrown away |

Why the bounds are enough: the properties relate at most two peers of a session
or two joins, a third client or join competes with them, the limits are 1 or 2
so that they are reached, and TTLs of 1 tick have an age inside, at and beyond
the boundary. In `joins` the two viewers have one connection between them, so that
one of them follows the other at the same address and finds the consent it left. The
largest of the three instances has half a million states. The theorems below lift every safety
property of the gateway to all values.

`Admission` sees a gateway with most of its state left out: `VisitorOf` is what is known
of a join at an await before its seat, `StaleSeats` who could be removed, `FreshConsents`
the keys with a consent younger than the TTL, which no variable of the code holds. A
join that has its seat is no visitor any more, so what follows `client.join` is a
stutter, as are the rooms, limiters and announcements. One step of the code that
removes the expired, asks for capacity and adds a peer is one step of `Admission`.

For files: two chunks have a first, a last and an order; two channels let a
close event of the first reach the second; two files compete for a name and a
slot; three candidate names leave one free beside an old file. Files of
different contents and names do not interact otherwise, which the theorems
below confirm for all of them.

For the client: two tasks are a continuation and a later one that overtakes it,
two peers are one that left and its successor; three commands, joins, clients
or copies are one that overlaps two others; two monitors have one edge in
common; four ports have one below, in and above the span of a search. A scan's
three probes for two workers make one worker take a second address. Two calls of a settings
file are enough to overlap, and a third one finds what they left. `MaxFaults`,
`CallsMade`, `MaxShocks`, `MaxCalls`, `MaxCopies`, `MaxJoins` and `MaxInFlight` bound what
the environment does, never what the code does in reply.

Deadlock is checked in the runs of the gateway alone (`joins`, `moving`, `limits`); the
other instances end when their files, channels, faults or user actions are used up.
Symmetry is used for joins, for the two viewers, for sessions, for monitors, for files of
one name and size and for the calls of the settings, only in runs without liveness properties.

In `MCProgress` the fairness of a part is asked for while that part moves.

Fairness of `FileTransfer`: `WriterStep` (calls of the main process return,
promise chains go on) and `TimeOut` (the timer fires while the transfer is
tracked; each chunk arms it anew, but a file has finitely many). Nothing is
assumed of sender, channel, or of the unlinks.

Fairness of `Gateway`: `ResumeJoin` of every call (file reads, hashing, room operations and
timers complete), `CleanupTimer` (an interval) and `Tick` (the clock) are
weakly fair. `HostAnswers` is not: the host may never react. Connects,
disconnects, heartbeats and settings changes are not either.

Fairness of the others: `PeerClient` assumes its timers (`ReconnectFires`,
`WatchdogFires`), not captures, the network or the peer; `BackendProcess` its own
steps of starting and quitting, whose timers bound what the child does;
`Clipboard` the poll, the pause, delivery on an open channel and that a lost
channel opens again (external, the reconnect of `PeerClient`); `Bitrate` the
one-second timer, that statistics arrive, and (external) that a lost connection
and a new capture come up; `DiscoveryScan` that a bind succeeds or fails, the
timers and that a probe ends, which its own timeout ensures.

What the model of file transfer also shows, and no document of the repository
speaks about:

* A transfer may be reported as interrupted and saved nevertheless: the close of
  the channel does not mark it as failed, and if the main process was still
  opening its file, the abort came too early. If its complete message has not
  arrived by then, the session stays in the main process for ever.
* A transfer that fails leaves an empty file under the reserved name, and may
  leave a partial one if an append was under way at the abort.
* Empty files cannot be received: there is no partial file to rename.
* The sender reports success when the channel has drained; a receiver that
  rejects the file for want of a slot does not tell it.
* A file "a.part" that arrives while "a" is being written is written over. The
  assumption `TempPathsApart` excludes such names; `LeftoversPaired` says
  likewise that nobody removed a reserved file and left its partial one.

Every property is paired in `PROJECT.json` with a mutant, a plausible bug in
one definition (`KeepOldSession`, `ExpiredAtTtl`, ...), under which TLC finds it
violated. Mutants stand beside the definition they mutate and are marked.

## 4. What is proved

`GatewayProofs`, for every set of clients, sessions, addresses and joins and
every limit that the assumptions `SessionLimits` and `GatewayConstants` allow
(limits are positive, windows natural, clients and overlapping joins finite, as
`readPositiveInteger` and the code guarantee):

* `TypeCorrect`: `TypeOK` is inductive, one lemma per handler.
* `RolesAreUnique`: `OneRolePerSession`, because `RosterSteps` shows that a step
  only drops seats or adds one that passed `CanAddPeer` on the rest.
* `LimitsHold`: `RosterWithinLimits`, from the inductive `WithinLimits` that adds
  finiteness; counting lemmas `FewerSeats` and `OneMoreSeat`.
* `SeatsAreSingle`: `OneSeatPerClient` is not inductive, since a join suspended
  in `client.leave` will add a seat whatever happened meanwhile. `SeatsFollowJoins`
  adds that overlapping joins of a socket agree on the session and that a
  socket in that await has seats in that session only.
* `SlotsAreExact`: `SlotsMatchSockets`, counting the sockets of an address.
* `MembersAreReachable`: `SeatedPeersReachable`. Between `removePeer` and
  `client.join` a socket is out of its old room, and only `SeatsFollowJoins` says that
  it has no seat there any more.
* `MembersAreAnnounced`: `PeersAnnounced`, from `NewsOnTheWay`: a member knows of another
  one, unless a join is about to announce that one, or its own join found it and is
  about to say so.
* `SeatsAreNotStolen`: the action property `SeatsNotStolen`, from `StepKeeps`, which
  says of every step but the last of a join which seats it drops and why.
* `GuessesAreBounded`: `PasswordFailuresBounded`, inductive as it stands. A guess is let
  past the limiter while less than the limit has failed; of those under way, each adds
  one failure and is no guess any more, and a success forgets them all.
* `PromptsAreBounded`: `HostPromptsBounded`, from `PromptsCharged`: for every age n, the
  prompts younger than n that wait for an answer are no more than the events younger
  than n in the limiter's log. Only so do both sides lose the same at a tick.
* `ConsentIsRespected`, `NoRepromptWhileFresh`: the action properties
  `ConsentRespected` and `NoReprompt`, from `CacheKnowsConsent`, which ties the
  expiry times of the cache to the history of consents, and `CallSteps`, which
  says which steps can move a join.
* `LimitersHold`: the two bounds in one, `AskedAndGuessedWithinLimits`.
* `GatewayAdmits`: `AdmissionSpec`, the gateway implements `Admission`. One lemma per
  handler says which step of `Admission` it is (`StepRefines` puts them together);
  `DoorFollows` and `EndLeaves` carry a changed join over to the door. Three invariants
  are needed: `OneSeatPerClient`, since `Admission` has a client give up its one
  place where the code removes one seat; `CacheKnowsConsent`, since `Admission` knows
  consents where the code asks its cache (`FreshIsRecent`); and `PlacesAreGood`, of the
  state after the step: what `CanAddPeer` lets in is `WellTaken`. That `OneRolePerSession`
  and the limits hold follows from `Admission` as well.

`FileTransferProofs`, for every set of transfers, sizes, names, channels and
limits that satisfy `FileTransferConstants`, `TempPathsApart` and
`LeftoversPaired`:

* `FilesStayInOrder`: `FileInv`, the inductive invariant. What the user relies on,
  that a saved file is whole, is inductive only together with: the partial
  file is a prefix of the file while a session is open (`FilesInOrder`), renderer
  and main process count alike (`Bookkeeping`), a name belongs to one transfer and
  a stray partial file is never under a free name (`NamesReserved`), a transfer
  is started once (`StartsOnce`) and nothing is queued that was not sent
  (`ChunksWereSent`). Most actions only give up or forget; `QuietStep` says so
  and one lemma covers them all. Each action that opens, writes, renames or
  unlinks a file has a lemma of its own.
* `SavedAreWhole`: `SavedFilesWhole`, a consequence.
* `DeliveryIsAtomic`: `DeliverySpec`. `SendFile` and `ReadChunk` map to `Offer` or a
  stutter, `StartDone` to `Reserve`, `RenameDone` to `Publish`, the others to
  stutters, because what they write is no file's final name.

* `OneOutcome`: `OneVerdict`, from `OutcomesAreFinal`: nothing is reported while a transfer
  is undecided, one whose rename is under way is out of the reach of timer, abort and
  a second completion, and all that was reported of a transfer is the same.

`HostCaptureProofs`, for every set of monitors and settings, any number of
commands and every choice of `conditions`:

* `SentCaptureRuns`: `SentIsLive`. A handler stops the capture that was local
  when it began. `CaptureInv` adds why that is never the one that is sent or will
  be: a stream belongs to at most one call that may still stop it, a call's
  `next` is not any call's `previous` until it is local, and streams are
  numbered in the order in which they were captured.
* `ChangesSettle`: `CaptureSettles`, from `SettleInv`. If nothing fails, the last state
  on its way to the viewer names the active monitor unless a handler will send a
  newer one (`Follows`). If commands come in turn, at most one handler is active, and
  for each place it may be suspended at `OnItsWay` says which captures run, which
  is sent and which one it will stop.

`ViewerAppProofs`, about `PasswordPrompt` alone and about the interleaving of
`ViewerApp`, for any servers, connections, joins, keys, buttons, settings, addresses,
numbers of workers and scans:

* `PromptTypes`, `PasswordsStayHome` and `AttemptsAreAnswered`, from `PromptInv`,
  which ties the resolver, the dialog and the one attempt that waits for both to
  each other, and each message under way to the client that sent it;
  `PromptOfViewer` carries the last two over to the app.
* `InputOfViewerLetGo`: `InputLetGo`, from `InputInv`. What is down on the host, or will
  be once the messages on the wire have arrived, is pressed at the viewer or was lost
  to another window (`Covered`): the last message about a key decides, and whatever
  ends a capture sends a release for each thing it pressed.
* `ChoiceOfViewerKept`: `ChoiceKept`, from `ControlInv`. Of a file that overlapping calls
  write, `FileInv` knows this much: a call that is not stale is alone with it and has
  read what was reported (next paragraph). `ChoiceKnown` adds that a switch which is not
  unsure has one call at most that saves it, with the value that was chosen, or is
  what was reported; `GoesOnAsChosen` that connect(), unless crossed, goes on
  with the choice there is.
* `HistoryOfViewerKept`: `HistoryKept`, from `FileInv` and the types, which say that every list
  in the file and on its way to it has no server twice; a list that a handler makes
  stays one (`RecentServerAdded`).
* `ServersOfViewerFound`: `ServersFound`. The workers have taken exactly the addresses
  before `index` (`WorkersInv`), what was heard is in one of the two lists that are
  merged at the end (`AnswersInv`), and while the last url entered has not raced,
  no scan that may still set the url goes by the default one (`PickerInv`).

`SettingsFileProofs`, about `SettingsFile` alone, for any fields, values and number of
calls: one lemma per action says that it keeps `FileInv`. The proofs of both apps cite
them for their own file; `SameFile` there states that the definitions of the two
instances are those of the module.

`HostAppProofs`, about `HostApproval` alone, for every set of viewers, names and
addresses and any number of joins:

* `ApprovalTypes`, `SeatIsForTheAllowed` and `NotificationsPair`, from
  `HostApprovalInv`. A yes on its way is a click on Allow for that very join
  (`YesIsAClick`), which is inductive only because a request is in the host's
  queue once and a join that is shown or queued was not clicked (`RequestsAreNew`); a
  join that is approved without a question goes back to one of the same address with a
  click;
  notifications pair because the remembered name is that of the last
  notification (`NoticesInv`).

* `TrayNamesTheSeat`: `TrayTellsSeat`. The tray is right once all is handled; before
  that, the messages on their way to the host lead from the peer it knows to the one
  who has the seat (`PeerFollowsSeat`), and the last presence message names what was
  rendered last (`LatestIsRendered`).

And about the interleaving of `HostApp`, for any ports, search lengths,
numbers of logs and calls, values of the settings, frame rates and faults:

* `ChildOfHostIsHeld`: `ChildIsHeld`. The inductive `ChildInv` adds that the
  controller spawns on the port that its search found (`SpawnedFromSearch`), which
  is free as long as no other program takes ports (`FoundIsFree`), and that a closing
  app is past its search (`ClosingHasStopped`).
* `NothingIsLostSilently`: two action properties at once, the stop after the
  announcement, and the rotation, from `RotationInv`: while logs are moved up, the
  number that the next one goes to is free (`RoomAbove`), and unless a rotation was cut
  short there is no other free number below a log (`NoGap`).
* `DiskOfHostAddsUp`: the order of the logs (`RotationInv`), and of the settings
  `FileInv` as above, that who moves the login item alone knows what it was and what the
  field holds (`LoginAhead`), and that only the password's own handler reports a
  change of the hash (`PasswordUntouched`).
* `EncoderOfHostFollows`: `EncoderFollowsSamples` is inductive as it stands, given that
  each frame rate leaves room between the least and the most bitrate.

`PeerClientProofs`, for any number of peers, of functions that wait at the same time
and of joins, every role and every `surroundings`:

* `ClientKeepsItsPromises`: `PeerClientInv`, `OneRecovery` and, where nobody leaves for
  good, no network resumes and no capture fails, `HostStreams`. A handler composes
  methods, so the invariant `Good` is stated of a record; one lemma says which
  fields a method changes, another that it keeps `Good`, and an action's proof
  follows its composition. Not inductive without: a client that never connected has
  nothing under way, the first capture of a host is alone and before its socket, a
  recovery is one task, tracks and queue go with the connection (`Tasks`, `Goes`).
  `Video` adds that a host always has a connection with its video or a capture for it.

`SessionProofs`, about the interleaving of its parts:

* `CapturesOfSession` and `ClientOfSessionInOrder` carry the two results above over:
  a step of the session is a step of the part or leaves its variables alone.
  `ClientProofs` is an instance of the module with the client's theorems; its
  definitions are those of `Client`, which `SameInit` and `SameNext` state.
* `RecoveredHostKeepsStreaming`: `RecoveredHostStreams`, its second half by itself: in
  calm surroundings a host streams after every recovery.
* `PointerStaysNearMonitor`: `PointerNearMonitor`, for any layouts, widths and resolutions.
  Rounding stays between two integers that the fraction is between
  (`RoundBetween`), and a pointer is within the width that it was made for.
* `ClipboardsOfSessionAgree`: `ClipboardsAgree`, for any contents. Where both copy, what an
  end holds it polled, received or its user copied (`SentIsOwn`), so what it sends
  its user copied. Where one copies, the last copy polled is pending, last on the
  wire, or what the other end received last (`LastPolledIsOnItsWay`).

Two results rest on what a recursive function computes: the handler's filter of the
recent servers (`Filtered`), and the sums of a limiter's log (`YoungerSteps`,
`LogCounts`). Induction with an operator for the predicate is out of the provers' reach,
but a set will do: of the numbers outside of it there would be a least one, by the
well-foundedness of `<` (`Induction`, `SetInduction`).

One proof did not go through because the model was wrong: a scan of no address has no
worker whatever the concurrency, since `discoveryClient.ts:356` takes the lesser of the
two last.

Only model-checked:

* the liveness properties of `server_progress` and `app_progress`: fairness and ENABLED
  are beyond the prover;
* `SubnetsProbed`: `SubnetProbes` computes with bits, by the recursive operators of
  `Bitwise`, which the prover does not reach.

## 5. Plan

Done: all components that have state are modelled and checked, and every safety
property and action property that a run checks and both refinements are proved of
the module they are about, `SubnetsProbed` excepted.

Next, in this order:

1. What `PeerClient` assumes of its socket against what `Gateway` sends.
2. Two `PeerClient`s against one gateway, once what a browser does with a
   renegotiation under a new fingerprint is settled.

## 6. Not modelled

* TURN configuration: environment variables into a list, without state.
* Web client hosting: static files, and a stand-in for the preload API.
* Windows, hotkey registration, UI components: layout and calls of Electron. What
  the hotkeys do is in `InputControl`, `HostCapture` and `ViewerControl`.
* Sanitizers of IPC and signaling payloads: pure checks that narrow types. The
  models take what passes them as inputs; presence and pointer messages are
  checked in `HostApproval` and `PointerMapping`.
* Build and release scripts: not part of the running system.
* Codec preferences and audio levels: they change no state of the program.
* Two clients end to end: see section 2, `PeerClient`.

Hazards that no property covers, because nothing in the repository says what
should happen: a join that gives up its old seat and then meets a capacity error
does not tell the room it left (`signaling.gateway.ts:192`); an expired host
stays in its room (362); nothing acknowledges a file to its sender
(`RemoteControlClient.ts:394`); a file named like another's partial file
(`fileIpc.ts:142`); a key let go elsewhere, out of a capture
(`RemoteVideo.tsx:367`); a copy equal to what was received last is not sent
(`RemoteControlClient.ts:1080`).
