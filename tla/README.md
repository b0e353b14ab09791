# librustdesk_core in TLA+

This directory is a verification project for the OpenHarmony (OHOS) core of
RustDesk. It holds TLA+ models of the core's concurrent parts, TLC instances
that check them, and theorems about them with proofs that TLAPS checks.

Everything is translated from the source under `src/`; `PROJECT.json` maps each
definition to the lines it stands for. In this document `core.rs` and
`server_ohos.rs` are the files of that name under
`src/rustdesk-master/src/harmony_bridge/`, and the other paths are under
`src/rustdesk-master/`.

## 1. The system

The library is loaded by an OHOS app through a NAPI module. The app is either
the *controller* of a remote computer (it starts sessions, sees the remote
screen) or is itself *controlled* (it hands over its own screen and serves
connections), or both at once.

| component | source | state it keeps | operations |
|---|---|---|---|
| NAPI loader, C ABI | `cpp/rustdesk_bridge_loader.cpp`, `native_rust_core/src` | none that matters | converts arguments and calls the core, synchronously, on the app's UI thread |
| bridge commands and callbacks | `core.rs` | `CONNECT_STATE`, `LATEST_VIDEO_FRAME`, `ACTIVE_SESSION`, `ACTIVE_SESSION_GENERATION`, the event list, each behind a mutex of its own | `session_start`, `session_close`, `session_reconnect`, `session_login`; callbacks `on_connected`, `close_success`, `msgbox`, `on_rgba` |
| connection rounds and io_loops | `src/ui_session_interface.rs`, `src/client/io_loop.rs`, `src/client.rs` | `Session.sender`, `Session.thread`, `connection_round_state`; per thread its round and channel | `reconnect`, `io_loop`, `handle_msg_from_ui`, message handling, the video thread |
| incoming video service | `server_ohos.rs` | `ServiceInner.subscribes`, `new_subscribes`, `active`; the encoder of the running callback | `on_subscribe`, `on_unsubscribe`, `join`, `snapshot`, the capture loop |
| screen cache and capturer | `libs/scrap/src/common/harmony_bridge/ohos.rs` | one cached frame with its id; the capturer's last id | `update_ohos_incoming_frame`, `clear_ohos_incoming_frame`, `Capturer::frame` |
| VP9 encoder wrapper | `libs/scrap/src/common/vpxcodec.rs`, `convert.rs` | the encoder's size and stream position | refuses larger pictures; key frames are disabled, only the first frame is one |
| incoming connections | `server_ohos.rs` | `ALIVE_CONNS`, `PEER_CONNS`, `Server.connections`, service subscriptions, per task its flags | `Connection::start`, `handle_incoming_message`, `cleanup_connection` |
| incoming service control | `core.rs`, `rendezvous_mediator_ohos.rs` | the started and requested flags, `stop-service`, `direct-server`, `SHOULD_EXIT`; per server thread its mediators and direct listener | `main_start_service`, `main_stop_service`, `main_discover`, `start_all`, `direct_server_loop` |
| rendezvous mediator | `rendezvous_mediator_ohos.rs`, `libs/hbb_common/src/config.rs` | `key_confirmed`, `keys_confirmed`, the id; `SOLVING_PK_MISMATCH`, `NEEDS_DEPLOY`; per mediator its timer and socket | `register_peer`, `register_pk`, `handle_resp`, `handle_uuid_mismatch`; punch hole, relay |
| file session | `core.rs`, `src/client/file_trait.rs` | `FILE_TRANSFER_SESSION`, its generation, `PENDING_REMOTE_DIRECTORY`, the password of the remote-control session | `session_read_remote_dir`, closed by `session_start` and `session_close`; callbacks of a second io_loop |
| file-transfer jobs | `libs/hbb_common/src/fs.rs`, `src/client/io_loop.rs`, `src/server/connection.rs`, `src/ui_cm_interface.rs` | a `TransferJob` at either end, `.download` and `.digest` files, the jobs kept in the peer's configuration | send, resume, cancel; digests, overwrite confirmation, blocks |
| platform stubs, configuration, upstream code for other platforms | various | — | — |

How they interact:

- The app's UI thread calls commands of `core.rs`. `session_start` and
  `session_reconnect` spawn an `io_loop` thread; commands reach it through an
  unbounded channel (`Session.sender`) and it reports back by callbacks, which
  write the same globals as the commands.
- An accepted connection is a tokio task. Tasks share the tables of
  `server_ohos.rs`, each behind a lock of its own, and subscribe to the one video service.
- File and folder commands go to a session of their own, with its own io_loop and
  generation, which borrows peer id and password from the remote-control session.
  A job runs between that io_loop and the controlled machine; either may be the
  end that reads.
- The mediators of one round keep the device registered, one per rendezvous
  server, over UDP; they share the id, the confirmations and two flags.
- A service thread runs the video callback while there are subscribers. It reads
  the screen cache, which the app fills, and sends to the subscribed tasks.

What is hard about it:

- No two of these globals share a lock. Nearly every operation is a sequence of
  lock acquisitions, and other threads run between any two of them.
- Sessions, rounds, connections and frames are replaced, not awaited: a
  replaced actor runs on and its late effects have to be recognised (by
  generation, by round, by connection id, by frame id).
- Datagrams are lost, doubled and reordered; replies do not say what they answer.
- File jobs outlive their connection: what an earlier job has left on the disk is
  renamed, removed or continued by a later one.
- Encoders produce one key frame. Whoever joins later cannot decode.
- Threads wait in `select!`, for locks held across other locks, and for other
  threads to be joined.

What makes each component correct:

- *Video service:* all viewers of one stream agree on what they can decode; who
  waits is served; who leaves is gone; stopping ends the thread.
- *Connections:* an ended connection is in no table; the newest login owns the
  peer id; nobody is thrown out without having been replaced; everybody whose
  peer is gone is cleaned up.
- *Bridge session:* Close never reaches the current attempt; a superseded thread
  cannot keep disturbing its successor; a session counted as disconnected has
  no running loop; every attempt is answered; a closed loop ends.
- *Service control:* a stop silences every server thread and closes the
  listeners; a thread that misses it does so once; a service that is on registers
  again after every failure.

- *Registration:* a new id is not taken for confirmed; every server that answers
  ends up with the device's key, and the confirmations end up true.
- *File session:* its password and its directories go to the peer they belong to; its
  events name that peer; a closed one falls silent; the directory it was opened for is
  asked for.
- *File jobs:* a job reported done has delivered; only whole files get the final
  name; nothing is overwritten without consent; a job ends or waits for the user.

`PROJECT.json` lists the hazards behind these, each at its line.

## 2. Modules

| module | what it is |
|---|---|
| `VideoService` | the service thread, `video_service::run`, subscriber sets, screen cache |
| `IncomingServer` | connection tasks and the tables they share |
| `ViewerSet` | abstract: what connection tasks and a service agree on |
| `BridgeSession` | UI commands, io_loops, video threads, their globals |
| `IncomingControl` | starting and stopping the incoming service, its server threads |
| `Registration` | the mediators of one round, their servers and the network |
| `FileSession` | the second session, for files, beside the remote-control session |
| `FileTransfer` | one transfer job, both ends, disk and user |
| `<module>Proofs` | theorems about each of these, but for `ViewerSet` |
| `FileTransferSafetyProofs` | the safety properties of `FileTransfer` and that no transfer gets stuck, on top of `FileTransferProofs` |
| `MC<module>` | TLC instances; `FileSession` needs none |

`ViewerSet` is the seam between the controlled side's two halves.
`IncomingServer` implements it with the calls its tasks make (a connection joins
at most while it lives and leaves exactly once, for good), and `VideoService`
implements it with its two subscriber sets. So the assumption `VideoService`
makes about its environment (`on_subscribe` and `on_unsubscribe` require
`c \notin gone`) is what `IncomingServer` is shown to keep.

**Slips.** An operator named after another with a suffix, such as
`on_subscribe_Direct` or `Evicted_ByPeerId`, is no part of a model. It is a bug
the code could have had at that place. Putting it in place of the original makes
one of the checked properties fail; the pairs are listed under `mutants`. They
show that each property depends on the code it is about.

### VideoService

State is that of `ServiceInner` (`subscribes`, `new_subscribes`, `active`), the
service thread's location `pc`, its encoder (`enc`, `first_frame`) and the screen
cache. The thread takes one step per acquisition of the service's lock: the
loop of `ServiceTmpl::run` (`CheckActive`, `CheckSubscribers`, `Backoff`), the
callback (`OpenEncoder`, `CheckOk`, `TakeFrame`/`WouldBlock`), and
`handle_one_frame`, whose look at the newcomers (`Snapshot`), look at the active
set (`Switch`) and swap (`swap_new_subscribes`, the `Drop` of `ServiceSwap`) are
three separate locks. Connections call in between.

- A frame is its size. Ids are abstracted to what the capturer can tell: whether
  the cached one is unseen (`fresh`), and how `last_frame_id` relates to the ids
  to come. After a clear ids restart at 1, so one later frame may carry the id
  seen last (`last_frame_id = "ahead"`).
- `decode` records what each subscriber got from the current encoder: nothing, a
  stream from its key frame on, or delta frames without one.
- `OPTION_REFRESH` is only reset and tested by this code, never set; it is left
  out. Sent frames are not queued in the model.

### IncomingServer

One task per connection. A location of `pc` stands before each lock acquisition:
the login enters `PEER_CONNS` and, if another connection of this peer is alive,
keeps the guard (`peerLock`) while it notifies, unlists and drops it; then
the reply, the registration, the loop; and the three locks of the cleanup.

- Password checks, input, clipboard, chat and delay messages change none of this
  state and are left out; a login in the model is one with a valid password.
- A peer acts on a close reason by closing its end (`DeliverCloseNotice`).
- The task's locals are reset when it ends; nothing reads them afterwards.
- "Server.connections" and the channels are sets: only membership matters.

### BridgeSession

The UI thread runs one command after the other, since NAPI calls are
synchronous. A command is one step per lock acquisition: `session_start` is
`StartBump`, `StartFrame`, `StartState`, `StartSpawn`. A callback is three steps:
the look at the generation (`Accepted`, `FirstFrame`, `Fails`, `Refused`), the
read of the peer id (`ReadPeer`), and the write (`WriteConnected`, `WriteError`).
Frames have two (`Decoded`, `publish_real_video_frame`), on a thread of their own.

- A session is its generation; a peer id is the generation it was given to.
  `""` and `"idle"` of the stage are one value.
- Queued events are reduced to `prompted`: a message box that belongs to the
  current attempt.
- Merged, because nothing can tell the difference: clearing the events and the
  frame in `StartFrame`; the sending of Close and the drop of `ACTIVE_SESSION` in
  `CloseSend`; Close, `new_round` and the spawn of `Session::reconnect`, which
  hold the lock of `connection_round_state` throughout.
- Threads are spawned in a fixed order (`CHOOSE`), each used once.
- Not modelled here: the event list, options, clipboard and audio traffic. The file
  session and file jobs have modules of their own.

### IncomingControl

Each start spawns a server thread, which is never joined. A thread (`pc`) reports
the service as started (`Prologue`), then goes through rounds: it looks at
`stop-service` (`Look`), resets `SHOULD_EXIT` and spawns a mediator per host
(`ResetExit`), waits for all of them (`Join`) and sleeps (`Offline`). A mediator
resolves its host, and on every tick of its timer leaves if `SHOULD_EXIT` is set
and else registers; whoever leaves sets the flag for the others. The direct
listener looks at its options, opens, and closes after a later look. The UI
thread's commands are one step per option or flag.

- A registered mediator is one that has sent a registration; timers, retries and
  what else it does for its host (punch hole, relay) are left to a module of
  their own.
- Merged: the two options `direct_server_loop` looks at, since it looks again at
  both in the next round; the two flags of a start, whose common reader is a
  status text; `SHOULD_EXIT`'s reset and the spawning of the mediators.
- Left out: `MANUAL_RESTARTED` and the elapsed time, which only choose how long
  `Offline` sleeps; a changed port of the listener; builds that are outgoing only.
- `lateRounds` is a history variable: the threads that have begun a round
  in spite of the stop.

### Registration

A mediator (`pc`) handles one event of its `select!` at a time: a tick of the timer
(`Tick` looks at the confirmations, `SendRequest` sends), or a reply. Handlers
take one step per lock: an OK confirms the key (`OkKey`), the host (`OkHost`),
clears `SOLVING_PK_MISMATCH` (`OkSolving`) and `NEEDS_DEPLOY` (`OkDeploy`);
UUID_MISMATCH looks at `SOLVING_PK_MISMATCH` and keeps its lock until there is a
new id (`Solve`, `NewId`); NOT_DEPLOYED has three steps.

- `id` counts the changes of the id. Servers are external: each has the ids it
  has the device's key for, the ids of other devices (`Taken`), and may be down,
  forget, or not know the device (`deployed`).
- `net` is a set of datagrams: the network reorders. Losing, doubling, a late
  answer, restarts, crashes and failing servers are counted by `faults`.
- Time is not modelled. Any tick may find the timeout or the interval expired
  (`Due`); a tick while an answer is still under way is a fault, since timeouts are
  much longer than round trips.
- Left out: latencies and the online state, which this build does not read, the
  count of failures and the DNS lookup it leads to, the keep-alive time.

### FileSession

`session_start` and `session_close` close the file session before they do anything
else, lock by lock (`CloseBump`, `CloseSend`, `CloseDrop`, `ClosePending`).
`session_read_remote_dir` sends to the session that is there (`ReadMore`), or
opens one (`ReadBegin`, `ReadBump`, `ReadSpawn`). A thread connects, logs in,
forwards requests and ends; each callback reads the peer id, looks at the
generation again and queues an event (`ReadPeer`, `Check`, `queue_event`).
`close_success` also takes the pending directory (`Take`) and sends it to the session
that is there by then, unless its path is empty (`SendTaken`).

- A file session is its generation, a remote-control session its number, which
  stands for its peer, its password and the directories asked for there. An empty
  path is `Blank`; it waits like any other and is never asked for.
- A thread's locals are reset when a callback is over; nothing reads them afterwards.
- `LateUpdate` is what `BridgeSession` shows of the remote-control session's threads: one
  that has been closed writes the peer id it has read, over what is there.
- Merged: clearing the password, the peer id and the session in `CloseState`, and
  setting them in `StartState`, as only the UI thread reads the others; the two
  events of `update_folder_files`, the second of which is checked again.
- Requests reach the peer's answer only after the login (`Forward`): the peer drops
  a file action it gets before.

### FileTransfer

One job, uploaded or downloaded, between a reading end `r` and a writing end `w`,
both a `TransferJob`. The two directions of the connection are FIFO queues. A
tick of the reading end sends the digest of the next file, a block, or the end of
the job; the writing end answers a digest with "skip" or an offset, by itself or
after the user was asked; blocks go to `<name>.download`, which gets the final name
when the next file begins or the job is done. A cancelled job removes its
`.download`; a lost connection leaves it, and the job stays in the configuration to
be resumed.

- A file is a sequence of block numbers, old contents are block 0. A resume offset
  counts blocks. `src` says that the mtime is the source's, so the file counts as
  transferred.
- Jobs follow one another (`BeginJob` needs an idle connection), as `handle_read_jobs`
  works on the first job only; what several jobs in the queue do to each other is not
  modelled. System calls of one handler are one step, but each of them may fail.
- *Failures.* `ok` is the set of calls of a handler that succeed, and each other one counts
  in `faults`. `modify_time`, `remove_download_file` and the note of the digest swallow
  their errors: the name, the mtime, or the file that should go stay as they were, and the
  job is done all the same. `write` returns at the first call that fails, and where it
  does decides what is left: after a failed `sync_all` nothing has moved; after a
  failed validation, removal or `File::create` the file number is the new one and
  `data_stream` still the previous file's handle, so that the next blocks, which find
  number and handle in place, are appended to the previous file, renamed or not
  (`Unopened`, `Appended`). `set_stream_offset` drops an offset it cannot open the file at
  or seek to (`Seeks`). A list of files may be rejected at either writing end
  (`RecvReceive`, `RecvDir`), the source may be impossible to open or read, and the file
  that is there impossible to examine.
- `spoiled` names the files these failures may leave wrong, and no others: that of a block
  that was not stored, the one the handle was left on, the one that did not get its name or
  its mtime, and the one whose offset was lost at either end, be it by a failure or because
  the writing end ignores the answer (finding 4).
- Assumed: sources do not change between jobs, so a digest found beside a `.download` is
  that of the source (the comparison in `is_write_need_confirmation`); `ResumeJob`
  comes for restored jobs only, as the user interfaces offer it, which its handler
  does not check. The handle of tokio hands a block to the system in the background and
  reports its failure with the next call; here it is written, or fails, at once. So a
  write that is pending when the mtime is set is not seen. Source and destination are
  different directories: a reading end that finds a `.download` beside its own source
  is not modelled.
- Both directions are modelled because their handlers differ: for an upload the
  user's answer goes to the reading end only, and the connection manager answers
  with an error what the io_loop swallows.
- The OHOS server ignores file actions, so an OHOS device is always the
  controlling end; the other end is the upstream `connection.rs` and
  `ui_cm_interface.rs`. Its Windows variant, which reads through the connection manager,
  printer jobs and peers without overwrite detection are not modelled.
- Known behaviour the properties except: a file the user chose to keep in an upload
  is not told to the writer (`untold`), which then touches its mtime or renames a
  stale `.download`; a download goes on after a failed call and is reported done
  (`spoiled`); a digest whose file cannot be examined is never answered
  (`"unanswered"`).

## 3. Runs

Most instances allow the system to stop (`CHECK_DEADLOCK FALSE`): connections
come to an end, threads, generations and jobs are used up, the app may do nothing
more. Server threads and mediators never end, so `incoming_control` and
`registration` check for deadlock.

| run | properties | what it shows |
|---|---|---|
| `video_service` | `TypeOK`, `StreamAgreement`, `ImplementsViewerSet`, `ViewerServed`, `JoinReturns` | two viewers and a screen that rotates or is cleared twice |
| `incoming_server` | `TypeOK`, `NoLeak`, `NewestLoginOwnsPeer`, `UnlistedHasRival`, `ConnectionsAreViewers`, `DeadPeerIsCleanedUp`, `ReplacedConnectionEnds` | two connections of one peer that may each log in twice and replace each other, with and against the `PEER_CONNS` guard |
| `bridge_session` | `TypeOK`, `CloseHitsOldOnly`, `DisconnectedHasEnded`, `OneLateUpdate`, `AttemptAnswered`, `ClosedLoopEnds` | two generations, two io_loops, in one session or in two |
| `incoming_control` | `TypeOK`, `OneLateRound`, `StopSilences`, `ListenerCloses`, `KeepsRegistering` | starts, stops and restarts with two server threads |
| `registration` | `TypeOK`, `NewIdUnconfirmed`, `StaysRegistered`, `ConfirmationsSettle` | two servers that each demand a new id once, with two faults of any kind |
| `file_session` | `TypeOK`, `PasswordOfPeer`, `DirectoriesOfPeer`, `EventsNamePeer`, `OneLateEvent`, `FirstDirectoryRead` | two remote-control sessions, four openings or closings, a late update |
| `file_transfer` | `TypeOK`, `PartsArePrefixes`, `DoneDelivers`, `RenamesWholeFiles`, `OverwriteNeedsConsent`, `JobEndsOrAsks`, `PeerJobEnds` | two files up or down, two jobs in a row, cancelled, resumed, cut off or crashed, with one failing system call of any kind; 257,820 states |
| `video_service_key_frame` | `KeyFrameFirst` (violated) | finding 1 |
| `bridge_session_stale` | `OnlyCurrentUpdates` (violated) | finding 2 |
| `incoming_control_stop` | `StopIsFinal` (violated) | finding 3 |
| `file_transfer_resume` | `ResumeDelivers` (violated) | finding 4 |
| `file_transfer_first` | `SendFilesDelivers` (violated) | finding 5 |

### Bounds

| bound | values | why it is enough |
|---|---|---|
| `Conns` of the video service | 2 | one viewer and one newcomer; both may be active, waiting, or one of each. The safety properties are proved for any number. |
| `Sizes` | portrait, landscape | each is too large for an encoder opened for the other; a same-sized picture is in both |
| `MaxDisturb` (rotations and clears) | 2, in `video_service_key_frame` 0 | a rotation and back, a clear and a reopened id sequence, or one of each. Frames of an unchanged size are unbounded. |
| `Conns` of the server | 2 | either may replace the other, while it is being replaced itself. Chains of three and more are covered by the proofs of the safety properties. |
| `Peers`, `MaxLogins` | 1 and 2 | a second login is the one that must not count as its own predecessor, and lets two connections replace each other. Logins under several ids are covered by the proofs. |
| `Loops` | 2 | the current io_loop and one that has been superseded, by a reconnect or by another session. The first reconnect of a session sends no Close, so only with a third io_loop can one be sent wrongly within a session; `CloseHitsOldOnly` is proved for any number. |
| `Servers` | 2 | server threads of two starts, overlapping or one after the other; a third start is disabled |
| `Hosts` | 1 | a mediator is taken along by the other thread's as it would be by one of another host. `OneLateRound` is proved for any number of threads and hosts. |
| `MaxGen` of `BridgeSession` (starts and closes) | 2 | a start followed by a close, or by another start |
| `Hosts`, `Taken` of `Registration` | 2 servers, the first id taken at one, the second at the other | both demand a new id, in either order or at once; the third id is good everywhere |
| `MaxId` | 4 | with two faults the id changes at most four times, so `NewId` is never cut off |
| `MaxFaults` of `Registration` | 2 | a fault and another one in the course of its repair |
| `MaxStarts`, `MaxGen`, `MaxLate` of `FileSession` | 2, 4, 1 | a file session opened, closed by a start or a close, opened again at the other peer and closed again, with one late update of the remote-control session |
| `NumFiles`, `Size` | 2 files of 1 block and 2 blocks; 1 file in `file_transfer_first` | a file before and one after the current; a partial file of one block is the whole of the first and a proper prefix of the second; a file that cannot be opened has another block, which goes to the file before it. The safety properties are proved for any number and any sizes. |
| `MaxJobs` | 2; 3 in `file_transfer_resume`, 1 in `file_transfer_first` | a job that leaves something behind and one that resumes it or begins anew. The safety properties are proved for any number. |
| `MaxFaults` of `FileTransfer` | 1, or 0 in the violated runs | any one system call of any handler fails, in either job; losses and crashes are bounded by `MaxJobs` only. Several failures, also of one handler, are covered by the proofs. |

Bounds whose names begin with `Max` only cut off behaviours: an action that
would exceed one is disabled. No run uses symmetry: all
passing ones check temporal properties.

### Fairness

- *VideoService.* The service thread is a plain loop that never waits without a
  timeout: `WF_vars(Thread)`. Opening the encoder and encoding may fail, but not
  for ever (`SF_vars(OpenEncoder)`, `SF_vars(send_video_frame)`). The screen
  keeps changing (`ScreenChanges`): this is an assumption about the app. Without
  it the code promises a newcomer nothing, as `PROJECT.json` notes under hazards:
  the subscriber sets are looked at only when an unseen frame arrives. `JoinReturns`
  does not depend on viewers leaving; the program itself never drops its `Server`,
  so the property is about the loops' look at the flag, not about a shutdown.
- *IncomingServer.* The runtime polls every task (`WF_vars(Proceed(c))`). `select!`
  chooses at random between ready branches, so a queued close reason is not
  passed over for ever (`SF_vars(DeliverCloseNotice(c))`). The mutex of
  `PEER_CONNS` is not starved (`SF_vars(CleanPeer(c))`). Starting connections,
  logging in and leaving are the peers' business and get no fairness.
- *BridgeSession.* A command that has begun is finished
  (`WF_vars(Continue)`). An io_loop that is not logged in goes on: connecting has
  timeouts, and a peer that does not answer is given up after 30 seconds. After
  the login it may stay as it is. That the peer answers the login or falls silent
  is an assumption: one that keeps sending other messages and never answers is not
  covered. Close is taken from the channel even if messages
  keep the loop busy (`SF_vars(ReceiveClose(l))`, again `select!`).
- *IncomingControl.* A command that has begun is finished (`WF_vars(Continue)`),
  server threads, listeners and mediators are scheduled. Hosts owe nothing: a
  failure is always possible, and `KeepsRegistering` says what it assumes of them
  in its own premise.

- *Registration.* Timers tick, mediators take their datagrams, handlers go on, and
  servers that are up answer. That is enough since faults are bounded: after
  the last one nothing is lost. Deployment owes nothing; the properties say "knows
  the device" in their premise.
- *FileSession.* A command that has begun is finished. Before its login a file
  session goes on, as connecting and a silent peer time out; afterwards only its
  channel is sure to be read (`Forward`, `ReceiveClose`).
- *FileTransfer.* The reading end's timer ticks while it has jobs, and both ends take
  their messages. The user owes no answer, and the network no disconnect.

## 4. Proofs

TLAPS proves, for all values of the constants that satisfy the modules' `ASSUME`s:

| module | theorem | property |
|---|---|---|
| `VideoServiceProofs` | `TypeCorrect`, `StreamAgreementHolds`, `JoinRestartsHolds`, `ImplementsViewers` | type correctness, `StreamAgreement`, `JoinRestarts`, `ImplementsViewerSet` |
| `IncomingServerProofs` | `TypeCorrect`, `NoLeakHolds`, `NewestLoginOwnsPeerHolds`, `UnlistedHasRivalHolds`, `ImplementsViewers` | type correctness, `NoLeak`, `NewestLoginOwnsPeer`, `UnlistedHasRival`, `ConnectionsAreViewers` |
| `IncomingControlProofs` | `TypeCorrect`, `OneLateRoundHolds` | type correctness, `OneLateRound` |
| `RegistrationProofs` | `TypeCorrect`, `NewIdIsUnconfirmed` | type correctness with the mutual exclusion of `SOLVING_PK_MISMATCH`, `NewIdUnconfirmed` |
| `FileSessionProofs` | `TypeCorrect`, `PasswordGoesToItsPeer`, `DirectoriesGoToTheirPeer`, `EventsNameTheirPeer`, `AtMostOneLateEvent` | type correctness, `PasswordOfPeer`, `DirectoriesOfPeer`, `EventsNamePeer`, `OneLateEvent` |
| `FileTransferProofs` | `TypeCorrect` | type correctness |
| `FileTransferSafetyProofs` | `PartsAlwaysPrefixes`, `DoneAlwaysDelivers`, `AlwaysRenamesWholeFiles`, `AlwaysOverwritesWithConsent`, `JobsNeverStuck`, `PeersNotLeftBehind` | `PartsArePrefixes`, `DoneDelivers`, `RenamesWholeFiles`, `OverwriteNeedsConsent`; the last two: see below |
| `BridgeSessionProofs` | `TypeCorrect`, `CloseHitsOldOnlyHolds`, `DisconnectedHasEndedHolds`, `OneLateUpdateHolds` | type correctness, `CloseHitsOldOnly`, `DisconnectedHasEnded`, `OneLateUpdate` |

The assumptions are few. VideoService: sizes are pairs of natural numbers, the
empty cache is none of them. IncomingServer and BridgeSession: `None` is no
connection or thread. Registration: `None` is no server, the ids
taken are natural numbers. FileTransfer: there is at least one file, sizes and file
numbers are natural numbers, `NoFile` is no contents. The bounds are natural numbers.
IncomingControl assumes nothing.

**VideoService.** `StreamAgreement` is not inductive. The swap that keeps the encoder
is safe because the active set was seen empty and *only the service thread fills
it* (`KeepOnlyWhenEmpty`), and because whoever waits has received nothing of this
encoder (`OutsidersSawNothing`), which in turn needs the two sets to be disjoint
from each other and from those who left (`SetsDisjoint`). `JoinRestarts` and the
refinement follow from the same invariant. That argument also shows the gap behind
finding 1: "received nothing" is the same for all of them, but the encoder's key frame may
be gone.

**IncomingServer.** `NoLeak` speaks of ended connections. The invariant says which
table each step of the cleanup has emptied (`AliveIsListed`, `OwnersAreRunning`,
`TablesHoldRunning`), and that no other task puts the connection back: logins
and registrations enter only the task's own id. `NewestLoginOwnsPeer` adds that
idle connections have not logged in. `UnlistedHasRival` needs to know that an
owner of a peer id has logged in under it, and hence that a connection being
replaced shares an id with its replacement (`RivalInv`).

**BridgeSession.** `Frame` says what the UI thread may rely on in the middle of a
command (`UiAgrees`: the new generation has no session and no thread yet), that no
thread belongs to a generation to come (`Numbered`) and that a session's channel is
that of one of its own threads (`SenderIsOwn`). `RoundsOrdered` adds that each
io_loop has a round of its own, none above the session's. Close goes to a thread of
the active session just before a new round begins or after a new generation has
begun; hence `CloseHitsOldOnly`. `DisconnectedHasEnded` holds because a round marks
the session disconnected only if it is the newest, and only one io_loop has that
round. `OneLateUpdate` follows from `LateAreDone`: a thread that has been late is in
no callback, and its next look at the generation fails.

**IncomingControl.** `OneLateRound` needs one conjunct more (`LateRoundsArePast`):
a thread that has begun a round in spite of the stop is past the reset of
`SHOULD_EXIT` as long as the stop lasts, since its next look at the option sends
it offline.

**Registration.** The two invariants are inductive together: while a mediator makes
a new id it holds `SOLVING_PK_MISMATCH`, so no other is between `Solve` and `NewId`,
and the key was set unconfirmed when it entered; only an OK of another host can
have confirmed it since, and that host's handler then still waits for the lock.

**FileSession.** Everything rests on the newest generation having no thread while the
UI thread is in the middle of a command (`Fresh`): so a session in place sees
neither the peer id nor the pending directory of another one (`InPlace`), and the
commands find a session of the remote-control session in place (`Current`).
`UiInv` says what holds between the steps of a command, `Callbacks` what a callback
has read: a peer id read before a look at the generation that succeeded is that
of the session's peer. What late updates spoil is stated, not assumed away: a callback of
an earlier remote-control session that writes its peer id late makes file sessions opened
afterwards, until the next start or close, connect to that earlier peer with the password
of this one (`PasswordOfPeer`), and events carry that id (`EventsNamePeer`). `lateIn`
remembers the remote-control sessions this has happened in; the theorems say that
file sessions of all others are right. In the same way a `close_success` whose session has
been closed since it began sends its directory to whichever session it finds; no other
step asks a peer for another one's directory (`DirectoriesOfPeer`).

**FileTransfer.** Types need one fact that is no type: the file of a handle is there, as
its `.download` or under its final name (`OpenIsThere`). The safety properties compare the reading
end, which decides what is sent, with the disk at the other end, which it never sees;
everything under way lies between. `SafetyInv` bridges the gap one message at a time:

- each message says where the reading end stood after it, at the beginning of a file
  (`Boundary`) or k blocks into it (`Midway`), and what the next one may be is a matter of
  the two (`QueueW`); the reading end itself stands where the last message says (`ReaderAt`);
- the writer and the disk stand where the first message requires (`WriterAt`): all files
  before are written (`Between`) or the `.download` is the prefix of k blocks (`At`). When
  no message is under way the two meet (`Before0`). Taking a message then only moves the
  argument from one message to the next (`WriterNext`). A handle that is not the current
  file's was left behind by a failed open, and both files are spoiled (`Strays`), so what
  goes through it can harm no other;
- at most one question is open at a time: a digest, its answer or the dialog
  (`Question`), always about the reader's file, so an answer is never taken for that of
  another file; and `Beginning` says how a job starts and waits for `ResumeJob`;
- a `.download` the job did not find there belongs to the file that is open, or to one that
  could not be renamed or removed (`Parts`), and
  whatever is written, or answered for, has been agreed to (`Agreed`);
- a file the reading end has left behind is settled, or has a block under way, or is the
  one the writer still has open (`Delivered`), unless an error is.

`PartsArePrefixes` and `DoneDelivers` are conjuncts. For the action properties,
`ContentsChange` shows that a name changes in one of two ways. Either the writing end
finishes its file (`Finishes`), by the first block of another file or by Done, when the
reading end has left the file behind: then the `.download` is the whole source, older than
the job or spoiled; and the file is one the writer has opened with consent, one it was not
told to skip, or the one the block is for. Or a block is written through a handle whose
file has its final name by then (`Trails`), and that file is spoiled. The proofs also show
what each exception is for: `spoiled` enters where a call fails or an offset is ignored
(finding 4), `untold` where the writer of an upload takes a kept file for its current one,
`stale` where that file has an older `.download`. `SafetyInv` was first checked with TLC on
the instance of `file_transfer` and on others with four failures in one job, two in two
jobs, a third file, and with `FirstFile` 1.

Two theorems carry what of `JobEndsOrAsks` and `PeerJobEnds` is safety, for every
instance. `JobsNeverStuck`: a running job has a message to take or a tick to make,
unless the user is asked or a digest went unanswered. `PeersNotLeftBehind`: while nothing
fails, a job that the controlling end has dropped is about to be ended at the other end.
Both follow from `GoesOn`, inductive on top of `SafetyInv`: whoever waits is owed a
message that is under way. It is tight where the code is: a writer that is gone when a
digest arrives is no deadlock only because its error is then on the way back
(`Attended`), no cancel is taken before the send it is for (`SendFirst`), and the other end hears of everything only while nothing fails
(`ErrorsAreFaults`). That the system makes these steps is fairness and is left to TLC, as are
the two liveness properties; `GoesOn`, `NeverStuck` and `NotLeftBehind` were checked with
TLC on the same instances before they were proved.

`JoinRestarts` of `VideoService` (a newcomer is moved into a stream others watch only
by a step that abandons the encoder) is proved and not run: `StreamAgreement`
shows the same on the instance.

Only model-checked: everything under fairness (`ViewerServed`, `JoinReturns`,
`DeadPeerIsCleanedUp`, `ReplacedConnectionEnds`, `AttemptAnswered`,
`ClosedLoopEnds`, `StopSilences`, `ListenerCloses`, `KeepsRegistering`,
`StaysRegistered`, `ConfirmationsSettle`, `FirstDirectoryRead`, `JobEndsOrAsks`,
`PeerJobEnds`), since liveness is out of the prover's reach. Every safety property that
a run finds to hold is also proved, and so is the refinement of `ViewerSet`.

## 5. Findings

Each is a disagreement between the code and what a comment or document of the
repository says of it, with the run that shows it.

1. **A newcomer may get no key frame** (`KeyFrameFirst`). `handle_one_frame` says
   it restarts the encoder for whoever joins an existing stream. If the last
   viewer leaves while a newcomer waits, the loop goes on for the newcomer, the
   active set is empty, the encoder is kept, and the newcomer gets delta frames.
2. **Late callbacks are not ignored** (`OnlyCurrentUpdates`). `docs/CORE.md` says
   only the current generation updates state or frame. The look at the generation
   and the update are separate; a close or start in between is overwritten. The
   damage is bounded by `OneLateUpdate`.
3. **A stop may be taken back** (`StopIsFinal`). `main_start_service(false)` answers
   "Incoming service stopped". A server thread that looked at `stop-service` just
   before resets `SHOULD_EXIT` just after, and its mediators register on until one
   of them fails or something else sets the flag. `OneLateRound` bounds it to one
   round per server thread; `StopSilences` says that nothing else survives a stop.

4. **A resumed job may deliver the tail of a file** (`ResumeDelivers`). A comment in
   `TransferJob::confirm` says ignoring an answer for another file is fine, as the
   writing end confirms only to resume. When a job restored at one file finds a
   `.download` of a later one, the writing end has offered its length as the offset
   and then ignores it; the reading end starts there, the writer truncates the
   `.download` and gets the rest only. It is renamed with the source's mtime and the
   job reported done. `DoneDelivers` and `PartsArePrefixes` hold otherwise.
5. **`session_send_files` leaves out the first file** (`SendFilesDelivers`). It passes 1
   as the number of the file to begin with, where the other user interfaces pass 0.
   A job of a single file is done before anything was sent.

Two comments of `Session::reconnect` are not true of the code either, as the model of
`BridgeSession` lets one see, without a run of their own. A connecting session is
said to be sent Close, but `session_start` does not store its thread handle, so the
first reconnect sends none. The previous thread is said not to change important
states, but it has the current generation, and its error overwrites the stage of
the new round.

## 6. What is not modelled, and the plan

Left out for good: the C ABI and NAPI layers (argument conversion), platform
stubs, configuration storage, code for other platforms, build files. Password
comparison is sequential and keeps no state.

The order of work, the most important behaviour first:

1. Done: `VideoService`, `IncomingServer`, `ViewerSet`, `BridgeSession`; their safety
   properties proved.
2. Done: `IncomingControl`, `Registration`, `FileSession`, `FileTransfer`, with the
   theorems of section 4. Left: an abstract specification of a service that is on
   or off, which `IncomingControl` implements but for the late round; of a file that is
   old, partial or new, which `FileTransfer` implements but for finding 4. `SafetyInv`
   has what the proof of the second one needs.
3. `FrameCache`: the core's cache of the incoming screen and the scrap cache it
   feeds, with the capturer's id comparison in full; abstract specification: the
   newest frame is seen once.
4. `EventQueue` and the connection marks (`mark_session_connected`,
   `mark_session_error`): which events a full queue drops and what the app may
   conclude from those it pulls. An order-preserving bounded queue as abstract
   specification, with the folds of the community modules rather than recursion.
5. Several file jobs at a time (the head of the queue holds up the others, and two jobs
   begun in one millisecond share an id, since `next_bridge_job_id` is the time), and
   removing directories with `remove_jobs`.
6. Punch hole and relay requests of a mediator, with the duplicate test that reads and
   writes `LAST_MSG` under two locks.
7. A composition of `IncomingServer` with `VideoService` through `ViewerSet`, and of
   `FileSession` with `BridgeSession`, whose late updates are an assumption of it now.
