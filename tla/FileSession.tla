----------------------------- MODULE FileSession -----------------------------
(***************************************************************************)
(* The second connection of the controller side, for files and folders:    *)
(* session_read_remote_dir opens it beside the remote-control session, with *)
(* that session's peer and password, and the directory it was asked for    *)
(* waits in pending_remote_directory until the peer has let it in;         *)
(* session_start and session_close close it (harmony_bridge/core.rs).      *)
(*                                                                         *)
(* The commands run on the UI thread, the callbacks on the thread of each  *)
(* file session, and every global has a lock of its own.  A file session   *)
(* is known by its FILE_TRANSFER_SESSION_GENERATION, a remote-control      *)
(* session by its number, which also stands for its peer, the peer's id    *)
(* and password and the directories asked for there; 0 is none of these,   *)
(* Blank the empty path.                                                   *)
(*                                                                         *)
(* An operator named after another one with a suffix is a slip the code    *)
(* could have made there, and no part of the model.                        *)
(***************************************************************************)
EXTENDS Naturals

CONSTANTS
  MaxStarts,  \* bound: session_starts
  MaxGen,     \* bound: openings and closings of the file session
  MaxLate     \* bound: late updates by threads of the remote-control session

ASSUME BoundAssumption == MaxStarts \in Nat /\ MaxGen \in Nat /\ MaxLate \in Nat

Peers == 0 .. MaxStarts
Gens == 1 .. MaxGen
Blank == MaxStarts + 1
Dirs == Peers \union {Blank}

VARIABLES
  starts,      \* the number of the newest remote-control session
  active,      \* ACTIVE_SESSION is there
  peerId,      \* ConnectState.active_peer_id
  password,    \* active_session_password
  generation,  \* FILE_TRANSFER_SESSION_GENERATION
  current,     \* FILE_TRANSFER_SESSION
  pending,     \* pending_remote_directory
  ui,          \* where the UI thread is
  command,     \* the command that closes the file session
  uiPeer,      \* the peer id session_read_remote_dir has read
  peer, pw,    \* whom a file session connects to, with whose password
  pc,          \* where its thread is
  then,        \* and where a callback returns to
  cbPeer,      \* the peer id a callback has read
  taken,       \* the directory close_success has taken
  closing,     \* Data::Close is in its channel
  asked,       \* the directories in its channel
  toPeer,      \* the directories its peer is to list
  answered,    \* history: sessions that got a directory to their peer or an event out
  lateEvent,   \* history: closed sessions that queued an event
  late,        \* history: number of late updates of the peer id
  lateIn,      \* history: the remote-control sessions in which they came
  stolen       \* history: the generations whose directory a closed session has taken

app      == <<starts, active, peerId, password>>
slot     == <<generation, current>>
uiVars   == <<ui, command, uiPeer>>
ident    == <<peer, pw>>
thread   == <<pc, then, cbPeer, taken>>
channel  == <<closing, asked, toPeer>>
history  == <<answered, lateEvent, late, lateIn, stolen>>
vars == <<app, slot, pending, uiVars, ident, thread, channel, history>>

UiLocation == {"ready", "closeSend", "closeDrop", "closePending", "startState",
               "closeState", "readBump", "readSpawn"}
Live == {"live", "prompted"}
Location == Live \union {"none", "spawned", "starting", "peer", "check", "queue",
             "take", "send", "authed", "ended"}

Init ==
  /\ starts = 0 /\ active = FALSE /\ peerId = 0 /\ password = 0
  /\ generation = 0 /\ current = 0 /\ pending = 0
  /\ ui = "ready" /\ command = "none" /\ uiPeer = 0
  /\ peer = [g \in Gens |-> 0] /\ pw = [g \in Gens |-> 0]
  /\ pc = [g \in Gens |-> "none"] /\ then = [g \in Gens |-> "none"]
  /\ cbPeer = [g \in Gens |-> 0] /\ taken = [g \in Gens |-> 0]
  /\ closing = {} /\ asked = [g \in Gens |-> {}] /\ toPeer = [g \in Gens |-> {}]
  /\ answered = {} /\ lateEvent = {}
  /\ late = 0 /\ lateIn = {} /\ stolen = {}

-----------------------------------------------------------------------------
(* Helpers.                                                                *)

Goto(g, p) == pc' = [pc EXCEPT ![g] = p]

UiGoto(p) == ui' = p /\ UNCHANGED <<command, uiPeer>>

\* Session::send reaches a thread that has installed its channel and not ended.
Reachable(g) == pc[g] \notin {"none", "spawned", "ended"}

\* Session::read_remote_dir, lost if nobody receives
Read(g, d) == asked' = [asked EXCEPT ![g] = IF Reachable(g) THEN @ \union {d} ELSE @]

\* Slip: no look at the generation.
is_current_Always(g) == TRUE

is_current(g) == g = generation

\* What a callback does first: nothing if the session is closed.
Callback(g, p, q) ==
  /\ Goto(g, IF is_current(g) THEN "peer" ELSE q)
  /\ then' = [then EXCEPT ![g] = IF is_current(g) THEN p ELSE @]
  /\ UNCHANGED <<cbPeer, taken>>

-----------------------------------------------------------------------------
(* session_start and session_close                                         *)

Begin(c) ==
  /\ ui = "ready" /\ ui' = "closeSend" /\ command' = c
  /\ UNCHANGED <<app, current, pending, uiPeer, ident, thread, channel, history>>

\* Slip: the file session is dropped without a new generation.
CloseBump_Omitted(c) == Begin(c) /\ UNCHANGED generation

\* close_file_transfer_session, the first thing of both but for counters of their own
CloseBump(c) ==
  /\ Begin(c)
  /\ generation < MaxGen /\ (c = "start" => starts < MaxStarts)
  /\ generation' = generation + 1

CloseSend ==
  /\ ui = "closeSend"
  /\ UiGoto("closeDrop")
  /\ closing' = closing \union {g \in Gens : g = current /\ Reachable(g)}
  /\ UNCHANGED <<app, slot, pending, ident, thread, asked, toPeer, history>>

\* Slip: the session stays in its place.
CloseDrop_Kept ==
  /\ ui = "closeDrop"
  /\ UiGoto("closePending")
  /\ UNCHANGED <<app, slot, pending, ident, thread, channel, history>>

CloseDrop ==
  /\ ui = "closeDrop"
  /\ UiGoto("closePending")
  /\ current' = 0
  /\ UNCHANGED <<app, generation, pending, ident, thread, channel, history>>

ClosePending ==
  /\ ui = "closePending"
  /\ UiGoto(IF command = "start" THEN "startState" ELSE "closeState")
  /\ pending' = 0
  /\ UNCHANGED <<app, slot, ident, thread, channel, history>>

\* Slip: the password of the session before is kept.
StartState_PasswordKept ==
  /\ ui = "startState"
  /\ UiGoto("ready")
  /\ starts' = starts + 1
  /\ UNCHANGED password /\ peerId' = starts' /\ active' = TRUE
  /\ UNCHANGED <<slot, pending, ident, thread, channel, history>>

\* The rest of session_start: the UI thread alone reads the other globals.
StartState ==
  /\ ui = "startState"
  /\ UiGoto("ready")
  /\ starts' = starts + 1
  /\ password' = starts' /\ peerId' = starts' /\ active' = TRUE
  /\ UNCHANGED <<slot, pending, ident, thread, channel, history>>

\* The rest of session_close.
CloseState ==
  /\ ui = "closeState"
  /\ UiGoto("ready")
  /\ password' = 0 /\ peerId' = 0 /\ active' = FALSE
  /\ UNCHANGED <<starts, slot, pending, ident, thread, channel, history>>

\* A callback of a remote-control session that has been closed writes the peer id it read.
LateUpdate ==
  /\ starts > 0 /\ late < MaxLate /\ late' = late + 1
  /\ lateIn' = lateIn \union {starts}
  /\ \E p \in 0 .. starts : peerId' = p
  /\ UNCHANGED <<starts, active, password, slot, pending, uiVars, ident, thread, channel,
                 answered, lateEvent, stolen>>

-----------------------------------------------------------------------------
(* session_read_remote_dir                                                 *)

\* The file session is there: the other commands for files send in the same way.
ReadMore ==
  /\ ui = "ready" /\ current # 0
  /\ Read(current, starts)
  /\ UNCHANGED <<app, slot, pending, uiVars, ident, thread, closing, toPeer, history>>

\* start_file_transfer_session
ReadBegin ==
  /\ ui = "ready" /\ current = 0 /\ peerId # 0 /\ active
  /\ generation < MaxGen
  /\ uiPeer' = peerId
  /\ pending' \in {starts, Blank}
  /\ ui' = "readBump"
  /\ UNCHANGED <<app, slot, command, ident, thread, channel, history>>

ReadBump ==
  /\ ui = "readBump"
  /\ generation' = generation + 1
  /\ UiGoto("readSpawn")
  /\ UNCHANGED <<app, current, pending, ident, thread, channel, history>>

\* Slip: one is added to the new generation once more.
ReadSpawn_OneMore ==
  LET g == generation + 1 IN
    /\ ui = "readSpawn"
    /\ peer' = [peer EXCEPT ![g] = uiPeer]
    /\ pw' = [pw EXCEPT ![g] = password]
    /\ current' = g
    /\ Goto(g, "spawned")
    /\ ui' = "ready" /\ uiPeer' = 0
    /\ UNCHANGED <<app, generation, pending, command, then, cbPeer, taken, channel, history>>

ReadSpawn ==
  /\ ui = "readSpawn"
  /\ peer' = [peer EXCEPT ![generation] = uiPeer]
  /\ pw' = [pw EXCEPT ![generation] = password]
  /\ current' = generation
  /\ Goto(generation, "spawned")
  /\ ui' = "ready" /\ uiPeer' = 0
  /\ UNCHANGED <<app, generation, pending, command, then, cbPeer, taken, channel, history>>

-----------------------------------------------------------------------------
(* io_loop of a file session                                               *)

InstallSender(g) ==
  /\ pc[g] = "spawned" /\ Goto(g, "starting")
  /\ UNCHANGED <<app, slot, pending, uiVars, ident, then, cbPeer, taken, channel, history>>

\* Client::start succeeds: set_connection_type
Connected(g) ==
  /\ pc[g] = "starting" /\ Callback(g, "live", "live")
  /\ UNCHANGED <<app, slot, pending, uiVars, ident, channel, history>>

\* msgbox: Client::start fails, or the connection is reset or silent
Fails(g) ==
  /\ pc[g] \in Live \union {"starting", "authed"} /\ Callback(g, "ended", "ended")
  /\ UNCHANGED <<app, slot, pending, uiVars, ident, channel, history>>

\* msgbox: the peer asks for a password, or has no user to log in
Refused(g) ==
  /\ pc[g] \in Live /\ Callback(g, "prompted", "prompted")
  /\ UNCHANGED <<app, slot, pending, uiVars, ident, channel, history>>

\* Slip: the peer's welcome is only reported.
Accepted_ReportOnly(g) ==
  /\ pc[g] \in Live /\ Callback(g, "authed", "authed")
  /\ UNCHANGED <<app, slot, pending, uiVars, ident, channel, history>>

\* handle_peer_info: close_success and on_connected
Accepted(g) ==
  /\ pc[g] \in Live /\ Callback(g, "take", "authed")
  /\ UNCHANGED <<app, slot, pending, uiVars, ident, channel, history>>

\* close_success takes the pending directory
Take(g) ==
  /\ pc[g] = "take" /\ Goto(g, "send")
  /\ taken' = [taken EXCEPT ![g] = pending]
  /\ pending' = 0
  /\ stolen' = IF pending # 0 /\ g # generation THEN stolen \union {generation} ELSE stolen
  /\ UNCHANGED <<app, slot, uiVars, ident, then, cbPeer, channel, answered, lateEvent, late,
                 lateIn>>

\* and asks the session that is there for it, whosever it is by now, unless the path is
\* empty; on_connected follows.
SendTaken(g) ==
  /\ pc[g] = "send"
  /\ IF taken[g] \notin {0, Blank} /\ current # 0 THEN Read(current, taken[g]) ELSE UNCHANGED asked
  /\ Goto(g, IF is_current(g) THEN "peer" ELSE "authed")
  /\ then' = [then EXCEPT ![g] = "authed"]
  /\ taken' = [taken EXCEPT ![g] = 0]
  /\ UNCHANGED <<app, slot, pending, uiVars, ident, cbPeer, closing, toPeer, history>>

\* Data::Message goes to the peer, who answers once it has let the session in.
Forward(g) ==
  /\ pc[g] \in Live \union {"authed"}
  /\ \E d \in asked[g] :
       /\ asked' = [asked EXCEPT ![g] = @ \ {d}]
       /\ toPeer' = [toPeer EXCEPT ![g] = IF pc[g] = "authed" THEN @ \union {d} ELSE @]
       /\ answered' = IF pc[g] = "authed" THEN answered \union {g} ELSE answered
  /\ UNCHANGED <<app, slot, pending, uiVars, ident, thread, closing, lateEvent, late,
                 lateIn, stolen>>

\* update_folder_files
Listed(g) ==
  /\ pc[g] = "authed"
  /\ \E d \in toPeer[g] : toPeer' = [toPeer EXCEPT ![g] = @ \ {d}]
  /\ Goto(g, "peer") /\ then' = [then EXCEPT ![g] = "authed"]
  /\ UNCHANGED <<app, slot, pending, uiVars, ident, cbPeer, taken, closing, asked, history>>

ReceiveClose(g) ==
  /\ pc[g] \in Live \union {"authed"} /\ g \in closing
  /\ Goto(g, "ended")
  /\ UNCHANGED <<app, slot, pending, uiVars, ident, then, cbPeer, taken, channel, history>>

-----------------------------------------------------------------------------
(* HarmonyHandler::queue_event: the argument get_active_peer_id(), the     *)
(* look at the generation, the event.                                      *)

ReadPeer(g) ==
  /\ pc[g] = "peer" /\ Goto(g, "check")
  /\ cbPeer' = [cbPeer EXCEPT ![g] = peerId]
  /\ UNCHANGED <<app, slot, pending, uiVars, ident, then, taken, channel, history>>

\* The callback is over and its locals gone.
Return(g) ==
  /\ Goto(g, then[g])
  /\ then' = [then EXCEPT ![g] = "none"] /\ cbPeer' = [cbPeer EXCEPT ![g] = 0]

Check(g) ==
  /\ pc[g] = "check"
  /\ IF is_current(g) THEN Goto(g, "queue") /\ UNCHANGED <<then, cbPeer>> ELSE Return(g)
  /\ UNCHANGED <<app, slot, pending, uiVars, ident, taken, channel, history>>

queue_event(g) ==
  /\ pc[g] = "queue" /\ Return(g)
  /\ answered' = IF then[g] \in {"ended", "prompted"} THEN answered \union {g} ELSE answered
  /\ lateEvent' = IF g = generation THEN lateEvent ELSE lateEvent \union {g}
  /\ UNCHANGED <<app, slot, pending, uiVars, ident, taken, channel, late, lateIn, stolen>>

-----------------------------------------------------------------------------
Continue ==
  CloseSend \/ CloseDrop \/ ClosePending \/ StartState \/ CloseState \/ ReadBump \/ ReadSpawn

Command == CloseBump("start") \/ CloseBump("close") \/ ReadBegin \/ ReadMore

Loop(g) ==
  \/ InstallSender(g) \/ Connected(g) \/ Fails(g) \/ Refused(g) \/ Accepted(g)
  \/ Take(g) \/ SendTaken(g) \/ ReadPeer(g) \/ Check(g) \/ queue_event(g)

Next ==
  \/ Command \/ Continue \/ LateUpdate
  \/ \E g \in Gens : Loop(g) \/ Forward(g) \/ Listed(g) \/ ReceiveClose(g)

Spec == Init /\ [][Next]_vars

\* Commands that have begun and threads go on.  Before its login a session's Client::start
\* and its silent peer time out; after it, only its channel is certain to be read.
FairSpec ==
  /\ Spec /\ WF_vars(Continue)
  /\ \A g \in Gens :
       /\ WF_vars(pc[g] # "authed" /\ Loop(g))
       /\ WF_vars(Forward(g) \/ ReceiveClose(g))

-----------------------------------------------------------------------------
(* Properties.                                                             *)

\* The globals, the threads' locals and the channels keep their types.
TypeOK ==
  /\ starts \in Peers /\ active \in BOOLEAN /\ peerId \in Peers /\ password \in Peers
  /\ generation \in 0 .. MaxGen /\ current \in 0 .. generation /\ pending \in Dirs
  /\ ui \in UiLocation /\ command \in {"none", "start", "close"} /\ uiPeer \in Peers
  /\ peer \in [Gens -> Peers] /\ pw \in [Gens -> Peers]
  /\ pc \in [Gens -> Location] /\ then \in [Gens -> Location]
  /\ cbPeer \in [Gens -> Peers] /\ taken \in [Gens -> Dirs]
  /\ closing \subseteq Gens
  /\ asked \in [Gens -> SUBSET Peers] /\ toPeer \in [Gens -> SUBSET Peers]
  /\ answered \subseteq Gens /\ lateEvent \subseteq Gens
  /\ late \in Nat /\ lateIn \subseteq Peers /\ stolen \subseteq 0 .. MaxGen

\* start_file_transfer_session reads the peer id and, under another lock, the password.  The
\* two belong together, unless a callback of an earlier remote-control session has written a
\* peer id while this one was on: then the password of this session goes to an earlier peer.
\* Late updates in other sessions do no harm, and no peer is given an earlier one's password.
PasswordOfPeer ==
  \A g \in Gens : peer[g] # pw[g] => pw[g] \in lateIn /\ peer[g] < pw[g]

\* A peer is asked only for directories that were asked for at it, although
\* pending_remote_directory and the session that is there are one for all threads.  The
\* exception is a close_success whose session has been closed since it began: it sends what
\* it has taken to whichever session it finds.
DirectoriesOfPeer ==
  [][\A g \in Gens : \/ asked'[g] \subseteq asked[g] \union {pw[g]}
                     \/ \E h \in Gens \ {generation} : SendTaken(h)]_vars

\* The app tells listings and errors apart by the event's peer id, which every callback reads
\* from the global state: it is that of the peer the event came from, also if the session is
\* closed and another started meanwhile, unless a late update fell into the very
\* remote-control session that the file session belongs to.
EventsNamePeer ==
  [][\A g \in Gens : queue_event(g) /\ pw[g] \notin lateIn => cbPeer[g] = peer[g]]_vars

\* A file session that has been closed gets one more event out at most.
OneLateEvent ==
  [][\A g \in Gens : queue_event(g) /\ g # generation => g \notin lateEvent]_vars

\* The directory for which a file session was opened, if its path is not empty, is asked of
\* the peer, by close_success or by the app asking once more, or an error is reported, or the
\* session is closed.  Excepted is the one session whose directory has been taken by the
\* close_success of an older, closed one.
FirstDirectoryRead ==
  \A g \in Gens :
    (current = g /\ pc[g] = "spawned" /\ pending \notin {0, Blank})
      ~> (current # g \/ g \in answered \/ g \in stolen)
=============================================================================
