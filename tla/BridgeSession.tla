---------------------------- MODULE BridgeSession ----------------------------
(***************************************************************************)
(* The controller side of the bridge: the session commands of the app's UI *)
(* thread (session_start, session_close, session_reconnect, session_login  *)
(* in harmony_bridge/core.rs), the io_loop threads they spawn (ui_session_ *)
(* interface.rs, client/io_loop.rs) with their video decoding threads, and *)
(* the callbacks by which these threads update the global state.           *)
(*                                                                         *)
(* Each global has a mutex of its own.  A callback looks at the generation *)
(* (is_current), then reads the peer id, then updates the state: three     *)
(* steps, between which the UI thread may do anything.                     *)
(*                                                                         *)
(* A session is known by its generation.                                   *)
(*                                                                         *)
(* As in VideoService, an operator named after another one with a suffix   *)
(* is a slip the code could have made there, and no part of the model.     *)
(***************************************************************************)
EXTENDS Naturals

CONSTANTS
  Loops,   \* io_loop threads, each spawned once, by a start or a reconnect
  None,
  MaxGen   \* bound: starts and closes

ASSUME NoneAssumption == None \notin Loops

ASSUME MaxGenAssumption == MaxGen \in Nat

Gens == 1..MaxGen

VARIABLES
  generation,      \* ACTIVE_SESSION_GENERATION
  active,          \* ACTIVE_SESSION: a generation, or 0
  stage,           \* ConnectState.session_stage ("idle" also for "")
  active_peer_id,  \* ConnectState.active_peer_id: whose peer, 0 is ""
  frame,           \* LATEST_VIDEO_FRAME: the io_loop it came from, or None
  ui,              \* where the UI thread is
  uiPeer,          \* the peer id a command has read
  sender,          \* Session.sender: the io_loop that receives, or None
  round, state,    \* Session.connection_round_state
  thread,          \* Session.thread.is_some()
  pc,              \* where an io_loop is
  gen, rnd,        \* its session and its round
  peer,            \* the peer id its callback has read
  closing,         \* Data::Close is in its channel
  video,           \* its video thread
  prompted,        \* history: a message box of the current attempt
  lateUpdate,      \* history: io_loops that updated the state, and video
  lateFrame        \* threads that published, for a stale generation

core    == <<active, stage, active_peer_id, frame>>
uiVars  == <<ui, uiPeer>>
session == <<sender, round, state, thread>>
ident   == <<gen, rnd>>
late    == <<lateUpdate, lateFrame>>
vars == <<generation, core, uiVars, session, ident, pc, peer, closing, video, prompted, late>>

UiLocation == {"ready", "startFrame", "startState", "startSpawn", "closeSend", "closeState",
               "reconnectState", "reconnect", "login"}
Writing  == {"readConnected", "writeConnected", "readError", "writeError",
             "readRefusal", "writeRefusal"}
Location == Writing \cup {"none", "spawned", "starting", "live", "authed", "ending", "ended"}

TypeOK ==
  /\ generation \in 0..MaxGen
  /\ active \in 0..MaxGen
  /\ stage \in {"idle", "connecting", "login", "connected", "error"}
  /\ active_peer_id \in 0..MaxGen
  /\ frame \in Loops \cup {None}
  /\ ui \in UiLocation
  /\ uiPeer \in 0..MaxGen
  /\ sender \in [Gens -> Loops \cup {None}]
  /\ round \in [Gens -> Nat]
  /\ state \in [Gens -> {"Connecting", "Connected", "Disconnected"}]
  /\ thread \in [Gens -> BOOLEAN]
  /\ pc \in [Loops -> Location]
  /\ gen \in [Loops -> 0..MaxGen]
  /\ rnd \in [Loops -> Nat]
  /\ peer \in [Loops -> 0..MaxGen]
  /\ closing \subseteq Loops
  /\ video \in [Loops -> {"off", "on", "publish"}]
  /\ prompted \in BOOLEAN
  /\ lateUpdate \subseteq Loops
  /\ lateFrame \subseteq Loops

Init ==
  /\ generation = 0
  /\ active = 0
  /\ stage = "idle"
  /\ active_peer_id = 0
  /\ frame = None
  /\ ui = "ready"
  /\ uiPeer = 0
  /\ sender = [g \in Gens |-> None]
  /\ round = [g \in Gens |-> 0]
  /\ state = [g \in Gens |-> "Connecting"]
  /\ thread = [g \in Gens |-> FALSE]
  /\ pc = [l \in Loops |-> "none"]
  /\ gen = [l \in Loops |-> 0]
  /\ rnd = [l \in Loops |-> 0]
  /\ peer = [l \in Loops |-> 0]
  /\ closing = {}
  /\ video = [l \in Loops |-> "off"]
  /\ prompted = FALSE
  /\ lateUpdate = {}
  /\ lateFrame = {}

-----------------------------------------------------------------------------
(* ConnectionRoundState and the session's channel.                         *)

new_round(g) ==
  /\ round' = [round EXCEPT ![g] = @ + 1]
  /\ state' = [state EXCEPT ![g] = "Connecting"]

set_connected(g) == state' = [state EXCEPT ![g] = "Connected"]

\* Slip: the round is not looked at.
set_disconnected_AnyRound(g, r) == state' = [state EXCEPT ![g] = "Disconnected"]

\* Does nothing for a round that another one has followed.
set_disconnected(g, r) ==
  state' = IF r < round[g] THEN state ELSE [state EXCEPT ![g] = "Disconnected"]

\* Slip: the channel is taken to be there.
Close_Unwrapped(g) == closing' = closing \cup {sender[g]}

\* Session::send of Data::Close: lost if no io_loop has installed a channel,
\* and without effect if the one that has is over.
Close(g) ==
  closing' = closing \cup {l \in Loops : l = sender[g] /\ pc[l] # "ended"}

\* A thread that has not been spawned yet.
Unused(l) == pc[l] = "none"

\* std::thread::spawn(io_loop(session, round))
Spawn(g, r) ==
  LET l == CHOOSE m \in Loops : Unused(m) IN
    /\ \E m \in Loops : Unused(m)
    /\ gen' = [gen EXCEPT ![l] = g]
    /\ rnd' = [rnd EXCEPT ![l] = r]
    /\ pc' = [pc EXCEPT ![l] = "spawned"]

update_connect_state(s, p) == stage' = s /\ active_peer_id' = p

-----------------------------------------------------------------------------
(* session_start.  It does not close the session it replaces.              *)

StartBump ==
  /\ ui = "ready"
  /\ generation < MaxGen /\ \E l \in Loops : Unused(l)
  /\ generation' = generation + 1
  /\ ui' = "startFrame"
  /\ UNCHANGED <<core, uiPeer, session, ident, pc, peer, closing, video, prompted, late>>

\* clear_connect_events and the frame
StartFrame ==
  /\ ui = "startFrame"
  /\ frame' = None
  /\ prompted' = FALSE
  /\ ui' = "startState"
  /\ UNCHANGED <<generation, active, stage, active_peer_id, uiPeer, session, ident, pc,
                 peer, closing, video, late>>

StartState ==
  /\ ui = "startState"
  /\ update_connect_state("connecting", generation)
  /\ ui' = "startSpawn"
  /\ UNCHANGED <<generation, active, frame, uiPeer, session, ident, pc, peer, closing,
                 video, prompted, late>>

StartSpawn ==
  /\ ui = "startSpawn"
  /\ new_round(generation)
  /\ active' = generation
  /\ Spawn(generation, round'[generation])
  /\ ui' = "ready"
  /\ UNCHANGED <<generation, stage, active_peer_id, frame, uiPeer, sender, thread, peer,
                 closing, video, prompted, late>>

-----------------------------------------------------------------------------
(* session_close                                                           *)

\* Slip: a close does not end the generation.
CloseBump_Omitted ==
  /\ ui = "ready"
  /\ ui' = "closeSend"
  /\ UNCHANGED <<generation, core, uiPeer, session, ident, pc, peer, closing, video,
                 prompted, late>>

CloseBump ==
  /\ ui = "ready"
  /\ generation < MaxGen
  /\ generation' = generation + 1
  /\ ui' = "closeSend"
  /\ UNCHANGED <<core, uiPeer, session, ident, pc, peer, closing, video, prompted, late>>

\* Send Data::Close, then drop ACTIVE_SESSION.
CloseSend ==
  /\ ui = "closeSend"
  /\ IF active = 0 THEN UNCHANGED closing ELSE Close(active)
  /\ active' = 0
  /\ ui' = "closeState"
  /\ UNCHANGED <<generation, stage, active_peer_id, frame, uiPeer, session, ident, pc,
                 peer, video, prompted, late>>

CloseState ==
  /\ ui = "closeState"
  /\ update_connect_state("idle", 0)
  /\ ui' = "ready"
  /\ UNCHANGED <<generation, active, frame, uiPeer, session, ident, pc, peer, closing,
                 video, prompted, late>>

-----------------------------------------------------------------------------
(* session_reconnect and Session::reconnect                                *)

ReconnectBegin ==
  /\ ui = "ready"
  /\ \E l \in Loops : Unused(l)
  /\ active # 0
  /\ active_peer_id # 0
  /\ uiPeer' = active_peer_id
  /\ frame' = None
  /\ ui' = "reconnectState"
  /\ UNCHANGED <<generation, active, stage, active_peer_id, session, ident, pc, peer,
                 closing, video, prompted, late>>

ReconnectState ==
  /\ ui = "reconnectState"
  /\ update_connect_state("connecting", uiPeer)
  /\ prompted' = FALSE
  /\ uiPeer' = 0
  /\ ui' = "reconnect"
  /\ UNCHANGED <<generation, active, frame, session, ident, pc, peer, closing,
                 video, late>>

\* Under the lock of connection_round_state: tell the old io_loop, unless
\* there is none or it is disconnected; then a new round and its thread.
Reconnect ==
  /\ ui = "reconnect"
  /\ IF thread[active] /\ state[active] # "Disconnected"
       THEN Close(active)
       ELSE UNCHANGED closing
  /\ new_round(active)
  /\ thread' = [thread EXCEPT ![active] = TRUE]
  /\ Spawn(active, round'[active])
  /\ ui' = "ready"
  /\ UNCHANGED <<generation, core, uiPeer, sender, peer, video, prompted, late>>

-----------------------------------------------------------------------------
(* session_login; the password goes to the peer.                           *)

LoginBegin ==
  /\ ui = "ready"
  /\ active_peer_id # 0
  /\ uiPeer' = active_peer_id
  /\ ui' = "login"
  /\ UNCHANGED <<generation, core, session, ident, pc, peer, closing, video, prompted, late>>

LoginState ==
  /\ ui = "login"
  /\ update_connect_state("login", uiPeer)
  /\ uiPeer' = 0
  /\ ui' = "ready"
  /\ UNCHANGED <<generation, active, frame, session, ident, pc, peer, closing,
                 video, prompted, late>>

-----------------------------------------------------------------------------
(* io_loop and Remote::io_loop                                             *)

Goto(l, p) == pc' = [pc EXCEPT ![l] = p]

\* Slip: no look at the generation.
is_current_Always(l) == TRUE

\* Slip: the handler keeps what fetch_add returned.
is_current_BeforeBump(l) == gen[l] - 1 = generation

\* HarmonyHandler::is_current
is_current(l) == gen[l] = generation

\* Where a callback goes from its look at the generation.
Callback(l, first, after) == Goto(l, IF is_current(l) THEN first ELSE after)

\* The new thread puts its own channel in the shared session.
InstallSender(l) ==
  /\ pc[l] = "spawned"
  /\ sender' = [sender EXCEPT ![gen[l]] = l]
  /\ Goto(l, "starting")
  /\ UNCHANGED <<generation, core, uiVars, round, state, thread, ident, peer, closing,
                 video, prompted, late>>

\* Client::start returns; nothing interrupts it.
Connected(l) ==
  /\ pc[l] = "starting"
  /\ set_connected(gen[l])
  /\ Goto(l, "live")
  /\ UNCHANGED <<generation, core, uiVars, sender, round, thread, ident, peer, closing,
                 video, prompted, late>>

\* Client::start fails, or the peer resets the connection, sends something
\* fatal or is silent for 30 s: msgbox("error").
Fails(l) ==
  /\ pc[l] \in {"starting", "live", "authed"}
  /\ Callback(l, "readError", "ending")
  /\ UNCHANGED <<generation, core, uiVars, session, ident, peer, closing, video, prompted, late>>

\* The peer asks for a password or a choice, lets nobody in now or restarts:
\* msgbox queues an event, no more, and the loop goes on or ends.
Prompt(l) ==
  /\ pc[l] \in {"live", "authed"}
  /\ prompted' = (prompted \/ (is_current(l) /\ rnd[l] = round[gen[l]]))
  /\ \E p \in {pc[l], "ending"} : Goto(l, p)
  /\ UNCHANGED <<generation, core, uiVars, session, ident, peer, closing, video, late>>

\* The peer has no display, or cannot log in on this one: msgbox("error"),
\* but the loop goes on.
Refused(l) ==
  /\ pc[l] = "live"
  /\ Callback(l, "readRefusal", "live")
  /\ UNCHANGED <<generation, core, uiVars, session, ident, peer, closing, video, prompted, late>>

\* on_connected
Accepted(l) ==
  /\ pc[l] = "live"
  /\ Callback(l, "readConnected", "authed")
  /\ UNCHANGED <<generation, core, uiVars, session, ident, peer, closing, video, prompted, late>>

\* The first video frame starts the decoder and calls close_success.
FirstFrame(l) ==
  /\ pc[l] = "authed"
  /\ video[l] = "off"
  /\ video' = [video EXCEPT ![l] = "on"]
  /\ Callback(l, "readConnected", "authed")
  /\ UNCHANGED <<generation, core, uiVars, session, ident, peer, closing, prompted, late>>

ReadPeer(l) ==
  /\ \E p \in {<<"readConnected", "writeConnected">>, <<"readError", "writeError">>,
              <<"readRefusal", "writeRefusal">>} :
       pc[l] = p[1] /\ Goto(l, p[2])
  /\ peer' = [peer EXCEPT ![l] = active_peer_id]
  /\ UNCHANGED <<generation, core, uiVars, session, ident, closing, video, prompted, late>>

\* A history note: the update belongs to a generation that is over.
NoteLate(l, set) == IF gen[l] = generation THEN set ELSE set \cup {l}

WriteConnected(l) ==
  /\ pc[l] = "writeConnected"
  /\ update_connect_state("connected", peer[l])
  /\ lateUpdate' = NoteLate(l, lateUpdate)
  /\ peer' = [peer EXCEPT ![l] = 0]
  /\ Goto(l, "authed")
  /\ UNCHANGED <<generation, active, frame, uiVars, session, ident, closing, video,
                 prompted, lateFrame>>

WriteError(l) ==
  /\ pc[l] \in {"writeError", "writeRefusal"}
  /\ update_connect_state("error", peer[l])
  /\ lateUpdate' = NoteLate(l, lateUpdate)
  /\ peer' = [peer EXCEPT ![l] = 0]
  /\ Goto(l, IF pc[l] = "writeError" THEN "ending" ELSE "live")
  /\ UNCHANGED <<generation, active, frame, uiVars, session, ident, closing, video,
                 prompted, lateFrame>>

\* Slip: the channel is only read until the login.
ReceiveClose_BeforeLogin(l) ==
  /\ pc[l] = "live"
  /\ l \in closing
  /\ Goto(l, "ending")
  /\ UNCHANGED <<generation, core, uiVars, session, ident, peer, closing, video, prompted, late>>

\* handle_msg_from_ui: Data::Close leaves the loop without a word.
ReceiveClose(l) ==
  /\ pc[l] \in {"live", "authed"}
  /\ l \in closing
  /\ Goto(l, "ending")
  /\ UNCHANGED <<generation, core, uiVars, session, ident, peer, closing, video, prompted, late>>

End(l) ==
  /\ pc[l] = "ending"
  /\ set_disconnected(gen[l], rnd[l])
  /\ closing' = closing \ {l}
  /\ Goto(l, "ended")
  /\ UNCHANGED <<generation, core, uiVars, sender, round, thread, ident, peer, video,
                 prompted, late>>

-----------------------------------------------------------------------------
(* The video thread of an io_loop: on_rgba after each decoded frame.  It   *)
(* outlives the loop by the frames still in its queue.                     *)

Decoded(l) ==
  /\ video[l] = "on"
  /\ is_current(l)
  /\ video' = [video EXCEPT ![l] = "publish"]
  /\ UNCHANGED <<generation, core, uiVars, session, ident, pc, peer, closing, prompted, late>>

publish_real_video_frame(l) ==
  /\ video[l] = "publish"
  /\ frame' = l
  /\ lateFrame' = NoteLate(l, lateFrame)
  /\ video' = [video EXCEPT ![l] = "on"]
  /\ UNCHANGED <<generation, active, stage, active_peer_id, uiVars, session, ident, pc,
                 peer, closing, prompted, lateUpdate>>

VideoStops(l) ==
  /\ video[l] = "on"
  /\ pc[l] = "ended"
  /\ video' = [video EXCEPT ![l] = "off"]
  /\ UNCHANGED <<generation, core, uiVars, session, ident, pc, peer, closing, prompted, late>>

-----------------------------------------------------------------------------
\* A command that has begun runs to its end.
Continue ==
  \/ StartFrame \/ StartState \/ StartSpawn \/ CloseSend \/ CloseState
  \/ ReconnectState \/ Reconnect \/ LoginState

Begin == StartBump \/ CloseBump \/ ReconnectBegin \/ LoginBegin

Loop(l) ==
  \/ InstallSender(l) \/ Connected(l) \/ Fails(l) \/ Prompt(l) \/ Refused(l)
  \/ Accepted(l) \/ ReadPeer(l) \/ WriteConnected(l) \/ WriteError(l) \/ End(l)

Video(l) == Decoded(l) \/ publish_real_video_frame(l) \/ VideoStops(l)

Next ==
  \/ Begin \/ Continue
  \/ \E l \in Loops : Loop(l) \/ FirstFrame(l) \/ ReceiveClose(l) \/ Video(l)

Spec == Init /\ [][Next]_vars

\* Threads are scheduled.  Client::start has timeouts, and a peer is assumed
\* to answer the login or to fall silent, which is given up after 30 s: an
\* io_loop before its login goes on.  After it, a connection may stay as it is; Close is then taken from the channel,
\* even if callbacks keep the loop busy.
Fairness ==
  /\ WF_vars(Continue)
  /\ \A l \in Loops :
       /\ WF_vars(pc[l] # "authed" /\ Loop(l))
       /\ SF_vars(ReceiveClose(l))

FairSpec == Spec /\ Fairness

-----------------------------------------------------------------------------
(* Properties.                                                             *)

Updates(l) == WriteConnected(l) \/ WriteError(l)

\* A thread whose session has been replaced or closed can still get one
\* update in, the one whose is_current came first, and no second: the
\* callbacks of an old session cannot keep disturbing the new one.
OneLateUpdate ==
  [][\A l \in Loops :
       /\ Updates(l) /\ gen[l] # generation => l \notin lateUpdate
       /\ publish_real_video_frame(l) /\ gen[l] # generation => l \notin lateFrame]_vars

\* Data::Close only ever reaches an io_loop that has been superseded: a
\* reconnect or a close never shoots the io_loop of the current attempt,
\* although all io_loops of a session share one sender.
CloseHitsOldOnly ==
  \A l \in closing : gen[l] # generation \/ rnd[l] < round[gen[l]]

\* A session is marked disconnected only when the io_loop of its newest
\* round has ended; the late end of an older one does not mark it.  So a
\* reconnect that sends no Close leaves none of the newest round behind.
DisconnectedHasEnded ==
  \A l \in Loops :
    /\ pc[l] # "none"
    /\ rnd[l] = round[gen[l]]
    /\ state[gen[l]] = "Disconnected"
    => pc[l] = "ended"

\* Every attempt is answered: "connecting" gives way to another stage or to
\* a message box of its own, whatever older io_loops are doing.
AttemptAnswered == stage = "connecting" ~> (stage # "connecting" \/ prompted)

\* An io_loop that has been sent Close ends.
ClosedLoopEnds == \A l \in Loops : l \in closing ~> pc[l] = "ended"

-----------------------------------------------------------------------------
(* What documents and comments of the repository say.                      *)

\* docs/CORE.md: only the current generation updates state or frame.
OnlyCurrentUpdates ==
  [][\A l \in Loops : Updates(l) \/ publish_real_video_frame(l) => gen[l] = generation]_vars
=============================================================================
