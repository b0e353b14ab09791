------------------------- MODULE BridgeSessionProofs -------------------------
(***************************************************************************)
(* Proofs about BridgeSession for any number of starts, closes and         *)
(* reconnects.                                                             *)
(***************************************************************************)
EXTENDS BridgeSession, TLAPS

(***************************************************************************)
(* What a command of the UI thread may count on while it runs.             *)
(***************************************************************************)
UiAgrees ==
  /\ ui \in {"startFrame", "startState", "startSpawn", "closeSend"}
       => /\ active < generation
          /\ \A l \in Loops : gen[l] < generation
  /\ ui \in {"reconnectState", "reconnect"} => active # 0

\* No io_loop belongs to a generation still to come.
Numbered ==
  /\ active <= generation
  /\ \A l \in Loops : gen[l] <= generation
  /\ \A l \in Loops : ~Unused(l) => gen[l] \in Gens
  /\ \A l \in closing : ~Unused(l)

\* A session's channel is that of one of its own io_loops.
SenderIsOwn ==
  \A g \in Gens, l \in Loops : sender[g] = l => gen[l] = g /\ ~Unused(l)

\* Every io_loop of a session has a round of its own, none above the
\* session's.
RoundsOrdered ==
  /\ \A l \in Loops : ~Unused(l) => rnd[l] <= round[gen[l]]
  /\ \A l, m \in Loops :
       ~Unused(l) /\ ~Unused(m) /\ gen[l] = gen[m] /\ rnd[l] = rnd[m] => l = m

\* Who has been late once is not in the middle of a callback again.
LateAreDone ==
  /\ \A l \in Loops : video[l] # "off" => ~Unused(l)
  /\ \A l \in lateUpdate : ~Unused(l) /\ gen[l] < generation /\ pc[l] \notin Writing
  /\ \A l \in lateFrame : ~Unused(l) /\ gen[l] < generation /\ video[l] # "publish"

Frame == TypeOK /\ UiAgrees /\ Numbered /\ SenderIsOwn

-----------------------------------------------------------------------------
LEMMA FrameInit == Init => Frame
<1> SUFFICES ASSUME Init PROVE Frame
  OBVIOUS
<1>1. 0 \in 0..MaxGen /\ 0 \in Nat
  BY MaxGenAssumption
<1>2. TypeOK
  BY <1>1 DEF Init, TypeOK, UiLocation, Location, Writing
<1>3. UiAgrees /\ Numbered /\ SenderIsOwn
  BY NoneAssumption DEF Init, UiAgrees, Numbered, SenderIsOwn, Unused
<1>4. QED
  BY <1>2, <1>3 DEF Frame

LEMMA SpawnTakesUnused ==
  ASSUME NEW g, NEW r, Spawn(g, r)
  PROVE  \E l \in Loops :
           /\ Unused(l)
           /\ gen' = [gen EXCEPT ![l] = g]
           /\ rnd' = [rnd EXCEPT ![l] = r]
           /\ pc' = [pc EXCEPT ![l] = "spawned"]
<1> DEFINE l == CHOOSE m \in Loops : Unused(m)
<1>1. l \in Loops /\ Unused(l)
  BY DEF Spawn
<1>2. QED
  BY <1>1 DEF Spawn

\* The types, the numbering and the UI thread's assumptions are inductive
\* together: a spawn indexes the session by a generation that exists.
LEMMA FrameNext ==
  ASSUME Frame, [Next]_vars
  PROVE  Frame'
<1> USE MaxGenAssumption DEF Frame, uiVars, core, session, ident, late
<1>0. TypeOK /\ UiAgrees /\ Numbered /\ SenderIsOwn
  OBVIOUS
<1>1. CASE StartBump \/ CloseBump
  <2>1. /\ generation' = generation + 1 /\ generation' \in 0..MaxGen
        /\ ui' \in {"startFrame", "closeSend"}
        /\ UNCHANGED <<core, uiPeer, session, ident, pc, peer, closing, video, prompted, late>>
    BY <1>0, <1>1 DEF StartBump, CloseBump, TypeOK
  <2>2. TypeOK'
    BY <1>0, <2>1, Zenon DEF TypeOK, UiLocation
  <2>3. generation \in Nat /\ active \in Nat /\ gen \in [Loops -> Nat]
    BY <1>0 DEF TypeOK
  <2>4. UiAgrees' /\ Numbered' /\ SenderIsOwn'
    BY <1>0, <2>1, <2>3 DEF UiAgrees, Numbered, SenderIsOwn, Unused
  <2>5. QED
    BY <2>2, <2>4
<1>2. CASE ReconnectBegin \/ LoginBegin
  <2>1. TypeOK'
    BY <1>0, <1>2, Zenon DEF ReconnectBegin, LoginBegin, TypeOK, UiLocation
  <2>2. UiAgrees' /\ Numbered' /\ SenderIsOwn'
    BY <1>0, <1>2 DEF ReconnectBegin, LoginBegin, UiAgrees, Numbered, SenderIsOwn, Unused
  <2>3. QED
    BY <2>1, <2>2
<1>3. CASE StartFrame \/ StartState \/ CloseState \/ ReconnectState \/ LoginState
  <2>1. /\ ui' \in UiLocation \ {"startFrame", "closeSend", "reconnectState"}
        /\ ui' \in {"startState", "startSpawn"} => ui \in {"startFrame", "startState"}
        /\ ui' = "reconnect" => ui = "reconnectState"
        /\ UNCHANGED <<generation, active, session, ident, pc, peer, closing, video, late>>
    BY <1>3 DEF StartFrame, StartState, CloseState, ReconnectState, LoginState, UiLocation
  <2>2. 0 \in 0..MaxGen
    OBVIOUS
  <2>3. /\ stage' \in {"idle", "connecting", "login", "connected", "error"}
        /\ active_peer_id' \in 0..MaxGen /\ uiPeer' \in 0..MaxGen
        /\ frame' \in Loops \cup {None} /\ prompted' \in BOOLEAN
    BY <1>0, <1>3, <2>2, Zenon DEF StartFrame, StartState, CloseState, ReconnectState,
       LoginState, update_connect_state, TypeOK
  <2>4. TypeOK'
    BY <1>0, <2>1, <2>3, Zenon DEF TypeOK
  <2>5. UiAgrees' /\ Numbered' /\ SenderIsOwn'
    BY <1>0, <2>1 DEF UiAgrees, Numbered, SenderIsOwn, Unused, UiLocation
  <2>6. QED
    BY <2>4, <2>5
<1>4. CASE CloseSend
  <2>1. /\ closing' \subseteq closing \cup {l \in Loops : active # 0 /\ l = sender[active]}
        /\ active' = 0 /\ ui' = "closeState"
        /\ UNCHANGED <<generation, stage, active_peer_id, frame, uiPeer, session, ident, pc,
                       peer, video, prompted, late>>
    BY <1>4 DEF CloseSend, Close
  <2>2. 0 \in 0..MaxGen /\ closing' \subseteq Loops
    BY <1>0, <2>1 DEF TypeOK
  <2>3. TypeOK'
    BY <1>0, <2>1, <2>2, Zenon DEF TypeOK, UiLocation
  <2>4. active # 0 => active \in Gens
    BY <1>0 DEF TypeOK, Gens
  <2>5. generation \in Nat
    BY <1>0 DEF TypeOK
  <2>6. UiAgrees' /\ Numbered' /\ SenderIsOwn'
    BY <1>0, <2>1, <2>4, <2>5 DEF UiAgrees, Numbered, SenderIsOwn, Unused
  <2>7. QED
    BY <2>3, <2>6
<1>5. CASE StartSpawn \/ Reconnect
  <2> DEFINE g == IF ui = "startSpawn" THEN generation ELSE active
  <2>1. g \in Gens /\ generation \in Nat /\ active' \in {active, generation}
    BY <1>0, <1>5 DEF StartSpawn, Reconnect, UiAgrees, TypeOK, Gens
  <2> HIDE DEF g
  <2>2. PICK l \in Loops :
          /\ Unused(l)
          /\ gen' = [gen EXCEPT ![l] = g]
          /\ rnd' = [rnd EXCEPT ![l] = round[g] + 1]
          /\ pc' = [pc EXCEPT ![l] = "spawned"]
    <3>1. Spawn(g, (round')[g]) /\ round' = [round EXCEPT ![g] = @ + 1]
      <4>1. CASE StartSpawn
        BY <4>1 DEF StartSpawn, new_round, g
      <4>2. CASE Reconnect
        BY <4>2 DEF Reconnect, new_round, g
      <4>3. QED
        BY <1>5, <4>1, <4>2
    <3>2. round'[g] = round[g] + 1
      BY <1>0, <2>1, <3>1 DEF TypeOK
    <3>3. QED
      BY <3>1, <3>2, SpawnTakesUnused
  <2>3. /\ round' = [round EXCEPT ![g] = @ + 1]
        /\ state' = [state EXCEPT ![g] = "Connecting"]
        /\ ui' = "ready" /\ closing' \subseteq closing \cup {k \in Loops : k = sender[g]}
        /\ UNCHANGED <<generation, stage, active_peer_id, frame, uiPeer, sender, peer,
                       video, prompted, late>>
    BY <1>5 DEF StartSpawn, Reconnect, new_round, Close, g
  <2>4. thread' \in [Gens -> BOOLEAN]
    BY <1>0, <1>5, Zenon DEF StartSpawn, Reconnect, TypeOK
  <2>5. /\ round' \in [Gens -> Nat] /\ rnd' \in [Loops -> Nat]
        /\ gen' \in [Loops -> 0..MaxGen] /\ active' \in 0..MaxGen
    BY <1>0, <2>1, <2>2, <2>3 DEF TypeOK, Gens
  <2>6. /\ state' \in [Gens -> {"Connecting", "Connected", "Disconnected"}]
        /\ pc' \in [Loops -> Location] /\ closing' \subseteq Loops
    <3>1. /\ state \in [Gens -> {"Connecting", "Connected", "Disconnected"}]
          /\ pc \in [Loops -> Location] /\ closing \subseteq Loops
      BY <1>0 DEF TypeOK
    <3>2. state' \in [Gens -> {"Connecting", "Connected", "Disconnected"}]
      BY <2>3, <3>1
    <3>3. pc' \in [Loops -> Location]
      BY <2>2, <3>1 DEF Location
    <3>4. closing' \subseteq Loops
      BY <2>3, <3>1
    <3>5. QED
      BY <3>2, <3>3, <3>4
  <2>7. TypeOK'
    BY <1>0, <2>3, <2>4, <2>5, <2>6, Zenon DEF TypeOK, UiLocation
  <2>8. g <= generation /\ active' <= generation
    BY <1>0, <2>1 DEF Numbered, TypeOK, Gens, g
  <2>9. UiAgrees' /\ SenderIsOwn'
    <3>1. \A k \in Loops : ~Unused(k) => gen'[k] = gen[k] /\ ~Unused(k)'
      BY <1>0, <2>2 DEF Unused, TypeOK
    <3>2. UiAgrees'
      BY <2>3 DEF UiAgrees
    <3>3. SenderIsOwn'
      BY <1>0, <2>3, <3>1 DEF SenderIsOwn
    <3>4. QED
      BY <3>2, <3>3
  <2>10. Numbered'
    BY <1>0, <2>1, <2>2, <2>3, <2>8 DEF Numbered, SenderIsOwn, Unused, TypeOK
  <2>11. QED
    BY <2>7, <2>9, <2>10
<1>6. ASSUME NEW l \in Loops, Loop(l) \/ FirstFrame(l) \/ ReceiveClose(l) \/ Video(l)
      PROVE  Frame'
  <2> USE <1>6 DEF Loop, Video, Goto, Callback, update_connect_state, NoteLate
  <2>1. UNCHANGED <<generation, active, uiVars, round, thread, ident>>
    BY DEF InstallSender, Connected, Fails, Prompt, Refused, Accepted, FirstFrame, ReadPeer,
       WriteConnected, WriteError, ReceiveClose, End, Decoded, publish_real_video_frame, VideoStops
  <2>2. pc' \in [Loops -> Location] /\ \A k \in Loops : Unused(k)' <=> Unused(k)
    BY <1>0 DEF InstallSender, Connected, Fails, Prompt, Refused, Accepted, FirstFrame, ReadPeer,
       WriteConnected, WriteError, ReceiveClose, End, Decoded, publish_real_video_frame, VideoStops,
       TypeOK, Location, Writing, Unused
  <2>3. sender' = sender \/ (sender' = [sender EXCEPT ![gen[l]] = l] /\ ~Unused(l))
    BY DEF InstallSender, Connected, Fails, Prompt, Refused, Accepted, FirstFrame, ReadPeer,
       WriteConnected, WriteError, ReceiveClose, End, Decoded, publish_real_video_frame, VideoStops,
       Unused
  <2>4. state' \in [Gens -> {"Connecting", "Connected", "Disconnected"}]
    BY <1>0, Zenon DEF InstallSender, Connected, Fails, Prompt, Refused, Accepted, FirstFrame,
       ReadPeer, WriteConnected, WriteError, ReceiveClose, End, Decoded,
       publish_real_video_frame, VideoStops, set_connected, set_disconnected, TypeOK
  <2>5. /\ stage' \in {"idle", "connecting", "login", "connected", "error"}
        /\ active_peer_id' \in 0..MaxGen
        /\ frame' \in Loops \cup {None}
        /\ lateUpdate' \subseteq Loops /\ lateFrame' \subseteq Loops
    BY <1>0 DEF InstallSender, Connected, Fails, Prompt, Refused, Accepted, FirstFrame, ReadPeer,
       WriteConnected, WriteError, ReceiveClose, End, Decoded, publish_real_video_frame, VideoStops,
       TypeOK
  <2>6. /\ peer' \in [Loops -> 0..MaxGen]
        /\ closing' \subseteq closing
        /\ video' \in [Loops -> {"off", "on", "publish"}]
    BY <1>0 DEF InstallSender, Connected, Fails, Prompt, Refused, Accepted, FirstFrame, ReadPeer,
       WriteConnected, WriteError, ReceiveClose, End, Decoded, publish_real_video_frame, VideoStops,
       TypeOK
  <2>7. prompted' \in BOOLEAN
    BY <1>0, Zenon DEF InstallSender, Connected, Fails, Prompt, Refused, Accepted, FirstFrame,
       ReadPeer, WriteConnected, WriteError, ReceiveClose, End, Decoded,
       publish_real_video_frame, VideoStops, TypeOK, is_current
  <2>8. sender' \in [Gens -> Loops \cup {None}] /\ closing' \subseteq Loops
    BY <1>0, <2>3, <2>6 DEF TypeOK
  <2>9. TypeOK'
    BY <1>0, <2>1, <2>2, <2>4, <2>5, <2>6, <2>7, <2>8, Zenon DEF TypeOK
  <2>10. UiAgrees' /\ Numbered'
    BY <1>0, <2>1, <2>2, <2>6, <2>9 DEF UiAgrees, Numbered, TypeOK
  <2>11. SenderIsOwn'
    BY <1>0, <2>1, <2>2, <2>3 DEF SenderIsOwn, TypeOK
  <2>12. QED
    BY <2>9, <2>10, <2>11
<1>7. CASE UNCHANGED vars
  BY <1>0, <1>7 DEF vars, TypeOK, UiAgrees, Numbered, SenderIsOwn, Unused
<1>8. QED
  BY <1>1, <1>2, <1>3, <1>4, <1>5, <1>6, <1>7 DEF Next, Begin, Continue

-----------------------------------------------------------------------------
LEMMA FrameHolds == Spec => []Frame
<1>1. Frame /\ [Next]_vars => Frame'
  BY FrameNext
<1>2. QED
  BY FrameInit, <1>1, PTL DEF Spec

\* Type correctness: the globals, the sessions' shared state and the
\* threads' locations keep their types; a spawn always finds its session.
THEOREM TypeCorrect == Spec => []TypeOK
BY FrameHolds, PTL DEF Frame

-----------------------------------------------------------------------------
(* What the steps do to an io_loop's session, round and channel.           *)

LoopStep(l) == Loop(l) \/ FirstFrame(l) \/ ReceiveClose(l) \/ Video(l)

\* A step of an io_loop or of its video thread leaves every identity alone.
LEMMA LoopStepKeeps ==
  ASSUME TypeOK, NEW l \in Loops, LoopStep(l)
  PROVE  /\ UNCHANGED <<generation, active, round, gen, rnd>>
         /\ closing' \subseteq closing
         /\ \A k \in Loops : Unused(k)' <=> Unused(k)
         /\ \A k \in Loops : pc[k] = "ended" => pc'[k] = "ended"
<1> USE DEF LoopStep, Loop, Video, Goto, Callback, update_connect_state, NoteLate, TypeOK,
    uiVars, core, session, ident, late
<1>1. QED
  BY DEF InstallSender, Connected, Fails, Prompt, Refused, Accepted, FirstFrame, ReadPeer,
     WriteConnected, WriteError, ReceiveClose, End, Decoded, publish_real_video_frame, VideoStops,
     Unused

\* Every other step but a spawn leaves them alone too.
Quiet ==
  \/ StartBump \/ StartFrame \/ StartState \/ CloseBump \/ CloseSend \/ CloseState
  \/ ReconnectBegin \/ ReconnectState \/ LoginBegin \/ LoginState \/ UNCHANGED vars

LEMMA QuietKeeps ==
  ASSUME TypeOK, Quiet
  PROVE  /\ UNCHANGED <<round, state, gen, rnd, pc, video, late>>
         /\ generation' \in {generation, generation + 1}
BY DEF Quiet, StartBump, StartFrame, StartState, CloseBump, CloseSend, CloseState,
   ReconnectBegin, ReconnectState, LoginBegin, LoginState, vars, uiVars, core, session, ident,
   late

\* A spawn opens a new round of an existing session for a thread not used
\* before, and sends Close at most to the holder of the session's channel.
LEMMA SpawnStep ==
  ASSUME Frame, StartSpawn \/ Reconnect
  PROVE  \E g \in Gens, l \in Loops :
           /\ Unused(l)
           /\ gen' = [gen EXCEPT ![l] = g]
           /\ rnd' = [rnd EXCEPT ![l] = round[g] + 1]
           /\ pc' = [pc EXCEPT ![l] = "spawned"]
           /\ round' = [round EXCEPT ![g] = @ + 1]
           /\ state' = [state EXCEPT ![g] = "Connecting"]
           /\ closing' \subseteq closing \cup {k \in Loops : k = sender[g]}
           /\ UNCHANGED <<generation, video, late>>
<1> DEFINE g == IF ui = "startSpawn" THEN generation ELSE active
<1>1. g \in Gens
  BY DEF StartSpawn, Reconnect, Frame, UiAgrees, TypeOK, Gens
<1>2. /\ Spawn(g, round'[g])
      /\ round' = [round EXCEPT ![g] = @ + 1]
      /\ state' = [state EXCEPT ![g] = "Connecting"]
      /\ closing' \subseteq closing \cup {k \in Loops : k = sender[g]}
      /\ UNCHANGED <<generation, video, late>>
  BY DEF StartSpawn, Reconnect, new_round, Close, late
<1> HIDE DEF g
<1>3. PICK l \in Loops :
        /\ Unused(l)
        /\ gen' = [gen EXCEPT ![l] = g]
        /\ rnd' = [rnd EXCEPT ![l] = round[g] + 1]
        /\ pc' = [pc EXCEPT ![l] = "spawned"]
  <2>1. round'[g] = round[g] + 1
    BY <1>1, <1>2 DEF Frame, TypeOK
  <2>2. QED
    BY <1>2, <2>1, SpawnTakesUnused
<1>4. QED
  BY <1>1, <1>2, <1>3, Zenon

LEMMA Steps == [Next]_vars => Quiet \/ StartSpawn \/ Reconnect \/ \E l \in Loops : LoopStep(l)
BY DEF Next, Begin, Continue, Quiet, LoopStep

-----------------------------------------------------------------------------
(* Rounds: each io_loop has its own, and Close and Disconnected follow     *)
(* from their order.                                                       *)

LEMMA RoundsInit == Init => RoundsOrdered
BY DEF Init, RoundsOrdered, Unused

LEMMA RoundsNext ==
  ASSUME Frame, RoundsOrdered, [Next]_vars
  PROVE  RoundsOrdered'
<1> USE DEF RoundsOrdered, Unused
<1>0. TypeOK
  BY DEF Frame
<1>1. CASE Quiet
  BY <1>0, <1>1, QuietKeeps
<1>2. ASSUME NEW l \in Loops, LoopStep(l) PROVE RoundsOrdered'
  BY <1>0, <1>2, LoopStepKeeps
<1>3. CASE StartSpawn \/ Reconnect
  <2>1. PICK g \in Gens, l \in Loops :
          /\ Unused(l)
          /\ gen' = [gen EXCEPT ![l] = g]
          /\ rnd' = [rnd EXCEPT ![l] = round[g] + 1]
          /\ pc' = [pc EXCEPT ![l] = "spawned"]
          /\ round' = [round EXCEPT ![g] = @ + 1]
    BY <1>3, SpawnStep
  <2>2. \A k \in Loops : ~Unused(k) => gen[k] \in Gens
    BY DEF Frame, Numbered
  <2>3. \A h \in Gens : round[h] \in Nat /\ round'[h] = IF h = g THEN round[h] + 1 ELSE round[h]
    BY <1>0, <2>1 DEF TypeOK
  <2>4. \A k \in Loops : ~Unused(k) /\ gen[k] = g => rnd[k] < round[g] + 1
    BY <1>0, <2>1, <2>3 DEF TypeOK
  <2>5. \A k \in Loops :
          Unused(k)' \/ k = l \/ (~Unused(k) /\ gen'[k] = gen[k] /\ rnd'[k] = rnd[k])
    BY <1>0, <2>1 DEF TypeOK
  <2>6. gen'[l] = g /\ rnd'[l] = round[g] + 1 /\ rnd \in [Loops -> Nat]
    BY <1>0, <2>1 DEF TypeOK
  <2>7. \A k \in Loops : ~Unused(k)' => rnd'[k] <= round'[gen'[k]]
    BY <2>2, <2>3, <2>5, <2>6
  <2>8. \A k, m \in Loops :
          ~Unused(k)' /\ ~Unused(m)' /\ gen'[k] = gen'[m] /\ rnd'[k] = rnd'[m] => k = m
    BY <2>3, <2>4, <2>5, <2>6
  <2>9. QED
    BY <2>7, <2>8
<1>4. QED
  BY <1>1, <1>2, <1>3, Steps

LEMMA CloseNext ==
  ASSUME Frame, RoundsOrdered, CloseHitsOldOnly, [Next]_vars
  PROVE  CloseHitsOldOnly'
<1> USE DEF CloseHitsOldOnly
<1>0. /\ TypeOK /\ closing \subseteq Loops /\ gen \in [Loops -> 0..MaxGen]
      /\ \A l \in Loops : gen[l] <= generation
      /\ generation \in Nat
  BY DEF Frame, Numbered, TypeOK
<1>1. CASE Quiet
  <2>1. UNCHANGED <<round, gen, rnd>> /\ generation' \in {generation, generation + 1}
    BY <1>0, <1>1, QuietKeeps
  <2>2. CASE closing' = closing
    BY <1>0, <2>1, <2>2
  <2>3. CASE CloseSend
    <3>1. /\ closing' \subseteq closing \cup {l \in Loops : active # 0 /\ l = sender[active]}
          /\ active < generation /\ generation' = generation
      BY <2>3 DEF CloseSend, Close, Frame, UiAgrees
    <3>2. active # 0 => active \in Gens
      BY <1>0 DEF TypeOK, Gens
    <3>3. \A l \in Loops : active # 0 /\ l = sender[active] => gen[l] = active
      BY <3>2 DEF Frame, SenderIsOwn
    <3>4. QED
      BY <1>0, <2>1, <3>1, <3>3
  <2>4. QED
    BY <1>1, <2>2, <2>3 DEF Quiet, StartBump, StartFrame, StartState, CloseBump, CloseState,
       ReconnectBegin, ReconnectState, LoginBegin, LoginState, vars
<1>2. ASSUME NEW l \in Loops, LoopStep(l) PROVE CloseHitsOldOnly'
  BY <1>0, <1>2, LoopStepKeeps
<1>3. CASE StartSpawn \/ Reconnect
  <2>1. PICK g \in Gens, l \in Loops :
          /\ Unused(l)
          /\ gen' = [gen EXCEPT ![l] = g]
          /\ rnd' = [rnd EXCEPT ![l] = round[g] + 1]
          /\ round' = [round EXCEPT ![g] = @ + 1]
          /\ closing' \subseteq closing \cup {k \in Loops : k = sender[g]}
          /\ UNCHANGED generation
    BY <1>3, SpawnStep
  <2>2. \A h \in Gens : round[h] \in Nat /\ round'[h] = IF h = g THEN round[h] + 1 ELSE round[h]
    BY <1>0, <2>1 DEF TypeOK
  <2>3. \A k \in closing' : k \in Loops /\ ~Unused(k) /\ (k \in closing \/ gen[k] = g)
    BY <1>0, <2>1 DEF Frame, Numbered, SenderIsOwn
  <2>4. \A k \in closing' : k # l /\ gen'[k] = gen[k] /\ rnd'[k] = rnd[k] /\ gen[k] \in Gens
    BY <1>0, <2>1, <2>3 DEF TypeOK, Frame, Numbered
  <2>5. \A k \in closing' : rnd[k] \in Nat /\ rnd[k] <= round[gen[k]]
    BY <1>0, <2>3 DEF TypeOK, RoundsOrdered
  <2>6. QED
    BY <2>1, <2>2, <2>3, <2>4, <2>5
<1>4. QED
  BY <1>1, <1>2, <1>3, Steps

LEMMA DisconnectedNext ==
  ASSUME Frame, RoundsOrdered, DisconnectedHasEnded, [Next]_vars
  PROVE  DisconnectedHasEnded'
<1> USE DEF DisconnectedHasEnded
<1>0. TypeOK /\ \A l \in Loops : ~Unused(l) => gen[l] \in Gens
  BY DEF Frame, Numbered
<1>1. CASE Quiet
  BY <1>0, <1>1, QuietKeeps
<1>2. ASSUME NEW l \in Loops, LoopStep(l) PROVE DisconnectedHasEnded'
  <2>1. /\ UNCHANGED <<round, gen, rnd>>
        /\ \A k \in Loops : Unused(k)' <=> Unused(k)
        /\ \A k \in Loops : pc[k] = "ended" => pc'[k] = "ended"
    BY <1>0, <1>2, LoopStepKeeps
  <2>2. CASE state' = state
    BY <2>1, <2>2 DEF Unused
  <2>3. CASE Connected(l)
    BY <1>0, <2>1, <2>3 DEF Connected, set_connected, Unused, TypeOK
  <2>4. CASE End(l)
    <3>1. /\ ~Unused(l) /\ pc'[l] = "ended"
          /\ state' = IF rnd[l] < round[gen[l]] THEN state
                                                ELSE [state EXCEPT ![gen[l]] = "Disconnected"]
      BY <1>0, <2>4 DEF End, set_disconnected, Goto, Unused, TypeOK
    <3>2. CASE rnd[l] < round[gen[l]]
      BY <2>1, <3>1, <3>2 DEF Unused
    <3>3. CASE ~(rnd[l] < round[gen[l]])
      <4>1. rnd[l] = round[gen[l]]
        BY <1>0, <3>1, <3>3 DEF RoundsOrdered, TypeOK
      <4>2. \A k \in Loops : ~Unused(k) /\ gen[k] = gen[l] /\ rnd[k] = round[gen[k]] => k = l
        BY <3>1, <4>1 DEF RoundsOrdered
      <4>3. \A h \in Gens : h # gen[l] => state'[h] = state[h]
        BY <1>0, <3>1 DEF TypeOK
      <4>4. QED
        BY <1>0, <2>1, <3>1, <4>2, <4>3 DEF Unused
    <3>4. QED
      BY <3>2, <3>3
  <2>5. QED
    BY <1>2, <2>2, <2>3, <2>4 DEF LoopStep, Loop, Video, session, InstallSender, Fails, Prompt,
       Refused, Accepted, FirstFrame, ReadPeer, WriteConnected, WriteError, ReceiveClose,
       Decoded, publish_real_video_frame, VideoStops
<1>3. CASE StartSpawn \/ Reconnect
  <2>1. PICK g \in Gens, l \in Loops :
          /\ Unused(l)
          /\ gen' = [gen EXCEPT ![l] = g]
          /\ rnd' = [rnd EXCEPT ![l] = round[g] + 1]
          /\ pc' = [pc EXCEPT ![l] = "spawned"]
          /\ round' = [round EXCEPT ![g] = @ + 1]
          /\ state' = [state EXCEPT ![g] = "Connecting"]
    BY <1>3, SpawnStep
  <2>2. state'[g] = "Connecting" /\ gen'[l] = g
    BY <1>0, <2>1 DEF TypeOK
  <2>3. \A h \in Gens : h # g => state'[h] = state[h] /\ round'[h] = round[h]
    BY <1>0, <2>1 DEF TypeOK
  <2>4. \A k \in Loops : k # l => gen'[k] = gen[k] /\ rnd'[k] = rnd[k] /\ pc'[k] = pc[k]
    BY <1>0, <2>1 DEF TypeOK
  <2>5. QED
    BY <1>0, <2>2, <2>3, <2>4 DEF Unused
<1>4. QED
  BY <1>1, <1>2, <1>3, Steps

-----------------------------------------------------------------------------
(* Late updates.                                                           *)

LEMMA LateNext ==
  ASSUME Frame, LateAreDone, [Next]_vars
  PROVE  LateAreDone'
<1> USE DEF LateAreDone
<1>0. /\ TypeOK /\ generation \in Nat /\ gen \in [Loops -> 0..MaxGen]
      /\ \A l \in Loops : gen[l] <= generation
      /\ lateUpdate \subseteq Loops /\ lateFrame \subseteq Loops
  BY DEF Frame, Numbered, TypeOK
<1>1. CASE Quiet
  BY <1>0, <1>1, QuietKeeps DEF late, Unused
<1>2. ASSUME NEW l \in Loops, LoopStep(l) PROVE LateAreDone'
  <2>1. UNCHANGED <<generation, gen>> /\ \A k \in Loops : Unused(k)' <=> Unused(k)
    BY <1>0, <1>2, LoopStepKeeps
  <2> USE <1>0, <1>2 DEF LoopStep, Loop, Video, Goto, Callback, is_current, NoteLate, TypeOK,
      late
  <2>2. \A k \in Loops : k # l => pc'[k] = pc[k] /\ video'[k] = video[k]
    BY DEF InstallSender, Connected, Fails, Prompt, Refused, Accepted, FirstFrame, ReadPeer,
       WriteConnected, WriteError, ReceiveClose, End, Decoded, publish_real_video_frame,
       VideoStops
  <2>3. gen[l] # generation /\ pc[l] \notin Writing => pc'[l] \notin Writing
    BY DEF InstallSender, Connected, Fails, Prompt, Refused, Accepted, FirstFrame, ReadPeer,
       WriteConnected, WriteError, ReceiveClose, End, Decoded, publish_real_video_frame,
       VideoStops, Writing
  <2>4. gen[l] # generation /\ video[l] # "publish" => video'[l] # "publish"
    BY DEF InstallSender, Connected, Fails, Prompt, Refused, Accepted, FirstFrame, ReadPeer,
       WriteConnected, WriteError, ReceiveClose, End, Decoded, publish_real_video_frame,
       VideoStops
  <2>5. \/ lateUpdate' = lateUpdate
        \/ /\ lateUpdate' = lateUpdate \cup {l} /\ ~Unused(l)
           /\ gen[l] # generation /\ pc'[l] \notin Writing
    BY DEF InstallSender, Connected, Fails, Prompt, Refused, Accepted, FirstFrame, ReadPeer,
       WriteConnected, WriteError, ReceiveClose, End, Decoded, publish_real_video_frame,
       VideoStops, Writing, Unused
  <2>6. \/ lateFrame' = lateFrame
        \/ /\ lateFrame' = lateFrame \cup {l} /\ ~Unused(l)
           /\ gen[l] # generation /\ video'[l] # "publish"
    BY DEF InstallSender, Connected, Fails, Prompt, Refused, Accepted, FirstFrame, ReadPeer,
       WriteConnected, WriteError, ReceiveClose, End, Decoded, publish_real_video_frame,
       VideoStops
  <2>7. video'[l] # "off" => ~Unused(l)
    BY DEF InstallSender, Connected, Fails, Prompt, Refused, Accepted, FirstFrame, ReadPeer,
       WriteConnected, WriteError, ReceiveClose, End, Decoded, publish_real_video_frame,
       VideoStops, Unused
  <2>8. gen[l] # generation => gen[l] < generation
    OBVIOUS
  <2>9. QED
    BY <2>1, <2>2, <2>3, <2>4, <2>5, <2>6, <2>7, <2>8
<1>3. CASE StartSpawn \/ Reconnect
  <2>1. PICK g \in Gens, l \in Loops :
          /\ Unused(l)
          /\ gen' = [gen EXCEPT ![l] = g]
          /\ pc' = [pc EXCEPT ![l] = "spawned"]
          /\ UNCHANGED <<generation, video, late>>
    BY <1>3, SpawnStep
  <2>2. \A k \in Loops : k # l => gen'[k] = gen[k] /\ pc'[k] = pc[k]
    BY <1>0, <2>1 DEF TypeOK
  <2>3. l \notin lateUpdate /\ l \notin lateFrame /\ video[l] = "off"
    BY <2>1
  <2>4. QED
    BY <1>0, <2>1, <2>2, <2>3 DEF late, Unused
<1>4. QED
  BY <1>1, <1>2, <1>3, Steps

-----------------------------------------------------------------------------
\* Data::Close never reaches the io_loop of the current attempt, however
\* many reconnects are fired while older io_loops still hold the channel.
THEOREM CloseHitsOldOnlyHolds == Spec => []CloseHitsOldOnly
<1>1. Init => RoundsOrdered /\ CloseHitsOldOnly
  BY RoundsInit DEF Init, CloseHitsOldOnly
<1>2. Frame /\ RoundsOrdered /\ CloseHitsOldOnly /\ [Next]_vars
        => RoundsOrdered' /\ CloseHitsOldOnly'
  BY RoundsNext, CloseNext
<1>3. QED
  BY <1>1, <1>2, FrameHolds, PTL DEF Spec

\* A session marked disconnected has no io_loop of its newest round left:
\* the end of an older round never passes for the end of the newest.
THEOREM DisconnectedHasEndedHolds == Spec => []DisconnectedHasEnded
<1>1. Init => RoundsOrdered /\ DisconnectedHasEnded
  BY RoundsInit DEF Init, DisconnectedHasEnded
<1>2. Frame /\ RoundsOrdered /\ DisconnectedHasEnded /\ [Next]_vars
        => RoundsOrdered' /\ DisconnectedHasEnded'
  BY RoundsNext, DisconnectedNext
<1>3. QED
  BY <1>1, <1>2, FrameHolds, PTL DEF Spec

\* After a start or a close, each thread of an older session gets at most
\* one update and its video thread at most one frame past the generation
\* check; the checks bound the disturbance although they cannot exclude it.
THEOREM OneLateUpdateHolds == Spec => OneLateUpdate
<1>1. Init => LateAreDone
  BY DEF Init, LateAreDone
<1>2. Frame /\ LateAreDone /\ [Next]_vars => LateAreDone'
  BY LateNext
<1>3. LateAreDone /\ [Next]_vars =>
        [\A l \in Loops :
           /\ Updates(l) /\ gen[l] # generation => l \notin lateUpdate
           /\ publish_real_video_frame(l) /\ gen[l] # generation => l \notin lateFrame]_vars
  BY DEF LateAreDone, Updates, WriteConnected, WriteError, publish_real_video_frame, Writing
<1>4. QED
  BY <1>1, <1>2, <1>3, FrameHolds, PTL DEF Spec, OneLateUpdate
=============================================================================
