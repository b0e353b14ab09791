-------------------------- MODULE FileSessionProofs --------------------------
(***************************************************************************)
(* The safety properties of FileSession, for any number of starts,         *)
(* openings, closings and late updates.                                    *)
(***************************************************************************)
EXTENDS FileSession, TLAPS

\* A generation has no thread before ReadSpawn gives it one, and the newest has none while
\* a command is under way or no file session is there: so nothing of a session in place
\* sees the peer id or the pending directory change.
Fresh ==
  \A g \in Gens :
    g > generation \/ (g = generation /\ (ui # "ready" \/ current = 0)) => pc[g] = "none"

\* close_success of the session in place takes a directory asked for at its peer.
TakesOwn ==
  \A g \in Gens : g = generation /\ taken[g] \notin {0, Blank} => taken[g] = pw[g]

\* What a session in place finds in the globals.
InPlace ==
  \A g \in Gens : g = generation /\ pc[g] # "none" =>
    /\ pw[g] = starts /\ pending \in {0, Blank, pw[g]}
    /\ pw[g] \notin lateIn => peerId = peer[g]

\* Between the steps of the UI thread.
UiInv ==
  /\ active => password = starts
  /\ peerId <= starts
  /\ active /\ starts \notin lateIn => peerId = starts
  /\ ui \in {"readBump", "readSpawn"} =>
       /\ active /\ pending \in {0, Blank, starts} /\ uiPeer <= starts
       /\ starts \notin lateIn => uiPeer = starts
  /\ ui = "readBump" => generation < MaxGen
  /\ ui = "readSpawn" => generation > 0
  /\ ui \in {"closeSend", "closeDrop", "closePending"} /\ command = "start" =>
       starts < MaxStarts
  /\ ui = "startState" => starts < MaxStarts

\* The session that the commands find is the newest, of the remote-control session in place.
Current ==
  /\ ui \in {"closePending", "startState", "closeState", "readBump", "readSpawn"} => current = 0
  /\ ui = "ready" /\ current # 0 => current = generation /\ pw[current] = starts

Returns == Live \union {"none", "take", "authed", "ended"}

\* Between the steps of a callback.
Callbacks ==
  \A g \in Gens :
    /\ then[g] \in Returns
    /\ pc[g] # "send" => taken[g] = 0
    /\ pw[g] \notin lateIn /\ pc[g] = "check" /\ g = generation => cbPeer[g] = peer[g]
    /\ pw[g] \notin lateIn /\ pc[g] = "queue" => cbPeer[g] = peer[g]
    /\ g \in lateEvent => g < generation /\ pc[g] # "queue"

IInv == TypeOK /\ PasswordOfPeer /\ TakesOwn /\ Fresh /\ InPlace /\ UiInv /\ Current /\ Callbacks

USE BoundAssumption DEF Peers, Gens, Blank, Dirs

-----------------------------------------------------------------------------
LEMMA InitOK == Init => IInv
<1> SUFFICES ASSUME Init PROVE IInv
  OBVIOUS
<1> USE DEF Init
<1>1. TypeOK
  <2>1. active \in BOOLEAN
    BY Zenon
  <2>2. ui \in UiLocation /\ command \in {"none", "start", "close"}
    BY DEF UiLocation
  <2>3. pc \in [Gens -> Location] /\ then \in [Gens -> Location]
    BY DEF Location
  <2>4. /\ peer \in [Gens -> Peers] /\ pw \in [Gens -> Peers]
        /\ cbPeer \in [Gens -> Peers] /\ taken \in [Gens -> Dirs]
    OBVIOUS
  <2>5. asked \in [Gens -> SUBSET Peers] /\ toPeer \in [Gens -> SUBSET Peers]
    OBVIOUS
  <2>6. generation \in 0 .. MaxGen /\ current \in 0 .. generation /\ late \in Nat
    OBVIOUS
  <2>7. starts \in Peers /\ peerId \in Peers /\ password \in Peers /\ pending \in Peers
        /\ uiPeer \in Peers
    OBVIOUS
  <2>8. closing \subseteq Gens /\ answered \subseteq Gens /\ lateEvent \subseteq Gens
    OBVIOUS
  <2> QED BY <2>1, <2>2, <2>3, <2>4, <2>5, <2>6, <2>7, <2>8 DEF TypeOK
<1>2. PasswordOfPeer /\ TakesOwn /\ Fresh /\ InPlace /\ UiInv /\ Current
  BY DEF PasswordOfPeer, TakesOwn, Fresh, InPlace, UiInv, Current
<1>3. Callbacks
  BY DEF Callbacks, Returns
<1> QED
  BY <1>1, <1>2, <1>3 DEF IInv

\* The steps of the UI thread that touch neither the threads nor what they read, but for
\* the channels.
LEMMA CloseOK ==
  ASSUME IInv, CloseBump("start") \/ CloseBump("close") \/ CloseSend \/ CloseDrop \/ ClosePending
  PROVE  IInv'
<1> USE DEF IInv, app, slot, uiVars, ident, thread, channel, history, UiGoto
<1>1. ASSUME NEW c \in {"start", "close"}, CloseBump(c) PROVE IInv'
  <2>1. /\ ui = "ready" /\ ui' = "closeSend" /\ command' = c
        /\ generation < MaxGen /\ generation' = generation + 1
        /\ c = "start" => starts < MaxStarts
        /\ UNCHANGED <<app, current, pending, uiPeer, ident, thread, channel, history>>
    BY <1>1 DEF CloseBump, Begin
  <2>2. TypeOK'
    BY <2>1, SMTT(30) DEF TypeOK, UiLocation
  <2>3. \A g \in Gens : g = generation + 1 => pc[g] = "none"
    BY <2>1 DEF Fresh, TypeOK
  <2>4. PasswordOfPeer' /\ TakesOwn'
    BY <2>1, <2>3 DEF PasswordOfPeer, TakesOwn, Callbacks
  <2>5. Fresh' /\ InPlace' /\ Current'
    BY <2>1, <2>3 DEF Fresh, InPlace, Current, TypeOK
  <2>6. UiInv'
    BY <2>1 DEF UiInv
  <2>7. Callbacks'
    <3>1. UNCHANGED <<then, pc, taken, cbPeer, peer, pw, lateEvent, lateIn>> /\ generation \in Nat
      BY <2>1 DEF TypeOK
    <3>2. \A g \in Gens : g < generation => g < generation'
      BY <2>1, <3>1
    <3> QED BY <2>1, <2>3, <3>1, <3>2 DEF Callbacks
  <2> QED BY <2>2, <2>4, <2>5, <2>6, <2>7
<1>2. ASSUME CloseSend \/ CloseDrop \/ ClosePending PROVE IInv'
  <2>1. /\ UNCHANGED <<app, generation, ident, thread, asked, toPeer, history, command, uiPeer>>
        /\ pending' \in {0, pending} /\ current' \in {0, current}
        /\ closing' \subseteq Gens
    BY <1>2 DEF CloseSend, CloseDrop, ClosePending, TypeOK
  <2>2. /\ ui \in {"closeSend", "closeDrop", "closePending"}
        /\ ui' \in {"closeDrop", "closePending", "startState", "closeState"}
        /\ ui' = "startState" => command = "start"
        /\ ui' # "closeDrop" => current' = 0
    BY <1>2 DEF CloseSend, CloseDrop, ClosePending, Current
  <2>3. TypeOK'
    BY <2>1, <2>2, SMTT(30) DEF TypeOK, UiLocation
  <2>4. PasswordOfPeer' /\ TakesOwn' /\ Fresh' /\ InPlace' /\ Current'
    BY <2>1, <2>2 DEF PasswordOfPeer, TakesOwn, Fresh, InPlace, Current
  <2>5. UiInv'
    BY <2>1, <2>2 DEF UiInv
  <2>6. Callbacks'
    BY <2>1 DEF Callbacks
  <2> QED BY <2>3, <2>4, <2>5, <2>6
<1> QED BY <1>1, <1>2

LEMMA StateOK ==
  ASSUME IInv, StartState \/ CloseState \/ LateUpdate
  PROVE  IInv'
<1> USE DEF IInv, app, slot, uiVars, ident, thread, channel, history, UiGoto
<1>1. CASE StartState \/ CloseState
  <2>1. /\ UNCHANGED <<slot, pending, command, uiPeer, ident, thread, channel, history>>
        /\ peerId' = password' /\ ui \in {"startState", "closeState"} /\ ui' = "ready"
        /\ starts' \in Peers /\ password' \in Peers /\ peerId' \in {0, starts'}
        /\ active' => peerId' = starts'
    <3>1. CASE StartState  BY <3>1 DEF StartState, TypeOK, UiInv
    <3>2. CASE CloseState  BY <3>2 DEF CloseState, TypeOK
    <3> QED BY <1>1, <3>1, <3>2
  <2>2. active' \in BOOLEAN /\ (active' => password' = starts')
    <3>1. CASE StartState  BY <3>1 DEF StartState
    <3>2. CASE CloseState  BY <3>2 DEF CloseState
    <3> QED BY <1>1, <3>1, <3>2
  <2>3. TypeOK'
    BY <2>1, <2>2 DEF TypeOK, UiLocation
  <2>4. current = 0 /\ \A g \in Gens : g = generation => pc[g] = "none"
    BY <2>1 DEF Current, Fresh
  <2>5. PasswordOfPeer' /\ TakesOwn' /\ Fresh' /\ InPlace' /\ Current' /\ UiInv'
    <3>1. PasswordOfPeer' /\ TakesOwn'
      BY <2>1 DEF PasswordOfPeer, TakesOwn
    <3>2. Fresh' /\ InPlace' /\ Current'
      BY <2>1, <2>4 DEF Fresh, InPlace, Current
    <3>3. UiInv'
      BY <2>1, <2>2 DEF UiInv, TypeOK
    <3> QED BY <3>1, <3>2, <3>3
  <2>6. Callbacks'
    BY <2>1 DEF Callbacks
  <2> QED BY <2>3, <2>4, <2>5, <2>6
<1>2. CASE LateUpdate
  <2>1. /\ UNCHANGED <<starts, active, password, slot, pending, uiVars, ident, thread,
                       channel, answered, lateEvent, stolen>>
        /\ late' = late + 1 /\ lateIn' = lateIn \union {starts} /\ peerId' \in 0 .. starts
    BY <1>2 DEF LateUpdate, TypeOK
  <2>2. TypeOK'
    <3>1. active' \in BOOLEAN
      BY <2>1, Zenon DEF TypeOK
    <3>2. late' \in Nat /\ peerId' \in Peers /\ lateIn' \subseteq Peers
      BY <2>1 DEF TypeOK
    <3> QED BY <2>1, <3>1, <3>2 DEF TypeOK
  <2>3. PasswordOfPeer' /\ TakesOwn' /\ Fresh' /\ InPlace' /\ Current'
    BY <2>1 DEF PasswordOfPeer, TakesOwn, Fresh, InPlace, Current
  <2>4. UiInv'
    BY <2>1 DEF UiInv
  <2>5. Callbacks'
    BY <2>1 DEF Callbacks
  <2> QED BY <2>2, <2>3, <2>4, <2>5
<1> QED BY <1>1, <1>2

LEMMA ReadOK ==
  ASSUME IInv, ReadMore \/ ReadBegin \/ ReadBump \/ ReadSpawn
  PROVE  IInv'
<1> USE DEF IInv, app, slot, uiVars, ident, thread, channel, history, UiGoto
<1>1. CASE ReadMore
  <2>1. asked' \in [Gens -> SUBSET Peers]
    BY <1>1 DEF ReadMore, Read, TypeOK
  <2>2. UNCHANGED <<app, slot, pending, uiVars, ident, thread, closing, toPeer, history>>
    BY <1>1 DEF ReadMore
  <2>3. TypeOK'
    BY <2>1, <2>2 DEF TypeOK
  <2>4. PasswordOfPeer' /\ TakesOwn' /\ Fresh' /\ InPlace' /\ UiInv' /\ Current'
    BY <2>2 DEF PasswordOfPeer, TakesOwn, Fresh, InPlace, UiInv, Current
  <2>5. Callbacks'
    BY <2>2 DEF Callbacks
  <2> QED BY <2>3, <2>4, <2>5
<1>2. CASE ReadBegin
  <2>1. /\ UNCHANGED <<app, slot, command, ident, thread, channel, history>>
        /\ ui = "ready" /\ current = 0 /\ active /\ generation < MaxGen
        /\ uiPeer' = peerId /\ pending' \in {starts, Blank} /\ ui' = "readBump"
    BY <1>2 DEF ReadBegin
  <2>2. TypeOK'
    BY <2>1 DEF TypeOK, UiLocation
  <2>3. PasswordOfPeer' /\ TakesOwn' /\ Fresh' /\ InPlace' /\ Current'
    BY <2>1 DEF PasswordOfPeer, TakesOwn, Fresh, InPlace, Current
  <2>4. UiInv'
    BY <2>1 DEF UiInv
  <2>5. Callbacks'
    BY <2>1 DEF Callbacks
  <2> QED BY <2>2, <2>3, <2>4, <2>5
<1>3. CASE ReadBump
  <2>1. /\ UNCHANGED <<app, current, pending, command, uiPeer, ident, thread, channel, history>>
        /\ ui = "readBump" /\ ui' = "readSpawn"
        /\ generation < MaxGen /\ generation' = generation + 1
    BY <1>3 DEF ReadBump, UiInv
  <2>2. TypeOK'
    BY <2>1, SMTT(30) DEF TypeOK, UiLocation
  <2>3. \A g \in Gens : g = generation + 1 => pc[g] = "none"
    BY <2>1 DEF Fresh, TypeOK
  <2>4. PasswordOfPeer' /\ TakesOwn'
    BY <2>1, <2>3 DEF PasswordOfPeer, TakesOwn, Callbacks
  <2>5. Fresh' /\ InPlace' /\ Current'
    BY <2>1, <2>3 DEF Fresh, InPlace, Current, TypeOK
  <2>6. UiInv'
    BY <2>1 DEF UiInv, TypeOK
  <2>7. Callbacks'
    <3>1. UNCHANGED <<then, pc, taken, cbPeer, peer, pw, lateEvent, lateIn>> /\ generation \in Nat
      BY <2>1 DEF TypeOK
    <3>2. \A g \in Gens : g < generation => g < generation'
      BY <2>1, <3>1
    <3> QED BY <2>1, <2>3, <3>1, <3>2 DEF Callbacks
  <2> QED BY <2>2, <2>4, <2>5, <2>6, <2>7
<1>4. CASE ReadSpawn
  <2> DEFINE n == generation
  <2>1. /\ UNCHANGED <<app, generation, pending, command, then, cbPeer, taken, channel, history>>
        /\ ui = "readSpawn" /\ ui' = "ready" /\ uiPeer' = 0 /\ current' = n
        /\ peer' = [peer EXCEPT ![n] = uiPeer] /\ pw' = [pw EXCEPT ![n] = password]
        /\ pc' = [pc EXCEPT ![n] = "spawned"]
    BY <1>4 DEF ReadSpawn, Goto
  <2>2. n \in Gens /\ pc[n] = "none" /\ taken[n] = 0
    BY <2>1 DEF UiInv, Fresh, Callbacks, TypeOK
  <2>3. TypeOK'
    <3>1. pc' \in [Gens -> Location] /\ ui' \in UiLocation
      <4>1. pc \in [Gens -> Location]
        BY DEF TypeOK
      <4> QED BY <2>1, <2>2, <4>1 DEF UiLocation, Location
    <3>2. peer' \in [Gens -> Peers] /\ pw' \in [Gens -> Peers] /\ current' \in 0 .. generation'
      <4>1. peer \in [Gens -> Peers] /\ pw \in [Gens -> Peers]
            /\ uiPeer \in Peers /\ password \in Peers
        BY DEF TypeOK
      <4> QED BY <2>1, <2>2, <4>1
    <3>3. active' \in BOOLEAN
      <4>1. active' = active
        BY <2>1
      <4>2. active \in BOOLEAN
        BY Zenon DEF TypeOK
      <4> QED BY <4>1, <4>2
    <3>4. /\ starts' \in Peers /\ peerId' \in Peers /\ password' \in Peers
          /\ generation' \in 0 .. MaxGen /\ pending' \in Dirs /\ uiPeer' \in Peers
          /\ command' \in {"none", "start", "close"} /\ late' \in Nat
      BY <2>1 DEF TypeOK
    <3>5. /\ then' \in [Gens -> Location] /\ cbPeer' \in [Gens -> Peers]
          /\ taken' \in [Gens -> Dirs] /\ closing' \subseteq Gens
          /\ asked' \in [Gens -> SUBSET Peers] /\ toPeer' \in [Gens -> SUBSET Peers]
          /\ answered' \subseteq Gens /\ lateEvent' \subseteq Gens
          /\ lateIn' \subseteq Peers /\ stolen' \subseteq 0 .. MaxGen
      BY <2>1 DEF TypeOK
    <3> QED BY <3>1, <3>2, <3>3, <3>4, <3>5 DEF TypeOK
  <2>4. /\ password = starts /\ pending \in {0, Blank, starts} /\ uiPeer <= starts
        /\ starts \notin lateIn => uiPeer = starts /\ peerId = starts
    BY <2>1 DEF UiInv
  <2>5. PasswordOfPeer' /\ TakesOwn'
    BY <2>1, <2>2, <2>4 DEF PasswordOfPeer, TakesOwn, TypeOK
  <2>6. Fresh' /\ InPlace' /\ Current'
    BY <2>1, <2>2, <2>4, SMTT(30) DEF Fresh, InPlace, Current, TypeOK
  <2>7. UiInv'
    BY <2>1 DEF UiInv
  <2>8. Callbacks'
    BY <2>1, <2>2 DEF Callbacks, TypeOK
  <2> QED BY <2>3, <2>5, <2>6, <2>7, <2>8
<1> QED BY <1>1, <1>2, <1>3, <1>4

\* What most steps of a thread leave alone, and what they may not do to its callback.
LEMMA ThreadOK ==
  ASSUME IInv, NEW g \in Gens,
         UNCHANGED <<app, slot, pending, uiVars, ident, closing, late, lateIn, stolen>>,
         asked' \in [Gens -> SUBSET Peers], toPeer' \in [Gens -> SUBSET Peers],
         answered' \subseteq Gens, lateEvent' = lateEvent,
         pc[g] # "none", pc' \in [Gens -> Location],
         \A h \in Gens \ {g} : pc'[h] = pc[h],
         pc'[g] \in Location \ {"check", "queue", "send"},
         then' \in [Gens -> Returns],
         UNCHANGED cbPeer,
         taken' \in [Gens -> Dirs], taken'[g] = 0,
         \A h \in Gens \ {g} : taken'[h] = taken[h]
  PROVE  IInv'
<1> USE DEF IInv, app, slot, uiVars, ident
<1>1. TypeOK'
  <2>1. then' \in [Gens -> Location]
    BY DEF Returns, Location
  <2>2. active' \in BOOLEAN
    <3>1. active' = active
      OBVIOUS
    <3> QED BY <3>1, Zenon DEF TypeOK
  <2> QED BY <2>1, <2>2 DEF TypeOK
<1>2. PasswordOfPeer' /\ TakesOwn'
  BY DEF PasswordOfPeer, TakesOwn
<1>3. Fresh' /\ InPlace' /\ Current'
  BY DEF Fresh, InPlace, Current
<1>4. UiInv'
  BY DEF UiInv
<1>5. Callbacks'
  <2> SUFFICES ASSUME NEW h \in Gens
               PROVE  /\ then'[h] \in Returns
                      /\ pc'[h] # "send" => taken'[h] = 0
                      /\ pw[h] \notin lateIn /\ pc'[h] = "check" /\ h = generation => cbPeer[h] = peer[h]
                      /\ pw[h] \notin lateIn /\ pc'[h] = "queue" => cbPeer[h] = peer[h]
                      /\ h \in lateEvent => h < generation /\ pc'[h] # "queue"
    BY DEF Callbacks
  <2>1. CASE h = g
    BY <2>1 DEF Callbacks
  <2>2. CASE h # g
    <3>1. pc'[h] = pc[h] /\ taken'[h] = taken[h]
      BY <2>2
    <3> QED BY <3>1 DEF Callbacks
  <2> QED BY <2>1, <2>2
<1> QED BY <1>1, <1>2, <1>3, <1>4, <1>5

LEMMA LoopOK ==
  ASSUME IInv, NEW g \in Gens,
         \/ InstallSender(g) \/ Connected(g) \/ Fails(g) \/ Refused(g) \/ Accepted(g)
         \/ Forward(g) \/ Listed(g) \/ ReceiveClose(g)
  PROVE  IInv'
<1> USE DEF IInv, thread, channel, history
<1>1. pc \in [Gens -> Location] /\ then \in [Gens -> Returns] /\ taken \in [Gens -> Dirs]
  BY DEF TypeOK, Callbacks
<1>2. CASE InstallSender(g) \/ ReceiveClose(g)
  <2>1. /\ pc[g] \notin {"none", "send"} /\ Goto(g, pc'[g]) /\ pc'[g] \in {"starting", "ended"}
        /\ UNCHANGED <<app, slot, pending, uiVars, ident, then, cbPeer, taken, channel, history>>
    BY <1>1, <1>2 DEF InstallSender, ReceiveClose, Goto, Live
  <2>2. taken[g] = 0
    BY <2>1 DEF Callbacks
  <2>3. /\ pc' \in [Gens -> Location] /\ \A h \in Gens \ {g} : pc'[h] = pc[h]
        /\ pc'[g] \in Location \ {"check", "queue", "send"}
    BY <1>1, <2>1 DEF Goto, Location, Live
  <2> QED BY <1>1, <2>1, <2>2, <2>3, ThreadOK DEF TypeOK
<1>3. ASSUME NEW p \in Returns, NEW q \in Returns, Callback(g, p, q),
             pc[g] \in Live \union {"starting", "authed"},
             UNCHANGED <<app, slot, pending, uiVars, ident, channel, history>>
      PROVE  IInv'
  <2>1. /\ Goto(g, pc'[g]) /\ pc'[g] \in Returns \union {"peer"}
        /\ then' \in [Gens -> Returns] /\ UNCHANGED <<cbPeer, taken>>
    BY <1>1, <1>3 DEF Callback, Goto
  <2>2. taken[g] = 0 /\ pc[g] # "none"
    BY <1>3 DEF Callbacks, Live
  <2>3. /\ pc' \in [Gens -> Location] /\ \A h \in Gens \ {g} : pc'[h] = pc[h]
        /\ pc'[g] \in Location \ {"check", "queue", "send"}
    BY <1>1, <2>1 DEF Goto, Location, Live, Returns
  <2> QED BY <1>1, <1>3, <2>1, <2>2, <2>3, ThreadOK DEF TypeOK
<1>4. CASE Connected(g) \/ Fails(g) \/ Refused(g) \/ Accepted(g)
  BY <1>3, <1>4 DEF Connected, Fails, Refused, Accepted, Returns, Live
<1>5. CASE Forward(g)
  <2>1. /\ pc[g] \notin {"none", "check", "queue", "send"} /\ UNCHANGED <<thread, closing, lateEvent, late, lateIn, stolen>>
        /\ UNCHANGED <<app, slot, pending, uiVars, ident>>
        /\ answered' \subseteq Gens
    BY <1>5 DEF Forward, Live, TypeOK
  <2>2. asked' \in [Gens -> SUBSET Peers] /\ toPeer' \in [Gens -> SUBSET Peers]
    <3>1. PICK d \in asked[g] :
            /\ asked' = [asked EXCEPT ![g] = @ \ {d}]
            /\ toPeer' = [toPeer EXCEPT ![g] = IF pc[g] = "authed" THEN @ \union {d} ELSE @]
      BY <1>5 DEF Forward
    <3>2. asked[g] \subseteq Peers /\ toPeer[g] \subseteq Peers
      BY DEF TypeOK
    <3> QED BY <3>1, <3>2 DEF TypeOK
  <2>3. taken[g] = 0
    BY <2>1 DEF Callbacks
  <2> QED BY <1>1, <2>1, <2>2, <2>3, ThreadOK DEF TypeOK
<1>6. CASE Listed(g)
  <2>1. /\ pc[g] = "authed" /\ Goto(g, "peer") /\ then' = [then EXCEPT ![g] = "authed"]
        /\ UNCHANGED <<app, slot, pending, uiVars, ident, cbPeer, taken, closing, asked, history>>
    BY <1>6 DEF Listed
  <2>2. toPeer' \in [Gens -> SUBSET Peers] /\ then' \in [Gens -> Returns]
    BY <1>1, <1>6, <2>1 DEF Listed, TypeOK, Returns
  <2>3. taken[g] = 0 /\ taken \in [Gens -> Dirs] /\ asked \in [Gens -> SUBSET Peers]
        /\ answered \subseteq Gens
    BY <2>1 DEF Callbacks, TypeOK
  <2>4. pc' \in [Gens -> Location] /\ pc'[g] = "peer" /\ \A h \in Gens \ {g} : pc'[h] = pc[h]
    BY <2>1 DEF Goto, TypeOK, Location
  <2> QED BY <1>1, <2>1, <2>2, <2>3, <2>4, ThreadOK DEF Location
<1> QED BY <1>2, <1>4, <1>5, <1>6

\* The steps by which a callback takes and sends the pending directory, and queues its event.
LEMMA CallbackOK ==
  ASSUME IInv, NEW g \in Gens, Take(g) \/ SendTaken(g) \/ ReadPeer(g) \/ Check(g)
  PROVE  IInv'
<1> USE DEF IInv, app, slot, uiVars, ident, thread, channel, history
<1>1. pc \in [Gens -> Location] /\ then \in [Gens -> Returns] /\ taken \in [Gens -> Dirs]
      /\ cbPeer \in [Gens -> Peers] /\ pending \in Dirs /\ peerId \in Peers
  BY DEF TypeOK, Callbacks
<1>2. CASE Take(g)
  <2>1. /\ pc[g] = "take" /\ pc' = [pc EXCEPT ![g] = "send"]
        /\ taken' = [taken EXCEPT ![g] = pending] /\ pending' = 0
        /\ UNCHANGED <<app, slot, uiVars, ident, then, cbPeer, channel, answered, lateEvent, late,
                       lateIn>>
    BY <1>2 DEF Take, Goto
  <2>2. stolen' \subseteq 0 .. MaxGen /\ active' \in BOOLEAN
    <3>1. stolen' \subseteq stolen \union {generation} /\ active' = active
      BY <1>2 DEF Take
    <3>2. active' \in BOOLEAN
      BY <3>1, Zenon DEF TypeOK
    <3> QED BY <3>1, <3>2 DEF TypeOK
  <2>3. pc' \in [Gens -> Location] /\ taken' \in [Gens -> Dirs]
    BY <1>1, <2>1 DEF Location
  <2>4. TypeOK'
    <3>1. /\ starts' \in Peers /\ peerId' \in Peers /\ password' \in Peers
          /\ generation' \in 0 .. MaxGen /\ current' \in 0 .. generation'
          /\ pending' \in Dirs /\ late' \in Nat /\ lateIn' \subseteq Peers
          /\ ui' \in UiLocation /\ command' \in {"none", "start", "close"} /\ uiPeer' \in Peers
      BY <2>1 DEF TypeOK
    <3>2. /\ peer' \in [Gens -> Peers] /\ pw' \in [Gens -> Peers]
          /\ then' \in [Gens -> Location] /\ cbPeer' \in [Gens -> Peers]
          /\ closing' \subseteq Gens
          /\ asked' \in [Gens -> SUBSET Peers] /\ toPeer' \in [Gens -> SUBSET Peers]
          /\ answered' \subseteq Gens /\ lateEvent' \subseteq Gens
      BY <2>1 DEF TypeOK
    <3> QED BY <2>2, <2>3, <3>1, <3>2 DEF TypeOK
  <2>5. PasswordOfPeer' /\ Fresh' /\ Current'
    BY <1>1, <2>1 DEF PasswordOfPeer, Fresh, Current
  <2>6. TakesOwn' /\ InPlace'
    BY <1>1, <2>1 DEF TakesOwn, InPlace
  <2>7. UiInv'
    BY <2>1 DEF UiInv
  <2>8. Callbacks'
    BY <1>1, <2>1 DEF Callbacks
  <2> QED BY <2>4, <2>5, <2>6, <2>7, <2>8
<1>3. CASE SendTaken(g)
  <2>1. /\ pc[g] = "send" /\ Goto(g, pc'[g]) /\ pc'[g] \in {"peer", "authed"}
        /\ then' = [then EXCEPT ![g] = "authed"] /\ taken' = [taken EXCEPT ![g] = 0]
        /\ UNCHANGED <<app, slot, pending, uiVars, ident, cbPeer, closing, toPeer, history>>
    BY <1>1, <1>3 DEF SendTaken, Goto
  <2>2. asked' \in [Gens -> SUBSET Peers]
    <3>1. asked \in [Gens -> SUBSET Peers] /\ taken[g] \in Dirs
      BY <1>1 DEF TypeOK
    <3>2. asked' = asked \/ (taken[g] \notin {0, Blank} /\ current # 0 /\ Read(current, taken[g]))
      BY <1>3 DEF SendTaken
    <3>3. current # 0 => current \in Gens
      BY DEF TypeOK
    <3> QED BY <3>1, <3>2, <3>3 DEF Read
  <2>3. /\ then' \in [Gens -> Returns] /\ taken' \in [Gens -> Dirs] /\ taken'[g] = 0
        /\ \A h \in Gens \ {g} : taken'[h] = taken[h]
    BY <1>1, <2>1 DEF Returns
  <2>4. /\ pc' \in [Gens -> Location] /\ \A h \in Gens \ {g} : pc'[h] = pc[h]
        /\ pc'[g] \in Location \ {"check", "queue", "send"}
    BY <1>1, <2>1 DEF Goto, Location
  <2> QED BY <2>1, <2>2, <2>3, <2>4, ThreadOK DEF TypeOK
<1>4. CASE ReadPeer(g) \/ Check(g)
  <2>1. /\ pc[g] \in {"peer", "check"} /\ Goto(g, pc'[g])
        /\ UNCHANGED <<app, slot, pending, uiVars, ident, taken, channel, history>>
        /\ cbPeer' \in [Gens -> Peers] /\ then' \in [Gens -> Returns]
        /\ \A h \in Gens \ {g} : cbPeer'[h] = cbPeer[h]
    BY <1>1, <1>4 DEF ReadPeer, Check, Return, Goto, Returns
  <2>2. /\ pc[g] = "peer" => pc'[g] = "check" /\ cbPeer'[g] = peerId
        /\ pc[g] = "check" => /\ pc'[g] \in Returns \union {"queue"}
                              /\ pc'[g] = "queue" => g = generation /\ cbPeer' = cbPeer
    BY <1>1, <1>4 DEF ReadPeer, Check, Return, Goto, is_current, Returns, Live
  <2>3. pc' \in [Gens -> Location] /\ \A h \in Gens \ {g} : pc'[h] = pc[h]
    BY <1>1, <2>1, <2>2 DEF Goto, Location, Returns, Live
  <2>4. TypeOK'
    <3>1. active' \in BOOLEAN
      <4>1. active' = active
        BY <2>1
      <4> QED BY <4>1, Zenon DEF TypeOK
    <3>2. then' \in [Gens -> Location]
      BY <2>1 DEF Returns, Location
    <3> QED BY <2>1, <2>3, <3>1, <3>2 DEF TypeOK
  <2>5. PasswordOfPeer' /\ TakesOwn' /\ Fresh' /\ InPlace' /\ Current'
    BY <2>1, <2>3 DEF PasswordOfPeer, TakesOwn, Fresh, InPlace, Current
  <2>6. UiInv'
    BY <2>1 DEF UiInv
  <2>7. Callbacks'
    <3>1. UNCHANGED <<taken, generation, peer, pw, lateEvent, lateIn>>
      BY <2>1
    <3>2. pw[g] \notin lateIn /\ pc'[g] = "check" /\ g = generation => cbPeer'[g] = peer[g]
      BY <2>1, <2>2 DEF InPlace, Returns, Live
    <3>3. pw[g] \notin lateIn /\ pc'[g] = "queue" => cbPeer'[g] = peer[g]
      BY <2>1, <2>2 DEF Callbacks
    <3>4. taken[g] = 0
      BY <2>1 DEF Callbacks
    <3>5. g \in lateEvent => g < generation /\ pc'[g] # "queue"
      <4>1. g \in lateEvent => g # generation /\ g < generation
        BY DEF Callbacks, TypeOK
      <4> QED BY <2>1, <2>2, <4>1
    <3> DEFINE Own(h) ==
          /\ then'[h] \in Returns
          /\ pc'[h] # "send" => taken'[h] = 0
          /\ pw'[h] \notin lateIn' /\ pc'[h] = "check" /\ h = generation' => cbPeer'[h] = peer'[h]
          /\ pw'[h] \notin lateIn' /\ pc'[h] = "queue" => cbPeer'[h] = peer'[h]
          /\ h \in lateEvent' => h < generation' /\ pc'[h] # "queue"
    <3>6. \A h \in Gens \ {g} : Own(h)
      BY <1>1, <2>1, <2>3, <3>1 DEF Callbacks
    <3>7. Own(g)
      BY <2>1, <3>1, <3>2, <3>3, <3>4, <3>5
    <3> QED BY <3>6, <3>7 DEF Callbacks
  <2> QED BY <2>4, <2>5, <2>6, <2>7
<1> QED BY <1>2, <1>3, <1>4

LEMMA QueueOK ==
  ASSUME IInv, NEW g \in Gens, queue_event(g)
  PROVE  IInv'
<1> USE DEF IInv, app, slot, uiVars, ident, channel
<1>1. pc \in [Gens -> Location] /\ then \in [Gens -> Returns]
  BY DEF TypeOK, Callbacks
<1>2. /\ pc[g] = "queue" /\ pc' = [pc EXCEPT ![g] = then[g]]
      /\ then' \in [Gens -> Returns] /\ cbPeer' \in [Gens -> Peers]
      /\ \A h \in Gens \ {g} : cbPeer'[h] = cbPeer[h]
      /\ UNCHANGED <<app, slot, pending, uiVars, ident, taken, channel, late, lateIn, stolen>>
      /\ answered' \subseteq Gens
      /\ lateEvent' = IF g = generation THEN lateEvent ELSE lateEvent \union {g}
  BY <1>1 DEF queue_event, Return, Goto, Returns, TypeOK
<1>3. g <= generation
  BY <1>2 DEF Fresh, TypeOK
<1>4. TypeOK'
  <2>1. pc' \in [Gens -> Location]
    BY <1>1, <1>2 DEF Returns, Location, Live
  <2>2. active' \in BOOLEAN
    <3>1. active' = active
      BY <1>2
    <3> QED BY <3>1, Zenon DEF TypeOK
  <2>3. then' \in [Gens -> Location]
    BY <1>2 DEF Returns, Location
  <2> QED BY <1>2, <2>1, <2>2, <2>3 DEF TypeOK
<1>5. PasswordOfPeer' /\ TakesOwn' /\ Fresh' /\ InPlace' /\ UiInv' /\ Current'
  BY <1>1, <1>2 DEF PasswordOfPeer, TakesOwn, Fresh, InPlace, UiInv, Current
<1>6. Callbacks'
  <2> DEFINE Own(h) ==
        /\ then'[h] \in Returns
        /\ pc'[h] # "send" => taken'[h] = 0
        /\ pw'[h] \notin lateIn' /\ pc'[h] = "check" /\ h = generation' => cbPeer'[h] = peer'[h]
        /\ pw'[h] \notin lateIn' /\ pc'[h] = "queue" => cbPeer'[h] = peer'[h]
        /\ h \in lateEvent' => h < generation' /\ pc'[h] # "queue"
  <2>1. UNCHANGED <<taken, generation, peer, pw, lateIn>>
    BY <1>2
  <2>2. \A h \in Gens \ {g} : Own(h)
    <3>1. \A h \in Gens \ {g} : pc'[h] = pc[h] /\ cbPeer'[h] = cbPeer[h]
                                /\ (h \in lateEvent' => h \in lateEvent)
      BY <1>1, <1>2
    <3> QED BY <1>2, <2>1, <3>1 DEF Callbacks
  <2>3. Own(g)
    <3>1. pc'[g] \in Returns /\ then'[g] \in Returns /\ taken[g] = 0
      BY <1>1, <1>2 DEF Callbacks
    <3>2. g \in lateEvent' => g < generation
      BY <1>2, <1>3 DEF Callbacks, TypeOK
    <3> QED BY <2>1, <3>1, <3>2 DEF Returns, Live
  <2> QED BY <2>2, <2>3 DEF Callbacks
<1> QED BY <1>4, <1>5, <1>6

LEMMA NextOK == IInv /\ [Next]_vars => IInv'
<1> SUFFICES ASSUME IInv, [Next]_vars PROVE IInv'
  OBVIOUS
<1>1. CASE Command \/ Continue \/ LateUpdate
  BY <1>1, CloseOK, StateOK, ReadOK DEF Command, Continue
<1>2. ASSUME NEW g \in Gens, Loop(g) \/ Forward(g) \/ Listed(g) \/ ReceiveClose(g)
      PROVE  IInv'
  BY <1>2, LoopOK, CallbackOK, QueueOK DEF Loop
<1>3. CASE UNCHANGED vars
  <2> USE <1>3 DEF IInv, vars, app, slot, uiVars, ident, thread, channel, history
  <2>1. TypeOK'
    <3>1. active' = active
      OBVIOUS
    <3>2. active' \in BOOLEAN
      BY <3>1, Zenon DEF TypeOK
    <3> QED BY <3>2 DEF TypeOK
  <2>2. PasswordOfPeer' /\ TakesOwn' /\ Fresh' /\ InPlace' /\ UiInv' /\ Current'
    BY DEF PasswordOfPeer, TakesOwn, Fresh, InPlace, UiInv, Current
  <2>3. Callbacks'
    BY DEF Callbacks
  <2> QED BY <2>1, <2>2, <2>3
<1> QED BY <1>1, <1>2, <1>3 DEF Next

-----------------------------------------------------------------------------
LEMMA Invariance == Spec => []IInv
  BY InitOK, NextOK, PTL DEF Spec

\* The globals, locals and channels keep their types; the session in place is never of a
\* generation that has not begun.
THEOREM TypeCorrect == Spec => []TypeOK
<1>1. IInv => TypeOK
  BY DEF IInv
<1> QED BY <1>1, Invariance, PTL

\* The password of a file session goes to the peer of its remote-control session, unless a
\* late callback wrote an earlier peer's id while that session was on; it never goes to a
\* later peer.
THEOREM PasswordGoesToItsPeer == Spec => []PasswordOfPeer
<1>1. IInv => PasswordOfPeer
  BY DEF IInv
<1> QED BY <1>1, Invariance, PTL

\* What the steps of a session do to the directories asked of a peer.
LEMMA DirectoriesStep ==
  ASSUME IInv, [Next]_vars, NEW g \in Gens
  PROVE  \/ asked'[g] \subseteq asked[g] \union {pw[g]}
         \/ \E h \in Gens \ {generation} : SendTaken(h)
<1> USE DEF app, slot, uiVars, ident, thread, channel, history
<1>1. asked \in [Gens -> SUBSET Peers]
  BY DEF IInv, TypeOK
<1>2. CASE ReadMore
  <2>1. ui = "ready" /\ current # 0 /\ Read(current, starts)
    BY <1>2 DEF ReadMore
  <2>2. pw[current] = starts
    BY <2>1 DEF IInv, Current
  <2> QED BY <1>1, <2>1, <2>2 DEF Read
<1>3. ASSUME NEW h \in Gens, SendTaken(h), h = generation
      PROVE  asked'[g] \subseteq asked[g] \union {pw[g]}
  <2>1. pc[h] = "send" /\ \/ asked' = asked
                          \/ taken[h] \notin {0, Blank} /\ current # 0 /\ Read(current, taken[h])
    BY <1>3 DEF SendTaken
  <2>2. current # 0 => ui = "ready" /\ current = h
    BY <1>3, <2>1 DEF IInv, Fresh, Current
  <2>3. taken[h] \notin {0, Blank} => taken[h] = pw[h]
    BY <1>3 DEF IInv, TakesOwn
  <2> QED BY <1>1, <2>1, <2>2, <2>3 DEF Read
<1>4. ASSUME NEW h \in Gens, Forward(h)
      PROVE  asked'[g] \subseteq asked[g] \union {pw[g]}
  <2>1. PICK d \in asked[h] : asked' = [asked EXCEPT ![h] = @ \ {d}]
    BY <1>4 DEF Forward
  <2> QED BY <1>1, <2>1
<1>5. ASSUME NEW h \in Gens, \/ InstallSender(h) \/ Connected(h) \/ Fails(h) \/ Refused(h)
                             \/ Accepted(h) \/ Take(h) \/ ReadPeer(h) \/ Check(h)
                             \/ queue_event(h) \/ Listed(h) \/ ReceiveClose(h)
      PROVE  asked' = asked
  BY <1>5 DEF InstallSender, Connected, Fails, Refused, Accepted, Take, ReadPeer, Check,
              queue_event, Listed, ReceiveClose
<1>6. ASSUME \/ CloseBump("start") \/ CloseBump("close") \/ ReadBegin \/ Continue \/ LateUpdate
             \/ UNCHANGED vars
      PROVE  asked' = asked
  BY <1>6 DEF CloseBump, Begin, ReadBegin, Continue, CloseSend, CloseDrop, ClosePending,
              StartState, CloseState, ReadBump, ReadSpawn, LateUpdate, vars
<1>7. CASE asked' = asked
  BY <1>7
<1> QED
  BY <1>2, <1>3, <1>4, <1>5, <1>6, <1>7 DEF Next, Command, Loop

\* A peer is asked only for directories asked for at it, but by the close_success of a session
\* that has been closed meanwhile.
THEOREM DirectoriesGoToTheirPeer == Spec => DirectoriesOfPeer
<1>1. IInv /\ [Next]_vars =>
        [\A g \in Gens : \/ asked'[g] \subseteq asked[g] \union {pw[g]}
                         \/ \E h \in Gens \ {generation} : SendTaken(h)]_vars
  BY DirectoriesStep
<1> QED BY <1>1, Invariance, PTL DEF Spec, DirectoriesOfPeer

\* An event of a file session carries the id of the peer it came from, also if the session
\* has been closed since the look at the generation, unless a late update fell into the
\* remote-control session it belongs to.
THEOREM EventsNameTheirPeer == Spec => EventsNamePeer
<1>1. IInv /\ [Next]_vars =>
        [\A g \in Gens : queue_event(g) /\ pw[g] \notin lateIn => cbPeer[g] = peer[g]]_vars
  BY DEF IInv, Callbacks, queue_event
<1> QED BY <1>1, Invariance, PTL DEF Spec, EventsNamePeer

\* A closed file session queues at most the one event it had decided on before.
THEOREM AtMostOneLateEvent == Spec => OneLateEvent
<1>1. IInv /\ [Next]_vars => [\A g \in Gens : queue_event(g) /\ g # generation => g \notin lateEvent]_vars
  BY DEF IInv, Callbacks, queue_event
<1> QED BY <1>1, Invariance, PTL DEF Spec, OneLateEvent
=============================================================================
