------------------------ MODULE IncomingServerProofs ------------------------
(***************************************************************************)
(* Proofs about IncomingServer for every set of connections and peers, and *)
(* any number of logins.                                                   *)
(***************************************************************************)
EXTENDS IncomingServer, TLAPS

(***************************************************************************)
(* NoLeak speaks of connections that have ended.  To be inductive it has   *)
(* to say which table each step of the cleanup has already emptied, and    *)
(* that the steps still to come cannot fill it again.                      *)
(***************************************************************************)
AliveIsListed ==
  \A c \in alive : pc[c] \notin {"idle", "cleanPeer", "cleanServer", "closed"}

OwnersAreRunning ==
  \A p \in Peers, c \in Conns :
    peer_conns[p] = c => pc[c] \notin {"idle", "cleanServer", "closed"}

TablesHoldRunning ==
  \A c \in connections \cup video \cup closeNotice : Running(c)

IdleNeverLoggedIn ==
  \A p \in Peers, c \in Conns : pc[c] = "idle" => lastLogin[p] # c

IInv ==
  /\ TypeOK
  /\ AliveIsListed
  /\ OwnersAreRunning
  /\ TablesHoldRunning
  /\ IdleNeverLoggedIn
  /\ NewestLoginOwnsPeer

-----------------------------------------------------------------------------
\* Type correctness: the shared tables, the tasks' locations and their local
\* flags keep their types; no table ever holds the id of nobody.
THEOREM TypeCorrect == Spec => []TypeOK
<1>1. Init => TypeOK
  <2> SUFFICES ASSUME Init PROVE TypeOK
    OBVIOUS
  <2>1. loginCount \in [Conns -> 0..MaxLogins]
    BY MaxLoginsAssumption DEF Init
  <2>2. pc \in [Conns -> Location]
    BY DEF Init, Location
  <2>3. QED
    BY <2>1, <2>2 DEF Init, TypeOK
<1>2. TypeOK /\ [Next]_vars => TypeOK'
  <2> SUFFICES ASSUME TypeOK, [Next]_vars PROVE TypeOK'
    OBVIOUS
  <2> USE DEF TypeOK, Location, local, tables, subs, wire, history, Goto
  <2>1. ASSUME NEW c \in Conns, Start(c) \/ SendHash(c) PROVE TypeOK'
    BY <2>1 DEF Start, SendHash
  <2>2. ASSUME NEW c \in Conns, LoopBreaks(c) \/ LoopGivesUp(c) PROVE TypeOK'
    BY <2>2 DEF LoopBreaks, LoopGivesUp
  <2>3. ASSUME NEW c \in Conns, DeliverCloseNotice(c) \/ PeerLeaves(c) PROVE TypeOK'
    BY <2>3 DEF DeliverCloseNotice, PeerLeaves
  <2>4. ASSUME NEW c \in Conns, NEW p \in Peers, NEW ft \in BOOLEAN, Login(c, p, ft)
        PROVE  TypeOK'
    <3>1. loginCount' \in [Conns -> 0..MaxLogins]
      BY <2>4, MaxLoginsAssumption DEF Login
    <3>2. /\ pc' \in [Conns -> Location] /\ old' \in [Conns -> Conns \cup {None}]
          /\ peerLock' \in Conns \cup {None}
      BY <2>4 DEF Login, Registered
    <3>3. /\ peer_conns' \in [Peers -> Conns \cup {None}]
          /\ lastLogin' \in [Peers -> Conns \cup {None}]
          /\ logins' \in [Conns -> SUBSET Peers]
          /\ fileTransfer' \in [Conns -> BOOLEAN]
      BY <2>4 DEF Login, Registered
    <3>4. QED
      BY <2>4, <3>1, <3>2, <3>3 DEF Login
  <2>5. ASSUME NEW c \in Conns, Notify(c) PROVE TypeOK'
    BY <2>5 DEF Notify
  <2>6. ASSUME NEW c \in Conns, Unlist(c) \/ DropOld(c) \/ Reply(c) PROVE TypeOK'
    BY <2>6 DEF Unlist, DropOld, Reply
  <2>7. ASSUME NEW c \in Conns, Register(c) PROVE TypeOK'
    BY <2>7 DEF Register
  <2>8. ASSUME NEW c \in Conns, RefreshVideo(c) PROVE TypeOK'
    BY <2>8 DEF RefreshVideo
  <2>9. ASSUME NEW c \in Conns, CleanAlive(c) \/ CleanPeer(c) PROVE TypeOK'
    BY <2>9 DEF CleanAlive, CleanPeer, Evicted
  <2>10. ASSUME NEW c \in Conns, CleanServer(c) PROVE TypeOK'
    BY <2>10 DEF CleanServer, StillSubscribed
  <2>11. CASE UNCHANGED vars
    BY <2>11 DEF vars
  <2>12. QED
    BY <2>1, <2>2, <2>3, <2>4, <2>5, <2>6, <2>7, <2>8, <2>9, <2>10, <2>11
    DEF Next, Proceed
<1>3. QED
  BY <1>1, <1>2, PTL DEF Spec

-----------------------------------------------------------------------------
LEMMA InvInit == Init /\ TypeOK => IInv
BY NoneAssumption DEF Init, IInv, AliveIsListed, OwnersAreRunning, TablesHoldRunning,
   IdleNeverLoggedIn, NewestLoginOwnsPeer

LEMMA InvNext ==
  ASSUME IInv, TypeOK', [Next]_vars
  PROVE  IInv'
<1> USE DEF IInv, AliveIsListed, OwnersAreRunning, TablesHoldRunning, IdleNeverLoggedIn,
            NewestLoginOwnsPeer, Running, local, tables, subs, wire, history, Goto
<1>0. TypeOK
  OBVIOUS
<1>1. ASSUME NEW c \in Conns, Start(c) \/ SendHash(c) PROVE IInv'
  BY <1>1, <1>0 DEF Start, SendHash, TypeOK
<1>2. ASSUME NEW c \in Conns, LoopBreaks(c) \/ LoopGivesUp(c) PROVE IInv'
  BY <1>2, <1>0 DEF LoopBreaks, LoopGivesUp, TypeOK
<1>3. ASSUME NEW c \in Conns, DeliverCloseNotice(c) \/ PeerLeaves(c) PROVE IInv'
  BY <1>3, <1>0 DEF DeliverCloseNotice, PeerLeaves, TypeOK
<1>4. ASSUME NEW c \in Conns, NEW p \in Peers, NEW ft \in BOOLEAN, Login(c, p, ft)
      PROVE  IInv'
  <2>1. pc' \in {[pc EXCEPT ![c] = "notify"], [pc EXCEPT ![c] = "reply"]} /\ pc[c] = "loop"
    BY <1>4 DEF Login, Receives
  <2>2. /\ peer_conns' = [peer_conns EXCEPT ![p] = c]
        /\ lastLogin' = [lastLogin EXCEPT ![p] = c]
        /\ UNCHANGED <<alive, connections, video, closeNotice>>
    BY <1>4 DEF Login, Registered
  <2>3. QED
    BY <2>1, <2>2, <1>0 DEF TypeOK
<1>5. ASSUME NEW c \in Conns, Notify(c) \/ Unlist(c) PROVE IInv'
  BY <1>5, <1>0 DEF Notify, Unlist, TypeOK
<1>6. ASSUME NEW c \in Conns, DropOld(c) \/ Reply(c) PROVE IInv'
  BY <1>6, <1>0 DEF DropOld, Reply, TypeOK
<1>7. ASSUME NEW c \in Conns, Register(c) PROVE IInv'
  BY <1>7, <1>0 DEF Register, TypeOK
<1>8. ASSUME NEW c \in Conns, RefreshVideo(c) PROVE IInv'
  BY <1>8, <1>0 DEF RefreshVideo, Receives, TypeOK
<1>9. ASSUME NEW c \in Conns, CleanAlive(c) PROVE IInv'
  BY <1>9, <1>0 DEF CleanAlive, TypeOK
<1>10. ASSUME NEW c \in Conns, CleanPeer(c) PROVE IInv'
  BY <1>10, <1>0, NoneAssumption DEF CleanPeer, Evicted, TypeOK
<1>11. ASSUME NEW c \in Conns, CleanServer(c) PROVE IInv'
  BY <1>11, <1>0 DEF CleanServer, StillSubscribed, TypeOK
<1>12. CASE UNCHANGED vars
  BY <1>12 DEF vars
<1>13. QED
  BY <1>1, <1>2, <1>3, <1>4, <1>5, <1>6, <1>7, <1>8, <1>9, <1>10, <1>11, <1>12
  DEF Next, Proceed

LEMMA InvHolds == Spec => []IInv
<1>1. IInv /\ TypeOK' /\ [Next]_vars => IInv'
  BY InvNext
<1>2. QED
  BY InvInit, <1>1, TypeCorrect, PTL DEF Spec

\* A connection whose cleanup is over is in none of the shared tables,
\* whoever was logging in over it, subscribing it or notifying it meanwhile.
THEOREM NoLeakHolds == Spec => []NoLeak
<1>1. IInv => NoLeak
  BY DEF IInv, NoLeak, AliveIsListed, OwnersAreRunning, TablesHoldRunning, Running
<1>2. QED
  BY <1>1, InvHolds, PTL

\* The late cleanup of a replaced connection never takes the peer id away
\* from the connection that replaced it.
THEOREM NewestLoginOwnsPeerHolds == Spec => []NewestLoginOwnsPeer
BY InvHolds, PTL DEF IInv

-----------------------------------------------------------------------------
(***************************************************************************)
(* UnlistedHasRival needs to know where a replacement gets the connection  *)
(* it unlists from: an entry of PEER_CONNS, made by a login.               *)
(***************************************************************************)
OwnersHaveLoggedIn ==
  \A p \in Peers, c \in Conns : peer_conns[p] = c => p \in logins[c]

Share(c, d) == logins[c] \cap logins[d] # {}

OldIsRival ==
  \A c \in Conns : pc[c] \in {"notify", "unlist", "drop"} =>
    old[c] \in Conns \ {c} /\ Share(c, old[c])

RivalInv == OwnersHaveLoggedIn /\ OldIsRival /\ UnlistedHasRival

LEMMA RivalNext ==
  ASSUME TypeOK, RivalInv, [Next]_vars
  PROVE  RivalInv'
<1> USE DEF RivalInv, OwnersHaveLoggedIn, OldIsRival, UnlistedHasRival, Share, Running,
            local, tables, subs, wire, history, Goto
<1>0. TypeOK /\ RivalInv
  OBVIOUS
<1>1. ASSUME NEW c \in Conns, Start(c) \/ SendHash(c) PROVE RivalInv'
  BY <1>1, <1>0 DEF Start, SendHash, TypeOK
<1>2. ASSUME NEW c \in Conns, LoopBreaks(c) \/ LoopGivesUp(c) PROVE RivalInv'
  BY <1>2, <1>0 DEF LoopBreaks, LoopGivesUp, TypeOK
<1>3. ASSUME NEW c \in Conns, DeliverCloseNotice(c) \/ PeerLeaves(c) PROVE RivalInv'
  BY <1>3, <1>0 DEF DeliverCloseNotice, PeerLeaves, TypeOK
<1>4. ASSUME NEW c \in Conns, NEW p \in Peers, NEW ft \in BOOLEAN, Login(c, p, ft)
      PROVE  RivalInv'
  <2>1. /\ peer_conns' = [peer_conns EXCEPT ![p] = c]
        /\ logins' = [logins EXCEPT ![c] = @ \cup {p}]
        /\ pc[c] = "loop"
        /\ UNCHANGED alive
    BY <1>4 DEF Login, Registered, Receives
  <2>2. \A d \in Conns : logins[d] \subseteq logins'[d]
    BY <2>1 DEF TypeOK
  <2>3. OwnersHaveLoggedIn'
    BY <2>1, <1>0 DEF TypeOK
  <2>4. \A d \in Conns \ {c} : pc'[d] = pc[d] /\ old'[d] = old[d]
    BY <1>4 DEF Login, TypeOK
  <2>5. pc'[c] = "notify" => old'[c] \in Conns \ {c} /\ p \in logins[old'[c]]
    BY <1>4, <1>0 DEF Login, Replaces, TypeOK
  <2>6. pc'[c] \in {"notify", "reply"} /\ p \in logins'[c]
    BY <1>4, <2>1 DEF Login, TypeOK
  <2>7. OldIsRival'
    BY <2>2, <2>4, <2>5, <2>6, <1>0
  <2>8. UnlistedHasRival'
    BY <2>1, <2>2, <2>4, <2>6, <1>0
  <2>9. QED
    BY <2>3, <2>7, <2>8
<1>5. ASSUME NEW c \in Conns, Notify(c) PROVE RivalInv'
  BY <1>5, <1>0 DEF Notify, TypeOK
<1>6. ASSUME NEW c \in Conns, Unlist(c) PROVE RivalInv'
  BY <1>6, <1>0 DEF Unlist, TypeOK
<1>7. ASSUME NEW c \in Conns, DropOld(c) \/ Reply(c) PROVE RivalInv'
  BY <1>7, <1>0 DEF DropOld, Reply, TypeOK
<1>8. ASSUME NEW c \in Conns, Register(c) PROVE RivalInv'
  BY <1>8, <1>0 DEF Register, TypeOK
<1>9. ASSUME NEW c \in Conns, RefreshVideo(c) PROVE RivalInv'
  BY <1>9, <1>0 DEF RefreshVideo, TypeOK
<1>10. ASSUME NEW c \in Conns, CleanAlive(c) \/ CleanServer(c) PROVE RivalInv'
  BY <1>10, <1>0 DEF CleanAlive, CleanServer, TypeOK
<1>11. ASSUME NEW c \in Conns, CleanPeer(c) PROVE RivalInv'
  BY <1>11, <1>0, NoneAssumption DEF CleanPeer, Evicted, TypeOK
<1>12. CASE UNCHANGED vars
  BY <1>12, <1>0 DEF vars
<1>13. QED
  BY <1>1, <1>2, <1>3, <1>4, <1>5, <1>6, <1>7, <1>8, <1>9, <1>10, <1>11, <1>12
  DEF Next, Proceed

\* Nobody is taken off ALIVE_CONNS by somebody else unless that one has
\* logged in under a peer id of theirs; a second login of one connection
\* never counts as its own predecessor.
THEOREM UnlistedHasRivalHolds == Spec => []UnlistedHasRival
<1>1. Init => RivalInv
  BY NoneAssumption DEF Init, RivalInv, OwnersHaveLoggedIn, OldIsRival, UnlistedHasRival, Running
<1>2. TypeOK /\ RivalInv /\ [Next]_vars => RivalInv'
  BY RivalNext
<1>3. RivalInv => UnlistedHasRival
  BY DEF RivalInv
<1>4. QED
  BY <1>1, <1>2, <1>3, TypeCorrect, PTL DEF Spec

-----------------------------------------------------------------------------
\* The calls that the connection tasks make on the video service are those
\* of a set of viewers that everybody leaves exactly once.
THEOREM ImplementsViewers == Spec => ConnectionsAreViewers
<1> DEFINE left == {c \in Conns : pc[c] = "closed"}
<1> USE DEF local, tables, subs, wire, history, Goto, Viewers!Join, Viewers!Leave, Viewers!Next
<1>1. Init => Viewers!Init
  BY DEF Init, Viewers!Init
<1>2. TypeOK /\ [Next]_vars => [Viewers!Next]_<<video, left>>
  <2> SUFFICES ASSUME TypeOK, [Next]_vars
               PROVE  Viewers!Next \/ UNCHANGED <<video, left>>
    OBVIOUS
  <2> USE DEF TypeOK
  <2>1. ASSUME NEW c \in Conns, Register(c) PROVE Viewers!Join(c) \/ UNCHANGED <<video, left>>
    BY <2>1 DEF Register
  <2>2. ASSUME NEW c \in Conns, RefreshVideo(c) PROVE Viewers!Join(c) \/ UNCHANGED <<video, left>>
    BY <2>2 DEF RefreshVideo, Receives
  <2>3. ASSUME NEW c \in Conns, CleanServer(c) PROVE Viewers!Leave(c)
    BY <2>3 DEF CleanServer, StillSubscribed
  <2>4. ASSUME NEW c \in Conns, Start(c) \/ SendHash(c) \/ LoopBreaks(c) \/ LoopGivesUp(c)
        PROVE  UNCHANGED <<video, left>>
    BY <2>4 DEF Start, SendHash, LoopBreaks, LoopGivesUp
  <2>5. ASSUME NEW c \in Conns, DeliverCloseNotice(c) \/ PeerLeaves(c)
        PROVE  UNCHANGED <<video, left>>
    BY <2>5 DEF DeliverCloseNotice, PeerLeaves
  <2>6. ASSUME NEW c \in Conns, NEW p \in Peers, NEW ft \in BOOLEAN, Login(c, p, ft)
        PROVE  UNCHANGED <<video, left>>
    BY <2>6 DEF Login, Receives
  <2>7. ASSUME NEW c \in Conns, Notify(c) \/ Unlist(c) \/ DropOld(c) \/ Reply(c)
        PROVE  UNCHANGED <<video, left>>
    BY <2>7 DEF Notify, Unlist, DropOld, Reply
  <2>8. ASSUME NEW c \in Conns, CleanAlive(c) \/ CleanPeer(c) PROVE UNCHANGED <<video, left>>
    BY <2>8 DEF CleanAlive, CleanPeer, Evicted
  <2>9. CASE UNCHANGED vars
    BY <2>9 DEF vars
  <2>10. QED
    BY <2>1, <2>2, <2>3, <2>4, <2>5, <2>6, <2>7, <2>8, <2>9 DEF Next, Proceed
<1>3. QED
  BY <1>1, <1>2, TypeCorrect, PTL DEF Spec, ConnectionsAreViewers, Viewers!Spec
=============================================================================
