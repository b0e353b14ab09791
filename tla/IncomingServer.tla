--------------------------- MODULE IncomingServer ---------------------------
(***************************************************************************)
(* The controlled side's connections (server_ohos.rs): one task per        *)
(* accepted connection, running Connection::start, handle_incoming_message *)
(* and cleanup_connection, and the tables they share: ALIVE_CONNS,         *)
(* PEER_CONNS, Server.connections and the subscriber set of "monitor0".    *)
(* That is the only service they can subscribe to: they are served by      *)
(* new_server(), whose Server::new() has no service, and the monitor is    *)
(* added at the first login.  Options that switch audio or the clipboard   *)
(* therefore change nothing here.                                          *)
(*                                                                         *)
(* Every table has a lock of its own and the tasks run on several threads, *)
(* so each acquisition is a step.  Only the PEER_CONNS guard outlives its  *)
(* statement: it is a temporary of the `if let' that replaces an older     *)
(* connection of the same peer and is held to the end of that block.       *)
(*                                                                         *)
(* As in VideoService, an operator named after another one with a suffix   *)
(* is a slip the code could have made there, and no part of the model.     *)
(***************************************************************************)
EXTENDS Naturals

CONSTANTS
  Conns,   \* connection ids, each used once (Server::get_new_id)
  Peers,   \* peer ids (LoginRequest.my_id)
  None,
  MaxLogins  \* bound: accepted logins per connection

ASSUME NoneAssumption == None \notin Conns

ASSUME MaxLoginsAssumption == MaxLogins \in Nat

VARIABLES
  pc,             \* where the connection's task is
  alive,          \* ALIVE_CONNS
  peer_conns,     \* PEER_CONNS
  peerLock,       \* the task holding PEER_CONNS across the replacement
  old,            \* old_id, the connection being replaced
  connections,    \* Server.connections
  video,          \* subscribers of "monitor0", waiting ones included
  hasVideo,       \* "monitor0" has been added to Server.services
  services_subed, \* the task's local flag
  fileTransfer,   \* the login being answered asked for file transfer
  closeNotice,    \* a close reason is queued on the connection's tx
  peerUp,         \* the peer's end of the stream is open
  loginCount,     \* history: accepted logins of a connection
  logins,         \* history: the peer ids a connection has logged in as
  lastLogin       \* history: the connection that logged in last, per peer

local == <<pc, old, services_subed, fileTransfer>>
tables == <<alive, peer_conns, peerLock, connections>>
subs == <<video, hasVideo>>
wire == <<closeNotice, peerUp>>
history == <<loginCount, logins, lastLogin>>
vars == <<local, tables, subs, wire, history>>

Location == {"idle", "hash", "loop", "notify", "unlist", "drop", "reply",
             "register", "cleanAlive", "cleanPeer", "cleanServer", "closed"}

TypeOK ==
  /\ pc \in [Conns -> Location]
  /\ alive \subseteq Conns
  /\ peer_conns \in [Peers -> Conns \cup {None}]
  /\ peerLock \in Conns \cup {None}
  /\ old \in [Conns -> Conns \cup {None}]
  /\ connections \subseteq Conns
  /\ video \subseteq Conns
  /\ hasVideo \in BOOLEAN
  /\ services_subed \in [Conns -> BOOLEAN]
  /\ fileTransfer \in [Conns -> BOOLEAN]
  /\ closeNotice \subseteq Conns
  /\ peerUp \in [Conns -> BOOLEAN]
  /\ loginCount \in [Conns -> 0..MaxLogins]
  /\ logins \in [Conns -> SUBSET Peers]
  /\ lastLogin \in [Peers -> Conns \cup {None}]

Init ==
  /\ pc = [c \in Conns |-> "idle"]
  /\ alive = {}
  /\ peer_conns = [p \in Peers |-> None]
  /\ peerLock = None
  /\ old = [c \in Conns |-> None]
  /\ connections = {}
  /\ video = {}
  /\ hasVideo = FALSE
  /\ services_subed = [c \in Conns |-> FALSE]
  /\ fileTransfer = [c \in Conns |-> FALSE]
  /\ closeNotice = {}
  /\ peerUp = [c \in Conns |-> TRUE]
  /\ loginCount = [c \in Conns |-> 0]
  /\ logins = [c \in Conns |-> {}]
  /\ lastLogin = [p \in Peers |-> None]

Goto(c, l) == pc' = [pc EXCEPT ![c] = l]

-----------------------------------------------------------------------------
(* Connection::start                                                       *)

\* create_tcp_connection has an id and a stream; the task lists itself.
Start(c) ==
  /\ pc[c] = "idle"
  /\ Goto(c, "hash")
  /\ alive' = alive \cup {c}
  /\ UNCHANGED <<old, services_subed, fileTransfer, peer_conns, peerLock,
                 connections, subs, wire, history>>

\* The hash is sent and the select loop entered, or cleanup begins.
SendHash(c) ==
  /\ pc[c] = "hash"
  /\ \/ peerUp[c] /\ Goto(c, "loop")
     \/ Goto(c, "cleanAlive")
  /\ UNCHANGED <<old, services_subed, fileTransfer, tables, subs, wire, history>>

\* The loop breaks: stream error or end, 60 s of silence, a failed send on
\* tx, a sixth failed video frame in a row.
LoopBreaks(c) ==
  /\ pc[c] = "loop"
  /\ ~peerUp[c]
  /\ Goto(c, "cleanAlive")
  /\ UNCHANGED <<old, services_subed, fileTransfer, tables, subs, wire, history>>

\* A send that times out ends the task of a peer that is still there; so
\* does the peer's StopService message.
LoopGivesUp(c) ==
  /\ pc[c] = "loop"
  /\ peerUp[c]
  /\ Goto(c, "cleanAlive")
  /\ UNCHANGED <<old, services_subed, fileTransfer, tables, subs, wire, history>>

\* Slip: the queued message is taken and not sent.
DeliverCloseNotice_Lost(c) ==
  /\ pc[c] = "loop"
  /\ c \in closeNotice
  /\ closeNotice' = closeNotice \ {c}
  /\ UNCHANGED <<local, tables, subs, peerUp, history>>

\* rx.recv(): the queued close reason goes out, and the peer acts on it by
\* closing its end.
DeliverCloseNotice(c) ==
  /\ pc[c] = "loop"
  /\ c \in closeNotice
  /\ closeNotice' = closeNotice \ {c}
  /\ peerUp' = [peerUp EXCEPT ![c] = FALSE]
  /\ UNCHANGED <<local, tables, subs, history>>

-----------------------------------------------------------------------------
(* handle_incoming_message.  A wrong password, input, clipboard, chat and  *)
(* delay messages change none of this state.                               *)

Receives(c) == pc[c] = "loop" /\ peerUp[c]

\* Slip: the peer id is registered with itself.
Registered_Swapped(c, p) == [peer_conns EXCEPT ![p] = p]

\* PEER_CONNS.insert(my_id, conn_id)
Registered(c, p) == [peer_conns EXCEPT ![p] = c]

\* Slip: a second login replaces its own connection.
Replaces_Itself(c, p) == peer_conns[p] \in alive

\* Is another connection of this peer alive?
Replaces(c, p) == peer_conns[p] \in alive \ {c}

\* LoginRequest with a valid password: claim the peer id, and look up
\* whether its previous connection has to be replaced.
Login(c, p, ft) ==
  /\ Receives(c)
  /\ peerLock = None
  /\ loginCount[c] < MaxLogins
  /\ loginCount' = [loginCount EXCEPT ![c] = @ + 1]
  /\ peer_conns' = Registered(c, p)
  /\ logins' = [logins EXCEPT ![c] = @ \cup {p}]
  /\ lastLogin' = [lastLogin EXCEPT ![p] = c]
  /\ fileTransfer' = [fileTransfer EXCEPT ![c] = ft]
  /\ IF Replaces(c, p)
       THEN /\ old' = [old EXCEPT ![c] = peer_conns[p]]
            /\ peerLock' = c
            /\ Goto(c, "notify")
       ELSE /\ Goto(c, "reply")
            /\ UNCHANGED <<old, peerLock>>
  /\ UNCHANGED <<services_subed, alive, connections, subs, wire>>

\* Tell the old connection why it ends, if it is in Server.connections.
Notify(c) ==
  /\ pc[c] = "notify"
  /\ closeNotice' = IF old[c] \in connections THEN closeNotice \cup {old[c]}
                                             ELSE closeNotice
  /\ Goto(c, "unlist")
  /\ UNCHANGED <<old, services_subed, fileTransfer, tables, subs, peerUp, history>>

Unlist(c) ==
  /\ pc[c] = "unlist"
  /\ alive' = alive \ {old[c]}
  /\ Goto(c, "drop")
  /\ UNCHANGED <<old, services_subed, fileTransfer, peer_conns, peerLock,
                 connections, subs, wire, history>>

\* Slip: the replacement keeps the PEER_CONNS guard.
DropOld_GuardKept(c) ==
  /\ pc[c] = "drop"
  /\ connections' = connections \ {old[c]}
  /\ old' = [old EXCEPT ![c] = None]
  /\ Goto(c, "reply")
  /\ UNCHANGED <<services_subed, fileTransfer, alive, peer_conns, peerLock, subs,
                 wire, history>>

\* The old connection leaves Server.connections but stays subscribed; the
\* block ends and with it the PEER_CONNS guard.
DropOld(c) ==
  /\ pc[c] = "drop"
  /\ connections' = connections \ {old[c]}
  /\ peerLock' = None
  /\ old' = [old EXCEPT ![c] = None]
  /\ Goto(c, "reply")
  /\ UNCHANGED <<services_subed, fileTransfer, alive, peer_conns, subs, wire, history>>

\* stream.send(login response).await, whatever its result.
Reply(c) ==
  /\ pc[c] = "reply"
  /\ Goto(c, IF services_subed[c] \/ fileTransfer[c] THEN "loop" ELSE "register")
  /\ fileTransfer' = [fileTransfer EXCEPT ![c] = FALSE]
  /\ UNCHANGED <<old, services_subed, tables, subs, wire, history>>

\* try_add_primay_video_service and Server::add_connection, one write lock.
Register(c) ==
  /\ pc[c] = "register"
  /\ services_subed' = [services_subed EXCEPT ![c] = TRUE]
  /\ hasVideo' = TRUE
  /\ video' = video \cup {c}
  /\ connections' = connections \cup {c}
  /\ Goto(c, "loop")
  /\ UNCHANGED <<old, fileTransfer, alive, peer_conns, peerLock, wire, history>>

\* Misc::RefreshVideo: Server::subscribe, which only adds who is missing.
RefreshVideo(c) ==
  /\ Receives(c)
  /\ hasVideo
  /\ video' = video \cup {c}
  /\ UNCHANGED <<local, tables, hasVideo, wire, history>>

-----------------------------------------------------------------------------
(* cleanup_connection: three locks, one after the other.                   *)

CleanAlive(c) ==
  /\ pc[c] = "cleanAlive"
  /\ alive' = alive \ {c}
  /\ Goto(c, "cleanPeer")
  /\ UNCHANGED <<old, services_subed, fileTransfer, peer_conns, peerLock,
                 connections, subs, wire, history>>

\* Slip: nothing is evicted.
Evicted_Never(c, p) == FALSE

\* Slip: the connection evicts every peer id it has logged in under.
Evicted_ByPeerId(c, p) == p \in logins[c]

\* PEER_CONNS.retain(|_, id| *id != conn.id)
Evicted(c, p) == peer_conns[p] = c

CleanPeer(c) ==
  /\ pc[c] = "cleanPeer"
  /\ peerLock = None
  /\ peer_conns' = [p \in Peers |-> IF Evicted(c, p) THEN None ELSE peer_conns[p]]
  /\ Goto(c, "cleanServer")
  /\ UNCHANGED <<old, services_subed, fileTransfer, alive, peerLock,
                 connections, subs, wire, history>>

\* Slip: the viewer stays subscribed.
StillSubscribed_ToVideo(c) == video

\* Server::remove_connection unsubscribes from every service.
StillSubscribed(c) == video \ {c}

\* Server::remove_connection, then the connection-closed event; the task's
\* stream, channels and locals go with it.
CleanServer(c) ==
  /\ pc[c] = "cleanServer"
  /\ video' = StillSubscribed(c)
  /\ connections' = connections \ {c}
  /\ closeNotice' = closeNotice \ {c}
  /\ services_subed' = [services_subed EXCEPT ![c] = FALSE]
  /\ peerUp' = [peerUp EXCEPT ![c] = FALSE]
  /\ Goto(c, "closed")
  /\ UNCHANGED <<old, fileTransfer, alive, peer_conns, peerLock, hasVideo, history>>

-----------------------------------------------------------------------------
\* The peer closes its end, or vanishes.
PeerLeaves(c) ==
  /\ pc[c] \notin {"idle", "closed"}
  /\ peerUp[c]
  /\ peerUp' = [peerUp EXCEPT ![c] = FALSE]
  /\ UNCHANGED <<local, tables, subs, closeNotice, history>>

\* What the task does without waiting for its peer.
Proceed(c) ==
  \/ SendHash(c) \/ LoopBreaks(c) \/ DeliverCloseNotice(c)
  \/ Notify(c) \/ Unlist(c) \/ DropOld(c) \/ Reply(c) \/ Register(c)
  \/ CleanAlive(c) \/ CleanPeer(c) \/ CleanServer(c)

Next ==
  \E c \in Conns :
    \/ Start(c) \/ Proceed(c) \/ LoopGivesUp(c) \/ PeerLeaves(c)
    \/ \E p \in Peers, ft \in BOOLEAN : Login(c, p, ft)
    \/ RefreshVideo(c)

Spec == Init /\ [][Next]_vars

\* The tokio runtime polls every task; select! picks at random among the
\* branches that are ready, so a queued notice is not passed over for ever; a
\* task waiting for PEER_CONNS gets it if it is free again and again.
Fairness ==
  \A c \in Conns :
    WF_vars(Proceed(c)) /\ SF_vars(DeliverCloseNotice(c)) /\ SF_vars(CleanPeer(c))

FairSpec == Spec /\ Fairness

-----------------------------------------------------------------------------
(* Properties.                                                             *)

Running(c) == pc[c] \notin {"idle", "closed"}

\* A connection that has ended is in none of the shared tables, however its
\* cleanup interleaved with a login that was replacing it.
NoLeak ==
  \A c \in Conns : ~Running(c) =>
    /\ c \notin alive \cup connections \cup video \cup closeNotice
    /\ \A p \in Peers : peer_conns[p] # c

\* While the connection that logged in last for a peer id runs its loop, the
\* id is registered to it: the late cleanup of a replaced connection must not
\* evict its replacement (PEER_CONNS.retain compares connection ids).
NewestLoginOwnsPeer ==
  \A p \in Peers, c \in Conns :
    lastLogin[p] = c /\ Running(c) /\ pc[c] # "cleanServer" => peer_conns[p] = c

\* No running connection is taken off ALIVE_CONNS unless another one has
\* logged in under one of its peer ids.
UnlistedHasRival ==
  \A c \in Conns :
    /\ Running(c) /\ c \notin alive
    /\ pc[c] \notin {"cleanPeer", "cleanServer"}
    => \E d \in Conns \ {c} : logins[c] \cap logins[d] # {}

\* A connection whose peer is gone is eventually cleaned up completely, even
\* if it was just replacing another one.
DeadPeerIsCleanedUp ==
  \A c \in Conns : (Running(c) /\ ~peerUp[c]) ~> pc[c] = "closed"

\* A connection that has been sent a close reason ends.
ReplacedConnectionEnds ==
  \A c \in Conns : c \in closeNotice ~> pc[c] = "closed"

\* What the video service relies on: a connection joins only while it lives,
\* and leaves once, at its end (Server::remove_connection).
Viewers == INSTANCE ViewerSet WITH
  viewers <- video, left <- {c \in Conns : pc[c] = "closed"}

ConnectionsAreViewers == Viewers!Spec
=============================================================================
