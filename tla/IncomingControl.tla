--------------------------- MODULE IncomingControl ---------------------------
(***************************************************************************)
(* Starting and stopping the incoming service: the commands                *)
(* main_start_service and main_stop_service of the app's UI thread         *)
(* (harmony_bridge/core.rs), the server threads they spawn, each running   *)
(* start_all with one rendezvous mediator per host and a direct listener   *)
(* (rendezvous_mediator_ohos.rs), and the flags they share.                *)
(*                                                                         *)
(* A server thread is never joined: every start adds one, and a stop only  *)
(* sets an option that the threads look at and a flag, SHOULD_EXIT, that   *)
(* their mediators look at and every thread resets for a round of its own. *)
(*                                                                         *)
(* As in VideoService, an operator named after another one with a suffix   *)
(* is a slip the code could have made there, and no part of the model.     *)
(***************************************************************************)
EXTENDS Naturals, FiniteSets

CONSTANTS
  Servers,  \* server threads; each is spawned by one start
  Hosts     \* rendezvous servers

VARIABLES
  stopService,   \* option "stop-service"
  direct,        \* option "direct-server"
  requested,     \* INCOMING_SERVICE_REQUESTED
  started,       \* INCOMING_SERVICE_STARTED
  shouldExit,    \* SHOULD_EXIT
  ui,            \* where the UI thread is
  pc,            \* where a server thread is in start_all
  med,           \* its mediators
  listener,      \* the direct listener of a server thread
  lateRounds     \* history: server threads that have begun a round in
                 \* spite of the stop since SHOULD_EXIT was last set by it

flags  == <<requested, started>>
thread == <<pc, med, listener>>
vars == <<stopService, direct, flags, shouldExit, ui, thread, lateRounds>>

UiLocation == {"ready", "startFlags", "startSpawn", "stopService", "stopExit", "stopFlags"}
Location == {"none", "spawned", "look", "reset", "join", "offline"}
MediatorState == {"off", "resolving", "running", "registered", "leaving"}
ListenerState == {"closed", "opening", "open"}

\* Types; and the listener's option has a value as soon as anything has been
\* started.  Code: the globals as main_start_service leaves them.
TypeOK ==
  /\ stopService \in {"", "Y"}
  /\ direct \in {"", "Y", "N"}
  /\ requested \in BOOLEAN
  /\ started \in BOOLEAN
  /\ shouldExit \in BOOLEAN
  /\ ui \in UiLocation
  /\ pc \in [Servers -> Location]
  /\ med \in [Servers -> [Hosts -> MediatorState]]
  /\ listener \in [Servers -> ListenerState]
  /\ lateRounds \subseteq Servers
  /\ direct = "" => ui = "ready" /\ requested = FALSE

Init ==
  /\ stopService = ""
  /\ direct = ""
  /\ requested = FALSE
  /\ started = FALSE
  /\ shouldExit = FALSE
  /\ ui = "ready"
  /\ pc = [s \in Servers |-> "none"]
  /\ med = [s \in Servers |-> [h \in Hosts |-> "off"]]
  /\ listener = [s \in Servers |-> "closed"]
  /\ lateRounds = {}

-----------------------------------------------------------------------------
(* main_start_service(true)                                                *)

Unused(s) == pc[s] = "none"

\* Slip: the option of the listener is left as it is.
StartOptions_NoDefault ==
  /\ ui = "ready"
  /\ \E s \in Servers : Unused(s)
  /\ stopService' = ""
  /\ lateRounds' = {}
  /\ ui' = "startFlags"
  /\ UNCHANGED <<direct, flags, shouldExit, thread>>

\* The listener is switched on only where nothing has been chosen yet.
StartOptions ==
  /\ ui = "ready"
  /\ \E s \in Servers : Unused(s)
  /\ direct' = IF direct = "" THEN "Y" ELSE direct
  /\ stopService' = ""
  /\ lateRounds' = {}
  /\ ui' = "startFlags"
  /\ UNCHANGED <<flags, shouldExit, thread>>

StartFlags ==
  /\ ui = "startFlags"
  /\ started' = FALSE
  /\ requested' = TRUE
  /\ ui' = "startSpawn"
  /\ UNCHANGED <<stopService, direct, shouldExit, thread, lateRounds>>

\* std::thread::spawn: block_on(start_server)
StartSpawn ==
  /\ ui = "startSpawn"
  /\ \E s \in Servers : Unused(s) /\ pc' = [pc EXCEPT ![s] = "spawned"]
  /\ ui' = "ready"
  /\ UNCHANGED <<stopService, direct, flags, shouldExit, med, listener, lateRounds>>

-----------------------------------------------------------------------------
(* main_start_service(false) and main_stop_service                         *)

StopDirect ==
  /\ ui = "ready"
  /\ direct' = "N"
  /\ ui' = "stopService"
  /\ UNCHANGED <<stopService, flags, shouldExit, thread, lateRounds>>

StopOption ==
  /\ ui = "stopService"
  /\ stopService' = "Y"
  /\ ui' = "stopExit"
  /\ UNCHANGED <<direct, flags, shouldExit, thread, lateRounds>>

\* Slip: the mediators are not told.
StopExit_Omitted ==
  /\ ui = "stopExit"
  /\ lateRounds' = {}
  /\ ui' = "stopFlags"
  /\ UNCHANGED <<stopService, direct, flags, shouldExit, thread>>

\* RendezvousMediator::restart
StopExit ==
  /\ ui = "stopExit"
  /\ shouldExit' = TRUE
  /\ lateRounds' = {}
  /\ ui' = "stopFlags"
  /\ UNCHANGED <<stopService, direct, flags, thread>>

StopFlags ==
  /\ ui = "stopFlags"
  /\ started' = FALSE
  /\ requested' = FALSE
  /\ ui' = "ready"
  /\ UNCHANGED <<stopService, direct, shouldExit, thread, lateRounds>>

\* main_stop_service sets the option and leaves it at that.
main_stop_service ==
  /\ ui = "ready"
  /\ stopService' = "Y"
  /\ UNCHANGED <<direct, flags, shouldExit, ui, thread, lateRounds>>

\* LAN discovery wants the mediators to start anew.
main_discover ==
  /\ ui = "ready"
  /\ shouldExit' = TRUE
  /\ UNCHANGED <<stopService, direct, flags, ui, thread, lateRounds>>

-----------------------------------------------------------------------------
(* start_all                                                               *)

Goto(s, l) == pc' = [pc EXCEPT ![s] = l]

\* The direct listener's loop has been spawned; the service says it is ready.
Prologue(s) ==
  /\ pc[s] = "spawned"
  /\ started' = TRUE
  /\ Goto(s, "look")
  /\ UNCHANGED <<stopService, direct, requested, shouldExit, ui, med, listener, lateRounds>>

\* Slip: the option was read once, before the loop.
Look_Once(s) ==
  /\ pc[s] = "look"
  /\ Goto(s, "reset")
  /\ UNCHANGED <<stopService, direct, flags, shouldExit, ui, med, listener, lateRounds>>

\* if !stop-service
Look(s) ==
  /\ pc[s] = "look"
  /\ Goto(s, IF stopService = "Y" THEN "offline" ELSE "reset")
  /\ UNCHANGED <<stopService, direct, flags, shouldExit, ui, med, listener, lateRounds>>

\* Slip: a round begins with the flag that ended the last one.
ResetExit_Omitted(s) ==
  /\ pc[s] = "reset"
  /\ med' = [med EXCEPT ![s] = [h \in Hosts |-> "resolving"]]
  /\ lateRounds' = IF stopService = "Y" THEN lateRounds \cup {s} ELSE lateRounds
  /\ Goto(s, "join")
  /\ UNCHANGED <<stopService, direct, flags, shouldExit, ui, listener>>

\* SHOULD_EXIT.store(false), and one mediator per host is spawned.
ResetExit(s) ==
  /\ pc[s] = "reset"
  /\ shouldExit' = FALSE
  /\ med' = [med EXCEPT ![s] = [h \in Hosts |-> "resolving"]]
  /\ lateRounds' = IF stopService = "Y" THEN lateRounds \cup {s} ELSE lateRounds
  /\ Goto(s, "join")
  /\ UNCHANGED <<stopService, direct, flags, ui, listener>>

\* join_all(futs)
Join(s) ==
  /\ pc[s] = "join"
  /\ \A h \in Hosts : med[s][h] = "off"
  /\ Goto(s, "offline")
  /\ UNCHANGED <<stopService, direct, flags, shouldExit, ui, med, listener, lateRounds>>

\* Config::reset_online, and a sleep whose length depends on how the round
\* ended.
Offline(s) ==
  /\ pc[s] = "offline"
  /\ Goto(s, "look")
  /\ UNCHANGED <<stopService, direct, flags, shouldExit, ui, med, listener, lateRounds>>

-----------------------------------------------------------------------------
(* RendezvousMediator::start, one task per host.                           *)

Becomes(s, h, m) == med' = [med EXCEPT ![s][h] = m]

Resolved(s, h) ==
  /\ med[s][h] = "resolving"
  /\ Becomes(s, h, "running")
  /\ UNCHANGED <<stopService, direct, flags, shouldExit, ui, pc, listener, lateRounds>>

\* The timer ticks: leave if told so, else register with the host.
Tick(s, h) ==
  /\ med[s][h] \in {"running", "registered"}
  /\ Becomes(s, h, IF shouldExit THEN "leaving" ELSE "registered")
  /\ UNCHANGED <<stopService, direct, flags, shouldExit, ui, pc, listener, lateRounds>>

\* The host cannot be resolved, the socket fails or is closed, registering
\* fails.
Breaks(s, h) ==
  /\ med[s][h] \in {"resolving", "running", "registered"}
  /\ Becomes(s, h, "leaving")
  /\ UNCHANGED <<stopService, direct, flags, shouldExit, ui, pc, listener, lateRounds>>

\* Whoever leaves takes all the others along.
Leaves(s, h) ==
  /\ med[s][h] = "leaving"
  /\ shouldExit' = TRUE
  /\ Becomes(s, h, "off")
  /\ UNCHANGED <<stopService, direct, flags, ui, pc, listener, lateRounds>>

\* ConfigureUpdate names other servers: RendezvousMediator::restart.
ConfigureUpdate(s, h) ==
  /\ med[s][h] = "registered"
  /\ shouldExit' = TRUE
  /\ UNCHANGED <<stopService, direct, flags, ui, thread, lateRounds>>

-----------------------------------------------------------------------------
(* direct_server_loop, and the connections of this server.                 *)

disabled == direct # "Y" \/ stopService = "Y"

Listener(s, l) ==
  /\ listener' = [listener EXCEPT ![s] = l]
  /\ UNCHANGED <<stopService, direct, flags, shouldExit, ui, pc, med, lateRounds>>

\* The options are looked at before listen_any is awaited.
OpenListener(s) ==
  /\ pc[s] \notin {"none", "spawned"}
  /\ listener[s] = "closed"
  /\ ~disabled
  /\ Listener(s, "opening")

Opened(s) ==
  /\ listener[s] = "opening"
  /\ \E l \in {"open", "closed"} : Listener(s, l)

\* Slip: only the option of the listener itself closes it.
CloseListener_DirectOnly(s) ==
  /\ listener[s] = "open"
  /\ direct # "Y"
  /\ Listener(s, "closed")

CloseListener(s) ==
  /\ listener[s] = "open"
  /\ disabled
  /\ Listener(s, "closed")

\* The video service of a running server encodes its first frame.  Neither
\* connections nor video services end with a stop.
FirstFrameEncoded(s) ==
  /\ pc[s] \notin {"none", "spawned"}
  /\ started' = TRUE
  /\ UNCHANGED <<stopService, direct, requested, shouldExit, ui, thread, lateRounds>>

-----------------------------------------------------------------------------
Begin == StartOptions \/ StopDirect \/ main_stop_service \/ main_discover

Continue == StartFlags \/ StartSpawn \/ StopOption \/ StopExit \/ StopFlags

start_all(s) == Prologue(s) \/ Look(s) \/ ResetExit(s) \/ Join(s) \/ Offline(s)

direct_server_loop(s) == OpenListener(s) \/ Opened(s) \/ CloseListener(s)

Mediator(s, h) == Resolved(s, h) \/ Tick(s, h) \/ Leaves(s, h)

Next ==
  \/ Begin \/ Continue
  \/ \E s \in Servers :
       \/ start_all(s) \/ direct_server_loop(s) \/ FirstFrameEncoded(s)
       \/ \E h \in Hosts : Mediator(s, h) \/ Breaks(s, h) \/ ConfigureUpdate(s, h)

Spec == Init /\ [][Next]_vars

\* A command that has begun is finished; server threads and their tasks are
\* scheduled.
Fairness ==
  /\ WF_vars(Continue)
  /\ \A s \in Servers :
       /\ WF_vars(start_all(s))
       /\ WF_vars(direct_server_loop(s))
       /\ \A h \in Hosts : WF_vars(Mediator(s, h))

FairSpec == Spec /\ Fairness

-----------------------------------------------------------------------------
(* Properties                                                              *)

\* After a stop a server thread begins at most the round it had already
\* decided on: it looks at stop-service anew before any further one.  Code:
\* the loop of start_all against main_start_service(false).
OneLateRound ==
  [][\A s \in Servers : ResetExit(s) /\ stopService = "Y" => s \notin lateRounds]_vars

quiet ==
  \A s \in Servers :
     listener[s] = "closed" /\ \A h \in Hosts : med[s][h] = "off"

stopped == ui = "ready" /\ ~requested /\ stopService = "Y"

\* A stop that no server thread's round slips past is carried out: in the end
\* no mediator is running and no listener is open, unless the service is
\* started again.  Code: SHOULD_EXIT and stop-service as the mediators, the
\* rounds of start_all and direct_server_loop look at them, with any number
\* of server threads that share the flag.
StopSilences == stopped ~> (quiet \/ lateRounds # {} \/ stopService = "")

\* A listener is closed by every kind of stop, main_stop_service included,
\* also one that was being opened when the options changed.  Code:
\* direct_server_loop.
ListenerCloses ==
  stopService = "Y" ~> (stopService = "" \/ \A s \in Servers : listener[s] = "closed")

\* Once its hosts have ceased to fail and the app to discover, a service with
\* one server thread registers again and again, whatever mediators have left
\* and whatever restarts the hosts ask for.  Code: the loop of start_all, with
\* SHOULD_EXIT reset for each round.  Neither condition can go: a host that
\* fails takes the others along before they have registered, and a second
\* server thread does so as well.  (A mediator that fails when it has been told
\* to leave cannot be told from one that leaves.)
KeepsRegistering ==
  /\ <>[](stopService = "" /\ Cardinality({s \in Servers : ~Unused(s)}) = 1)
  /\ <>[][~main_discover]_vars
  /\ <>[][\A s \in Servers, h \in Hosts : ~shouldExit => ~Breaks(s, h)]_vars
  => []<>(\E s \in Servers, h \in Hosts : med[s][h] = "registered")

\* What main_start_service(false) answers: "Incoming service stopped".
\* Violated: a server thread between its look at stop-service and its reset
\* of SHOULD_EXIT takes the stop back and registers on.  Code: start_all.
StopIsFinal == stopped ~> (quiet \/ stopService = "")
=============================================================================
