---------------------------- MODULE Registration ----------------------------
(***************************************************************************)
(* How the mediators of one round keep the device's id and public key      *)
(* registered at their rendezvous servers (rendezvous_mediator_ohos.rs):   *)
(* register_peer and register_pk on a timer, the replies that confirm the  *)
(* key, ask for it, refuse it for want of a deployment or demand another   *)
(* id, and the globals that all mediators share and change lock by lock.   *)
(*                                                                         *)
(* Mediators are tasks of a runtime with several threads, so the handlers  *)
(* of two hosts interleave between any two locks.  They talk to their      *)
(* servers over UDP: messages are reordered, and may be lost or doubled.   *)
(* Requests carry the id; replies carry nothing that says what they are    *)
(* the reply to.  The servers are external.                                *)
(*                                                                         *)
(* An operator named after another one with a suffix is a slip the code    *)
(* could have made there, and no part of the model.                        *)
(***************************************************************************)
EXTENDS Naturals, FiniteSets

CONSTANTS
  Hosts,      \* the rendezvous servers of the round
  None,       \* no host
  Taken,      \* for each host, the ids that belong to other devices there
  MaxId,      \* bound: how often the id can change
  MaxFaults   \* bound: lost, late and doubled messages, restarts, failing servers

ASSUME NoneAssumption == None \notin Hosts
ASSUME TakenAssumption == Taken \in [Hosts -> SUBSET Nat]
ASSUME BoundAssumption == MaxId \in Nat /\ MaxFaults \in Nat

VARIABLES
  id,             \* Config.id: how often update_id has replaced it
  key,            \* Config.key_confirmed
  hosts,          \* Config.keys_confirmed: the hosts set to true
  solving,        \* SOLVING_PK_MISMATCH
  needsDeploy,    \* NEEDS_DEPLOY
  pc,             \* where a mediator is
  waiting,        \* last_register_sent is set: a request has no reply yet
  net,            \* datagrams under way
  registered,     \* the ids a server has this device's key for
  deployed,       \* the hosts that know the device
  up,             \* the hosts that answer
  faults          \* number of faults so far

config == <<id, key, hosts>>
globals == <<solving, needsDeploy>>
mediators == <<pc, waiting>>
servers == <<registered, deployed, up>>
vars == <<config, globals, mediators, net, servers, faults>>

Ids == 0 .. MaxId

Location == {"loop", "tickPk", "tickPeer", "replyPk", "okHost", "okSolving", "okDeploy",
             "mismatch", "newId", "notDeployedKey", "notDeployedHost"}

Requests == [type : {"pk", "peer"}, host : Hosts, id : Ids]
Replies == [type : {"peerOk", "requestPk", "ok", "mismatch", "notDeployed", "other"},
            host : Hosts]

Reply(h, t) == [type |-> t, host |-> h]
Request(h, t) == [type |-> t, host |-> h, id |-> id]

Fault == faults < MaxFaults /\ faults' = faults + 1

Init ==
  /\ id = 0 /\ key = FALSE /\ hosts = {}
  /\ solving = None /\ needsDeploy = FALSE
  /\ pc = [h \in Hosts |-> "loop"]
  /\ waiting = [h \in Hosts |-> FALSE]
  /\ net = {}
  /\ registered = [h \in Hosts |-> {}]
  /\ deployed \in SUBSET Hosts
  /\ up = Hosts
  /\ faults = 0

-----------------------------------------------------------------------------
(* Helpers.                                                                *)

Goto(h, p) == pc' = [pc EXCEPT ![h] = p]

\* The hosts' confirmations go only if the key's was set.
set_key_confirmed(v) ==
  /\ key' = v
  /\ hosts' = IF key /\ ~v THEN {} ELSE hosts

\* Slip: the test of SOLVING_PK_MISMATCH and its setting hold the lock one after the other.
SolvingIsFree_Always == TRUE

\* The lock of SOLVING_PK_MISMATCH is held by whoever makes a new id.
SolvingIsFree == \A g \in Hosts : pc[g] # "newId"

\* What the loop does after every registration reply.
Replied(h) ==
  /\ Goto(h, "loop")
  /\ waiting' = [waiting EXCEPT ![h] = FALSE]

-----------------------------------------------------------------------------
(* The timer.                                                              *)

\* Slip: only the key as a whole is looked at.
Confirmed_AnyHost(h) == key

Confirmed(h) == key /\ h \in hosts

\* Slip: a request that was not answered is not repeated.
Due_NoRetry(h) == ~waiting[h]

\* Time is not modelled: reg_timeout after a request without a reply, or REG_INTERVAL
\* after the last reply, may have passed at any tick.
Due(h) == waiting[h] \/ ~waiting[h]

\* register_peer looks at the confirmations; usually the last request has been answered
\* or lost by then.
Tick(h) ==
  /\ pc[h] = "loop" /\ Due(h)
  /\ IF \A m \in net : m.host # h THEN UNCHANGED faults ELSE Fault
  /\ Goto(h, IF Confirmed(h) THEN "tickPeer" ELSE "tickPk")
  /\ UNCHANGED <<config, globals, waiting, net, servers>>

\* and sends the id
SendRequest(h) ==
  /\ pc[h] \in {"tickPk", "tickPeer"}
  /\ Goto(h, "loop")
  /\ waiting' = [waiting EXCEPT ![h] = TRUE]
  /\ net' = net \union {Request(h, IF pc[h] = "tickPk" THEN "pk" ELSE "peer")}
  /\ UNCHANGED <<config, globals, servers, faults>>

\* register_pk in answer to a reply
SendPk(h) ==
  /\ pc[h] = "replyPk"
  /\ Replied(h)
  /\ net' = net \union {Request(h, "pk")}
  /\ UNCHANGED <<config, globals, servers, faults>>

-----------------------------------------------------------------------------
(* Replies: handle_resp, one step per lock.                                *)

Receives(h, t) ==
  /\ pc[h] = "loop" /\ Reply(h, t) \in net
  /\ net' = net \ {Reply(h, t)}
  /\ UNCHANGED <<servers, faults>>

\* RegisterPeerResponse, or a RegisterPkResponse with any other result
Nothing(h) ==
  /\ Receives(h, "peerOk") \/ Receives(h, "other")
  /\ Replied(h)
  /\ UNCHANGED <<config, globals>>

RequestPk(h) ==
  /\ Receives(h, "requestPk")
  /\ Goto(h, "replyPk")
  /\ UNCHANGED <<config, globals, waiting>>

OkKey(h) ==
  /\ Receives(h, "ok")
  /\ set_key_confirmed(TRUE)
  /\ Goto(h, "okHost")
  /\ UNCHANGED <<id, globals, waiting>>

OkHost(h) ==
  /\ pc[h] = "okHost"
  /\ hosts' = hosts \union {h}
  /\ Goto(h, "okSolving")
  /\ UNCHANGED <<id, key, globals, waiting, net, servers, faults>>

OkSolving(h) ==
  /\ pc[h] = "okSolving" /\ SolvingIsFree
  /\ solving' = None
  /\ Goto(h, "okDeploy")
  /\ UNCHANGED <<config, needsDeploy, waiting, net, servers, faults>>

OkDeploy(h) ==
  /\ pc[h] = "okDeploy"
  /\ needsDeploy' = FALSE
  /\ Replied(h)
  /\ UNCHANGED <<config, solving, net, servers, faults>>

Mismatch(h) ==
  /\ Receives(h, "mismatch")
  /\ Goto(h, "mismatch")
  /\ UNCHANGED <<config, globals, waiting>>

\* Slip: the key stays confirmed while the id changes.
Solve_KeyKept(h) ==
  /\ pc[h] = "mismatch" /\ SolvingIsFree
  /\ IF solving \in {None, h}
     THEN Goto(h, "newId") /\ UNCHANGED <<key, hosts, waiting>>
     ELSE Replied(h) /\ UNCHANGED <<key, hosts>>
  /\ UNCHANGED <<id, globals, net, servers, faults>>

\* handle_uuid_mismatch: for the host it is solved for, or for the first; the
\* mismatch of another host is left for later.
Solve(h) ==
  /\ pc[h] = "mismatch" /\ SolvingIsFree
  /\ IF solving \in {None, h}
     THEN set_key_confirmed(FALSE) /\ Goto(h, "newId") /\ UNCHANGED <<waiting>>
     ELSE Replied(h) /\ UNCHANGED <<key, hosts>>
  /\ UNCHANGED <<id, globals, net, servers, faults>>

\* update_id
NewId(h) ==
  /\ pc[h] = "newId" /\ id < MaxId
  /\ id' = id + 1
  /\ solving' = h
  /\ Goto(h, "replyPk")
  /\ UNCHANGED <<key, hosts, needsDeploy, waiting, net, servers, faults>>

NotDeployed(h) ==
  /\ Receives(h, "notDeployed")
  /\ needsDeploy' = TRUE
  /\ Goto(h, "notDeployedKey")
  /\ UNCHANGED <<config, solving, waiting>>

NotDeployedKey(h) ==
  /\ pc[h] = "notDeployedKey"
  /\ set_key_confirmed(FALSE)
  /\ Goto(h, "notDeployedHost")
  /\ UNCHANGED <<id, globals, waiting, net, servers, faults>>

NotDeployedHost(h) ==
  /\ pc[h] = "notDeployedHost"
  /\ hosts' = hosts \ {h}
  /\ Replied(h)
  /\ UNCHANGED <<id, key, globals, net, servers, faults>>

\* create_tcp_connection: a peer that has no key of this device forces an update.
\* This runs beside the mediators.
ForcePk ==
  /\ Fault
  /\ set_key_confirmed(FALSE)
  /\ UNCHANGED <<id, globals, mediators, net, servers>>

-----------------------------------------------------------------------------
(* The servers and the network.                                            *)

Answer(m, t) == net' = (net \ {m}) \union {Reply(m.host, t)}

\* A server that is not up loses what it is sent.
Serve(h) ==
  \E m \in net \cap Requests :
    /\ m.host = h
    /\ IF h \notin up THEN net' = net \ {m} /\ UNCHANGED registered
       ELSE IF m.type = "peer"
       THEN Answer(m, IF m.id \in registered[h] THEN "peerOk" ELSE "requestPk")
            /\ UNCHANGED registered
       ELSE IF h \notin deployed THEN Answer(m, "notDeployed") /\ UNCHANGED registered
       ELSE IF m.id \in Taken[h] THEN Answer(m, "mismatch") /\ UNCHANGED registered
       ELSE Answer(m, "ok") /\ registered' = [registered EXCEPT ![h] = @ \union {m.id}]
    /\ UNCHANGED <<config, globals, mediators, deployed, up, faults>>

\* SERVER_ERROR, TOO_FREQUENT and the like
ServeError(h) ==
  /\ Fault
  /\ \E m \in net \cap Requests : m.host = h /\ m.type = "pk" /\ Answer(m, "other")
  /\ UNCHANGED <<config, globals, mediators, servers>>

\* The operator makes the device known to a host.
Deploy(h) ==
  /\ h \notin deployed /\ deployed' = deployed \union {h}
  /\ UNCHANGED <<config, globals, mediators, net, registered, up, faults>>

\* A server that starts again without its database.
Forget(h) ==
  /\ Fault /\ registered[h] # {}
  /\ registered' = [registered EXCEPT ![h] = {}]
  /\ UNCHANGED <<config, globals, mediators, net, deployed, up>>

\* A server that answers no more.
Die(h) ==
  /\ Fault /\ h \in up /\ up' = up \ {h}
  /\ UNCHANGED <<config, globals, mediators, net, registered, deployed>>

Lose ==
  /\ Fault
  /\ \E m \in net : net' = net \ {m}
  /\ UNCHANGED <<config, globals, mediators, servers>>

\* A datagram that arrives twice: what it causes is caused, and it is still there.
Double(h) ==
  /\ Fault /\ pc[h] = "loop"
  /\ \/ /\ Reply(h, "ok") \in net
        /\ set_key_confirmed(TRUE) /\ Goto(h, "okHost") /\ UNCHANGED needsDeploy
     \/ /\ Reply(h, "mismatch") \in net
        /\ Goto(h, "mismatch") /\ UNCHANGED <<key, hosts, needsDeploy>>
     \/ /\ Reply(h, "notDeployed") \in net
        /\ needsDeploy' = TRUE /\ Goto(h, "notDeployedKey") /\ UNCHANGED <<key, hosts>>
  /\ UNCHANGED <<id, solving, waiting, net, servers>>

-----------------------------------------------------------------------------
(* Rounds and processes.                                                   *)

\* start_all begins another round, with new sockets: replies to the old ones are
\* lost, requests are not.
FreshMediators ==
  /\ solving' = None
  /\ pc' = [h \in Hosts |-> "loop"]
  /\ waiting' = [h \in Hosts |-> FALSE]
  /\ net' = net \cap Requests
  /\ UNCHANGED <<config, servers>>

\* Mediators leave at a tick, when no handler is running.
Restart ==
  /\ Fault /\ \A h \in Hosts : pc[h] = "loop"
  /\ FreshMediators
  /\ UNCHANGED needsDeploy

\* The process dies between any two locks; the configuration has been stored.
Crash ==
  /\ Fault
  /\ FreshMediators
  /\ needsDeploy' = FALSE

Receive(h) == Nothing(h) \/ RequestPk(h) \/ OkKey(h) \/ Mismatch(h) \/ NotDeployed(h)

Handle(h) ==
  \/ SendRequest(h) \/ SendPk(h) \/ OkHost(h) \/ OkSolving(h) \/ OkDeploy(h)
  \/ Solve(h) \/ NewId(h) \/ NotDeployedKey(h) \/ NotDeployedHost(h)

Next ==
  \/ \E h \in Hosts :
       \/ Tick(h) \/ Receive(h) \/ Handle(h)
       \/ Serve(h) \/ ServeError(h)
       \/ Deploy(h) \/ Forget(h) \/ Die(h) \/ Double(h)
  \/ Lose \/ ForcePk \/ Restart \/ Crash

Spec == Init /\ [][Next]_vars

\* The timer ticks, the loop takes its datagrams, handlers go on, and a server that is up
\* answers.  Faults and deployments may but need not happen.
FairSpec ==
  /\ Spec
  /\ \A h \in Hosts :
       /\ WF_vars(Tick(h)) /\ WF_vars(Receive(h)) /\ WF_vars(Handle(h))
       /\ WF_vars(Serve(h))

-----------------------------------------------------------------------------
(* Properties.                                                             *)

\* The globals, the mediators' locals and the datagrams keep their types, and only one
\* mediator at a time holds SOLVING_PK_MISMATCH.
TypeOK ==
  /\ id \in Ids /\ key \in BOOLEAN /\ hosts \subseteq Hosts
  /\ solving \in Hosts \union {None} /\ needsDeploy \in BOOLEAN
  /\ pc \in [Hosts -> Location]
  /\ waiting \in [Hosts -> BOOLEAN]
  /\ net \subseteq Requests \union Replies
  /\ registered \in [Hosts -> SUBSET Ids]
  /\ deployed \subseteq Hosts /\ up \subseteq Hosts
  /\ faults \in Nat
  /\ \A g, h \in Hosts : pc[g] = "newId" /\ pc[h] = "newId" => g = h

\* handle_uuid_mismatch makes a new id only while the key is unconfirmed: at the time of
\* update_id nobody takes the new id for confirmed, unless the handler of another host's
\* OK has just confirmed the key and waits to clear SOLVING_PK_MISMATCH.
NewIdUnconfirmed ==
  \A h \in Hosts : pc[h] = "newId" /\ key =>
    \E g \in Hosts \ {h} : pc[g] \in {"okHost", "okSolving"}

\* In the end every server that answers and knows the device has it under its present id,
\* whatever was lost, doubled, reordered or forgotten before; except behind a mismatch
\* that is being solved for a server that answers no more.
StaysRegistered ==
  \A h \in Hosts :
    <>[](h \in up \cap deployed => id \in registered[h] \/ solving \in Hosts \ up)

\* In the end the confirmations and NEEDS_DEPLOY are true of the servers, if all of them
\* answer and know the device: no late refusal has the last word.
ConfirmationsSettle ==
  <>[](up = Hosts /\ deployed = Hosts => key /\ hosts = Hosts /\ ~needsDeploy)
=============================================================================
