-------------------------- MODULE RegistrationProofs --------------------------
(***************************************************************************)
(* The types of Registration, the mutual exclusion of SOLVING_PK_MISMATCH  *)
(* and NewIdUnconfirmed hold for any number of hosts, ids and faults.      *)
(***************************************************************************)
EXTENDS Registration, TLAPS

\* What the steps preserve; the parts of Registration need no strengthening.
IInv == TypeOK /\ NewIdUnconfirmed

USE NoneAssumption, BoundAssumption

LEMMA InitOK == Init => IInv
<1> SUFFICES ASSUME Init PROVE IInv
  OBVIOUS
<1> USE DEF Init
<1>1. id \in Ids /\ faults \in Nat
  BY DEF Ids
<1>2. pc \in [Hosts -> Location] /\ \A h \in Hosts : pc[h] # "newId"
  BY DEF Location
<1>3. waiting \in [Hosts -> BOOLEAN] /\ registered \in [Hosts -> SUBSET Ids]
  OBVIOUS
<1> QED
  BY <1>1, <1>2, <1>3 DEF IInv, TypeOK, NewIdUnconfirmed

LEMMA NextOK == ASSUME IInv, [Next]_vars PROVE IInv'
<1> USE DEF IInv, TypeOK, Ids, Location, config, globals, mediators, servers
<1>1. ASSUME NEW h \in Hosts, Tick(h) PROVE IInv'
  BY <1>1 DEF Tick, Goto, Fault, NewIdUnconfirmed
<1>2. ASSUME NEW h \in Hosts, Receive(h) PROVE IInv'
  <2>1. CASE Nothing(h)
    BY <2>1 DEF Nothing, Receives, Replied, Goto, NewIdUnconfirmed
  <2>2. CASE RequestPk(h)
    BY <2>2 DEF RequestPk, Receives, Goto, NewIdUnconfirmed
  <2>3. CASE OkKey(h)
    BY <2>3 DEF OkKey, Receives, set_key_confirmed, Goto, NewIdUnconfirmed
  <2>4. CASE Mismatch(h)
    BY <2>4 DEF Mismatch, Receives, Goto, NewIdUnconfirmed
  <2>5. CASE NotDeployed(h)
    BY <2>5 DEF NotDeployed, Receives, Goto, NewIdUnconfirmed
  <2> QED BY <1>2, <2>1, <2>2, <2>3, <2>4, <2>5 DEF Receive
<1>3. ASSUME NEW h \in Hosts, Handle(h) PROVE IInv'
  <2>1. CASE SendRequest(h)
    BY <2>1 DEF SendRequest, Goto, Request, Requests, NewIdUnconfirmed
  <2>2. CASE SendPk(h)
    BY <2>2 DEF SendPk, Replied, Goto, Request, Requests, NewIdUnconfirmed
  <2>3. CASE OkHost(h)
    BY <2>3 DEF OkHost, Goto, NewIdUnconfirmed
  <2>4. CASE OkSolving(h)
    BY <2>4 DEF OkSolving, SolvingIsFree, Goto, NewIdUnconfirmed
  <2>5. CASE OkDeploy(h)
    BY <2>5 DEF OkDeploy, Replied, Goto, NewIdUnconfirmed
  <2>6. CASE Solve(h)
    BY <2>6 DEF Solve, SolvingIsFree, set_key_confirmed, Replied, Goto, NewIdUnconfirmed
  <2>7. CASE NewId(h)
    BY <2>7 DEF NewId, Goto, NewIdUnconfirmed
  <2>8. CASE NotDeployedKey(h)
    BY <2>8 DEF NotDeployedKey, set_key_confirmed, Goto, NewIdUnconfirmed
  <2>9. CASE NotDeployedHost(h)
    BY <2>9 DEF NotDeployedHost, Replied, Goto, NewIdUnconfirmed
  <2> QED BY <1>3, <2>1, <2>2, <2>3, <2>4, <2>5, <2>6, <2>7, <2>8, <2>9 DEF Handle
<1>4. ASSUME NEW h \in Hosts, Serve(h) PROVE IInv'
  <2>1. UNCHANGED <<config, globals, mediators, deployed, up, faults>>
    BY <1>4 DEF Serve
  <2>2. registered' \in [Hosts -> SUBSET Ids] /\ net' \subseteq Requests \union Replies
    BY <1>4 DEF Serve, Answer, Reply, Requests, Replies
  <2> QED BY <2>1, <2>2 DEF NewIdUnconfirmed
<1>5. ASSUME NEW h \in Hosts, ServeError(h) PROVE IInv'
  <2>1. UNCHANGED <<config, globals, mediators, servers>> /\ faults' \in Nat
    BY <1>5 DEF ServeError, Fault
  <2>2. net' \subseteq Requests \union Replies
    BY <1>5 DEF ServeError, Answer, Reply, Requests, Replies
  <2> QED BY <2>1, <2>2 DEF NewIdUnconfirmed
<1>6. ASSUME NEW h \in Hosts, Deploy(h) \/ Forget(h) \/ Die(h) PROVE IInv'
  <2>1. UNCHANGED <<config, globals, mediators, net>>
    BY <1>6 DEF Deploy, Forget, Die
  <2>2. CASE Deploy(h)
    BY <2>1, <2>2 DEF Deploy, NewIdUnconfirmed
  <2>3. CASE Forget(h)
    BY <2>1, <2>3 DEF Forget, Fault, NewIdUnconfirmed
  <2>4. CASE Die(h)
    BY <2>1, <2>4 DEF Die, Fault, NewIdUnconfirmed
  <2> QED BY <1>6, <2>2, <2>3, <2>4
<1>7. ASSUME NEW h \in Hosts, Double(h) PROVE IInv'
  <2>1. /\ UNCHANGED <<id, solving, waiting, net, servers>>
        /\ pc[h] = "loop" /\ faults' \in Nat
    BY <1>7 DEF Double, Fault
  <2>2. CASE set_key_confirmed(TRUE) /\ Goto(h, "okHost") /\ UNCHANGED needsDeploy
    BY <2>1, <2>2 DEF set_key_confirmed, Goto, NewIdUnconfirmed
  <2>3. CASE Goto(h, "mismatch") /\ UNCHANGED <<key, hosts, needsDeploy>>
    BY <2>1, <2>3 DEF Goto, NewIdUnconfirmed
  <2>4. CASE needsDeploy' = TRUE /\ Goto(h, "notDeployedKey") /\ UNCHANGED <<key, hosts>>
    BY <2>1, <2>4 DEF Goto, NewIdUnconfirmed
  <2> QED BY <1>7, <2>2, <2>3, <2>4 DEF Double
<1>8. CASE Lose
  <2>1. UNCHANGED <<config, globals, mediators, servers>> /\ faults' \in Nat
    BY <1>8 DEF Lose, Fault
  <2>2. net' \subseteq net
    BY <1>8 DEF Lose
  <2> QED BY <2>1, <2>2 DEF NewIdUnconfirmed
<1>9. CASE ForcePk
  <2>1. key' = FALSE /\ hosts' \subseteq hosts /\ faults' \in Nat
    BY <1>9 DEF ForcePk, Fault, set_key_confirmed
  <2>2. UNCHANGED <<id, globals, mediators, net, servers>>
    BY <1>9 DEF ForcePk
  <2>3. TypeOK'
    BY <2>1, <2>2
  <2>4. NewIdUnconfirmed'
    BY <2>1, <2>2 DEF NewIdUnconfirmed
  <2> QED BY <2>3, <2>4
<1>10. CASE Restart \/ Crash
  <2>1. FreshMediators /\ faults' \in Nat
    BY <1>10 DEF Restart, Crash, Fault
  <2>2. needsDeploy' \in BOOLEAN
    <3>1. CASE Restart  BY <3>1, Zenon DEF Restart
    <3>2. CASE Crash  BY <3>2, Zenon DEF Crash
    <3> QED BY <1>10, <3>1, <3>2
  <2>3. pc' = [h \in Hosts |-> "loop"] /\ waiting' = [h \in Hosts |-> FALSE]
    BY <2>1 DEF FreshMediators
  <2>4. UNCHANGED <<config, servers>> /\ solving' = None /\ net' \subseteq net
    BY <2>1 DEF FreshMediators
  <2>5. TypeOK'
    BY <2>1, <2>3, <2>4, <2>2
  <2>6. NewIdUnconfirmed'
    BY <2>3 DEF NewIdUnconfirmed
  <2> QED BY <2>5, <2>6
<1>11. CASE UNCHANGED vars
  BY <1>11 DEF vars, NewIdUnconfirmed
<1> QED
  BY <1>1, <1>2, <1>3, <1>4, <1>5, <1>6, <1>7, <1>8, <1>9, <1>10, <1>11 DEF Next

\* The globals, locals and datagrams keep their types, and one mediator at a time holds
\* SOLVING_PK_MISMATCH, however the handlers of the hosts interleave.
THEOREM TypeCorrect == Spec => []TypeOK
<1>1. IInv => TypeOK  BY DEF IInv
<1> QED  BY InitOK, NextOK, <1>1, PTL DEF Spec

\* No id is replaced behind a confirmation of the key other than one that the handler of
\* another host's OK has just made.
THEOREM NewIdIsUnconfirmed == Spec => []NewIdUnconfirmed
<1>1. IInv => NewIdUnconfirmed  BY DEF IInv
<1> QED  BY InitOK, NextOK, <1>1, PTL DEF Spec
===============================================================================
