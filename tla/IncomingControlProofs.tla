------------------------ MODULE IncomingControlProofs ------------------------
(***************************************************************************)
(* What holds of IncomingControl for any number of server threads and      *)
(* hosts.                                                                  *)
(***************************************************************************)
EXTENDS IncomingControl, TLAPS

\* The globals and the threads' locals keep their types, and a start leaves
\* the listener's option with a value.  Code: main_start_service and
\* start_all.
THEOREM TypeCorrect == Spec => []TypeOK
<1>1. Init => TypeOK
  <2> SUFFICES ASSUME Init PROVE TypeOK
    OBVIOUS
  <2>1. [h \in Hosts |-> "off"] \in [Hosts -> MediatorState]
    BY DEF MediatorState
  <2>2. med \in [Servers -> [Hosts -> MediatorState]]
    BY <2>1 DEF Init
  <2> QED
    BY <2>2 DEF Init, TypeOK, UiLocation, Location, ListenerState
<1>2. TypeOK /\ [Next]_vars => TypeOK'
  <2> SUFFICES ASSUME TypeOK, [Next]_vars PROVE TypeOK'
    OBVIOUS
  <2> USE DEF TypeOK, flags, thread, UiLocation, Location, MediatorState, ListenerState
  <2>1. CASE Begin
    BY <2>1 DEF Begin, StartOptions, StopDirect, main_stop_service, main_discover
  <2>2. CASE Continue
    <3>1. CASE StartSpawn
      BY <3>1 DEF StartSpawn
    <3>2. CASE StartFlags \/ StopOption \/ StopExit \/ StopFlags
      BY <3>2 DEF StartFlags, StopOption, StopExit, StopFlags
    <3> QED
      BY <2>2, <3>1, <3>2 DEF Continue
  <2>3. ASSUME NEW s \in Servers, start_all(s) PROVE TypeOK'
    <3>1. CASE Prologue(s) \/ Look(s) \/ Join(s) \/ Offline(s)
      BY <3>1, ZenonT(30) DEF Prologue, Look, Join, Offline, Goto
    <3>2. CASE ResetExit(s)
      BY <3>2 DEF ResetExit, Goto
    <3> QED
      BY <2>3, <3>1, <3>2 DEF start_all
  <2>4. ASSUME NEW s \in Servers, direct_server_loop(s) \/ FirstFrameEncoded(s) PROVE TypeOK'
    BY <2>4, ZenonT(30) DEF direct_server_loop, OpenListener, Opened, CloseListener, Listener, FirstFrameEncoded
  <2>5. ASSUME NEW s \in Servers, NEW h \in Hosts,
               Mediator(s, h) \/ Breaks(s, h) \/ ConfigureUpdate(s, h)
        PROVE  TypeOK'
    <3>1. ASSUME NEW m \in MediatorState, Becomes(s, h, m)
          PROVE  med' \in [Servers -> [Hosts -> MediatorState]]
      <4>1. [med[s] EXCEPT ![h] = m] \in [Hosts -> MediatorState]
        BY <3>1
      <4> QED
        BY <3>1, <4>1 DEF Becomes
    <3>2. med' \in [Servers -> [Hosts -> MediatorState]]
      <4>1. CASE ConfigureUpdate(s, h)
        BY <4>1 DEF ConfigureUpdate
      <4>2. CASE Tick(s, h)
        BY <3>1, <4>2 DEF Tick
      <4>3. CASE Resolved(s, h) \/ Leaves(s, h) \/ Breaks(s, h)
        BY <3>1, <4>3 DEF Resolved, Leaves, Breaks
      <4> QED
        BY <2>5, <4>1, <4>2, <4>3 DEF Mediator
    <3> QED
      BY <2>5, <3>2 DEF Mediator, Resolved, Tick, Leaves, Breaks, ConfigureUpdate
  <2>6. CASE UNCHANGED vars
    BY <2>6 DEF vars
  <2> QED
    BY <2>1, <2>2, <2>3, <2>4, <2>5, <2>6 DEF Next
<1> QED
  BY <1>1, <1>2, PTL DEF Spec

-----------------------------------------------------------------------------
(* A thread that has begun a round against the stop is past the reset, and *)
(* its next look sends it offline.                                         *)

LateRoundsArePast ==
  \A s \in lateRounds : stopService = "Y" /\ pc[s] # "reset"

IInv == TypeOK /\ LateRoundsArePast

LEMMA IInvHolds == Spec => []IInv
<1>1. Init => LateRoundsArePast
  BY DEF Init, LateRoundsArePast
<1>2. TypeOK /\ LateRoundsArePast /\ [Next]_vars => LateRoundsArePast'
  <2> SUFFICES ASSUME TypeOK, LateRoundsArePast, [Next]_vars PROVE LateRoundsArePast'
    OBVIOUS
  <2> USE DEF LateRoundsArePast, flags, thread
  <2>1. CASE Begin
    BY <2>1 DEF Begin, StartOptions, StopDirect, main_stop_service, main_discover
  <2>2. CASE Continue
    <3>1. CASE StartSpawn
      BY <3>1 DEF StartSpawn, TypeOK
    <3>2. CASE StartFlags \/ StopOption \/ StopExit \/ StopFlags
      BY <3>2 DEF StartFlags, StopOption, StopExit, StopFlags
    <3> QED
      BY <2>2, <3>1, <3>2 DEF Continue
  <2>3. ASSUME NEW s \in Servers, start_all(s) PROVE LateRoundsArePast'
    <3>1. CASE Prologue(s) \/ Join(s) \/ Offline(s)
      BY <3>1 DEF Prologue, Join, Offline, Goto, TypeOK
    <3>2. CASE Look(s)
      BY <3>2 DEF Look, Goto, TypeOK
    <3>3. CASE ResetExit(s)
      BY <3>3 DEF ResetExit, Goto, TypeOK
    <3> QED
      BY <2>3, <3>1, <3>2, <3>3 DEF start_all
  <2>4. ASSUME NEW s \in Servers, direct_server_loop(s) \/ FirstFrameEncoded(s)
        PROVE  LateRoundsArePast'
    BY <2>4 DEF direct_server_loop, OpenListener, Opened, CloseListener, Listener, FirstFrameEncoded
  <2>5. ASSUME NEW s \in Servers, NEW h \in Hosts,
               Mediator(s, h) \/ Breaks(s, h) \/ ConfigureUpdate(s, h)
        PROVE  LateRoundsArePast'
    BY <2>5 DEF Mediator, Resolved, Tick, Leaves, Breaks, ConfigureUpdate, Becomes
  <2>6. CASE UNCHANGED vars
    BY <2>6 DEF vars
  <2> QED
    BY <2>1, <2>2, <2>3, <2>4, <2>5, <2>6 DEF Next
<1> QED
  BY <1>1, <1>2, TypeCorrect, PTL DEF Spec, IInv

\* After a stop a server thread begins at most the round it had already
\* decided on, however many threads share the flag and the option.  Code:
\* start_all's look at stop-service and its reset of SHOULD_EXIT.
THEOREM OneLateRoundHolds == Spec => OneLateRound
<1>1. IInv /\ [Next]_vars =>
        [\A s \in Servers : ResetExit(s) /\ stopService = "Y" => s \notin lateRounds]_vars
  BY DEF IInv, LateRoundsArePast, ResetExit
<1> QED
  BY <1>1, IInvHolds, PTL DEF Spec, OneLateRound
=============================================================================
