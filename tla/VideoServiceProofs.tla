------------------------- MODULE VideoServiceProofs -------------------------
(***************************************************************************)
(* Proofs about VideoService for every set of connections and sizes.       *)
(***************************************************************************)
EXTENDS VideoService, TLAPS

(***************************************************************************)
(* StreamAgreement is not inductive: the swap that keeps the encoder is    *)
(* safe only because the active set is still empty there, because those    *)
(* who wait have received nothing of this encoder, and because a fresh     *)
(* encoder has sent nothing to anybody.                                    *)
(***************************************************************************)
SetsDisjoint ==
  /\ subscribes \cap new_subscribes = {}
  /\ gone \cap (subscribes \cup new_subscribes) = {}

KeepOnlyWhenEmpty == pc = "swapKeep" => subscribes = {}

\* Who is not active and still around has received nothing of this encoder.
OutsidersSawNothing ==
  pc \in Streaming \cup {"swapBail"} =>
    \A c \in Conns \ (gone \cup subscribes) : decode[c] = "none"

IInv ==
  /\ TypeOK
  /\ SetsDisjoint
  /\ KeepOnlyWhenEmpty
  /\ OutsidersSawNothing
  /\ StreamAgreement

-----------------------------------------------------------------------------
\* Type correctness: the service's sets, the thread's location, the encoder
\* size and the frame cache keep their types through every step.
THEOREM TypeCorrect == Spec => []TypeOK
<1>1. Init => TypeOK
  <2> SUFFICES ASSUME Init PROVE TypeOK
    OBVIOUS
  <2>1. disturb \in 0..MaxDisturb
    BY MaxDisturbAssumption DEF Init
  <2>2. pc \in Location
    BY DEF Init, Location
  <2>3. QED
    BY <2>1, <2>2, Zenon DEF Init, TypeOK
<1>2. TypeOK /\ [Next]_vars => TypeOK'
  <2> SUFFICES ASSUME TypeOK, [Next]_vars PROVE TypeOK'
    OBVIOUS
  <2> USE DEF TypeOK, subVars, threadVars, screenVars, Goto
  <2>1. ASSUME NEW c \in Conns, on_subscribe(c) PROVE TypeOK'
    BY <2>1 DEF on_subscribe
  <2>2. ASSUME NEW c \in Conns, on_unsubscribe(c) PROVE TypeOK'
    BY <2>2 DEF on_unsubscribe
  <2>3. CASE join
    BY <2>3 DEF join
  <2>4. ASSUME NEW s \in Sizes, update_ohos_incoming_frame(s) PROVE TypeOK'
    <3>1. disturb' \in 0..MaxDisturb
      BY <2>4, MaxDisturbAssumption DEF update_ohos_incoming_frame
    <3>2. frame' \in Sizes \cup {None} /\ fresh' \in BOOLEAN
          /\ last_frame_id' \in {"zero", "passed", "ahead"}
      BY <2>4, Zenon DEF update_ohos_incoming_frame
    <3>3. QED
      BY <2>4, <3>1, <3>2, Zenon DEF update_ohos_incoming_frame
  <2>5. CASE clear_ohos_incoming_frame
    <3>1. disturb' \in 0..MaxDisturb
      BY <2>5, MaxDisturbAssumption DEF clear_ohos_incoming_frame
    <3>2. QED
      BY <2>5, <3>1, Zenon DEF clear_ohos_incoming_frame
  <2>6. CASE CheckActive \/ CheckSubscribers \/ Backoff
    BY <2>6 DEF CheckActive, CheckSubscribers, Backoff, Location
  <2>7. CASE OpenEncoder
    BY <2>7 DEF OpenEncoder, display_size, Location, Streaming
  <2>8. CASE OpenFails \/ CheckOk \/ TakeFrame \/ WouldBlock
    BY <2>8 DEF OpenFails, CheckOk, TakeFrame, WouldBlock, Location, Streaming
  <2>9. CASE Snapshot \/ Switch \/ swap_new_subscribes \/ EncodeFails
    BY <2>9 DEF Snapshot, Switch, swap_new_subscribes, EncodeFails, Location, Streaming
  <2>10. CASE send_video_frame
    BY <2>10 DEF send_video_frame, Received, Location, Streaming
  <2>11. CASE UNCHANGED vars
    BY <2>11 DEF vars
  <2>12. QED
    BY <2>1, <2>2, <2>3, <2>4, <2>5, <2>6, <2>7, <2>8, <2>9, <2>10, <2>11
    DEF Next, Thread
<1>3. QED
  BY <1>1, <1>2, PTL DEF Spec

-----------------------------------------------------------------------------
LEMMA InvInit == Init => SetsDisjoint /\ KeepOnlyWhenEmpty /\ OutsidersSawNothing /\ StreamAgreement
BY DEF Init, SetsDisjoint, KeepOnlyWhenEmpty, OutsidersSawNothing, StreamAgreement, Streaming

LEMMA InvNext ==
  ASSUME IInv, TypeOK', [Next]_vars
  PROVE  IInv'
<1> USE DEF IInv, SetsDisjoint, KeepOnlyWhenEmpty, subVars, threadVars, screenVars, Goto, Streaming
<1>1. ASSUME NEW c \in Conns, on_subscribe(c) PROVE IInv'
  BY <1>1 DEF on_subscribe, OutsidersSawNothing, StreamAgreement
<1>2. ASSUME NEW c \in Conns, on_unsubscribe(c) PROVE IInv'
  <2>1. subscribes' \subseteq subscribes /\ gone' = gone \cup {c}
        /\ gone \cup subscribes \subseteq gone' \cup subscribes'
        /\ pc' = pc /\ decode' = decode
    BY <1>2 DEF on_unsubscribe
  <2>2. SetsDisjoint' /\ KeepOnlyWhenEmpty'
    BY <1>2, <2>1 DEF on_unsubscribe
  <2>3. OutsidersSawNothing' /\ StreamAgreement'
    BY <2>1 DEF OutsidersSawNothing, StreamAgreement
  <2>4. QED
    BY <2>2, <2>3
<1>3. CASE join
  BY <1>3 DEF join, OutsidersSawNothing, StreamAgreement
<1>4. ASSUME NEW s \in Sizes, update_ohos_incoming_frame(s) PROVE IInv'
  BY <1>4 DEF update_ohos_incoming_frame, OutsidersSawNothing, StreamAgreement
<1>5. CASE clear_ohos_incoming_frame
  BY <1>5 DEF clear_ohos_incoming_frame, OutsidersSawNothing, StreamAgreement
<1>6. CASE CheckActive \/ CheckSubscribers \/ Backoff \/ OpenFails
  <2>1. pc' \in {"poll", "exited", "open", "outer", "backoff"}
        /\ UNCHANGED <<subscribes, new_subscribes, gone, decode>>
    BY <1>6 DEF CheckActive, CheckSubscribers, Backoff, OpenFails
  <2>2. QED
    BY <2>1 DEF OutsidersSawNothing, StreamAgreement
<1>7. CASE OpenEncoder
  <2>1. /\ pc' = "ok" /\ UNCHANGED <<subscribes, new_subscribes, gone>>
        /\ \A c \in Conns : decode'[c] = "none"
    BY <1>7 DEF OpenEncoder
  <2>2. subscribes \subseteq Conns
    BY DEF TypeOK
  <2>3. OutsidersSawNothing' /\ StreamAgreement'
    BY <2>1, <2>2 DEF OutsidersSawNothing, StreamAgreement
  <2>4. SetsDisjoint' /\ KeepOnlyWhenEmpty'
    BY <2>1
  <2>5. QED
    BY <2>3, <2>4
<1>8. CASE CheckOk \/ TakeFrame \/ WouldBlock \/ Snapshot \/ Switch \/ EncodeFails
  BY <1>8 DEF CheckOk, TakeFrame, WouldBlock, Snapshot, Switch, EncodeFails,
              OutsidersSawNothing, StreamAgreement
<1>9. CASE swap_new_subscribes
  <2>1. CASE pc = "swapBail"
    BY <1>9, <2>1 DEF swap_new_subscribes, OutsidersSawNothing, StreamAgreement
  <2>2. CASE pc = "swapKeep"
    <3>1. subscribes' = new_subscribes /\ gone' = gone /\ decode' = decode /\ pc' = "encode"
      BY <1>9, <2>2 DEF swap_new_subscribes
    <3>2. \A c \in Conns \ gone : decode[c] = "none"
      BY <2>2 DEF OutsidersSawNothing
    <3>3. new_subscribes \subseteq Conns \ gone
      BY DEF TypeOK
    <3>4. SetsDisjoint' /\ KeepOnlyWhenEmpty'
      BY <1>9, <2>2 DEF swap_new_subscribes
    <3>5. OutsidersSawNothing' /\ StreamAgreement'
      BY <3>1, <3>2, <3>3 DEF OutsidersSawNothing, StreamAgreement
    <3>6. QED
      BY <3>4, <3>5
  <2>3. QED
    BY <1>9, <2>1, <2>2 DEF swap_new_subscribes
<1>10. CASE send_video_frame
  <2>1. \A c \in subscribes : decode'[c] = Received(c)
    BY <1>10 DEF send_video_frame, TypeOK
  <2>2. \A c \in Conns \ subscribes : decode'[c] = decode[c]
    BY <1>10 DEF send_video_frame
  <2>3. pc = "encode" /\ pc' = "ok" /\ subscribes' = subscribes /\ gone' = gone
    BY <1>10 DEF send_video_frame
  <2>4. OutsidersSawNothing'
    BY <2>2, <2>3 DEF OutsidersSawNothing
  <2>5. StreamAgreement'
    BY <2>1, <2>3 DEF StreamAgreement, Received
  <2>6. SetsDisjoint' /\ KeepOnlyWhenEmpty'
    BY <1>10 DEF send_video_frame
  <2>7. QED
    BY <2>4, <2>5, <2>6
<1>11. CASE UNCHANGED vars
  BY <1>11 DEF vars, OutsidersSawNothing, StreamAgreement
<1>12. QED
  BY <1>1, <1>2, <1>3, <1>4, <1>5, <1>6, <1>7, <1>8, <1>9, <1>10, <1>11
  DEF Next, Thread

LEMMA InvHolds == Spec => []IInv
<1>1. Init /\ TypeOK => IInv
  BY InvInit DEF IInv
<1>2. IInv /\ TypeOK' /\ [Next]_vars => IInv'
  BY InvNext
<1>3. QED
  BY <1>1, <1>2, TypeCorrect, PTL DEF Spec

\* Whatever the order in which connections come and go between the service
\* thread's lock acquisitions, the active subscribers agree on what they can
\* decode: nobody is slipped into a stream that another one watches.
THEOREM StreamAgreementHolds == Spec => []StreamAgreement
BY InvHolds, PTL DEF IInv

\* The move of a waiting connection into a non-empty active set always
\* abandons the encoder, for any number of connections.
THEOREM JoinRestartsHolds == Spec => JoinRestarts
<1>1. IInv /\ [Next]_vars =>
        [\A c \in Conns :
           (c \in new_subscribes /\ c \in subscribes' /\ subscribes # {})
             => pc' = "backoff"]_vars
  <2> SUFFICES ASSUME IInv, Next,
                      NEW c \in Conns,
                      c \in new_subscribes, c \in subscribes', subscribes # {}
               PROVE  pc' = "backoff"
    BY DEF vars
  <2>1. c \notin subscribes
    BY DEF IInv, SetsDisjoint
  <2>2. swap_new_subscribes
    BY <2>1 DEF Next, Thread, CheckActive, CheckSubscribers, Backoff, OpenEncoder, OpenFails,
       CheckOk, TakeFrame, WouldBlock, Snapshot, Switch, EncodeFails, send_video_frame,
       on_subscribe, on_unsubscribe, join, update_ohos_incoming_frame,
       clear_ohos_incoming_frame, subVars
  <2>3. QED
    BY <2>2 DEF swap_new_subscribes, IInv, KeepOnlyWhenEmpty, Goto
<1>2. QED
  BY <1>1, InvHolds, PTL DEF Spec, JoinRestarts

\* The service's two subscriber sets implement the set of viewers that the
\* server's connections rely on.
THEOREM ImplementsViewers == Spec => ImplementsViewerSet
<1> USE DEF Viewers!Join, Viewers!Leave, Viewers!Next, subVars
<1>1. Init => Viewers!Init
  BY DEF Init, Viewers!Init
<1>2. IInv /\ [Next]_vars => [Viewers!Next]_<<subscribes \cup new_subscribes, gone>>
  <2> SUFFICES ASSUME IInv, [Next]_vars
               PROVE  Viewers!Next \/ UNCHANGED <<subscribes \cup new_subscribes, gone>>
    OBVIOUS
  <2>1. ASSUME NEW c \in Conns, on_subscribe(c) PROVE Viewers!Join(c)
    BY <2>1 DEF on_subscribe
  <2>2. ASSUME NEW c \in Conns, on_unsubscribe(c) PROVE Viewers!Leave(c)
    BY <2>2 DEF on_unsubscribe, IInv, SetsDisjoint
  <2>3. CASE swap_new_subscribes
    BY <2>3 DEF swap_new_subscribes
  <2>4. CASE CheckActive \/ CheckSubscribers \/ Backoff \/ OpenEncoder \/ OpenFails
             \/ CheckOk \/ TakeFrame \/ WouldBlock \/ Snapshot \/ Switch
             \/ EncodeFails \/ send_video_frame
    BY <2>4 DEF CheckActive, CheckSubscribers, Backoff, OpenEncoder, OpenFails, CheckOk,
                TakeFrame, WouldBlock, Snapshot, Switch, EncodeFails, send_video_frame
  <2>5. CASE join \/ clear_ohos_incoming_frame
             \/ \E s \in Sizes : update_ohos_incoming_frame(s)
    BY <2>5 DEF join, clear_ohos_incoming_frame, update_ohos_incoming_frame
  <2>6. CASE UNCHANGED vars
    BY <2>6 DEF vars
  <2>7. QED
    BY <2>1, <2>2, <2>3, <2>4, <2>5, <2>6 DEF Next, Thread
<1>3. QED
  BY <1>1, <1>2, InvHolds, PTL DEF Spec, ImplementsViewerSet, Viewers!Spec
=============================================================================
