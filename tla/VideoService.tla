---------------------------- MODULE VideoService ----------------------------
(***************************************************************************)
(* The primary video service of the OHOS server ("monitor0"): the          *)
(* subscriber sets of ServiceTmpl, the service thread of ServiceTmpl::run, *)
(* and the capture/encode loop video_service::run that the thread calls    *)
(* back (server_ohos.rs).                                                  *)
(*                                                                         *)
(* Connection tasks subscribe and unsubscribe on other threads.  Every     *)
(* acquisition of the service's RwLock by the service thread is a step of  *)
(* its own, so their calls may fall between any two of them.               *)
(*                                                                         *)
(* The encoder is VP9 with key frames disabled: only the first frame an    *)
(* encoder produces is a key frame.  `decode' records what that means for  *)
(* each subscriber.                                                        *)
(*                                                                         *)
(* An operator named after another one with a suffix (on_subscribe_Direct) *)
(* is a slip the code could have made there.  It is no part of the model;  *)
(* it shows which property would notice.                                   *)
(***************************************************************************)
EXTENDS Naturals

CONSTANTS
  Conns,        \* connection ids that may subscribe
  Sizes,        \* frame sizes <<width, height>> the screen can have
  DefaultSize,  \* Display::primary() before any frame is cached
  None,         \* the empty frame cache
  MaxDisturb    \* bound: rotations and cache clears in one behaviour

ASSUME SizesAssumption ==
  /\ Sizes \subseteq Nat \X Nat
  /\ DefaultSize \in Nat \X Nat
  /\ None \notin Sizes

ASSUME MaxDisturbAssumption == MaxDisturb \in Nat

VARIABLES
  subscribes,      \* ServiceInner.subscribes
  new_subscribes,  \* ServiceInner.new_subscribes: waiting for a snapshot
  active,          \* ServiceInner.active
  pc,              \* where the service thread is
  enc,             \* size the current encoder was built for
  first_frame,     \* the encoder has not produced its key frame yet
  frame,           \* size of the frame in the scrap cache, or None
  fresh,           \* its id differs from the capturer's last_frame_id
  last_frame_id,   \* Capturer.last_frame_id against the ids to come:
                   \*   "zero"   no frame taken, no id equals it
                   \*   "passed" every id to come is larger
                   \*   "ahead"  ids restarted at 1, one may equal it
  decode,          \* history: what each subscriber got of this encoder
  gone,            \* history: connections that have been cleaned up
  disturb          \* history: rotations and clears so far

threadVars == <<pc, enc, first_frame>>
screenVars == <<frame, fresh, last_frame_id, disturb>>
subVars    == <<subscribes, new_subscribes, gone>>
vars == <<subVars, threadVars, screenVars, active, decode>>

Streaming == {"ok", "frame", "snapshot", "switch", "swapKeep", "encode"}
Location == Streaming \cup {"outer", "poll", "open", "swapBail", "backoff", "exited"}

TypeOK ==
  /\ subscribes \subseteq Conns
  /\ new_subscribes \subseteq Conns
  /\ active \in BOOLEAN
  /\ pc \in Location
  /\ enc \in Sizes \cup {DefaultSize}
  /\ first_frame \in BOOLEAN
  /\ frame \in Sizes \cup {None}
  /\ fresh \in BOOLEAN
  /\ last_frame_id \in {"zero", "passed", "ahead"}
  /\ decode \in [Conns -> {"none", "synced", "broken"}]
  /\ gone \subseteq Conns
  /\ disturb \in 0..MaxDisturb

Init ==
  /\ subscribes = {}
  /\ new_subscribes = {}
  /\ active = TRUE
  /\ pc = "outer"
  /\ enc = DefaultSize
  /\ first_frame = TRUE
  /\ frame = None
  /\ fresh = FALSE
  /\ last_frame_id = "zero"
  /\ decode = [c \in Conns |-> "none"]
  /\ gone = {}
  /\ disturb = 0

-----------------------------------------------------------------------------
(* Calls of the connection tasks, each under one write lock.               *)

\* ServiceInner::has_subscribes
has_subscribes == subscribes \cup new_subscribes # {}

\* Slip: the service was created without need_snapshot.
on_subscribe_Direct(c) ==
  /\ c \notin gone
  /\ c \notin subscribes
  /\ subscribes' = subscribes \cup {c}
  /\ UNCHANGED <<new_subscribes, gone, threadVars, screenVars, active, decode>>

\* Service::on_subscribe of a service with need_snapshot.  A connection
\* subscribes while its task runs, never after its cleanup.
on_subscribe(c) ==
  /\ c \notin gone
  /\ c \notin subscribes \cup new_subscribes
  /\ new_subscribes' = new_subscribes \cup {c}
  /\ UNCHANGED <<subscribes, gone, threadVars, screenVars, active, decode>>

\* Slip: who is still waiting is forgotten.
on_unsubscribe_ActiveOnly(c) ==
  /\ c \notin gone
  /\ subscribes' = subscribes \ {c}
  /\ gone' = gone \cup {c}
  /\ UNCHANGED <<new_subscribes, threadVars, screenVars, active, decode>>

\* Service::on_unsubscribe, called once by the connection's cleanup.
on_unsubscribe(c) ==
  /\ c \notin gone
  /\ IF c \in subscribes
       THEN subscribes' = subscribes \ {c} /\ UNCHANGED new_subscribes
       ELSE new_subscribes' = new_subscribes \ {c} /\ UNCHANGED subscribes
  /\ gone' = gone \cup {c}
  /\ UNCHANGED <<threadVars, screenVars, active, decode>>

\* Service::join, called by Server::drop: stop the thread and wait for it.  The
\* program keeps its Server for as long as it runs; the flag that the loops
\* look at is modelled for whoever drops one.
join ==
  /\ active
  /\ active' = FALSE
  /\ UNCHANGED <<subVars, threadVars, screenVars, decode>>

-----------------------------------------------------------------------------
(* The screen: the scrap frame cache written by the core.  After a clear   *)
(* frame ids restart at 1, so one later frame may carry the very id the    *)
(* capturer saw last and is then taken for the old one.                    *)

update_ohos_incoming_frame(s) ==
  /\ IF frame \in {None, s} THEN UNCHANGED disturb
                            ELSE disturb < MaxDisturb /\ disturb' = disturb + 1
  /\ frame' = s
  /\ \/ fresh' = TRUE /\ UNCHANGED last_frame_id
     \/ last_frame_id = "ahead" /\ last_frame_id' = "passed" /\ fresh' = FALSE
  /\ UNCHANGED <<subVars, threadVars, active, decode>>

clear_ohos_incoming_frame ==
  /\ disturb < MaxDisturb
  /\ disturb' = disturb + 1
  /\ frame' = None
  /\ fresh' = FALSE
  /\ last_frame_id' = IF last_frame_id = "zero" THEN "zero" ELSE "ahead"
  /\ UNCHANGED <<subVars, threadVars, active, decode>>

-----------------------------------------------------------------------------
(* The service thread, ServiceTmpl::run.                                   *)

Goto(l) == pc' = l

\* while sp.active()
CheckActive ==
  /\ pc = "outer"
  /\ Goto(IF active THEN "poll" ELSE "exited")
  /\ UNCHANGED <<subVars, screenVars, active, decode, enc, first_frame>>

\* if sp.has_subscribes() { callback }, else sleep
CheckSubscribers ==
  /\ pc = "poll"
  /\ Goto(IF has_subscribes THEN "open" ELSE "outer")
  /\ UNCHANGED <<subVars, screenVars, active, decode, enc, first_frame>>

\* The error arm of the loop: log, sleep, poll again.
Backoff ==
  /\ pc = "backoff"
  /\ Goto("outer")
  /\ UNCHANGED <<subVars, screenVars, active, decode, enc, first_frame>>

-----------------------------------------------------------------------------
(* The callback, video_service::run.                                       *)

\* Slip: no default before the first frame.
display_size_NoDefault == frame

\* Display::primary(): the size of the cached frame, or the default.
display_size == IF frame = None THEN DefaultSize ELSE frame

\* get_capturer and Encoder::new: a capturer that has seen no frame, an
\* encoder for the size the display has now.
OpenEncoder ==
  /\ pc = "open"
  /\ enc' = display_size
  /\ fresh' = (frame # None)
  /\ last_frame_id' = "zero"
  /\ first_frame' = TRUE
  /\ decode' = [c \in Conns |-> "none"]
  /\ Goto("ok")
  /\ UNCHANGED <<subVars, active, frame, disturb>>

OpenFails ==
  /\ pc = "open"
  /\ Goto("backoff")
  /\ UNCHANGED <<subVars, screenVars, active, decode, enc, first_frame>>

\* Slip: a stopped service runs on while somebody watches.
ok_StopIgnored == has_subscribes

\* Service::ok
ok == active /\ has_subscribes

\* while sp.ok(); leaving the loop returns Ok to ServiceTmpl::run.
CheckOk ==
  /\ pc = "ok"
  /\ Goto(IF ok THEN "frame" ELSE "outer")
  /\ UNCHANGED <<subVars, screenVars, active, decode, enc, first_frame>>

\* convert_to_yuv refuses a picture larger than the encoder's.
Exceeds(src, dst) == src[1] > dst[1] \/ src[2] > dst[2]

\* c.frame() returns an unseen frame; frame.to() may fail and end the run.
TakeFrame ==
  /\ pc = "frame"
  /\ fresh
  /\ fresh' = FALSE
  /\ last_frame_id' = "passed"
  /\ Goto(IF Exceeds(frame, enc) THEN "backoff" ELSE "snapshot")
  /\ UNCHANGED <<subVars, active, decode, enc, first_frame, frame, disturb>>

\* c.frame() times out.  VpxEncoder is latency_free, so nothing is encoded
\* again and the subscriber sets are not looked at.
WouldBlock ==
  /\ pc = "frame"
  /\ ~fresh
  /\ Goto("ok")
  /\ UNCHANGED <<subVars, screenVars, active, decode, enc, first_frame>>

\* snapshot: is anybody waiting to join?
Snapshot ==
  /\ pc = "snapshot"
  /\ Goto(IF new_subscribes # {} THEN "switch" ELSE "encode")
  /\ UNCHANGED <<subVars, screenVars, active, decode, enc, first_frame>>

\* ServiceSwap::has_subscribes: is there an existing stream?
Switch ==
  /\ pc = "switch"
  /\ Goto(IF subscribes # {} THEN "swapBail" ELSE "swapKeep")
  /\ UNCHANGED <<subVars, screenVars, active, decode, enc, first_frame>>

\* Slip: the swap is left out when the callback bails.
swap_new_subscribes_NotOnBail ==
  /\ pc \in {"swapKeep", "swapBail"}
  /\ subscribes' = IF pc = "swapBail" THEN subscribes ELSE subscribes \cup new_subscribes
  /\ new_subscribes' = IF pc = "swapBail" THEN new_subscribes ELSE {}
  /\ Goto(IF pc = "swapBail" THEN "backoff" ELSE "encode")
  /\ UNCHANGED <<gone, screenVars, active, decode, enc, first_frame>>

\* Drop for ServiceSwap: whatever was decided, everybody waiting by now
\* becomes an active subscriber.
swap_new_subscribes ==
  /\ pc \in {"swapKeep", "swapBail"}
  /\ subscribes' = subscribes \cup new_subscribes
  /\ new_subscribes' = {}
  /\ Goto(IF pc = "swapBail" THEN "backoff" ELSE "encode")
  /\ UNCHANGED <<gone, screenVars, active, decode, enc, first_frame>>

\* encode_to_message fails (or drops the frame): only a counter changes.
EncodeFails ==
  /\ pc = "encode"
  /\ Goto("ok")
  /\ UNCHANGED <<subVars, screenVars, active, decode, enc, first_frame>>

\* What a subscriber can show after the next frame of this encoder.
Received(c) ==
  IF first_frame \/ decode[c] = "synced" THEN "synced" ELSE "broken"

\* encode_to_message and send_video_frame to the active set.
send_video_frame ==
  /\ pc = "encode"
  /\ first_frame' = FALSE
  /\ decode' = [c \in Conns |-> IF c \in subscribes THEN Received(c) ELSE decode[c]]
  /\ Goto("ok")
  /\ UNCHANGED <<subVars, screenVars, active, enc>>

-----------------------------------------------------------------------------
Thread ==
  \/ CheckActive \/ CheckSubscribers \/ Backoff
  \/ OpenEncoder \/ OpenFails \/ CheckOk
  \/ TakeFrame \/ WouldBlock
  \/ Snapshot \/ Switch \/ swap_new_subscribes
  \/ EncodeFails \/ send_video_frame

Next ==
  \/ Thread
  \/ \E c \in Conns : on_subscribe(c) \/ on_unsubscribe(c)
  \/ join
  \/ \E s \in Sizes : update_ohos_incoming_frame(s)
  \/ clear_ohos_incoming_frame

Spec == Init /\ [][Next]_vars

\* The screen keeps changing: the app hands over another frame of the same
\* size that the capturer has not seen.
ScreenChanges ==
  /\ frame # None
  /\ update_ohos_incoming_frame(frame)
  /\ fresh'

\* The thread is scheduled; opening and encoding do not fail for ever; the
\* app starts capturing and the screen keeps changing.
Fairness ==
  /\ WF_vars(Thread)
  /\ SF_vars(OpenEncoder)
  /\ SF_vars(send_video_frame)
  /\ WF_vars(ScreenChanges)
  /\ WF_vars(frame = None /\ \E s \in Sizes : update_ohos_incoming_frame(s))

FairSpec == Spec /\ Fairness

-----------------------------------------------------------------------------
(* Properties.                                                             *)

\* The connections in the active set are always in the same decoding state:
\* no one joins a running stream that others are watching, although the
\* snapshot, the look at the active set and the swap are three separate
\* lock acquisitions (handle_one_frame, snapshot, ServiceSwap::drop).
StreamAgreement ==
  pc \in Streaming => \A c, d \in subscribes : decode[c] = decode[d]

\* A connection waiting to join is only ever moved into a non-empty active
\* set by a step that also abandons the encoder (bail "SWITCH").
JoinRestarts ==
  [][\A c \in Conns :
       (c \in new_subscribes /\ c \in subscribes' /\ subscribes # {})
         => pc' = "backoff"]_vars

\* What the comment in handle_one_frame promises: joining an existing
\* stream restarts the encoder, so no subscriber is ever sent a delta frame
\* before the key frame it depends on.
KeyFrameFirst == \A c \in Conns : decode[c] # "broken"

\* Every waiting subscriber is eventually sent a frame, unless it leaves or
\* the server is dropped: bailing for a newcomer must not bail for ever.
ViewerServed ==
  \A c \in Conns :
    c \in new_subscribes ~> (decode[c] # "none" \/ c \in gone \/ ~active)

\* Service::join returns: once the flag is reset the thread gets to its end, even
\* with subscribers left and a screen that keeps changing.
JoinReturns == ~active ~> pc = "exited"

\* The two subscriber sets together behave as the set of viewers that the
\* connection tasks rely on: a swap loses and invents nobody, and who has
\* unsubscribed never comes back through a swap that was under way.
Viewers == INSTANCE ViewerSet WITH
  viewers <- subscribes \cup new_subscribes, left <- gone

ImplementsViewerSet == Viewers!Spec
=============================================================================
