------------------------------- MODULE LinuxWSI -------------------------------
(***************************************************************************)
(* The last step of a present on the client: a frame that came from the    *)
(* server is decoded, copied into the buffer of its image and handed to    *)
(* the window system, which shows it some time later and then gives the    *)
(* buffer back.  Four backends: X11 with GBM buffers ("gbm"), X11 with     *)
(* XPutImage ("cpu"), Wayland with DMA-BUFs ("dmabuf") and with shared     *)
(* memory ("shm").                                                         *)
(*                                                                         *)
(* A present that finds its buffer free is one action; one that has to     *)
(* wait is cut at the events it reads.                                     *)
(***************************************************************************)
EXTENDS FrameCodec

CONSTANTS
  Kinds,       \* backends this build and these windows may use
  Images,      \* number of images of a swapchain
  Frames,      \* frames the server may send
  Mishaps      \* "remap": gbm_bo_map fails; "hangup": the display goes away

ASSUME WSIAssumption ==
  /\ Kinds \subseteq {"gbm", "cpu", "dmabuf", "shm"}
  /\ Images \in Nat \ {0, 1}
  /\ Frames \subseteq Seq(0 .. MaxCount)   \* of bytes
  /\ Mishaps \subseteq {"remap", "hangup"}

VARIABLES
  kind,        \* the backend of the open window, or "none"
  online,      \* the connection to the window system
  buffers,     \* buffers_: by image, pixels, in_use (busy) and mapped
  turn,        \* the image the application presents next
  call,        \* where handle_frame is
  queue,       \* presents the window system has not shown yet
  screen,      \* what the window shows: at most one present
  events,      \* idle or release events not read yet: their images
  dropped      \* history: a frame of this window was dropped

windowVars == <<queue, screen, events>>
vars == <<kind, online, buffers, turn, call, windowVars, dropped>>

Wayland == {"dmabuf", "shm"}
Mapping == {"gbm", "dmabuf"}     \* map and unmap a buffer for every frame
Image   == 0 .. Images - 1

Idle     == [at |-> "idle"]
Buffer   == [pixels |-> <<>>, in_use |-> FALSE, mapped |-> TRUE]

Init ==
  /\ kind = "none" /\ online = TRUE
  /\ buffers = [i \in Image |-> Buffer]
  /\ turn = 0
  /\ call = Idle
  /\ queue = <<>> /\ screen = <<>> /\ events = <<>>
  /\ dropped = FALSE

\* May gbm_bo_map succeed, may it fail?
MapResults == IF "remap" \in Mishaps THEN BOOLEAN ELSE {TRUE}

-----------------------------------------------------------------------------
(* Windows.                                                                *)

Fallback(k) == IF k = "gbm" THEN {"cpu"} ELSE IF k = "dmabuf" THEN {"shm"} ELSE {}

\* LinuxWSI::init: the chosen backend, or the one it falls back to.  Only
\* XPutImage can be set up without an answer from the window system.
Open(k) ==
  /\ kind = "none"
  /\ kind' \in {b \in ({k} \cup Fallback(k)) \cap Kinds : online \/ b = "cpu"}
  /\ buffers' = [i \in Image |-> Buffer]
  /\ turn' = 0 /\ dropped' = FALSE
  /\ UNCHANGED <<online, call, windowVars>>

\* LinuxWSI::shutdown; what the window system still has of it is forgotten.
Shutdown ==
  /\ kind # "none" /\ call = Idle
  /\ kind' = "none"
  /\ buffers' = [i \in Image |-> Buffer]
  /\ queue' = <<>> /\ screen' = <<>> /\ events' = <<>>
  /\ UNCHANGED <<online, turn, call, dropped>>

-----------------------------------------------------------------------------
(* handle_frame.                                                           *)

\* Mutation: the event gives back the buffer before the one it names.
OneBack(i) == (i + Images - 1) % Images
\* The buffer an event is about.
Released(i) == i

\* The buffers once the events es are handled, mapped again where the handler
\* does so and gbm_bo_map succeeds.
Handled(es, ok) ==
  [i \in Image |->
     IF \E n \in DOMAIN es : Released(es[n]) = i
     THEN [buffers[i] EXCEPT !.in_use = FALSE,
                             !.mapped = @ \/ (kind = "gbm" /\ ok)]
     ELSE buffers[i]]

\* Events handled before a present: process_events(false) polls one, which may
\* not have arrived, flush_events those that were read along with others, shm
\* none.
Early ==
  CASE kind = "gbm"    -> IF events = <<>> THEN {0} ELSE {0, 1}
    [] kind = "dmabuf" -> 0 .. Len(events)
    [] OTHER           -> {0}

\* handle_frame up to the wait for the buffer; a frame that cannot be decoded
\* goes no further.
HandleFrame(f) ==
  LET pixels == Decompress(Compress(f))
  IN  /\ call = Idle /\ kind # "none"
      /\ turn' = (turn + 1) % Images
      /\ IF pixels.ok
         THEN \E n \in Early, ok \in MapResults :
                /\ buffers' = Handled(SubSeq(events, 1, n), ok)
                /\ events' = SubSeq(events, n + 1, Len(events))
                /\ call' = [at |-> "wait", image |-> turn, frame |-> f,
                            pixels |-> pixels.bytes]
                /\ UNCHANGED dropped
         ELSE dropped' = TRUE /\ UNCHANGED <<buffers, events, call>>
      /\ UNCHANGED <<kind, online, queue, screen>>

\* Mutation: no wait.
FreeAtOnce(i) == TRUE
\* Mutation: the wait does not look at the result of wl_display_dispatch.
FreeByEvent(i) == ~buffers[i].in_use
\* wait_for_buffer is over: the buffer is free or, on Wayland, the dispatch
\* failed.
Free(i) == ~buffers[i].in_use \/ (kind \in Wayland /\ ~online)

\* The wait is over: copy_rows, and the buffer goes to the window system.  A
\* buffer that cannot be mapped costs the frame.
Present ==
  LET i == call.image
  IN  /\ call.at = "wait" /\ kind # "cpu" /\ Free(i)
      /\ \E ok \in MapResults :
           IF kind \notin Mapping \/ buffers[i].mapped \/ ok
           THEN /\ buffers' = [buffers EXCEPT ![i] =
                     [pixels |-> call.pixels, in_use |-> TRUE,
                      mapped |-> kind \notin Mapping]]
                /\ queue' = IF online
                            THEN Append(queue, [image |-> i, frame |-> call.frame])
                            ELSE queue
                /\ UNCHANGED dropped
           ELSE dropped' = TRUE /\ UNCHANGED <<buffers, queue>>
      /\ call' = Idle
      /\ UNCHANGED <<kind, online, turn, screen, events>>

\* xcb_put_image copies the pixels into the request: nothing is given back.
PutImage ==
  /\ call.at = "wait" /\ kind = "cpu"
  /\ buffers' = [buffers EXCEPT ![call.image].pixels = call.pixels]
  /\ screen' = IF online THEN <<[image |-> call.image, frame |-> call.frame]>>
                         ELSE screen
  /\ call' = Idle
  /\ UNCHANGED <<kind, online, turn, queue, events, dropped>>

\* wl_display_dispatch handles everything that arrived; it waits for something
\* to arrive.
Dispatch ==
  /\ call.at = "wait" /\ kind \in Wayland /\ ~Free(call.image)
  /\ events # <<>>
  /\ buffers' = Handled(events, TRUE)
  /\ events' = <<>>
  /\ UNCHANGED <<kind, online, turn, call, queue, screen, dropped>>

\* wait_for_buffer calls process_events(true).
StartPump ==
  /\ call.at = "wait" /\ kind = "gbm" /\ ~Free(call.image)
  /\ call' = [call EXCEPT !.at = "pump"]
  /\ UNCHANGED <<kind, online, buffers, turn, windowVars, dropped>>

\* process_events(true) handles an event and waits for the next one; it leaves
\* its loop only when the connection is lost.
Pump ==
  /\ call.at = "pump"
  /\ IF events # <<>>
     THEN \E ok \in MapResults :
            /\ buffers' = Handled(<<Head(events)>>, ok)
            /\ events' = Tail(events)
            /\ UNCHANGED call
     ELSE /\ ~online
          /\ call' = [call EXCEPT !.at = "wait"]
          /\ UNCHANGED <<buffers, events>>
  /\ UNCHANGED <<kind, online, turn, queue, screen, dropped>>

-----------------------------------------------------------------------------
(* The window system, and the application's own use of the connection.     *)

\* The buffers of the presents in s are given back, in order.
GiveBack(s) == events' = events \o [n \in DOMAIN s |-> s[n].image]

\* The next present is shown, from its buffer; the one before leaves.
Flip ==
  /\ online /\ queue # <<>>
  /\ screen' = <<Head(queue)>>
  /\ queue' = Tail(queue)
  /\ GiveBack(screen)
  /\ UNCHANGED <<kind, online, buffers, turn, call, dropped>>

\* The next present is copied to the screen and its buffer given back at once.
Copy ==
  /\ online /\ queue # <<>>
  /\ screen' = <<>>
  /\ queue' = Tail(queue)
  /\ GiveBack(Append(screen, Head(queue)))
  /\ UNCHANGED <<kind, online, buffers, turn, call, dropped>>

\* The next present never shows: a later one has its place.
Skip ==
  /\ online /\ Len(queue) > 1
  /\ queue' = Tail(queue)
  /\ GiveBack(<<Head(queue)>>)
  /\ UNCHANGED <<kind, online, buffers, turn, call, screen, dropped>>

\* The application handles the events of its display itself.
AppDispatches ==
  /\ call = Idle /\ kind \in Wayland /\ events # <<>>
  /\ buffers' = Handled(events, TRUE)
  /\ events' = <<>>
  /\ UNCHANGED <<kind, online, turn, call, queue, screen, dropped>>

\* The window system goes away; events that came before can still be read.
Hangup ==
  /\ "hangup" \in Mishaps /\ online
  /\ online' = FALSE
  /\ queue' = <<>> /\ screen' = <<>>
  /\ UNCHANGED <<kind, buffers, turn, call, events, dropped>>

-----------------------------------------------------------------------------
Waiting == Present \/ PutImage \/ Dispatch \/ StartPump \/ Pump

Next ==
  \/ \E k \in Kinds : Open(k)
  \/ Shutdown
  \/ \E f \in Frames : HandleFrame(f)
  \/ Waiting
  \/ Flip \/ Copy \/ Skip
  \/ AppDispatches \/ Hangup

Spec == Init /\ [][Next]_vars

\* A call goes on while it can; the window system gets to every present.
Fairness == WF_vars(Waiting) /\ WF_vars(Flip \/ Copy)

FairSpec == Spec /\ Fairness

-----------------------------------------------------------------------------
(* Properties.                                                             *)

Entry == [image : Image, frame : Frames]

\* Types; no more is queued or to be read than there are buffers.
TypeOK ==
  /\ kind \in Kinds \cup {"none"} /\ online \in BOOLEAN /\ dropped \in BOOLEAN
  /\ turn \in Image
  /\ \A i \in Image : /\ buffers[i].pixels \in Frames \cup {<<>>}
                      /\ buffers[i].in_use \in BOOLEAN
                      /\ buffers[i].mapped \in BOOLEAN
  /\ call.at \in {"idle", "wait", "pump"}
  /\ call.at # "idle" => call.image \in Image /\ call.frame \in Frames
  /\ queue \in Seq(Entry) /\ screen \in Seq(Entry) /\ events \in Seq(Image)
  /\ Len(queue) + Len(screen) + Len(events) <= Images

\* What the window system will show or shows is the frame the server sent:
\* its buffer is not written again before it is given back, whenever events
\* come and in whatever order presents, dispatches and failures happen.
FramesStayIntact ==
  \A n \in DOMAIN (screen \o queue) :
    LET entry == (screen \o queue)[n]
    IN  buffers[entry.image].pixels = entry.frame

\* A buffer is marked in use exactly while the window system has it or its
\* event is still to be read, and it has it once: the flag is set and cleared
\* in different calls, by events read some at a time.
InUseIsAccounted ==
  (online /\ kind # "cpu") =>
    \A i \in Image :
      LET there == {n \in DOMAIN (screen \o queue) : (screen \o queue)[n].image = i}
          back  == {n \in DOMAIN events : events[n] = i}
      IN  Cardinality(there) + Cardinality(back) = IF buffers[i].in_use THEN 1 ELSE 0

\* Every frame that handle_frame took is presented, with every backend but
\* "gbm", as long as no frame of the window was dropped: a wait for a buffer
\* ends, by its event or with the connection.
PresentReturns ==
  (call # Idle /\ kind # "gbm") ~> (call = Idle \/ dropped)

\* The same for "gbm": the idle event of its buffer ends the wait.  Not what
\* the code does.
IdleEndsWait ==
  (call # Idle /\ kind = "gbm") ~> (call = Idle)

=============================================================================
