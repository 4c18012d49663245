--------------------------- MODULE KeyboardSurface ---------------------------
(***************************************************************************)
(* The keyboard's layer surface (osk/src/wayland.rs State): created when   *)
(* the keyboard is shown, drawn once per frame callback, dropped when the  *)
(* keyboard is hidden or the compositor closes it.  Everything here runs   *)
(* on the keyboard's one event loop; the compositor is external, and what  *)
(* it sends for a surface may arrive when that surface has been dropped.   *)
(* Allocation failures and sizes too large to draw end the process and are *)
(* left out.                                                               *)
(***************************************************************************)
EXTENDS Integers

CONSTANTS
    MaxLayer,  \* bound: surfaces about which something may still arrive
    Content,   \* what the keyboard can look like
    Size,      \* the surface sizes the compositor configures
    Scale,     \* the scale factors it asks for
    Output     \* the monitors

ASSUME SurfaceAssumption ==
    /\ MaxLayer \in Nat
    /\ Content # {} /\ Size # {} /\ 1 \in Scale

VARIABLES
    visible, content,     \* the Keyboard: its visibility, and what render() reads of it
    outputs,              \* the monitors the OutputState knows
    layer,                \* the layer surface, or NoLayer
    buffer,               \* the shape of the buffer kept for drawing, or Blank
    size, scale,          \* of the surface
    configured, frame_pending, redraw_pending, exit,  \* State's fields
    alive,                \* surfaces the compositor may still send something for
    acked,                \* those of them that have been configured
    frames,               \* those with a frame callback outstanding
    shown                 \* per surface in `alive': what was committed to it last

keyboard == <<visible, content>>
compositor == <<alive, acked, frames, shown>>
vars == <<keyboard, outputs, layer, buffer, size, scale,
          configured, frame_pending, redraw_pending, exit, compositor>>

NoLayer == 0
Layer == 1..MaxLayer
Blank == [size |-> "none"]
Shapes == [size: Size, scale: Scale]
Faces == [content: Content, shape: Shapes]

(* What a buffer must measure, and what a drawing made now looks like.     *)
Shape == [size |-> size, scale |-> scale]
Face == [content |-> content, shape |-> Shape]

TypeOK ==
    /\ visible \in BOOLEAN /\ content \in Content
    /\ outputs \subseteq Output
    /\ layer \in Layer \cup {NoLayer}
    /\ buffer \in Shapes \cup {Blank}
    /\ size \in Size /\ scale \in Scale
    /\ configured \in BOOLEAN /\ frame_pending \in BOOLEAN
    /\ redraw_pending \in BOOLEAN /\ exit \in BOOLEAN
    /\ alive \subseteq Layer /\ acked \subseteq alive /\ frames \subseteq alive
    /\ shown \in [Layer -> Faces \cup {Blank}]

Init ==
    /\ visible = FALSE /\ content \in Content
    /\ outputs = {}
    /\ layer = NoLayer /\ buffer = Blank
    /\ size \in Size /\ scale = 1
    /\ configured = FALSE /\ frame_pending = FALSE
    /\ redraw_pending = FALSE /\ exit = FALSE
    /\ alive = {} /\ acked = {} /\ frames = {}
    /\ shown = [l \in Layer |-> Blank]

-----------------------------------------------------------------------------
(* State::show, hide and redraw, as parts of the handlers that call them.  *)

(* show(): without a surface and a monitor to put it on, nothing; else a   *)
(* new surface whose first commit carries no buffer.                       *)
Show ==
    /\ IF outputs' = {}
         THEN UNCHANGED <<layer, configured, frame_pending, redraw_pending, compositor>>
         ELSE /\ layer' \in Layer \ alive
              /\ configured' = FALSE /\ frame_pending' = FALSE /\ redraw_pending' = TRUE
              /\ alive' = alive \cup {layer'}
              /\ shown' = [shown EXCEPT ![layer'] = Blank]
              /\ UNCHANGED <<acked, frames>>
    /\ UNCHANGED <<buffer, exit>>

(* hide(): the surface is destroyed, what is on its way for it is not.     *)
Hide ==
    /\ layer' = NoLayer /\ buffer' = Blank
    /\ configured' = FALSE /\ frame_pending' = FALSE /\ redraw_pending' = FALSE
    /\ UNCHANGED <<exit, compositor>>

(* The buffer that is drawn into: the kept one, unless there is none or    *)
(* the compositor still reads it.                                          *)
Canvas(kept) == {Shape'} \cup ({kept} \ {Blank})

(* Fault: a surface is drawn before it has been configured.                *)
MayDrawEarly(pending, wanted) == visible' /\ ~pending /\ wanted /\ layer' # NoLayer
MayDraw(pending, wanted) ==
    visible' /\ configured' /\ ~pending /\ wanted /\ layer' # NoLayer

(* redraw(), called with these values of frame_pending, redraw_pending and *)
(* buffer, and these frame callbacks outstanding.  A canvas of the wrong   *)
(* size ends the process; an animation asks for the next frame at once.    *)
Redraw(pending, wanted, kept, callbacks) ==
    \/ /\ MayDraw(pending, wanted)
       /\ Shape' \in Canvas(kept)
       /\ buffer' = Shape'
       /\ frame_pending' = TRUE /\ redraw_pending' \in BOOLEAN
       /\ frames' = callbacks \cup {layer'}
       /\ shown' = [shown EXCEPT ![layer'] = Face']
       /\ UNCHANGED exit
    \/ /\ MayDraw(pending, wanted)
       /\ buffer' \in Canvas(kept) \ {Shape'}
       /\ exit' = TRUE
       /\ frame_pending' = pending /\ redraw_pending' = wanted
       /\ frames' = callbacks /\ UNCHANGED shown
    \/ /\ ~MayDraw(pending, wanted)
       /\ frame_pending' = pending /\ redraw_pending' = wanted
       /\ buffer' = kept /\ frames' = callbacks
       /\ UNCHANGED <<shown, exit>>

-----------------------------------------------------------------------------
(* What the input thread sends: states of the daemon, and disconnections.  *)

Update(shows) ==
    /\ ~exit
    /\ visible' = shows
    /\ content' \in Content
    /\ UNCHANGED <<outputs, size, scale>>

InputShows ==
    /\ Update(TRUE)
    /\ ~visible \/ layer = NoLayer
    /\ Show

(* Fault: a change that comes before the frame callback is not noted.      *)
InputRedrawsWhenFree ==
    /\ Update(TRUE)
    /\ visible /\ layer # NoLayer
    /\ UNCHANGED <<layer, configured, alive, acked>>
    /\ IF content' = content \/ frame_pending
         THEN UNCHANGED <<buffer, frame_pending, redraw_pending, frames, shown, exit>>
         ELSE Redraw(frame_pending, TRUE, buffer, frames)

InputRedraws ==
    /\ Update(TRUE)
    /\ visible /\ layer # NoLayer
    /\ UNCHANGED <<layer, configured, alive, acked>>
    /\ IF content' = content
         THEN UNCHANGED <<buffer, frame_pending, redraw_pending, frames, shown, exit>>
         ELSE Redraw(frame_pending, TRUE, buffer, frames)

InputHides ==
    /\ Update(FALSE)
    /\ visible
    /\ Hide

InputStaysHidden ==
    /\ Update(FALSE)
    /\ ~visible
    /\ UNCHANGED <<layer, buffer, configured, frame_pending, redraw_pending, exit, compositor>>

(* State::disconnected forgets pointers and held buttons, and hides.       *)
Disconnected ==
    /\ Update(FALSE)
    /\ IF visible
         THEN Hide
         ELSE UNCHANGED <<layer, buffer, configured, frame_pending, redraw_pending,
                          exit, compositor>>

-----------------------------------------------------------------------------
(* What the compositor sends.                                              *)

Drawing == <<buffer, configured, frame_pending, redraw_pending, exit, frames, shown>>

(* Fault: what arrives for any surface is taken to be for this one.        *)
AnySurface(l) == layer # NoLayer
Mine(l) == l = layer

(* A configure, which the toolkit acknowledges, with the size the surface  *)
(* gets: any, or the one asked for.                                        *)
Configure(l) ==
    /\ ~exit
    /\ l \in alive
    /\ acked' = acked \cup {l}
    /\ UNCHANGED <<keyboard, outputs, layer, scale, alive>>
    /\ IF Mine(l) /\ visible
         THEN /\ size' \in Size
              /\ configured' = TRUE
              /\ Redraw(frame_pending, TRUE, IF size' = size THEN buffer ELSE Blank, frames)
         ELSE UNCHANGED <<size, Drawing>>

FrameDone(l) ==
    /\ ~exit
    /\ l \in frames
    /\ UNCHANGED <<keyboard, outputs, layer, size, scale, configured, alive, acked>>
    /\ IF Mine(l)
         THEN Redraw(FALSE, redraw_pending, buffer, frames \ {l})
         ELSE /\ frames' = frames \ {l}
              /\ UNCHANGED <<buffer, frame_pending, redraw_pending, shown, exit>>

(* Fault: the buffer of the old scale is kept.                             *)
ScaleChangedKeepingBuffer(l) ==
    /\ ~exit
    /\ l \in alive /\ Mine(l)
    /\ scale' \in Scale \ {scale}
    /\ UNCHANGED <<keyboard, outputs, layer, size, configured, alive, acked>>
    /\ Redraw(frame_pending, TRUE, buffer, frames)

(* A scale factor for another surface, or the same factor, does nothing.   *)
ScaleChanged(l) ==
    /\ ~exit
    /\ l \in alive /\ Mine(l)
    /\ scale' \in Scale \ {scale}
    /\ UNCHANGED <<keyboard, outputs, layer, size, configured, alive, acked>>
    /\ Redraw(frame_pending, TRUE, Blank, frames)

(* The compositor gives the surface up: hide, but remember to draw.        *)
Closed(l) ==
    /\ ~exit
    /\ l \in alive /\ Mine(l)
    /\ layer' = NoLayer /\ buffer' = Blank
    /\ configured' = FALSE /\ frame_pending' = FALSE
    /\ redraw_pending' = visible
    /\ UNCHANGED <<keyboard, outputs, size, scale, exit, compositor>>

(* A monitor appears: a keyboard without a surface gets one.               *)
NewOutput ==
    /\ ~exit
    /\ \E o \in Output \ outputs : outputs' = outputs \cup {o}
    /\ UNCHANGED <<keyboard, size, scale>>
    /\ IF visible /\ layer = NoLayer
         THEN Show
         ELSE UNCHANGED <<layer, buffer, configured, frame_pending, redraw_pending,
                          exit, compositor>>

OutputDestroyed ==
    /\ ~exit
    /\ \E o \in outputs : outputs' = outputs \ {o}
    /\ UNCHANGED <<keyboard, layer, buffer, size, scale, configured, frame_pending,
                   redraw_pending, exit, compositor>>

(* Everything sent for a surface that was dropped has arrived.             *)
Forget(l) ==
    /\ ~exit
    /\ l \in alive \ {layer}
    /\ alive' = alive \ {l} /\ acked' = acked \ {l} /\ frames' = frames \ {l}
    /\ shown' = [shown EXCEPT ![l] = Blank]
    /\ UNCHANGED <<keyboard, outputs, layer, buffer, size, scale, configured,
                   frame_pending, redraw_pending, exit>>

Next ==
    \/ InputShows \/ InputRedraws \/ InputHides \/ InputStaysHidden \/ Disconnected
    \/ NewOutput \/ OutputDestroyed
    \/ \E l \in Layer : \/ Configure(l) \/ FrameDone(l) \/ ScaleChanged(l)
                         \/ Closed(l) \/ Forget(l)

(* A compositor configures a surface that was committed to it, and answers *)
(* frame callbacks; monitors, users and the daemon do as they like.        *)
Fairness ==
    \A l \in Layer : /\ WF_vars(l \notin acked /\ Configure(l))
                     /\ WF_vars(FrameDone(l))

Safety == Init /\ [][Next]_vars
Spec == Safety /\ Fairness

-----------------------------------------------------------------------------
(* Properties.                                                             *)

(* No buffer reaches a surface before its own first configure, whatever    *)
(* arrives late for surfaces that were dropped when the keyboard was       *)
(* hidden, closed or lost its monitor; the compositor would end the        *)
(* connection (wayland.rs redraw, show and configure).                     *)
AttachAfterConfigure == \A l \in alive : shown[l] # Blank => l \in acked

(* The surface is drawn at the compositor's pace: frame_pending says       *)
(* exactly whether this surface has a callback outstanding, although       *)
(* callbacks of earlier surfaces may still arrive.  If it said so wrongly, *)
(* the keyboard would freeze or draw without pause (wayland.rs frame,      *)
(* show, hide and redraw).                                                 *)
FramePaced == layer # NoLayer => (frame_pending <=> layer \in frames)

(* The error "Wayland keyboard buffer has the wrong size" cannot happen,   *)
(* in whichever order sizes, scale factors and redraws come                *)
(* (wayland.rs redraw, configure and scale_factor_changed).                *)
NeverWrongSize == ~exit

(* A surface never stays behind what it should show: content, size or      *)
(* scale that change while a frame callback is outstanding, or before the  *)
(* first configure, are made up for (wayland.rs redraw_pending).           *)
CatchesUp == []<>(layer = NoLayer \/ shown[layer] = Face)

(* The inductive invariant of the proofs.                                  *)
SurfaceInv ==
    /\ TypeOK
    /\ layer # NoLayer => visible /\ layer \in alive
    /\ configured => layer \in acked
    /\ buffer \in {Shape, Blank}
    /\ AttachAfterConfigure /\ FramePaced /\ NeverWrongSize
=============================================================================
