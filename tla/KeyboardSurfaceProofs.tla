------------------------ MODULE KeyboardSurfaceProofs ------------------------
(* Proofs about KeyboardSurface, for any number of surfaces, contents,     *)
(* sizes, scale factors and monitors.                                      *)
EXTENDS KeyboardSurface, TLAPS

(* A shape is never Blank, and neither is a face: both have more fields.   *)
LEMMA NotBlank ==
    ASSUME NEW d \in Size, NEW f \in Scale, NEW c \in Content
    PROVE  /\ [size |-> d, scale |-> f] # Blank
           /\ [content |-> c, shape |-> [size |-> d, scale |-> f]] # Blank
BY DEF Blank

(* redraw() keeps the invariant for a handler that leaves the surface in   *)
(* place, passes a buffer of the shape it has decided on or none, and      *)
(* tells redraw() the truth about the callbacks outstanding.               *)
LEMMA RedrawKeeps ==
    ASSUME SurfaceInv,
           visible' \in BOOLEAN, visible => visible',
           content' \in Content, size' \in Size, scale' \in Scale,
           outputs' \subseteq Output,
           layer' = layer, layer # NoLayer, alive' = alive,
           configured' \in BOOLEAN, acked' \subseteq alive, acked \subseteq acked',
           configured' => layer \in acked',
           NEW pending \in BOOLEAN, NEW wanted \in BOOLEAN,
           NEW kept \in {Shape', Blank}, NEW callbacks \in SUBSET alive,
           pending <=> layer \in callbacks,
           Redraw(pending, wanted, kept, callbacks)
    PROVE  SurfaceInv'
<1> USE DEF SurfaceInv, TypeOK, Shape, Shapes, Layer, NoLayer
<1>1. CASE MayDraw(pending, wanted)
  <2>1. Shape' \in Shapes /\ Shape' # Blank /\ Canvas(kept) = {Shape'}
    BY NotBlank DEF Canvas
  <2>2. /\ buffer' = Shape' /\ frame_pending' = TRUE /\ redraw_pending' \in BOOLEAN
        /\ frames' = callbacks \cup {layer'} /\ shown' = [shown EXCEPT ![layer'] = Face']
        /\ exit' = exit
    BY <1>1, <2>1 DEF Redraw
  <2>3. Face' \in Faces
    BY <2>1 DEF Face, Faces
  <2>4. configured' /\ layer' \in acked'
    BY <1>1 DEF MayDraw
  <2>5. TypeOK'
    BY <2>1, <2>2, <2>3
  <2>6. AttachAfterConfigure'
    BY <2>2, <2>4 DEF AttachAfterConfigure
  <2>7. FramePaced' /\ NeverWrongSize'
    BY <2>2 DEF FramePaced, NeverWrongSize
  <2> QED BY <2>2, <2>4, <2>5, <2>6, <2>7
<1>2. CASE ~MayDraw(pending, wanted)
  <2>1. /\ frame_pending' = pending /\ redraw_pending' = wanted
        /\ buffer' = kept /\ frames' = callbacks
        /\ UNCHANGED <<shown, exit>>
    BY <1>2 DEF Redraw
  <2>2. TypeOK'
    BY <2>1 DEF Blank
  <2>3. AttachAfterConfigure' /\ FramePaced' /\ NeverWrongSize'
    BY <2>1 DEF AttachAfterConfigure, FramePaced, NeverWrongSize
  <2> QED BY <2>1, <2>2, <2>3
<1> QED BY <1>1, <1>2

(* show() keeps the invariant when there was no surface.                   *)
LEMMA ShowKeeps ==
    ASSUME SurfaceInv, layer = NoLayer, visible',
           visible' \in BOOLEAN, content' \in Content, outputs' \subseteq Output,
           UNCHANGED <<size, scale>>, Show
    PROVE  SurfaceInv'
<1> USE DEF SurfaceInv
<1>1. UNCHANGED <<buffer, exit, size, scale>> /\ Shape' = Shape
  BY DEF Show, Shape
<1>2. CASE outputs' = {}
  <2>1. UNCHANGED <<layer, configured, frame_pending, redraw_pending, alive, acked, frames, shown>>
    BY <1>2 DEF Show, compositor
  <2>2. TypeOK'
    BY <1>1, <2>1 DEF TypeOK
  <2>3. (AttachAfterConfigure /\ FramePaced /\ NeverWrongSize)'
    BY <1>1, <2>1 DEF AttachAfterConfigure, FramePaced, NeverWrongSize
  <2> QED BY <1>1, <2>1, <2>2, <2>3
<1>3. CASE outputs' # {}
  <2>1. /\ layer' \in Layer \ alive
        /\ configured' = FALSE /\ frame_pending' = FALSE /\ redraw_pending' = TRUE
        /\ alive' = alive \cup {layer'}
        /\ shown' = [shown EXCEPT ![layer'] = Blank]
        /\ UNCHANGED <<acked, frames>>
    BY <1>3 DEF Show
  <2>2. TypeOK'
    BY <1>1, <2>1 DEF TypeOK
  <2>3. AttachAfterConfigure'
    BY <2>1 DEF AttachAfterConfigure, TypeOK
  <2>4. FramePaced' /\ NeverWrongSize'
    BY <1>1, <2>1 DEF FramePaced, NeverWrongSize, TypeOK
  <2> QED BY <1>1, <2>1, <2>2, <2>3, <2>4
<1> QED BY <1>2, <1>3

(* hide() keeps it always.                                                 *)
LEMMA HideKeeps ==
    ASSUME SurfaceInv, visible' \in BOOLEAN, content' \in Content,
           UNCHANGED <<outputs, size, scale>>, Hide
    PROVE  SurfaceInv'
BY DEF SurfaceInv, TypeOK, Shape, Layer, NoLayer, Hide, compositor,
       AttachAfterConfigure, FramePaced, NeverWrongSize

(* Every step keeps the invariant.                                         *)
LEMMA SurfaceStep == SurfaceInv /\ [Next]_vars => SurfaceInv'
<1> SUFFICES ASSUME SurfaceInv, [Next]_vars PROVE SurfaceInv'
  OBVIOUS
<1> USE DEF SurfaceInv, TypeOK
<1>1. CASE InputShows
  <2>1. layer = NoLayer
    BY <1>1 DEF InputShows
  <2> QED BY <1>1, <2>1, ShowKeeps DEF InputShows, Update
<1>2. CASE InputRedraws
  <2>1. CASE content' = content
    BY <1>2, <2>1 DEF InputRedraws, Update, Shape, AttachAfterConfigure, FramePaced,
                      NeverWrongSize
  <2>2. CASE content' # content
    BY <1>2, <2>2, RedrawKeeps DEF InputRedraws, Update, Shape, FramePaced
  <2> QED BY <2>1, <2>2
<1>3. CASE InputHides
  BY <1>3, HideKeeps DEF InputHides, Update
<1>4. CASE InputStaysHidden
  BY <1>4 DEF InputStaysHidden, Update, Shape, compositor, AttachAfterConfigure,
              FramePaced, NeverWrongSize
<1>5. CASE Disconnected
  <2>1. CASE visible
    BY <1>5, <2>1, HideKeeps DEF Disconnected, Update
  <2>2. CASE ~visible
    <3>1. /\ UNCHANGED <<layer, buffer, configured, frame_pending, redraw_pending, exit,
                         alive, acked, frames, shown, outputs, size, scale>>
          /\ visible' = FALSE /\ content' \in Content /\ Shape' = Shape
      BY <1>5, <2>2 DEF Disconnected, Update, compositor, Shape
    <3> QED BY <2>2, <3>1 DEF AttachAfterConfigure, FramePaced, NeverWrongSize
  <2> QED BY <2>1, <2>2
<1>6. CASE NewOutput
  <2>1. CASE visible /\ layer = NoLayer
    BY <1>6, <2>1, ShowKeeps DEF NewOutput, keyboard
  <2>2. CASE ~(visible /\ layer = NoLayer)
    BY <1>6, <2>2 DEF NewOutput, keyboard, Shape, compositor, AttachAfterConfigure,
                      FramePaced, NeverWrongSize
  <2> QED BY <2>1, <2>2
<1>7. CASE OutputDestroyed
  BY <1>7 DEF OutputDestroyed, keyboard, Shape, compositor, AttachAfterConfigure,
              FramePaced, NeverWrongSize
<1>8. ASSUME NEW l \in Layer, Configure(l) PROVE SurfaceInv'
  <2>1. CASE Mine(l) /\ visible
    <3> DEFINE kept == IF size' = size THEN buffer ELSE Blank
    <3>1. /\ UNCHANGED <<visible, content, outputs, layer, scale, alive>> /\ layer = l
          /\ size' \in Size /\ configured' = TRUE /\ acked' = acked \cup {l}
      BY <1>8, <2>1 DEF Configure, Mine, keyboard
    <3>2. Redraw(frame_pending, TRUE, kept, frames)
      BY <1>8, <2>1 DEF Configure
    <3>3. kept \in {Shape', Blank}
      BY <3>1 DEF Shape
    <3>4. /\ frame_pending <=> layer \in frames
          /\ layer \in alive /\ layer # NoLayer
      BY <1>8, <3>1, <2>1 DEF FramePaced, Layer, NoLayer, Configure
    <3>5. SurfaceInv /\ frame_pending \in BOOLEAN /\ frames \in SUBSET alive
          /\ content \in Content /\ scale \in Scale /\ visible \in BOOLEAN
          /\ acked \subseteq alive /\ outputs \subseteq Output
      OBVIOUS
    <3> HIDE DEF TypeOK, SurfaceInv, kept
    <3> QED BY <3>1, <3>2, <3>3, <3>4, <3>5, RedrawKeeps
  <2>2. CASE ~(Mine(l) /\ visible)
    BY <1>8, <2>2 DEF Configure, keyboard, Drawing, Shape, AttachAfterConfigure,
                      FramePaced, NeverWrongSize
  <2> QED BY <2>1, <2>2
<1>9. ASSUME NEW l \in Layer, FrameDone(l) PROVE SurfaceInv'
  <2>1. CASE Mine(l)
    <3> DEFINE answered == frames \ {l}
    <3>1. UNCHANGED <<visible, content, outputs, layer, size, scale, configured, alive, acked>>
      BY <1>9 DEF FrameDone, keyboard
    <3>2. Redraw(FALSE, redraw_pending, buffer, answered) /\ layer = l
      BY <1>9, <2>1 DEF FrameDone, Mine
    <3>3. buffer \in {Shape', Blank}
      BY <3>1 DEF Shape
    <3>4. layer # NoLayer /\ ~(layer \in answered)
      BY <3>2 DEF Layer, NoLayer
    <3>5. SurfaceInv /\ redraw_pending \in BOOLEAN /\ answered \in SUBSET alive
          /\ content \in Content /\ scale \in Scale /\ size \in Size /\ visible \in BOOLEAN
          /\ acked \subseteq alive /\ outputs \subseteq Output /\ configured \in BOOLEAN
          /\ (configured => layer \in acked)
      OBVIOUS
    <3> HIDE DEF TypeOK, SurfaceInv, answered
    <3> QED BY <3>1, <3>2, <3>3, <3>4, <3>5, RedrawKeeps
  <2>2. CASE ~Mine(l)
    BY <1>9, <2>2 DEF FrameDone, Mine, keyboard, Shape, AttachAfterConfigure,
                      FramePaced, NeverWrongSize
  <2> QED BY <2>1, <2>2
<1>10. ASSUME NEW l \in Layer, ScaleChanged(l) PROVE SurfaceInv'
  <2>1. /\ UNCHANGED <<visible, content, outputs, layer, size, configured, alive, acked>>
        /\ scale' \in Scale /\ layer = l
        /\ Redraw(frame_pending, TRUE, Blank, frames)
    BY <1>10 DEF ScaleChanged, Mine, keyboard
  <2>2. (frame_pending <=> layer \in frames) /\ layer # NoLayer /\ Blank \in {Shape', Blank}
    BY <2>1 DEF FramePaced, Layer, NoLayer
  <2>3. SurfaceInv /\ frame_pending \in BOOLEAN /\ frames \in SUBSET alive
        /\ content \in Content /\ size \in Size /\ visible \in BOOLEAN
        /\ acked \subseteq alive /\ outputs \subseteq Output /\ configured \in BOOLEAN
        /\ (configured => layer \in acked)
    OBVIOUS
  <2> HIDE DEF TypeOK, SurfaceInv
  <2> QED BY <2>1, <2>2, <2>3, RedrawKeeps
<1>11. ASSUME NEW l \in Layer, Closed(l) PROVE SurfaceInv'
  BY <1>11 DEF Closed, keyboard, compositor, Shape, NoLayer, Layer, AttachAfterConfigure,
               FramePaced, NeverWrongSize
<1>12. ASSUME NEW l \in Layer, Forget(l) PROVE SurfaceInv'
  BY <1>12 DEF Forget, keyboard, Shape, AttachAfterConfigure, FramePaced, NeverWrongSize
<1>13. CASE UNCHANGED vars
  BY <1>13 DEF vars, keyboard, compositor, Shape, AttachAfterConfigure, FramePaced,
               NeverWrongSize
<1> QED BY <1>1, <1>2, <1>3, <1>4, <1>5, <1>6, <1>7, <1>8, <1>9, <1>10, <1>11, <1>12, <1>13
        DEF Next

(* The surface's flags and what the compositor knows stay tied together,   *)
(* for any number of dropped surfaces, sizes and scale factors             *)
(* (osk/src/wayland.rs State).                                             *)
THEOREM SurfaceInvariant == Spec => []SurfaceInv
<1>1. Init => SurfaceInv
  BY SurfaceAssumption DEF Init, SurfaceInv, TypeOK, Shape, Layer, NoLayer, AttachAfterConfigure, FramePaced,
         NeverWrongSize
<1> QED BY <1>1, SurfaceStep, PTL DEF Spec, Safety

(* No buffer reaches a surface before its own configure.                   *)
THEOREM ConfiguredFirst == Spec => []AttachAfterConfigure
<1>1. SurfaceInv => AttachAfterConfigure
  BY DEF SurfaceInv
<1> QED BY <1>1, SurfaceInvariant, PTL

(* frame_pending is the truth about the surface's callback.                *)
THEOREM Paced == Spec => []FramePaced
<1>1. SurfaceInv => FramePaced
  BY DEF SurfaceInv
<1> QED BY <1>1, SurfaceInvariant, PTL

(* The buffer never has the wrong size.                                    *)
THEOREM BufferFits == Spec => []NeverWrongSize
<1>1. SurfaceInv => NeverWrongSize
  BY DEF SurfaceInv
<1> QED BY <1>1, SurfaceInvariant, PTL
=============================================================================
