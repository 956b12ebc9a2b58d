------------------------------ MODULE ChartView ------------------------------
(***************************************************************************)
(* The candle chart of the Trading workspace (CanvasChart.jsx): which      *)
(* candles are on screen as the operator drags, zooms and hovers, and      *)
(* which candle the overlay at its top left describes.                     *)
(*                                                                         *)
(* A candle is its index in the array App.jsx hands down; prices are left  *)
(* out, and a pointer position is a column of the plot. The effect that    *)
(* redraws the canvas runs after every change of what it depends on, so    *)
(* each action below ends with the redraw it causes.                       *)
(***************************************************************************)
EXTENDS Integers, FiniteSets

CONSTANTS
  MinZoom, MaxZoom,  \* the wheel's limits, 15 and 220 candles
  FirstZoom,         \* the zoom of a chart just mounted, 60 candles
  Columns,           \* width of the plot, the price scale right of it
  Sizes              \* how many candles a load may bring (limit=100)

ASSUME ChartAssumption ==
  /\ MinZoom \in Nat \ {0} /\ MaxZoom \in Nat /\ FirstZoom \in Nat
  /\ MinZoom <= FirstZoom /\ FirstZoom <= MaxZoom
  /\ Columns \in Nat \ {0}
  /\ Sizes \subseteq Nat

VARIABLES
  candles,  \* candles.length
  zoom,     \* zoomLevel
  offset,   \* scrollOffset
  drag,     \* stateRef: whether a drag is on, its column and its offset
  mouse,    \* mouseCoord: the set of the pointer's column, empty when null
  readout   \* hoveredCandle: the set of the candle described, empty when null

chartVars == <<candles, zoom, offset, drag, mouse, readout>>

-----------------------------------------------------------------------------

Plot == 0 .. Columns

\* One column stands for the price scale.
Canvas == 0 .. Columns + 1

Idle == [on |-> FALSE, x |-> 0, from |-> 0]

\* startIdx and endIdx of n candles at zoom z and scroll offset o.
FirstShown(n, z, o) == IF n - o - z < 0 THEN 0 ELSE n - o - z

\* Faulty variant: takes the end for the last candle shown.
PastShownInclusive(n, o) == IF o < 0 THEN n - 1 ELSE n - 1 - o

PastShown(n, o) == IF o < 0 THEN n ELSE n - o

Shown(n, z, o) == FirstShown(n, z, o) .. PastShown(n, o) - 1

Width(n, z, o) == PastShown(n, o) - FirstShown(n, z, o)

\* The candle under column x, which may lie outside the window.
Under(x, n, z, o) ==
  FirstShown(n, z, o) + (x * Width(n, z, o)) \div Columns

\* Faulty variant: the overlay follows the series, not the window.
DescribedNewest(n, z, o, m) ==
  IF n = 0 THEN readout
  ELSE IF m \cap Plot = {} THEN {n - 1}
  ELSE LET hovered == {Under(x, n, z, o) : x \in m} \cap Shown(n, z, o)
       IN  IF hovered = {} THEN readout ELSE hovered

\* hoveredCandle after a redraw: the candle under the pointer; what it was
\* when the pointer is over none; the last one on screen when the pointer is
\* off the plot. Without candles the effect returns before it.
Described(n, z, o, m) ==
  IF n = 0 THEN readout
  ELSE IF m \cap Plot = {} THEN {PastShown(n, o) - 1}
  ELSE LET hovered == {Under(x, n, z, o) : x \in m} \cap Shown(n, z, o)
       IN  IF hovered = {} THEN readout ELSE hovered

Redraw == readout' = Described(candles', zoom', offset', mouse')

ChartInit ==
  /\ candles = 0
  /\ zoom = FirstZoom
  /\ offset = 0
  /\ drag = Idle
  /\ mouse = {}
  /\ readout = {}

\* The session's one load of candles ends with n of them; a failed one leaves
\* the array empty.
Load(n) ==
  /\ candles = 0
  /\ candles' = n
  /\ UNCHANGED <<zoom, offset, drag, mouse>>
  /\ Redraw

\* Leaving the Trading workspace unmounts the chart, coming back mounts a new
\* one on the candles App holds.
Remount ==
  /\ zoom' = FirstZoom
  /\ offset' = 0
  /\ drag' = Idle
  /\ mouse' = {}
  /\ readout' = IF candles = 0 THEN {} ELSE {candles - 1}
  /\ UNCHANGED candles

MouseDown(x) ==
  /\ drag' = [on |-> TRUE, x |-> x, from |-> offset]
  /\ UNCHANGED <<candles, zoom, offset, mouse, readout>>

\* Candles dragged over when the pointer is at x: Math.round of the distance
\* over the width of a candle, which is Columns / zoom (infinite for zoom 0).
Dragged(x) == (2 * (x - drag.x) * zoom + Columns) \div (2 * Columns)

\* The scroll limits, in the order the code applies them.
Scroll(o) ==
  LET least == IF o < 0 THEN 0 ELSE o
  IN  IF least > candles - zoom THEN candles - zoom ELSE least

MouseMove(x) ==
  /\ mouse' = {x}
  /\ offset' = IF drag.on THEN Scroll(drag.from + Dragged(x)) ELSE offset
  /\ UNCHANGED <<candles, zoom, drag>>
  /\ Redraw

MouseUpOrLeave ==
  /\ drag' = [drag EXCEPT !.on = FALSE]
  /\ mouse' = {}
  /\ UNCHANGED <<candles, zoom, offset>>
  /\ Redraw

\* Math.ceil(zoomLevel * 0.08).
ZoomStep == (8 * zoom + 99) \div 100

\* The three limits, in the order the code applies them.
Zoomed(z) ==
  LET limited == IF z < MinZoom THEN MinZoom
                 ELSE IF z > MaxZoom THEN MaxZoom ELSE z
  IN  IF limited > candles THEN candles ELSE limited

Wheel(d) ==
  /\ zoom' = Zoomed(zoom + d * ZoomStep)
  /\ UNCHANGED <<candles, offset, drag, mouse>>
  /\ Redraw

ChartNext ==
  \/ \E n \in Sizes : Load(n)
  \/ Remount
  \/ \E x \in Canvas : MouseDown(x) \/ MouseMove(x)
  \/ MouseUpOrLeave
  \/ \E d \in {-1, 1} : Wheel(d)

ChartSpec == ChartInit /\ [][ChartNext]_chartVars

-----------------------------------------------------------------------------
(* Properties.                                                             *)

OnScreen == Shown(candles, zoom, offset)

\* Every variable stays in its type; the zoom never passes its upper limit.
ChartTypeOK ==
  /\ candles \in Nat
  /\ zoom \in 0 .. MaxZoom
  /\ offset \in Int
  /\ drag \in [on : BOOLEAN, x : Canvas, from : Int]
  /\ \E x \in Canvas : mouse \in {{}, {x}}
  /\ readout \subseteq Int /\ \A i, j \in readout : i = j

\* Candles that are loaded are on screen, however the operator dragged and
\* zoomed before and after they came, unless the wheel was turned while there
\* were none (zoom 0) or a drag met fewer of them than the zoom (negative
\* offset).
BlankNeedsCause ==
  candles > 0 /\ OnScreen = {} => zoom = 0 \/ offset < 0

\* The overlay describes a candle that exists, and one that is on screen
\* whenever any is, except while the pointer rests on the plot's right border,
\* where no candle is hovered and the last readout stays.
ReadoutOnScreen ==
  /\ readout \subseteq 0 .. candles - 1
  /\ OnScreen # {} /\ mouse # {Columns} => readout # {} /\ readout \subseteq OnScreen

=============================================================================
