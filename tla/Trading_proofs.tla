---------------------------- MODULE Trading_proofs ----------------------------
(***************************************************************************)
(* Proofs about what the operator works with in the Trading workspace: the *)
(* desk (palette, held buttons, block, manual orders), for any commands,   *)
(* any queries and any bounds; and the candle chart, for any zoom limits,  *)
(* any width of the plot and any numbers of candles.                       *)
(***************************************************************************)
EXTENDS Desk, ChartView, Integers, TLAPS

-----------------------------------------------------------------------------
(* The desk.                                                               *)

(***************************************************************************)
(* The inductive invariant. Whatever changes the block or the price makes  *)
(* the keyboard listener anew, so it never goes by an old one; and the     *)
(* button of a hold is under the pointer until the hold is excused.        *)
(***************************************************************************)
ListenerIsFresh ==
  listener.seen.blocked = blocked /\ listener.seen.price = price

HoldsAreHeld ==
  /\ \A h \in hold : pressed = h.button \/ h.away \/ h.lost
  /\ \A h \in orphans : h.away

DeskInv == TypeOK /\ ListenerIsFresh /\ StaleOnlyAtTheTop /\ HoldsAreHeld

Orders == Seq({"buy", "sell"})

HoldTypes ==
  /\ hold \subseteq Holds /\ \A g, h \in hold : g = h
  /\ orphans \subseteq Holds

\* What the lemmas below use of the invariant.
LEMMA DeskFacts ==
  ASSUME DeskInv
  PROVE  /\ workspace \in Workspaces
         /\ blocked \in BOOLEAN /\ price \in BOOLEAN /\ history \in BOOLEAN
         /\ orders \in Orders /\ loaded \in 0 .. 4 /\ HoldTypes
         /\ pressed \in Buttons \cup {"none"} /\ open \in BOOLEAN
         /\ query \in Queries /\ index \in Nat
         /\ listener \in [query : Queries, seen : Views]
BY DEF DeskInv, TypeOK, HoldTypes, Orders

\* A handler made now sees three Booleans.
LEMMA SeenTypes ==
  ASSUME DeskInv
  PROVE  Seen \in Views
BY DeskFacts DEF Seen, Views

-----------------------------------------------------------------------------
(* The parts of the actions.                                               *)

\* The effect that makes the listener anew, or leaves it.
LEMMA RefreshKeeps ==
  ASSUME DeskInv, Refresh,
         open' \in BOOLEAN, query' \in Queries, index' \in Nat,
         blocked' \in BOOLEAN, price' \in BOOLEAN, history' \in BOOLEAN,
         query' = query \/ index' = 0
  PROVE  /\ listener' \in [query : Queries, seen : Views]
         /\ ListenerIsFresh' /\ StaleOnlyAtTheTop'
<1>1. CASE listener' = [query |-> query', seen |-> Seen']
  BY <1>1 DEF Seen, Views, ListenerIsFresh, StaleOnlyAtTheTop
<1>2. CASE /\ listener' = listener
           /\ index' = index /\ price' = price /\ blocked' = blocked
  <2>1. listener' \in [query : Queries, seen : Views] /\ ListenerIsFresh'
    BY <1>2, DeskFacts DEF DeskInv, ListenerIsFresh
  <2>2. StaleOnlyAtTheTop'
    BY <1>2 DEF DeskInv, StaleOnlyAtTheTop
  <2>3. QED
    BY <2>1, <2>2
<1>3. QED
  BY <1>1, <1>2 DEF Refresh

\* An order is filled only if its handler saw no block.
LEMMA OrderKeeps ==
  ASSUME DeskInv, NEW side \in {"buy", "sell"}, NEW s \in Views, Order(side, s)
  PROVE  /\ orders' \in Orders /\ history' \in BOOLEAN /\ blocked' \in BOOLEAN
         /\ orders' # orders => ~s.blocked
<1>1. CASE Fills(side, s)
  <2>1. orders' = Append(orders, side) /\ history' = TRUE /\ blocked' = blocked
    BY <1>1 DEF Order
  <2>2. orders' \in Orders
    BY <2>1, DeskFacts DEF Orders
  <2>3. ~s.blocked
    BY <1>1 DEF Fills
  <2>4. QED
    BY <2>1, <2>2, <2>3, DeskFacts
<1>2. CASE ~Fills(side, s)
  BY <1>2, DeskFacts DEF Order
<1>3. QED
  BY <1>1, <1>2

\* So is one that a button orders.
LEMMA ActKeeps ==
  ASSUME DeskInv, NEW b \in Buttons, NEW s \in Views, Act(b, s)
  PROVE  /\ orders' \in Orders /\ history' \in BOOLEAN /\ blocked' \in BOOLEAN
         /\ orders' # orders => ~s.blocked
<1>1. CASE b = "force_buy"
  BY <1>1, OrderKeeps DEF Act
<1>2. CASE b = "force_sell"
  BY <1>2, OrderKeeps DEF Act
<1>3. CASE b = "toggle_kill_switch"
  <2>1. Block(~s.blocked) /\ s.blocked \in BOOLEAN
    BY <1>3 DEF Act, Views
  <2>2. QED
    BY <2>1, DeskFacts DEF Block
<1>4. QED
  BY <1>1, <1>2, <1>3 DEF Buttons

\* Leaving Trading excuses the hold whose button it takes away.
LEMMA EnterKeeps ==
  ASSUME DeskInv, NEW w \in Workspaces, Enter(w), pressed' = pressed
  PROVE  workspace' \in Workspaces /\ HoldTypes' /\ HoldsAreHeld'
<1>1. CASE workspace = "Trading" /\ w # "Trading"
  <2>1. \A h \in hold : [h EXCEPT !.away = TRUE] \in Holds
                        /\ [h EXCEPT !.away = TRUE].away
    BY DeskFacts DEF Holds, HoldTypes
  <2>2. hold' = {} /\ workspace' = w
        /\ orphans' = orphans \cup {[h EXCEPT !.away = TRUE] : h \in hold}
    BY <1>1 DEF Enter
  <2>3. QED
    BY <2>1, <2>2, DeskFacts DEF HoldTypes, HoldsAreHeld, DeskInv
<1>2. CASE ~(workspace = "Trading" /\ w # "Trading")
  BY <1>2, DeskFacts DEF Enter, HoldTypes, HoldsAreHeld, DeskInv
<1>3. QED
  BY <1>1, <1>2

\* A command of the palette, run with what its handler saw.
LEMMA RunKeeps ==
  ASSUME DeskInv, NEW c \in Commands, NEW s \in Views, Run(c, s),
         pressed' = pressed
  PROVE  /\ workspace' \in Workspaces /\ HoldTypes' /\ HoldsAreHeld'
         /\ orders' \in Orders /\ history' \in BOOLEAN /\ blocked' \in BOOLEAN
         /\ orders' # orders => ~s.blocked
<1>1. CASE c \in Workspaces
  <2>1. Enter(c) /\ UNCHANGED <<blocked, orders, history>>
    BY <1>1 DEF Run, Workspaces
  <2>2. QED
    BY <1>1, <2>1, EnterKeeps, DeskFacts
<1>2. ASSUME UNCHANGED <<workspace, hold, orphans>>
      PROVE  workspace' \in Workspaces /\ HoldTypes' /\ HoldsAreHeld'
  BY <1>2, DeskFacts DEF HoldTypes, HoldsAreHeld, DeskInv
<1>3. CASE c \in {"arm", "disarm"}
  <2>1. \/ Block(TRUE) \/ Block(FALSE)
    BY <1>3 DEF Run, Workspaces
  <2>2. UNCHANGED <<workspace, hold, orphans>>
    BY <1>3 DEF Run, Workspaces
  <2>3. QED
    BY <1>2, <2>1, <2>2, DeskFacts DEF Block
<1>4. CASE c = "exit"
  <2>1. Order("sell", s) /\ UNCHANGED <<workspace, hold, orphans>>
    BY <1>4 DEF Run, Workspaces
  <2>2. QED
    BY <1>2, <2>1, OrderKeeps
<1>5. CASE c = "focus"
  <2>1. UNCHANGED <<workspace, blocked, orders, history, hold, orphans>>
    BY <1>5 DEF Run, Workspaces
  <2>2. QED
    BY <1>2, <2>1, DeskFacts
<1>6. QED
  BY <1>1, <1>3, <1>4, <1>5 DEF Commands, Workspaces

-----------------------------------------------------------------------------
(* The actions.                                                            *)

LEMMA InitDesk == Init => DeskInv
<1>1. SUFFICES ASSUME Init PROVE DeskInv
  OBVIOUS
<1>2. Seen \in Views /\ Seen.blocked = blocked /\ Seen.price = price
  BY <1>1 DEF Init, Seen, Views
<1>3. TypeOK
  <2>1. orders \in Seq({"buy", "sell"}) /\ loaded \in 0 .. 4 /\ index \in Nat
    <3>1. orders = <<>> /\ loaded = 0 /\ index = 0
      BY <1>1 DEF Init
    <3>2. QED
      BY <3>1
  <2>2. listener \in [query : Queries, seen : Views]
    BY <1>1, <1>2, DeskAssumption DEF Init
  <2>3. QED
    BY <1>1, <2>1, <2>2, DeskAssumption DEF Init, TypeOK, Workspaces, Buttons
<1>4. ListenerIsFresh /\ StaleOnlyAtTheTop /\ HoldsAreHeld
  BY <1>1, <1>2 DEF Init, ListenerIsFresh, StaleOnlyAtTheTop, HoldsAreHeld
<1>5. QED
  BY <1>3, <1>4 DEF DeskInv

\* What a step owes the invariant, in parts.
LEMMA PartsMakeInv ==
  ASSUME workspace' \in Workspaces, loaded' \in 0 .. 4, price' \in BOOLEAN,
         blocked' \in BOOLEAN, history' \in BOOLEAN, orders' \in Orders,
         HoldTypes', HoldsAreHeld', pressed' \in Buttons \cup {"none"},
         open' \in BOOLEAN, query' \in Queries, index' \in Nat,
         listener' \in [query : Queries, seen : Views],
         ListenerIsFresh', StaleOnlyAtTheTop'
  PROVE  DeskInv'
BY DEF DeskInv, TypeOK, HoldTypes, Orders

\* Holds and palette untouched.
LEMMA HoldsUntouched ==
  ASSUME DeskInv, UNCHANGED holdVars
  PROVE  HoldTypes' /\ HoldsAreHeld' /\ pressed' \in Buttons \cup {"none"}
BY DeskFacts DEF holdVars, HoldTypes, HoldsAreHeld, DeskInv

LEMMA LoadKeeps ==
  ASSUME DeskInv, LoadCandles \/ LoadTrades \/ LoadSafety \/ LoadFails
  PROVE  DeskInv'
<1>1. /\ UNCHANGED <<workspace, orders, open, query, index>> /\ Refresh
      /\ UNCHANGED holdVars /\ loaded' \in 0 .. 4
  BY DEF LoadCandles, LoadTrades, LoadSafety, LoadFails, holdVars
<1>2. price' \in BOOLEAN /\ blocked' \in BOOLEAN /\ history' \in BOOLEAN
  BY DeskFacts, Zenon DEF LoadCandles, LoadTrades, LoadSafety, LoadFails
<1>3. QED
  BY <1>1, <1>2, DeskFacts, RefreshKeeps, HoldsUntouched, PartsMakeInv

LEMMA PressKeeps ==
  ASSUME DeskInv, NEW b \in Buttons, Press(b)
  PROVE  DeskInv'
<1>1. /\ UNCHANGED <<appVars, orphans, paletteVars>> /\ pressed' = b
      /\ hold' = {[button |-> b, seen |-> Seen, away |-> FALSE, lost |-> FALSE]}
  BY DEF Press
<1>2. HoldTypes' /\ HoldsAreHeld'
  BY <1>1, SeenTypes, DeskFacts DEF HoldTypes, HoldsAreHeld, Holds, DeskInv
<1>3. ListenerIsFresh' /\ StaleOnlyAtTheTop'
  BY <1>1 DEF appVars, paletteVars, DeskInv, ListenerIsFresh, StaleOnlyAtTheTop
<1>4. QED
  BY <1>1, <1>2, <1>3, DeskFacts, PartsMakeInv DEF appVars, paletteVars

LEMMA ReleaseKeeps ==
  ASSUME DeskInv, Release
  PROVE  DeskInv'
<1>1. /\ UNCHANGED <<appVars, orphans, paletteVars>> /\ pressed' = "none"
      /\ hold' = {} \/ hold' = {[h EXCEPT !.lost = TRUE] : h \in hold}
  BY DEF Release
<1>2. \A h \in hold : [h EXCEPT !.lost = TRUE] \in Holds
                      /\ [h EXCEPT !.lost = TRUE].lost
  BY DeskFacts DEF Holds, HoldTypes
<1>3. HoldTypes'
  BY <1>1, <1>2, DeskFacts DEF HoldTypes
<1>4. HoldsAreHeld'
  BY <1>1, <1>2 DEF HoldsAreHeld, DeskInv
<1>5. ListenerIsFresh' /\ StaleOnlyAtTheTop'
  BY <1>1 DEF appVars, paletteVars, DeskInv, ListenerIsFresh, StaleOnlyAtTheTop
<1>6. QED
  BY <1>1, <1>3, <1>4, <1>5, DeskFacts, PartsMakeInv DEF appVars, paletteVars

LEMMA ExpireKeeps ==
  ASSUME DeskInv, NEW h \in hold \cup orphans, Expire(h)
  PROVE  DeskInv' /\ (orders' # orders => ~h.seen.blocked)
<1>1. h.button \in Buttons /\ h.seen \in Views
  BY DeskFacts DEF HoldTypes, Holds
<1>2. /\ UNCHANGED <<workspace, price, loaded, pressed, open, query, index>>
      /\ Refresh /\ Act(h.button, h.seen)
      /\ hold' = hold \ {h} /\ orphans' = orphans \ {h}
  BY DEF Expire
<1>3. /\ orders' \in Orders /\ history' \in BOOLEAN /\ blocked' \in BOOLEAN
      /\ orders' # orders => ~h.seen.blocked
  BY <1>1, <1>2, ActKeeps
<1>4. HoldTypes' /\ HoldsAreHeld'
  BY <1>2, DeskFacts DEF HoldTypes, HoldsAreHeld, DeskInv
<1>5. QED
  BY <1>2, <1>3, <1>4, DeskFacts, RefreshKeeps, PartsMakeInv

LEMMA NavigateKeeps ==
  ASSUME DeskInv, NEW w \in Workspaces, Navigate(w)
  PROVE  DeskInv'
<1>1. UNCHANGED <<blocked, price, orders, history, loaded, pressed, paletteVars>>
  BY DEF Navigate
<1>2. workspace' \in Workspaces /\ HoldTypes' /\ HoldsAreHeld'
  BY <1>1, EnterKeeps DEF Navigate
<1>3. ListenerIsFresh' /\ StaleOnlyAtTheTop'
  BY <1>1 DEF paletteVars, DeskInv, ListenerIsFresh, StaleOnlyAtTheTop
<1>4. QED
  BY <1>1, <1>2, <1>3, DeskFacts, PartsMakeInv DEF paletteVars

\* Moving the highlight stays within the natural numbers.
LEMMA HighlightTypes ==
  ASSUME DeskInv
  PROVE  /\ (index + 1) % AtLeastOne(Len(Heard)) \in Nat
         /\ (index + Len(Heard) + AtLeastOne(Len(Heard)) - 1)
              % AtLeastOne(Len(Heard)) \in Nat
<1>1. Heard \in Seq(Commands)
  BY DeskFacts, DeskAssumption DEF Heard
<1>2. Len(Heard) \in Nat /\ AtLeastOne(Len(Heard)) \in Nat \ {0}
  BY <1>1 DEF AtLeastOne
<1>3. /\ index + 1 \in Int
      /\ index + Len(Heard) + AtLeastOne(Len(Heard)) - 1 \in Int
  BY <1>2, DeskFacts
<1>4. \A i \in Int, n \in Nat \ {0} : i % n \in Nat
  OBVIOUS
<1>5. QED
  BY <1>2, <1>3, <1>4

LEMMA PaletteKeeps ==
  ASSUME DeskInv,
         Toggle \/ Down \/ Up \/ Escape \/ \E q \in Queries : Type(q)
  PROVE  DeskInv'
<1>1. UNCHANGED appVars /\ UNCHANGED holdVars /\ Refresh
  BY DEF Toggle, Down, Up, Escape, Type
<1>2. query' \in Queries /\ (query' = query \/ index' = 0)
  BY DeskFacts, DeskAssumption DEF Toggle, Down, Up, Escape, Type
<1>3. open' \in BOOLEAN
  BY DeskFacts DEF Toggle, Down, Up, Escape, Type
<1>4. index' \in Nat
  <2>1. CASE Down \/ Up
    <3>1. \/ index' = (index + 1) % AtLeastOne(Len(Heard))
          \/ index' = (index + Len(Heard) + AtLeastOne(Len(Heard)) - 1)
                        % AtLeastOne(Len(Heard))
      BY <2>1 DEF Down, Up
    <3>2. QED
      BY <3>1, HighlightTypes
  <2>2. CASE Toggle \/ Escape \/ \E q \in Queries : Type(q)
    <3>1. index' = 0 \/ index' = index
      BY <2>2 DEF Toggle, Escape, Type
    <3>2. QED
      BY <3>1, DeskFacts
  <2>3. QED
    BY <2>1, <2>2
<1>5. QED
  BY <1>1, <1>2, <1>3, <1>4, DeskFacts, RefreshKeeps, HoldsUntouched,
     PartsMakeInv DEF appVars

\* The listener runs a command with what it saw, which is no old block.
LEMMA PressEnterKeeps ==
  ASSUME DeskInv, PressEnter
  PROVE  DeskInv' /\ (orders' # orders => ~blocked)
<1>1. /\ UNCHANGED <<price, loaded, pressed, query, index>> /\ open' = FALSE
      /\ Refresh /\ index < Len(Heard) /\ Run(Heard[index + 1], listener.seen)
  BY DEF PressEnter
<1>2. Heard[index + 1] \in Commands /\ listener.seen \in Views
  <2>1. Heard \in Seq(Commands) /\ listener.seen \in Views
    BY DeskFacts, DeskAssumption DEF Heard
  <2>2. QED
    BY <1>1, <2>1, DeskFacts
<1>3. /\ workspace' \in Workspaces /\ HoldTypes' /\ HoldsAreHeld'
      /\ orders' \in Orders /\ history' \in BOOLEAN /\ blocked' \in BOOLEAN
      /\ orders' # orders => ~listener.seen.blocked
  BY <1>1, <1>2, RunKeeps
<1>4. QED
  BY <1>1, <1>3, DeskFacts, RefreshKeeps, PartsMakeInv
     DEF DeskInv, ListenerIsFresh

LEMMA ChooseKeeps ==
  ASSUME DeskInv, NEW i \in 1 .. Len(Listed), Choose(i)
  PROVE  DeskInv' /\ (orders' # orders => ~blocked)
<1>1. /\ UNCHANGED <<price, loaded, pressed, query, index>> /\ open' = FALSE
      /\ Refresh /\ Run(Listed[i], Seen)
  BY DEF Choose
<1>2. Listed[i] \in Commands
  <2>1. Listed \in Seq(Commands)
    BY DeskFacts, DeskAssumption DEF Listed
  <2>2. QED
    BY <2>1
<1>3. /\ workspace' \in Workspaces /\ HoldTypes' /\ HoldsAreHeld'
      /\ orders' \in Orders /\ history' \in BOOLEAN /\ blocked' \in BOOLEAN
      /\ orders' # orders => ~Seen.blocked
  BY <1>1, <1>2, SeenTypes, RunKeeps
<1>4. QED
  BY <1>1, <1>3, DeskFacts, RefreshKeeps, PartsMakeInv DEF Seen

LEMMA DeskStep == DeskInv /\ [Next]_vars => DeskInv'
<1>1. SUFFICES ASSUME DeskInv, [Next]_vars PROVE DeskInv'
  OBVIOUS
<1>2. CASE LoadCandles \/ LoadTrades \/ LoadSafety \/ LoadFails
  BY <1>1, <1>2, LoadKeeps
<1>3. ASSUME NEW b \in Buttons, Press(b) PROVE DeskInv'
  BY <1>1, <1>3, PressKeeps
<1>4. CASE Release
  BY <1>1, <1>4, ReleaseKeeps
<1>5. ASSUME NEW h \in hold \cup orphans, Expire(h) PROVE DeskInv'
  BY <1>1, <1>5, ExpireKeeps
<1>6. ASSUME NEW w \in Workspaces, Navigate(w) PROVE DeskInv'
  BY <1>1, <1>6, NavigateKeeps
<1>7. CASE Toggle \/ Down \/ Up \/ Escape \/ \E q \in Queries : Type(q)
  BY <1>1, <1>7, PaletteKeeps
<1>8. CASE PressEnter
  BY <1>1, <1>8, PressEnterKeeps
<1>9. ASSUME NEW i \in 1 .. Len(Listed), Choose(i) PROVE DeskInv'
  BY <1>1, <1>9, ChooseKeeps
<1>10. CASE UNCHANGED vars
  BY <1>1, <1>10
     DEF vars, appVars, holdVars, paletteVars, DeskInv, TypeOK, Holds, Views,
         ListenerIsFresh, StaleOnlyAtTheTop, HoldsAreHeld
<1>11. QED
  BY <1>1, <1>2, <1>3, <1>4, <1>5, <1>6, <1>7, <1>8, <1>9, <1>10 DEF Next

-----------------------------------------------------------------------------
(* The theorems.                                                           *)

\* The inductive invariant holds at every desk.
THEOREM DeskInvariant == Spec => []DeskInv
BY InitDesk, DeskStep, PTL DEF Spec

\* Every variable of App.jsx the desk uses stays in its type, and one hold runs
\* at a time.
THEOREM DeskTypes == Spec => []TypeOK
<1>1. DeskInv => TypeOK
  BY DEF DeskInv
<1>2. QED
  BY <1>1, DeskInvariant, PTL

\* Only on the first entry may Enter run another command than the highlighted.
THEOREM StaleAtTheTop == Spec => []StaleOnlyAtTheTop
<1>1. DeskInv => StaleOnlyAtTheTop
  BY DEF DeskInv
<1>2. QED
  BY <1>1, DeskInvariant, PTL

\* With the block armed only a hold begun before it was fills an order.
THEOREM ArmedFillsOldHolds == Spec => ArmedNeedsOlderHold
<1>1. ASSUME DeskInv, [Next]_vars, orders' # orders, blocked
      PROVE  \E h \in Expired : ~h.seen.blocked
  <2>1. ASSUME NEW h \in hold \cup orphans, Expire(h)
        PROVE  \E g \in Expired : ~g.seen.blocked
    <3>1. ~h.seen.blocked
      BY <1>1, <2>1, ExpireKeeps
    <3>2. h \in Expired
      BY <2>1 DEF Expire, Expired
    <3>3. QED
      BY <3>1, <3>2
  <2>2. ~PressEnter
    BY <1>1, PressEnterKeeps
  <2>3. ASSUME NEW i \in 1 .. Len(Listed), Choose(i) PROVE FALSE
    BY <1>1, <2>3, ChooseKeeps
  <2>4. \E h \in hold \cup orphans : Expire(h)
    BY <1>1, <2>2, <2>3
       DEF Next, LoadCandles, LoadTrades, LoadSafety, LoadFails, Press,
           Release, Navigate, Toggle, Down, Up, Escape, Type, vars, appVars
  <2>5. QED
    BY <2>1, <2>4
<1>2. DeskInv /\ [Next]_vars =>
        [orders' # orders /\ blocked => \E h \in Expired : ~h.seen.blocked]_vars
  BY <1>1
<1>3. QED
  BY <1>2, DeskInvariant, PTL DEF Spec, ArmedNeedsOlderHold

\* An order comes from the palette or from a button still held down, unless the
\* hold is excused.
THEOREM OrdersAreMeant == Spec => OrdersNeedAPressedButton
<1>. DEFINE Meant == \/ open /\ ~open'
                     \/ \E h \in Expired : pressed = h.button \/ h.away \/ h.lost
<1>1. ASSUME DeskInv, [Next]_vars, orders' # orders
      PROVE  Meant
  <2>1. ASSUME NEW h \in hold \cup orphans, Expire(h)
        PROVE  Meant
    <3>1. pressed = h.button \/ h.away \/ h.lost
      BY <1>1 DEF DeskInv, HoldsAreHeld
    <3>2. h \in Expired
      BY <2>1 DEF Expire, Expired
    <3>3. QED
      BY <3>1, <3>2
  <2>2. ASSUME PressEnter \/ \E i \in 1 .. Len(Listed) : Choose(i)
        PROVE  open /\ ~open'
    BY <2>2 DEF PressEnter, Choose
  <2>3. \/ \E h \in hold \cup orphans : Expire(h)
        \/ PressEnter \/ \E i \in 1 .. Len(Listed) : Choose(i)
    BY <1>1
       DEF Next, LoadCandles, LoadTrades, LoadSafety, LoadFails, Press,
           Release, Navigate, Toggle, Down, Up, Escape, Type, vars, appVars
  <2>4. QED
    BY <2>1, <2>2, <2>3
<1>2. DeskInv /\ [Next]_vars => [orders' # orders => Meant]_vars
  BY <1>1
<1>3. QED
  BY <1>2, DeskInvariant, PTL DEF Spec, OrdersNeedAPressedButton

-----------------------------------------------------------------------------
(* The chart.                                                              *)

(***************************************************************************)
(* The inductive invariant. A scroll offset, and the one a drag started    *)
(* from, leave the newest candle they can reach to the left of the right   *)
(* border; and the readout, once there are candles, is one of them.        *)
(***************************************************************************)
Reachable(o) == o <= 0 \/ o < candles

ScrollInv == Reachable(offset) /\ Reachable(drag.from)

ChartInv == ChartTypeOK /\ ScrollInv /\ ReadoutOnScreen

-----------------------------------------------------------------------------
(* Arithmetic.                                                             *)

\* A column left of the right border falls on a candle of the window.
LEMMA ColumnInWindow ==
  ASSUME NEW x \in Nat, x < Columns, NEW w \in Nat \ {0}
  PROVE  (x * w) \div Columns \in 0 .. w - 1
<1>. DEFINE q == (x * w) \div Columns
<1>1. Columns \in Nat \ {0} /\ x * w \in Nat
  BY ChartAssumption
<1>2. q \in Nat /\ Columns * q <= x * w
  BY <1>1
<1>3. x * w < Columns * w
  <2>1. PICK d \in Nat \ {0} : Columns = x + d
    BY <1>1
  <2>2. d * w > 0 /\ Columns * w = x * w + d * w
    BY <2>1
  <2>3. QED
    BY <1>1, <2>2
<1>4. ASSUME q >= w PROVE FALSE
  <2>1. Columns * q >= Columns * w
    BY <1>1, <1>2, <1>4
  <2>2. QED
    BY <1>1, <1>2, <1>3, <2>1
<1>5. QED
  BY <1>2, <1>4

\* At zoom 0 a drag scrolls nowhere.
LEMMA NoZoomNoScroll ==
  ASSUME ChartTypeOK, zoom = 0, NEW x \in Canvas
  PROVE  Dragged(x) = 0
<1>1. Columns \in Nat \ {0} /\ Columns \div (2 * Columns) = 0
  BY ChartAssumption
<1>2. 2 * (x - drag.x) * zoom = 0
  BY DEF ChartTypeOK, Canvas
<1>3. QED
  BY <1>1, <1>2 DEF Dragged

\* A drag is a whole number of candles.
LEMMA DraggedIsInt ==
  ASSUME ChartTypeOK, NEW x \in Canvas
  PROVE  Dragged(x) \in Int
<1>1. 2 * (x - drag.x) * zoom + Columns \in Int /\ 2 * Columns \in Nat \ {0}
  BY ChartAssumption DEF ChartTypeOK, Canvas
<1>2. QED
  BY <1>1 DEF Dragged

-----------------------------------------------------------------------------
(* The window.                                                             *)

\* The window holds candles of the array only, and none but if it is wide.
LEMMA WindowBounds ==
  ASSUME NEW n \in Nat, NEW z \in Nat, NEW o \in Int
  PROVE  /\ FirstShown(n, z, o) \in Nat
         /\ PastShown(n, o) \in Int
         /\ PastShown(n, o) <= n
         /\ Shown(n, z, o) \subseteq 0 .. n - 1
         /\ Shown(n, z, o) # {} <=> Width(n, z, o) > 0
         /\ Shown(n, z, o) # {} => PastShown(n, o) - 1 \in Shown(n, z, o)
<1>1. /\ FirstShown(n, z, o) \in Nat
      /\ PastShown(n, o) \in Int
      /\ PastShown(n, o) <= n
  BY DEF FirstShown, PastShown
<1>2. QED
  BY <1>1 DEF Shown, Width

\* An offset that leaves a candle in reach leaves the newest in reach.
LEMMA NewestInArray ==
  ASSUME NEW n \in Nat, NEW o \in Int, n > 0, o <= 0 \/ o < n
  PROVE  PastShown(n, o) - 1 \in 0 .. n - 1
BY DEF PastShown

\* The candle under a column is in the window unless the window is empty or the
\* column is the right border.
LEMMA UnderInWindow ==
  ASSUME NEW n \in Nat, NEW z \in Nat, NEW o \in Int,
         NEW x \in Plot, x # Columns, Shown(n, z, o) # {}
  PROVE  Under(x, n, z, o) \in Shown(n, z, o)
<1> DEFINE w == Width(n, z, o)
<1>1. w \in Nat \ {0}
  <2>1. /\ FirstShown(n, z, o) \in Nat /\ PastShown(n, o) \in Int
        /\ Width(n, z, o) > 0
    BY WindowBounds
  <2>2. QED
    BY <2>1 DEF Width
<1>2. x \in Nat /\ x < Columns
  BY ChartAssumption DEF Plot
<1>3. (x * w) \div Columns \in 0 .. w - 1
  BY <1>1, <1>2, ColumnInWindow
<1>4. FirstShown(n, z, o) \in Nat /\ PastShown(n, o) \in Int
  BY WindowBounds
<1>5. QED
  BY <1>1, <1>3, <1>4 DEF Under, Shown, Width

\* A redraw leaves a readout that is true of the window it draws.
LEMMA RedrawDescribes ==
  ASSUME NEW n \in Nat, NEW z \in Nat, NEW o \in Int,
         NEW m, NEW x \in Canvas, m \in {{}, {x}},
         o <= 0 \/ o < n,
         readout \subseteq 0 .. n - 1
  PROVE  /\ Described(n, z, o, m) \subseteq 0 .. n - 1
         /\ Shown(n, z, o) # {} /\ m # {Columns} =>
              /\ Described(n, z, o, m) # {}
              /\ Described(n, z, o, m) \subseteq Shown(n, z, o)
<1>1. Shown(n, z, o) \subseteq 0 .. n - 1
  BY WindowBounds
<1>2. CASE n = 0
  BY <1>1, <1>2 DEF Described
<1>3. CASE n # 0 /\ m \cap Plot = {}
  <2>1. Described(n, z, o, m) = {PastShown(n, o) - 1}
    BY <1>3 DEF Described
  <2>2. PastShown(n, o) - 1 \in 0 .. n - 1
    BY <1>3, NewestInArray
  <2>3. Shown(n, z, o) # {} => PastShown(n, o) - 1 \in Shown(n, z, o)
    BY WindowBounds
  <2>4. QED
    BY <2>1, <2>2, <2>3
<1>4. CASE n # 0 /\ m \cap Plot # {}
  <2> DEFINE hovered == {Under(y, n, z, o) : y \in m} \cap Shown(n, z, o)
  <2>1. Described(n, z, o, m) = IF hovered = {} THEN readout ELSE hovered
    BY <1>4 DEF Described
  <2>2. m = {x} /\ x \in Plot
    BY <1>4
  <2>3. Shown(n, z, o) # {} /\ m # {Columns} => hovered # {}
    BY <2>2, UnderInWindow
  <2>4. QED
    BY <1>1, <2>1, <2>3
<1>5. QED
  BY <1>2, <1>3, <1>4

\* A described candle is one.
LEMMA DescribedIsOne ==
  ASSUME NEW n \in Nat, NEW z \in Nat, NEW o \in Int,
         NEW m, NEW x \in Canvas, m \in {{}, {x}},
         readout \subseteq Int, \A i, j \in readout : i = j
  PROVE  /\ Described(n, z, o, m) \subseteq Int
         /\ \A i, j \in Described(n, z, o, m) : i = j
<1>1. PastShown(n, o) - 1 \in Int /\ Shown(n, z, o) \subseteq Int
  BY WindowBounds DEF Shown
<1>2. QED
  BY <1>1 DEF Described

-----------------------------------------------------------------------------
(* Scrolling and zooming.                                                  *)

\* A drag ends where the newest candle is still in reach.
LEMMA ScrollReaches ==
  ASSUME ChartTypeOK, ScrollInv, NEW x \in Canvas
  PROVE  /\ Scroll(drag.from + Dragged(x)) \in Int
         /\ Reachable(Scroll(drag.from + Dragged(x)))
<1>1. candles \in Nat /\ zoom \in Nat /\ drag.from \in Int /\ Dragged(x) \in Int
  BY DraggedIsInt, ChartAssumption DEF ChartTypeOK
<1>2. CASE zoom = 0
  BY <1>1, <1>2, NoZoomNoScroll DEF Scroll, Reachable, ScrollInv
<1>3. CASE zoom > 0
  BY <1>1, <1>3 DEF Scroll, Reachable
<1>4. QED
  BY <1>1, <1>2, <1>3

LEMMA ZoomStaysInType ==
  ASSUME ChartTypeOK, NEW d \in {-1, 1}
  PROVE  Zoomed(zoom + d * ZoomStep) \in 0 .. MaxZoom
<1>1. zoom \in Nat /\ candles \in Nat /\ ZoomStep \in Int
  BY ChartAssumption DEF ChartTypeOK, ZoomStep
<1>2. d * ZoomStep \in Int
  BY <1>1
<1>3. QED
  BY <1>1, <1>2, ChartAssumption DEF Zoomed

-----------------------------------------------------------------------------
(* The invariant.                                                          *)

LEMMA InitChart == ChartInit => ChartInv
<1> SUFFICES ASSUME ChartInit PROVE ChartInv
  OBVIOUS
<1>1. ChartTypeOK
  BY ChartAssumption DEF ChartInit, ChartTypeOK, Idle, Canvas
<1>2. ScrollInv
  BY DEF ChartInit, ScrollInv, Reachable, Idle
<1>3. OnScreen = {}
  BY WindowBounds, ChartAssumption DEF ChartInit, OnScreen
<1>4. ReadoutOnScreen
  BY <1>3 DEF ChartInit, ReadoutOnScreen
<1>5. QED
  BY <1>1, <1>2, <1>4 DEF ChartInv

\* What an action that redraws has to do for the invariant.
LEMMA RedrawKeeps ==
  ASSUME ChartInv, Redraw,
         candles' \in Nat, candles' = candles \/ candles = 0,
         zoom' \in 0 .. MaxZoom, offset' \in Int, Reachable(offset)',
         drag' \in [on : BOOLEAN, x : Canvas, from : Int],
         Reachable(drag.from)',
         NEW x \in Canvas, mouse' \in {{}, {x}}
  PROVE  ChartInv'
<1>1. zoom' \in Nat
  BY ChartAssumption
<1>2. readout \subseteq 0 .. candles' - 1 /\ readout \subseteq Int
  <2>1. readout \subseteq 0 .. candles - 1 /\ readout \subseteq Int
    BY DEF ChartInv, ReadoutOnScreen, ChartTypeOK
  <2>2. CASE candles' = candles
    BY <2>1, <2>2
  <2>3. CASE candles = 0
    <3>1. readout = {}
      BY <2>1, <2>3
    <3>2. QED
      BY <3>1
  <2>4. QED
    BY <2>2, <2>3
<1>3. offset' <= 0 \/ offset' < candles'
  BY DEF Reachable
<1>4. /\ readout' \subseteq 0 .. candles' - 1
      /\ OnScreen' # {} /\ mouse' # {Columns} =>
           readout' # {} /\ readout' \subseteq OnScreen'
  BY <1>1, <1>2, <1>3, RedrawDescribes DEF Redraw, OnScreen
<1>5. readout' \subseteq Int /\ \A i, j \in readout' : i = j
  BY <1>1, DescribedIsOne DEF ChartInv, ChartTypeOK, Redraw
<1>6. ChartTypeOK'
  BY <1>5 DEF ChartTypeOK
<1>7. QED
  BY <1>4, <1>6 DEF ChartInv, ScrollInv, ReadoutOnScreen

LEMMA NextChart ==
  ASSUME ChartInv, [ChartNext]_chartVars
  PROVE  ChartInv'
<1> USE DEF ChartInv
<1>0. /\ candles \in Nat /\ zoom \in 0 .. MaxZoom /\ offset \in Int
      /\ drag \in [on : BOOLEAN, x : Canvas, from : Int]
      /\ \E x \in Canvas : mouse \in {{}, {x}}
      /\ Reachable(offset) /\ Reachable(drag.from)
  BY DEF ChartTypeOK, ScrollInv
<1>1. ASSUME NEW n \in Sizes, Load(n)
      PROVE  ChartInv'
  <2>1. candles' \in Nat /\ Reachable(offset)' /\ Reachable(drag.from)'
    BY <1>0, <1>1, ChartAssumption DEF Load, Reachable
  <2>2. QED
    BY <1>0, <1>1, <2>1, RedrawKeeps DEF Load
<1>2. CASE Remount
  <2>1. /\ candles' = candles /\ zoom' = FirstZoom /\ offset' = 0 /\ mouse' = {}
        /\ drag' = Idle /\ zoom' \in Nat
    BY <1>2, ChartAssumption DEF Remount
  <2>2. candles > 0 => OnScreen' # {} /\ candles - 1 \in OnScreen'
    BY <1>0, <2>1, ChartAssumption DEF OnScreen, Shown, FirstShown, PastShown
  <2>3. candles = 0 => OnScreen' = {}
    BY <2>1, WindowBounds DEF OnScreen
  <2>4. ReadoutOnScreen'
    BY <1>0, <1>2, <2>1, <2>2, <2>3 DEF Remount, ReadoutOnScreen
  <2>5. ChartTypeOK' /\ ScrollInv'
    BY <1>0, <1>2, <2>1, ChartAssumption DEF Remount, ChartTypeOK, ScrollInv,
       Reachable, Idle, Canvas
  <2>6. QED
    BY <2>4, <2>5
<1>3. ASSUME NEW x \in Canvas, MouseDown(x)
      PROVE  ChartInv'
  <2>1. ChartTypeOK' /\ ScrollInv'
    BY <1>0, <1>3 DEF MouseDown, ChartTypeOK, ScrollInv, Reachable
  <2>2. ReadoutOnScreen'
    BY <1>3 DEF MouseDown, ReadoutOnScreen, OnScreen
  <2>3. QED
    BY <2>1, <2>2
<1>4. ASSUME NEW x \in Canvas, MouseMove(x)
      PROVE  ChartInv'
  <2>1. offset' \in Int /\ Reachable(offset')
    BY <1>0, <1>4, ScrollReaches DEF MouseMove
  <2>2. Reachable(offset)' /\ Reachable(drag.from)'
    BY <1>0, <1>4, <2>1 DEF MouseMove, Reachable
  <2>3. QED
    BY <1>0, <1>4, <2>1, <2>2, RedrawKeeps DEF MouseMove
<1>5. CASE MouseUpOrLeave
  <2>1. /\ drag' \in [on : BOOLEAN, x : Canvas, from : Int]
        /\ drag'.from = drag.from
    BY <1>0, <1>5 DEF MouseUpOrLeave
  <2>2. Reachable(offset)' /\ Reachable(drag.from)'
    BY <1>0, <1>5, <2>1 DEF MouseUpOrLeave, Reachable
  <2>3. QED
    BY <1>0, <1>5, <2>1, <2>2, RedrawKeeps DEF MouseUpOrLeave
<1>6. ASSUME NEW d \in {-1, 1}, Wheel(d)
      PROVE  ChartInv'
  <2>1. zoom' \in 0 .. MaxZoom
    BY <1>6, ZoomStaysInType DEF Wheel
  <2>2. Reachable(offset)' /\ Reachable(drag.from)'
    BY <1>0, <1>6 DEF Wheel, Reachable
  <2>3. QED
    BY <1>0, <1>6, <2>1, <2>2, RedrawKeeps DEF Wheel
<1>7. CASE UNCHANGED chartVars
  BY <1>7 DEF chartVars, ChartTypeOK, ScrollInv, Reachable, ReadoutOnScreen, OnScreen
<1>8. QED
  BY <1>1, <1>2, <1>3, <1>4, <1>5, <1>6, <1>7 DEF ChartNext

THEOREM ChartInvariant == ChartSpec => []ChartInv
BY InitChart, NextChart, PTL DEF ChartSpec

\* Every variable keeps its type, whatever the limits and the loads.
THEOREM ChartTypes == ChartSpec => []ChartTypeOK
<1>1. ChartInv => ChartTypeOK
  BY DEF ChartInv
<1>2. QED
  BY <1>1, ChartInvariant, PTL

\* Whatever was dragged and zoomed before and after the candles came, they are
\* on screen, but for the two causes named.
THEOREM BlankHasACause == ChartSpec => []BlankNeedsCause
<1>1. ChartInv => BlankNeedsCause
  <2> SUFFICES ASSUME ChartInv, candles > 0, OnScreen = {}, zoom # 0, offset >= 0
               PROVE  FALSE
    BY DEF ChartInv, ChartTypeOK, BlankNeedsCause
  <2>1. candles \in Nat /\ zoom \in Nat /\ offset \in Int /\ offset < candles
    BY ChartAssumption DEF ChartInv, ChartTypeOK, ScrollInv, Reachable
  <2>2. Width(candles, zoom, offset) > 0
    BY <2>1 DEF Width, FirstShown, PastShown
  <2>3. QED
    BY <2>1, <2>2, WindowBounds DEF OnScreen
<1>2. QED
  BY <1>1, ChartInvariant, PTL

\* The overlay never describes a candle that is not there, nor one off screen
\* while there are some on it.
THEOREM ReadoutIsShown == ChartSpec => []ReadoutOnScreen
<1>1. ChartInv => ReadoutOnScreen
  BY DEF ChartInv
<1>2. QED
  BY <1>1, ChartInvariant, PTL

===============================================================================
