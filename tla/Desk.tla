-------------------------------- MODULE Desk --------------------------------
(***************************************************************************)
(* What one operator can set off at one console (App.jsx and the action    *)
(* area of TradingWorkspace.jsx): the command palette, the buttons that    *)
(* must be held for two seconds, the workspaces, and the execution block   *)
(* and manual orders, which exist in the console only.                     *)
(*                                                                         *)
(* A handler of React sees the values of the render it was made in. Three  *)
(* handlers outlive their render: the timer of a hold, the keyboard        *)
(* listener, which is made anew only when one of four values changes, and  *)
(* the timer of a hold whose button was unmounted meanwhile. What each of  *)
(* them saw is part of the state. Toasts, audit lines and prices are left  *)
(* out.                                                                    *)
(*                                                                         *)
(* pressed, away and lost are no part of the program: the button the       *)
(* pointer is down on, and whether the workspace was left during a hold or *)
(* its button never heard of the release.                                  *)
(***************************************************************************)
EXTENDS Naturals, Sequences, FiniteSets

CONSTANTS
  Queries,     \* what the operator types into the palette, "" among them
  Listing,     \* the commands whose text or shortcut contains a query
  MaxOrders,   \* bound on manual orders
  MaxOrphans   \* bound on timers of unmounted buttons

Workspaces == {"Trading", "Research"}

Buttons == {"force_buy", "force_sell", "toggle_kill_switch"}

Commands == Workspaces \cup {"arm", "disarm", "exit", "focus"}

ASSUME DeskAssumption ==
  /\ "" \in Queries
  /\ Listing \in [Queries -> Seq(Commands)]
  /\ MaxOrders \in Nat /\ MaxOrphans \in Nat

VARIABLES
  workspace,  \* activeWorkspace
  blocked,    \* isSafetyBlocked
  price,      \* whether liveTickPrice is known
  orders,     \* the sides of the manual orders filled, oldest first
  history,    \* whether trades.length > 0
  loaded,     \* how much of loadBackendData is over
  hold,       \* the hold whose timer runs: empty or one record
  orphans,    \* timers of holds whose button was unmounted
  pressed,    \* the button under the pressed pointer, "none"
  open,       \* isPaletteOpen
  query,      \* paletteQuery
  index,      \* selectedPaletteIdx, from 0
  listener    \* what the keyboard listener saw when it was made

appVars == <<workspace, blocked, price, orders, history, loaded>>
holdVars == <<hold, orphans, pressed>>
paletteVars == <<open, query, index, listener>>
vars == <<appVars, holdVars, paletteVars>>

-----------------------------------------------------------------------------

\* The state executeManualAction closes over.
Seen == [blocked |-> blocked, price |-> price, history |-> history]

Init ==
  /\ workspace = "Trading"
  /\ blocked = FALSE
  /\ price = FALSE
  /\ orders = <<>>
  /\ history = FALSE
  /\ loaded = 0
  /\ hold = {}
  /\ orphans = {}
  /\ pressed = "none"
  /\ open = FALSE
  /\ query = ""
  /\ index = 0
  /\ listener = [query |-> "", seen |-> Seen]

\* Faulty variant: the effect depends on isPaletteOpen alone.
RefreshOnOpen ==
  listener' = IF open' # open
              THEN [query |-> query', seen |-> Seen'] ELSE listener

\* The effect that makes the listener depends on isPaletteOpen,
\* selectedPaletteIdx, liveTickPrice and isSafetyBlocked.
Refresh ==
  listener' = IF <<open, index, price, blocked>>' # <<open, index, price, blocked>>
              THEN [query |-> query', seen |-> Seen'] ELSE listener

-----------------------------------------------------------------------------
(* loadBackendData, as far as the desk sees it.                            *)

\* Candles came, and with them a price; or they did not.
LoadCandles ==
  /\ loaded = 0
  /\ loaded' = 1
  /\ \E p \in BOOLEAN : price' = p
  /\ UNCHANGED <<workspace, blocked, orders, history, holdVars, open, query,
                 index>>
  /\ Refresh

\* The trades came, or were refused and stay as they were.
LoadTrades ==
  /\ loaded = 1
  /\ loaded' = 2
  /\ \E h \in BOOLEAN : history' = h
  /\ UNCHANGED <<workspace, blocked, price, orders, holdVars, open, query, index>>
  /\ Refresh

\* The kill switch of the backend came and replaces the console's block, or was
\* refused.
LoadSafety ==
  /\ loaded = 2
  /\ loaded' = 3
  /\ \E b \in BOOLEAN : blocked' = b
  /\ UNCHANGED <<workspace, price, orders, history, holdVars, open, query, index>>
  /\ Refresh

\* A fetch fails or a body is broken: the trades are emptied, the block is not.
LoadFails ==
  /\ loaded \in 1 .. 3
  /\ loaded' = 4
  /\ history' = FALSE
  /\ UNCHANGED <<workspace, blocked, price, orders, holdVars, open, query, index>>
  /\ Refresh

-----------------------------------------------------------------------------
(* executeManualAction, run by a handler that saw s.                       *)

\* Faulty variant: the block is only asked by the buttons.
FillsUnchecked(side, s) == s.price /\ (side = "sell" => s.history)

\* The orders that pass the checks. A sell asks for any trade, not a position.
Fills(side, s) ==
  /\ ~s.blocked
  /\ s.price
  /\ side = "sell" => s.history

Order(side, s) ==
  IF Fills(side, s)
  THEN /\ Len(orders) < MaxOrders
       /\ orders' = Append(orders, side)
       /\ history' = TRUE
       /\ UNCHANGED blocked
  ELSE UNCHANGED <<orders, history, blocked>>

\* triggerKillSwitchAction: nothing is sent to the backend.
Block(armed) ==
  /\ blocked' = armed
  /\ UNCHANGED <<orders, history>>

Act(button, s) ==
  CASE button = "force_buy" -> Order("buy", s)
    [] button = "force_sell" -> Order("sell", s)
    [] OTHER -> Block(~s.blocked)

\* Leaving Trading unmounts its buttons; nothing clears their timer.
Enter(w) ==
  /\ workspace' = w
  /\ IF workspace = "Trading" /\ w # "Trading"
     THEN /\ orphans' = orphans \cup {[h EXCEPT !.away = TRUE] : h \in hold}
          /\ Cardinality(orphans') <= MaxOrphans
          /\ hold' = {}
     ELSE UNCHANGED <<hold, orphans>>

Run(command, s) ==
  CASE command \in Workspaces ->
         Enter(command) /\ UNCHANGED <<blocked, orders, history>>
    [] command = "arm" -> Block(TRUE) /\ UNCHANGED <<workspace, hold, orphans>>
    [] command = "disarm" -> Block(FALSE) /\ UNCHANGED <<workspace, hold, orphans>>
    [] command = "exit" -> Order("sell", s) /\ UNCHANGED <<workspace, hold, orphans>>
    [] OTHER -> UNCHANGED <<workspace, blocked, orders, history, hold, orphans>>

-----------------------------------------------------------------------------
(* Holding a button.                                                       *)

\* Order buttons are disabled while blocked. startHold clears a hold that still
\* runs before it begins its own.
Press(b) ==
  /\ workspace = "Trading"
  /\ pressed = "none" /\ ~open
  /\ b # "toggle_kill_switch" => ~blocked
  /\ pressed' = b
  /\ hold' = {[button |-> b, seen |-> Seen, away |-> FALSE, lost |-> FALSE]}
  /\ UNCHANGED <<appVars, orphans, paletteVars>>

\* Faulty variant: only the progress bar is cleared.
ReleaseBarOnly ==
  /\ pressed # "none"
  /\ pressed' = "none"
  /\ UNCHANGED <<appVars, hold, orphans, paletteVars>>

\* The pointer goes up or leaves: clearHold, if the button is still there. A
\* browser may keep the event from a button that was disabled meanwhile.
Release ==
  /\ pressed # "none"
  /\ pressed' = "none"
  /\ \/ hold' = {}
     \/ /\ blocked /\ pressed # "toggle_kill_switch"
        /\ hold' = {[h EXCEPT !.lost = TRUE] : h \in hold}
  /\ UNCHANGED <<appVars, orphans, paletteVars>>

\* Two seconds are over: the action runs with what was seen when the hold
\* began.
Expire(h) ==
  /\ h \in hold \cup orphans
  /\ hold' = hold \ {h}
  /\ orphans' = orphans \ {h}
  /\ Act(h.button, h.seen)
  /\ UNCHANGED <<workspace, price, loaded, pressed, open, query, index>>
  /\ Refresh

-----------------------------------------------------------------------------
(* The palette and the navigation bar.                                     *)

\* A click on the bar; the pointer cannot be down on a button meanwhile.
Navigate(w) ==
  /\ pressed = "none" /\ ~open
  /\ Enter(w)
  /\ UNCHANGED <<blocked, price, orders, history, loaded, pressed, paletteVars>>

\* Ctrl+K, whatever else is going on.
Toggle ==
  /\ open' = ~open
  /\ query' = ""
  /\ index' = 0
  /\ UNCHANGED <<appVars, holdVars>>
  /\ Refresh

Type(q) ==
  /\ open
  /\ query' = q
  /\ index' = 0
  /\ UNCHANGED <<appVars, holdVars, open>>
  /\ Refresh

\* The commands the listener goes by, and the ones on screen.
Heard == Listing[listener.query]

Listed == Listing[query]

AtLeastOne(n) == IF n = 0 THEN 1 ELSE n

Down ==
  /\ open
  /\ index' = (index + 1) % AtLeastOne(Len(Heard))
  /\ UNCHANGED <<appVars, holdVars, open, query>>
  /\ Refresh

\* With an empty list and index 0 the remainder is JavaScript's -1 % 1.
Up ==
  /\ open
  /\ index' = (index + Len(Heard) + AtLeastOne(Len(Heard)) - 1) % AtLeastOne(Len(Heard))
  /\ UNCHANGED <<appVars, holdVars, open, query>>
  /\ Refresh

\* Closing keeps the query; opening clears it.
Escape ==
  /\ open
  /\ open' = FALSE
  /\ UNCHANGED <<appVars, holdVars, query, index>>
  /\ Refresh

\* Enter runs the listener's command at the index, with what it saw.
PressEnter ==
  /\ open
  /\ index < Len(Heard)
  /\ Run(Heard[index + 1], listener.seen)
  /\ open' = FALSE
  /\ UNCHANGED <<price, loaded, pressed, query, index>>
  /\ Refresh

\* A click on a listed command runs it as just rendered.
Choose(i) ==
  /\ open
  /\ pressed = "none"
  /\ Run(Listed[i], Seen)
  /\ open' = FALSE
  /\ UNCHANGED <<price, loaded, pressed, query, index>>
  /\ Refresh

Next ==
  \/ LoadCandles \/ LoadTrades \/ LoadSafety \/ LoadFails
  \/ \E b \in Buttons : Press(b)
  \/ Release
  \/ \E h \in hold \cup orphans : Expire(h)
  \/ \E w \in Workspaces : Navigate(w)
  \/ Toggle \/ Down \/ Up \/ Escape \/ PressEnter
  \/ \E q \in Queries : Type(q)
  \/ \E i \in 1 .. Len(Listed) : Choose(i)

Spec == Init /\ [][Next]_vars

-----------------------------------------------------------------------------
(* Properties.                                                             *)

Views == [blocked : BOOLEAN, price : BOOLEAN, history : BOOLEAN]

Holds == [button : Buttons, seen : Views, away : BOOLEAN, lost : BOOLEAN]

\* Every variable stays in its type; one hold runs at a time.
TypeOK ==
  /\ workspace \in Workspaces
  /\ blocked \in BOOLEAN /\ price \in BOOLEAN /\ history \in BOOLEAN
  /\ orders \in Seq({"buy", "sell"})
  /\ loaded \in 0 .. 4
  /\ hold \subseteq Holds /\ \A g, h \in hold : g = h
  /\ orphans \subseteq Holds
  /\ pressed \in Buttons \cup {"none"}
  /\ open \in BOOLEAN
  /\ query \in Queries
  /\ index \in Nat
  /\ listener \in [query : Queries, seen : Views]

\* The holds whose timer this step runs.
Expired == (hold \cup orphans) \ (hold' \cup orphans')

\* While the console's block is armed an order is filled only by a hold that
\* began before it was armed: the buttons, the palette and the listener never
\* go by a block that is out of date.
ArmedNeedsOlderHold ==
  [][orders' # orders /\ blocked => \E h \in Expired : ~h.seen.blocked]_vars

\* An order comes from the palette's exit command or from a button that is still
\* pressed, unless its workspace was left during the hold, or its release went
\* to a button disabled by then.
OrdersNeedAPressedButton ==
  [][orders' # orders =>
       \/ open /\ ~open'
       \/ \E h \in Expired : pressed = h.button \/ h.away \/ h.lost]_vars

\* The listener's list is the one on screen wherever the highlight is below the
\* first entry: only Enter on the first entry can run another command than the
\* one highlighted.
StaleOnlyAtTheTop == listener.query # query => index = 0

\* App.jsx:76, the toast of an armed block: "Execution Block ARMED. All orders
\* rejected."
ArmedRejectsOrders == [][orders' # orders => ~blocked]_vars

=============================================================================
