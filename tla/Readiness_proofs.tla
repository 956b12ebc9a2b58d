--------------------------- MODULE Readiness_proofs ---------------------------
(***************************************************************************)
(* Theorems about Readiness, for any number of lifecycle states, any       *)
(* backend and any bounds. The panel is ready only once the last answer of *)
(* the load, the adapter's, is applied; by then each gate was refused, or  *)
(* shows the answer it got, or was toggled; and an answer is what the      *)
(* backend holds until somebody writes it. The lifecycle is another story: *)
(* the clicks under way ask for the state last heard of or the one after   *)
(* it, in the order they were made, so that the backend is at one of the   *)
(* two.                                                                    *)
(***************************************************************************)
EXTENDS Readiness, TLAPS

OneAnswer == \A f \in Facts : \A v, u \in answers[f] : v = u

AnswersHold ==
  \A f \in Facts \ (stale \cup {"stage"}) : answers[f] \subseteq {server[f]}

LiveIsLast ==
  /\ "live" \notin stale
  /\ view["live"] => next = 7 /\ server["live"]

\* Whether gate g shows what the load brought, if it brought it.
Read(g) ==
  g \in unread \/ view[g] \in answers[g] \/ (g = "switch" /\ toggled)

GatesRead ==
  \A i \in 1 .. 6 : i < next /\ Order[i] \in Gates => Read(Order[i])

StageKnown ==
  /\ next <= 2 => requests = {} /\ view["stage"] = -1
  /\ next <= 2 /\ "stage" \notin stale => answers["stage"] \subseteq {server["stage"]}
  /\ requests # {} \/ view["stage"] # -1 => answers["stage"] # {}
  /\ view["stage"] # -1 => view["stage"] = server["stage"] \/ "stage" \in stale

PanelInv ==
  /\ TypeOK
  /\ OneAnswer
  /\ AnswersHold
  /\ LiveIsLast
  /\ GatesRead
  /\ StageKnown

\* No two clicks are the same.
Numbered ==
  /\ \A r \in requests : r.n < clicks
  /\ \A r, q \in requests : r.n = q.n => r = q

\* The clicks under way ask for b or the state after it, and are served in the
\* order they were made.
InOrder(b) ==
  /\ \A r \in requests : b <= r.to /\ r.to <= b + 1
  /\ \A r, q \in requests :
       r.n < q.n => r.to <= q.to /\ (q.stage = "served" => r.stage = "served")

\* The backend is at b, or where the last of the clicks served put it.
At(b) ==
  \/ server["stage"] = b /\ \A r \in requests : r.stage = "sent"
  \/ \E r \in requests :
       /\ r.stage = "served" /\ server["stage"] = r.to
       /\ \A q \in requests : q.stage = "served" => q.n <= r.n

\* The panel shows b, or nothing where it lost it.
Shows(b) ==
  /\ view["stage"] \in {b, -1}
  /\ next > 2 /\ "stage" \notin unread => view["stage"] = b

Chain ==
  ~disturbed =>
    /\ next <= 2 => answers["stage"] \subseteq {server["stage"]}
    /\ \E b \in -1 .. Top : Shows(b) /\ InOrder(b) /\ At(b)

ConsoleInv == PanelInv /\ Numbered /\ Chain

-----------------------------------------------------------------------------

\* The order of the answers.
LEMMA OrderFacts ==
  /\ Len(Order) = 6
  /\ Order[1] = "switch" /\ Order[2] = "stage" /\ Order[3] = "mismatch"
  /\ Order[4] = "risk" /\ Order[5] = "rejected" /\ Order[6] = "live"
BY DEF Order

LEMMA OrderIsOfFacts == \A i \in 1 .. 6 : Order[i] \in Facts
BY OrderFacts DEF Facts, Gates

LEMMA ValuesOf ==
  /\ Values("stage") = -1 .. Top
  /\ \A f \in Facts : f # "stage" => Values(f) = BOOLEAN
  /\ -1 \in Values("stage")
  /\ Facts = Gates \cup {"stage", "live"} /\ "stage" \notin Gates /\ "live" \notin Gates
  /\ Gates \subseteq Facts /\ "stage" \in Facts /\ "live" \in Facts
BY ReadinessAssumption DEF Values, Facts, Gates

LEMMA UnknownIs ==
  /\ DOMAIN Unknown = Facts
  /\ Unknown["stage"] = -1
  /\ \A f \in Facts : f # "stage" => Unknown[f] = FALSE
<1>1. "stage" \in Facts
  BY ValuesOf
<1>2. QED
  BY <1>1, Zenon DEF Unknown

\* A console just opened.
LEMMA InitKeeps ==
  ASSUME Init
  PROVE  ConsoleInv
<1> USE ReadinessAssumption DEF Init
<1>1. PICK s \in Starts : server = [f \in Facts |-> IF f \in Gates THEN f \in s.bad
                                                   ELSE s[f]]
  OBVIOUS
<1>2. s.stage \in -1 .. Top /\ s.live \in BOOLEAN /\ s.bad \subseteq Gates
  OBVIOUS
<1>3. \A f \in Facts : server[f] \in Values(f)
  <2>1. \A f \in Gates : server[f] \in BOOLEAN
    BY <1>1, ValuesOf
  <2>2. server["stage"] = s.stage /\ server["live"] = s.live
    BY <1>1, ValuesOf
  <2>3. server["live"] \in BOOLEAN /\ server["stage"] \in -1 .. Top
    BY <1>2, <2>2
  <2>4. QED
    BY <2>1, <2>3, ValuesOf
<1>4. TypeOK
  <2>1. \A f \in Facts : view[f] \in Values(f)
    <3>1. \A f \in Facts : f # "stage" => Unknown[f] \in Values(f)
      <4> TAKE f \in Facts
      <4> HAVE f # "stage"
      <4>1. Unknown[f] = FALSE /\ Values(f) = BOOLEAN
        BY UnknownIs, ValuesOf, Zenon
      <4>2. QED
        BY <4>1
    <3>2. Unknown["stage"] \in Values("stage")
      BY UnknownIs, ValuesOf, Zenon
    <3>3. QED
      BY <3>1, <3>2, Zenon
  <2>2. DOMAIN server = Facts /\ DOMAIN view = Facts /\ DOMAIN answers = Facts
    BY <1>1, UnknownIs
  <2>3. \A f \in Facts : answers[f] \subseteq Values(f)
    OBVIOUS
  <2>4. next \in 1 .. Len(Order) + 1
    BY OrderFacts
  <2>5. writes \in 0 .. MaxWrites /\ clicks \in 0 .. MaxClicks
    OBVIOUS
  <2>6. QED
    BY <1>3, <2>1, <2>2, <2>3, <2>4, <2>5 DEF TypeOK
<1>5. OneAnswer /\ AnswersHold /\ GatesRead
  BY DEF OneAnswer, AnswersHold, GatesRead
<1>6. view["stage"] = -1 /\ view["live"] = FALSE
  BY UnknownIs, ValuesOf
<1>7. LiveIsLast /\ StageKnown
  BY <1>6 DEF LiveIsLast, StageKnown, Facts
<1>8. Numbered
  BY DEF Numbered
<1>9. Chain
  <2>1. server["stage"] \in -1 .. Top
    BY <1>1, <1>2 DEF Facts, Gates
  <2>2. Shows(server["stage"]) /\ InOrder(server["stage"]) /\ At(server["stage"])
    BY <1>6 DEF Shows, InOrder, At
  <2>3. QED
    BY <2>1, <2>2 DEF Chain, Facts
<1>10. QED
  BY <1>4, <1>5, <1>7, <1>8, <1>9 DEF ConsoleInv, PanelInv

-----------------------------------------------------------------------------
(* The load.                                                               *)

\* What every step may use of the state it starts from.
LEMMA ConsoleFacts ==
  ASSUME ConsoleInv
  PROVE  /\ DOMAIN server = Facts /\ DOMAIN view = Facts /\ DOMAIN answers = Facts
         /\ server["stage"] \in -1 .. Top /\ view["stage"] \in -1 .. Top
         /\ \A f \in Facts : f # "stage" => server[f] \in BOOLEAN /\ view[f] \in BOOLEAN
         /\ next \in 1 .. 7 /\ Top \in Nat
         /\ requests \subseteq Requests
         /\ \A r \in requests : r.to \in 1 .. Top /\ r.n \in Nat
         /\ \A r \in requests : r.stage \in {"sent", "served"}
<1>1. TypeOK /\ Top \in Nat
  BY ReadinessAssumption DEF ConsoleInv, PanelInv
<1>2. requests \subseteq Requests /\ next \in 1 .. 7
  BY <1>1, OrderFacts DEF TypeOK
<1>3. /\ DOMAIN server = Facts /\ DOMAIN view = Facts /\ DOMAIN answers = Facts
      /\ \A f \in Facts : server[f] \in Values(f) /\ view[f] \in Values(f)
  BY <1>1 DEF TypeOK
<1>4. /\ server["stage"] \in -1 .. Top /\ view["stage"] \in -1 .. Top
      /\ \A f \in Facts : f # "stage" => server[f] \in BOOLEAN /\ view[f] \in BOOLEAN
  BY <1>3, ValuesOf
<1>5. QED
  BY <1>1, <1>2, <1>3, <1>4 DEF Requests

LEMMA ServeKeeps ==
  ASSUME ConsoleInv, NEW f \in Facts, Serve(f)
  PROVE  ConsoleInv'
<1> USE DEF ConsoleInv, PanelInv
<1>1. /\ answers[f] = {} /\ answers' = [answers EXCEPT ![f] = {server[f]}]
      /\ UNCHANGED <<server, view, refused, next, unread, requests, reconciling,
                     stale, toggled, disturbed, writes, clicks>>
  BY DEF Serve, ghosts
<1>2. /\ DOMAIN answers' = Facts
      /\ answers'[f] = {server[f]}
      /\ \A g \in Facts : g # f => answers'[g] = answers[g]
  BY <1>1, ConsoleFacts
<1>3. TypeOK'
  BY <1>1, <1>2 DEF TypeOK
<1>4. OneAnswer' /\ AnswersHold'
  BY <1>1, <1>2 DEF OneAnswer, AnswersHold
<1>5. LiveIsLast'
  BY <1>1 DEF LiveIsLast
<1>6. GatesRead'
  <2> SUFFICES ASSUME NEW i \in 1 .. 6, i < next, Order[i] \in Gates
               PROVE  Read(Order[i])'
    BY <1>1 DEF GatesRead
  <2>1. Read(Order[i]) /\ Order[i] \in Facts
    BY OrderIsOfFacts DEF GatesRead
  <2>2. QED
    BY <1>1, <1>2, <2>1 DEF Read
<1>7. StageKnown'
  BY <1>1, <1>2, ValuesOf DEF StageKnown
<1>8. Numbered'
  BY <1>1 DEF Numbered
<1>9. Chain'
  <2>1. \A b \in -1 .. Top : Shows(b) /\ InOrder(b) /\ At(b)
                             => Shows(b)' /\ InOrder(b)' /\ At(b)'
    BY <1>1 DEF Shows, InOrder, At
  <2>2. ~disturbed /\ next <= 2 => answers'["stage"] \subseteq {server["stage"]}
    BY <1>1, <1>2, ValuesOf DEF Chain
  <2>3. QED
    BY <1>1, <2>1, <2>2 DEF Chain
<1>10. QED
  BY <1>3, <1>4, <1>5, <1>6, <1>7, <1>8, <1>9

LEMMA RefuseKeeps ==
  ASSUME ConsoleInv, NEW f \in Facts, Refuse(f)
  PROVE  ConsoleInv'
<1>1. /\ refused' = refused \cup {f}
      /\ UNCHANGED <<server, view, answers, next, unread, requests, reconciling,
                     stale, toggled, disturbed, writes, clicks>>
  BY DEF Refuse, ghosts
<1>2. TypeOK'
  BY <1>1 DEF ConsoleInv, PanelInv, TypeOK
<1>3. OneAnswer' /\ AnswersHold' /\ LiveIsLast' /\ GatesRead' /\ StageKnown'
  BY <1>1 DEF ConsoleInv, PanelInv, OneAnswer, AnswersHold, LiveIsLast, GatesRead,
              Read, StageKnown
<1>4. Numbered' /\ Chain'
  BY <1>1 DEF ConsoleInv, Numbered, Chain, Shows, InOrder, At
<1>5. QED
  BY <1>2, <1>3, <1>4 DEF ConsoleInv, PanelInv

LEMMA RefusedIsApplied ==
  ASSUME ConsoleInv, Apply, Order[next] \in refused
  PROVE  ConsoleInv'
<1> USE DEF ConsoleInv, PanelInv
<1>1. /\ unread' = unread \cup {Order[next]} /\ next' = next + 1 /\ next \in 1 .. 6
      /\ UNCHANGED <<server, view, answers, refused, requests, reconciling, stale,
                     toggled, disturbed, writes, clicks>>
  BY ConsoleFacts, OrderFacts DEF Apply, Loading
<1>2. Order[next] \in Facts
  BY <1>1, OrderIsOfFacts
<1>3. TypeOK'
  BY <1>1, <1>2, OrderFacts DEF TypeOK
<1>4. OneAnswer' /\ AnswersHold' /\ LiveIsLast' /\ StageKnown'
  BY <1>1, ConsoleFacts DEF OneAnswer, AnswersHold, LiveIsLast, StageKnown
<1>5. GatesRead'
  <2> SUFFICES ASSUME NEW i \in 1 .. 6, i < next + 1, Order[i] \in Gates
               PROVE  Read(Order[i])'
    BY <1>1 DEF GatesRead
  <2>1. CASE i = next
    BY <1>1, <2>1 DEF Read
  <2>2. CASE i < next
    BY <1>1, <2>2 DEF GatesRead, Read
  <2>3. QED
    BY <1>1, <2>1, <2>2
<1>6. Numbered'
  BY <1>1 DEF Numbered
<1>7. Chain'
  <2>1. \A b \in -1 .. Top : Shows(b) /\ InOrder(b) /\ At(b)
                             => Shows(b)' /\ InOrder(b)' /\ At(b)'
    BY <1>1, OrderFacts DEF Shows, InOrder, At
  <2>2. QED
    BY <1>1, <2>1 DEF Chain
<1>8. QED
  BY <1>3, <1>4, <1>5, <1>6, <1>7

LEMMA AnswerIsApplied ==
  ASSUME ConsoleInv, Apply, Order[next] \notin refused
  PROVE  ConsoleInv'
<1> USE DEF ConsoleInv, PanelInv
<1> DEFINE f == Order[next]
<1>1. PICK v \in answers[f] : view' = [view EXCEPT ![f] = v]
  BY DEF Apply
<1>2. /\ next' = next + 1 /\ next \in 1 .. 6
      /\ toggled' = (toggled /\ f # "switch")
      /\ UNCHANGED <<server, answers, refused, unread, requests, reconciling, stale,
                     disturbed, writes, clicks>>
  BY ConsoleFacts, OrderFacts DEF Apply, Loading
<1>3. f \in Facts /\ v \in Values(f)
  BY <1>2, OrderIsOfFacts DEF TypeOK
<1>4. /\ DOMAIN view' = Facts /\ view'[f] = v
      /\ \A g \in Facts : g # f => view'[g] = view[g]
  BY <1>1, <1>3, ConsoleFacts
<1>5. f = "stage" <=> next = 2
  BY <1>2, OrderFacts
<1>6. f = "live" <=> next = 6
  BY <1>2, OrderFacts
<1> HIDE DEF f
<1>7. TypeOK'
  <2>1. \A g \in Facts : view'[g] \in Values(g)
    BY <1>3, <1>4 DEF TypeOK
  <2>2. toggled' \in BOOLEAN
    BY <1>2
  <2>3. QED
    BY <1>2, <1>4, <2>1, <2>2, OrderFacts DEF TypeOK
<1>8. OneAnswer' /\ AnswersHold'
  BY <1>2 DEF OneAnswer, AnswersHold
<1>9. LiveIsLast'
  <2>1. CASE f = "live"
    <3>1. view'["live"] = server["live"]
      BY <1>1, <1>4, <2>1, ValuesOf DEF AnswersHold, LiveIsLast
    <3>2. QED
      BY <1>2, <1>6, <2>1, <3>1 DEF LiveIsLast
  <2>2. CASE f # "live"
    <3>1. view'["live"] = view["live"] /\ ~view["live"]
      BY <1>2, <1>4, <2>2, ValuesOf DEF LiveIsLast
    <3>2. QED
      BY <1>2, <3>1 DEF LiveIsLast
  <2>3. QED
    BY <2>1, <2>2
<1>10. GatesRead'
  <2> SUFFICES ASSUME NEW i \in 1 .. 6, i < next + 1, Order[i] \in Gates
               PROVE  Read(Order[i])'
    BY <1>2 DEF GatesRead
  <2>1. CASE i = next
    BY <1>1, <1>2, <1>4, <2>1 DEF Read, f
  <2>2. CASE i < next
    <3>1. Read(Order[i])
      BY <2>2 DEF GatesRead
    <3>2. Order[i] # f /\ Order[i] \in Facts
      BY <1>2, <2>2, OrderFacts, OrderIsOfFacts DEF f
    <3>3. QED
      BY <1>2, <1>4, <3>1, <3>2 DEF Read
  <2>3. QED
    BY <1>2, <2>1, <2>2
<1>11. StageKnown'
  <2>1. CASE f = "stage"
    <3>1. next = 2 /\ view'["stage"] = v /\ v \in answers["stage"] /\ requests = {}
      BY <1>1, <1>4, <1>5, <2>1, ValuesOf DEF StageKnown
    <3>2. QED
      BY <1>2, <3>1 DEF StageKnown
  <2>2. CASE f # "stage"
    <3>1. view'["stage"] = view["stage"] /\ next # 2
      BY <1>4, <1>5, <2>2, ValuesOf
    <3>2. QED
      BY <1>2, <3>1 DEF StageKnown
  <2>3. QED
    BY <2>1, <2>2
<1>12. Numbered'
  BY <1>2 DEF Numbered
<1>13. Chain'
  <2> SUFFICES ASSUME ~disturbed
               PROVE  /\ next + 1 <= 2 => answers["stage"] \subseteq {server["stage"]}
                      /\ \E b \in -1 .. Top : Shows(b)' /\ InOrder(b)' /\ At(b)'
    BY <1>2 DEF Chain
  <2>1. next <= 2 => answers["stage"] \subseteq {server["stage"]}
    BY DEF Chain
  <2>2. CASE f = "stage"
    <3>1. next = 2 /\ view'["stage"] = server["stage"] /\ requests = {}
      BY <1>1, <1>4, <1>5, <2>1, <2>2, ValuesOf DEF StageKnown
    <3>2. /\ Shows(server["stage"])' /\ InOrder(server["stage"])'
          /\ At(server["stage"])'
      BY <1>2, <3>1 DEF Shows, InOrder, At
    <3>3. QED
      BY <1>2, <2>1, <3>2, ConsoleFacts
  <2>3. CASE f # "stage"
    <3>1. view'["stage"] = view["stage"] /\ next # 2
      BY <1>4, <1>5, <2>3, ValuesOf
    <3>2. \A b \in -1 .. Top : Shows(b) /\ InOrder(b) /\ At(b)
                               => Shows(b)' /\ InOrder(b)' /\ At(b)'
      BY <1>2, <3>1 DEF Shows, InOrder, At
    <3>3. QED
      BY <1>2, <2>1, <3>2 DEF Chain
  <2>4. QED
    BY <2>2, <2>3
<1>14. QED
  BY <1>7, <1>8, <1>9, <1>10, <1>11, <1>12, <1>13

LEMMA CatchKeeps ==
  ASSUME ConsoleInv, Catch
  PROVE  ConsoleInv'
<1> USE DEF ConsoleInv, PanelInv
<1>1. /\ view' = [Unknown EXCEPT !["switch"] = view["switch"]]
      /\ next' = 7 /\ next \in 1 .. 6
      /\ unread' = IF next = 1 THEN Facts ELSE Facts \ ({"switch"} \ unread)
      /\ UNCHANGED <<server, answers, refused, requests, reconciling, stale, toggled,
                     disturbed, writes, clicks>>
  BY ConsoleFacts, OrderFacts DEF Catch, Loading, ghosts
<1>2. "switch" \in Facts /\ "switch" # "stage"
  BY DEF Facts, Gates
<1>3. /\ DOMAIN view' = Facts /\ view'["switch"] = view["switch"]
      /\ \A g \in Facts : g # "switch" => view'[g] = Unknown[g]
  BY <1>1, <1>2, UnknownIs
<1>4. /\ view'["stage"] = -1
      /\ \A g \in Facts : g \notin {"switch", "stage"} => view'[g] = FALSE
  BY <1>2, <1>3, UnknownIs, ValuesOf
<1>5. TypeOK'
  <2>1. view'["stage"] \in Values("stage") /\ view'["switch"] \in Values("switch")
    BY <1>2, <1>3, <1>4, ValuesOf, ConsoleFacts
  <2>2. \A g \in Facts : g \notin {"switch", "stage"} => view'[g] \in Values(g)
    BY <1>4, ValuesOf
  <2>3. \A g \in Facts : view'[g] \in Values(g)
    BY <2>1, <2>2, Zenon
  <2>4. unread' \subseteq Facts
    BY <1>1
  <2>5. QED
    BY <1>1, <1>3, <2>3, <2>4, OrderFacts DEF TypeOK
<1>6. OneAnswer' /\ AnswersHold'
  BY <1>1 DEF OneAnswer, AnswersHold
<1>7. LiveIsLast'
  <2>1. view'["live"] = FALSE
    BY <1>4, ValuesOf DEF Gates
  <2>2. QED
    BY <1>1, <2>1 DEF LiveIsLast
<1>8. GatesRead'
  <2> SUFFICES ASSUME NEW i \in 1 .. 6, Order[i] \in Gates
               PROVE  Read(Order[i])'
    BY DEF GatesRead
  <2>1. CASE Order[i] # "switch"
    BY <1>1, <2>1, ValuesOf DEF Read
  <2>2. CASE Order[i] = "switch" /\ next = 1
    BY <1>1, <2>2, ValuesOf DEF Read
  <2>3. CASE Order[i] = "switch" /\ next # 1
    <3>1. Read("switch")
      BY <1>1, <1>2, <2>3, OrderFacts DEF GatesRead, Gates
    <3>2. QED
      BY <1>1, <1>2, <1>3, <2>3, <3>1 DEF Read
  <2>4. QED
    BY <2>1, <2>2, <2>3
<1>9. StageKnown'
  BY <1>1, <1>4 DEF StageKnown
<1>10. Numbered'
  BY <1>1 DEF Numbered
<1>11. Chain'
  <2>1. "stage" \in unread'
    BY <1>1, <1>2, ValuesOf
  <2>2. \A b \in -1 .. Top : Shows(b) /\ InOrder(b) /\ At(b)
                             => Shows(b)' /\ InOrder(b)' /\ At(b)'
    BY <1>1, <1>4, <2>1 DEF Shows, InOrder, At
  <2>3. QED
    BY <1>1, <2>2 DEF Chain
<1>12. QED
  BY <1>5, <1>6, <1>7, <1>8, <1>9, <1>10, <1>11

-----------------------------------------------------------------------------
(* The backend.                                                            *)

Stops == {"no", "asked", "arming", "over"}

\* A fact is written, by whomever.
LEMMA WrittenKeeps ==
  ASSUME ConsoleInv, NEW f \in Facts \ {"live"}, NEW v \in Values(f),
         server' = [server EXCEPT ![f] = v], Written({f}),
         disturbed' = (disturbed \/ f = "stage"),
         UNCHANGED <<view, loadVars, requests, toggled, clicks>>,
         writes' \in 0 .. MaxWrites, reconciling' \in Stops
  PROVE  ConsoleInv'
<1> USE DEF ConsoleInv, PanelInv
<1>1. /\ DOMAIN server' = Facts /\ server'[f] = v
      /\ \A g \in Facts : g # f => server'[g] = server[g]
  BY ConsoleFacts
<1>2. /\ stale' = stale \cup {g \in {f} : answers[g] # {}}
      /\ UNCHANGED <<view, answers, refused, next, unread, requests, toggled, clicks>>
  BY DEF Written, loadVars
<1>3. TypeOK'
  <2>1. \A g \in Facts : server'[g] \in Values(g)
    BY <1>1 DEF TypeOK
  <2>2. disturbed' \in BOOLEAN
    OBVIOUS
  <2>3. stale' \subseteq Facts
    BY <1>2 DEF TypeOK
  <2>4. QED
    BY <1>1, <1>2, <2>1, <2>2, <2>3 DEF TypeOK, Stops
<1>4. OneAnswer' /\ AnswersHold'
  BY <1>1, <1>2 DEF OneAnswer, AnswersHold
<1>5. LiveIsLast'
  BY <1>1, <1>2, ValuesOf DEF LiveIsLast
<1>6. GatesRead'
  BY <1>2 DEF GatesRead, Read
<1>7. StageKnown'
  <2>1. CASE f = "stage"
    BY <1>1, <1>2, <2>1 DEF StageKnown
  <2>2. CASE f # "stage"
    <3>1. server'["stage"] = server["stage"] /\ ("stage" \in stale' <=> "stage" \in stale)
      BY <1>1, <1>2, <2>2, ValuesOf
    <3>2. QED
      BY <1>2, <3>1 DEF StageKnown
  <2>3. QED
    BY <2>1, <2>2
<1>8. Numbered'
  BY <1>2 DEF Numbered
<1>9. Chain'
  <2>1. CASE f = "stage"
    BY <2>1 DEF Chain
  <2>2. CASE f # "stage"
    <3>1. server'["stage"] = server["stage"] /\ (disturbed' <=> disturbed)
      BY <1>1, <2>2, ValuesOf
    <3>2. \A b \in -1 .. Top : Shows(b) /\ InOrder(b) /\ At(b)
                               => Shows(b)' /\ InOrder(b)' /\ At(b)'
      BY <1>2, <3>1 DEF Shows, InOrder, At
    <3>3. QED
      BY <1>2, <3>1, <3>2 DEF Chain
  <2>3. QED
    BY <2>1, <2>2
<1>10. QED
  BY <1>3, <1>4, <1>5, <1>6, <1>7, <1>8, <1>9

\* Nothing but the counters and the reconciliation moves.
LEMMA StillKeeps ==
  ASSUME ConsoleInv, UNCHANGED <<server, view, loadVars, requests, ghosts>>,
         writes' \in 0 .. MaxWrites, clicks' \in 0 .. MaxClicks,
         clicks <= clicks', reconciling' \in Stops
  PROVE  ConsoleInv'
<1>1. UNCHANGED <<server, view, answers, refused, next, unread, requests, stale,
                  toggled, disturbed>>
  BY DEF loadVars, ghosts
<1>2. TypeOK'
  BY <1>1 DEF ConsoleInv, PanelInv, TypeOK, Stops
<1>3. OneAnswer' /\ AnswersHold' /\ LiveIsLast' /\ GatesRead' /\ StageKnown'
  BY <1>1 DEF ConsoleInv, PanelInv, OneAnswer, AnswersHold, LiveIsLast, GatesRead,
              Read, StageKnown
<1>4. Numbered'
  <2>1. \A r \in requests : r.n < clicks /\ r.n \in Nat
    BY ConsoleFacts DEF ConsoleInv, Numbered
  <2>2. clicks \in Nat /\ clicks' \in Nat
    BY ReadinessAssumption DEF ConsoleInv, PanelInv, TypeOK
  <2>3. QED
    BY <1>1, <2>1, <2>2 DEF ConsoleInv, Numbered
<1>5. Chain'
  BY <1>1 DEF ConsoleInv, Chain, Shows, InOrder, At
<1>6. QED
  BY <1>2, <1>3, <1>4, <1>5 DEF ConsoleInv, PanelInv

LEMMA Counters ==
  ASSUME ConsoleInv
  PROVE  /\ writes \in 0 .. MaxWrites /\ clicks \in 0 .. MaxClicks
         /\ reconciling \in Stops /\ MaxWrites \in Nat /\ MaxClicks \in Nat
BY ReadinessAssumption DEF ConsoleInv, PanelInv, TypeOK, Stops

LEMMA WriteKeeps ==
  ASSUME ConsoleInv, NEW f \in Facts, Write(f)
  PROVE  ConsoleInv'
<1>1. PICK v \in (IF f = "stage" THEN 0 .. Top ELSE BOOLEAN) \ {server[f]} :
        server' = [server EXCEPT ![f] = v]
  BY DEF Write
<1>2. v \in Values(f)
  <2>1. CASE f = "stage"
    <3>1. v \in 0 .. Top
      BY <1>1, <2>1
    <3>2. QED
      BY <2>1, <3>1, ValuesOf, ReadinessAssumption
  <2>2. CASE f # "stage"
    <3>1. v \in BOOLEAN
      BY <1>1, <2>2
    <3>2. QED
      BY <2>2, <3>1, ValuesOf
  <2>3. QED
    BY <2>1, <2>2
<1>3. writes' \in 0 .. MaxWrites /\ reconciling' \in Stops /\ f # "live"
  BY Counters DEF Write
<1>4. QED
  BY <1>1, <1>2, <1>3, WrittenKeeps DEF Write

LEMMA ReconcileKeeps ==
  ASSUME ConsoleInv, Reconcile \/ StoreRun \/ Arm \/ EndReconcile
  PROVE  ConsoleInv'
<1>1. CASE Reconcile
  BY <1>1, Counters, StillKeeps DEF Reconcile, Click, Stops
<1>2. CASE StoreRun
  <2>1. PICK found \in {"matched", "warning", "critical"} :
          /\ server' = [server EXCEPT !["mismatch"] = found # "matched"]
          /\ reconciling' = IF found = "critical" THEN "arming" ELSE "over"
    BY <1>2 DEF StoreRun
  <2>2. "mismatch" \in Facts \ {"live"} /\ (found # "matched") \in Values("mismatch")
    BY ValuesOf DEF Facts, Gates
  <2>3. disturbed' = (disturbed \/ "mismatch" = "stage")
    BY <1>2, Counters DEF StoreRun, ConsoleInv, PanelInv, TypeOK
  <2>4. reconciling' \in Stops /\ writes' \in 0 .. MaxWrites
    BY <1>2, <2>1, Counters DEF StoreRun, Stops
  <2>5. Written({"mismatch"}) /\ UNCHANGED <<view, loadVars, requests, toggled, clicks>>
    BY <1>2 DEF StoreRun
  <2>6. QED
    BY <2>1, <2>2, <2>3, <2>4, <2>5, WrittenKeeps
<1>3. CASE Arm
  <2>1. writes' \in 0 .. MaxWrites /\ reconciling' \in Stops
    BY <1>3, Counters DEF Arm, Stops
  <2>2. CASE server' = [server EXCEPT !["switch"] = TRUE] /\ Written({"switch"})
    <3>1. "switch" \in Facts \ {"live"} /\ TRUE \in Values("switch")
      BY ValuesOf DEF Facts, Gates
    <3>2. disturbed' = (disturbed \/ "switch" = "stage")
      BY <1>3 DEF Arm, ConsoleInv, PanelInv, TypeOK
    <3>3. UNCHANGED <<view, loadVars, requests, toggled, clicks>>
      BY <1>3 DEF Arm
    <3>4. QED
      BY <2>1, <2>2, <3>1, <3>2, <3>3, WrittenKeeps
  <2>3. CASE UNCHANGED <<server, stale>>
    BY <1>3, <2>1, <2>3, Counters, StillKeeps DEF Arm, ghosts
  <2>4. QED
    BY <1>3, <2>2, <2>3 DEF Arm
<1>4. CASE EndReconcile
  BY <1>4, Counters, StillKeeps DEF EndReconcile, Stops
<1>5. QED
  BY <1>1, <1>2, <1>3, <1>4

-----------------------------------------------------------------------------
(* The operator.                                                           *)

\* The block is toggled by hand.
LEMMA ToggleKeeps ==
  ASSUME ConsoleInv, Toggle
  PROVE  ConsoleInv'
<1> USE DEF ConsoleInv, PanelInv
<1>1. /\ view' = [view EXCEPT !["switch"] = ~@] /\ toggled' = TRUE
      /\ clicks < MaxClicks /\ clicks' = clicks + 1
      /\ UNCHANGED <<server, answers, refused, next, unread, requests, reconciling,
                     stale, disturbed, writes>>
  BY DEF Toggle, Click, loadVars
<1>2. /\ DOMAIN view' = Facts /\ view'["switch"] = ~view["switch"]
      /\ \A g \in Facts : g # "switch" => view'[g] = view[g]
  BY <1>1, ConsoleFacts, ValuesOf DEF Gates
<1>3. view'["stage"] = view["stage"] /\ view'["live"] = view["live"]
  BY <1>2, ValuesOf DEF Gates
<1>4. TypeOK'
  <2>1. \A g \in Facts : view'[g] \in Values(g)
    <3>1. view'["switch"] \in Values("switch")
      BY <1>2, ValuesOf DEF Gates
    <3>2. QED
      BY <1>2, <3>1 DEF TypeOK
  <2>2. clicks' \in 0 .. MaxClicks
    BY <1>1, Counters
  <2>3. QED
    BY <1>1, <1>2, <2>1, <2>2 DEF TypeOK
<1>5. OneAnswer' /\ AnswersHold'
  BY <1>1 DEF OneAnswer, AnswersHold
<1>6. LiveIsLast'
  BY <1>1, <1>3 DEF LiveIsLast
<1>7. GatesRead'
  <2> SUFFICES ASSUME NEW i \in 1 .. 6, i < next, Order[i] \in Gates
               PROVE  Read(Order[i])'
    BY <1>1 DEF GatesRead
  <2>1. Read(Order[i]) /\ Order[i] \in Facts
    BY OrderIsOfFacts DEF GatesRead
  <2>2. QED
    BY <1>1, <1>2, <2>1 DEF Read
<1>8. StageKnown'
  BY <1>1, <1>3 DEF StageKnown
<1>9. Numbered'
  <2>1. \A r \in requests : r.n < clicks /\ r.n \in Nat
    BY ConsoleFacts DEF Numbered
  <2>2. QED
    BY <1>1, <2>1, Counters DEF Numbered
<1>10. Chain'
  <2>1. \A b \in -1 .. Top : Shows(b) /\ InOrder(b) /\ At(b)
                             => Shows(b)' /\ InOrder(b)' /\ At(b)'
    BY <1>1, <1>3 DEF Shows, InOrder, At
  <2>2. QED
    BY <1>1, <2>1 DEF Chain
<1>11. QED
  BY <1>4, <1>5, <1>6, <1>7, <1>8, <1>9, <1>10

\* A click names the state after the one on screen, which is the chain's base.
LEMMA AdvanceKeeps ==
  ASSUME ConsoleInv, Advance
  PROVE  ConsoleInv'
<1> USE DEF ConsoleInv, PanelInv
<1> DEFINE r0 == [n |-> clicks, to |-> view["stage"] + 1, stage |-> "sent"]
<1>1. /\ requests' = requests \cup {r0}
      /\ view["stage"] \in 0 .. Top - 1
      /\ clicks < MaxClicks /\ clicks' = clicks + 1
      /\ UNCHANGED <<server, view, answers, refused, next, unread, reconciling,
                     stale, toggled, disturbed, writes>>
  BY DEF Advance, Click, loadVars, ghosts
<1>2. r0.n = clicks /\ r0.to = view["stage"] + 1 /\ r0.stage = "sent"
  OBVIOUS
<1>3. r0 \in Requests /\ clicks \in Nat
  BY <1>1, Counters, ConsoleFacts DEF Requests
<1> HIDE DEF r0
<1>4. \A r \in requests : r.n < clicks /\ r.n \in Nat /\ r.to \in 1 .. Top
  BY ConsoleFacts DEF Numbered
<1>5. next \notin 1 .. 2 /\ answers["stage"] # {}
  BY <1>1, ConsoleFacts DEF StageKnown
<1>6. TypeOK'
  <2>1. clicks' \in 0 .. MaxClicks
    BY <1>1, Counters
  <2>2. requests' \subseteq Requests
    BY <1>1, <1>3 DEF TypeOK
  <2>3. QED
    BY <1>1, <2>1, <2>2 DEF TypeOK
<1>7. OneAnswer' /\ AnswersHold' /\ LiveIsLast' /\ GatesRead'
  BY <1>1 DEF OneAnswer, AnswersHold, LiveIsLast, GatesRead, Read
<1>8. StageKnown'
  BY <1>1, <1>5, ConsoleFacts DEF StageKnown
<1>9. Numbered'
  BY <1>1, <1>2, <1>3, <1>4 DEF Numbered
<1>10. Chain'
  <2> SUFFICES ASSUME ~disturbed
               PROVE  \E b \in -1 .. Top : Shows(b)' /\ InOrder(b)' /\ At(b)'
    BY <1>1, <1>5, ConsoleFacts DEF Chain
  <2>1. PICK b \in -1 .. Top : Shows(b) /\ InOrder(b) /\ At(b)
    BY DEF Chain
  <2>2. view["stage"] = b
    BY <1>1, <2>1, ConsoleFacts DEF Shows
  <2>3. Shows(b)'
    BY <1>1, <2>1 DEF Shows
  <2>4. InOrder(b)'
    BY <1>1, <1>2, <1>3, <1>4, <2>1, <2>2 DEF InOrder
  <2>5. At(b)'
    BY <1>1, <1>2, <2>1 DEF At
  <2>6. QED
    BY <2>3, <2>4, <2>5
<1>11. QED
  BY <1>6, <1>7, <1>8, <1>9, <1>10

\* A click served in its turn takes the backend to what it asks for.
LEMMA ServeAdvanceKeeps ==
  ASSUME ConsoleInv, NEW r \in requests, ServeAdvance(r)
  PROVE  ConsoleInv'
<1> USE DEF ConsoleInv, PanelInv
<1> DEFINE r1 == [r EXCEPT !.stage = "served"]
<1>1. /\ r.stage = "sent"
      /\ server' = [server EXCEPT !["stage"] = r.to]
      /\ requests' = (requests \ {r}) \cup {r1}
      /\ stale' = IF server["stage"] = r.to THEN stale ELSE stale \cup {"stage"}
      /\ disturbed' = (disturbed \/ \E q \in requests : q.stage = "sent" /\ q.n < r.n)
      /\ UNCHANGED <<view, answers, refused, next, unread, reconciling, toggled,
                     writes, clicks>>
  BY DEF ServeAdvance, loadVars
<1>2. r \in Requests /\ r1 \in Requests /\ r1.n = r.n /\ r1.to = r.to
      /\ r1.stage = "served"
  BY ConsoleFacts DEF Requests
<1> HIDE DEF r1
<1>3. /\ DOMAIN server' = Facts /\ server'["stage"] = r.to
      /\ \A g \in Facts : g # "stage" => server'[g] = server[g]
  BY <1>1, ConsoleFacts, ValuesOf
<1>4. r.to \in -1 .. Top /\ r.n \in Nat
  BY ConsoleFacts
<1>5. ~(next <= 2)
  BY DEF StageKnown
<1>6. TypeOK'
  <2>1. \A g \in Facts : server'[g] \in Values(g)
    BY <1>3, <1>4, ValuesOf DEF TypeOK
  <2>2. requests' \subseteq Requests
    BY <1>1, <1>2 DEF TypeOK
  <2>3. stale' \subseteq Facts /\ disturbed' \in BOOLEAN
    BY <1>1, ValuesOf DEF TypeOK
  <2>4. QED
    BY <1>1, <1>3, <2>1, <2>2, <2>3 DEF TypeOK
<1>7. OneAnswer' /\ AnswersHold'
  BY <1>1, <1>3 DEF OneAnswer, AnswersHold
<1>8. LiveIsLast'
  <2>1. server'["live"] = server["live"] /\ "live" \notin stale'
    BY <1>1, <1>3, ValuesOf DEF LiveIsLast
  <2>2. QED
    BY <1>1, <2>1 DEF LiveIsLast
<1>9. GatesRead'
  BY <1>1 DEF GatesRead, Read
<1>10. StageKnown'
  BY <1>1, <1>3, <1>5 DEF StageKnown
<1>11. Numbered'
  BY <1>1, <1>2 DEF Numbered
<1>12. Chain'
  <2> SUFFICES ASSUME ~disturbed, \A q \in requests : ~(q.stage = "sent" /\ q.n < r.n)
               PROVE  \E b \in -1 .. Top : Shows(b)' /\ InOrder(b)' /\ At(b)'
    BY <1>1, <1>5 DEF Chain
  <2>1. PICK b \in -1 .. Top : Shows(b) /\ InOrder(b) /\ At(b)
    BY DEF Chain
  <2>2. Shows(b)'
    BY <1>1, <2>1 DEF Shows
  <2>3. \A q \in requests : q.stage = "served" => q.n <= r.n
    <3> SUFFICES ASSUME NEW q \in requests, q.stage = "served", r.n < q.n
                 PROVE  FALSE
      BY <1>4, ConsoleFacts
    <3>1. QED
      BY <1>1, <2>1 DEF InOrder
  <2>4. InOrder(b)'
    <3>1. \A q \in requests' : b <= q.to /\ q.to <= b + 1
      BY <1>1, <1>2, <2>1 DEF InOrder
    <3>2. ASSUME NEW p \in requests', NEW q \in requests', p.n < q.n
          PROVE  p.to <= q.to /\ (q.stage = "served" => p.stage = "served")
      <4>1. CASE p = r1 /\ q = r1
        BY <1>2, <1>4, <3>2, <4>1
      <4>2. CASE p = r1 /\ q # r1
        BY <1>1, <1>2, <2>1, <3>2, <4>2 DEF InOrder
      <4>3. CASE p # r1 /\ q = r1
        <5>1. p \in requests /\ p.n < r.n
          BY <1>1, <1>2, <3>2, <4>3
        <5>2. p.stage = "served"
          BY <5>1, ConsoleFacts
        <5>3. QED
          BY <1>2, <2>1, <4>3, <5>1, <5>2 DEF InOrder
      <4>4. CASE p # r1 /\ q # r1
        BY <1>1, <2>1, <3>2, <4>4 DEF InOrder
      <4>5. QED
        BY <4>1, <4>2, <4>3, <4>4
    <3>3. QED
      BY <3>1, <3>2 DEF InOrder
  <2>5. At(b)'
    <3>1. r1 \in requests' /\ server'["stage"] = r1.to
      BY <1>1, <1>2, <1>3
    <3>2. \A q \in requests' : q.stage = "served" => q.n <= r1.n
      BY <1>1, <1>2, <1>4, <2>3
    <3>3. QED
      BY <1>2, <3>1, <3>2 DEF At
  <2>6. QED
    BY <2>2, <2>4, <2>5
<1>13. QED
  BY <1>6, <1>7, <1>8, <1>9, <1>10, <1>11, <1>12

\* An answer heard in its turn is the new base of the clicks left.
LEMMA HearKeeps ==
  ASSUME ConsoleInv, NEW r \in requests, Hear(r)
  PROVE  ConsoleInv'
<1> USE DEF ConsoleInv, PanelInv
<1>1. /\ r.stage = "served"
      /\ requests' = requests \ {r}
      /\ view' = [view EXCEPT !["stage"] = r.to]
      /\ stale' = IF server["stage"] = r.to THEN stale \ {"stage"}
                  ELSE stale \cup {"stage"}
      /\ disturbed' = (disturbed \/ \E q \in requests : q.n < r.n)
      /\ UNCHANGED <<server, answers, refused, next, unread, reconciling, toggled,
                     writes, clicks>>
  BY DEF Hear, loadVars
<1>2. /\ DOMAIN view' = Facts /\ view'["stage"] = r.to
      /\ \A g \in Facts : g # "stage" => view'[g] = view[g]
  BY <1>1, ConsoleFacts, ValuesOf
<1>3. r.to \in -1 .. Top /\ r.n \in Nat
  BY ConsoleFacts
<1>4. ~(next <= 2) /\ answers["stage"] # {}
  BY DEF StageKnown
<1>5. TypeOK'
  <2>1. \A g \in Facts : view'[g] \in Values(g)
    BY <1>2, <1>3, ValuesOf DEF TypeOK
  <2>2. stale' \subseteq Facts /\ disturbed' \in BOOLEAN /\ requests' \subseteq Requests
    BY <1>1, ValuesOf DEF TypeOK
  <2>3. QED
    BY <1>1, <1>2, <2>1, <2>2 DEF TypeOK
<1>6. OneAnswer' /\ AnswersHold'
  BY <1>1 DEF OneAnswer, AnswersHold
<1>7. LiveIsLast'
  <2>1. view'["live"] = view["live"] /\ "live" \notin stale'
    BY <1>1, <1>2, ValuesOf DEF LiveIsLast
  <2>2. QED
    BY <1>1, <2>1 DEF LiveIsLast
<1>8. GatesRead'
  <2> SUFFICES ASSUME NEW i \in 1 .. 6, i < next, Order[i] \in Gates
               PROVE  Read(Order[i])'
    BY <1>1 DEF GatesRead
  <2>1. Read(Order[i]) /\ Order[i] \in Facts /\ Order[i] # "stage"
    BY OrderIsOfFacts, ValuesOf DEF GatesRead
  <2>2. QED
    BY <1>1, <1>2, <2>1 DEF Read
<1>9. StageKnown'
  BY <1>1, <1>2, <1>4 DEF StageKnown
<1>10. Numbered'
  BY <1>1 DEF Numbered
<1>11. Chain'
  <2> SUFFICES ASSUME ~disturbed, \A q \in requests : ~(q.n < r.n)
               PROVE  Shows(r.to)' /\ InOrder(r.to)' /\ At(r.to)'
    BY <1>1, <1>3, <1>4 DEF Chain
  <2>1. PICK b \in -1 .. Top : Shows(b) /\ InOrder(b) /\ At(b)
    BY DEF Chain
  <2>2. Shows(r.to)'
    BY <1>2 DEF Shows
  <2>3. \A q \in requests' : r.n < q.n
    BY <1>1, <1>3, ConsoleFacts DEF Numbered
  <2>4. InOrder(r.to)'
    <3>1. \A q \in requests' : r.to <= q.to
      BY <1>1, <2>1, <2>3 DEF InOrder
    <3>2. b \in Int /\ b <= r.to /\ \A q \in requests' : q.to \in Int /\ q.to <= b + 1
      BY <1>1, <2>1, ConsoleFacts DEF InOrder
    <3>3. \A q \in requests' : q.to <= r.to + 1
      BY <1>3, <3>2
    <3>4. \A p, q \in requests' : p.n < q.n =>
            p.to <= q.to /\ (q.stage = "served" => p.stage = "served")
      BY <1>1, <2>1 DEF InOrder
    <3>5. QED
      BY <3>1, <3>3, <3>4 DEF InOrder
  <2>5. At(r.to)'
    <3>1. PICK h \in requests :
            /\ h.stage = "served" /\ server["stage"] = h.to
            /\ \A q \in requests : q.stage = "served" => q.n <= h.n
      BY <1>1, <2>1 DEF At
    <3>2. CASE h = r
      <4>1. \A q \in requests' : q.stage # "served"
        BY <1>1, <1>3, <2>3, <3>1, <3>2, ConsoleFacts
      <4>2. \A q \in requests' : q.stage = "sent"
        BY <1>1, <4>1, ConsoleFacts
      <4>3. QED
        BY <1>1, <3>1, <3>2, <4>2 DEF At
    <3>3. CASE h # r
      BY <1>1, <3>1, <3>3 DEF At
    <3>4. QED
      BY <3>2, <3>3
  <2>6. QED
    BY <2>2, <2>4, <2>5
<1>12. QED
  BY <1>5, <1>6, <1>7, <1>8, <1>9, <1>10, <1>11

LEMMA LoseKeeps ==
  ASSUME ConsoleInv, NEW r \in requests, Lose(r)
  PROVE  ConsoleInv'
<1> USE DEF ConsoleInv, PanelInv
<1>1. /\ requests' = requests \ {r} /\ disturbed' = TRUE
      /\ UNCHANGED <<server, view, answers, refused, next, unread, reconciling,
                     stale, toggled, writes, clicks>>
  BY DEF Lose, loadVars
<1>2. TypeOK'
  BY <1>1 DEF TypeOK
<1>3. OneAnswer' /\ AnswersHold' /\ LiveIsLast' /\ GatesRead'
  BY <1>1 DEF OneAnswer, AnswersHold, LiveIsLast, GatesRead, Read
<1>4. StageKnown' /\ Numbered' /\ Chain'
  BY <1>1 DEF StageKnown, Numbered, Chain
<1>5. QED
  BY <1>2, <1>3, <1>4

-----------------------------------------------------------------------------
(* The theorems.                                                           *)

LEMMA ConsoleKept == ConsoleInv /\ [Next]_vars => ConsoleInv'
<1> SUFFICES ASSUME ConsoleInv, [Next]_vars
             PROVE  ConsoleInv'
  OBVIOUS
<1>1. ASSUME NEW f \in Facts, Serve(f) \/ Refuse(f) \/ Write(f)
      PROVE  ConsoleInv'
  BY <1>1, ServeKeeps, RefuseKeeps, WriteKeeps
<1>2. CASE Apply
  BY <1>2, RefusedIsApplied, AnswerIsApplied
<1>3. CASE Catch
  BY <1>3, CatchKeeps
<1>4. CASE Toggle
  BY <1>4, ToggleKeeps
<1>5. CASE Advance
  BY <1>5, AdvanceKeeps
<1>6. ASSUME NEW r \in requests, ServeAdvance(r) \/ Hear(r) \/ Lose(r)
      PROVE  ConsoleInv'
  BY <1>6, ServeAdvanceKeeps, HearKeeps, LoseKeeps
<1>7. CASE Reconcile \/ StoreRun \/ Arm \/ EndReconcile
  BY <1>7, ReconcileKeeps
<1>8. CASE UNCHANGED vars
  <2>1. UNCHANGED <<server, view, loadVars, requests, ghosts, writes, clicks,
                    reconciling>>
    BY <1>8 DEF vars
  <2>2. QED
    BY <2>1, Counters, StillKeeps
<1>9. QED
  BY <1>1, <1>2, <1>3, <1>4, <1>5, <1>6, <1>7, <1>8 DEF Next

\* What the panel shows, the answers it was read from and the clicks under way
\* agree with the backend as ConsoleInv says, whatever the console went through.
THEOREM ConsoleInvariant == Spec => []ConsoleInv
BY InitKeeps, ConsoleKept, PTL DEF Spec

\* Every variable stays in its type.
THEOREM ConsoleTypes == Spec => []TypeOK
<1>1. ConsoleInv => TypeOK
  BY DEF ConsoleInv, PanelInv
<1>2. QED
  BY <1>1, ConsoleInvariant, PTL

\* LIVE READY is only shown over facts that were read: the backend held each, or
\* it was written since, refused, or toggled here.
THEOREM ReadyIsGrounded == Spec => []ReadyHasGrounds
<1>1. ASSUME ConsoleInv, Ready
      PROVE  /\ server["live"]
             /\ server["stage"] = Top \/ "stage" \in stale
             /\ \A g \in Gates : server[g] =>
                  g \in stale \cup unread \/ (g = "switch" /\ toggled)
  <2>1. next = 7 /\ server["live"]
    BY <1>1 DEF ConsoleInv, PanelInv, LiveIsLast, Ready
  <2>2. server["stage"] = Top \/ "stage" \in stale
    BY <1>1, ConsoleFacts DEF ConsoleInv, PanelInv, StageKnown, Ready
  <2>3. ASSUME NEW g \in Gates, server[g]
        PROVE  g \in stale \cup unread \/ (g = "switch" /\ toggled)
    <3>1. PICK i \in 1 .. 6 : Order[i] = g
      BY OrderFacts DEF Gates
    <3>2. Read(g)
      BY <1>1, <2>1, <3>1 DEF ConsoleInv, PanelInv, GatesRead
    <3>3. CASE view[g] \in answers[g]
      <4>1. g \in Facts /\ g # "stage"
        BY ValuesOf
      <4>2. ~view[g] /\ view[g] \in BOOLEAN /\ server[g] \in BOOLEAN
        BY <1>1, <4>1, ConsoleFacts DEF Ready
      <4>3. g \notin stale => view[g] = server[g]
        BY <1>1, <3>3, <4>1 DEF ConsoleInv, PanelInv, AnswersHold
      <4>4. QED
        BY <2>3, <4>2, <4>3, Zenon
    <3>4. QED
      BY <3>2, <3>3 DEF Read
  <2>4. QED
    BY <2>1, <2>2, <2>3
<1>2. ConsoleInv => ReadyHasGrounds
  BY <1>1 DEF ReadyHasGrounds
<1>3. QED
  BY <1>2, ConsoleInvariant, PTL

\* When no click is under way the panel and the backend are at the same state,
\* unless the lifecycle was disturbed.
THEOREM LifecycleSettled == Spec => []LifecycleSettles
<1>1. ASSUME ConsoleInv, requests = {}, ~Loading, "stage" \notin unread, ~disturbed
      PROVE  view["stage"] = server["stage"]
  <2>1. next > 2
    BY <1>1, ConsoleFacts, OrderFacts DEF Loading
  <2>2. PICK b \in -1 .. Top : Shows(b) /\ At(b)
    BY <1>1 DEF ConsoleInv, Chain
  <2>3. QED
    BY <1>1, <2>1, <2>2 DEF Shows, At
<1>2. ConsoleInv => LifecycleSettles
  BY <1>1 DEF LifecycleSettles
<1>3. QED
  BY <1>2, ConsoleInvariant, PTL

\* Who moves the lifecycle of the backend: others, or a click that is served.
LEMMA StageMovers ==
  ASSUME ConsoleInv, [Next]_vars, server'["stage"] # server["stage"], ~disturbed'
  PROVE  \E r \in requests : ServeAdvance(r)
<1>1. DOMAIN server = Facts /\ "stage" \in Facts /\ "stage" \notin Gates
  BY ConsoleFacts, ValuesOf
<1>2. \A f \in Facts : ~Write(f)
  <2> SUFFICES ASSUME NEW f \in Facts, Write(f)
               PROVE  FALSE
    OBVIOUS
  <2>1. f # "stage"
    BY DEF Write
  <2>2. QED
    BY <1>1, <2>1 DEF Write
<1>3. ~StoreRun /\ ~Arm
  BY <1>1 DEF StoreRun, Arm, Gates
<1>4. QED
  BY <1>2, <1>3
     DEF Next, Serve, Refuse, Apply, Catch, Toggle, Advance, Hear, Lose, Reconcile,
         EndReconcile, vars

\* Clicks on Advance take the backend one state on at a time, unless the lifecycle
\* was disturbed.
THEOREM AdvancesByOne == Spec => OneStateAtATime
<1>1. ASSUME ConsoleInv, [Next]_vars, ~disturbed', server'["stage"] # server["stage"]
      PROVE  server'["stage"] = server["stage"] + 1
  <2>1. PICK r \in requests : ServeAdvance(r)
    BY <1>1, StageMovers
  <2>2. /\ r.stage = "sent" /\ server'["stage"] = r.to
        /\ ~disturbed /\ \A q \in requests : ~(q.stage = "sent" /\ q.n < r.n)
    BY <1>1, <2>1, ConsoleFacts, ValuesOf DEF ServeAdvance
  <2>3. PICK b \in -1 .. Top : InOrder(b) /\ At(b)
    BY <1>1, <2>2 DEF ConsoleInv, Chain
  <2>4. r.to \in Int /\ b <= r.to /\ r.to <= b + 1 /\ server["stage"] \in Int
    BY <1>1, <2>3, ConsoleFacts DEF InOrder
  <2>5. CASE server["stage"] = b
    BY <1>1, <2>2, <2>4, <2>5
  <2>6. CASE \E h \in requests : h.stage = "served" /\ server["stage"] = h.to
    <3>1. PICK h \in requests : h.stage = "served" /\ server["stage"] = h.to
      BY <2>6
    <3>2. h.n < r.n
      <4>1. ~(r.n < h.n)
        BY <2>2, <2>3, <3>1 DEF InOrder
      <4>2. r.n # h.n
        BY <1>1, <2>2, <3>1 DEF ConsoleInv, Numbered
      <4>3. QED
        BY <1>1, <4>1, <4>2, ConsoleFacts
    <3>3. h.to <= r.to /\ b <= h.to /\ h.to \in Int
      BY <1>1, <2>3, <3>1, <3>2, ConsoleFacts DEF InOrder
    <3>4. QED
      BY <1>1, <2>2, <2>4, <3>1, <3>3
  <2>7. QED
    BY <2>3, <2>5, <2>6 DEF At
<1>2. ConsoleInv /\ [Next]_vars =>
        [requests # {} /\ ~disturbed' /\ server'["stage"] # server["stage"] =>
           server'["stage"] = server["stage"] + 1]_vars
  BY <1>1
<1>3. QED
  BY <1>2, ConsoleInvariant, PTL DEF Spec, OneStateAtATime

=============================================================================
