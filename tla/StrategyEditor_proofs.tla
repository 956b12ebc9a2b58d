------------------------ MODULE StrategyEditor_proofs ------------------------
(***************************************************************************)
(* Proofs, for any names, scripts, templates and number of clicks, of what *)
(* the Pine editor stores, reports and lists.                              *)
(***************************************************************************)
EXTENDS StrategyEditor, TLAPS

(***************************************************************************)
(* The inductive invariant. That the lines of a reference profile never    *)
(* come back from the table needs the lists that are on their way          *)
(* (RowsAreClean); that a reported success is one needs the job that will  *)
(* be reported (OkParses); and that the list keeps up needs the request    *)
(* that will bring it up (Covered), whose answer is read after it was      *)
(* asked for (AnswersAreFresh).                                            *)
(***************************************************************************)
RowsAreClean == \A l \in lists : \A n \in Names : l.rows[n] # Reference

OkParses == \A j \in job : j.stage = "ok" => j.code \notin Broken

AnswersAreFresh ==
  \A l \in lists :
    l.since <= version /\ (l.stage = "answered" => l.since <= l.version)

Covered == late \/ shown >= due \/ \E l \in lists : l.since >= due

TableInv == RowsAreClean /\ AnswersAreFresh /\ Covered

EditorInv ==
  /\ TypeOK
  /\ ReferenceStaysOut
  /\ TableInv
  /\ OkParses
  /\ SuccessIsOfThisScript

\* A request for the list, as it is sent.
LEMMA AskedIsRequest ==
  ASSUME NEW v \in Nat
  PROVE  /\ Asked(v) \in ListRequests
         /\ Asked(v).since = v /\ Asked(v).stage = "asked"
         /\ \A n \in Names : Asked(v).rows[n] # Reference
BY EditorAssumption DEF Asked, ListRequests, Tables, Contents, Empty

LEMMA InitEditor == Init => EditorInv
<1> SUFFICES ASSUME Init PROVE EditorInv
  OBVIOUS
<1>1. /\ Asked(0) \in ListRequests
      /\ Asked(0).since = 0 /\ Asked(0).stage = "asked"
      /\ \A n \in Names : Asked(0).rows[n] # Reference
  BY AskedIsRequest
<1>2. Empty \in Tables /\ \A n \in Names : Empty[n] # Reference
  BY EditorAssumption DEF Empty, Tables, Contents
<1>3. /\ Opening.name \in Spellings /\ Opening.code \in Contents
      /\ Opening.code # Reference
  BY EditorAssumption DEF Contents
<1>4. TypeOK
  BY <1>1, <1>2, <1>3 DEF Init, TypeOK
<1>5. ReferenceStaysOut
  BY <1>2, <1>3 DEF Init, ReferenceStaysOut
<1>6. TableInv
  BY <1>1 DEF Init, TableInv, RowsAreClean, AnswersAreFresh, Covered
<1>7. OkParses /\ SuccessIsOfThisScript
  BY DEF Init, OkParses, SuccessIsOfThisScript
<1>8. QED
  BY <1>4, <1>5, <1>6, <1>7 DEF EditorInv

-----------------------------------------------------------------------------
(* What the actions that leave the table and the lists alone need.         *)

LEMMA ScreenKeeps ==
  ASSUME EditorInv, UNCHANGED <<server, catalog>>,
         name' \in Spellings, code' \in Contents, deeds' \in Nat,
         templates' \in BOOLEAN, blocked' \in BOOLEAN, compiling' \in BOOLEAN,
         other' \in BOOLEAN, verdict' \in {"none", "ok", "bad"},
         job' \subseteq Jobs, orphans' \subseteq Jobs,
         code' = Reference => blocked',
         \A j \in job' \cup orphans' : j.code # Reference,
         OkParses', SuccessIsOfThisScript'
  PROVE  EditorInv'
<1>1. UNCHANGED <<table, version, list, lists, shown, due, late>>
  BY DEF server, catalog
<1>2. TypeOK'
  BY <1>1 DEF EditorInv, TypeOK
<1>3. ReferenceStaysOut'
  BY <1>1 DEF EditorInv, ReferenceStaysOut
<1>4. TableInv'
  BY <1>1 DEF EditorInv, TableInv, RowsAreClean, AnswersAreFresh, Covered
<1>5. QED
  BY <1>2, <1>3, <1>4 DEF EditorInv

\* The types and guards the lemmas below share.
LEMMA EditorFacts ==
  ASSUME EditorInv
  PROVE  /\ name \in Spellings /\ code \in Contents /\ deeds \in Nat
         /\ templates \in BOOLEAN /\ blocked \in BOOLEAN /\ compiling \in BOOLEAN
         /\ late \in BOOLEAN /\ other \in BOOLEAN
         /\ verdict \in {"none", "ok", "bad"}
         /\ job \subseteq Jobs /\ orphans \subseteq Jobs
         /\ table \in Tables /\ list \in Tables /\ lists \subseteq ListRequests
         /\ version \in Nat /\ shown \in Nat /\ due \in Nat
         /\ code = Reference => blocked
         /\ \A j \in job \cup orphans : j.code # Reference
BY DEF EditorInv, TypeOK, ReferenceStaysOut

LEMMA DeedCounts ==
  ASSUME deeds \in Nat, Deed
  PROVE  deeds' \in Nat
BY DEF Deed

LEMMA LoadTemplatesKeeps ==
  ASSUME EditorInv, LoadTemplates
  PROVE  EditorInv'
<1>1. OkParses' /\ SuccessIsOfThisScript'
  BY DEF EditorInv, LoadTemplates, OkParses, SuccessIsOfThisScript, screen
<1>2. QED
  BY <1>1, EditorFacts, ScreenKeeps DEF LoadTemplates, screen

LEMMA SelectKeeps ==
  ASSUME EditorInv, NEW n \in Spellings, NEW c \in Contents, NEW r \in BOOLEAN,
         c = Reference => r, Select(n, c, r)
  PROVE  EditorInv'
<1>1. OkParses' /\ SuccessIsOfThisScript'
  BY DEF EditorInv, Select, OkParses, SuccessIsOfThisScript
<1>2. deeds' \in Nat
  BY EditorFacts DEF Select, Deed
<1>3. QED
  BY <1>1, <1>2, EditorFacts, ScreenKeeps DEF Select

LEMMA SelectionsKeep ==
  ASSUME EditorInv,
         \/ \E n \in Names : SelectStrategy(n)
         \/ \E t \in DOMAIN Templates : SelectTemplate(t)
         \/ NewStrategy
  PROVE  EditorInv'
<1>1. ASSUME NEW n \in Names, SelectStrategy(n)
      PROVE  EditorInv'
  <2>1. list[n] \in Contents /\ list[n] # Reference /\ n \in Spellings
    BY EditorAssumption DEF EditorInv, TypeOK, Tables, ReferenceStaysOut
  <2>2. QED
    BY <1>1, <2>1, SelectKeeps DEF SelectStrategy
<1>2. ASSUME NEW t \in DOMAIN Templates, SelectTemplate(t)
      PROVE  EditorInv'
  <2>1. PICK c : c = IF Templates[t] = "" THEN Reference ELSE Templates[t]
    OBVIOUS
  <2>2. PICK r : r = (Templates[t] = "")
    OBVIOUS
  <2>3. /\ c \in Contents /\ r \in BOOLEAN /\ t \in Spellings
        /\ c = Reference => r
    BY <2>1, <2>2, EditorAssumption DEF Contents
  <2>4. Select(t, c, r)
    BY <1>2, <2>1, <2>2 DEF SelectTemplate
  <2>5. QED
    BY <2>3, <2>4, SelectKeeps
<1>3. CASE NewStrategy
  <2>1. /\ Fresh.name \in Spellings /\ Fresh.code \in Contents
        /\ Fresh.code # Reference
    BY EditorAssumption DEF Contents
  <2>2. QED
    BY <1>3, <2>1, SelectKeeps DEF NewStrategy
<1>4. QED
  BY <1>1, <1>2, <1>3

LEMMA TypingKeeps ==
  ASSUME EditorInv,
         \/ \E s \in Spellings : TypeName(s)
         \/ \E c \in Codes \cup {""} : TypeCode(c)
  PROVE  EditorInv'
<1>1. deeds' \in Nat
  BY EditorFacts, DeedCounts DEF TypeName, TypeCode
<1>2. ASSUME NEW s \in Spellings, TypeName(s)
      PROVE  EditorInv'
  <2>1. OkParses' /\ SuccessIsOfThisScript'
    BY <1>2 DEF EditorInv, TypeName, OkParses, SuccessIsOfThisScript
  <2>2. QED
    BY <1>1, <1>2, <2>1, EditorFacts, ScreenKeeps DEF TypeName
<1>3. ASSUME NEW c \in Codes \cup {""}, TypeCode(c)
      PROVE  EditorInv'
  <2>1. OkParses' /\ SuccessIsOfThisScript'
    BY <1>3 DEF EditorInv, TypeCode, OkParses, SuccessIsOfThisScript
  <2>2. c \in Contents /\ c # Reference
    BY EditorAssumption DEF Contents
  <2>3. QED
    BY <1>1, <1>3, <2>1, <2>2, EditorFacts, ScreenKeeps DEF TypeCode
<1>4. QED
  BY <1>2, <1>3

\* A click on Validate or Save sends what is on screen, which is not blocked.
LEMMA SendingKeeps ==
  ASSUME EditorInv, Validate \/ Save
  PROVE  EditorInv'
<1>1. PICK k \in {"save", "validate"} :
        job' = {[kind |-> k, name |-> name, code |-> code, stage |-> "sent"]}
  BY DEF Validate, Save
<1>2. /\ UNCHANGED <<name, code, blocked, server, catalog, templates, verdict,
                     orphans, other>>
      /\ compiling' = TRUE /\ ~blocked
  BY DEF Validate, Save, screen
<1>3. deeds' \in Nat
  <2>1. Deed
    BY DEF Validate, Save
  <2>2. deeds \in Nat
    BY EditorFacts
  <2>3. QED
    BY <2>1, <2>2 DEF Deed
<1>4. job' \subseteq Jobs /\ \A j \in job' : j.code = code /\ j.stage = "sent"
  BY <1>1, EditorFacts DEF Jobs
<1>5. OkParses' /\ SuccessIsOfThisScript'
  BY <1>2, <1>4 DEF EditorInv, OkParses, SuccessIsOfThisScript
<1>6. QED
  BY <1>2, <1>3, <1>4, <1>5, EditorFacts, ScreenKeeps

\* The answer is one of the job it belongs to.
LEMMA FailKeeps ==
  ASSUME EditorInv, NEW j \in job, Fail(j)
  PROVE  EditorInv'
<1>1. /\ UNCHANGED <<name, code, blocked, server, catalog, templates, deeds>>
      /\ job' = {} /\ compiling' = FALSE /\ verdict' = "bad"
      /\ other' \in BOOLEAN
      /\ orphans' \subseteq orphans \cup job
  BY DEF Fail, screen
<1>2. OkParses' /\ SuccessIsOfThisScript'
  BY <1>1 DEF OkParses, SuccessIsOfThisScript
<1>3. QED
  BY <1>1, <1>2, EditorFacts, ScreenKeeps

-----------------------------------------------------------------------------
(* The table and the lists.                                                *)

\* A write puts a script that parses into the table.
LEMMA WriteKeeps ==
  ASSUME EditorInv, NEW j, Write(j), j.code \in Contents, j.code # Reference,
         UNCHANGED <<list, lists, shown, due, late>>
  PROVE  /\ table' \in Tables /\ version' \in Nat
         /\ \A n \in Names : table'[n] # Reference
         /\ TableInv'
<1>1. version' = version + 1 /\ table' = [table EXCEPT ![Trim[j.name]] = j.code]
  BY DEF Write
<1>2. table' \in Tables /\ \A n \in Names : table'[n] # Reference
  BY <1>1 DEF EditorInv, TypeOK, Tables, ReferenceStaysOut
<1>3. \A l \in lists : l.since \in Nat /\ l.version \in Nat
  BY EditorFacts DEF ListRequests
<1>4. TableInv'
  BY <1>1, <1>3, EditorFacts
     DEF EditorInv, TableInv, RowsAreClean, AnswersAreFresh, Covered
<1>5. QED
  BY <1>1, <1>2, <1>4, EditorFacts

\* What the actions that may write need.
LEMMA ServedKeeps ==
  ASSUME EditorInv,
         \/ UNCHANGED server
         \/ \E j : Write(j) /\ j.code \in Contents /\ j.code # Reference,
         UNCHANGED <<screen, catalog, templates, compiling, verdict, other, deeds>>,
         job' \subseteq Jobs, orphans' \subseteq Jobs,
         \A j \in job' \cup orphans' : j.code # Reference,
         OkParses'
  PROVE  EditorInv'
<1>1. UNCHANGED <<name, code, blocked, list, lists, shown, due, late>>
  BY DEF screen, catalog
<1>2. SuccessIsOfThisScript'
  BY <1>1 DEF EditorInv, SuccessIsOfThisScript
<1>3. CASE UNCHANGED server
  BY <1>1, <1>2, <1>3, EditorFacts, ScreenKeeps
<1>4. ASSUME NEW j, Write(j), j.code \in Contents, j.code # Reference
      PROVE  EditorInv'
  <2>1. /\ table' \in Tables /\ version' \in Nat
        /\ \A n \in Names : table'[n] # Reference
        /\ TableInv'
    BY <1>1, <1>4, WriteKeeps
  <2>2. TypeOK'
    BY <1>1, <2>1 DEF EditorInv, TypeOK
  <2>3. ReferenceStaysOut'
    BY <1>1, <2>1 DEF EditorInv, ReferenceStaysOut
  <2>4. QED
    BY <1>2, <2>1, <2>2, <2>3 DEF EditorInv
<1>5. QED
  BY <1>3, <1>4

LEMMA ServeKeeps ==
  ASSUME EditorInv, NEW j \in job, Serve(j)
  PROVE  EditorInv'
<1>1. j \in Jobs /\ j.code \in Contents /\ j.code # Reference
  BY EditorFacts DEF Jobs
<1>2. PICK s \in {"ok", "bad"} :
        /\ job' = {[j EXCEPT !.stage = s]}
        /\ s = "ok" => j.code \notin Broken
  BY DEF Serve, Write
<1>3. /\ job' \subseteq Jobs
      /\ \A i \in job' : i.code = j.code /\ i.stage = s
  BY <1>1, <1>2 DEF Jobs
<1>4. OkParses'
  BY <1>2, <1>3 DEF OkParses
<1>5. UNCHANGED server \/ Write(j)
  BY DEF Serve
<1>6. QED
  BY <1>1, <1>3, <1>4, <1>5, EditorFacts, ServedKeeps DEF Serve

LEMMA ServeOrphanKeeps ==
  ASSUME EditorInv, NEW j \in orphans, ServeOrphan(j)
  PROVE  EditorInv'
<1>1. j.code \in Contents /\ j.code # Reference
  BY EditorFacts DEF Jobs
<1>2. orphans' \subseteq orphans /\ job' = job
  BY DEF ServeOrphan
<1>3. OkParses'
  BY <1>2 DEF EditorInv, OkParses
<1>4. QED
  BY <1>1, <1>2, <1>3, EditorFacts, ServedKeeps DEF ServeOrphan

LEMMA OtherSaveKeeps ==
  ASSUME EditorInv, NEW n \in Names, NEW c \in Codes, OtherSave(n, c)
  PROVE  EditorInv'
<1>1. PICK j : j = [name |-> n, code |-> c]
  OBVIOUS
<1>2. Write(j) /\ j.code \in Contents /\ j.code # Reference
  BY <1>1, EditorAssumption DEF OtherSave, Contents
<1>3. OkParses'
  BY DEF EditorInv, OkParses, OtherSave
<1>4. QED
  BY <1>2, <1>3, EditorFacts, ServedKeeps DEF OtherSave

\* What the actions on the lists need.
LEMMA ListsKeep ==
  ASSUME EditorInv, UNCHANGED <<screen, server, templates, orphans, deeds>>,
         list' \in Tables, \A n \in Names : list'[n] # Reference,
         lists' \subseteq ListRequests, shown' \in Nat, due' \in Nat,
         late' \in BOOLEAN, TableInv',
         job' \subseteq job, compiling' \in BOOLEAN, other' \in BOOLEAN,
         verdict' \in {"none", "ok", "bad"}, SuccessIsOfThisScript'
  PROVE  EditorInv'
<1>1. UNCHANGED <<name, code, blocked, table, version>>
  BY DEF screen, server
<1>2. TypeOK'
  BY <1>1 DEF EditorInv, TypeOK
<1>3. ReferenceStaysOut'
  BY <1>1 DEF EditorInv, ReferenceStaysOut
<1>4. OkParses'
  BY DEF EditorInv, OkParses
<1>5. QED
  BY <1>2, <1>3, <1>4 DEF EditorInv

LEMMA HearKeeps ==
  ASSUME EditorInv, NEW j \in job, Hear(j)
  PROVE  EditorInv'
<1>1. j \in Jobs /\ j.stage \in {"ok", "bad"}
  BY EditorFacts DEF Hear, Jobs
<1>2. SuccessIsOfThisScript'
  BY DEF EditorInv, Hear, SuccessIsOfThisScript, OkParses, ReferenceStaysOut,
      screen
<1>3. /\ Asked(version) \in ListRequests
      /\ Asked(version).since = version /\ Asked(version).stage = "asked"
      /\ \A n \in Names : Asked(version).rows[n] # Reference
  BY EditorFacts, AskedIsRequest
<1>4. /\ \/ lists' = lists \cup {Asked(version)} /\ due' = version
         \/ lists' = lists /\ due' = due
      /\ UNCHANGED <<version, shown, late>>
  BY DEF Hear, server
<1>5. TableInv'
  BY <1>3, <1>4, EditorFacts
     DEF EditorInv, TableInv, RowsAreClean, AnswersAreFresh, Covered
<1>6. /\ list' = list /\ \A n \in Names : list'[n] # Reference
      /\ lists' \subseteq ListRequests /\ due' \in Nat
      /\ job' \subseteq job /\ compiling' \in BOOLEAN /\ other' \in BOOLEAN
  BY <1>3, <1>4, EditorFacts DEF Hear, EditorInv, ReferenceStaysOut
<1>7. QED
  BY <1>1, <1>2, <1>4, <1>5, <1>6, EditorFacts, ListsKeep DEF Hear

LEMMA AnswerListKeeps ==
  ASSUME EditorInv, NEW l \in lists, AnswerList(l)
  PROVE  EditorInv'
<1>1. PICK a : a = [l EXCEPT !.stage = "answered", !.rows = table,
                             !.version = version]
  OBVIOUS
<1>2. /\ a \in ListRequests /\ a.since = l.since /\ a.rows = table
      /\ a.version = version /\ l.since <= version
  BY <1>1, EditorFacts
     DEF ListRequests, EditorInv, TableInv, AnswersAreFresh
<1>3. lists' = (lists \ {l}) \cup {a}
  BY <1>1 DEF AnswerList
<1>4. UNCHANGED <<version, list, shown, due, late, job, compiling, other, verdict>>
  BY DEF AnswerList, server
<1>5. \A n \in Names : table[n] # Reference /\ list[n] # Reference
  BY DEF EditorInv, ReferenceStaysOut
<1>6. TableInv'
  BY <1>2, <1>3, <1>4, <1>5
     DEF EditorInv, TableInv, RowsAreClean, AnswersAreFresh, Covered
<1>7. SuccessIsOfThisScript'
  BY <1>4 DEF AnswerList, screen, EditorInv, SuccessIsOfThisScript
<1>8. QED
  BY <1>2, <1>3, <1>4, <1>5, <1>6, <1>7, EditorFacts, ListsKeep DEF AnswerList

LEMMA ShowListKeeps ==
  ASSUME EditorInv, NEW l \in lists, ShowList(l)
  PROVE  EditorInv'
<1>1. /\ l \in ListRequests /\ l.rows \in Tables /\ l.version \in Nat
      /\ l.since \in Nat /\ l.since <= l.version
      /\ \A n \in Names : l.rows[n] # Reference
  BY EditorFacts
     DEF ListRequests, EditorInv, TableInv, RowsAreClean, AnswersAreFresh, ShowList
<1>2. /\ lists' = lists \ {l} /\ list' = l.rows /\ shown' = l.version
      /\ late' = (late \/ l.version < shown)
      /\ UNCHANGED <<version, due, job, compiling, other, verdict>>
  BY DEF ShowList, server
<1>3. Covered'
  <2>1. CASE late \/ l.version < shown
    BY <1>2, <2>1 DEF Covered
  <2>2. CASE ~late /\ l.version >= shown
    BY <1>1, <1>2, <2>2, EditorFacts DEF EditorInv, TableInv, Covered
  <2>3. QED
    BY <1>1, <2>1, <2>2, EditorFacts
<1>4. TableInv'
  BY <1>2, <1>3 DEF EditorInv, TableInv, RowsAreClean, AnswersAreFresh
<1>5. SuccessIsOfThisScript'
  BY <1>2 DEF ShowList, screen, EditorInv, SuccessIsOfThisScript
<1>6. late' \in BOOLEAN
  BY <1>2
<1>7. QED
  BY <1>1, <1>2, <1>4, <1>5, <1>6, EditorFacts, ListsKeep DEF ShowList

LEMMA LoseListKeeps ==
  ASSUME EditorInv, NEW l \in lists, LoseList(l)
  PROVE  EditorInv'
<1>1. /\ lists' \subseteq lists /\ late' = TRUE
      /\ UNCHANGED <<version, list, shown, due, job, compiling, other, verdict>>
  BY DEF LoseList, server
<1>2. TableInv'
  BY <1>1 DEF EditorInv, TableInv, RowsAreClean, AnswersAreFresh, Covered
<1>3. SuccessIsOfThisScript'
  BY <1>1 DEF LoseList, screen, EditorInv, SuccessIsOfThisScript
<1>4. \A n \in Names : list'[n] # Reference
  BY <1>1 DEF EditorInv, ReferenceStaysOut
<1>5. QED
  BY <1>1, <1>2, <1>3, <1>4, EditorFacts, ListsKeep DEF LoseList

\* An editor that is opened again starts like the first one.
LEMMA ReopenKeeps ==
  ASSUME EditorInv, Reopen
  PROVE  EditorInv'
<1>1. /\ Asked(0) \in ListRequests
      /\ Asked(0).since = 0 /\ Asked(0).stage = "asked"
      /\ \A n \in Names : Asked(0).rows[n] # Reference
  BY AskedIsRequest
<1>2. Empty \in Tables /\ \A n \in Names : Empty[n] # Reference
  BY EditorAssumption DEF Empty, Tables, Contents
<1>3. /\ Opening.name \in Spellings /\ Opening.code \in Contents
      /\ Opening.code # Reference
  BY EditorAssumption DEF Contents
<1>4. /\ UNCHANGED <<table, version>>
      /\ list' = Empty /\ shown' = 0 /\ due' = 0 /\ late' = FALSE
      /\ lists' = {Asked(0)} /\ templates' = FALSE
      /\ name' = Opening.name /\ code' = Opening.code /\ blocked' = FALSE
      /\ compiling' = FALSE /\ verdict' = "none" /\ other' = FALSE
      /\ job' = {} /\ orphans' \subseteq orphans \cup job
  BY DEF Reopen, server
<1>5. deeds' \in Nat
  BY EditorFacts DEF Reopen, Deed
<1>6. TypeOK'
  BY <1>1, <1>2, <1>3, <1>4, <1>5, EditorFacts DEF TypeOK
<1>7. ReferenceStaysOut'
  BY <1>2, <1>3, <1>4 DEF EditorInv, ReferenceStaysOut
<1>8. TableInv'
  BY <1>1, <1>4, EditorFacts DEF TableInv, RowsAreClean, AnswersAreFresh, Covered
<1>9. OkParses' /\ SuccessIsOfThisScript'
  BY <1>4 DEF OkParses, SuccessIsOfThisScript
<1>10. QED
  BY <1>6, <1>7, <1>8, <1>9 DEF EditorInv

-----------------------------------------------------------------------------

LEMMA NextEditor ==
  ASSUME EditorInv, [Next]_vars
  PROVE  EditorInv'
<1>1. CASE Operate
  BY <1>1, SelectionsKeep, TypingKeeps, SendingKeeps, ReopenKeeps DEF Operate
<1>2. CASE Answer
  BY <1>2, ServeKeeps, HearKeeps, FailKeeps DEF Answer
<1>3. CASE \E l \in lists : AnswerList(l) \/ ShowList(l) \/ LoseList(l)
  BY <1>3, AnswerListKeeps, ShowListKeeps, LoseListKeeps
<1>4. CASE LoadTemplates \/ \E j \in orphans : ServeOrphan(j)
  BY <1>4, LoadTemplatesKeeps, ServeOrphanKeeps
<1>5. CASE \E n \in Names, c \in Codes : OtherSave(n, c)
  BY <1>5, OtherSaveKeeps
<1>6. CASE UNCHANGED vars
  <2>1. /\ UNCHANGED <<name, code, blocked, server, catalog, deeds>>
        /\ UNCHANGED <<templates, compiling, verdict, job, orphans, other>>
    BY <1>6 DEF vars, screen
  <2>2. OkParses' /\ SuccessIsOfThisScript'
    BY <2>1 DEF EditorInv, OkParses, SuccessIsOfThisScript
  <2>3. QED
    BY <2>1, <2>2, EditorFacts, ScreenKeeps
<1>7. QED
  BY <1>1, <1>2, <1>3, <1>4, <1>5, <1>6 DEF Next

THEOREM EditorInvariant == Spec => []EditorInv
BY InitEditor, NextEditor, PTL DEF Spec

\* Every variable keeps its type, whatever is typed, selected and saved.
THEOREM EditorTypes == Spec => []TypeOK
<1>1. EditorInv => TypeOK
  BY DEF EditorInv
<1>2. QED
  BY <1>1, EditorInvariant, PTL

\* The lines shown for a reference profile are neither sent nor stored, and
\* never come back in a list.
THEOREM ReferencesStayOut == Spec => []ReferenceStaysOut
<1>1. EditorInv => ReferenceStaysOut
  BY DEF EditorInv
<1>2. QED
  BY <1>1, EditorInvariant, PTL

\* A success that is shown is one of the script on screen, but for the changes
\* named.
THEOREM SuccessesAreTrue == Spec => []SuccessIsOfThisScript
<1>1. EditorInv => SuccessIsOfThisScript
  BY DEF EditorInv
<1>2. QED
  BY <1>1, EditorInvariant, PTL

\* Once every request for it was answered in order, the list shows the saves
\* that were reported as stored.
THEOREM ListIsUpToDate == Spec => []ListKeepsUp
<1>1. EditorInv => ListKeepsUp
  BY DEF EditorInv, TableInv, Covered, ListKeepsUp
<1>2. QED
  BY <1>1, EditorInvariant, PTL

=============================================================================
