--------------------------- MODULE StrategyEditor ---------------------------
(***************************************************************************)
(* The Pine editor (StrategyWorkspace.jsx) in front of the table           *)
(* pine_strategies, which is written by name and carries no version.       *)
(*                                                                         *)
(* A save or a validation sends what is on screen at the click. Its        *)
(* buttons are disabled until it ends, but the catalog, the name and the   *)
(* code are not, so the answer may find another script in the editor. A    *)
(* save that succeeds asks for the list again, and that request may cross  *)
(* the one of the mount. Log lines are reduced to the last outcome among   *)
(* them; the catalog's tabs and the toasts are left out.                   *)
(*                                                                         *)
(* The last five variables are no part of the program: how often the table *)
(* was written, which of its states the list shows and which it should     *)
(* show, whether an answer was lost or came late, whether the last outcome *)
(* is one of other code, and how much the operator has done.               *)
(***************************************************************************)
EXTENDS Integers, FiniteSets

CONSTANTS
  Spellings,  \* what the name input may hold
  Trim,       \* strings.TrimSpace of each, "" for a blank one
  Codes,      \* scripts that are not blank
  Broken,     \* those the parser rejects
  Templates,  \* name |-> code of each template, "" for a reference profile
  Reference,  \* the comment lines the editor shows for a reference profile
  Opening,    \* name and code of an editor just mounted
  Fresh,      \* name and code the button New puts there
  MaxWrites,  \* bound on writes of the table
  MaxDeeds    \* bound on what the operator does

Names == {Trim[s] : s \in Spellings} \ {""}

Contents == Codes \cup {Reference, ""}

ASSUME EditorAssumption ==
  /\ Trim \in [Spellings -> STRING]
  /\ Names \subseteq Spellings /\ \A n \in Names : Trim[n] = n
  /\ Broken \subseteq Codes
  /\ "" \notin Codes /\ Reference \notin Codes \cup {""}
  /\ Templates \in [DOMAIN Templates -> Codes \cup {""}]
  /\ DOMAIN Templates \subseteq Spellings
  /\ Opening \in [name : Spellings, code : Codes]
  /\ Fresh \in [name : Spellings, code : Codes]
  /\ MaxWrites \in Nat /\ MaxDeeds \in Nat

VARIABLES
  table,      \* pine_strategies: name |-> code, "" where there is no row
  list,       \* strategiesList
  templates,  \* whether templatesList was filled
  name,       \* strategyName
  code,       \* pineCode
  blocked,    \* templateSaveBlocked
  compiling,  \* isCompiling
  verdict,    \* the last outcome logged since a selection
  job,        \* the save or validation under way, empty or one record
  orphans,    \* saves on their way that no editor waits for
  lists,      \* requests for the list under way
  version, shown, due, late, other, deeds

screen == <<name, code, blocked>>
server == <<table, version>>
catalog == <<list, lists, shown, due, late>>
vars == <<screen, server, catalog, templates, compiling, verdict, job, orphans,
          other, deeds>>

-----------------------------------------------------------------------------

Empty == [n \in Names |-> ""]

\* A request for the list, asked for when the save of a version was stored.
Asked(v) == [stage |-> "asked", since |-> v, rows |-> Empty, version |-> 0]

\* A mounted editor has asked for both lists.
Init ==
  /\ table = Empty /\ version = 0
  /\ list = Empty /\ shown = 0 /\ due = 0 /\ late = FALSE
  /\ lists = {Asked(0)}
  /\ templates = FALSE
  /\ name = Opening.name /\ code = Opening.code /\ blocked = FALSE
  /\ compiling = FALSE /\ verdict = "none" /\ other = FALSE
  /\ job = {} /\ orphans = {}
  /\ deeds = 0

Deed == deeds < MaxDeeds /\ deeds' = deeds + 1

-----------------------------------------------------------------------------
(* fetchStrategies and fetchTemplates.                                     *)

\* ListHandler reads the table; the answer is on its way. Its limit of 100 rows
\* is left out: the table is taken to be no longer than that.
AnswerList(l) ==
  /\ l.stage = "asked"
  /\ lists' = (lists \ {l}) \cup
       {[l EXCEPT !.stage = "answered", !.rows = table, !.version = version]}
  /\ UNCHANGED <<screen, server, list, shown, due, late, templates, compiling,
                 verdict, job, orphans, other, deeds>>

\* An answer replaces the list, even one that was read before the answer the
\* list shows.
ShowList(l) ==
  /\ l.stage = "answered"
  /\ lists' = lists \ {l}
  /\ list' = l.rows
  /\ shown' = l.version
  /\ late' = (late \/ l.version < shown)
  /\ UNCHANGED <<screen, server, due, templates, compiling, verdict, job,
                 orphans, other, deeds>>

LoseList(l) ==
  /\ lists' = lists \ {l}
  /\ late' = TRUE
  /\ UNCHANGED <<screen, server, list, shown, due, templates, compiling,
                 verdict, job, orphans, other, deeds>>

LoadTemplates ==
  /\ ~templates
  /\ templates' = TRUE
  /\ UNCHANGED <<screen, server, catalog, compiling, verdict, job, orphans,
                 other, deeds>>

-----------------------------------------------------------------------------
(* The editor.                                                             *)

\* Faulty variant: the lines of the script left behind stay.
SelectKeepsLog(n, c, reference) ==
  /\ Deed
  /\ name' = n /\ code' = c /\ blocked' = reference
  /\ other' = FALSE
  /\ UNCHANGED <<server, catalog, templates, compiling, verdict, job, orphans>>

\* What the three handlers below share: the log starts anew.
Select(n, c, reference) ==
  /\ Deed
  /\ name' = n /\ code' = c /\ blocked' = reference
  /\ verdict' = "none" /\ other' = FALSE
  /\ UNCHANGED <<server, catalog, templates, compiling, job, orphans>>

\* handleSelectStrategy: the code the list holds, not the table's.
SelectStrategy(n) ==
  /\ list[n] # ""
  /\ Select(n, list[n], FALSE)

\* Faulty variant: the block is taken from the code on screen.
SelectTemplateStale(t) ==
  /\ templates
  /\ Select(t, IF Templates[t] = "" THEN Reference ELSE Templates[t], code = "")

\* handleSelectTemplate.
SelectTemplate(t) ==
  /\ templates
  /\ Select(t, IF Templates[t] = "" THEN Reference ELSE Templates[t],
            Templates[t] = "")

\* handleNewStrategy.
NewStrategy == Select(Fresh.name, Fresh.code, FALSE)

TypeName(s) ==
  /\ Deed
  /\ name' = s
  /\ UNCHANGED <<code, blocked, server, catalog, templates, compiling, verdict,
                 job, orphans, other>>

TypeCode(c) ==
  /\ Deed
  /\ code' = c
  /\ other' = TRUE
  /\ UNCHANGED <<name, blocked, server, catalog, templates, compiling, verdict,
                 job, orphans>>

\* handleValidate; the button is disabled while compiling or blocked.
Validate ==
  /\ ~compiling /\ ~blocked
  /\ Deed
  /\ compiling' = TRUE
  /\ job' = {[kind |-> "validate", name |-> name, code |-> code,
              stage |-> "sent"]}
  /\ UNCHANGED <<screen, server, catalog, templates, verdict, orphans, other>>

\* handleSave: a blank name or blank code ends in a toast.
Save ==
  /\ ~compiling /\ ~blocked
  /\ Trim[name] # "" /\ code # ""
  /\ Deed
  /\ compiling' = TRUE
  /\ job' = {[kind |-> "save", name |-> name, code |-> code, stage |-> "sent"]}
  /\ UNCHANGED <<screen, server, catalog, templates, verdict, orphans, other>>

\* The workspace is left and opened again. A save goes on without it.
Reopen ==
  /\ Deed
  /\ orphans' = orphans \cup {j \in job : j.kind = "save" /\ j.stage = "sent"}
  /\ list' = Empty /\ shown' = 0 /\ due' = 0 /\ late' = FALSE
  /\ lists' = {Asked(0)}
  /\ templates' = FALSE
  /\ name' = Opening.name /\ code' = Opening.code /\ blocked' = FALSE
  /\ compiling' = FALSE /\ verdict' = "none" /\ other' = FALSE
  /\ job' = {}
  /\ UNCHANGED server

-----------------------------------------------------------------------------
(* SaveHandler, ValidateHandler and the answers.                           *)

\* The row of the trimmed name is inserted or replaced.
Write(j) ==
  /\ version < MaxWrites
  /\ j.code \notin Broken
  /\ table' = [table EXCEPT ![Trim[j.name]] = j.code]
  /\ version' = version + 1

\* The server has parsed a validation, or stored or refused a save; the upsert
\* may fail.
Serve(j) ==
  /\ j.stage = "sent"
  /\ \/ /\ j.kind = "save"
        /\ Write(j)
        /\ job' = {[j EXCEPT !.stage = "ok"]}
     \/ /\ j.kind = "save"
        /\ job' = {[j EXCEPT !.stage = "bad"]}
        /\ UNCHANGED server
     \/ /\ j.kind = "validate"
        /\ job' = {[j EXCEPT !.stage = IF j.code \in Broken THEN "bad" ELSE "ok"]}
        /\ UNCHANGED server
  /\ UNCHANGED <<screen, catalog, templates, compiling, verdict, orphans, other,
                 deeds>>

\* Faulty variant: a refused save returns before the flag is cleared.
HearNoFinally(j) ==
  /\ j.stage # "sent"
  /\ job' = {}
  /\ compiling' = (j.kind = "save" /\ j.stage = "bad")
  /\ verdict' = j.stage /\ other' = (code # j.code)
  /\ UNCHANGED <<screen, server, catalog, templates, orphans, deeds>>

\* Faulty variant: the list is left as it is.
HearNoRefetch(j) ==
  /\ j.stage # "sent"
  /\ job' = {}
  /\ compiling' = FALSE
  /\ verdict' = j.stage /\ other' = (code # j.code)
  /\ due' = IF j.kind = "save" /\ j.stage = "ok" THEN version ELSE due
  /\ UNCHANGED <<screen, server, list, lists, shown, late, templates, orphans,
                 deeds>>

\* The answer is logged, wherever the editor is by now; a stored save asks for
\* the list. finally clears the flag.
Hear(j) ==
  /\ j.stage # "sent"
  /\ job' = {}
  /\ compiling' = FALSE
  /\ verdict' = j.stage /\ other' = (code # j.code)
  /\ IF j.kind = "save" /\ j.stage = "ok"
     THEN lists' = lists \cup {Asked(version)} /\ due' = version
     ELSE UNCHANGED <<lists, due>>
  /\ UNCHANGED <<screen, server, list, shown, late, templates, orphans, deeds>>

\* The fetch fails: before the server saw the request, later, or while it is
\* still on its way.
Fail(j) ==
  /\ job' = {}
  /\ compiling' = FALSE
  /\ verdict' = "bad" /\ other' = (code # j.code)
  /\ orphans' = orphans \cup
       {i \in job : i.kind = "save" /\ i.stage = "sent"}
  /\ UNCHANGED <<screen, server, catalog, templates, deeds>>

\* A save nobody waits for is stored after all, or is not.
ServeOrphan(j) ==
  /\ orphans' = orphans \ {j}
  /\ Write(j) \/ UNCHANGED server
  /\ UNCHANGED <<screen, catalog, templates, compiling, verdict, job, other,
                 deeds>>

\* Another console stores a script that parses.
OtherSave(n, c) ==
  /\ Write([name |-> n, code |-> c])
  /\ UNCHANGED <<screen, catalog, templates, compiling, verdict, job, orphans,
                 other, deeds>>

Operate ==
  \/ \E n \in Names : SelectStrategy(n)
  \/ \E t \in DOMAIN Templates : SelectTemplate(t)
  \/ NewStrategy
  \/ \E s \in Spellings : TypeName(s)
  \/ \E c \in Codes \cup {""} : TypeCode(c)
  \/ Validate \/ Save \/ Reopen

Answer == \E j \in job : Serve(j) \/ Hear(j) \/ Fail(j)

Next ==
  \/ Operate
  \/ Answer
  \/ \E l \in lists : AnswerList(l) \/ ShowList(l) \/ LoseList(l)
  \/ LoadTemplates
  \/ \E j \in orphans : ServeOrphan(j)
  \/ \E n \in Names, c \in Codes : OtherSave(n, c)

Spec == Init /\ [][Next]_vars

\* A request is served, and its answer or its failure is heard.
FairSpec == Spec /\ WF_vars(Answer)

-----------------------------------------------------------------------------
(* Properties.                                                             *)

Jobs == [kind : {"save", "validate"}, name : Spellings, code : Contents,
         stage : {"sent", "ok", "bad"}]

Tables == [Names -> Contents]

ListRequests == [stage : {"asked", "answered"}, since : Nat, rows : Tables,
                 version : Nat]

\* Every variable stays in its type.
TypeOK ==
  /\ table \in Tables /\ list \in Tables
  /\ lists \subseteq ListRequests
  /\ name \in Spellings /\ code \in Contents
  /\ templates \in BOOLEAN /\ blocked \in BOOLEAN /\ compiling \in BOOLEAN
  /\ late \in BOOLEAN /\ other \in BOOLEAN
  /\ verdict \in {"none", "ok", "bad"}
  /\ job \subseteq Jobs /\ orphans \subseteq Jobs
  /\ version \in Nat /\ shown \in Nat /\ due \in Nat /\ deeds \in Nat

\* The lines shown for a template without code never reach the table, and while
\* they are on screen both buttons are disabled, whatever was under way when the
\* template was selected.
ReferenceStaysOut ==
  /\ code = Reference => blocked
  /\ \A j \in job \cup orphans : j.code # Reference
  /\ \A n \in Names : table[n] # Reference /\ list[n] # Reference

\* A success in the diagnostics is one of the script on screen, which the parser
\* takes and which is no reference profile, unless it was typed since, or was
\* another one when the answer came.
SuccessIsOfThisScript ==
  verdict = "ok" /\ ~other => code \notin Broken \cup {Reference}

\* Once no request for the list is under way, it shows what the saves reported
\* as stored wrote, unless an answer was lost or overtaken.
ListKeepsUp == lists = {} => shown >= due \/ late

\* The buttons come back after every save and every validation.
CompilingEnds == compiling ~> ~compiling

=============================================================================
