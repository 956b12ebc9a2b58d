------------------------------ MODULE RiskForm ------------------------------
(***************************************************************************)
(* The risk limits editor (RiskWorkspace.jsx) in front of the one row of   *)
(* risk_settings that the API reads and replaces.                          *)
(*                                                                         *)
(* A console's form starts from literals of its own, is overwritten by the *)
(* answer of the one GET sent when it is mounted, and is saved whole by a  *)
(* PUT that carries no version. Several consoles edit the one row, and a   *)
(* workspace that is left and opened again forgets its form, but not the   *)
(* request it has under way.                                               *)
(*                                                                         *)
(* Fields are the numeric inputs. The list of allowed symbols is left out: *)
(* it is trimmed, upper-cased and emptied of blanks when it is sent, so    *)
(* that any save rewrites a stored list that is not of that form, as a     *)
(* list put there through the API may be.                                  *)
(*                                                                         *)
(* touched, base and version are no part of the program: they record what  *)
(* the operator typed and which state of the row a form was filled from.   *)
(***************************************************************************)
EXTENDS Integers, FiniteSets

CONSTANTS
  Consoles,   \* browsers that show the editor
  Fields,     \* the numeric inputs, "min" and "max" signal strength among them
  Values,     \* numbers an operator types
  Blank,      \* an emptied input
  Defaults,   \* what useState puts into the inputs
  Stored,     \* the row as the consoles find it
  MaxSaves,   \* bound on the saves the row takes
  MaxOpens,   \* bound on how often editors are opened again
  MaxEdits    \* bound on the inputs changed by hand

Valid(s) ==
  /\ \A f \in Fields : s[f] >= 0
  /\ s["max"] > 0 => s["min"] <= s["max"]

Rows == [Fields -> Int]

Forms == [Fields -> Int \cup {Blank}]

ASSUME FormAssumption ==
  /\ {"min", "max"} \subseteq Fields
  /\ Values \subseteq Int
  /\ Blank \notin Int
  /\ Defaults \in Rows
  /\ Stored \in Rows /\ Valid(Stored)
  /\ MaxSaves \in Nat /\ MaxOpens \in Nat /\ MaxEdits \in Nat

VARIABLES
  settings,  \* the row risk_settings id = 1
  version,   \* how often it was written
  form,      \* the inputs of each console's editor
  get,       \* the editor's fetchSettings
  put,       \* saves under way; live when the editor that sent it is open
  saving,    \* isSaving
  touched,   \* inputs changed by hand since the form was filled
  base,      \* the version the form was filled from, -1 for the literals
  opens,     \* editors opened again so far
  edits      \* inputs changed by hand so far

vars == <<settings, version, form, get, put, saving, touched, base, opens,
          edits>>

Asked == [stage |-> "asked", row |-> Stored, version |-> 0]

Init ==
  /\ settings = Stored
  /\ version = 0
  /\ form = [c \in Consoles |-> Defaults]
  /\ get = [c \in Consoles |-> Asked]
  /\ put = [c \in Consoles |-> {}]
  /\ saving = [c \in Consoles |-> FALSE]
  /\ touched = [c \in Consoles |-> {}]
  /\ base = [c \in Consoles |-> -1]
  /\ opens = 0
  /\ edits = 0

-----------------------------------------------------------------------------
(* fetchSettings.                                                          *)

\* riskSettingsHandler reads the row; the answer is on its way.
AnswerGet(c) ==
  /\ get[c].stage = "asked"
  /\ get' = [get EXCEPT ![c] =
               [stage |-> "answered", row |-> settings, version |-> version]]
  /\ UNCHANGED <<settings, version, form, put, saving, touched, base, opens,
                 edits>>

\* Faulty variant: one input is not set from the answer.
FillForgettingMin(c) ==
  /\ get[c].stage = "answered"
  /\ form' = [form EXCEPT ![c] = [get[c].row EXCEPT !["min"] = form[c]["min"]]]
  /\ touched' = [touched EXCEPT ![c] = {}]
  /\ base' = [base EXCEPT ![c] = get[c].version]
  /\ get' = [get EXCEPT ![c] = [Asked EXCEPT !.stage = "over"]]
  /\ UNCHANGED <<settings, version, put, saving, opens, edits>>

\* Every input is set from the answer, whatever was typed meanwhile.
Fill(c) ==
  /\ get[c].stage = "answered"
  /\ form' = [form EXCEPT ![c] = get[c].row]
  /\ touched' = [touched EXCEPT ![c] = {}]
  /\ base' = [base EXCEPT ![c] = get[c].version]
  /\ get' = [get EXCEPT ![c] = [Asked EXCEPT !.stage = "over"]]
  /\ UNCHANGED <<settings, version, put, saving, opens, edits>>

\* An error answer or a failed fetch is logged and the literals stay.
GetFails(c) ==
  /\ get[c].stage # "over"
  /\ get' = [get EXCEPT ![c] = [Asked EXCEPT !.stage = "over"]]
  /\ UNCHANGED <<settings, version, form, put, saving, touched, base, opens,
                 edits>>

-----------------------------------------------------------------------------
(* The inputs, and leaving the workspace.                                  *)

Type(c, f, v) ==
  /\ edits < MaxEdits
  /\ edits' = edits + 1
  /\ form' = [form EXCEPT ![c][f] = v]
  /\ touched' = [touched EXCEPT ![c] = @ \cup {f}]
  /\ UNCHANGED <<settings, version, get, put, saving, base, opens>>

\* The workspace is left and opened again: a new editor, with a GET of its own.
\* A save the old one sent goes on, and its answer finds nobody.
Reopen(c) ==
  /\ opens < MaxOpens
  /\ opens' = opens + 1
  /\ form' = [form EXCEPT ![c] = Defaults]
  /\ get' = [get EXCEPT ![c] = Asked]
  /\ put' = [put EXCEPT ![c] = {[p EXCEPT !.live = FALSE] : p \in @}]
  /\ saving' = [saving EXCEPT ![c] = FALSE]
  /\ touched' = [touched EXCEPT ![c] = {}]
  /\ base' = [base EXCEPT ![c] = -1]
  /\ UNCHANGED <<settings, version, edits>>

-----------------------------------------------------------------------------
(* handleSaveSettings.                                                     *)

\* Number('') is 0, which the evaluator takes for "no limit"; a number is sent
\* as it is.
Number(v) == IF v = Blank THEN 0 ELSE v

Payload(c) == [f \in Fields |-> Number(form[c][f])]

\* Faulty variant: inputs nobody touched are sent as the literals.
SaveTouched(c) ==
  /\ ~saving[c]
  /\ saving' = [saving EXCEPT ![c] = TRUE]
  /\ put' = [put EXCEPT ![c] = @ \cup
       {[row |-> [f \in Fields |-> IF f \in touched[c] THEN Payload(c)[f]
                                                       ELSE Defaults[f]],
         touched |-> touched[c], base |-> base[c], live |-> TRUE]}]
  /\ UNCHANGED <<settings, version, form, get, touched, base, opens,
                 edits>>

\* The button is disabled while a save is under way, the inputs are not.
Save(c) ==
  /\ ~saving[c]
  /\ saving' = [saving EXCEPT ![c] = TRUE]
  /\ put' = [put EXCEPT ![c] = @ \cup
       {[row |-> Payload(c), touched |-> touched[c], base |-> base[c],
         live |-> TRUE]}]
  /\ UNCHANGED <<settings, version, form, get, touched, base, opens,
                 edits>>

\* updateRiskSettingsHandler takes the save: the row is replaced. A form that
\* was filled from the row as it was is as good as filled from the new one.
Accept(c, p) ==
  /\ version < MaxSaves
  /\ Valid(p.row)
  /\ settings' = p.row
  /\ version' = version + 1
  /\ put' = [put EXCEPT ![c] = @ \ {p}]
  /\ base' = [base EXCEPT ![c] =
                IF p.live /\ p.base = version /\ base[c] = version
                THEN version + 1 ELSE @]
  /\ UNCHANGED <<form, get, saving, touched, opens, edits>>

\* Validate refuses it, the upsert fails, or the request never arrives.
Refuse(c, p) ==
  /\ put' = [put EXCEPT ![c] = @ \ {p}]
  /\ UNCHANGED <<settings, version, form, get, saving, touched, base, opens,
                 edits>>

\* The answer, or the failure of the fetch, reaches the editor: a toast.
AnswerSave(c) ==
  /\ saving[c] /\ ~\E p \in put[c] : p.live
  /\ saving' = [saving EXCEPT ![c] = FALSE]
  /\ UNCHANGED <<settings, version, form, get, put, touched, base, opens,
                 edits>>

Operate(c) ==
  \/ \E f \in Fields, v \in Values \cup {Blank} : Type(c, f, v)
  \/ Save(c)
  \/ Reopen(c)

Network(c) ==
  \/ AnswerGet(c) \/ Fill(c) \/ GetFails(c)
  \/ \E p \in put[c] : Accept(c, p) \/ Refuse(c, p)
  \/ AnswerSave(c)

Next == \E c \in Consoles : Operate(c) \/ Network(c)

Spec == Init /\ [][Next]_vars

-----------------------------------------------------------------------------
(* Properties.                                                             *)

Puts == [row : Rows, touched : SUBSET Fields, base : Int, live : BOOLEAN]

\* Every variable stays in its type.
TypeOK ==
  /\ settings \in Rows
  /\ version \in Nat
  /\ form \in [Consoles -> Forms]
  /\ get \in [Consoles -> [stage : {"asked", "answered", "over"}, row : Rows,
                           version : Nat]]
  /\ put \in [Consoles -> SUBSET Puts]
  /\ saving \in [Consoles -> BOOLEAN]
  /\ touched \in [Consoles -> SUBSET Fields]
  /\ base \in [Consoles -> Int]
  /\ opens \in Nat /\ edits \in Nat

\* A save changes only what its operator typed, unless the form was never
\* filled (saved before its GET was answered, or after the GET failed) or the
\* row was written after the form was filled: by another console, by an editor
\* closed meanwhile, or by a save that overtook the form's own GET.
UntouchedStays ==
  [][\A c \in Consoles : \A p \in put[c] \ put'[c] :
       p.base = version =>
         \A f \in Fields \ p.touched : settings'[f] = settings[f]]_vars

\* What an editor shows and its operator did not type is what the server holds,
\* for as long as nobody else writes the row.
FreshFormsAgree ==
  \A c \in Consoles : base[c] = version =>
    \A f \in Fields \ touched[c] : form[c][f] = settings[f]

=============================================================================
