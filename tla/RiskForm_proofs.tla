--------------------------- MODULE RiskForm_proofs ---------------------------
(***************************************************************************)
(* Proofs, for any consoles, inputs, values and bounds, of what an editor  *)
(* of the risk limits may show and what a save of it may change.           *)
(***************************************************************************)
EXTENDS RiskForm, TLAPS

(***************************************************************************)
(* The inductive invariant. The answer of a GET, the form filled from it   *)
(* and the save sent from that form each carry the version they saw; as    *)
(* long as it is the row's, they agree with the row. That a save takes the *)
(* open form along to the new version needs to know that nothing typed     *)
(* before it was forgotten since (the last conjunct of PutsKnown), and     *)
(* that in turn that a form is filled once (FilledOnce).                   *)
(***************************************************************************)
GetsKnown ==
  \A c \in Consoles : get[c].stage = "answered" =>
    /\ get[c].version <= version
    /\ get[c].version = version => get[c].row = settings

FilledOnce ==
  \A c \in Consoles :
    /\ base[c] <= version
    /\ get[c].stage # "over" =>
         base[c] = -1 /\ \A p \in put[c] : p.live => p.base = -1

PutKnown(c, p) ==
  /\ p.base <= version
  /\ p.base = version => \A f \in Fields \ p.touched : p.row[f] = settings[f]
  /\ p.live /\ p.base = base[c] => p.touched \subseteq touched[c]

PutsKnown == \A c \in Consoles : \A p \in put[c] : PutKnown(c, p)

FormInv == TypeOK /\ GetsKnown /\ FilledOnce /\ PutsKnown /\ FreshFormsAgree

GetType == [stage : {"asked", "answered", "over"}, row : Rows, version : Nat]

\* What a GET that is over leaves behind has the type of a GET.
LEMMA AskedType ==
  /\ Asked \in GetType /\ Asked.stage = "asked"
  /\ [Asked EXCEPT !.stage = "over"] \in GetType
  /\ [Asked EXCEPT !.stage = "over"].stage = "over"
BY FormAssumption DEF Asked, GetType

\* A payload is a row, and what a form took from the row is sent as it was.
LEMMA PayloadIsRow ==
  ASSUME TypeOK, NEW c \in Consoles
  PROVE  /\ Payload(c) \in Rows
         /\ \A f \in Fields : form[c][f] # Blank => Payload(c)[f] = form[c][f]
<1>1. form[c] \in Forms
  BY DEF TypeOK
<1>2. \A f \in Fields : Number(form[c][f]) \in Int
  BY <1>1 DEF Forms, Number
<1>3. QED
  BY <1>2 DEF Payload, Rows, Number

LEMMA InitForm == Init => FormInv
<1> SUFFICES ASSUME Init PROVE FormInv
  OBVIOUS
<1>1. Defaults \in Forms /\ Stored \in Rows
  BY FormAssumption DEF Rows, Forms
<1>2. TypeOK
  BY <1>1, AskedType DEF Init, TypeOK, GetType
<1>3. GetsKnown /\ FilledOnce /\ PutsKnown
  BY AskedType DEF Init, GetsKnown, FilledOnce, PutsKnown
<1>4. FreshFormsAgree
  BY DEF Init, FreshFormsAgree
<1>5. QED
  BY <1>2, <1>3, <1>4 DEF FormInv

-----------------------------------------------------------------------------
(* fetchSettings.                                                          *)

LEMMA AnswerGetKeeps ==
  ASSUME FormInv, NEW c \in Consoles, AnswerGet(c)
  PROVE  FormInv'
<1> USE DEF FormInv, AnswerGet
<1>1. TypeOK'
  BY DEF TypeOK
<1>2. GetsKnown'
  BY DEF TypeOK, GetsKnown
<1>3. FilledOnce'
  BY DEF TypeOK, FilledOnce
<1>4. PutsKnown'
  BY DEF PutsKnown, PutKnown
<1>5. FreshFormsAgree'
  BY DEF FreshFormsAgree
<1>6. QED
  BY <1>1, <1>2, <1>3, <1>4, <1>5

LEMMA FillKeeps ==
  ASSUME FormInv, NEW c \in Consoles, Fill(c)
  PROVE  FormInv'
<1> USE DEF FormInv, Fill
<1>0. /\ get[c].row \in Rows /\ get[c].row \in Forms /\ get[c].version \in Nat
      /\ get[c].version <= version /\ version \in Nat
      /\ get[c].version = version => get[c].row = settings
  BY DEF TypeOK, GetsKnown, Rows, Forms
<1>1. TypeOK'
  BY <1>0, AskedType DEF TypeOK, GetType
<1>2. GetsKnown'
  BY AskedType DEF TypeOK, GetsKnown
<1>3. FilledOnce'
  BY <1>0, AskedType DEF TypeOK, FilledOnce
<1>4. PutsKnown'
  <2>1. \A p \in put[c] : p.live => p.base = -1
    BY DEF FilledOnce
  <2>2. base'[c] = get[c].version /\ \A d \in Consoles \ {c} :
          base'[d] = base[d] /\ touched'[d] = touched[d]
    BY DEF TypeOK
  <2>3. \A p \in put[c] : p.live => p.base # base'[c]
    BY <1>0, <2>1, <2>2
  <2>4. QED
    BY <2>2, <2>3 DEF PutsKnown, PutKnown
<1>5. FreshFormsAgree'
  BY <1>0 DEF TypeOK, FreshFormsAgree
<1>6. QED
  BY <1>1, <1>2, <1>3, <1>4, <1>5

LEMMA GetFailsKeeps ==
  ASSUME FormInv, NEW c \in Consoles, GetFails(c)
  PROVE  FormInv'
<1> USE DEF FormInv, GetFails
<1>1. TypeOK'
  BY AskedType DEF TypeOK, GetType
<1>2. GetsKnown'
  BY AskedType DEF TypeOK, GetsKnown
<1>3. FilledOnce'
  BY AskedType DEF TypeOK, FilledOnce
<1>4. PutsKnown'
  BY DEF PutsKnown, PutKnown
<1>5. FreshFormsAgree'
  BY DEF FreshFormsAgree
<1>6. QED
  BY <1>1, <1>2, <1>3, <1>4, <1>5

-----------------------------------------------------------------------------
(* The inputs, and leaving the workspace.                                  *)

LEMMA TypeKeeps ==
  ASSUME FormInv, NEW c \in Consoles, NEW f \in Fields,
         NEW v \in Values \cup {Blank}, Type(c, f, v)
  PROVE  FormInv'
<1> USE DEF FormInv, Type
<1>1. TypeOK'
  BY FormAssumption DEF TypeOK, Forms
<1>2. GetsKnown'
  BY DEF GetsKnown
<1>3. FilledOnce'
  BY DEF FilledOnce
<1>4. PutsKnown'
  BY DEF TypeOK, PutsKnown, PutKnown
<1>5. FreshFormsAgree'
  BY DEF TypeOK, Forms, FreshFormsAgree
<1>6. QED
  BY <1>1, <1>2, <1>3, <1>4, <1>5

LEMMA ReopenKeeps ==
  ASSUME FormInv, NEW c \in Consoles, Reopen(c)
  PROVE  FormInv'
<1> USE DEF FormInv, Reopen
<1>0. /\ version \in Nat
      /\ put'[c] = {[p EXCEPT !.live = FALSE] : p \in put[c]}
      /\ \A d \in Consoles \ {c} :
           put'[d] = put[d] /\ base'[d] = base[d] /\ touched'[d] = touched[d]
  BY DEF TypeOK
<1>1. TypeOK'
  <2>1. Defaults \in Forms
    BY FormAssumption DEF Rows, Forms
  <2>2. \A p \in Puts : [p EXCEPT !.live = FALSE] \in Puts
    BY DEF Puts
  <2>3. put'[c] \in SUBSET Puts
    BY <1>0, <2>2 DEF TypeOK
  <2>4. put' \in [Consoles -> SUBSET Puts]
    BY <1>0, <2>3 DEF TypeOK
  <2>5. QED
    BY <2>1, <2>4, AskedType DEF TypeOK, GetType
<1>2. GetsKnown'
  BY AskedType DEF TypeOK, GetsKnown
<1>3. \A p \in put'[c] : \E q \in put[c] :
        ~p.live /\ p.base = q.base /\ p.row = q.row /\ p.touched = q.touched
  BY <1>0 DEF TypeOK, Puts
<1>4. FilledOnce'
  BY <1>0, <1>3 DEF TypeOK, FilledOnce
<1>5. PutsKnown'
  <2>1. \A p \in put'[c] : PutKnown(c, p)'
    BY <1>3 DEF PutsKnown, PutKnown
  <2>2. \A d \in Consoles \ {c} : \A p \in put'[d] : PutKnown(d, p)'
    BY <1>0 DEF PutsKnown, PutKnown
  <2>3. QED
    BY <2>1, <2>2 DEF PutsKnown
<1>6. FreshFormsAgree'
  BY <1>0 DEF TypeOK, FreshFormsAgree
<1>7. QED
  BY <1>1, <1>2, <1>4, <1>5, <1>6

-----------------------------------------------------------------------------
(* handleSaveSettings.                                                     *)

LEMMA SaveKeeps ==
  ASSUME FormInv, NEW c \in Consoles, Save(c)
  PROVE  FormInv'
<1> USE DEF FormInv, Save
<1> DEFINE new == [row |-> Payload(c), touched |-> touched[c], base |-> base[c],
                   live |-> TRUE]
<1>0. /\ new \in Puts
      /\ put'[c] = put[c] \cup {new}
      /\ \A d \in Consoles \ {c} : put'[d] = put[d]
  BY PayloadIsRow DEF TypeOK, Puts
<1>1. TypeOK'
  <2>1. put' \in [Consoles -> SUBSET Puts]
    BY <1>0 DEF TypeOK
  <2>2. QED
    BY <2>1 DEF TypeOK
<1>2. GetsKnown'
  BY DEF GetsKnown
<1>3. FilledOnce'
  BY <1>0 DEF FilledOnce
<1>4. PutsKnown'
  <2>1. PutKnown(c, new)
    <3>1. base[c] <= version
      BY DEF FilledOnce
    <3>2. ASSUME base[c] = version, NEW f \in Fields \ touched[c]
          PROVE  Payload(c)[f] = settings[f]
      <4>1. form[c][f] = settings[f]
        BY <3>2 DEF FreshFormsAgree
      <4>2. settings[f] # Blank
        BY FormAssumption DEF TypeOK, Rows
      <4>3. QED
        BY <4>1, <4>2, PayloadIsRow
    <3>3. QED
      BY <3>1, <3>2 DEF PutKnown
  <2>2. \A d \in Consoles : \A p \in put'[d] : PutKnown(d, p)
    BY <1>0, <2>1 DEF PutsKnown
  <2>3. QED
    BY <2>2 DEF PutsKnown, PutKnown
<1>5. FreshFormsAgree'
  BY DEF FreshFormsAgree
<1>6. QED
  BY <1>1, <1>2, <1>3, <1>4, <1>5

\* The row moves on: nothing else carries its version, but for the form that
\* sent the save.
LEMMA AcceptKeeps ==
  ASSUME FormInv, NEW c \in Consoles, NEW p \in put[c], Accept(c, p)
  PROVE  FormInv'
<1> USE DEF FormInv, Accept
<1>0. /\ p \in Puts /\ version \in Nat /\ version' = version + 1
      /\ put'[c] = put[c] \ {p}
      /\ \A d \in Consoles \ {c} : put'[d] = put[d] /\ base'[d] = base[d]
      /\ base'[c] = IF p.live /\ p.base = version /\ base[c] = version
                    THEN version + 1 ELSE base[c]
  BY DEF TypeOK
<1>1. TypeOK'
  BY <1>0 DEF TypeOK, Puts
<1>2. GetsKnown'
  BY <1>0 DEF TypeOK, GetsKnown
<1>3. FilledOnce'
  <2>1. ASSUME NEW d \in Consoles PROVE base'[d] <= version'
    BY <1>0 DEF TypeOK, FilledOnce
  <2>2. get[c].stage # "over" => base'[c] = -1
    BY <1>0 DEF FilledOnce
  <2>3. QED
    BY <1>0, <2>1, <2>2 DEF FilledOnce
<1>4. PutsKnown'
  <2>1. ASSUME NEW d \in Consoles, NEW q \in put'[d]
        PROVE  PutKnown(d, q)'
    <3>1. q \in put[d] /\ PutKnown(d, q) /\ q.base \in Int
      BY <1>0 DEF TypeOK, Puts, PutsKnown
    <3>2. q.base < version'
      BY <1>0, <3>1 DEF PutKnown
    <3>3. base'[d] = base[d] \/ base'[d] = version'
      BY <1>0
    <3>4. QED
      BY <1>0, <3>1, <3>2, <3>3 DEF PutKnown
  <2>2. QED
    BY <2>1 DEF PutsKnown
<1>5. FreshFormsAgree'
  <2>1. \A d \in Consoles : base[d] <= version /\ base[d] \in Int
    BY DEF TypeOK, FilledOnce
  <2>2. \A d \in Consoles \ {c} : base'[d] # version'
    BY <1>0, <2>1
  <2>3. ASSUME base'[c] = version', NEW f \in Fields \ touched[c]
        PROVE  form[c][f] = settings'[f]
    <3>1. p.live /\ p.base = version /\ base[c] = version
      BY <1>0, <2>1, <2>3
    <3>2. f \notin p.touched /\ p.row[f] = settings[f]
      BY <2>3, <3>1 DEF PutsKnown, PutKnown
    <3>3. form[c][f] = settings[f]
      BY <2>3, <3>1 DEF FreshFormsAgree
    <3>4. QED
      BY <3>2, <3>3
  <2>4. QED
    BY <2>2, <2>3 DEF FreshFormsAgree
<1>6. QED
  BY <1>1, <1>2, <1>3, <1>4, <1>5

LEMMA RefuseKeeps ==
  ASSUME FormInv, NEW c \in Consoles, NEW p \in put[c], Refuse(c, p)
  PROVE  FormInv'
<1> USE DEF FormInv, Refuse
<1>0. \A d \in Consoles : put'[d] \subseteq put[d]
  BY DEF TypeOK
<1>1. TypeOK'
  BY <1>0 DEF TypeOK
<1>2. GetsKnown'
  BY DEF GetsKnown
<1>3. FilledOnce'
  BY <1>0 DEF FilledOnce
<1>4. PutsKnown'
  BY <1>0 DEF PutsKnown, PutKnown
<1>5. FreshFormsAgree'
  BY DEF FreshFormsAgree
<1>6. QED
  BY <1>1, <1>2, <1>3, <1>4, <1>5

LEMMA AnswerSaveKeeps ==
  ASSUME FormInv, NEW c \in Consoles, AnswerSave(c)
  PROVE  FormInv'
<1> USE DEF FormInv, AnswerSave
<1>1. TypeOK'
  BY DEF TypeOK
<1>2. GetsKnown' /\ FilledOnce' /\ PutsKnown'
  BY DEF GetsKnown, FilledOnce, PutsKnown, PutKnown
<1>3. FreshFormsAgree'
  BY DEF FreshFormsAgree
<1>4. QED
  BY <1>1, <1>2, <1>3

-----------------------------------------------------------------------------

LEMMA NextForm ==
  ASSUME FormInv, [Next]_vars
  PROVE  FormInv'
<1>1. ASSUME NEW c \in Consoles, Operate(c)
      PROVE  FormInv'
  BY <1>1, TypeKeeps, SaveKeeps, ReopenKeeps DEF Operate
<1>2. ASSUME NEW c \in Consoles, Network(c)
      PROVE  FormInv'
  BY <1>2, AnswerGetKeeps, FillKeeps, GetFailsKeeps, AcceptKeeps, RefuseKeeps,
     AnswerSaveKeeps DEF Network
<1>3. CASE UNCHANGED vars
  BY <1>3 DEF vars, FormInv, TypeOK, GetsKnown, FilledOnce, PutsKnown, PutKnown,
     FreshFormsAgree
<1>4. QED
  BY <1>1, <1>2, <1>3 DEF Next

THEOREM FormInvariant == Spec => []FormInv
BY InitForm, NextForm, PTL DEF Spec

\* Every variable keeps its type, whatever is typed and saved.
THEOREM FormTypes == Spec => []TypeOK
<1>1. FormInv => TypeOK
  BY DEF FormInv
<1>2. QED
  BY <1>1, FormInvariant, PTL

\* A form whose row nobody else wrote shows what the server holds in every
\* input its operator did not touch, its own saves and their races included.
THEOREM FreshForms == Spec => []FreshFormsAgree
<1>1. FormInv => FreshFormsAgree
  BY DEF FormInv
<1>2. QED
  BY <1>1, FormInvariant, PTL

-----------------------------------------------------------------------------

\* Only Accept writes the row, and it takes exactly its own save.
LEMMA SavesChangeWhatWasTyped ==
  ASSUME FormInv, [Next]_vars, NEW c \in Consoles, NEW p \in put[c] \ put'[c],
         p.base = version, NEW f \in Fields \ p.touched
  PROVE  settings'[f] = settings[f]
<1>1. CASE settings' = settings
  BY <1>1
<1>2. ASSUME NEW d \in Consoles, NEW q \in put[d], Accept(d, q)
      PROVE  settings'[f] = settings[f]
  <2>1. c = d /\ p = q
    BY <1>2 DEF FormInv, TypeOK, Accept
  <2>2. p.row[f] = settings[f]
    BY DEF FormInv, PutsKnown, PutKnown
  <2>3. QED
    BY <1>2, <2>1, <2>2 DEF Accept
<1>3. QED
  BY <1>1, <1>2 DEF Next, Operate, Network, Type, Save, Reopen, AnswerGet, Fill,
     GetFails, Refuse, AnswerSave, vars

\* A save changes only what its operator typed, unless its form was never
\* filled or the row was written after that.
THEOREM SavesKeepTheRest == Spec => UntouchedStays
<1>1. FormInv /\ [Next]_vars
        => [\A c \in Consoles : \A p \in put[c] \ put'[c] :
              p.base = version =>
                \A f \in Fields \ p.touched : settings'[f] = settings[f]]_vars
  BY SavesChangeWhatWasTyped
<1>2. QED
  BY <1>1, FormInvariant, PTL DEF Spec, UntouchedStays

=============================================================================
