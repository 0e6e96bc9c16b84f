---------------------------- MODULE BrowserConsole ----------------------------
(***************************************************************************)
(* The browser console (index.html, main.js, request-builder.js): a form   *)
(* that builds a request, an editor that shows it as JSON, and the receipt *)
(* of the last answer with what can be done to it.                         *)
(*                                                                         *)
(* The handlers run to completion; fetches, file reads and the clipboard   *)
(* are operations under way that end in any order, or never.  A form has   *)
(* one field for each kind the code treats alike: text, a number, the      *)
(* observed number, a number whose default is 1, a check box and the tool. *)
(* The status line of the sidecar is not part of the model.                *)
(***************************************************************************)
EXTENDS Naturals, Sequences

CONSTANTS
  Ops,        \* operations that may be under way at once
  Typed,      \* what may be typed into the form: sets of values per field
  Documents,  \* requests that may be imported, dropped or typed as JSON
  Receipts,   \* records id, decision
  MaxUse,     \* bound on the operations of a session
  Bad,        \* what is no safe integer
  Null        \* null, an absent member, an empty field, nothing to show

ASSUME ConsoleAssumption == Null \notin Receipts

VARIABLES
  form,       \* what the controls hold
  editor,     \* the JSON in the editor
  preset,     \* state.activePreset
  receipt,    \* state.receipt, and rawReceipt with it
  badge,      \* the decision shown
  enabled,    \* the buttons that act on a receipt
  viewer,     \* the receipt whose text is shown
  outcome,    \* what actionResult shows: the receipt it is about
  op,         \* the operations under way
  used        \* operations started so far

bvars == <<form, editor, preset, receipt, badge, enabled, viewer, outcome, op, used>>
screen == <<receipt, badge, enabled, viewer, outcome>>

----------------------------------------------------------------------------
(* request-builder.js *)

\* The two samples: all that differs is the number asked for.
Sample(number) ==
  [text |-> "x", tool |-> "x", number |-> number, observed |-> number, multiplier |-> 1,
   flag |-> FALSE]
SCENARIOS == [safe |-> Sample(1), highCost |-> Sample(2)]

\* Number(""): an empty field, Null here, is zero.
ToSafeInteger(x) == IF x = Null THEN 0 ELSE x
IsSafeInteger(x) == x # Bad

\* trim: the field " x " holds the text "x".
RequiredText(x) == IF x = " x " THEN "x" ELSE x
HasText(x) == x # ""

Buildable(v) ==
  /\ HasText(v.text) /\ HasText(v.tool)
  /\ \A x \in {v.number, v.observed, v.multiplier} : IsSafeInteger(x)

BuildRequest(v) ==
  [text |-> RequiredText(v.text), number |-> ToSafeInteger(v.number),
   observed |-> ToSafeInteger(v.observed), multiplier |-> ToSafeInteger(v.multiplier),
   flag |-> v.flag, tools |-> <<RequiredText(v.tool)>>, payload |-> <<RequiredText(v.tool)>>]

OrElse(x, default) == IF x = Null THEN default ELSE x

ValuesFromRequest(r) ==
  [text |-> OrElse(r.text, ""), number |-> OrElse(r.number, 0),
   observed |-> OrElse(r.observed, 0), multiplier |-> OrElse(r.multiplier, 1),
   flag |-> OrElse(r.flag, FALSE),
   tool |-> IF r.tools # <<>> THEN Head(r.tools)
            ELSE IF r.payload # <<>> THEN Head(r.payload) ELSE ""]

----------------------------------------------------------------------------
(* What the handlers share. *)

\* refreshGeneratedRequest: a form that builds no request leaves the editor.
RefreshGenerated(v) == editor' = IF Buildable(v) THEN BuildRequest(v) ELSE editor

WriteControls(v, name) ==
  /\ form' = v /\ preset' = name
  /\ RefreshGenerated(v)

Render(r) == viewer' = r

\* failClosed without forgetting the receipt.
FailClosedKeeps ==
  /\ badge' = "REFUSE" /\ enabled' = FALSE
  /\ UNCHANGED <<receipt, viewer, outcome>>

\* The receipt is forgotten; its text stays in the viewer.
FailClosed ==
  /\ receipt' = Null /\ badge' = "REFUSE" /\ enabled' = FALSE
  /\ UNCHANGED <<viewer, outcome>>

Shown(decision) == IF decision = "ALLOW" THEN "ALLOW" ELSE "REFUSE"

SetReceipt(r) ==
  /\ receipt' = r /\ Render(r)
  /\ badge' = Shown(r.decision) /\ enabled' = TRUE

Start(o, what) ==
  /\ op[o] = Null /\ used < MaxUse
  /\ op' = [op EXCEPT ![o] = what] /\ used' = used + 1

Ends(o) == op' = [op EXCEPT ![o] = Null] /\ UNCHANGED used

----------------------------------------------------------------------------
(* The form and the editor. *)

Edit ==
  /\ \E f \in DOMAIN Typed : \E x \in Typed[f] :
       LET v == [form EXCEPT ![f] = x]
       IN v # form /\ form' = v /\ RefreshGenerated(v)
  /\ preset' = ""
  /\ UNCHANGED <<screen, op, used>>

LoadPreset ==
  /\ \E name \in DOMAIN SCENARIOS : WriteControls(SCENARIOS[name], name)
  /\ UNCHANGED <<screen, op, used>>

\* The observed value becomes the estimate, or empty when there is none.
SyncObserved ==
  /\ LET v == [form EXCEPT !.observed = IF IsSafeInteger(form.number)
                                          THEN ToSafeInteger(form.number) ELSE Null]
     IN form' = v /\ RefreshGenerated(v)
  /\ UNCHANGED <<preset, screen, op, used>>

EditJson ==
  /\ editor' \in Documents \cup {Null}
  /\ UNCHANGED <<form, preset, screen, op, used>>

\* The loader of requests; Null is a text that is no request.
LoadRequest(doc) ==
  IF doc = Null THEN FailClosed /\ UNCHANGED <<form, preset, editor>>
                ELSE WriteControls(ValuesFromRequest(doc), "") /\ UNCHANGED screen

ApplyJson == LoadRequest(editor) /\ UNCHANGED <<op, used>>

----------------------------------------------------------------------------
(* Sending, and what is done to a receipt. *)

\* The request is built from the form; what was typed as JSON is replaced.
Send(o) ==
  /\ UNCHANGED <<form, preset>>
  /\ IF Buildable(form)
       THEN /\ Start(o, [kind |-> "send", of |-> Null])
            /\ editor' = BuildRequest(form) /\ outcome' = Null
            /\ UNCHANGED <<receipt, badge, enabled, viewer>>
       ELSE /\ receipt' = Null /\ badge' = "REFUSE" /\ enabled' = FALSE
            /\ outcome' = Null /\ UNCHANGED <<viewer, editor, op, used>>

\* An answer with a receipt, or with a decision only.
SendDone(o) ==
  /\ op[o] # Null /\ op[o].kind = "send"
  /\ \/ \E r \in Receipts : SetReceipt(r)
     \/ \E d \in {"ALLOW", "REFUSE"} :
          /\ badge' = d /\ receipt' = Null /\ enabled' = FALSE /\ Render(Null)
  /\ Ends(o)
  /\ UNCHANGED <<form, editor, preset, outcome>>

\* Replay, verify and copy act on the receipt held when the button is pressed.
ReceiptAction(o) ==
  /\ enabled
  /\ \E kind \in {"fetch", "copy"} : Start(o, [kind |-> kind, of |-> receipt])
  /\ UNCHANGED <<form, editor, preset, screen>>

ReceiptActionDone(o) ==
  /\ op[o] # Null /\ op[o].kind \in {"fetch", "copy"}
  /\ outcome' = op[o].of
  /\ Ends(o)
  /\ UNCHANGED <<form, editor, preset, receipt, badge, enabled, viewer>>

\* A file or a dropped text; it is read before it is loaded.
Import(o) ==
  /\ \E kind \in {"request file", "receipt file"} : Start(o, [kind |-> kind, of |-> Null])
  /\ UNCHANGED <<form, editor, preset, screen>>

RequestFileRead(o) ==
  /\ op[o] # Null /\ op[o].kind = "request file"
  /\ \E doc \in Documents \cup {Null} : LoadRequest(doc)
  /\ Ends(o)

ReceiptFileRead(o) ==
  /\ op[o] # Null /\ op[o].kind = "receipt file"
  /\ \E r \in Receipts : SetReceipt(r)
  /\ outcome' = Null
  /\ Ends(o)
  /\ UNCHANGED <<form, editor, preset>>

\* A refused fetch, another status, an unreadable file, a refused clipboard.
OpFails(o) ==
  /\ op[o] # Null
  /\ FailClosed
  /\ Ends(o)
  /\ UNCHANGED <<form, editor, preset>>

\* setActiveTab renders the receipt again.
SetTab ==
  /\ Render(receipt)
  /\ UNCHANGED <<form, editor, preset, receipt, badge, enabled, outcome, op, used>>

InitB ==
  /\ form = SCENARIOS["safe"] /\ preset = "safe"
  /\ editor = BuildRequest(form)
  /\ receipt = Null /\ badge = "none" /\ enabled = FALSE /\ viewer = Null /\ outcome = Null
  /\ op = [o \in Ops |-> Null] /\ used = 0

NextB ==
  \/ Edit \/ LoadPreset \/ SyncObserved \/ EditJson \/ ApplyJson \/ SetTab
  \/ \E o \in Ops : \/ Send(o) \/ SendDone(o) \/ ReceiptAction(o) \/ ReceiptActionDone(o)
                    \/ Import(o) \/ RequestFileRead(o) \/ ReceiptFileRead(o) \/ OpFails(o)

SpecB == InitB /\ [][NextB]_bvars

----------------------------------------------------------------------------
(* Properties. *)

\* Whatever ends last - an answer, a verification, a file, a failure - the
\* decision shown is the one of the receipt that is held, and the buttons act
\* on a receipt exactly when there is one.
ShownIsHeld ==
  /\ enabled <=> receipt # Null
  /\ receipt # Null => badge = Shown(receipt.decision) /\ viewer = receipt

=============================================================================
