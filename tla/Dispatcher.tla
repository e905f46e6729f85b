------------------------------ MODULE Dispatcher ------------------------------
(***************************************************************************)
(* The dashboard page that dispatches a job: a form, a JSON editor over    *)
(* the same payload, the submission, and the polling of the last job's     *)
(* result every two seconds, whatever the answers to earlier polls.        *)
(*                                                                         *)
(* Each field has a control of its own and is converted by itself: from    *)
(* the control to what is sent, and from JSON to the control.  A behaviour *)
(* follows one field, of any of the eight kinds there are; what the others *)
(* contribute is that JSON is refused when one of them is not accepted.    *)
(* (A number in a control is what parseInt reads of its text, 1 of 1e5.    *)
(* Those in JSON are below 10^21: String writes larger ones with an        *)
(* exponent, which parseInt then cuts off.)                                *)
(***************************************************************************)
EXTENDS Integers

CONSTANTS
  Words, Blank, \* texts without the spaces around them; the one that has nothing else
  Upper,        \* each of them in upper case
  Ints,         \* integral parts of numbers
  Choices,      \* of a select or a flag
  Absent,       \* a number that is not typed, a key that is omitted
  OtherType,    \* a JSON value that the field does not take
  Jobs,         \* ids the API answers with, each once
  NoJob,
  MaxPolls      \* bound on the polls under way

Texts == [word : Words \cup {Blank}, spaces : BOOLEAN]
Empty == [word |-> Blank, spaces |-> FALSE]
Numerals == [int : Ints, fraction : BOOLEAN]
Tables == SUBSET (Words \cup {Blank})  \* the keys of their rows

DispatcherAssumption ==
  /\ Upper \in [Words \cup {Blank} -> Words \cup {Blank}]
  /\ \A w \in Words \cup {Blank} : Upper[Upper[w]] = Upper[w]
  /\ Absent # OtherType
  /\ \A given \in Texts \cup Numerals \cup Choices \cup Tables : given \notin {Absent, OtherType}
  /\ NoJob \notin Jobs /\ MaxPolls \in Nat \ {0}

toUpperCase(text) == [text EXCEPT !.word = Upper[@]]
trim(text) == [word |-> text.word, spaces |-> FALSE]
trunc(number) == [int |-> number.int, fraction |-> FALSE]
OrAbsent(value, nothing) == IF value = nothing THEN Absent ELSE value

\* The url; strategy, waitUntil and the flags; the id of a worker; its service or host
\* name; the five numbers; waitForSelector, waitForFunction and proxyUrl; the method;
\* headers and form data
Fields == {"url", "choice", "worker", "target", "number", "text", "method", "table"}

Values(f) ==
  CASE f \in {"url", "worker", "target", "text", "method"} -> Texts
    [] f = "number" -> Numerals
    [] f = "choice" -> Choices
    [] f = "table" -> Tables

\* What a key of the JSON may hold
Written(f) == {Absent, OtherType} \cup Values(f)

\* The select of the method has names in upper case, and JSON is put into upper case.
Controls(f) ==
  CASE f = "number" -> Numerals \cup {Absent}
    [] f = "method" -> {toUpperCase(t) : t \in Texts}
    [] OTHER -> Values(f)

VARIABLES
  field,      \* the one that is followed
  form,       \* its control
  editing,    \* isEditing of the JSON preview
  editor,     \* what its text says of the field
  refused,    \* editorError
  touched,    \* history: a control was used since the text was last typed
  submit,     \* onSubmit: idle, or waiting for the answer
  lastJobId,
  result,     \* the job that lastJobResult is of
  polls,      \* uncancelled requests for the result of lastJobId
  answered,   \* history: one of them was answered
  used        \* ids the API has answered with

formVars == <<field, form, editing, editor, refused, touched>>
jobVars == <<lastJobId, result, polls, answered, used>>
vars == <<formVars, submit, jobVars>>

TypeOK ==
  /\ field \in Fields
  /\ form \in Controls(field)
  /\ {editing, refused, touched, answered} \subseteq BOOLEAN
  /\ editor \in Written(field)
  /\ submit \in {"idle", "posted"}
  /\ {lastJobId, result} \subseteq Jobs \cup {NoJob}
  /\ polls \in 0..MaxPolls
  /\ used \subseteq Jobs

\* buildFullPayload, buildOptions and parseOptionalInt: controls that are empty and rows
\* without a key are left out, texts are trimmed (not the url and the id of a worker).
buildFullPayload(c) ==
  CASE field \in {"url", "choice"} -> c
    [] field = "worker" -> OrAbsent(c, Empty)
    [] field \in {"target", "text", "method"} -> OrAbsent(trim(c), Empty)
    [] field = "number" -> IF c = Absent THEN Absent ELSE trunc(c)
    [] field = "table" -> OrAbsent(c \ {Blank}, {})

\* handleCreateJob trims the url as well.
Sent == IF field = "url" THEN trim(form) ELSE buildFullPayload(form)

Init ==
  /\ field \in Fields
  /\ form \in CASE field \in {"url", "worker", "target", "text"} -> {Empty}
               [] field = "table" -> {{}}
               [] OTHER -> Controls(field)
  /\ editing = FALSE /\ editor = buildFullPayload(form) /\ refused = FALSE /\ touched = FALSE
  /\ submit = "idle"
  /\ lastJobId = NoJob /\ result = NoJob
  /\ polls = 0 /\ answered = FALSE /\ used = {}

-----------------------------------------------------------------------------
(* The form and the editor                                                 *)

\* A control is used.  The preview follows unless it is being edited.
Touch(c) ==
  /\ c # form /\ form' = c
  /\ editor' = IF editing THEN editor ELSE buildFullPayload(c)
  /\ touched' = editing
  /\ UNCHANGED <<field, editing, refused, submit, jobVars>>

\* Opening or closing the editor shows what the form says.
ToggleEditor ==
  /\ editing' = ~editing /\ editor' = buildFullPayload(form)
  /\ refused' = FALSE /\ touched' = FALSE
  /\ UNCHANGED <<field, form, submit, jobVars>>

\* Numbers and texts of another type are no reason to refuse; a blank url is one.
Valid(value) ==
  /\ value = OtherType => field \in {"number", "text", "method"}
  /\ field = "url" => value # Absent /\ value.word # Blank

\* What the control is set to
Taken(value) ==
  CASE field = "number" -> trunc(value)
    [] field = "url" -> trim(value)
    [] field = "method" -> toUpperCase(value)
    [] OTHER -> value

\* Mutation of Applied: a target is kept when it is omitted, like everything else.
AppliedKept(value) == IF value \in {Absent, OtherType} THEN form ELSE Taken(value)

\* applyPayloadFromJson: the targets are reset when they are omitted; everything else
\* that is omitted, or ignored for its type, is kept.
Applied(value) ==
  CASE value \notin {Absent, OtherType} -> Taken(value)
    [] value \in {Absent, OtherType} /\ field \in {"worker", "target"} -> Empty
    [] OTHER -> form

\* Every change of the text is applied at once, unless it is not JSON or one of the
\* other fields is not accepted.
Type(value, restIsValid) ==
  /\ editing /\ editor' = value
  /\ IF restIsValid /\ Valid(value)
     THEN form' = Applied(value) /\ refused' = FALSE /\ touched' = FALSE
     ELSE refused' = TRUE /\ UNCHANGED <<form, touched>>
  /\ UNCHANGED <<field, editing, submit, jobVars>>

-----------------------------------------------------------------------------
(* Submission and polling                                                  *)

\* The button is disabled while one is under way.
onSubmit ==
  /\ submit = "idle" /\ (field = "url" => form.word # Blank)
  /\ submit' = "posted"
  /\ UNCHANGED <<formVars, jobVars>>

\* The effect on a new id polls at once and cancels what polled before.
Created(j) ==
  /\ submit = "posted" /\ submit' = "idle"
  /\ j \notin used /\ used' = used \cup {j}
  /\ lastJobId' = j
  /\ polls' = 1 /\ answered' = FALSE
  /\ UNCHANGED <<formVars, result>>

NotCreated ==
  /\ submit = "posted" /\ submit' = "idle"
  /\ UNCHANGED <<formVars, jobVars>>

PollAgain ==
  /\ lastJobId # NoJob /\ polls < MaxPolls
  /\ polls' = polls + 1
  /\ UNCHANGED <<formVars, submit, lastJobId, result, answered, used>>

\* Mutation of PollAnswered: an answer without a result is passed over.
PollAnsweredWith ==
  /\ polls # 0 /\ polls' = polls - 1
  /\ answered' = TRUE /\ result' \in {result, lastJobId}
  /\ UNCHANGED <<formVars, submit, lastJobId, used>>

\* In any order: with the result, or with none, not yet or not any more.
PollAnswered ==
  /\ polls # 0 /\ polls' = polls - 1
  /\ answered' = TRUE /\ result' \in {NoJob, lastJobId}
  /\ UNCHANGED <<formVars, submit, lastJobId, used>>

\* An answer that cannot be read, or none: what is shown stays.
PollFails ==
  /\ polls # 0 /\ polls' = polls - 1
  /\ UNCHANGED <<formVars, submit, lastJobId, result, answered, used>>

Next ==
  \/ \E c \in Controls(field) : Touch(c)
  \/ ToggleEditor
  \/ \E value \in Written(field), restIsValid \in BOOLEAN : Type(value, restIsValid)
  \/ onSubmit \/ NotCreated \/ \E j \in Jobs : Created(j)
  \/ PollAgain \/ PollAnswered \/ PollFails

Spec == Init /\ [][Next]_vars

-----------------------------------------------------------------------------
\* What a job should have of a value that its payload names: numbers are integral,
\* methods in upper case, spaces around a text mean nothing (around the id of a worker
\* they do), and what is blank is not there.
Meaning(value) ==
  CASE field = "choice" -> value
    [] field = "number" -> [int |-> value.int, fraction |-> FALSE]
    [] field = "table" -> IF value \subseteq {Blank} THEN Absent ELSE value \ {Blank}
    [] field = "worker" -> IF value = Empty THEN Absent ELSE value
    [] field = "url" -> [word |-> value.word, spaces |-> FALSE]
    [] OTHER ->
         LET word == IF field = "method" THEN Upper[value.word] ELSE value.word IN
         IF word = Blank THEN Absent ELSE [word |-> word, spaces |-> FALSE]

\* While the text of the editor is accepted and no control was used since it was typed,
\* everything it names is dispatched as it says, and a worker or target that it does not
\* name is not dispatched.  (Everything else that it omits, and a number or text of
\* another type, is dispatched as the form has it: the editor does not show that.)
EditorIsSent ==
  ~refused /\ ~touched =>
    /\ editor \notin {Absent, OtherType} => Sent = Meaning(editor)
    /\ editor = Absent /\ field \in {"worker", "target"} => Sent = Absent

\* The result shown beside the last job is that job's, from its first
\* answer on; until then the result of the job before may stand beside it.
ResultIsOfLastJob == answered => result \in {NoJob, lastJobId}
=============================================================================
