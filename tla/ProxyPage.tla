------------------------------- MODULE ProxyPage -------------------------------
(***************************************************************************)
(* The dashboard's proxy settings: a form for the policy of the cluster    *)
(* and one for the policy of a worker service, both filled from settings   *)
(* that are loaded anew every ten seconds and after every save or delete.  *)
(*                                                                         *)
(* What the API answers may be anything, as other administrators save too, *)
(* or nothing.  An effect runs with the commit that triggers it.           *)
(***************************************************************************)
EXTENDS Naturals, Sequences

CONSTANTS
  Services,   \* names that are typed, or have a policy
  Listed,     \* those that workers report
  Texts,      \* contents of a text area, "" among them
  NoService,  \* the empty name
  NoPolicy

ProxyPageAssumption == "" \in Texts /\ NoService \notin Services /\ Listed \subseteq Services

Forms == [enabled : BOOLEAN, text : Texts]
EmptyForm == [enabled |-> FALSE, text |-> ""]
Drafts == [for : Services \cup {NoService}, form : Forms]

\* An enabled policy has proxies (the API refuses others); they come back masked.
Policies == {f \in Forms : f.enabled <=> f.text # ""} \cup {NoPolicy}

Settings == [policies : [{"global"} \cup Services -> Policies],
             available : {<<>>} \cup {<<s>> : s \in Listed},  \* the first matters
             envLocked : BOOLEAN]

\* proxySettings is null.
NoSettings == [policies |-> [k \in {"global"} \cup Services |-> NoPolicy],
               available |-> <<>>, envLocked |-> FALSE]

VARIABLES
  settings,   \* proxySettings
  global,     \* the form of the cluster
  retyped,    \* history: it was changed since it was last filled
  selected,   \* selectedService
  service,    \* the form of the service
  dirty,      \* serviceDraftDirty
  typed,      \* history: what the administrator last entered in it, and for which service
  saving      \* the handler that has set savingProxySettings

serviceVars == <<selected, service, dirty, typed>>
vars == <<settings, global, retyped, serviceVars, saving>>

SavingHandlers == {"none", "global", "service"}   \* of saving and deleting each

TypeOK ==
  /\ settings \in Settings
  /\ {global, service} \subseteq Forms /\ typed \in Drafts
  /\ {retyped, dirty} \subseteq BOOLEAN
  /\ selected \in Services \cup {NoService}
  /\ saving \in SavingHandlers

\* toTextareaValue and the enabled flag of a policy, or of none
FormOf(policy) == IF policy = NoPolicy THEN EmptyForm ELSE policy

PolicyOf(scope, of) == IF scope = NoService THEN NoPolicy ELSE of.policies[scope]

\* An empty name gives way to the first service there is.
Completed(name, of) ==
  IF name = NoService /\ of.available # <<>> THEN Head(of.available) ELSE name

Init ==
  /\ settings \in Settings \cup {NoSettings}
  /\ global = FormOf(settings.policies["global"]) /\ retyped = FALSE
  /\ selected = Completed(NoService, settings)
  /\ service = FormOf(PolicyOf(selected, settings))
  /\ typed = [for |-> NoService, form |-> EmptyForm]
  /\ dirty = FALSE
  /\ saving = "none"

-----------------------------------------------------------------------------
(* Effects                                                                 *)

\* Mutation of Fill: a refresh takes the draft away.
FillAlways(name, isDirty, of) ==
  /\ selected' = Completed(name, of) /\ dirty' = isDirty
  /\ service' = FormOf(PolicyOf(selected', of))

\* The effect on the selected service, the dirty flag and the policies
Fill(name, isDirty, of) ==
  /\ selected' = Completed(name, of)
  /\ dirty' = isDirty
  /\ service' = IF isDirty THEN service ELSE FormOf(PolicyOf(selected', of))

\* New settings, even equal ones, fill the form of the cluster, changed or not, unless
\* it has no policy still, and that of the service unless it is a draft.
Show(new, isDirty) ==
  /\ settings' = new
  /\ IF {settings.policies["global"], new.policies["global"]} = {NoPolicy}
     THEN UNCHANGED <<global, retyped>>
     ELSE global' = FormOf(new.policies["global"]) /\ retyped' = FALSE
  /\ Fill(selected, isDirty, new)
  /\ UNCHANGED typed

Refreshed ==
  /\ \E new \in Settings \cup {NoSettings} : Show(new, dirty)
  /\ UNCHANGED saving

-----------------------------------------------------------------------------
(* The administrator                                                       *)

Unlocked == ~settings.envLocked /\ saving = "none"

\* The text of a form can be changed when it is enabled.
Edit(form, new) == new # form /\ (new.text # form.text => form.enabled /\ new.enabled)

EditGlobal(new) ==
  /\ Unlocked /\ Edit(global, new)
  /\ global' = new /\ retyped' = TRUE
  /\ UNCHANGED <<settings, serviceVars, saving>>

UseGlobal ==
  /\ settings.policies["global"] # NoPolicy
  /\ global' = FormOf(settings.policies["global"]) /\ retyped' = FALSE
  /\ UNCHANGED <<settings, serviceVars, saving>>

\* Mutation of SelectService: the draft of another service stays.
SelectServiceOnly(name) ==
  /\ Unlocked /\ name # selected
  /\ Fill(name, dirty, settings)
  /\ UNCHANGED <<settings, global, retyped, typed, saving>>

\* Typing or choosing a name drops the draft.
SelectService(name) ==
  /\ Unlocked /\ name # selected
  /\ Fill(name, FALSE, settings)
  /\ UNCHANGED <<settings, global, retyped, typed, saving>>

EditService(new) ==
  /\ Unlocked /\ selected # NoService /\ Edit(service, new)
  /\ service' = new /\ dirty' = TRUE
  /\ typed' = [for |-> selected, form |-> new]
  /\ UNCHANGED <<settings, global, retyped, selected, saving>>

\* "Use in editor" is not disabled while something is saved.
UseService(name) ==
  /\ settings.policies[name] # NoPolicy
  /\ selected' = name /\ dirty' = FALSE
  /\ service' = FormOf(settings.policies[name])
  /\ UNCHANGED <<settings, global, retyped, typed, saving>>

Save(handler) ==
  /\ Unlocked /\ (handler # "global" => selected # NoService)
  /\ saving' = handler
  /\ UNCHANGED <<settings, global, retyped, serviceVars>>

\* The handler ends with the settings loaded again, or not; whether the API accepted
\* what it sent makes no difference to the forms.  Everything it sets, and what is done
\* after it, is one commit: the effects have the last word, over the emptied form of a
\* deleted policy too.
Saved ==
  /\ saving # "none" /\ saving' = "none"
  /\ \E new \in Settings \cup {NoSettings} : Show(new, dirty /\ saving = "global")

Next ==
  \/ Refreshed \/ UseGlobal
  \/ \E new \in Forms : EditGlobal(new) \/ EditService(new)
  \/ \E name \in Services \cup {NoService} : SelectService(name)
  \/ \E name \in Services : UseService(name)
  \/ \E handler \in SavingHandlers \ {"none"} : Save(handler)
  \/ Saved

Spec == Init /\ [][Next]_vars

-----------------------------------------------------------------------------
\* The form of a service shows either what the administrator entered for the service whose
\* name stands above it, until it is saved, or the policy of that service; and so does that
\* of the cluster, until the next refresh brings a policy.
FormIsDraftOrPolicy ==
  /\ dirty => typed = [for |-> selected, form |-> service] /\ selected # NoService
  /\ ~dirty => service = FormOf(PolicyOf(selected, settings))
  /\ ~retyped => global = FormOf(settings.policies["global"])
=============================================================================
