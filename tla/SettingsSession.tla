--------------------------- MODULE SettingsSession ---------------------------
(***************************************************************************)
(* settings_state.rs and the part of the settings view that acts on it.    *)
(*                                                                         *)
(* The session outlives its window. It holds the form of one Provider, at  *)
(* most one operation on that form (login, test, discovery, save, remove), *)
(* and a queue of switches that keeps the last choice for each. Operations *)
(* and switches run on other threads; the view looks at the session every  *)
(* 200 ms and acts on what it saw last.                                    *)
(*                                                                         *)
(* Text is left out: a form is the number of the click that made it, a     *)
(* credential the form it was given for, a message only its sort.          *)
(***************************************************************************)
EXTENDS Naturals, Sequences, FiniteSets, SequencesExt

CONSTANTS
  Kinds,        \* the switches, in the order of SettingKind
  Providers,    \* the ids Providers may have
  Operations,   \* what the dialog offers
  LateCancels,  \* the operations a cancel may find running on a worker thread
  SaveFaults    \* how a preference may fail to be saved: "unwritten", "written", "stuck"

ASSUME SettingsAssumption ==
  /\ Providers \subseteq Nat \ {0} /\ Providers # {}
  /\ Operations \subseteq {"login", "test", "discover", "save", "remove"}
  /\ LateCancels \subseteq {"login", "test", "discover"}
  /\ SaveFaults \subseteq {"unwritten", "written", "stuck"}

VARIABLES
  \* the session, behind one mutex
  draft, credential, message, failed, busy, operation, cancel,
  setting_error, settings_running, setting_queue,
  \* what runs
  tasks,        \* operations on the runtime: [op, action, form, id, step, result]
  runner,       \* the loop that works the queue off
  \* what the session is about
  providers,    \* the saved Providers
  saved,        \* per switch, what its file or document says
  shown,        \* per switch, what the application does
  wanted,       \* per switch, the last choice that was accepted
  refused,      \* the switches whose last attempt failed
  outcome,      \* how the last operation ended
  \* the window
  view,         \* the view's copy of the session, its dialog, its commit
  seen,         \* the view has the session's revision
  ui,           \* what the UI thread still has to do in the handler it runs
  clicks        \* clicks in the window so far

session == <<draft, credential, message, failed, busy, operation, cancel,
             setting_error, settings_running, setting_queue>>
switches == <<saved, shown, wanted, refused>>
settings_vars ==
  <<session, tasks, runner, providers, switches, outcome, view, seen, ui, clicks>>

Switches == ToSet(Kinds)
NoDraft == [form |-> 0, id |-> 0, found |-> FALSE]
NoView == [open |-> FALSE, commit |-> FALSE, busy |-> FALSE, pending |-> FALSE,
           message |-> "absent", draft |-> NoDraft]
Resting == [at |-> "none", kind |-> "", choice |-> FALSE, before |-> FALSE, result |-> "none"]

(* What a new window shows. *)
NewView == [open |-> FALSE, commit |-> FALSE, busy |-> busy, pending |-> settings_running,
            message |-> message, draft |-> draft]

SettingsInit ==
  /\ draft = NoDraft
  /\ credential = 0
  /\ message = "none"
  /\ failed = FALSE
  /\ busy = FALSE
  /\ operation = 0
  /\ cancel = 0
  /\ setting_error = ""
  /\ settings_running = FALSE
  /\ setting_queue = [k \in Switches |-> "none"]
  /\ tasks = {}
  /\ runner = Resting
  /\ providers = {CHOOSE p \in Providers : TRUE}
  /\ saved = [k \in Switches |-> FALSE]
  /\ shown = saved
  /\ wanted = saved
  /\ refused = {}
  /\ outcome = "none"
  /\ seen = TRUE
  /\ ui = "free"
  /\ clicks = 0

-----------------------------------------------------------------------------
(* The queue of switches. Its loop runs on the UI thread between handlers, *)
(* what it waits for on others.                                            *)

Said(what) == message' = what /\ setting_error' = ""

(* Only the runner that finds none running is started. *)
enqueue_setting(kind, choice) ==
  /\ setting_queue' = [setting_queue EXCEPT ![kind] = choice]
  /\ settings_running' = TRUE
  /\ runner' = IF settings_running THEN runner ELSE [Resting EXCEPT !.at = "look"]
  /\ Said("none")
  /\ failed' = FALSE
  /\ seen' = FALSE

(* The first kind in their order, or the end of the run: one acquisition   *)
(* of the mutex decides both.                                              *)
next_setting ==
  /\ runner.at = "look"
  /\ ui = "free"
  /\ \/ /\ \A k \in Switches : setting_queue[k] = "none"
        /\ settings_running' = FALSE
        /\ runner' = Resting
        /\ seen' = FALSE
        /\ UNCHANGED setting_queue
     \/ \E i \in DOMAIN Kinds :
          LET k == Kinds[i] IN
          /\ setting_queue[k] # "none"
          /\ \A j \in 1..(i - 1) : setting_queue[Kinds[j]] = "none"
          /\ setting_queue' = [setting_queue EXCEPT ![k] = "none"]
          /\ runner' = [Resting EXCEPT !.at = "run", !.kind = k,
                          !.choice = setting_queue[k] = "on", !.before = shown[k]]
          /\ UNCHANGED <<settings_running, seen>>
  /\ UNCHANGED <<draft, credential, message, failed, busy, operation, cancel, setting_error,
                 tasks, providers, switches, outcome, view, ui, clicks>>

RunnerStep(at) ==
  /\ runner.at = at
  /\ UNCHANGED <<session, tasks, providers, wanted, refused, outcome, view, seen, ui, clicks>>

Reports(result) == runner' = [runner EXCEPT !.at = "done", !.result = result]
Goes(at) == runner' = [runner EXCEPT !.at = at]

(* The write of a preference: done, not done, or done and reported as an   *)
(* error because what follows the rename failed.                           *)
Writes(next) ==
  \E how \in {"saved"} \cup (SaveFaults \ {"stuck"}) :
    /\ saved' = IF how = "unwritten" THEN saved ELSE [saved EXCEPT ![runner.kind] = runner.choice]
    /\ IF how = "saved" THEN next ELSE Reports("error")

(* Every switch but the Dock is saved before it is shown. *)
SaveSwitch ==
  /\ RunnerStep("run")
  /\ runner.kind # "Dock"
  /\ Writes(Goes("saved"))
  /\ UNCHANGED shown

ShowSwitch ==
  /\ RunnerStep("saved")
  /\ shown' = [shown EXCEPT ![runner.kind] = runner.choice]
  /\ Reports("ok")
  /\ UNCHANGED saved

(* dock_action: shown first, on the UI thread, and shown as before when    *)
(* the write fails. AppKit may refuse either change.                       *)
ShowDock ==
  /\ RunnerStep("run")
  /\ ui = "free"
  /\ runner.kind = "Dock"
  /\ \/ shown' = [shown EXCEPT !["Dock"] = runner.choice] /\ Goes("dock")
     \/ runner.choice # runner.before /\ UNCHANGED shown /\ Reports("error")
  /\ UNCHANGED saved

SaveDock ==
  /\ RunnerStep("dock")
  /\ ui = "free"
  /\ Writes(Reports("ok"))
  /\ shown' \in IF runner'.result = "ok" THEN {shown}
                ELSE {[shown EXCEPT !["Dock"] = runner.before]}
                       \cup IF "stuck" \in SaveFaults THEN {shown} ELSE {}

(* The result of a switch. A Provider's switch may bring a notice.         *)
finish_setting ==
  /\ runner.at = "done"
  /\ ui = "free"
  /\ \E notice \in {FALSE, runner.kind = "Enabled"} :
       IF runner.result = "error"
       THEN message' = "error" /\ failed' = TRUE /\ setting_error' = runner.kind
       ELSE IF notice \/ setting_error = runner.kind
       THEN Said(IF notice THEN "notice" ELSE "none") /\ failed' = FALSE
       ELSE UNCHANGED <<message, setting_error, failed>>
  /\ refused' = IF runner.result = "error" THEN refused \cup {runner.kind}
                ELSE refused \ {runner.kind}
  /\ runner' = [Resting EXCEPT !.at = "look"]
  /\ seen' = FALSE
  /\ UNCHANGED <<draft, credential, busy, operation, cancel, settings_running, setting_queue,
                 tasks, providers, saved, shown, wanted, outcome, view, ui, clicks>>

-----------------------------------------------------------------------------
(* An operation on its thread. The mutex is taken for each store alone,    *)
(* and only the report compares the number of the operation.               *)

Replace(t, u) == tasks' = (tasks \ {t}) \cup {u}
TaskStep(t, step) ==
  /\ t.step = step
  /\ UNCHANGED <<message, failed, busy, operation, cancel, setting_error, settings_running,
                 setting_queue, runner, switches, outcome, view, ui, clicks>>

(* compile_draft wants a credential: the form's, or that of the Provider.  *)
Compiles(t) == credential # 0 \/ t.id \in providers

Answered(t) ==
  /\ TaskStep(t, "asked")
  /\ \/ /\ t.action \in {"test", "discover", "save"} => Compiles(t)
        /\ CASE t.action = "save" /\ t.id = 0 ->
                  \E p \in Providers \ providers :
                    /\ \A q \in Providers \ providers : p <= q
                    /\ providers' = providers \cup {p}
                    /\ Replace(t, [t EXCEPT !.step = "stored", !.id = p])
             [] t.action = "save" /\ t.id # 0 ->
                  /\ providers' = providers \cup {t.id}
                  /\ Replace(t, [t EXCEPT !.step = "stored"])
             [] t.action = "remove" ->
                  /\ providers' = providers \ {t.id}
                  /\ Replace(t, [t EXCEPT !.step = "stored"])
             [] OTHER ->
                  /\ Replace(t, [t EXCEPT !.step = "stored"])
                  /\ UNCHANGED providers
     \/ /\ Replace(t, [t EXCEPT !.step = "done", !.result = "error"])
        /\ UNCHANGED providers
  /\ UNCHANGED <<draft, credential, seen>>

(* What the answer changes in the form. A discovery stores the models in a *)
(* second acquisition.                                                     *)
Stores(t) ==
  /\ TaskStep(t, "stored")
  /\ CASE t.action = "save" -> draft' = [draft EXCEPT !.id = t.id] /\ UNCHANGED credential
       [] t.action = "remove" -> draft' = NoDraft /\ credential' = 0
       [] OTHER -> credential' = t.form /\ UNCHANGED draft
  /\ Replace(t, IF t.action = "discover" THEN [t EXCEPT !.step = "models"]
                ELSE [t EXCEPT !.step = "done", !.result = "ok"])
  /\ UNCHANGED <<providers, seen>>

StoresModels(t) ==
  /\ TaskStep(t, "models")
  /\ draft' = [draft EXCEPT !.found = TRUE]
  /\ Replace(t, [t EXCEPT !.step = "done", !.result = "ok"])
  /\ UNCHANGED <<credential, providers, seen>>

(* Mutants: the report of a cancelled operation counts; a failure is told  *)
(* and not noted.                                                          *)
Late(t) == TRUE
Unnoted(result) == failed' = FALSE

Current(t) == t.op = operation
Notes(result) == failed' = (result = "error")

Finish(t) ==
  /\ t.step = "done"
  /\ tasks' = tasks \ {t}
  /\ IF Current(t)
     THEN /\ cancel' = 0
          /\ busy' = FALSE
          /\ Said(IF t.result = "ok" THEN "notice" ELSE "error")
          /\ Notes(t.result)
          /\ outcome' = t.result
          /\ seen' = FALSE
     ELSE UNCHANGED <<cancel, busy, message, setting_error, failed, outcome, seen>>
  /\ UNCHANGED <<draft, credential, operation, settings_running, setting_queue,
                 runner, providers, switches, view, ui, clicks>>

Works == \E t \in tasks : Answered(t) \/ Stores(t) \/ StoresModels(t) \/ Finish(t)

-----------------------------------------------------------------------------
(* The view. A handler is one turn of the UI thread: the call into the     *)
(* session, then a look at it. What is disabled is disabled by the view's  *)
(* own copy.                                                               *)

Click ==
  /\ ui = "free"
  /\ view # NoView
  /\ clicks' = clicks + 1

Blocked == view.busy \/ view.pending

Refreshed == [view EXCEPT !.busy = busy, !.pending = settings_running,
                          !.message = message, !.draft = draft]

(* The end of a save or a removal closes the dialog, and with it the form, *)
(* unless it failed.                                                       *)
Refresh ==
  /\ view # NoView
  /\ ui \in {"free", "refresh"}
  /\ ui = "refresh" \/ ~seen
  /\ LET settled == ~seen /\ ~busy /\ view.commit
         closes == settled /\ ~failed /\ ~settings_running
     IN /\ view' = IF seen THEN view
                   ELSE [Refreshed EXCEPT !.commit = @ /\ ~settled, !.open = @ /\ ~closes]
        /\ IF closes
           THEN draft' = NoDraft /\ credential' = 0 /\ seen' = FALSE /\ ui' = "refresh"
           ELSE UNCHANGED <<draft, credential>> /\ seen' = TRUE /\ ui' = "free"
  /\ UNCHANGED <<message, failed, busy, operation, cancel, setting_error, settings_running,
                 setting_queue, tasks, runner, providers, switches, outcome, clicks>>

setting_action ==
  /\ Click
  /\ ~view.busy
  /\ \E kind \in Switches, choice \in {"on", "off"} :
       IF busy
       THEN UNCHANGED <<message, failed, setting_error, settings_running, setting_queue,
                        runner, wanted, seen>>
       ELSE /\ enqueue_setting(kind, choice)
            /\ wanted' = [wanted EXCEPT ![kind] = choice = "on"]
  /\ ui' = "refresh"
  /\ UNCHANGED <<draft, credential, busy, operation, cancel, tasks, providers, saved, shown,
                 refused, outcome, view>>

(* A button of the dialog. A handle to cancel with is kept afterwards, in  *)
(* another acquisition; by then the operation may have ended.              *)
action ==
  /\ Click
  /\ view.open
  /\ view.draft.form # 0
  /\ ~Blocked
  /\ \E a \in Operations :
       /\ a = "remove" => view.draft.id # 0
       /\ view' = [view EXCEPT !.commit = @ \/ a \in {"save", "remove"}]
       /\ IF busy \/ settings_running
          THEN /\ ui' = "refresh"
               /\ UNCHANGED <<message, failed, busy, operation, setting_error, tasks, outcome, seen>>
          ELSE /\ busy' = TRUE
               /\ failed' = FALSE
               /\ operation' = operation + 1
               /\ Said("none")
               /\ tasks' = tasks \cup {[op |-> operation', action |-> a, form |-> draft.form,
                                        id |-> draft.id, step |-> "asked", result |-> "none"]}
               /\ outcome' = "none"
               /\ seen' = FALSE
               /\ ui' = IF a \in {"login", "test", "discover"} THEN "arm" ELSE "refresh"
  /\ UNCHANGED <<draft, credential, cancel, settings_running, setting_queue, runner, providers,
                 switches>>

Arm ==
  /\ ui = "arm"
  /\ cancel' = IF busy THEN operation ELSE cancel
  /\ ui' = "refresh"
  /\ UNCHANGED <<draft, credential, message, failed, busy, operation, setting_error,
                 settings_running, setting_queue, tasks, runner, providers, switches, outcome,
                 view, seen, clicks>>

(* abort ends a task where it waits. One that a worker thread is running   *)
(* reaches no such place any more and runs on to its report.               *)
Cancel ==
  /\ Click
  /\ view.busy
  /\ IF cancel = 0
     THEN UNCHANGED <<message, failed, busy, operation, cancel, setting_error, tasks, seen>>
     ELSE /\ \A t \in tasks : t.op = cancel /\ t.step # "asked" => t.action \in LateCancels
          /\ tasks' = {t \in tasks : t.op = cancel => t.step # "asked"}
          /\ cancel' = 0
          /\ operation' = operation + 1
          /\ busy' = FALSE
          /\ Said("none")
          /\ failed' = FALSE
          /\ seen' = FALSE
  /\ ui' = "refresh"
  /\ UNCHANGED <<draft, credential, settings_running, setting_queue, runner, providers, switches,
                 outcome, view>>

FormHandler ==
  /\ Click
  /\ ui' = "refresh"
  /\ UNCHANGED <<failed, busy, operation, cancel, settings_running, setting_queue, tasks, runner,
                 providers, switches, outcome>>

(* A row of the list, and the button that adds a Provider. *)
open ==
  /\ FormHandler
  /\ ~view.open /\ ~Blocked
  /\ view' = [view EXCEPT !.open = TRUE, !.commit = FALSE]
  /\ \E p \in providers :
       IF busy THEN UNCHANGED <<draft, credential, message, setting_error, seen>>
       ELSE /\ draft' = [form |-> clicks', id |-> p, found |-> FALSE]
            /\ credential' = clicks'
            /\ Said("none")
            /\ seen' = FALSE

clear_draft ==
  IF busy THEN UNCHANGED <<draft, credential, seen>>
  ELSE draft' = NoDraft /\ credential' = 0 /\ seen' = FALSE

AddProvider ==
  /\ FormHandler
  /\ ~view.open /\ ~Blocked
  /\ view' = [view EXCEPT !.open = TRUE, !.commit = FALSE]
  /\ clear_draft
  /\ UNCHANGED <<message, setting_error>>

close_provider_dialog ==
  /\ FormHandler
  /\ view.open /\ ~Blocked
  /\ view' = [view EXCEPT !.open = FALSE, !.commit = FALSE]
  /\ clear_draft
  /\ UNCHANGED <<message, setting_error>>

(* A preset or another connection: the id and the models stay when the     *)
(* preset does, the credential never.                                      *)
select ==
  /\ FormHandler
  /\ view.open /\ ~view.busy
  /\ \E same \in BOOLEAN :
       IF busy THEN UNCHANGED <<draft, credential, message, setting_error, seen>>
       ELSE /\ draft' = IF same THEN [draft EXCEPT !.form = clicks']
                        ELSE [NoDraft EXCEPT !.form = clicks']
            /\ credential' = 0
            /\ Said("none")
            /\ seen' = FALSE
  /\ UNCHANGED view

(* A field: the view's whole draft replaces the session's. The key goes to *)
(* the session alone.                                                      *)
edit ==
  /\ FormHandler
  /\ view.open /\ ~view.busy /\ view.draft.form # 0
  /\ \/ /\ IF busy THEN UNCHANGED <<draft, message, setting_error>>
           ELSE draft' = view.draft /\ Said("none")
        /\ UNCHANGED credential
     \/ /\ IF busy THEN UNCHANGED credential ELSE credential' = draft.form
        /\ UNCHANGED <<draft, message, setting_error>>
  /\ UNCHANGED <<view, seen>>

(* The notification has its button while no operation runs. *)
dismiss_message ==
  /\ Click
  /\ ~view.busy /\ view.message # "none"
  /\ Said("none")
  /\ failed' = FALSE
  /\ seen' = FALSE
  /\ ui' = "refresh"
  /\ UNCHANGED <<draft, credential, busy, operation, cancel, settings_running, setting_queue,
                 tasks, runner, providers, switches, outcome, view>>

(* What the menu bar reports. *)
set_message == Said("tray") /\ seen' = FALSE

SettingsInput ==
  \/ setting_action \/ action \/ Cancel \/ open \/ AddProvider \/ close_provider_dialog
  \/ select \/ edit \/ dismiss_message

SettingsStep ==
  \/ next_setting \/ SaveSwitch \/ ShowSwitch \/ ShowDock \/ SaveDock \/ finish_setting
  \/ Works \/ Arm \/ Refresh

-----------------------------------------------------------------------------
(* Properties.                                                             *)

(* The form is busy exactly while the operation it waits for is alive, a   *)
(* handle belongs to that operation, and operations and switches exclude   *)
(* each other: no end of an old operation can free or hold the form.       *)
OneOperation ==
  /\ busy <=> \E t \in tasks : t.op = operation
  /\ cancel # 0 => busy /\ cancel = operation
  /\ ~(busy /\ settings_running)
  /\ settings_running <=> runner.at # "none"

(* Once the queue is empty, a switch whose last attempt did not fail is    *)
(* shown as its file says, and that is the last choice the user made. One  *)
(* that failed is still shown as its file says if a failed write leaves    *)
(* the file as it was; one that is reported after the rename does not.     *)
FailuresAreClean == SaveFaults \subseteq {"unwritten"}
SwitchesAgree ==
  ~settings_running =>
    \A k \in Switches :
      /\ k \notin refused \/ FailuresAreClean => shown[k] = saved[k]
      /\ k \notin refused => saved[k] = wanted[k]

(* The view replaces the whole draft when the user types: whenever it lets *)
(* the user type, its copy is of the form the session has, and has what    *)
(* operations stored there, but for the models a discovery that could not  *)
(* be cancelled any more finds afterwards.                                 *)
Shows(v, d) ==
  /\ v.form = d.form /\ v.id = d.id
  /\ "discover" \notin LateCancels => v = d
EditsBuildOnTheForm ==
  view.open /\ ~view.busy /\ ui = "free" => Shows(view.draft, draft)

SettingsAgree == OneOperation /\ SwitchesAgree /\ EditsBuildOnTheForm

(* Without the exceptions: what is shown is always what the file says, and *)
(* the view's copy is always the form.                                     *)
ShownIsSaved == ~settings_running => \A k \in Switches : shown[k] = saved[k]
ViewIsTheForm == view.open /\ ~view.busy /\ ui = "free" => view.draft = draft

(* A save or a removal takes the dialog and the form away when it          *)
(* succeeded, and never when it failed.                                    *)
DialogFollowsOperation ==
  [][view.commit /\ ~view'.commit /\ view' # NoView
       => (view'.open <=> view.open /\ outcome = "error")]_settings_vars

(* A credential in the form was given for that form.                       *)
CredentialOfTheForm == credential \in {0, draft.form}
=============================================================================
