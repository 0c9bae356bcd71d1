------------------------------- MODULE Desktop -------------------------------
(***************************************************************************)
(* desktop.rs and the menu bar (tray.rs), composed with the session of the *)
(* settings window (SettingsSession) and the log (RuntimeLog).             *)
(*                                                                         *)
(* Everything here runs on the UI thread, one handler after the other: the *)
(* window's events, the timers that release a closed window, the poll of   *)
(* the menu every 40 ms, and the ends of what runs elsewhere: a restore of *)
(* Codex's configuration (CodexConfig has its files), the shutdown of the  *)
(* router (EgressServer). An error is sent to the log after the handler's  *)
(* own work, before the next handler.                                      *)
(***************************************************************************)
EXTENDS SettingsSession, RuntimeLog

CONSTANTS
  WindowMayFail,  \* whether making the window may fail
  UnhideUnseen,   \* whether macOS may show a hidden application without an event
  EagerClicks,    \* whether the item may be clicked again before the poll sees the click
  Budgets         \* bound: what one run of the program may bring; each is a record of the
                  \* clicks in the form, the events of window and menu, the records of
                  \* the router and changes of the day, and whether the program starts
                  \* with a window, with an active integration

ASSUME DesktopAssumption ==
  /\ {WindowMayFail, UnhideUnseen, EagerClicks} \subseteq BOOLEAN
  /\ Budgets \subseteq [clicks : Nat, moves : Nat, records : Nat,
                         show : BOOLEAN, active : BOOLEAN]

VARIABLES
  window,       \* "none", "shown" or "hidden"
  initialized,  \* components_initialized: there is a settings session to tell things to
  registry,     \* SettingsRegistry: [generation, pending, quitting]
  timers,       \* the generations whose release timer runs
  menu,         \* menu events the poll has not seen
  tray,         \* what the menu shows: [enabled, item, locale]
  restores,     \* restores of Codex's configuration that run
  codex,        \* whether the integration is active
  errors,       \* records the last handler has still to send
  quit,         \* "no", "stopping" the router, "stopped", "exited"
  moves,        \* events of window and menu so far
  observed,     \* records of the router and changes of the day so far
  budget        \* the budget of this run

shell == <<window, initialized, registry, timers, menu, tray, restores, codex, errors, quit>>
counts == <<moves, observed, budget>>
vars == <<shell, counts, settings_vars, log_vars>>

Init ==
  /\ SettingsInit
  /\ LogInit
  /\ budget \in Budgets
  /\ window = IF budget.show THEN "shown" ELSE "none"
  /\ initialized = (window = "shown")
  /\ view = IF initialized THEN NewView ELSE NoView
  /\ registry = [generation |-> 0, pending |-> FALSE, quitting |-> FALSE]
  /\ timers = {}
  /\ menu = <<>>
  /\ codex = budget.active
  /\ tray = [enabled |-> codex, item |-> TRUE, locale |-> shown["Locale"]]
  /\ restores = 0
  /\ errors = 0
  /\ quit = "no"
  /\ moves = 0
  /\ observed = 0

-----------------------------------------------------------------------------
Running == quit # "exited"
Free == Running /\ ui = "free" /\ errors = 0

Moves ==
  /\ Running
  /\ moves < budget.moves
  /\ moves' = moves + 1
  /\ UNCHANGED <<observed, budget>>
Quiet == UNCHANGED <<settings_vars, log_vars>>

(* Mutant: focusing a window leaves its release under way. *)
LeaveRelease == registry' = registry
cancel_release ==
  registry' = [registry EXCEPT !.generation = @ + 1, !.pending = FALSE]

(* open_or_focus_settings: the release is cancelled first, whatever comes. *)
Opens(failures) ==
  /\ cancel_release
  /\ \/ /\ window' = "shown"
        /\ view' = IF window = "none" THEN NewView ELSE view
        /\ initialized' = TRUE
        /\ errors' = 0
     \/ /\ WindowMayFail /\ window = "none"
        /\ errors' = failures
        /\ initialized' \in {initialized, TRUE}
        /\ UNCHANGED <<window, view>>

SessionButView ==
  UNCHANGED <<session, tasks, runner, providers, switches, outcome, seen, ui, clicks>>

(* The Dock icon or a second launch; nothing is recorded when it fails.    *)
(* macOS may also show the application and tell the program nothing.       *)
Reopen ==
  /\ Moves /\ Free
  /\ ~registry.quitting
  /\ \E told \in {TRUE} \cup (IF UnhideUnseen /\ window = "hidden" THEN {FALSE} ELSE {}) :
       IF told THEN Opens(0)
       ELSE window' = "shown" /\ UNCHANGED <<view, initialized, registry, errors>>
  /\ SessionButView
  /\ UNCHANGED <<timers, menu, tray, restores, codex, quit, log_vars>>

Removed ==
  /\ window' = "none"
  /\ view' = NoView

(* on_window_should_close: the application is hidden and the window kept   *)
(* for a while; once the program quits, the window closes.                 *)
CloseWindow ==
  /\ Moves /\ Free
  /\ window = "shown"
  /\ IF registry.quitting
     THEN Removed /\ cancel_release /\ UNCHANGED timers
     ELSE /\ window' = "hidden"
          /\ registry' = [registry EXCEPT !.generation = @ + 1, !.pending = TRUE]
          /\ timers' = timers \cup {registry'.generation}
          /\ UNCHANGED view
  /\ SessionButView
  /\ UNCHANGED <<initialized, menu, tray, restores, codex, errors, quit, log_vars>>

finish_release(g) == registry.pending /\ registry.generation = g

Release ==
  /\ Free
  /\ \E g \in timers :
       /\ timers' = timers \ {g}
       /\ IF finish_release(g)
          THEN /\ Removed
               /\ registry' = [registry EXCEPT !.generation = @ + 1, !.pending = FALSE]
          ELSE UNCHANGED <<window, view, registry>>
  /\ SessionButView
  /\ UNCHANGED <<initialized, menu, tray, restores, codex, errors, quit, counts, log_vars>>

-----------------------------------------------------------------------------
(* The menu bar.                                                           *)

MenuClick ==
  /\ Moves
  /\ \E c \in {"OpenSettings", "ManageCodexIntegration", "Quit"} :
       /\ c = "ManageCodexIntegration" =>
            tray.item /\ (EagerClicks \/ \A i \in DOMAIN menu : menu[i] # c)
       /\ menu' = Append(menu, c)
  /\ UNCHANGED <<window, initialized, registry, timers, tray, restores, codex, errors, quit>>
  /\ Quiet

(* Mutant: the item is relabelled and stays disabled.                      *)
Relabel(enabled) == tray' = [tray EXCEPT !.enabled = enabled]
set_codex_enabled(enabled) == tray' = [tray EXCEPT !.enabled = enabled, !.item = TRUE]

Polls == Free /\ ~registry.quitting

(* A change of language relabels the menu, by way of set_codex_enabled.    *)
refresh_locale ==
  /\ Polls
  /\ tray.locale # shown["Locale"]
  /\ tray' = [tray EXCEPT !.locale = shown["Locale"], !.item = TRUE]
  /\ UNCHANGED <<window, initialized, registry, timers, menu, restores, codex, errors, quit, counts>>
  /\ Quiet

Polled(c) ==
  /\ Polls
  /\ menu # <<>>
  /\ Head(menu) = c
  /\ menu' = Tail(menu)
  /\ UNCHANGED counts

PollOpen ==
  /\ Polled("OpenSettings")
  /\ Opens(1)
  /\ SessionButView
  /\ UNCHANGED <<timers, tray, restores, codex, quit, log_vars>>

(* What the menu says is not asked: the files are. An integration that is  *)
(* not active is left to the settings window.                              *)
manage_codex_integration_from_tray ==
  /\ Polled("ManageCodexIntegration")
  /\ IF codex
     THEN /\ restores' = restores + 1
          /\ tray' = [tray EXCEPT !.item = FALSE]
          /\ UNCHANGED <<window, view, initialized, registry, errors>>
     ELSE Opens(1) /\ UNCHANGED <<restores, tray>>
  /\ SessionButView
  /\ UNCHANGED <<timers, codex, quit, log_vars>>

sync_settings_codex_status ==
  IF initialized THEN set_message ELSE UNCHANGED <<message, setting_error, seen>>

(* The end of a restore. An error goes to the log, and opens the window    *)
(* after it was told to a session, if there is one.                        *)
RestoreEnds ==
  /\ Free
  /\ restores > 0
  /\ restores' = restores - 1
  /\ sync_settings_codex_status
  /\ \/ /\ codex' = FALSE
        /\ set_codex_enabled(FALSE)
        /\ UNCHANGED <<window, view, initialized, registry, errors>>
     \/ /\ codex' \in {codex, FALSE}
        /\ \E readable \in BOOLEAN : set_codex_enabled(readable => codex')
        /\ cancel_release
        /\ \/ /\ window' = "shown"
              /\ view' = IF window = "none" THEN [NewView EXCEPT !.message = message'] ELSE view
              /\ initialized' = TRUE
              /\ errors' = 1
           \/ /\ WindowMayFail /\ window = "none"
              /\ errors' = 2
              /\ UNCHANGED <<window, view, initialized>>
  /\ UNCHANGED <<draft, credential, failed, busy, operation, cancel, settings_running,
                 setting_queue, tasks, runner, providers, switches, outcome, ui, clicks,
                 timers, menu, quit, counts, log_vars>>

(* graceful_quit: the poll is over, the router stops elsewhere.            *)
graceful_quit ==
  /\ Polled("Quit")
  /\ registry' = [registry EXCEPT !.quitting = TRUE]
  /\ quit' = "stopping"
  /\ UNCHANGED <<window, initialized, timers, tray, restores, codex, errors>>
  /\ Quiet

EgressStopped ==
  /\ Free
  /\ quit = "stopping"
  /\ quit' = "stopped"
  /\ errors' \in {0, 1}
  /\ UNCHANGED <<window, initialized, registry, timers, menu, tray, restores, codex, counts>>
  /\ Quiet

(* AppKit may end the process at once, or return to main: then the log is  *)
(* dropped and waited for.                                                 *)
Exit ==
  /\ Free
  /\ quit = "stopped"
  /\ quit' = "exited"
  /\ CloseLog \/ UNCHANGED sender
  /\ UNCHANGED <<window, initialized, registry, timers, menu, tray, restores, codex, errors, counts,
                 settings_vars, channel, dropped, counting, worker, today, date, files, fit,
                 sent, written, last_written, lost, reported, unreported>>

(* record_runtime_error. *)
RecordError ==
  /\ Running
  /\ errors > 0
  /\ send
  /\ errors' = errors - 1
  /\ UNCHANGED <<window, initialized, registry, timers, menu, tray, restores, codex, quit, counts,
                 settings_vars>>

-----------------------------------------------------------------------------
ShellIdle == UNCHANGED <<window, initialized, registry, timers, menu, tray, restores, codex, errors, quit>>

(* Turning the integration switch changes Codex's files too.               *)
FollowsSwitch ==
  codex' = IF saved' # saved /\ runner.kind = "Integration" THEN runner.choice ELSE codex

FormInput ==
  /\ Free /\ window = "shown"
  /\ clicks < budget.clicks
  /\ SettingsInput
  /\ ShellIdle
  /\ UNCHANGED <<counts, log_vars>>

FormStep ==
  /\ Running /\ errors = 0
  /\ SettingsStep
  /\ FollowsSwitch
  /\ UNCHANGED <<window, initialized, registry, timers, menu, tray, restores, errors, quit, counts,
                 log_vars>>

(* What the router observes, and the clock.                                *)
Observe ==
  /\ Running
  /\ observed < budget.records
  /\ observed' = observed + 1
  /\ send \/ ClockMoves
  /\ ShellIdle
  /\ UNCHANGED <<moves, budget, settings_vars>>

LogWorks ==
  /\ Running \/ sender = "taken"
  /\ LogStep
  /\ ShellIdle
  /\ UNCHANGED <<counts, settings_vars>>

Input == Reopen \/ CloseWindow \/ MenuClick \/ FormInput \/ Observe

Program ==
  \/ Release \/ refresh_locale \/ PollOpen \/ manage_codex_integration_from_tray
  \/ graceful_quit \/ RestoreEnds \/ EgressStopped \/ Exit \/ RecordError
  \/ FormStep \/ LogWorks

Next == Input \/ Program

(* Timers fire, tasks are polled, the login gives up after five minutes,   *)
(* requests after thirty seconds, the router's shutdown after its grace    *)
(* period: some step of the program is always taken in the end.            *)
Spec == Init /\ [][Next]_vars /\ WF_vars(Program)

-----------------------------------------------------------------------------
(* Properties.                                                             *)

(* A closed window is kept for a while and may be opened again: a window   *)
(* that was opened or reopened after it was closed is not taken away by    *)
(* the timer of that close, whichever of several timers fires when.        *)
OpenWindowStays ==
  [][window = "shown" /\ window' = "none" => registry.quitting]_vars

(* Whatever was clicked, everything ends: no operation holds the form, no  *)
(* switch is left in the queue, the view shows the session, a commit is    *)
(* answered, a hidden window is gone or back, a menu item that was         *)
(* disabled for a restore is enabled, the log is empty, and a quit exits.  *)
Settled ==
  \/ quit = "exited" /\ (sender = "taken" => worker.at = "gone")
  \/ /\ ~busy /\ ~settings_running /\ tasks = {}
     /\ view # NoView => seen /\ ~view.busy /\ ~view.pending /\ ~view.commit
     /\ window # "hidden" /\ timers = {}
     /\ menu = <<>> /\ restores = 0 /\ tray.item
     /\ channel = <<>> /\ worker.at = "recv" /\ errors = 0
     /\ quit = "no"

DesktopSettles == []<>Settled

(* At most one restore runs.                                               *)
OneRestore == restores <= 1

(* desktop.rs records "open settings for details": the window an error     *)
(* opens shows a message.                                                  *)
ErrorIsTold == [][restores' < restores /\ window = "none" /\ window' = "shown"
                    => view'.message # "none"]_vars

(* The menu shows whether the integration is active, the window too.       *)
MenuTellsTheTruth == restores = 0 => tray.enabled = codex

=============================================================================
