----------------------------- MODULE CodexConfig -----------------------------
(***************************************************************************)
(* The Codex integration transaction of crates/provider-x-app: the editor   *)
(* of ~/.codex/config.toml (codex_config/mod.rs), the install receipt that  *)
(* makes it recoverable (codex_config/receipt.rs), and the callers that     *)
(* start it (runtime.rs, desktop.rs).                                       *)
(*                                                                          *)
(* A configuration file is reduced to two parts: the value of its three     *)
(* managed keys taken together (openai_base_url, model_catalog_json,        *)
(* model_provider), and everything else, its body.  A SHA-256 is the        *)
(* content it hashes.  A replacement of a file is two steps, because the    *)
(* code compares the hash of the destination and then renames over it.      *)
(***************************************************************************)
EXTENDS Naturals

CONSTANTS
  Urls,           \* the values provider-x gives the managed keys, one per base URL
  UserValues,     \* the values the managed keys have without provider-x
  NoKeys,         \* the user value in which all three keys are absent
  Bodies,         \* the unmanaged part of a configuration
  Blank,          \* the body of an empty file
  Ops,            \* the places an operation can run: UI queue, session, tray, startup
  Boot,           \* the one that runs the startup reconciliation
  Menu,           \* which kinds of operation each of them starts
  Racers,         \* who may act between a hash check and its rename
  CodexDuringOps, \* may Codex write its model cache while an operation runs
  None            \* a missing file, an absent receipt, an unset field

Kinds == {"enable", "disable", "reconcile", "trayDisable", "listener"}
Phases == {"prepared", "active", "restored"}
Managed == Urls \cup UserValues
File == [m: Managed, u: Bodies]
Files == File \cup {None}
Caches == Managed \cup {None}
Receipt == [phase: Phases, hash: Files, orig: Files, backup: Caches, url: Urls]
Receipts == Receipt \cup {None}

Windows == {"renamePrepared", "replaceConfig", "removeCache", "saveFinal"}
Places == Windows \cup
  {"idle", "inspectConfig", "inspectReceipt", "readConfig", "readCache",
   "readReceipt", "checkPrepared", "readBack", "checkConfig", "checkCache",
   "checkFinal"}

Applies(o) == o.kind \in {"enable", "reconcile", "listener"}

\* restore plans its receipt first, apply after it has read everything else.
Planned(o) ==
  \/ o.pc \in Windows \cup {"checkPrepared", "readBack", "checkConfig", "checkCache", "checkFinal"}
  \/ o.pc \in {"readConfig", "readCache"} /\ ~Applies(o)

\* held is the receipt the next save expects on disk, plan the one it writes.
Operation == {o \in [pc: Places, kind: Kinds, cfg: Files, cache: Caches,
                     plan: Receipts, held: Receipts] : Planned(o) => o.plan # None}

ASSUME CodexAssumption ==
  /\ NoKeys \in UserValues
  /\ Blank \in Bodies
  /\ Urls \cap UserValues = {}
  /\ None \notin File \cup Managed \cup Receipt
  /\ Boot \in Ops
  /\ Menu \in [Ops -> SUBSET (Kinds \ {"listener"})]
  /\ Racers \subseteq {"operation", "editor"}
  /\ CodexDuringOps \in BOOLEAN

VARIABLES
  config,   \* ~/.codex/config.toml
  cache,    \* models_cache.json: the managed value Codex had when it wrote it
  receipt,  \* install-receipt.json
  op,       \* what each place of Ops is doing
  mode,     \* the provider-x process: "down", "starting" or "up"
  url,      \* the base URL this process wants in the configuration
  edited,   \* has anybody else changed the managed keys since the backup was taken
  misled    \* operations that take the model cache to be gone where Codex wrote it again

files == <<config, cache, receipt>>
vars == <<config, cache, receipt, op, mode, url, edited, misled>>

IdleOp == [pc |-> "idle", kind |-> "enable", cfg |-> None, cache |-> None,
           plan |-> None, held |-> None]

\* A process that is down runs nothing; one that is starting runs its boot operation.
ProcessOK ==
  /\ op \in [Ops -> Operation]
  /\ mode \in {"down", "starting", "up"}
  /\ url \in Urls \cup {None}
  /\ url \in Urls <=> mode # "down"
  /\ \A t \in Ops : op[t].pc # "idle" => mode = "up" \/ (mode = "starting" /\ t = Boot)

\* Every file and every operation has the shape its reader expects, and no
\* operation outlives its process.
TypeOK ==
  /\ config \in Files
  /\ cache \in Caches
  /\ receipt \in Receipts
  /\ edited \in BOOLEAN
  /\ misled \subseteq Ops
  /\ ProcessOK

(***************************************************************************)
(* Documents.                                                               *)
(***************************************************************************)
AsFile(f) == IF f = None THEN [m |-> NoKeys, u |-> Blank] ELSE f
Keys(f) == AsFile(f).m
Body(f) == AsFile(f).u

Installed(r) == r # None /\ r.phase # "restored"
managed_state_matches(f, r) == Keys(f) = r.url
original_managed_state_matches(f, r) == Keys(f) = Keys(r.orig)

\* Mutant: a prepared receipt is accepted only over the planned configuration.
ValidatesPlanned(f, r) ==
  \/ r.phase = "active" /\ managed_state_matches(f, r)
  \/ r.phase = "prepared" /\ (f = r.hash \/ managed_state_matches(f, r))
  \/ r.phase = "restored" /\ original_managed_state_matches(f, r)

validate_current_against_receipt(f, r) ==
  \/ r.phase = "active" /\ managed_state_matches(f, r)
  \/ /\ r.phase = "prepared"
     /\ \/ f = r.hash
        \/ managed_state_matches(f, r)
        \/ original_managed_state_matches(f, r)
  \/ r.phase = "restored" /\ original_managed_state_matches(f, r)

active_integration(f, r) ==
  r # None /\ r.phase = "active" /\ managed_state_matches(f, r)

\* Mutant: every apply backs up the configuration it finds.
PreparedRebased(f, c, r, u) ==
  [phase |-> "prepared", hash |-> [m |-> u, u |-> Body(f)], url |-> u,
   orig |-> f, backup |-> c]

\* Mutant: every apply backs up the model cache it finds.
PreparedOverCache(f, c, r, u) ==
  [phase |-> "prepared", hash |-> [m |-> u, u |-> Body(f)], url |-> u,
   orig |-> IF Installed(r) THEN r.orig ELSE f, backup |-> c]

\* The receipt apply writes before it touches the configuration.
Prepared(f, c, r, u) ==
  [phase |-> "prepared", hash |-> [m |-> u, u |-> Body(f)], url |-> u,
   orig |-> IF Installed(r) THEN r.orig ELSE f,
   backup |-> IF Installed(r) THEN r.backup ELSE c]

\* Mutant: keys that were absent originally are not removed again.
RestoredPresent(f, r) ==
  [m |-> IF Keys(r.orig) = NoKeys THEN Keys(f) ELSE Keys(r.orig), u |-> Body(f)]

\* What restore leaves of configuration f: the original keys, the current body.
Restored(f, r) == [m |-> Keys(r.orig), u |-> Body(f)]

\* Mutant: restore writes the whole original file back.
RestoreOriginalFile(f, r) == r.orig

RestoreTarget(f, r) ==
  IF r.orig = None /\ Restored(f, r) = AsFile(None) THEN None ELSE Restored(f, r)

RestoreWrites(f, r) ==
  IF RestoreTarget(f, r) = None THEN f # None ELSE Restored(f, r) # AsFile(f)

\* An apply that found no model cache never looks at it again, and neither does an
\* operation that removed it.
TakesCacheAsGone(o) ==
  \/ o.pc \in {"checkFinal", "saveFinal"}
  \/ o.pc \in {"checkConfig", "replaceConfig"} /\ (Applies(o) => o.cache = None)
  \/ /\ o.pc \in {"readReceipt", "checkPrepared", "renamePrepared", "readBack"}
     /\ Applies(o) /\ o.cache = None

(***************************************************************************)
(* Operations: one record per place, one action per file access.            *)
(***************************************************************************)
InWindow(t) == op[t].pc \in Windows

\* Operations of one process share no lock: only Racers says what may overlap.
At(t, pc) ==
  /\ op[t].pc = pc
  /\ "operation" \in Racers \/ \A s \in Ops \ {t} : ~InWindow(s)

Goto(t, o, pc) == op' = [op EXCEPT ![t] = [o EXCEPT !.pc = pc]]

\* A failed startup reconciliation ends the process; the others report an error.
Abandon(t) ==
  /\ op' = [op EXCEPT ![t] = IdleOp]
  /\ mode' = IF mode = "starting" THEN "down" ELSE mode
  /\ url' = IF mode = "starting" THEN None ELSE url

Complete(t) ==
  /\ op' = [op EXCEPT ![t] = IdleOp]
  /\ mode' = "up"
  /\ UNCHANGED url

\* Goes on to pc when the guard holds and ends with an error otherwise.
Require(t, guard, o, pc) ==
  IF guard THEN Goto(t, o, pc) /\ UNCHANGED <<mode, url>> ELSE Abandon(t)

Request(t, kind) ==
  /\ mode = "up"
  /\ op[t].pc = "idle"
  /\ kind \in Menu[t]
  /\ Goto(t, [IdleOp EXCEPT !.kind = kind],
          CASE kind \in {"reconcile", "trayDisable"} -> "inspectConfig"
            [] kind = "enable" -> "readConfig"
            [] kind = "disable" -> "readReceipt")
  /\ misled' = misled \ {t}
  /\ UNCHANGED <<files, mode, url, edited>>

InspectConfig(t) ==
  /\ At(t, "inspectConfig")
  /\ Goto(t, [op[t] EXCEPT !.cfg = config], "inspectReceipt")
  /\ UNCHANGED <<files, mode, url, edited, misled>>

\* An integration that is not active, or already current at startup, is left alone.
InspectReceipt(t) ==
  /\ At(t, "inspectReceipt")
  /\ IF /\ active_integration(op[t].cfg, receipt)
        /\ op[t].kind = "listener" => receipt.url # url
     THEN /\ Goto(t, [op[t] EXCEPT !.cfg = None],
                  IF Applies(op[t]) THEN "readConfig" ELSE "readReceipt")
          /\ UNCHANGED <<mode, url>>
     ELSE Complete(t)
  /\ UNCHANGED <<files, edited, misled>>

\* apply reads the configuration first; restore reads it against its receipt.
ReadConfig(t) ==
  /\ At(t, "readConfig")
  /\ Require(t, Applies(op[t]) \/ validate_current_against_receipt(config, op[t].held),
             [op[t] EXCEPT !.cfg = config], "readCache")
  /\ UNCHANGED <<files, edited, misled>>

ReadCache(t) ==
  LET o == [op[t] EXCEPT !.cache = cache] IN
  /\ At(t, "readCache")
  /\ Goto(t, o, CASE Applies(o) -> "readReceipt"
                  [] ~Applies(o) /\ cache # None -> "checkCache"
                  [] ~Applies(o) /\ cache = None ->
                       IF RestoreWrites(o.cfg, o.plan) THEN "checkConfig" ELSE "checkFinal")
  /\ UNCHANGED <<files, mode, url, edited, misled>>

ApplyReadReceipt(t) ==
  /\ At(t, "readReceipt")
  /\ Applies(op[t])
  /\ Require(t, Installed(receipt) => validate_current_against_receipt(op[t].cfg, receipt),
             [op[t] EXCEPT !.held = receipt,
                           !.plan = Prepared(op[t].cfg, op[t].cache, receipt, url)],
             "checkPrepared")
  /\ UNCHANGED <<files, edited, misled>>

RestoreReadReceipt(t) ==
  /\ At(t, "readReceipt")
  /\ ~Applies(op[t])
  /\ IF receipt # None /\ receipt.phase = "restored"
     THEN Complete(t)
     ELSE Require(t, receipt # None,
                  [op[t] EXCEPT !.held = receipt,
                                !.plan = [receipt EXCEPT !.phase = "restored", !.hash = None]],
                  "readConfig")
  /\ UNCHANGED <<files, edited, misled>>

CheckPrepared(t) ==
  /\ At(t, "checkPrepared")
  /\ Require(t, receipt = op[t].held, op[t], "renamePrepared")
  /\ UNCHANGED <<files, edited, misled>>

RenamePrepared(t) ==
  /\ At(t, "renamePrepared")
  /\ receipt' = op[t].plan
  /\ edited' = IF Installed(op[t].held) THEN edited ELSE Keys(config) # Keys(op[t].plan.orig)
  /\ Goto(t, op[t], "readBack")
  /\ UNCHANGED <<config, cache, mode, url, misled>>

\* The hash the second save expects is that of the receipt read back, whoever wrote it.
ReadBack(t) ==
  /\ At(t, "readBack")
  /\ Goto(t, [op[t] EXCEPT !.held = receipt], "checkConfig")
  /\ UNCHANGED <<files, mode, url, edited, misled>>

\* Mutant: the configuration is replaced without comparing its hash.
CheckConfigNever(t) ==
  /\ At(t, "checkConfig")
  /\ Require(t, TRUE, op[t], "replaceConfig")
  /\ UNCHANGED <<files, edited, misled>>

CheckConfig(t) ==
  /\ At(t, "checkConfig")
  /\ Require(t, config = op[t].cfg, op[t], "replaceConfig")
  /\ UNCHANGED <<files, edited, misled>>

\* Mutant: apply leaves the model cache alone.
ReplaceConfigOnly(t) ==
  LET o == op[t] IN
  /\ At(t, "replaceConfig")
  /\ config' = IF Applies(o) THEN o.plan.hash ELSE RestoreTarget(o.cfg, o.plan)
  /\ Goto(t, o, "checkFinal")
  /\ UNCHANGED <<cache, receipt, mode, url, edited, misled>>

ReplaceConfig(t) ==
  LET o == op[t] IN
  /\ At(t, "replaceConfig")
  /\ config' = IF Applies(o) THEN o.plan.hash ELSE RestoreTarget(o.cfg, o.plan)
  /\ Goto(t, o, IF Applies(o) /\ o.cache # None THEN "checkCache" ELSE "checkFinal")
  /\ UNCHANGED <<cache, receipt, mode, url, edited, misled>>

CheckCache(t) ==
  /\ At(t, "checkCache")
  /\ Require(t, cache = op[t].cache, op[t], "removeCache")
  /\ UNCHANGED <<files, edited, misled>>

\* apply drops the cache after the configuration write, restore before it.
RemoveCache(t) ==
  LET o == op[t] IN
  /\ At(t, "removeCache")
  /\ cache' = None
  /\ Goto(t, o, IF ~Applies(o) /\ RestoreWrites(o.cfg, o.plan)
                THEN "checkConfig" ELSE "checkFinal")
  /\ UNCHANGED <<config, receipt, mode, url, edited, misled>>

CheckFinal(t) ==
  /\ At(t, "checkFinal")
  /\ Require(t, receipt = op[t].held, op[t], "saveFinal")
  /\ UNCHANGED <<files, edited, misled>>

SaveFinal(t) ==
  /\ At(t, "saveFinal")
  /\ receipt' = IF Applies(op[t]) THEN [op[t].plan EXCEPT !.phase = "active"] ELSE op[t].plan
  /\ Complete(t)
  /\ UNCHANGED <<config, cache, edited, misled>>

\* Any file access may fail: permissions, I/O, malformed TOML or a full disk.
IoFail(t) ==
  /\ op[t].pc # "idle"
  /\ Abandon(t)
  /\ UNCHANGED <<files, edited, misled>>

Step(t) ==
  \/ \E kind \in Kinds : Request(t, kind)
  \/ InspectConfig(t) \/ InspectReceipt(t)
  \/ ReadConfig(t) \/ ReadCache(t)
  \/ ApplyReadReceipt(t) \/ RestoreReadReceipt(t)
  \/ CheckPrepared(t) \/ RenamePrepared(t) \/ ReadBack(t)
  \/ CheckConfig(t) \/ ReplaceConfig(t)
  \/ CheckCache(t) \/ RemoveCache(t)
  \/ CheckFinal(t) \/ SaveFinal(t)
  \/ IoFail(t)

(***************************************************************************)
(* The process and its environment.                                         *)
(***************************************************************************)
\* A new capability is 256 random bits: it is in no file yet.
FreshUrls == Urls \ ({Keys(config), cache} \cup
                     IF receipt = None THEN {} ELSE {receipt.url, Keys(receipt.orig), receipt.backup})

\* The capability of an active integration is kept; the port may still change.
Start ==
  /\ mode = "down"
  /\ IF active_integration(config, receipt)
     THEN /\ url' \in {receipt.url} \cup FreshUrls
          /\ mode' = "starting"
          /\ Goto(Boot, [IdleOp EXCEPT !.kind = "listener"], "inspectConfig")
          /\ misled' = misled \ {Boot}
     ELSE /\ url' \in FreshUrls
          /\ mode' = "up"
          /\ UNCHANGED <<op, misled>>
  /\ UNCHANGED <<files, edited>>

Crash ==
  /\ mode # "down"
  /\ mode' = "down"
  /\ url' = None
  /\ op' = [t \in Ops |-> IdleOp]
  /\ UNCHANGED <<files, edited, misled>>

\* The user or Codex rewrites the configuration; a provider-x URL is at most kept.
Edit ==
  /\ "editor" \in Racers \/ \A t \in Ops : ~InWindow(t)
  /\ config' \in {f \in Files : Keys(f) \in UserValues \cup {Keys(config)}}
  /\ config' # config
  /\ edited' = (edited \/ Keys(config') # Keys(config))
  /\ UNCHANGED <<cache, receipt, op, mode, url, misled>>

\* Codex writes the model list it obtained under its current configuration.
Regenerate ==
  /\ CodexDuringOps \/ \A t \in Ops : op[t].pc = "idle"
  /\ cache # Keys(config)
  /\ cache' = Keys(config)
  /\ misled' = misled \cup {t \in Ops : TakesCacheAsGone(op[t])}
  /\ UNCHANGED <<config, receipt, op, mode, url, edited>>

Init ==
  /\ config \in {f \in Files : Keys(f) \in UserValues}
  /\ cache \in {None, Keys(config)}
  /\ receipt = None
  /\ op = [t \in Ops |-> IdleOp]
  /\ mode = "down"
  /\ url = None
  /\ edited = FALSE
  /\ misled = {}

Next ==
  \/ \E t \in Ops : Step(t)
  \/ Start \/ Crash \/ Edit \/ Regenerate

Spec == Init /\ [][Next]_vars

(***************************************************************************)
(* Properties.                                                              *)
(***************************************************************************)
\* While a provider-x URL is in the configuration, the receipt on disk holds the
\* values it displaced, and those are the user's: apply never backs up its own
\* URL and restore never forgets the backup before the URL is gone.
RecoveryDataKept ==
  /\ Keys(config) \in Urls => Installed(receipt)
  /\ Installed(receipt) => Keys(receipt.orig) \in UserValues

\* The managed keys and their backup behave as ManagedKeys says: a URL displaces
\* exactly the value that is backed up, whatever the user edits meanwhile.
Abstract == INSTANCE ManagedKeys WITH
  keys <- Keys(config),
  backup <- IF Installed(receipt) THEN Keys(receipt.orig) ELSE None
KeepsManagedKeys == Abstract!Spec

\* Whatever operations overlap, no step of provider-x changes the unmanaged part
\* of the configuration.
UserContentPreserved ==
  [][op' # op => Body(config') = Body(config)]_vars

\* From the first apply to the restore the backup is never taken again, so a
\* reconciliation cannot replace the original configuration or model cache.
BackupNotRebased ==
  [][Installed(receipt) /\ Installed(receipt')
       => receipt'.orig = receipt.orig /\ receipt'.backup = receipt.backup]_vars

\* When restore declares the integration restored, the managed keys are the
\* original ones unless somebody else changed them.
RestoreReturnsOriginal ==
  [][Installed(receipt) /\ receipt' # receipt /\ ~Installed(receipt')
       => edited \/ Keys(config) = Keys(receipt.orig)]_vars

\* The step with which t completes an apply or a restore.
Completes(t) == op[t].pc = "saveFinal" /\ receipt' # receipt

\* Codex may write its model cache at any moment, and a completed apply or restore leaves
\* none that it wrote under another configuration, with one exception: Codex wrote it
\* after the operation had found or made it absent, and before it ended.
CacheFollowsConfig ==
  [][\A t \in Ops \ misled : Completes(t) => cache \in {None, Keys(config)}]_vars

\* Without the exception: no operation at all leaves a stale model cache.
NoStaleCache ==
  [][\A t \in Ops : Completes(t) => cache \in {None, Keys(config)}]_vars

\* Every replacement by provider-x writes over the content its check compared.
CheckedReplacement ==
  [][\A t \in Ops :
       /\ op[t].pc = "replaceConfig" /\ config' # config => config = op[t].cfg
       /\ op[t].pc \in {"renamePrepared", "saveFinal"} /\ receipt' # receipt
            => receipt = op[t].held]_vars

\* Nothing runs, and neither apply nor restore will accept the receipt again.
Blocked ==
  /\ Installed(receipt)
  /\ ~validate_current_against_receipt(config, receipt)
  /\ \A t \in Ops : op[t].pc = "idle"

\* Apply and restore refuse to work only when somebody else changed the managed keys.
BlockedOnlyByEdits == Blocked => edited

\* Without such a change there are exactly two ways to be blocked, both after an
\* interruption: a restore that wrote the configuration and not its receipt, and
\* an apply of a new URL that wrote its receipt and not the configuration.
BlockedOnlyByInterruption ==
  Blocked /\ ~edited =>
    \/ receipt.phase = "active" /\ Keys(config) = Keys(receipt.orig)
    \/ receipt.phase = "prepared" /\ Keys(config) \in Urls

(***************************************************************************)
(* Inductive invariants.                                                    *)
(***************************************************************************)
\* A receipt that may be installed: it plans a URL and backs up a user value.
Sound(r) ==
  /\ r.hash # None /\ Keys(r.hash) \in Urls
  /\ Keys(r.orig) \in UserValues

\* Configuration f holds what provider-x wrote or what receipt r has backed up.
Displaceable(f, r) == Keys(f) \in Urls \cup {Keys(r.orig)}

Preparing == {"checkPrepared", "renamePrepared"}
Installing == {"readBack", "checkConfig", "replaceConfig", "checkCache", "removeCache",
               "checkFinal", "saveFinal"}

\* What apply knows about the receipt on disk, from its reads to its last save.
ApplyCustody(o) ==
  /\ o.pc \in {"readCache", "readReceipt"} /\ Keys(o.cfg) \in Urls => Installed(receipt)
  /\ o.pc \in Preparing \cup Installing =>
       o.plan.phase = "prepared" /\ Sound(o.plan) /\ Displaceable(o.cfg, o.plan)
  /\ o.pc \in Preparing =>
       /\ o.held = receipt
       /\ Installed(receipt) => o.plan.orig = receipt.orig /\ o.plan.backup = receipt.backup
  /\ o.pc \in Installing => receipt = o.plan

\* What restore knows about it: it is the one restore was given, and it outlives the URL.
RestoreCustody(o) ==
  /\ o.pc \notin Preparing \cup {"readBack"}
  /\ Planned(o) =>
       /\ Installed(receipt)
       /\ o.held = receipt
       /\ o.plan = [receipt EXCEPT !.phase = "restored", !.hash = None]
  /\ Planned(o) /\ o.pc # "readConfig" =>
       /\ Displaceable(o.cfg, receipt)
       /\ Keys(config) \in Urls => Keys(o.cfg) \in Urls
  /\ o.pc \in {"checkFinal", "saveFinal"} => Keys(config) \notin Urls

DiskCustody ==
  /\ Keys(config) \in Urls => Installed(receipt)
  /\ Installed(receipt) => Sound(receipt) /\ (~edited => Displaceable(config, receipt))

OperationCustody(o) == IF Applies(o) THEN ApplyCustody(o) ELSE RestoreCustody(o)

\* While operations do not overlap, the receipt is in safe hands at every step of
\* apply and restore, and what it cannot give back somebody else has edited.
Custody == DiskCustody /\ \A t \in Ops : OperationCustody(op[t])

\* Between the hash check and the rename the configuration keeps the content that
\* was checked, as long as the window admits nobody.
Unraced ==
  \A t \in Ops : op[t].pc = "replaceConfig" => config = op[t].cfg

\* What operation t takes to be gone is gone, unless Codex has misled it; only an apply
\* gets to the steps that prepare a receipt.
CacheCustody(t, o) ==
  /\ Applies(o) \/ o.pc \notin Preparing \cup {"readBack"}
  /\ t \notin misled /\ TakesCacheAsGone(o) => cache = None

CachesInCustody == \A t \in Ops : CacheCustody(t, op[t])

\* An apply writes the URL its receipt names.
UrlCustody(o) ==
  Applies(o) =>
    /\ o.pc \in Preparing \cup Installing => Keys(o.plan.hash) = o.plan.url
    /\ o.pc \in {"checkCache", "removeCache", "checkFinal", "saveFinal"} /\ Keys(config) \in Urls
         => Keys(config) = o.plan.url

\* No receipt is active over another URL than its own.
UrlsInCustody ==
  /\ Installed(receipt) /\ receipt.phase = "active" /\ Keys(config) \in Urls
       => Keys(config) = receipt.url
  /\ \A t \in Ops : UrlCustody(op[t])

\* The configuration an apply plans differs from the one it read in managed keys only.
BodyPlanned(o) ==
  Applies(o) /\ o.pc \in Preparing \cup Installing =>
    o.plan.hash # None /\ Body(o.plan.hash) = Body(o.cfg)

\* However operations overlap, the one that is about to rename carries the body of
\* the current configuration.
BodyCustody ==
  \A t \in Ops :
    /\ BodyPlanned(op[t])
    /\ op[t].pc = "replaceConfig" => Body(op[t].cfg) = Body(config)
=============================================================================
