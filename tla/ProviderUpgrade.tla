---------------------------- MODULE ProviderUpgrade ----------------------------
(***************************************************************************)
(* The start of provider-x under the lock of its single instance, and the  *)
(* replacement of a Provider document of another schema: both documents    *)
(* are backed up, a receipt names the backup, and an interrupted upgrade   *)
(* is resumed from it by the next start.                                   *)
(*                                                                         *)
(* The SHA-256 of a file stands for its content.  A file operation that    *)
(* fails ends the start as a crash does, before its rename or after it.    *)
(* The window between the comparison and the rename of a write is modelled *)
(* in CodexConfig and is one step here.                                    *)
(***************************************************************************)
EXTENDS Naturals

CONSTANTS
    Processes,
    OldDocs, NewDocs,     \* Provider documents of another schema, and of this one
    OldCaches, NewCaches, \* model caches of another schema, and of this one
    default_providers,    \* the documents an upgrade leaves
    empty_cache,
    Directories,          \* names of backup directories
    MaxMishaps,           \* bound: crashes and failed file operations
    MaxEdits,             \* bound: edits of the documents by another program
    EditsDuringStart,     \* may they happen while a process starts?
    Missing,              \* no file, no directory
    Nobody                \* holder of a free lock

Docs == OldDocs \cup NewDocs

Caches == OldCaches \cup NewCaches

ASSUME UpgradeAssumption ==
    /\ default_providers \in NewDocs /\ empty_cache \in NewCaches
    /\ OldDocs \cap NewDocs = {} /\ OldCaches \cap NewCaches = {}
    /\ MaxMishaps \in Nat /\ MaxEdits \in Nat
    /\ EditsDuringStart \in BOOLEAN
    /\ Missing \notin Docs \cup Caches
    /\ Nobody \notin Processes

Receipt == [directory : Directories, providers_sha256 : Docs, cache_sha256 : Caches \cup {Missing},
            complete : BOOLEAN]

\* Both files, on the disk or in a backup directory.
Documents == [providers : Docs \cup {Missing}, cache : Caches \cup {Missing}]

ASSUME MissingAssumption == Missing \notin Receipt \cup Documents

VARIABLES
    disk,    \* providers.yaml and cache/models.yaml
    receipt, \* provider-upgrade.json
    backups, \* what each backup directory holds
    lock,    \* the process that holds provider-x.lock
    proc,    \* what each process is doing, and what it has read
    mishaps,
    edits

vars == <<disk, receipt, backups, lock, proc, mishaps, edits>>

\* The steps of prepare, begin, finish and load, in their order.
Starting ==
    {"receipt", "providers", "cache", "directory", "backup_providers", "backup_cache",
     "save_receipt", "verify", "check_providers", "check_cache", "write_cache",
     "write_providers", "complete", "load"}

Pcs == {"off", "waiting", "running"} \cup Starting

Process ==
    [pc : Pcs, providers : Docs \cup {Missing}, cache : Caches \cup {Missing},
     directory : Directories \cup {Missing}, receipt : Receipt \cup {Missing}]

Off == [pc |-> "off", providers |-> Missing, cache |-> Missing, directory |-> Missing,
        receipt |-> Missing]

NoBackup == [providers |-> Missing, cache |-> Missing]

Init ==
    /\ disk \in Documents
    /\ disk.cache \in OldCaches => disk.providers \in OldDocs
    /\ receipt = Missing
    /\ backups = [d \in Directories |-> Missing]
    /\ lock = Nobody
    /\ proc = [p \in Processes |-> Off]
    /\ mishaps = 0 /\ edits = 0

At(p, pc) == proc[p].pc = pc

Goes(p, pc) == proc' = [proc EXCEPT ![p].pc = pc]

\* The start ends with an error, and its guard releases the lock.
Ends(p) ==
    /\ proc' = [proc EXCEPT ![p] = Off]
    /\ lock' = IF lock = p THEN Nobody ELSE lock

GoesOrEnds(p, condition, state) ==
    IF condition THEN proc' = [proc EXCEPT ![p] = state] /\ UNCHANGED lock ELSE Ends(p)

(***************************************************************************)
(* SingleInstanceGuard::acquire_with_timeout                               *)
(***************************************************************************)

Files == <<disk, receipt, backups>>

Start(p) ==
    /\ At(p, "off") /\ Goes(p, "waiting")
    /\ UNCHANGED <<Files, lock, mishaps, edits>>

acquire(p) ==
    /\ At(p, "waiting") /\ lock = Nobody
    /\ lock' = p
    /\ Goes(p, "receipt")
    /\ UNCHANGED <<Files, mishaps, edits>>

AlreadyRunning(p) ==
    /\ At(p, "waiting") /\ lock # Nobody
    /\ Ends(p)
    /\ UNCHANGED <<Files, mishaps, edits>>

(***************************************************************************)
(* prepare and begin                                                       *)
(***************************************************************************)

LoadReceipt(p) ==
    /\ At(p, "receipt")
    /\ proc' = [proc EXCEPT ![p].receipt = receipt,
                            ![p].pc = IF receipt = Missing THEN "providers" ELSE "verify"]
    /\ UNCHANGED <<Files, lock, mishaps, edits>>

LoadProviders(p) ==
    /\ At(p, "providers")
    /\ proc' = [proc EXCEPT ![p].providers = disk.providers,
                            ![p].pc = IF disk.providers \in OldDocs THEN "cache" ELSE "load"]
    /\ UNCHANGED <<Files, lock, mishaps, edits>>

LoadCache(p) ==
    /\ At(p, "cache")
    /\ proc' = [proc EXCEPT ![p].cache = disk.cache, ![p].pc = "directory"]
    /\ UNCHANGED <<Files, lock, mishaps, edits>>

MakeDirectory(p) ==
    /\ At(p, "directory")
    /\ \E d \in Directories :
          /\ backups[d] = Missing
          /\ backups' = [backups EXCEPT ![d] = NoBackup]
          /\ proc' = [proc EXCEPT ![p].directory = d, ![p].pc = "backup_providers"]
    /\ UNCHANGED <<disk, receipt, lock, mishaps, edits>>

BackUp(p) ==
    /\ LET d == proc[p].directory IN
       \/ /\ At(p, "backup_providers")
          /\ backups' = [backups EXCEPT ![d].providers = proc[p].providers]
          /\ Goes(p, "backup_cache")
       \/ /\ At(p, "backup_cache")
          /\ backups' = [backups EXCEPT ![d].cache = proc[p].cache]
          /\ Goes(p, "save_receipt")
    /\ UNCHANGED <<disk, receipt, lock, mishaps, edits>>

\* Mutated form of Begun: the receipt says that the upgrade is complete.
BegunComplete(p) ==
    [directory |-> proc[p].directory, providers_sha256 |-> proc[p].providers,
     cache_sha256 |-> proc[p].cache, complete |-> TRUE]

\* The receipt of an upgrade that has begun.
Begun(p) ==
    [directory |-> proc[p].directory, providers_sha256 |-> proc[p].providers,
     cache_sha256 |-> proc[p].cache, complete |-> FALSE]

SaveReceipt(p) ==
    /\ At(p, "save_receipt")
    /\ GoesOrEnds(p, receipt = Missing, [proc[p] EXCEPT !.receipt = Begun(p), !.pc = "verify"])
    /\ receipt' = IF receipt = Missing THEN Begun(p) ELSE receipt
    /\ UNCHANGED <<disk, backups, mishaps, edits>>

(***************************************************************************)
(* finish                                                                  *)
(***************************************************************************)

Verify(p) ==
    /\ At(p, "verify")
    /\ LET r == proc[p].receipt IN
       GoesOrEnds(p,
           backups[r.directory] = [providers |-> r.providers_sha256, cache |-> r.cache_sha256],
           [proc[p] EXCEPT !.pc = IF r.complete THEN "load" ELSE "check_providers"])
    /\ UNCHANGED <<Files, mishaps, edits>>

\* Mutated form of replacement_hash: a document the upgrade already replaced is refused.
ReplacesOriginals(current, original, replacement) == current = original

\* Mutated form of replacement_hash: any document is replaced.
ReplacesAnything(current, original, replacement) == TRUE

replacement_hash(current, original, replacement) == current \in {original, replacement}

CheckProviders(p) ==
    /\ At(p, "check_providers")
    /\ GoesOrEnds(p,
           replacement_hash(disk.providers, proc[p].receipt.providers_sha256, default_providers),
           [proc[p] EXCEPT !.providers = disk.providers, !.pc = "check_cache"])
    /\ UNCHANGED <<Files, mishaps, edits>>

CheckCache(p) ==
    /\ At(p, "check_cache")
    /\ GoesOrEnds(p,
           replacement_hash(disk.cache, proc[p].receipt.cache_sha256, empty_cache),
           [proc[p] EXCEPT !.cache = disk.cache, !.pc = "write_cache"])
    /\ UNCHANGED <<Files, mishaps, edits>>

WriteCache(p) ==
    /\ At(p, "write_cache")
    /\ GoesOrEnds(p, disk.cache = proc[p].cache, [proc[p] EXCEPT !.pc = "write_providers"])
    /\ disk' = [disk EXCEPT !.cache = IF @ = proc[p].cache THEN empty_cache ELSE @]
    /\ UNCHANGED <<receipt, backups, mishaps, edits>>

WriteProviders(p) ==
    /\ At(p, "write_providers")
    /\ GoesOrEnds(p, disk.providers = proc[p].providers, [proc[p] EXCEPT !.pc = "complete"])
    /\ disk' = [disk EXCEPT !.providers = IF @ = proc[p].providers THEN default_providers ELSE @]
    /\ UNCHANGED <<receipt, backups, mishaps, edits>>

Completed(p) == [proc[p].receipt EXCEPT !.complete = TRUE]

Complete(p) ==
    /\ At(p, "complete")
    /\ GoesOrEnds(p, receipt = proc[p].receipt,
           [proc[p] EXCEPT !.receipt = Completed(p), !.pc = "load"])
    /\ receipt' = IF receipt = proc[p].receipt THEN Completed(p) ELSE receipt
    /\ UNCHANGED <<disk, backups, mishaps, edits>>

(***************************************************************************)
(* The application                                                         *)
(***************************************************************************)

\* ControlPlane::load refuses documents of another schema.
Load(p) ==
    /\ At(p, "load")
    /\ GoesOrEnds(p,
           disk.providers \notin OldDocs /\ disk.cache \notin OldCaches,
           [proc[p] EXCEPT !.providers = disk.providers, !.cache = disk.cache, !.pc = "running"])
    /\ UNCHANGED <<Files, mishaps, edits>>

\* The user closed the notice: the receipt it was read from is removed.
acknowledge(p) ==
    /\ At(p, "running")
    /\ receipt # Missing /\ receipt = proc[p].receipt
    /\ receipt' = Missing
    /\ proc' = [proc EXCEPT ![p].receipt = Missing]
    /\ UNCHANGED <<disk, backups, lock, mishaps, edits>>

\* The user saves a Provider: the files are those the control plane holds.
Save(p) ==
    /\ At(p, "running")
    /\ disk = [providers |-> proc[p].providers, cache |-> proc[p].cache]
    /\ disk' \in [providers : NewDocs, cache : NewCaches]
    /\ proc' = [proc EXCEPT ![p].providers = disk'.providers, ![p].cache = disk'.cache]
    /\ UNCHANGED <<receipt, backups, lock, mishaps, edits>>

Quit(p) ==
    /\ At(p, "running") /\ Ends(p)
    /\ UNCHANGED <<Files, mishaps, edits>>

\* A crash at any point, or a file operation that fails before or after its effect.
Crash(p) ==
    /\ ~ At(p, "off") /\ mishaps < MaxMishaps
    /\ Ends(p)
    /\ mishaps' = mishaps + 1
    /\ UNCHANGED <<Files, edits>>

\* Another program writes a document: an older provider-x, or the user who puts a backup back.
Edit ==
    /\ edits < MaxEdits
    /\ EditsDuringStart \/ \A p \in Processes : proc[p].pc \notin Starting
    /\ \/ \E doc \in Docs : doc # disk.providers /\ disk' = [disk EXCEPT !.providers = doc]
       \/ \E cache \in Caches : cache # disk.cache /\ disk' = [disk EXCEPT !.cache = cache]
    /\ edits' = edits + 1
    /\ UNCHANGED <<receipt, backups, lock, proc, mishaps>>

Prepare(p) ==
    \/ acquire(p) \/ AlreadyRunning(p) \/ LoadReceipt(p)
    \/ LoadProviders(p) \/ LoadCache(p) \/ MakeDirectory(p) \/ BackUp(p) \/ SaveReceipt(p)
    \/ Verify(p) \/ CheckProviders(p) \/ CheckCache(p) \/ WriteCache(p) \/ WriteProviders(p)
    \/ Complete(p) \/ Load(p)

Application(p) == Start(p) \/ acknowledge(p) \/ Save(p) \/ Quit(p) \/ Crash(p)

Next == (\E p \in Processes : Prepare(p) \/ Application(p)) \/ Edit

Spec == Init /\ [][Next]_vars

\* A start goes on, and the user starts the application again when it is off.
FairSpec == Spec /\ \A p \in Processes : WF_vars(Prepare(p)) /\ WF_vars(Start(p))

(***************************************************************************)
(* Properties                                                              *)
(***************************************************************************)

\* Every variable has the type its declaration gives.
TypeOK ==
    /\ disk \in Documents
    /\ receipt \in Receipt \cup {Missing}
    /\ backups \in [Directories -> Documents \cup {Missing}]
    /\ lock \in Processes \cup {Nobody}
    /\ proc \in [Processes -> Process]
    /\ mishaps \in 0 .. MaxMishaps
    /\ edits \in 0 .. MaxEdits

BackedUpProviders(doc) == \E d \in Directories : backups[d] # Missing /\ backups[d].providers = doc

BackedUpCache(doc) == \E d \in Directories : backups[d] # Missing /\ backups[d].cache = doc

\* README.md:161: a document is replaced only after it was backed up, whatever was interrupted
\* and whoever edited the files between the backup and the replacement; a Provider document of
\* this schema is never replaced, also by an upgrade that is resumed over later work.
OriginalsAreKept ==
    [][edits' = edits /\ (\A p \in Processes : proc[p].pc # "running") =>
          /\ disk'.providers # disk.providers =>
                 disk.providers \in OldDocs /\ BackedUpProviders(disk.providers)
          /\ disk'.cache # disk.cache => BackedUpCache(disk.cache)]_vars

\* The receipt can be trusted: its backup holds both documents, a running application has no
\* upgrade left to resume, and a complete one left nothing behind that must be upgraded.
ReceiptTellsTheTruth ==
    /\ receipt # Missing =>
          backups[receipt.directory] =
              [providers |-> receipt.providers_sha256, cache |-> receipt.cache_sha256]
    /\ receipt # Missing /\ ~ receipt.complete =>
          \A p \in Processes : proc[p].pc \notin {"load", "running"}
    /\ receipt # Missing /\ receipt.complete /\ edits = 0 =>
          disk.providers \notin OldDocs /\ disk.cache \notin OldCaches

\* An upgrade that was interrupted is completed by a later start, unless another program edited a
\* document since the backup: then every start is refused.
UpgradeIsCompleted ==
    receipt # Missing /\ ~ receipt.complete
        ~> receipt = Missing \/ receipt.complete \/ edits > 0

\* README.md:161: incompatible Provider settings are backed up before starting with empty ones,
\* so the documents the application loads after prepare are of its schema.
LoadsCompatible ==
    \A p \in Processes : proc[p].pc = "load" => disk.providers \notin OldDocs
=============================================================================
