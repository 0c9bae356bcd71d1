------------------------- MODULE ProviderUpgradeProofs -------------------------
(***************************************************************************)
(* Proofs about ProviderUpgrade for every set of processes, documents,     *)
(* caches and directories and any number of crashes and edits, edits       *)
(* between any two steps of a start included.                              *)
(*                                                                         *)
(* Inv says who may be past the lock, what the process there has read of   *)
(* the receipt, of its backup and of the files it compares, and that the   *)
(* backup of a receipt holds the documents the receipt names.              *)
(***************************************************************************)
EXTENDS ProviderUpgrade, TLAPS

\* Only the holder of the lock is past it.
Locked == \A p \in Processes : proc[p].pc \notin {"off", "waiting"} => lock = p

Beginning == {"providers", "cache", "directory", "backup_providers", "backup_cache", "save_receipt"}

Finishing ==
    {"verify", "check_providers", "check_cache", "write_cache", "write_providers", "complete"}

\* What a process that begins an upgrade has read and written.
KnowsOriginals(o) ==
    /\ o.pc \in Beginning => receipt = Missing
    /\ o.pc \in Beginning \ {"providers"} => o.providers \in OldDocs
    /\ o.pc \in {"backup_providers", "backup_cache", "save_receipt"} => o.directory \in Directories
    /\ o.pc = "backup_providers" => backups[o.directory] = NoBackup
    /\ o.pc = "backup_cache" =>
          backups[o.directory] = [providers |-> o.providers, cache |-> Missing]
    /\ o.pc = "save_receipt" =>
          backups[o.directory] = [providers |-> o.providers, cache |-> o.cache]

\* What a process that finishes one has read, and has compared with the receipt.
KnowsReceipt(o) ==
    /\ o.pc \in Finishing => receipt # Missing /\ o.receipt = receipt
    /\ o.pc \in Finishing \ {"verify"} => ~ receipt.complete
    /\ o.pc \in {"check_cache", "write_cache", "write_providers"} =>
          o.providers \in {receipt.providers_sha256, default_providers}
    /\ o.pc = "write_cache" => o.cache \in {receipt.cache_sha256, empty_cache}
    /\ o.pc \in {"load", "running"} => receipt = Missing \/ receipt.complete

\* What it has written, as long as nobody edited the files.
KnowsFiles(o) ==
    edits = 0 =>
        /\ o.pc \in {"write_providers", "complete"} => disk.cache = empty_cache
        /\ o.pc = "complete" => disk.providers = default_providers

Knows(o) == KnowsOriginals(o) /\ KnowsReceipt(o) /\ KnowsFiles(o)

\* The receipt and its backup.
Backed ==
    receipt # Missing =>
        /\ receipt.providers_sha256 \in OldDocs
        /\ backups[receipt.directory] =
               [providers |-> receipt.providers_sha256, cache |-> receipt.cache_sha256]

\* A complete upgrade left nothing that must be upgraded.
Finished ==
    receipt # Missing /\ receipt.complete /\ edits = 0 =>
        disk.providers \notin OldDocs /\ disk.cache \notin OldCaches

Inv == TypeOK /\ Locked /\ (\A p \in Processes : Knows(proc[p])) /\ Backed /\ Finished

-------------------------------------------------------------------------------

\* A process that is off, or waits for the lock, knows nothing.
LEMMA OffKnows ==
    ASSUME NEW o \in Process, o.pc \in {"off", "waiting"}
    PROVE  Knows(o)
BY DEF Knows, KnowsOriginals, KnowsReceipt, KnowsFiles, Beginning, Finishing

LEMMA OffIsTyped == Off \in Process /\ Off.pc = "off"
BY DEF Off, Process, Pcs

\* Of two processes only one is past the lock.
LEMMA OthersWait ==
    ASSUME Inv, NEW p \in Processes, lock = p, NEW q \in Processes, q # p
    PROVE  proc[q] \in Process /\ proc[q].pc \in {"off", "waiting"}
BY DEF Inv, TypeOK, Locked

\* The holder of the lock goes on: what it knows then is all there is to show.
LEMMA HolderMoves ==
    ASSUME Inv, NEW p \in Processes, lock = p, lock' = p,
           NEW o \in Process, proc' = [proc EXCEPT ![p] = o],
           disk' \in Documents, receipt' \in Receipt \cup {Missing},
           backups' \in [Directories -> Documents \cup {Missing}],
           UNCHANGED <<mishaps, edits>>,
           Knows(proc[p])', Backed', Finished'
    PROVE  Inv'
<1>1. ASSUME NEW q \in Processes PROVE proc'[q] = IF q = p THEN o ELSE proc[q]
  BY <1>1 DEF Inv, TypeOK
<1>2. TypeOK'
  BY <1>1 DEF Inv, TypeOK, Documents
<1>3. Locked'
  BY <1>1, OthersWait DEF Locked
<1>4. ASSUME NEW q \in Processes PROVE Knows(proc[q])'
  <2>1. CASE q = p
    BY <1>1, <2>1 DEF Knows, KnowsOriginals, KnowsReceipt, KnowsFiles
  <2>2. CASE q # p
    <3>1. proc'[q] \in Process /\ proc'[q].pc \in {"off", "waiting"}
      BY <1>1, <2>2, OthersWait
    <3> QED
      BY <3>1 DEF Knows, KnowsOriginals, KnowsReceipt, KnowsFiles, Beginning, Finishing
  <2> QED
    BY <2>1, <2>2
<1> QED
  BY <1>2, <1>3, <1>4 DEF Inv

\* A start that ends, a quit and a crash: the files stay.
LEMMA EndsStep ==
    ASSUME Inv, NEW p \in Processes, Ends(p), UNCHANGED <<Files, edits>>,
           mishaps' \in 0 .. MaxMishaps
    PROVE  Inv'
<1>1. ASSUME NEW q \in Processes PROVE proc'[q] = IF q = p THEN Off ELSE proc[q]
  BY <1>1 DEF Inv, TypeOK, Ends
<1>2. TypeOK'
  BY <1>1, OffIsTyped DEF Inv, TypeOK, Ends, Files
<1>3. Locked'
  BY <1>1, OffIsTyped DEF Inv, Locked, Ends
<1>4. ASSUME NEW q \in Processes PROVE Knows(proc[q])'
  <2>1. CASE q = p
    BY <1>1, <2>1, OffIsTyped
       DEF Knows, KnowsOriginals, KnowsReceipt, KnowsFiles, Beginning, Finishing
  <2>2. CASE q # p
    BY <1>1, <2>2 DEF Inv, Files, Knows, KnowsOriginals, KnowsReceipt, KnowsFiles
  <2> QED
    BY <2>1, <2>2
<1> QED
  BY <1>2, <1>3, <1>4 DEF Inv, Backed, Finished, Files

\* Acquiring the lock, and the reads before anything is changed.
LEMMA ReadSteps ==
    ASSUME Inv, NEW p \in Processes,
           acquire(p) \/ LoadReceipt(p) \/ LoadProviders(p) \/ LoadCache(p)
    PROVE  Inv'
<1>1. CASE acquire(p)
  <2>1. ASSUME NEW q \in Processes
        PROVE  proc'[q] = IF q = p THEN [proc[p] EXCEPT !.pc = "receipt"] ELSE proc[q]
    BY <1>1 DEF Inv, TypeOK, acquire, Goes
  <2>2. ASSUME NEW q \in Processes PROVE proc[q].pc \in {"off", "waiting"}
    BY <1>1, UpgradeAssumption DEF Inv, Locked, acquire
  <2>3. [proc[p] EXCEPT !.pc = "receipt"] \in Process
    BY DEF Inv, TypeOK, Process, Pcs, Starting
  <2>6. TypeOK'
    BY <1>1, <2>3 DEF Inv, TypeOK, acquire, Goes, Files
  <2>4. Locked'
    BY <1>1, <2>1, <2>2 DEF Locked, acquire
  <2>5. ASSUME NEW q \in Processes PROVE Knows(proc[q])'
    BY <2>1, <2>2 DEF Inv, TypeOK, Process, Knows, KnowsOriginals, KnowsReceipt, KnowsFiles,
                      Beginning, Finishing
  <2> QED
    BY <1>1, <2>4, <2>5, <2>6 DEF Inv, Backed, Finished, acquire, Files
<1>2. CASE LoadReceipt(p)
  <2> DEFINE o == [proc[p] EXCEPT !.receipt = receipt,
                                  !.pc = IF receipt = Missing THEN "providers" ELSE "verify"]
  <2>1. proc' = [proc EXCEPT ![p] = o] /\ proc'[p] = o
    BY <1>2 DEF LoadReceipt, Inv, TypeOK
  <2>2. o \in Process
    BY DEF Inv, TypeOK, Process, Pcs, Starting
  <2>3. o.pc = (IF receipt = Missing THEN "providers" ELSE "verify") /\ o.receipt = receipt
    BY DEF Inv, TypeOK, Process
  <2> HIDE DEF o
  <2>4. Knows(proc[p])'
    BY <2>1, <1>2, <2>3 DEF LoadReceipt, Files, Knows, KnowsOriginals, KnowsReceipt, KnowsFiles,
                      Beginning, Finishing
  <2>5. lock = p
    BY <1>2 DEF LoadReceipt, At, Inv, Locked
  <2>6. Backed' /\ Finished'
    BY <1>2 DEF LoadReceipt, Files, Inv, Backed, Finished
  <2> QED
    BY <1>2, <2>1, <2>2, <2>4, <2>5, <2>6, HolderMoves DEF LoadReceipt, Files, Inv, TypeOK, Documents
<1>3. CASE LoadProviders(p)
  <2> DEFINE o == [proc[p] EXCEPT !.providers = disk.providers,
                                  !.pc = IF disk.providers \in OldDocs THEN "cache" ELSE "load"]
  <2>1. proc' = [proc EXCEPT ![p] = o] /\ proc'[p] = o
    BY <1>3 DEF LoadProviders, Inv, TypeOK
  <2>2. o \in Process
    <3>1. proc[p] \in Process /\ disk.providers \in Docs \cup {Missing}
      BY DEF Inv, TypeOK, Documents
    <3>2. {"cache", "load"} \subseteq Pcs
      BY DEF Pcs, Starting
    <3> QED
      BY <3>1, <3>2 DEF Process
  <2>3. /\ o.pc = IF disk.providers \in OldDocs THEN "cache" ELSE "load"
        /\ o.providers = disk.providers
    BY DEF Inv, TypeOK, Process
  <2>4. receipt = Missing
    BY <1>3 DEF LoadProviders, At, Inv, Knows, KnowsOriginals, Beginning
  <2> HIDE DEF o
  <2>5. Knows(proc[p])'
    BY <2>1, <1>3, <2>3, <2>4 DEF LoadProviders, Files, Knows, KnowsOriginals, KnowsReceipt, KnowsFiles,
                            Beginning, Finishing
  <2>6. lock = p
    BY <1>3 DEF LoadProviders, At, Inv, Locked
  <2>7. Backed' /\ Finished'
    BY <1>3 DEF LoadProviders, Files, Inv, Backed, Finished
  <2> QED
    BY <1>3, <2>1, <2>2, <2>5, <2>6, <2>7, HolderMoves
       DEF LoadProviders, Files, Inv, TypeOK, Documents
<1>4. CASE LoadCache(p)
  <2> DEFINE o == [proc[p] EXCEPT !.cache = disk.cache, !.pc = "directory"]
  <2>1. proc' = [proc EXCEPT ![p] = o] /\ proc'[p] = o
    BY <1>4 DEF LoadCache, Inv, TypeOK
  <2>2. o \in Process
    <3>1. proc[p] \in Process /\ disk.cache \in Caches \cup {Missing}
      BY DEF Inv, TypeOK, Documents
    <3>2. "directory" \in Pcs
      BY DEF Pcs, Starting
    <3> QED
      BY <3>1, <3>2 DEF Process
  <2>3. o.pc = "directory" /\ o.providers = proc[p].providers
    BY DEF Inv, TypeOK, Process
  <2>4. receipt = Missing /\ proc[p].providers \in OldDocs
    BY <1>4 DEF LoadCache, At, Inv, Knows, KnowsOriginals, Beginning
  <2> HIDE DEF o
  <2>5. Knows(proc[p])'
    BY <2>1, <1>4, <2>3, <2>4 DEF LoadCache, Files, Knows, KnowsOriginals, KnowsReceipt, KnowsFiles,
                            Beginning, Finishing
  <2>6. lock = p
    BY <1>4 DEF LoadCache, At, Inv, Locked
  <2>7. Backed' /\ Finished'
    BY <1>4 DEF LoadCache, Files, Inv, Backed, Finished
  <2> QED
    BY <1>4, <2>1, <2>2, <2>5, <2>6, <2>7, HolderMoves DEF LoadCache, Files, Inv, TypeOK, Documents
<1> QED
  BY <1>1, <1>2, <1>3, <1>4

\* The backup and the receipt are written; no receipt names the directory meanwhile.
LEMMA BeginSteps ==
    ASSUME Inv, NEW p \in Processes, MakeDirectory(p) \/ BackUp(p) \/ SaveReceipt(p)
    PROVE  Inv'
<1>1. proc[p].pc \in Beginning \ {"providers", "cache"}
  BY DEF MakeDirectory, BackUp, SaveReceipt, At, Beginning
<1>2. receipt = Missing /\ proc[p].providers \in OldDocs /\ lock = p
  BY <1>1 DEF Inv, Knows, KnowsOriginals, Beginning, Locked
<1>3. proc[p] \in Process
  BY DEF Inv, TypeOK
<1>4. CASE MakeDirectory(p)
  <2>1. PICK d \in Directories :
           /\ backups' = [backups EXCEPT ![d] = NoBackup]
           /\ proc' = [proc EXCEPT ![p].directory = d, ![p].pc = "backup_providers"]
    BY <1>4 DEF MakeDirectory
  <2> DEFINE o == [proc[p] EXCEPT !.directory = d, !.pc = "backup_providers"]
  <2>2. proc' = [proc EXCEPT ![p] = o] /\ proc'[p] = o
    BY <2>1 DEF Inv, TypeOK
  <2>3. o \in Process
    BY <1>3 DEF Process, Pcs, Starting
  <2>4. o.pc = "backup_providers" /\ o.directory = d /\ o.providers = proc[p].providers
    BY <1>3 DEF Process
  <2>5. backups' \in [Directories -> Documents \cup {Missing}] /\ backups'[d] = NoBackup
    BY <2>1 DEF Inv, TypeOK, Documents, NoBackup
  <2> HIDE DEF o
  <2>6. Knows(proc[p])'
    BY <2>2, <1>2, <1>4, <2>4, <2>5 DEF MakeDirectory, Knows, KnowsOriginals, KnowsReceipt, KnowsFiles,
                                  Beginning, Finishing
  <2>7. Backed' /\ Finished'
    BY <1>2, <1>4 DEF MakeDirectory, Backed, Finished
  <2> QED
    BY <1>2, <1>4, <2>2, <2>3, <2>5, <2>6, <2>7, HolderMoves
       DEF MakeDirectory, Inv, TypeOK, Documents
<1>5. CASE BackUp(p) /\ At(p, "backup_providers")
  <2> DEFINE o == [proc[p] EXCEPT !.pc = "backup_cache"]
             d == proc[p].directory
  <2>1. proc' = [proc EXCEPT ![p] = o] /\ proc'[p] = o
    BY <1>5 DEF BackUp, At, Goes, Inv, TypeOK
  <2>2. o \in Process
    BY <1>3 DEF Process, Pcs, Starting
  <2>3. o.pc = "backup_cache" /\ o.directory = d /\ o.providers = proc[p].providers
    BY <1>3 DEF Process
  <2>4. d \in Directories /\ backups[d] = NoBackup
    BY <1>5 DEF At, Inv, Knows, KnowsOriginals
  <2>5. backups' = [backups EXCEPT ![d] = [NoBackup EXCEPT !.providers = proc[p].providers]]
    BY <1>5, <2>4 DEF BackUp, At
  <2>6. /\ backups' \in [Directories -> Documents \cup {Missing}]
        /\ backups'[d] = [providers |-> proc[p].providers, cache |-> Missing]
    BY <1>2, <2>4, <2>5 DEF Inv, TypeOK, Documents, NoBackup, Docs
  <2> HIDE DEF o
  <2>7. Knows(proc[p])'
    BY <2>1, <1>2, <1>5, <2>3, <2>4, <2>6
       DEF BackUp, Knows, KnowsOriginals, KnowsReceipt, KnowsFiles, Beginning, Finishing
  <2>8. Backed' /\ Finished'
    BY <1>2, <1>5 DEF BackUp, Backed, Finished
  <2> QED
    BY <1>2, <1>5, <2>1, <2>2, <2>6, <2>7, <2>8, HolderMoves DEF BackUp, Inv, TypeOK, Documents
<1>6. CASE BackUp(p) /\ At(p, "backup_cache")
  <2> DEFINE o == [proc[p] EXCEPT !.pc = "save_receipt"]
             d == proc[p].directory
  <2>1. proc' = [proc EXCEPT ![p] = o] /\ proc'[p] = o
    BY <1>6 DEF BackUp, At, Goes, Inv, TypeOK
  <2>2. o \in Process
    BY <1>3 DEF Process, Pcs, Starting
  <2>3. /\ o.pc = "save_receipt" /\ o.directory = d
        /\ o.providers = proc[p].providers /\ o.cache = proc[p].cache
    BY <1>3 DEF Process
  <2>4. d \in Directories /\ backups[d] = [providers |-> proc[p].providers, cache |-> Missing]
    BY <1>6 DEF At, Inv, Knows, KnowsOriginals
  <2>5. backups' = [backups EXCEPT ![d] = [backups[d] EXCEPT !.cache = proc[p].cache]]
    BY <1>6, <2>4 DEF BackUp, At, Inv, TypeOK
  <2>6. /\ backups' \in [Directories -> Documents \cup {Missing}]
        /\ backups'[d] = [providers |-> proc[p].providers, cache |-> proc[p].cache]
    BY <1>2, <1>3, <2>4, <2>5 DEF Inv, TypeOK, Documents, Docs, Process
  <2> HIDE DEF o
  <2>7. Knows(proc[p])'
    BY <2>1, <1>2, <1>6, <2>3, <2>4, <2>6
       DEF BackUp, Knows, KnowsOriginals, KnowsReceipt, KnowsFiles, Beginning, Finishing
  <2>8. Backed' /\ Finished'
    BY <1>2, <1>6 DEF BackUp, Backed, Finished
  <2> QED
    BY <1>2, <1>6, <2>1, <2>2, <2>6, <2>7, <2>8, HolderMoves DEF BackUp, Inv, TypeOK, Documents
<1>7. CASE SaveReceipt(p)
  <2> DEFINE o == [proc[p] EXCEPT !.receipt = Begun(p), !.pc = "verify"]
  <2>1. /\ proc[p].directory \in Directories
        /\ backups[proc[p].directory] =
               [providers |-> proc[p].providers, cache |-> proc[p].cache]
    BY <1>7 DEF SaveReceipt, At, Inv, Knows, KnowsOriginals
  <2> Begun(p) \in Receipt
    BY <1>2, <1>3, <2>1 DEF Begun, Receipt, Process, Docs
  <2>2. /\ Begun(p) \in Receipt /\ ~ Begun(p).complete /\ Begun(p) # Missing
        /\ Begun(p).directory = proc[p].directory
        /\ Begun(p).providers_sha256 = proc[p].providers /\ Begun(p).cache_sha256 = proc[p].cache
    BY MissingAssumption DEF Begun
  <2>3. o \in Process /\ o.pc = "verify" /\ o.receipt = Begun(p)
    BY <1>3, <2>2 DEF Process, Pcs, Starting
  <2>4. proc' = [proc EXCEPT ![p] = o] /\ proc'[p] = o /\ lock' = lock /\ receipt' = Begun(p)
    BY <1>2, <1>7 DEF SaveReceipt, GoesOrEnds, Inv, TypeOK
  <2> HIDE DEF o
  <2>5. Knows(proc[p])'
    BY <1>7, <2>2, <2>3, <2>4
       DEF Knows, KnowsOriginals, KnowsReceipt, KnowsFiles, Beginning, Finishing
  <2>6. Backed' /\ Finished'
    BY <1>2, <1>7, <2>1, <2>2, <2>4 DEF SaveReceipt, Backed, Finished
  <2> QED
    BY <1>2, <1>7, <2>2, <2>3, <2>4, <2>5, <2>6, HolderMoves
       DEF SaveReceipt, Inv, TypeOK, Documents
<1> QED
  BY <1>4, <1>5, <1>6, <1>7 DEF BackUp

\* The upgrade is finished: nothing is written that the receipt does not allow.
LEMMA FinishReads ==
    ASSUME Inv, NEW p \in Processes, Verify(p) \/ CheckProviders(p) \/ CheckCache(p) \/ Load(p)
    PROVE  Inv'
<1>1. proc[p] \in Process /\ lock = p
  BY DEF Verify, CheckProviders, CheckCache, Load, At, Inv, TypeOK, Locked
<1>2. UNCHANGED <<Files, mishaps, edits>>
  BY DEF Verify, CheckProviders, CheckCache, Load
<1>3. ASSUME NEW o \in Process, GoesOrEnds(p, TRUE, o), Knows(o) PROVE Inv'
  <2>1. proc' = [proc EXCEPT ![p] = o] /\ proc'[p] = o /\ lock' = lock
    BY <1>3 DEF GoesOrEnds, Inv, TypeOK
  <2>2. Knows(proc[p])'
    BY <1>2, <1>3, <2>1 DEF Files, Knows, KnowsOriginals, KnowsReceipt, KnowsFiles
  <2> QED
    BY <1>1, <1>2, <2>1, <2>2, HolderMoves DEF Files, Inv, TypeOK, Backed, Finished
<1>4. ASSUME GoesOrEnds(p, FALSE, Off) PROVE Inv'
  BY <1>2, <1>4, EndsStep DEF GoesOrEnds, Inv, TypeOK
<1>5. CASE Verify(p)
  <2> DEFINE r == proc[p].receipt
             o == [proc[p] EXCEPT !.pc = IF r.complete THEN "load" ELSE "check_providers"]
  <2>1. receipt # Missing /\ r = receipt
    BY <1>5 DEF Verify, At, Inv, Knows, KnowsReceipt, Finishing
  <2>2. /\ o \in Process /\ o.receipt = r
        /\ o.pc = IF r.complete THEN "load" ELSE "check_providers"
    BY <1>1 DEF Process, Pcs, Starting
  <2> HIDE DEF o
  <2>3. Knows(o)
    BY <2>1, <2>2 DEF Knows, KnowsOriginals, KnowsReceipt, KnowsFiles, Beginning, Finishing
  <2>4. GoesOrEnds(p, TRUE, o) \/ GoesOrEnds(p, FALSE, Off)
    BY <1>5 DEF Verify, GoesOrEnds, o
  <2> QED
    BY <1>3, <1>4, <2>2, <2>3, <2>4
<1>6. CASE CheckProviders(p)
  <2> DEFINE o == [proc[p] EXCEPT !.providers = disk.providers, !.pc = "check_cache"]
  <2>1. receipt # Missing /\ proc[p].receipt = receipt /\ ~ receipt.complete
    BY <1>6 DEF CheckProviders, At, Inv, Knows, KnowsReceipt, Finishing
  <2>2. /\ o \in Process /\ o.receipt = receipt /\ o.pc = "check_cache"
        /\ o.providers = disk.providers
    BY <1>1, <2>1 DEF Process, Pcs, Starting, Inv, TypeOK, Documents
  <2> HIDE DEF o
  <2>3. CASE disk.providers \in {receipt.providers_sha256, default_providers}
    <3>1. Knows(o)
      BY <2>1, <2>2, <2>3
         DEF Knows, KnowsOriginals, KnowsReceipt, KnowsFiles, Beginning, Finishing
    <3> QED
      BY <1>3, <1>6, <2>1, <2>2, <2>3, <3>1 DEF CheckProviders, GoesOrEnds, replacement_hash, o
  <2>4. CASE disk.providers \notin {receipt.providers_sha256, default_providers}
    BY <1>4, <1>6, <2>1, <2>4 DEF CheckProviders, GoesOrEnds, replacement_hash
  <2> QED
    BY <2>3, <2>4
<1>7. CASE CheckCache(p)
  <2> DEFINE o == [proc[p] EXCEPT !.cache = disk.cache, !.pc = "write_cache"]
  <2>1. /\ receipt # Missing /\ proc[p].receipt = receipt /\ ~ receipt.complete
        /\ proc[p].providers \in {receipt.providers_sha256, default_providers}
    BY <1>7 DEF CheckCache, At, Inv, Knows, KnowsReceipt, Finishing
  <2>2. /\ o \in Process /\ o.receipt = receipt /\ o.pc = "write_cache"
        /\ o.providers = proc[p].providers /\ o.cache = disk.cache
    BY <1>1, <2>1 DEF Process, Pcs, Starting, Inv, TypeOK, Documents
  <2> HIDE DEF o
  <2>3. CASE disk.cache \in {receipt.cache_sha256, empty_cache}
    <3>1. Knows(o)
      BY <2>1, <2>2, <2>3
         DEF Knows, KnowsOriginals, KnowsReceipt, KnowsFiles, Beginning, Finishing
    <3> QED
      BY <1>3, <1>7, <2>1, <2>2, <2>3, <3>1 DEF CheckCache, GoesOrEnds, replacement_hash, o
  <2>4. CASE disk.cache \notin {receipt.cache_sha256, empty_cache}
    BY <1>4, <1>7, <2>1, <2>4 DEF CheckCache, GoesOrEnds, replacement_hash
  <2> QED
    BY <2>3, <2>4
<1>8. CASE Load(p)
  <2> DEFINE o == [proc[p] EXCEPT !.providers = disk.providers, !.cache = disk.cache,
                                  !.pc = "running"]
  <2>1. receipt = Missing \/ receipt.complete
    BY <1>8 DEF Load, At, Inv, Knows, KnowsReceipt
  <2>2. o \in Process /\ o.pc = "running"
    BY <1>1 DEF Process, Pcs, Starting, Inv, TypeOK, Documents
  <2> HIDE DEF o
  <2>3. Knows(o)
    BY <2>1, <2>2 DEF Knows, KnowsOriginals, KnowsReceipt, KnowsFiles, Beginning, Finishing
  <2>4. GoesOrEnds(p, TRUE, o) \/ GoesOrEnds(p, FALSE, Off)
    BY <1>8 DEF Load, GoesOrEnds, o
  <2> QED
    BY <1>3, <1>4, <2>2, <2>3, <2>4
<1> QED
  BY <1>5, <1>6, <1>7, <1>8

\* A document is replaced while it is the one the process compared with the receipt.
LEMMA FinishWrites ==
    ASSUME Inv, NEW p \in Processes, WriteCache(p) \/ WriteProviders(p) \/ Complete(p)
    PROVE  Inv'
<1>1. proc[p] \in Process /\ lock = p
  BY DEF WriteCache, WriteProviders, Complete, At, Inv, TypeOK, Locked
<1>2. receipt \in Receipt /\ receipt # Missing /\ proc[p].receipt = receipt /\ ~ receipt.complete
  BY DEF WriteCache, WriteProviders, Complete, At, Inv, TypeOK, Knows, KnowsReceipt, Finishing
<1>3. CASE WriteCache(p)
  <2> DEFINE o == [proc[p] EXCEPT !.pc = "write_providers"]
  <2>1. proc[p].providers \in {receipt.providers_sha256, default_providers}
    BY <1>3 DEF WriteCache, At, Inv, Knows, KnowsReceipt
  <2>2. /\ o \in Process /\ o.pc = "write_providers"
        /\ o.providers = proc[p].providers /\ o.receipt = receipt
    BY <1>1, <1>2 DEF Process, Pcs, Starting
  <2>3. CASE disk.cache = proc[p].cache
    <3>1. proc' = [proc EXCEPT ![p] = o] /\ proc'[p] = o /\ lock' = lock
      BY <1>3, <2>3 DEF WriteCache, GoesOrEnds, Inv, TypeOK
    <3>2. disk' = [disk EXCEPT !.cache = empty_cache]
      BY <1>3, <2>3 DEF WriteCache
    <3>3. disk' \in Documents /\ disk'.cache = empty_cache
      BY <3>2, UpgradeAssumption DEF Inv, TypeOK, Documents, Caches
    <3> HIDE DEF o
    <3>4. Knows(proc[p])'
      BY <1>2, <1>3, <2>1, <2>2, <3>1, <3>3
         DEF WriteCache, Knows, KnowsOriginals, KnowsReceipt, KnowsFiles, Beginning, Finishing
    <3>5. Backed' /\ Finished'
      BY <1>2, <1>3 DEF WriteCache, Inv, Backed, Finished
    <3> QED
      BY <1>1, <1>3, <2>2, <3>1, <3>3, <3>4, <3>5, HolderMoves DEF WriteCache, Inv, TypeOK
  <2>4. CASE disk.cache # proc[p].cache
    <3>1. disk' = disk
      BY <1>3, <2>4 DEF WriteCache, Inv, TypeOK, Documents
    <3> QED
      BY <1>3, <2>4, <3>1, EndsStep DEF WriteCache, GoesOrEnds, Files, Inv, TypeOK
  <2> QED
    BY <2>3, <2>4
<1>4. CASE WriteProviders(p)
  <2> DEFINE o == [proc[p] EXCEPT !.pc = "complete"]
  <2>1. edits = 0 => disk.cache = empty_cache
    BY <1>4 DEF WriteProviders, At, Inv, Knows, KnowsFiles
  <2>2. o \in Process /\ o.pc = "complete" /\ o.receipt = receipt
    BY <1>1, <1>2 DEF Process, Pcs, Starting
  <2>3. CASE disk.providers = proc[p].providers
    <3>1. proc' = [proc EXCEPT ![p] = o] /\ proc'[p] = o /\ lock' = lock
      BY <1>4, <2>3 DEF WriteProviders, GoesOrEnds, Inv, TypeOK
    <3>2. disk' = [disk EXCEPT !.providers = default_providers]
      BY <1>4, <2>3 DEF WriteProviders
    <3>3. /\ disk' \in Documents
          /\ disk'.providers = default_providers /\ disk'.cache = disk.cache
      BY <3>2, UpgradeAssumption DEF Inv, TypeOK, Documents, Docs
    <3> HIDE DEF o
    <3>4. Knows(proc[p])'
      BY <1>2, <1>4, <2>1, <2>2, <3>1, <3>3
         DEF WriteProviders, Knows, KnowsOriginals, KnowsReceipt, KnowsFiles, Beginning, Finishing
    <3>5. Backed' /\ Finished'
      BY <1>2, <1>4 DEF WriteProviders, Inv, Backed, Finished
    <3> QED
      BY <1>1, <1>4, <2>2, <3>1, <3>3, <3>4, <3>5, HolderMoves DEF WriteProviders, Inv, TypeOK
  <2>4. CASE disk.providers # proc[p].providers
    <3>1. disk' = disk
      BY <1>4, <2>4 DEF WriteProviders, Inv, TypeOK, Documents
    <3> QED
      BY <1>4, <2>4, <3>1, EndsStep DEF WriteProviders, GoesOrEnds, Files, Inv, TypeOK
  <2> QED
    BY <2>3, <2>4
<1>5. CASE Complete(p)
  <2> DEFINE o == [proc[p] EXCEPT !.receipt = Completed(p), !.pc = "load"]
  <2>1. edits = 0 => disk.cache = empty_cache /\ disk.providers = default_providers
    BY <1>5 DEF Complete, At, Inv, Knows, KnowsFiles
  <2>2. Completed(p) = [receipt EXCEPT !.complete = TRUE]
    BY <1>2 DEF Completed
  <2>3. /\ Completed(p) \in Receipt /\ Completed(p).complete
        /\ Completed(p).directory = receipt.directory
        /\ Completed(p).providers_sha256 = receipt.providers_sha256
        /\ Completed(p).cache_sha256 = receipt.cache_sha256
    BY <1>2, <2>2 DEF Receipt
  <2>4. o \in Process /\ o.pc = "load" /\ o.receipt = Completed(p)
    BY <1>1, <2>3 DEF Process, Pcs, Starting
  <2>5. /\ proc' = [proc EXCEPT ![p] = o] /\ proc'[p] = o /\ lock' = lock
        /\ receipt' = Completed(p)
    BY <1>2, <1>5 DEF Complete, GoesOrEnds, Inv, TypeOK
  <2> HIDE DEF o
  <2>6. Knows(proc[p])'
    BY <2>3, <2>4, <2>5
       DEF Knows, KnowsOriginals, KnowsReceipt, KnowsFiles, Beginning, Finishing
  <2>7. Backed'
    BY <1>2, <1>5, <2>3, <2>5 DEF Complete, Inv, Backed
  <2>8. Finished'
    BY <1>5, <2>1, UpgradeAssumption DEF Complete, Finished
  <2> QED
    BY <1>1, <1>5, <2>3, <2>4, <2>5, <2>6, <2>7, <2>8, HolderMoves DEF Complete, Inv, TypeOK
<1> QED
  BY <1>3, <1>4, <1>5

\* What the application and its user do; a process that ends gives the lock back.
LEMMA ApplicationSteps ==
    ASSUME Inv, NEW p \in Processes, Application(p) \/ AlreadyRunning(p)
    PROVE  Inv'
<1>1. CASE Start(p)
  <2>1. [proc[p] EXCEPT !.pc = "waiting"] \in Process
    BY DEF Inv, TypeOK, Process, Pcs, Starting
  <2>2. ASSUME NEW q \in Processes
        PROVE  /\ q = p => proc'[q] \in Process /\ proc'[q].pc = "waiting"
               /\ q # p => proc'[q] = proc[q]
    BY <1>1, <2>1 DEF Start, Goes, Inv, TypeOK, Process
  <2>3. TypeOK'
    BY <1>1, <2>1 DEF Inv, TypeOK, Start, Goes, Files
  <2>4. Locked'
    BY <1>1, <2>2 DEF Inv, Locked, Start
  <2>5. ASSUME NEW q \in Processes PROVE Knows(proc[q])'
    <3>1. CASE q = p
      BY <2>2, <3>1 DEF Knows, KnowsOriginals, KnowsReceipt, KnowsFiles, Beginning, Finishing
    <3>2. CASE q # p
      BY <1>1, <2>2, <3>2 DEF Start, Files, Inv, Knows, KnowsOriginals, KnowsReceipt, KnowsFiles
    <3> QED
      BY <3>1, <3>2
  <2> QED
    BY <1>1, <2>3, <2>4, <2>5 DEF Inv, Backed, Finished, Start, Files
<1>2. CASE AlreadyRunning(p) \/ Quit(p)
  BY <1>2, EndsStep DEF AlreadyRunning, Quit, Inv, TypeOK
<1>3. CASE Crash(p)
  BY <1>3, EndsStep, UpgradeAssumption DEF Crash, Files, Inv, TypeOK
<1>4. CASE acknowledge(p)
  <2> DEFINE o == [proc[p] EXCEPT !.receipt = Missing]
  <2>1. o \in Process /\ o.pc = "running"
    BY <1>4 DEF acknowledge, At, Inv, TypeOK, Process
  <2>2. proc' = [proc EXCEPT ![p] = o] /\ proc'[p] = o /\ lock' = lock /\ receipt' = Missing
    BY <1>4 DEF acknowledge, Inv, TypeOK
  <2>3. lock = p
    BY <1>4 DEF acknowledge, At, Inv, Locked
  <2> HIDE DEF o
  <2>4. Knows(proc[p])' /\ Backed' /\ Finished'
    BY <2>1, <2>2 DEF Knows, KnowsOriginals, KnowsReceipt, KnowsFiles, Beginning, Finishing,
                      Backed, Finished
  <2> QED
    BY <1>4, <2>1, <2>2, <2>3, <2>4, HolderMoves DEF acknowledge, Inv, TypeOK
<1>5. CASE Save(p)
  <2> DEFINE o == [proc[p] EXCEPT !.providers = disk'.providers, !.cache = disk'.cache]
  <2>1. /\ disk' \in Documents
        /\ disk'.providers \notin OldDocs /\ disk'.cache \notin OldCaches
    BY <1>5, UpgradeAssumption DEF Save, Documents, Docs, Caches
  <2>2. o \in Process /\ o.pc = "running" /\ o.receipt = proc[p].receipt
    <3>1. /\ proc[p] \in Process /\ proc[p].pc = "running"
          /\ disk'.providers \in Docs \cup {Missing} /\ disk'.cache \in Caches \cup {Missing}
      BY <1>5, <2>1 DEF Save, At, Inv, TypeOK, Documents
    <3> QED
      BY <3>1 DEF Process
  <2>3. proc' = [proc EXCEPT ![p] = o] /\ proc'[p] = o /\ lock' = lock
    BY <1>5 DEF Save, Inv, TypeOK
  <2>4. lock = p /\ (receipt = Missing \/ receipt.complete)
    BY <1>5 DEF Save, At, Inv, Locked, Knows, KnowsReceipt
  <2> HIDE DEF o
  <2>5. Knows(proc[p])'
    BY <1>5, <2>2, <2>3, <2>4
       DEF Save, Knows, KnowsOriginals, KnowsReceipt, KnowsFiles, Beginning, Finishing
  <2>6. Backed' /\ Finished'
    BY <1>5, <2>1 DEF Save, Inv, Backed, Finished
  <2> QED
    BY <1>5, <2>1, <2>2, <2>3, <2>4, <2>5, <2>6, HolderMoves DEF Save, Inv, TypeOK
<1> QED
  BY <1>1, <1>2, <1>3, <1>4, <1>5 DEF Application

\* An edit by another program changes nothing a process relies on.
LEMMA EditStep ==
    ASSUME Inv, Edit
    PROVE  Inv'
<1>1. disk' \in Documents
  BY DEF Edit, Inv, TypeOK, Documents
<1>2. edits' \in 0 .. MaxEdits /\ edits' # 0
  BY UpgradeAssumption DEF Edit, Inv, TypeOK
<1>3. UNCHANGED <<receipt, backups, lock, proc, mishaps>>
  BY DEF Edit
<1>4. ASSUME NEW q \in Processes PROVE Knows(proc[q])'
  BY <1>2, <1>3 DEF Inv, Knows, KnowsOriginals, KnowsReceipt, KnowsFiles
<1> QED
  BY <1>1, <1>2, <1>3, <1>4 DEF Inv, TypeOK, Locked, Backed, Finished

LEMMA InitInv == Init => Inv
<1> SUFFICES ASSUME Init PROVE Inv
  OBVIOUS
<1>1. ASSUME NEW q \in Processes PROVE proc[q] \in Process /\ proc[q].pc = "off"
  BY OffIsTyped DEF Init
<1>2. TypeOK
  BY <1>1, OffIsTyped, UpgradeAssumption DEF Init, TypeOK
<1>3. ASSUME NEW q \in Processes PROVE Knows(proc[q])
  BY <1>1, OffKnows
<1> QED
  BY <1>1, <1>2, <1>3 DEF Init, Inv, Locked, Backed, Finished

LEMMA NextInv == Inv /\ [Next]_vars => Inv'
<1> SUFFICES ASSUME Inv, [Next]_vars PROVE Inv'
  OBVIOUS
<1>1. CASE UNCHANGED vars
  BY <1>1 DEF vars, Inv, TypeOK, Locked, Knows, KnowsOriginals, KnowsReceipt, KnowsFiles,
              Backed, Finished
<1>2. CASE Edit
  BY <1>2, EditStep
<1>3. ASSUME NEW p \in Processes, Prepare(p) \/ Application(p) PROVE Inv'
  BY <1>3, ReadSteps, BeginSteps, FinishReads, FinishWrites, ApplicationSteps DEF Prepare
<1> QED
  BY <1>1, <1>2, <1>3 DEF Next

LEMMA InvHolds == Spec => []Inv
BY InitInv, NextInv, PTL DEF Spec

-------------------------------------------------------------------------------

\* Every variable keeps its type, whatever crashes, fails and is edited.
THEOREM TypeCorrect == Spec => []TypeOK
<1>1. Inv => TypeOK
  BY DEF Inv
<1> QED
  BY <1>1, InvHolds, PTL

\* The receipt of an upgrade can be trusted: it names a full backup, nothing runs on an upgrade
\* that is not complete, and a complete one left no document of another schema.
THEOREM ReceiptIsTrue == Spec => []ReceiptTellsTheTruth
<1>1. Inv => ReceiptTellsTheTruth
  BY DEF Inv, Backed, Finished, Knows, KnowsReceipt, ReceiptTellsTheTruth
<1> QED
  BY <1>1, InvHolds, PTL

\* README.md:161: no start replaces a document that is not in a backup, and none replaces a
\* Provider document of this schema.
THEOREM OriginalsStay == Spec => OriginalsAreKept
<1> DEFINE Kept ==
        edits' = edits /\ (\A p \in Processes : proc[p].pc # "running") =>
            /\ disk'.providers # disk.providers =>
                   disk.providers \in OldDocs /\ BackedUpProviders(disk.providers)
            /\ disk'.cache # disk.cache => BackedUpCache(disk.cache)
<1>1. ASSUME Inv, [Next]_vars PROVE Kept
  <2> SUFFICES ASSUME edits' = edits, \A p \in Processes : proc[p].pc # "running",
                      disk' # disk
               PROVE  Kept
    OBVIOUS
  <2>1. PICK p \in Processes : WriteCache(p) \/ WriteProviders(p)
    <3>1. ~ Edit
      BY <1>1, UpgradeAssumption DEF Edit, Inv, TypeOK
    <3>2. PICK p \in Processes : Prepare(p) \/ Application(p)
      BY <1>1, <3>1 DEF Next, vars
    <3>3. ~ Save(p)
      BY DEF Save, At
    <3> QED
      BY <3>2, <3>3 DEF Prepare, Application, Files, Start, acquire, AlreadyRunning, LoadReceipt,
                        LoadProviders, LoadCache, MakeDirectory, BackUp, SaveReceipt, Verify,
                        CheckProviders, CheckCache, Complete, Load, acknowledge, Quit, Crash
  <2>2. receipt # Missing /\ receipt \in Receipt
    BY <1>1, <2>1 DEF WriteCache, WriteProviders, At, Inv, TypeOK, Knows, KnowsReceipt, Finishing
  <2>3. /\ receipt.directory \in Directories /\ receipt.providers_sha256 \in OldDocs
        /\ backups[receipt.directory] =
               [providers |-> receipt.providers_sha256, cache |-> receipt.cache_sha256]
        /\ backups[receipt.directory] # Missing
    <3>1. [providers |-> receipt.providers_sha256, cache |-> receipt.cache_sha256] \in Documents
      BY <2>2 DEF Receipt, Documents
    <3> QED
      BY <1>1, <2>2, <3>1, MissingAssumption DEF Inv, Backed, Receipt
  <2>4. BackedUpProviders(receipt.providers_sha256) /\ BackedUpCache(receipt.cache_sha256)
    BY <2>3 DEF BackedUpProviders, BackedUpCache
  <2>5. CASE WriteCache(p)
    <3>1. proc[p].cache \in {receipt.cache_sha256, empty_cache}
      BY <1>1, <2>5 DEF WriteCache, At, Inv, Knows, KnowsReceipt
    <3>2. disk'.providers = disk.providers
      BY <1>1, <2>5 DEF WriteCache, Inv, TypeOK, Documents
    <3>3. disk'.cache # disk.cache => disk.cache = receipt.cache_sha256
      BY <1>1, <2>5, <3>1 DEF WriteCache, Inv, TypeOK, Documents
    <3> QED
      BY <2>4, <3>2, <3>3
  <2>6. CASE WriteProviders(p)
    <3>1. proc[p].providers \in {receipt.providers_sha256, default_providers}
      BY <1>1, <2>6 DEF WriteProviders, At, Inv, Knows, KnowsReceipt
    <3>2. disk'.cache = disk.cache
      BY <1>1, <2>6 DEF WriteProviders, Inv, TypeOK, Documents
    <3>3. disk'.providers # disk.providers => disk.providers = receipt.providers_sha256
      BY <1>1, <2>6, <3>1 DEF WriteProviders, Inv, TypeOK, Documents
    <3> QED
      BY <2>3, <2>4, <3>2, <3>3
  <2> QED
    BY <2>1, <2>5, <2>6
<1> QED
  BY <1>1, InvHolds, PTL DEF Spec, OriginalsAreKept
=============================================================================
