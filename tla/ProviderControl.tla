--------------------------- MODULE ProviderControl ---------------------------
(***************************************************************************)
(* The Provider control plane of provider-x: the saved Provider document   *)
(* and model cache, the copies of them in memory, the snapshot the egress  *)
(* routes by, and the three threads that change them: the settings worker, *)
(* the loop that refreshes OAuth tokens, and the blocking task a cancelled *)
(* settings operation leaves behind.                                       *)
(*                                                                         *)
(* A document maps every Provider id to its configuration or to Absent.    *)
(* The SHA-256 of a file stands for its content.  The window between the   *)
(* comparison and the rename of an atomic write is modelled in CodexConfig *)
(* and is one step here.                                                   *)
(***************************************************************************)
EXTENDS Integers, FiniteSets

CONSTANTS
    Providers,          \* Provider ids
    Configs,            \* what the user can configure of a Provider
    Models,             \* model selections
    Accounts,           \* accounts of the OAuth service
    MaxToken,           \* bound: tokens the service issues
    MaxCrashes,         \* bound: crashes
    MaxEdits,           \* bound: edits of providers.yaml by another program
    Faults,             \* the failures that may happen, a subset of FaultKinds
    SavesRaceRefreshes, \* may a refreshed token be stored between the compilation
                        \* of a draft and its save?
    Absent,             \* no Provider, no credential
    Missing,            \* no file
    Nobody              \* holder of a free lock

FaultKinds == {"write", "sync", "network", "account", "cancel", "reject"}

ASSUME ConstantsAssumption ==
    /\ Configs # {} /\ Models # {} /\ Accounts # {}
    /\ MaxToken \in Nat /\ MaxCrashes \in Nat /\ MaxEdits \in Nat
    /\ Faults \subseteq FaultKinds
    /\ SavesRaceRefreshes \in BOOLEAN
    /\ Absent \notin Providers
    /\ IsFiniteSet(Providers) /\ Cardinality(Providers) <= MaxToken

Threads == {"settings", "refresher", "detached"}

ASSUME NobodyAssumption == Nobody \notin Threads

Auth == [account : Accounts, token : 1 .. MaxToken]

Provider == [enabled : BOOLEAN, config : Configs, models : Models, auth : Auth]

Documents == [Providers -> Provider \cup {Absent}]

ASSUME SentinelAssumption ==
    Missing \notin Documents /\ Absent \notin Provider /\ Absent \notin Auth

\* ProviderModelCache: the fingerprint covers the routing configuration and the account.
Caches == [Providers -> [fingerprint : Configs \X Accounts, models : Models] \cup {Absent}]

fingerprint(provider) == <<provider.config, provider.auth.account>>

NoProviders == [id \in Providers |-> Absent]

VARIABLES
    disk,         \* providers.yaml and cache/models.yaml
    control,      \* ControlPlane: the documents and the hashes they were loaded with
    egress,       \* the Provider document of the published EgressRuntimeSnapshot
    lock,         \* the thread that holds the mutex of the ControlPlane
    refresh_lock, \* the thread that holds OpenAiOAuthRuntime.refresh_lock
    op,           \* what each thread is doing
    session,      \* the draft and the credential of the settings window
    oauth,        \* tokens issued, and those whose refresh token was used up
    clock,        \* tokens up to this one are within the refresh window
    overtaken,    \* was a refreshed token of its Provider stored since the draft that the
                  \* settings worker saves was compiled?
    crashes,
    edits

vars == <<disk, control, egress, lock, refresh_lock, op, session, oauth, clock, overtaken,
          crashes, edits>>

Kinds == {"save", "commit_refresh", "enable", "disable", "remove", "discover", "refresh"}

Pcs == {"idle", "begin", "next", "adopt", "request", "publish", "list",
        "cache", "providers", "swap"}

\* The program counters of commit_mutation and commit_reload, run under the lock.
Committing == {"cache", "providers", "swap"}

Operation ==
    [pc : Pcs, kind : Kinds, id : Providers \cup {Absent},
     provider : Provider \cup {Absent},   \* what the thread carries
     saved : BOOLEAN,                     \* was it in the saved document?
     source : Auth \cup {Absent},         \* the credential a refresh started from
     batch : Documents,                   \* what refresh_saved_providers has yet to do
     next : [providers : Documents, cache : Caches]]

Idle ==
    [pc |-> "idle", kind |-> "save", id |-> Absent, provider |-> Absent, saved |-> FALSE,
     source |-> Absent, batch |-> NoProviders,
     next |-> [providers |-> NoProviders, cache |-> NoProviders]]

Sessions ==
    [id : Providers \cup {Absent}, config : Configs, models : Models,
     credential : Auth \cup {Absent}]

(***************************************************************************)
(* Loading                                                                 *)
(***************************************************************************)

AsDocument(file) == IF file = Missing THEN NoProviders ELSE file

load ==
    [providers |-> AsDocument(disk.providers), provider_sha256 |-> disk.providers,
     cache |-> AsDocument(disk.cache), cache_sha256 |-> disk.cache]

\* A first launch, or a start with a saved and enabled OAuth Provider for every id.
Init ==
    /\ oauth = [issued |-> Cardinality(Providers), revoked |-> {}]
    /\ disk \in [providers : {Missing} \cup
                    {doc \in [Providers -> Provider] :
                        /\ \A id \in Providers :
                               doc[id].enabled /\ doc[id].auth.token <= oauth.issued
                        /\ \A p, q \in Providers :
                               p # q => doc[p].auth.token # doc[q].auth.token},
                 cache : {Missing}]
    /\ control = load
    /\ egress = control.providers
    /\ lock = Nobody
    /\ refresh_lock = Nobody
    /\ op = [t \in Threads |-> Idle]
    /\ session \in [id : {Absent}, config : Configs, models : Models, credential : {Absent}]
    /\ clock = 0
    /\ overtaken = FALSE
    /\ crashes = 0
    /\ edits = 0

(***************************************************************************)
(* The settings window: its draft, and what its worker starts.  One        *)
(* operation runs at a time; only a switch lets the draft change meanwhile.*)
(***************************************************************************)

SettingsFree == op["settings"].pc = "idle"

\* busy: a switch is a setting, and settings run while the form stays usable.
FormFree == SettingsFree \/ op["settings"].kind \in {"enable", "disable"}

needs_refresh(auth) == auth.token <= clock

Start(t, o) == op' = [op EXCEPT ![t] = o]

Open(id) ==
    /\ FormFree /\ lock = Nobody
    /\ control.providers[id] # Absent
    /\ session' = [id |-> id, config |-> control.providers[id].config,
                   models |-> control.providers[id].models,
                   credential |-> control.providers[id].auth]
    /\ UNCHANGED <<disk, control, egress, lock, refresh_lock, op, oauth, clock, crashes, edits, overtaken>>

\* edit, and select, which forgets the credential of another connection.
EditDraft(config, models, forget) ==
    /\ FormFree
    /\ session' = [session EXCEPT !.config = config, !.models = models,
                                  !.credential = IF forget THEN Absent ELSE @]
    /\ UNCHANGED <<disk, control, egress, lock, refresh_lock, op, oauth, clock, crashes, edits, overtaken>>

clear_draft ==
    /\ FormFree
    /\ session' = [session EXCEPT !.id = Absent, !.credential = Absent]
    /\ UNCHANGED <<disk, control, egress, lock, refresh_lock, op, oauth, clock, crashes, edits, overtaken>>

Login(account) ==
    /\ SettingsFree
    /\ oauth.issued < MaxToken
    /\ oauth' = [oauth EXCEPT !.issued = @ + 1]
    /\ session' = [session EXCEPT !.credential =
                      [account |-> account, token |-> oauth.issued + 1]]
    /\ UNCHANGED <<disk, control, egress, lock, refresh_lock, op, clock, crashes, edits, overtaken>>

\* Mutated form of freshest_credential: the credential of the draft, however old.
FreshestIsDraft(credential, saved) == credential

freshest_credential(credential, saved) ==
    IF /\ saved # Absent
       /\ credential # Absent
       /\ credential.account = saved.auth.account
       /\ saved.auth.token > credential.token
    THEN saved.auth
    ELSE credential

\* compile_instance: the id of the draft or a new one, and the freshest credential.
Compiled(id, enabled) ==
    LET saved == control.providers[id]
        own   == IF session.credential = Absent /\ saved # Absent
                 THEN saved.auth ELSE session.credential
    IN  [enabled |-> enabled, config |-> session.config, models |-> session.models,
         auth |-> freshest_credential(own, saved)]

Compile(kind) ==
    /\ SettingsFree /\ lock = Nobody
    /\ \E id \in IF session.id = Absent
                 THEN {i \in Providers : control.providers[i] = Absent} ELSE {session.id} :
       \* a draft is compiled with the saved flag; commit_refresh takes any Provider
       \E enabled \in IF kind = "commit_refresh" THEN BOOLEAN
                      ELSE {control.providers[id] = Absent \/ control.providers[id].enabled} :
          LET provider == Compiled(id, enabled)
          IN  /\ provider.auth # Absent
              /\ Start("settings",
                    [Idle EXCEPT !.kind = kind, !.id = id, !.provider = provider,
                        !.pc = IF kind # "discover" THEN "begin"
                               ELSE IF needs_refresh(provider.auth) THEN "adopt" ELSE "list"])
    /\ overtaken' = FALSE
    /\ UNCHANGED <<disk, control, egress, lock, refresh_lock, session, oauth, clock, crashes, edits>>

\* A switch or a removal of the Provider that is open.
Queue(kind) ==
    /\ SettingsFree
    /\ session.id # Absent
    /\ Start("settings", [Idle EXCEPT !.pc = "begin", !.kind = kind, !.id = session.id])
    /\ UNCHANGED <<disk, control, egress, lock, refresh_lock, session, oauth, clock, crashes, edits, overtaken>>

(***************************************************************************)
(* ControlPlane: prepare_mutation, and prepare_reload of the egress        *)
(***************************************************************************)

SaveProvider(o) ==
    [providers |-> [control.providers EXCEPT ![o.id] = o.provider], cache |-> control.cache]

SetProviderEnabled(o) ==
    [providers |-> [control.providers EXCEPT ![o.id].enabled = (o.kind = "enable")],
     cache     |-> control.cache]

RemoveProvider(o) ==
    [providers |-> [control.providers EXCEPT ![o.id] = Absent], cache |-> control.cache]

CommitRefresh(o, models) ==
    [providers |-> [control.providers EXCEPT ![o.id] = [o.provider EXCEPT !.models = models]],
     cache     |-> [control.cache EXCEPT ![o.id] =
                       [fingerprint |-> fingerprint(o.provider), models |-> models]]]

ProviderNotFound(o) == o.kind \in {"enable", "disable", "remove"} /\ control.providers[o.id] = Absent

prepare_mutation(o, models) ==
    CASE o.kind = "commit_refresh"        -> CommitRefresh(o, models)
      [] o.kind \in {"enable", "disable"} -> SetProviderEnabled(o)
      [] o.kind = "remove"                -> RemoveProvider(o)
      [] OTHER                            -> SaveProvider(o)

\* Mutated form of Release: a return keeps the lock.
ReleaseNever(t) == UNCHANGED refresh_lock

Release(t) == refresh_lock' = IF refresh_lock = t THEN Nobody ELSE refresh_lock

\* What a thread does after an error, and after refresh_provider_if_needed returned provider.
Failed(t) ==
    IF t = "refresher" THEN [Idle EXCEPT !.pc = "next", !.kind = "refresh", !.batch = op[t].batch]
    ELSE Idle

Returned(t, provider) ==
    IF t = "settings"
    THEN [Idle EXCEPT !.pc = "list", !.kind = "discover", !.id = op[t].id, !.provider = provider]
    ELSE Failed(t)

Begin ==
    LET o == op["settings"] IN
    /\ o.pc = "begin" /\ lock = Nobody
    /\ ~ ProviderNotFound(o)
    /\ \E models \in Models :
          Start("settings", [o EXCEPT !.next = prepare_mutation(o, models),
                                      !.pc = IF o.kind = "commit_refresh" THEN "cache" ELSE "providers"])
    /\ lock' = "settings"
    /\ UNCHANGED <<disk, control, egress, refresh_lock, session, oauth, clock, crashes, edits, overtaken>>

\* An unknown Provider, a mismatched preview, or a reload the egress cannot prepare.
Refuse ==
    LET o == op["settings"] IN
    /\ o.pc = "begin" /\ lock = Nobody
    /\ ProviderNotFound(o) \/ o.kind = "commit_refresh" \/ "reject" \in Faults
    /\ Start("settings", Idle)
    /\ UNCHANGED <<disk, control, egress, lock, refresh_lock, session, oauth, clock, crashes, edits, overtaken>>

(***************************************************************************)
(* ControlPlane: commit_mutation, under the lock                           *)
(***************************************************************************)

SaveCache(t) ==
    /\ op[t].pc = "cache" /\ disk.cache = control.cache_sha256
    /\ disk' = [disk EXCEPT !.cache = op[t].next.cache]
    /\ Start(t, [op[t] EXCEPT !.pc = "providers"])
    /\ UNCHANGED <<control, egress, lock, refresh_lock, session, oauth, clock, crashes, edits, overtaken>>

\* A draft that is compiled and waits to be saved.
SavePending == op["settings"].pc = "begin" /\ op["settings"].kind \in {"save", "commit_refresh"}

SaveProviders(t) ==
    /\ op[t].pc = "providers" /\ disk.providers = control.provider_sha256
    /\ disk' = [disk EXCEPT !.providers = op[t].next.providers]
    /\ control' = [providers |-> op[t].next.providers, provider_sha256 |-> op[t].next.providers,
                   cache |-> op[t].next.cache,
                   cache_sha256 |-> IF op[t].kind = "commit_refresh" THEN op[t].next.cache
                                    ELSE control.cache_sha256]
    /\ Start(t, [op[t] EXCEPT !.pc = "swap"])
    /\ overtaken' = (overtaken \/ (SavePending /\ op["settings"].id = op[t].id))
    /\ UNCHANGED <<egress, lock, refresh_lock, session, oauth, clock, crashes, edits>>

\* The file a failed save leaves: replaced when the failure came after the rename.
LeftBy(t) ==
    IF op[t].pc = "cache" THEN [disk EXCEPT !.cache = op[t].next.cache]
    ELSE [disk EXCEPT !.providers = op[t].next.providers]

HashMatches(t) ==
    IF op[t].pc = "cache" THEN disk.cache = control.cache_sha256
    ELSE disk.providers = control.provider_sha256

\* Mutated form of AfterFailure: the error forgets that the cache was written.
AfterFailureForgets(t) == control

\* Mutated form of AfterFailure: both documents are taken over, as after a success.
AfterFailureTakesBoth(t) ==
    IF op[t].pc = "providers" /\ op[t].kind = "commit_refresh"
    THEN [control EXCEPT !.providers = op[t].next.providers, !.cache = op[t].next.cache,
                         !.cache_sha256 = op[t].next.cache]
    ELSE control

\* ProviderSaveAfterCache: the cache in memory follows the file already written.
AfterFailure(t) ==
    IF op[t].pc = "providers" /\ op[t].kind = "commit_refresh"
    THEN [control EXCEPT !.cache = op[t].next.cache, !.cache_sha256 = op[t].next.cache]
    ELSE control

SaveFails(t) ==
    /\ op[t].pc \in {"cache", "providers"}
    /\ \/ ~ HashMatches(t) /\ UNCHANGED disk
       \/ "write" \in Faults /\ UNCHANGED disk
       \/ "sync" \in Faults /\ HashMatches(t) /\ disk' = LeftBy(t)
    /\ control' = AfterFailure(t)
    /\ lock' = Nobody
    /\ Release(t)
    /\ Start(t, Failed(t))
    /\ UNCHANGED <<egress, session, oauth, clock, crashes, edits, overtaken>>

\* commit_reload, the end of the critical section, and what the settings worker does after it.
commit_reload(t) ==
    LET o == op[t] IN
    /\ o.pc = "swap"
    /\ egress' = o.next.providers
    /\ lock' = Nobody
    /\ Release(t)
    /\ Start(t, IF o.kind \in {"discover", "refresh"} THEN Returned(t, o.provider) ELSE Idle)
    /\ session' = CASE o.kind = "save"   -> [session EXCEPT !.id = o.id]
                    [] o.kind = "remove" -> [session EXCEPT !.id = Absent, !.credential = Absent]
                    [] OTHER             -> session
    /\ UNCHANGED <<disk, control, oauth, clock, crashes, edits, overtaken>>

(***************************************************************************)
(* OpenAiOAuthRuntime: refresh_provider_if_needed, for the loop and for    *)
(* the discovery of models of a draft                                      *)
(***************************************************************************)

refresh_saved_providers ==
    /\ op["refresher"].pc = "idle" /\ lock = Nobody
    /\ \E id \in Providers : control.providers[id] # Absent /\ needs_refresh(control.providers[id].auth)
    /\ Start("refresher",
          [Idle EXCEPT !.pc = "next", !.kind = "refresh",
             !.batch = [id \in Providers |->
                IF control.providers[id] # Absent /\ needs_refresh(control.providers[id].auth)
                THEN control.providers[id] ELSE Absent]])
    /\ UNCHANGED <<disk, control, egress, lock, refresh_lock, session, oauth, clock, crashes, edits, overtaken>>

NextInBatch ==
    LET o == op["refresher"] IN
    /\ o.pc = "next"
    /\ \/ /\ o.batch = NoProviders
          /\ Start("refresher", Idle)
       \/ \E id \in Providers :
             /\ o.batch[id] # Absent
             /\ Start("refresher", [o EXCEPT !.pc = "adopt", !.id = id, !.provider = o.batch[id],
                                             !.batch[id] = Absent])
    /\ UNCHANGED <<disk, control, egress, lock, refresh_lock, session, oauth, clock, crashes, edits, overtaken>>

\* The credential to refresh: the saved one when it is of the same account.
Adopted(t) ==
    LET saved == control.providers[op[t].id]
        own   == op[t].provider
    IN  IF saved # Absent /\ saved.auth.account = own.auth.account
        THEN [own EXCEPT !.auth = saved.auth] ELSE own

Adopt(t) ==
    /\ op[t].pc = "adopt" /\ refresh_lock = Nobody /\ lock = Nobody
    /\ IF needs_refresh(Adopted(t).auth)
       THEN /\ refresh_lock' = t
            /\ Start(t, [op[t] EXCEPT !.pc = "request", !.provider = Adopted(t),
                            !.source = Adopted(t).auth,
                            !.saved = control.providers[op[t].id] # Absent])
       ELSE /\ Start(t, Returned(t, Adopted(t)))
            /\ UNCHANGED refresh_lock
    /\ UNCHANGED <<disk, control, egress, lock, session, oauth, clock, crashes, edits, overtaken>>

\* The token endpoint answers with a new token and uses the old refresh token up.
Refreshed(t) ==
    /\ op[t].pc = "request" /\ oauth.issued < MaxToken
    /\ op[t].source.token \notin oauth.revoked
    /\ oauth' = [issued |-> oauth.issued + 1, revoked |-> oauth.revoked \cup {op[t].source.token}]
    /\ \E account \in IF "account" \in Faults THEN Accounts ELSE {op[t].source.account} :
          LET provider == [op[t].provider EXCEPT
                              !.auth = [account |-> account, token |-> oauth.issued + 1],
                              !.enabled = @ /\ account = op[t].source.account]
          IN  IF op[t].saved
              THEN /\ Start(t, [op[t] EXCEPT !.pc = "publish", !.provider = provider])
                   /\ UNCHANGED refresh_lock
              ELSE /\ Start(t, Returned(t, provider))
                   /\ Release(t)
    /\ UNCHANGED <<disk, control, egress, lock, session, clock, crashes, edits, overtaken>>

\* The request is refused (also at the bound MaxToken), fails before it is served, or its
\* answer is lost.
RefreshFails(t) ==
    /\ op[t].pc = "request"
    /\ \/ /\ op[t].source.token \in oauth.revoked \/ oauth.issued = MaxToken
          /\ UNCHANGED oauth
       \/ "network" \in Faults /\ UNCHANGED oauth
       \/ /\ "network" \in Faults /\ oauth.issued < MaxToken
          /\ oauth' = [issued |-> oauth.issued + 1,
                       revoked |-> oauth.revoked \cup {op[t].source.token}]
    /\ Release(t)
    /\ Start(t, Failed(t))
    /\ UNCHANGED <<disk, control, egress, lock, session, clock, crashes, edits, overtaken>>

\* Mutated form of Unchanged: a Provider that was removed counts as unchanged.
UnchangedOrRemoved(t) ==
    LET current == control.providers[op[t].id]
    IN  current = Absent \/ current.auth = op[t].source

\* Mutated form of Unchanged: the saved credential is compared with the new one.
UnchangedFromNew(t) ==
    LET current == control.providers[op[t].id]
    IN  current # Absent /\ current.auth = op[t].provider.auth

\* Mutated form of Unchanged: any credential of a saved Provider is replaced.
UnchangedOrReplaced(t) == control.providers[op[t].id] # Absent

\* Is the credential the refresh started from still the saved one?
Unchanged(t) ==
    LET current == control.providers[op[t].id]
    IN  current # Absent /\ current.auth = op[t].source

\* The blocking task: store the Provider unless its credential changed meanwhile.
Publish(t) ==
    LET current == control.providers[op[t].id] IN
    /\ op[t].pc = "publish" /\ lock = Nobody
    /\ SavesRaceRefreshes \/ ~ SavePending
    /\ IF Unchanged(t)
       THEN /\ Start(t, [op[t] EXCEPT !.pc = "providers", !.next = SaveProvider(op[t])])
            /\ lock' = t
            /\ UNCHANGED refresh_lock
       ELSE /\ Start(t, Returned(t, IF current = Absent THEN op[t].provider ELSE current))
            /\ Release(t)
            /\ UNCHANGED lock
    /\ UNCHANGED <<disk, control, egress, session, oauth, clock, crashes, edits, overtaken>>

\* The egress cannot prepare the reload of a refreshed Provider.
PublishFails(t) ==
    /\ "reject" \in Faults
    /\ op[t].pc = "publish" /\ lock = Nobody
    /\ Release(t)
    /\ Start(t, Failed(t))
    /\ UNCHANGED <<disk, control, egress, lock, session, oauth, clock, crashes, edits, overtaken>>

\* discover_action: the models of the Provider are listed, or they are not.
Listed ==
    LET o == op["settings"] IN
    /\ o.pc = "list"
    /\ \/ \E models \in Models :
             session' = [session EXCEPT !.models = models, !.credential = o.provider.auth]
       \/ "network" \in Faults /\ UNCHANGED session
    /\ Start("settings", Idle)
    /\ UNCHANGED <<disk, control, egress, lock, refresh_lock, oauth, clock, crashes, edits, overtaken>>

\* The user cancels a discovery: its task ends at an await and frees refresh_lock; a
\* blocking task it started runs on.
Cancel ==
    LET o == op["settings"] IN
    /\ "cancel" \in Faults
    /\ o.kind = "discover" /\ ~ SettingsFree
    /\ IF o.pc \in {"publish"} \cup Committing
       THEN /\ op["detached"].pc = "idle"
            /\ op' = [op EXCEPT !["settings"] = Idle, !["detached"] = o]
            /\ lock' = IF lock = "settings" THEN "detached" ELSE lock
       ELSE /\ Start("settings", Idle)
            /\ UNCHANGED lock
    /\ Release("settings")
    /\ UNCHANGED <<disk, control, egress, session, oauth, clock, crashes, edits, overtaken>>

(***************************************************************************)
(* The environment                                                         *)
(***************************************************************************)

Expire ==
    /\ clock < oauth.issued
    /\ clock' = clock + 1
    /\ UNCHANGED <<disk, control, egress, lock, refresh_lock, op, session, oauth, crashes, edits, overtaken>>

\* Another program switches a Provider in providers.yaml.
ExternalEdit(id) ==
    /\ edits < MaxEdits /\ disk.providers # Missing
    /\ disk.providers[id] # Absent
    /\ disk' = [disk EXCEPT !.providers[id].enabled = ~ @]
    /\ edits' = edits + 1
    /\ UNCHANGED <<control, egress, lock, refresh_lock, op, session, oauth, clock, crashes, overtaken>>

\* The process ends at any step and starts again from the files.
Crash ==
    /\ crashes < MaxCrashes
    /\ crashes' = crashes + 1
    /\ edits' = 0
    /\ control' = load
    /\ egress' = control'.providers
    /\ lock' = Nobody
    /\ refresh_lock' = Nobody
    /\ op' = [t \in Threads |-> Idle]
    /\ session' = [session EXCEPT !.id = Absent, !.credential = Absent]
    /\ overtaken' = FALSE
    /\ UNCHANGED <<disk, oauth, clock>>

Commit(t) == SaveCache(t) \/ SaveProviders(t) \/ SaveFails(t) \/ commit_reload(t)

Refresh(t) == Adopt(t) \/ Refreshed(t) \/ RefreshFails(t) \/ Publish(t) \/ PublishFails(t)

User ==
    \/ \E id \in Providers : Open(id)
    \/ \E config \in Configs, models \in Models, forget \in BOOLEAN : EditDraft(config, models, forget)
    \/ clear_draft
    \/ \E account \in Accounts : Login(account)
    \/ \E kind \in {"save", "commit_refresh", "discover"} : Compile(kind)
    \/ \E kind \in {"enable", "disable", "remove"} : Queue(kind)
    \/ Cancel

Next ==
    \/ User
    \/ Begin \/ Refuse \/ Listed
    \/ refresh_saved_providers \/ NextInBatch
    \/ \E t \in Threads : Commit(t) \/ Refresh(t)
    \/ Expire
    \/ \E id \in Providers : ExternalEdit(id)
    \/ Crash

Spec == Init /\ [][Next]_vars

\* The loop ticks, started work goes on, a free mutex is handed to a thread that keeps
\* waiting for it, and the token endpoint answers.  The user and the environment owe nothing.
Fairness ==
    /\ WF_vars(NextInBatch) /\ WF_vars(Listed)
    /\ SF_vars(refresh_saved_providers)
    /\ SF_vars(Begin \/ Refuse)
    /\ \A t \in Threads : WF_vars(Commit(t)) /\ SF_vars(Refresh(t))

FairSpec == Spec /\ Fairness

(***************************************************************************)
(* Properties                                                              *)
(***************************************************************************)

\* Every variable has the type its declaration gives.
TypeOK ==
    /\ disk \in [providers : Documents \cup {Missing}, cache : Caches \cup {Missing}]
    /\ control \in [providers : Documents, provider_sha256 : Documents \cup {Missing},
                    cache : Caches, cache_sha256 : Caches \cup {Missing}]
    /\ egress \in Documents
    /\ lock \in Threads \cup {Nobody}
    /\ refresh_lock \in Threads \cup {Nobody}
    /\ op \in [Threads -> Operation]
    /\ session \in Sessions
    /\ oauth \in [issued : 0 .. MaxToken, revoked : SUBSET (1 .. MaxToken)]
    /\ clock \in 0 .. MaxToken
    /\ overtaken \in BOOLEAN
    /\ crashes \in 0 .. MaxCrashes
    /\ edits \in 0 .. MaxEdits

\* Outside the critical section the egress routes by exactly the documents the control plane
\* holds: every way out of a mutation (refused, failed before or after a rename, stored by the
\* loop or by a task whose window was cancelled) publishes a document if and only if the
\* control plane took it over.
EgressFollowsControl == lock = Nobody => egress = control.providers

\* While nobody edits the files, the hashes the control plane holds are those of the files, so
\* the next mutation is not refused: also after a cache was written and its Provider was not.
DiskFollowsControl ==
    lock = Nobody /\ edits = 0 =>
        /\ disk.providers = control.provider_sha256
        /\ disk.cache = control.cache_sha256

SavedBefore(id) == AsDocument(disk.providers)[id]

SavedAfter(id) == AsDocument(disk'.providers)[id]

RollsBack(id) ==
    /\ SavedBefore(id) # Absent /\ SavedAfter(id) # Absent
    /\ SavedBefore(id).auth.account = SavedAfter(id).auth.account
    /\ SavedBefore(id).auth.token > SavedAfter(id).auth.token

\* A saved credential is never replaced by an older one of the same account.
CredentialNeverRollsBack == [][\A id \in Providers : ~ RollsBack(id)]_vars

\* There is one way it can be: a draft was compiled, a refreshed token of its Provider was
\* stored, and the draft was saved.  A draft that was opened before the refresh and compiled
\* after it, a late answer, a switch and a retry replace nothing newer.
OnlyOvertakenSavesRollBack ==
    [][\A id \in Providers : RollsBack(id) =>
          /\ overtaken
          /\ op["settings"].pc = "providers" /\ op["settings"].id = id
          /\ op["settings"].kind \in {"save", "commit_refresh"}]_vars

\* A Provider that was removed while its token was being refreshed is not stored again by the
\* refresh: only the settings worker adds a Provider.
RemovedStaysRemoved ==
    [][\A id \in Providers :
          SavedBefore(id) = Absent /\ SavedAfter(id) # Absent =>
              op["settings"].pc = "providers" /\ op["settings"].id = id]_vars

\* A login the user saved while the token of the account before it was being refreshed stays:
\* an enabled Provider changes account only when the settings worker saves it.
LoginIsKept ==
    [][\A id \in Providers :
          /\ SavedBefore(id) # Absent /\ SavedAfter(id) # Absent
          /\ SavedBefore(id).auth.account # SavedAfter(id).auth.account
          /\ SavedAfter(id).enabled
          => op["settings"].pc = "providers" /\ op["settings"].id = id]_vars

\* A saved credential whose refresh token is used up is about to be replaced: of the answers
\* of the token endpoint none is lost, with the loop and a discovery refreshing the same
\* Provider and the user saving, switching and removing it meanwhile.
SavedCredentialUsable ==
    \A id \in Providers :
        /\ lock = Nobody /\ control.providers[id] # Absent
        /\ control.providers[id].auth.token \in oauth.revoked
        => \E t \in Threads :
               op[t].pc = "publish" /\ op[t].id = id /\ op[t].source = control.providers[id].auth

\* A saved credential that came into the refresh window is refreshed, replaced or removed.
StaleIsRefreshed ==
    \A id \in Providers :
        (control.providers[id] # Absent /\ needs_refresh(control.providers[id].auth)) ~>
            \/ control.providers[id] = Absent
            \/ ~ needs_refresh(control.providers[id].auth)
            \/ oauth.issued = MaxToken

\* control_plane.rs:165-166: a crash between the cache write and the Provider write of a refresh
\* leaves a fingerprint mismatch that fails closed, so what starts next does not route by it.
StaleCacheFailsClosed ==
    \A id \in Providers :
        /\ crashes > 0 /\ lock = Nobody
        /\ control.cache[id] # Absent /\ egress[id] # Absent
        /\ control.cache[id].fingerprint # fingerprint(egress[id])
        => ~ egress[id].enabled

\* control_plane.rs:164: a refresh is committed without changing the enable state of the Provider.
RefreshKeepsEnableState ==
    [][\A id \in Providers, t \in Threads :
          /\ op[t].kind = "commit_refresh" /\ op[t].id = id
          /\ SavedBefore(id) # Absent /\ SavedAfter(id) # Absent
          => SavedBefore(id).enabled = SavedAfter(id).enabled]_vars

\* README.md:194: concurrent changes are detected, so storing a refreshed token of the loop
\* does not undo what the user saved while the token endpoint was asked.
RefreshKeepsSettings ==
    [][\A id \in Providers :
          /\ op["refresher"].pc = "providers" /\ op["refresher"].id = id
          /\ SavedBefore(id) # Absent /\ SavedAfter(id) # Absent
          => /\ SavedBefore(id).config = SavedAfter(id).config
             /\ SavedBefore(id).models = SavedAfter(id).models
             /\ SavedAfter(id).enabled => SavedBefore(id).enabled]_vars
=============================================================================
