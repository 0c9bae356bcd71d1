------------------------- MODULE ProviderControlProofs -------------------------
(***************************************************************************)
(* Proofs about ProviderControl for every number of Providers, accounts,   *)
(* configurations and tokens, every set of failures and any number of      *)
(* crashes and external edits.                                             *)
(*                                                                         *)
(* EgressFollowsControl is not inductive: it says nothing of the critical  *)
(* section.  Inv adds what each thread carries at each program counter,    *)
(* that the threads inside the critical section are exactly the holder of  *)
(* the mutex, and which document the egress routes by at each step of it.  *)
(*                                                                         *)
(* The properties of the saved documents speak of the files, and follow    *)
(* from a second invariant on top of it: Held says of every operation on   *)
(* its way which tokens it may carry and what it owes to the document it   *)
(* will replace, Latest that what waits to be saved is no older than what  *)
(* it replaces unless a refresh overtook it, Agrees that the hashes in     *)
(* memory are those of the files.                                          *)
(*                                                                         *)
(* That no answer of the token endpoint is lost needs a third one: Usable  *)
(* says where every credential may be.  No two Providers share one, a      *)
(* draft has a used or spent one only if the saved one is as new, what a   *)
(* refresh has to store nobody else has, and a saved credential that is    *)
(* spent is the source of a refresh that is about to replace it.           *)
(***************************************************************************)
EXTENDS ProviderControl, FiniteSetTheorems, TLAPS

\* What an operation carries at its program counter.
Carries(o) ==
    /\ o.pc \notin {"idle", "next"} => o.id \in Providers
    /\ o.pc \notin {"idle", "next"} /\ o.kind \in {"save", "commit_refresh", "discover", "refresh"}
          => o.provider \in Provider
    /\ o.pc \in {"adopt", "request", "publish", "list"} => o.kind \in {"discover", "refresh"}
    /\ o.pc \in {"request", "publish"} => o.source \in Auth
    /\ o.pc = "next" => o.kind = "refresh"

WellFormed == op \in [Threads -> {o \in Operation : Carries(o)}]

\* Exactly the holder of the mutex is inside the critical section.
Exclusive == \A t \in Threads : op[t].pc \in Committing <=> lock = t

\* The egress lags behind the control plane between the two steps of the critical section only.
Published ==
    \/ egress = control.providers
    \/ \E t \in Threads : op[t].pc = "swap"

Swapping == \A t \in Threads : op[t].pc = "swap" => control.providers = op[t].next.providers

Inv == TypeOK /\ WellFormed /\ Exclusive /\ Published /\ Swapping

-------------------------------------------------------------------------------

\* Idle, and the loop between two Providers, are operations that carry nothing.
LEMMA IdleIsWellFormed ==
    /\ Idle \in {o \in Operation : Carries(o)}
    /\ NoProviders \in Documents /\ NoProviders \in Caches
    /\ Idle.pc = "idle"
<1>1. NoProviders \in Documents /\ NoProviders \in Caches
  BY DEF NoProviders, Documents, Caches
<1>2. Idle \in Operation /\ Idle.pc = "idle"
  BY <1>1 DEF Idle, Operation, Pcs, Kinds
<1> QED
  BY <1>1, <1>2 DEF Carries

\* A thread that starts an operation that carries what it must leaves the others alone.
LEMMA Started ==
    ASSUME WellFormed, NEW t \in Threads, NEW o \in {x \in Operation : Carries(x)}, Start(t, o)
    PROVE  /\ WellFormed' /\ op' \in [Threads -> Operation]
           /\ op'[t] = o
           /\ \A s \in Threads : s # t => op'[s] = op[s]
BY DEF WellFormed, Start

\* A step outside the critical section.
LEMMA Outside ==
    ASSUME Inv, NEW t \in Threads, NEW o \in {x \in Operation : Carries(x)}, Start(t, o),
           op[t].pc \notin Committing, o.pc \notin Committing,
           UNCHANGED <<lock, control, egress>>
    PROVE  /\ WellFormed' /\ op' \in [Threads -> Operation]
           /\ Exclusive' /\ Published' /\ Swapping'
<1>1. /\ WellFormed' /\ op' \in [Threads -> Operation] /\ op'[t] = o
      /\ \A s \in Threads : s # t => op'[s] = op[s]
  BY Started DEF Inv
<1>2. Exclusive'
  BY <1>1 DEF Inv, Exclusive
<1>3. Published'
  BY <1>1 DEF Inv, Published, Committing
<1>4. Swapping'
  BY <1>1 DEF Inv, Swapping, Committing
<1> QED
  BY <1>1, <1>2, <1>3, <1>4

\* The first step into the critical section.
LEMMA Enters ==
    ASSUME Inv, NEW t \in Threads, NEW o \in {x \in Operation : Carries(x)}, Start(t, o),
           lock = Nobody, lock' = t, o.pc \in {"cache", "providers"},
           UNCHANGED <<control, egress>>
    PROVE  /\ WellFormed' /\ op' \in [Threads -> Operation]
           /\ Exclusive' /\ Published' /\ Swapping'
<1>1. /\ WellFormed' /\ op' \in [Threads -> Operation] /\ op'[t] = o
      /\ \A s \in Threads : s # t => op'[s] = op[s]
  BY Started DEF Inv
<1>2. \A s \in Threads : op[s].pc \notin Committing
  BY NobodyAssumption DEF Inv, Exclusive
<1>3. Exclusive'
  BY <1>1, <1>2 DEF Exclusive, Committing
<1>4. Published'
  BY <1>2 DEF Inv, Published, Committing
<1>5. Swapping'
  BY <1>1, <1>2 DEF Swapping, Committing
<1> QED
  BY <1>1, <1>3, <1>4, <1>5

\* The step out of it, after which the egress routes by the document in memory.
LEMMA Leaves ==
    ASSUME Inv, NEW t \in Threads, NEW o \in {x \in Operation : Carries(x)}, Start(t, o),
           op[t].pc \in Committing, o.pc \notin Committing,
           lock' = Nobody, egress' = control'.providers
    PROVE  /\ WellFormed' /\ op' \in [Threads -> Operation]
           /\ Exclusive' /\ Published' /\ Swapping'
<1>1. /\ WellFormed' /\ op' \in [Threads -> Operation] /\ op'[t] = o
      /\ \A s \in Threads : s # t => op'[s] = op[s]
  BY Started DEF Inv
<1>2. \A s \in Threads : op'[s].pc \notin Committing
  BY <1>1 DEF Inv, Exclusive
<1>3. Exclusive'
  BY <1>2, NobodyAssumption DEF Exclusive
<1>4. Published' /\ Swapping'
  BY <1>2 DEF Published, Swapping, Committing
<1> QED
  BY <1>1, <1>3, <1>4

\* While a thread is at the writes of a commit, the egress still agrees with the memory.
LEMMA HolderIsAlone ==
    ASSUME Inv, NEW t \in Threads, op[t].pc \in Committing
    PROVE  /\ lock = t
           /\ op[t].pc # "swap" => egress = control.providers
BY DEF Inv, Exclusive, Published, Committing

\* What a thread goes on with after an error is well formed, and outside the critical section.
LEMMA FailedIsWellFormed ==
    ASSUME WellFormed, NEW t \in Threads
    PROVE  /\ Failed(t) \in {o \in Operation : Carries(o)}
           /\ Failed(t).pc \notin Committing
BY IdleIsWellFormed DEF WellFormed, Failed, Idle, Operation, Carries, Pcs, Kinds, Committing

\* What a thread goes on with after refresh_provider_if_needed returned.
LEMMA ReturnedIsWellFormed ==
    ASSUME WellFormed, NEW t \in Threads, NEW provider \in Provider, op[t].id \in Providers
    PROVE  /\ Returned(t, provider) \in {o \in Operation : Carries(o)}
           /\ Returned(t, provider).pc \notin Committing
<1>1. CASE t = "settings"
  BY <1>1, IdleIsWellFormed DEF Returned, Idle, Operation, Carries, Pcs, Kinds, Committing
<1>2. CASE t # "settings"
  BY <1>2, FailedIsWellFormed DEF Returned
<1> QED
  BY <1>1, <1>2

\* A prepared mutation consists of documents.
LEMMA PreparedIsTyped ==
    ASSUME TypeOK, NEW o \in {x \in Operation : Carries(x)}, NEW models \in Models,
           o.pc \notin {"idle", "next"}, ~ ProviderNotFound(o)
    PROVE  prepare_mutation(o, models) \in [providers : Documents, cache : Caches]
<1>1. o.id \in Providers /\ control.providers \in Documents /\ control.cache \in Caches
  BY DEF Carries, TypeOK
<1>2. CASE o.kind = "commit_refresh"
  <2>1. o.provider \in Provider
    BY <1>2 DEF Carries
  <2>2. [o.provider EXCEPT !.models = models] \in Provider
    BY <2>1 DEF Provider
  <2>3. [fingerprint |-> fingerprint(o.provider), models |-> models]
           \in [fingerprint : Configs \X Accounts, models : Models]
    BY <2>1 DEF Provider, Auth, fingerprint
  <2> QED
    BY <1>1, <1>2, <2>2, <2>3 DEF prepare_mutation, CommitRefresh, Documents, Caches
<1>3. CASE o.kind \in {"enable", "disable"}
  <2>1. control.providers[o.id] \in Provider
    BY <1>1, <1>3 DEF ProviderNotFound, Documents
  <2>2. [control.providers[o.id] EXCEPT !.enabled = (o.kind = "enable")] \in Provider
    BY <2>1 DEF Provider
  <2> QED
    BY <1>1, <1>3, <2>2 DEF prepare_mutation, SetProviderEnabled, Documents
<1>4. CASE o.kind = "remove"
  BY <1>1, <1>4 DEF prepare_mutation, RemoveProvider, Documents
<1>5. CASE o.kind \in {"save", "discover", "refresh"}
  BY <1>1, <1>5 DEF prepare_mutation, SaveProvider, Documents, Carries
<1> QED
  BY <1>2, <1>3, <1>4, <1>5 DEF Operation, Kinds

\* A step that moves no thread and neither locks nor publishes keeps what is not a type.
LEMMA Still ==
    ASSUME Inv, UNCHANGED <<op, lock, control, egress>>
    PROVE  /\ WellFormed' /\ op' \in [Threads -> Operation]
           /\ Exclusive' /\ Published' /\ Swapping'
BY DEF Inv, TypeOK, WellFormed, Exclusive, Published, Swapping

\* The steps of the user that start no operation.
LEMMA WindowSteps ==
    ASSUME Inv,
           \/ \E id \in Providers : Open(id)
           \/ \E config \in Configs, models \in Models, forget \in BOOLEAN :
                 EditDraft(config, models, forget)
           \/ clear_draft
           \/ \E account \in Accounts : Login(account)
    PROVE  Inv'
<1> USE ConstantsAssumption
<1>1. ASSUME NEW id \in Providers, Open(id) PROVE Inv'
  <2>1. control.providers[id] \in Provider
    BY <1>1 DEF Open, Inv, TypeOK, Documents
  <2>2. session' \in Sessions
    BY <1>1, <2>1 DEF Open, Sessions, Provider
  <2> QED
    BY <1>1, <2>2, Still DEF Open, Inv, TypeOK
<1>2. ASSUME NEW config \in Configs, NEW models \in Models, NEW forget \in BOOLEAN,
             EditDraft(config, models, forget)
      PROVE  Inv'
  <2>1. session' \in Sessions
    BY <1>2 DEF EditDraft, Inv, TypeOK, Sessions
  <2> QED
    BY <1>2, <2>1, Still DEF EditDraft, Inv, TypeOK
<1>3. CASE clear_draft
  <2>1. session' \in Sessions
    BY <1>3 DEF clear_draft, Inv, TypeOK, Sessions
  <2> QED
    BY <1>3, <2>1, Still DEF clear_draft, Inv, TypeOK
<1>4. ASSUME NEW account \in Accounts, Login(account) PROVE Inv'
  <2>1. oauth.issued \in 0 .. MaxToken /\ oauth.issued < MaxToken
    BY <1>4 DEF Login, Inv, TypeOK
  <2>2. [account |-> account, token |-> oauth.issued + 1] \in Auth
    BY <2>1 DEF Auth
  <2>3. session' \in Sessions
    BY <1>4, <2>2 DEF Login, Inv, TypeOK, Sessions
  <2>4. oauth' \in [issued : 0 .. MaxToken, revoked : SUBSET (1 .. MaxToken)]
    BY <1>4, <2>1 DEF Login, Inv, TypeOK
  <2> QED
    BY <1>4, <2>3, <2>4, Still DEF Login, Inv, TypeOK
<1> QED
  BY <1>1, <1>2, <1>3, <1>4

\* The steps of the environment but the crash.
LEMMA EnvironmentSteps ==
    ASSUME Inv, Expire \/ \E id \in Providers : ExternalEdit(id)
    PROVE  Inv'
<1> USE ConstantsAssumption
<1>1. CASE Expire
  <2>1. clock' \in 0 .. MaxToken
    BY <1>1 DEF Expire, Inv, TypeOK
  <2> QED
    BY <1>1, <2>1, Still DEF Expire, Inv, TypeOK
<1>2. ASSUME NEW id \in Providers, ExternalEdit(id) PROVE Inv'
  <2>1. disk.providers \in Documents /\ disk.providers[id] \in Provider
    BY <1>2 DEF ExternalEdit, Inv, TypeOK, Documents
  <2>2. [disk.providers[id] EXCEPT !.enabled = ~ @] \in Provider
    BY <2>1 DEF Provider
  <2>3. disk'.providers = [disk.providers EXCEPT ![id] = [disk.providers[id] EXCEPT !.enabled = ~ @]]
    BY <1>2 DEF ExternalEdit, Inv, TypeOK
  <2>4. disk'.providers \in Documents
    BY <2>1, <2>2, <2>3 DEF Documents
  <2>5. disk' \in [providers : Documents \cup {Missing}, cache : Caches \cup {Missing}]
    BY <1>2, <2>4 DEF ExternalEdit, Inv, TypeOK
  <2>6. edits' \in 0 .. MaxEdits
    BY <1>2 DEF ExternalEdit, Inv, TypeOK
  <2> QED
    BY <1>2, <2>5, <2>6, Still DEF ExternalEdit, Inv, TypeOK
<1> QED
  BY <1>1, <1>2

\* The steps that start an operation of the settings worker, or end one before it commits.
LEMMA WorkerSteps ==
    ASSUME Inv,
           \/ \E kind \in {"save", "commit_refresh", "discover"} : Compile(kind)
           \/ \E kind \in {"enable", "disable", "remove"} : Queue(kind)
           \/ Begin \/ Refuse \/ Listed
    PROVE  Inv'
<1> USE ConstantsAssumption
<1> DEFINE s == "settings"
<1>0. s \in Threads /\ op[s] \in {o \in Operation : Carries(o)}
  BY DEF Inv, WellFormed, Threads
<1>1. ASSUME NEW kind \in {"save", "commit_refresh", "discover"}, Compile(kind) PROVE Inv'
  <2>1. PICK id \in Providers, enabled \in BOOLEAN :
           /\ Compiled(id, enabled).auth # Absent
           /\ Start(s, [Idle EXCEPT !.kind = kind, !.id = id, !.provider = Compiled(id, enabled),
                  !.pc = IF kind # "discover" THEN "begin"
                         ELSE IF needs_refresh(Compiled(id, enabled).auth) THEN "adopt" ELSE "list"])
    BY <1>1, Zenon DEF Compile, Inv, TypeOK, Sessions, s
  <2>2. Compiled(id, enabled) \in Provider
    <3>1. control.providers[id] \in Provider \cup {Absent} /\ session \in Sessions
      BY DEF Inv, TypeOK, Documents
    <3> QED
      BY <2>1, <3>1 DEF Compiled, freshest_credential, Provider, Sessions
  <2>3. PICK o : o = [Idle EXCEPT !.kind = kind, !.id = id, !.provider = Compiled(id, enabled),
                  !.pc = IF kind # "discover" THEN "begin"
                         ELSE IF needs_refresh(Compiled(id, enabled).auth) THEN "adopt" ELSE "list"]
    OBVIOUS
  <2>4. /\ o \in {x \in Operation : Carries(x)} /\ o.pc \notin Committing
    <3>1. Idle \in Operation
      BY IdleIsWellFormed
    <3> QED
      BY <2>2, <2>3, <3>1 DEF Operation, Carries, Pcs, Kinds, Committing
  <2>5. op[s].pc \notin Committing
    BY <1>1 DEF Compile, SettingsFree, Committing, s
  <2> QED
    BY <1>0, <1>1, <2>1, <2>3, <2>4, <2>5, Outside DEF Compile, Inv, TypeOK
<1>2. ASSUME NEW kind \in {"enable", "disable", "remove"}, Queue(kind) PROVE Inv'
  <2>1. PICK o : o = [Idle EXCEPT !.pc = "begin", !.kind = kind, !.id = session.id]
    OBVIOUS
  <2>2. o \in {x \in Operation : Carries(x)} /\ o.pc \notin Committing
    BY <1>2, <2>1, IdleIsWellFormed DEF Queue, Inv, TypeOK, Sessions, Operation, Carries, Pcs, Kinds, Committing
  <2>3. Start(s, o) /\ op[s].pc \notin Committing
    BY <1>2, <2>1 DEF Queue, SettingsFree, Committing
  <2> QED
    BY <1>0, <1>2, <2>2, <2>3, Outside DEF Queue, Inv, TypeOK
<1>3. CASE Begin
  <2>1. PICK models \in Models :
           Start(s, [op[s] EXCEPT !.next = prepare_mutation(op[s], models),
                                  !.pc = IF op[s].kind = "commit_refresh" THEN "cache" ELSE "providers"])
    BY <1>3 DEF Begin
  <2>2. PICK o : o = [op[s] EXCEPT !.next = prepare_mutation(op[s], models),
                                  !.pc = IF op[s].kind = "commit_refresh" THEN "cache" ELSE "providers"]
    OBVIOUS
  <2>3. prepare_mutation(op[s], models) \in [providers : Documents, cache : Caches]
    BY <1>0, <1>3, PreparedIsTyped DEF Begin, Inv
  <2>4. o \in {x \in Operation : Carries(x)} /\ o.pc \in {"cache", "providers"}
    BY <1>0, <1>3, <2>2, <2>3 DEF Begin, Operation, Carries, Pcs
  <2> QED
    BY <1>0, <1>3, <2>1, <2>2, <2>4, Enters DEF Begin, Inv, TypeOK, Threads
<1>4. CASE Refuse
  <2>1. Start(s, Idle) /\ op[s].pc \notin Committing /\ Idle.pc \notin Committing
    BY <1>4, IdleIsWellFormed DEF Refuse, Committing
  <2> QED
    BY <1>0, <1>4, <2>1, IdleIsWellFormed, Outside DEF Refuse, Inv, TypeOK
<1>5. CASE Listed
  <2>1. Start(s, Idle) /\ op[s].pc \notin Committing /\ Idle.pc \notin Committing
    BY <1>5, IdleIsWellFormed DEF Listed, Committing
  <2>2. op[s].provider \in Provider
    BY <1>0, <1>5 DEF Listed, Carries
  <2>3. session' \in Sessions
    BY <1>5, <2>2 DEF Listed, Inv, TypeOK, Sessions, Provider
  <2> QED
    BY <1>0, <1>5, <2>1, <2>3, IdleIsWellFormed, Outside DEF Listed, Inv, TypeOK
<1> QED
  BY <1>1, <1>2, <1>3, <1>4, <1>5

\* The steps of the loop between two refreshes.
LEMMA LoopSteps ==
    ASSUME Inv, refresh_saved_providers \/ NextInBatch
    PROVE  Inv'
<1> DEFINE r == "refresher"
<1>0. /\ r \in Threads /\ op[r] \in {o \in Operation : Carries(o)}
      /\ control.providers \in Documents
  BY DEF Inv, TypeOK, WellFormed, Threads
<1>1. CASE refresh_saved_providers
  <2>1. PICK o : o = [Idle EXCEPT !.pc = "next", !.kind = "refresh",
             !.batch = [id \in Providers |->
                IF control.providers[id] # Absent /\ needs_refresh(control.providers[id].auth)
                THEN control.providers[id] ELSE Absent]]
    OBVIOUS
  <2>2. [id \in Providers |->
            IF control.providers[id] # Absent /\ needs_refresh(control.providers[id].auth)
            THEN control.providers[id] ELSE Absent] \in Documents
    BY <1>0 DEF Documents
  <2>3. o \in {x \in Operation : Carries(x)} /\ o.pc \notin Committing
    BY <2>1, <2>2, IdleIsWellFormed DEF Operation, Carries, Pcs, Kinds, Committing
  <2>4. Start(r, o) /\ op[r].pc \notin Committing
    BY <1>1, <2>1 DEF refresh_saved_providers, Committing
  <2> QED
    BY <1>0, <1>1, <2>3, <2>4, Outside DEF refresh_saved_providers, Inv, TypeOK
<1>2. CASE NextInBatch
  <2>1. op[r].pc = "next" /\ op[r].batch \in Documents /\ op[r].pc \notin Committing
    BY <1>0, <1>2 DEF NextInBatch, Operation, Committing
  <2>2. CASE Start(r, Idle)
    BY <1>0, <1>2, <2>1, <2>2, IdleIsWellFormed, Outside DEF NextInBatch, Inv, TypeOK, Committing
  <2>3. ASSUME NEW id \in Providers, op[r].batch[id] # Absent,
               Start(r, [op[r] EXCEPT !.pc = "adopt", !.id = id, !.provider = op[r].batch[id],
                                      !.batch[id] = Absent])
        PROVE  Inv'
    <3>1. PICK o : o = [op[r] EXCEPT !.pc = "adopt", !.id = id, !.provider = op[r].batch[id],
                                     !.batch[id] = Absent]
      OBVIOUS
    <3>2. op[r].batch[id] \in Provider /\ [op[r].batch EXCEPT ![id] = Absent] \in Documents
      BY <2>1, <2>3 DEF Documents
    <3>3. o \in Operation
      BY <1>0, <3>1, <3>2 DEF Operation, Pcs
    <3>4. o.id \in Providers /\ o.provider \in Provider /\ o.pc = "adopt" /\ o.kind = op[r].kind
      BY <1>0, <3>1, <3>2 DEF Operation
    <3>5. op[r].kind = "refresh"
      BY <2>1, <1>0 DEF Carries
    <3>6. o \in {x \in Operation : Carries(x)} /\ o.pc \notin Committing
      BY <3>3, <3>4, <3>5 DEF Carries, Committing
    <3> QED
      BY <1>0, <1>2, <2>1, <2>3, <3>1, <3>6, Outside DEF NextInBatch, Inv, TypeOK
  <2> QED
    BY <1>2, <2>2, <2>3 DEF NextInBatch
<1> QED
  BY <1>1, <1>2

\* A free mutex of the refresh stays typed.
LEMMA Released ==
    ASSUME TypeOK, NEW t, Release(t)
    PROVE  refresh_lock' \in Threads \cup {Nobody}
BY DEF TypeOK, Release

\* The credential a refresh starts from is typed.
LEMMA AdoptedIsTyped ==
    ASSUME Inv, NEW t \in Threads, op[t].pc = "adopt"
    PROVE  /\ op[t].id \in Providers /\ op[t].kind \in {"discover", "refresh"}
           /\ Adopted(t) \in Provider /\ Adopted(t).auth \in Auth
<1>1. /\ op[t] \in Operation /\ op[t].id \in Providers
      /\ op[t].provider \in Provider /\ op[t].kind \in {"discover", "refresh"}
  BY DEF Inv, WellFormed, Carries
<1>2. control.providers[op[t].id] \in Provider \cup {Absent}
  BY <1>1 DEF Inv, TypeOK, Documents
<1>3. Adopted(t) \in Provider
  BY <1>1, <1>2 DEF Adopted, Provider
<1> QED
  BY <1>1, <1>3 DEF Provider

\* The steps of refresh_provider_if_needed.
LEMMA RefreshSteps ==
    ASSUME Inv, NEW t \in Threads, Refresh(t)
    PROVE  Inv'
<1> USE ConstantsAssumption
<1>0. op[t] \in Operation /\ Carries(op[t]) /\ WellFormed
  BY DEF Inv, WellFormed
<1>1. CASE Adopt(t)
  <2>1. /\ op[t].pc = "adopt" /\ op[t].pc \notin Committing
        /\ op[t].id \in Providers /\ op[t].kind \in {"discover", "refresh"}
        /\ Adopted(t) \in Provider /\ Adopted(t).auth \in Auth
    BY <1>1, AdoptedIsTyped DEF Adopt, Committing
  <2>2. CASE needs_refresh(Adopted(t).auth)
    <3>1. PICK o : o = [op[t] EXCEPT !.pc = "request", !.provider = Adopted(t),
                            !.source = Adopted(t).auth,
                            !.saved = control.providers[op[t].id] # Absent]
      OBVIOUS
    <3>2. o \in {x \in Operation : Carries(x)} /\ o.pc \notin Committing
      BY <1>0, <2>1, <3>1 DEF Operation, Carries, Pcs, Committing
    <3> QED
      BY <1>1, <2>1, <2>2, <3>1, <3>2, Outside DEF Adopt, Inv, TypeOK
  <2>3. CASE ~ needs_refresh(Adopted(t).auth)
    <3>1. Start(t, Returned(t, Adopted(t))) /\ UNCHANGED refresh_lock
      BY <1>1, <2>3 DEF Adopt
    <3>2. /\ Returned(t, Adopted(t)) \in {x \in Operation : Carries(x)}
          /\ Returned(t, Adopted(t)).pc \notin Committing
      BY <1>0, <2>1, ReturnedIsWellFormed
    <3> QED
      BY <1>1, <2>1, <3>1, <3>2, Outside DEF Adopt, Inv, TypeOK
  <2> QED
    BY <2>2, <2>3
<1>2. CASE Refreshed(t)
  <2>1. /\ op[t].pc = "request" /\ op[t].pc \notin Committing
        /\ op[t].id \in Providers /\ op[t].provider \in Provider
        /\ op[t].source \in Auth /\ op[t].kind \in {"discover", "refresh"}
    BY <1>0, <1>2 DEF Refreshed, Carries, Committing
  <2>2. oauth.issued \in 0 .. MaxToken /\ oauth.issued < MaxToken
    BY <1>2 DEF Refreshed, Inv, TypeOK
  <2>3. oauth' \in [issued : 0 .. MaxToken, revoked : SUBSET (1 .. MaxToken)]
    BY <1>2, <2>1, <2>2 DEF Refreshed, Inv, TypeOK, Auth
  <2>a. PICK account \in Accounts :
              LET provider == [op[t].provider EXCEPT
                                  !.auth = [account |-> account, token |-> oauth.issued + 1],
                                  !.enabled = @ /\ account = op[t].source.account]
              IN  IF op[t].saved
                  THEN /\ Start(t, [op[t] EXCEPT !.pc = "publish", !.provider = provider])
                       /\ UNCHANGED refresh_lock
                  ELSE /\ Start(t, Returned(t, provider))
                       /\ Release(t)
    <3>1. op[t].source.account \in Accounts
      BY <2>1 DEF Auth
    <3> QED
      BY <1>2, <3>1 DEF Refreshed
  <2>4. PICK provider :
           /\ provider = [op[t].provider EXCEPT
                             !.auth = [account |-> account, token |-> oauth.issued + 1],
                             !.enabled = @ /\ account = op[t].source.account]
           /\ IF op[t].saved
              THEN /\ Start(t, [op[t] EXCEPT !.pc = "publish", !.provider = provider])
                   /\ UNCHANGED refresh_lock
              ELSE /\ Start(t, Returned(t, provider))
                   /\ Release(t)
    BY <2>a, Zenon
  <2>5. [account |-> account, token |-> oauth.issued + 1] \in Auth
    BY <2>2 DEF Auth
  <2>6. (op[t].provider.enabled /\ account = op[t].source.account) \in BOOLEAN
    OBVIOUS
  <2>7. provider \in Provider
    BY <2>1, <2>4, <2>5, <2>6 DEF Provider
  <2>8. CASE op[t].saved
    <3>1. PICK o : o = [op[t] EXCEPT !.pc = "publish", !.provider = provider]
      OBVIOUS
    <3>2. o \in {x \in Operation : Carries(x)} /\ o.pc \notin Committing
      BY <1>0, <2>1, <2>7, <3>1 DEF Operation, Carries, Pcs, Committing
    <3> QED
      BY <1>2, <2>1, <2>3, <2>4, <2>8, <3>1, <3>2, Outside DEF Refreshed, Inv, TypeOK
  <2>9. CASE ~ op[t].saved
    <3>1. Start(t, Returned(t, provider)) /\ Release(t)
      BY <2>4, <2>9
    <3>2. /\ Returned(t, provider) \in {x \in Operation : Carries(x)}
          /\ Returned(t, provider).pc \notin Committing
      BY <1>0, <2>1, <2>7, ReturnedIsWellFormed
    <3> QED
      BY <1>2, <2>1, <2>3, <3>1, <3>2, Outside, Released DEF Refreshed, Inv, TypeOK
  <2> QED
    BY <2>8, <2>9
<1>3. CASE RefreshFails(t)
  <2>1. /\ op[t].pc = "request" /\ op[t].pc \notin Committing /\ op[t].source \in Auth
    BY <1>0, <1>3 DEF RefreshFails, Carries, Committing
  <2>2. oauth' \in [issued : 0 .. MaxToken, revoked : SUBSET (1 .. MaxToken)]
    BY <1>3, <2>1 DEF RefreshFails, Inv, TypeOK, Auth
  <2>3. Start(t, Failed(t)) /\ Release(t)
    BY <1>3 DEF RefreshFails
  <2> QED
    BY <1>0, <1>3, <2>1, <2>2, <2>3, FailedIsWellFormed, Outside, Released
       DEF RefreshFails, Inv, TypeOK
<1>4. CASE Publish(t)
  <2>1. /\ op[t].pc = "publish" /\ op[t].pc \notin Committing /\ lock = Nobody
        /\ op[t].id \in Providers /\ op[t].provider \in Provider
        /\ op[t].kind \in {"discover", "refresh"}
    BY <1>0, <1>4 DEF Publish, Carries, Committing
  <2>2. CASE Unchanged(t)
    <3>1. PICK o : o = [op[t] EXCEPT !.pc = "providers", !.next = SaveProvider(op[t])]
      OBVIOUS
    <3>2. SaveProvider(op[t]) \in [providers : Documents, cache : Caches]
      BY <2>1 DEF SaveProvider, Inv, TypeOK, Documents
    <3>3. o \in {x \in Operation : Carries(x)} /\ o.pc \in {"cache", "providers"}
      BY <1>0, <2>1, <3>1, <3>2 DEF Operation, Carries, Pcs
    <3>4. Start(t, o) /\ lock' = t /\ UNCHANGED refresh_lock
      BY <1>4, <2>2, <3>1 DEF Publish
    <3> QED
      BY <1>4, <2>1, <3>3, <3>4, Enters DEF Publish, Inv, TypeOK
  <2>3. CASE ~ Unchanged(t)
    <3>1. PICK provider \in Provider : Start(t, Returned(t, provider)) /\ Release(t) /\ UNCHANGED lock
      <4>1. control.providers[op[t].id] \in Provider \cup {Absent}
        BY <2>1 DEF Inv, TypeOK, Documents
      <4> QED
        BY <1>4, <2>1, <2>3, <4>1 DEF Publish
    <3>2. /\ Returned(t, provider) \in {x \in Operation : Carries(x)}
          /\ Returned(t, provider).pc \notin Committing
      BY <1>0, <2>1, ReturnedIsWellFormed
    <3> QED
      BY <1>4, <2>1, <3>1, <3>2, Outside, Released DEF Publish, Inv, TypeOK
  <2> QED
    BY <2>2, <2>3
<1>5. CASE PublishFails(t)
  <2>1. /\ op[t].pc \notin Committing /\ Start(t, Failed(t)) /\ Release(t)
    BY <1>5 DEF PublishFails, Committing
  <2> QED
    BY <1>0, <1>5, <2>1, FailedIsWellFormed, Outside, Released DEF PublishFails, Inv, TypeOK
<1> QED
  BY <1>1, <1>2, <1>3, <1>4, <1>5 DEF Refresh

\* The steps of a commit, under the mutex.
LEMMA CommitSteps ==
    ASSUME Inv, NEW t \in Threads, Commit(t)
    PROVE  Inv'
<1> USE ConstantsAssumption
<1>0. /\ op[t] \in Operation /\ Carries(op[t]) /\ WellFormed
      /\ op[t].next \in [providers : Documents, cache : Caches]
  BY DEF Inv, WellFormed, Operation
<1>1. CASE SaveCache(t)
  <2>1. op[t].pc = "cache" /\ op[t].pc \in Committing
    BY <1>1 DEF SaveCache, Committing
  <2>2. PICK o : o = [op[t] EXCEPT !.pc = "providers"]
    OBVIOUS
  <2>3. o \in {x \in Operation : Carries(x)} /\ o.pc = "providers" /\ o.next = op[t].next
    BY <1>0, <2>1, <2>2 DEF Operation, Carries, Pcs
  <2>4. /\ WellFormed' /\ op' \in [Threads -> Operation] /\ op'[t] = o
        /\ \A s \in Threads : s # t => op'[s] = op[s]
    BY <1>0, <1>1, <2>2, <2>3, Started DEF SaveCache
  <2>5. lock = t /\ lock' = t /\ egress = control.providers
    BY <1>1, <2>1, HolderIsAlone DEF SaveCache
  <2>6. Exclusive'
    BY <2>3, <2>4, <2>5 DEF Inv, Exclusive, Committing
  <2>7. Published'
    BY <1>1, <2>5 DEF SaveCache, Published
  <2>8. Swapping'
    BY <1>1, <2>3, <2>4 DEF SaveCache, Inv, Swapping
  <2>9. disk' \in [providers : Documents \cup {Missing}, cache : Caches \cup {Missing}]
    BY <1>0, <1>1 DEF SaveCache, Inv, TypeOK
  <2> QED
    BY <1>1, <2>4, <2>6, <2>7, <2>8, <2>9 DEF SaveCache, Inv, TypeOK
<1>2. CASE SaveProviders(t)
  <2>1. op[t].pc = "providers" /\ op[t].pc \in Committing
    BY <1>2 DEF SaveProviders, Committing
  <2>2. PICK o : o = [op[t] EXCEPT !.pc = "swap"]
    OBVIOUS
  <2>3. o \in {x \in Operation : Carries(x)} /\ o.pc = "swap" /\ o.next = op[t].next
    BY <1>0, <2>1, <2>2 DEF Operation, Carries, Pcs
  <2>4. /\ WellFormed' /\ op' \in [Threads -> Operation] /\ op'[t] = o
        /\ \A s \in Threads : s # t => op'[s] = op[s]
    BY <1>0, <1>2, <2>2, <2>3, Started DEF SaveProviders
  <2>5. lock = t /\ lock' = t
    BY <1>2, <2>1, HolderIsAlone DEF SaveProviders
  <2>6. Exclusive'
    BY <2>3, <2>4, <2>5 DEF Inv, Exclusive, Committing
  <2>7. Published'
    BY <2>3, <2>4 DEF Published
  <2>8. Swapping'
    <3>1. control'.providers = op[t].next.providers
      BY <1>2 DEF SaveProviders
    <3>2. ASSUME NEW s \in Threads, s # t PROVE op'[s].pc # "swap"
      BY <2>4, <2>5, <3>2 DEF Inv, Exclusive, Committing
    <3> QED
      BY <2>3, <2>4, <3>1, <3>2 DEF Swapping
  <2>9. /\ disk' \in [providers : Documents \cup {Missing}, cache : Caches \cup {Missing}]
        /\ control' \in [providers : Documents, provider_sha256 : Documents \cup {Missing},
                         cache : Caches, cache_sha256 : Caches \cup {Missing}]
    BY <1>0, <1>2 DEF SaveProviders, Inv, TypeOK
  <2> QED
    BY <1>2, <2>4, <2>6, <2>7, <2>8, <2>9 DEF SaveProviders, Inv, TypeOK
<1>3. CASE SaveFails(t)
  <2>1. op[t].pc \in {"cache", "providers"} /\ op[t].pc \in Committing
    BY <1>3 DEF SaveFails, Committing
  <2>2. disk' \in [providers : Documents \cup {Missing}, cache : Caches \cup {Missing}]
    BY <1>0, <1>3 DEF SaveFails, LeftBy, Inv, TypeOK
  <2>3. /\ control' \in [providers : Documents, provider_sha256 : Documents \cup {Missing},
                         cache : Caches, cache_sha256 : Caches \cup {Missing}]
        /\ control'.providers = control.providers
    BY <1>0, <1>3 DEF SaveFails, AfterFailure, Inv, TypeOK
  <2>4. egress' = control'.providers
    BY <1>3, <2>1, <2>3, HolderIsAlone DEF SaveFails
  <2>5. Start(t, Failed(t)) /\ Release(t) /\ lock' = Nobody
    BY <1>3 DEF SaveFails
  <2> QED
    BY <1>0, <1>3, <2>1, <2>2, <2>3, <2>4, <2>5, FailedIsWellFormed, Leaves, Released
       DEF SaveFails, Inv, TypeOK
<1>4. CASE commit_reload(t)
  <2>1. op[t].pc = "swap" /\ op[t].pc \in Committing /\ op[t].id \in Providers
    BY <1>0, <1>4 DEF commit_reload, Committing, Carries
  <2>2. PICK o : o = IF op[t].kind \in {"discover", "refresh"}
                     THEN Returned(t, op[t].provider) ELSE Idle
    OBVIOUS
  <2>3. o \in {x \in Operation : Carries(x)} /\ o.pc \notin Committing
    <3>1. CASE op[t].kind \in {"discover", "refresh"}
      <4>1. op[t].provider \in Provider
        BY <1>0, <2>1, <3>1 DEF Carries
      <4> QED
        BY <1>0, <2>1, <2>2, <3>1, <4>1, ReturnedIsWellFormed
    <3>2. CASE op[t].kind \notin {"discover", "refresh"}
      BY <2>2, <3>2, IdleIsWellFormed DEF Committing
    <3> QED
      BY <3>1, <3>2
  <2>4. egress' = control'.providers /\ lock' = Nobody /\ Release(t) /\ Start(t, o)
    BY <1>4, <2>1, <2>2 DEF commit_reload, Inv, Swapping
  <2>5. egress' \in Documents
    BY <1>4, <2>4 DEF commit_reload, Inv, TypeOK
  <2>6. session' \in Sessions
    BY <1>4, <2>1 DEF commit_reload, Inv, TypeOK, Sessions
  <2> QED
    BY <1>4, <2>1, <2>3, <2>4, <2>5, <2>6, Leaves, Released DEF commit_reload, Inv, TypeOK
<1> QED
  BY <1>1, <1>2, <1>3, <1>4 DEF Commit

\* A cancelled operation ends at an await, or leaves its blocking task and the mutex with it.
LEMMA CancelStep ==
    ASSUME Inv, Cancel
    PROVE  Inv'
<1> DEFINE s == "settings"
<1> DEFINE d == "detached"
<1>0. s \in Threads /\ d \in Threads /\ s # d /\ op[s] \in {o \in Operation : Carries(o)}
  BY DEF Inv, WellFormed, Threads
<1>1. Release(s)
  BY DEF Cancel
<1>2. CASE op[s].pc \in {"publish"} \cup Committing
  <2>1. /\ op[d].pc = "idle" /\ op' = [op EXCEPT ![s] = Idle, ![d] = op[s]]
        /\ lock' = IF lock = s THEN d ELSE lock
        /\ UNCHANGED <<control, egress>>
    BY <1>2 DEF Cancel
  <2>2. WellFormed' /\ op' \in [Threads -> Operation]
    BY <1>0, <2>1, IdleIsWellFormed DEF Inv, WellFormed
  <2>3. /\ op'[s] = Idle /\ op'[d] = op[s]
        /\ \A t \in Threads : t # s /\ t # d => op'[t] = op[t]
    BY <1>0, <2>1 DEF Inv, WellFormed
  <2>4. Idle.pc = "idle" /\ "idle" \notin Committing /\ "swap" # "idle"
    BY IdleIsWellFormed DEF Committing
  <2>5. lock # d
    BY <1>0, <2>1, <2>4 DEF Inv, Exclusive
  <2>6. Exclusive'
    <3>1. op'[s].pc \in Committing <=> lock' = s
      BY <1>0, <2>1, <2>3, <2>4
    <3>2. op'[d].pc \in Committing <=> lock' = d
      BY <1>0, <2>1, <2>3, <2>5 DEF Inv, Exclusive
    <3>3. ASSUME NEW t \in Threads, t # s, t # d PROVE op'[t].pc \in Committing <=> lock' = t
      BY <1>0, <2>1, <2>3, <3>3 DEF Inv, Exclusive
    <3> QED
      BY <3>1, <3>2, <3>3 DEF Exclusive
  <2>7. Published'
    <3>1. CASE egress = control.providers
      BY <2>1, <3>1 DEF Published
    <3>2. ASSUME NEW t \in Threads, op[t].pc = "swap" PROVE Published'
      <4>1. CASE t = s
        BY <1>0, <2>3, <3>2, <4>1 DEF Published
      <4>2. CASE t # s
        BY <1>0, <2>1, <2>3, <3>2, <4>2 DEF Published
      <4> QED
        BY <4>1, <4>2
    <3> QED
      BY <3>1, <3>2 DEF Inv, Published
  <2>8. Swapping'
    BY <1>0, <2>1, <2>3, <2>4 DEF Inv, Swapping
  <2>9. lock' \in Threads \cup {Nobody}
    BY <1>0, <2>1 DEF Inv, TypeOK
  <2> QED
    BY <1>1, <2>2, <2>6, <2>7, <2>8, <2>9, Released DEF Cancel, Inv, TypeOK
<1>3. CASE op[s].pc \notin {"publish"} \cup Committing
  <2>1. Start(s, Idle) /\ UNCHANGED <<lock, control, egress>>
    BY <1>3 DEF Cancel
  <2>2. Idle.pc \notin Committing
    BY IdleIsWellFormed DEF Committing
  <2> QED
    BY <1>0, <1>1, <1>3, <2>1, <2>2, IdleIsWellFormed, Outside, Released DEF Cancel, Inv, TypeOK
<1> QED
  BY <1>2, <1>3

\* What is loaded at a start is typed.
LEMMA LoadIsTyped ==
    ASSUME disk \in [providers : Documents \cup {Missing}, cache : Caches \cup {Missing}]
    PROVE  load \in [providers : Documents, provider_sha256 : Documents \cup {Missing},
                     cache : Caches, cache_sha256 : Caches \cup {Missing}]
<1>1. AsDocument(disk.providers) \in Documents /\ AsDocument(disk.cache) \in Caches
  BY IdleIsWellFormed DEF AsDocument
<1> QED
  BY <1>1 DEF load

\* When no thread does anything, nothing is locked or to be swapped.
LEMMA AllIdle ==
    ASSUME op' = [t \in Threads |-> Idle], lock' = Nobody, egress' = control'.providers
    PROVE  /\ WellFormed' /\ op' \in [Threads -> Operation]
           /\ Exclusive' /\ Published' /\ Swapping'
<1>1. WellFormed' /\ op' \in [Threads -> Operation]
  BY IdleIsWellFormed DEF WellFormed
<1>2. \A t \in Threads : op'[t].pc = "idle"
  BY IdleIsWellFormed
<1> QED
  BY <1>1, <1>2, NobodyAssumption DEF Exclusive, Published, Swapping, Committing

\* A restart comes up with what the files hold, at whatever step the process ended.
LEMMA CrashStep ==
    ASSUME Inv, Crash
    PROVE  Inv'
<1> USE ConstantsAssumption
<1>1. /\ WellFormed' /\ op' \in [Threads -> Operation]
      /\ Exclusive' /\ Published' /\ Swapping'
  BY AllIdle DEF Crash
<1>2. /\ control' \in [providers : Documents, provider_sha256 : Documents \cup {Missing},
                       cache : Caches, cache_sha256 : Caches \cup {Missing}]
      /\ egress' \in Documents
  BY LoadIsTyped DEF Crash, Inv, TypeOK
<1>3. session' \in Sessions
  BY DEF Crash, Inv, TypeOK, Sessions
<1>4. crashes' \in 0 .. MaxCrashes /\ edits' \in 0 .. MaxEdits
  BY DEF Crash, Inv, TypeOK
<1> QED
  BY <1>1, <1>2, <1>3, <1>4 DEF Crash, Inv, TypeOK

-------------------------------------------------------------------------------

\* The program starts in the inductive invariant: a first launch, or one with saved Providers.
THEOREM InitInv == Init => Inv
<1> USE ConstantsAssumption
<1> SUFFICES ASSUME Init PROVE Inv
  OBVIOUS
<1>1. Cardinality(Providers) \in Nat
  BY FS_CardinalityType
<1>2. oauth \in [issued : 0 .. MaxToken, revoked : SUBSET (1 .. MaxToken)]
  BY <1>1 DEF Init
<1>3. disk \in [providers : Documents \cup {Missing}, cache : Caches \cup {Missing}]
  BY DEF Init, Documents
<1>4. /\ control \in [providers : Documents, provider_sha256 : Documents \cup {Missing},
                      cache : Caches, cache_sha256 : Caches \cup {Missing}]
      /\ egress \in Documents
  BY <1>3, LoadIsTyped DEF Init
<1>5. op \in [Threads -> {o \in Operation : Carries(o)}] /\ \A t \in Threads : op[t].pc = "idle"
  BY IdleIsWellFormed DEF Init
<1>6. TypeOK
  <2>1. /\ session \in Sessions /\ lock = Nobody /\ refresh_lock = Nobody /\ overtaken = FALSE
        /\ clock = 0 /\ crashes = 0 /\ edits = 0
    BY DEF Init, Sessions
  <2>2. clock \in 0 .. MaxToken /\ crashes \in 0 .. MaxCrashes /\ edits \in 0 .. MaxEdits
    BY <2>1
  <2>3. op \in [Threads -> Operation]
    BY <1>5
  <2> HIDE ConstantsAssumption
  <2> QED
    BY <1>2, <1>3, <1>4, <2>1, <2>2, <2>3 DEF TypeOK
<1>7. WellFormed
  BY <1>5 DEF WellFormed
<1>8. Exclusive
  BY <1>5, NobodyAssumption DEF Init, Exclusive, Committing
<1>9. Published /\ Swapping
  BY <1>5 DEF Init, Published, Swapping
<1> QED
  BY <1>6, <1>7, <1>8, <1>9 DEF Inv

\* Every step of every thread, of the user and of the environment preserves it.
THEOREM NextInv == Inv /\ [Next]_vars => Inv'
<1> SUFFICES ASSUME Inv, [Next]_vars PROVE Inv'
  OBVIOUS
<1>1. CASE UNCHANGED vars
  BY <1>1 DEF vars, Inv, TypeOK, WellFormed, Exclusive, Published, Swapping
<1>2. CASE User
  BY <1>2, WindowSteps, WorkerSteps, CancelStep DEF User
<1>3. CASE Begin \/ Refuse \/ Listed
  BY <1>3, WorkerSteps
<1>4. CASE refresh_saved_providers \/ NextInBatch
  BY <1>4, LoopSteps
<1>5. ASSUME NEW t \in Threads, Commit(t) \/ Refresh(t) PROVE Inv'
  BY <1>5, CommitSteps, RefreshSteps
<1>6. CASE Expire \/ \E id \in Providers : ExternalEdit(id)
  BY <1>6, EnvironmentSteps
<1>7. CASE Crash
  BY <1>7, CrashStep
<1> QED
  BY <1>1, <1>2, <1>3, <1>4, <1>5, <1>6, <1>7 DEF Next

\* The inductive invariant implies the property.
THEOREM InvImpliesEgress == Inv => EgressFollowsControl
<1> SUFFICES ASSUME Inv, lock = Nobody PROVE egress = control.providers
  BY DEF EgressFollowsControl
<1>1. ASSUME NEW t \in Threads PROVE op[t].pc # "swap"
  BY NobodyAssumption DEF Inv, Exclusive, Committing
<1> QED
  BY <1>1 DEF Inv, Published

-------------------------------------------------------------------------------
\* What the saved documents owe to the operations: the second invariant, on top of Inv.

\* No credential is newer than the last token that was issued.
Old(provider) == provider # Absent => provider.auth.token <= oauth.issued

\* What a thread carries is no newer.
Carried(o) ==
    /\ Old(o.provider)
    /\ o.source # Absent => o.source.token <= oauth.issued
    /\ \A id \in Providers : Old(o.batch[id]) /\ Old(o.next.providers[id])

\* A refreshed credential is newer than its source; one of another account comes disabled.
Answered(o) ==
    o.pc \in {"publish", "providers"} /\ o.kind \in {"discover", "refresh"} =>
        /\ o.provider.enabled => o.provider.auth.account = o.source.account
        /\ o.source.token < o.provider.auth.token

\* A mutation changes only its Provider; that of a refresh replaces the credential it started
\* from.
Prepared(o) ==
    /\ o.pc \in {"cache", "providers"} =>
           \A id \in Providers \ {o.id} : o.next.providers[id] = control.providers[id]
    /\ o.pc = "providers" /\ o.kind \in {"discover", "refresh"} =>
           /\ control.providers[o.id] # Absent /\ control.providers[o.id].auth = o.source
           /\ o.next.providers[o.id] = o.provider

\* What each thread does.
Role(t, o) ==
    /\ o.pc = "begin" => o.kind \notin {"discover", "refresh"}
    /\ o.pc = "cache" => o.kind = "commit_refresh"
    /\ t = "refresher" /\ o.pc # "idle" => o.kind = "refresh"
    /\ t = "detached" /\ o.pc # "idle" => o.kind = "discover"

Sound(t) == Carried(op[t]) /\ Answered(op[t]) /\ Prepared(op[t]) /\ Role(t, op[t])

\* The document in memory is the one its hash stands for.
Known == control.providers = AsDocument(control.provider_sha256)

Issued ==
    /\ \A id \in Providers : Old(control.providers[id]) /\ Old(SavedBefore(id))
    /\ session.credential # Absent => session.credential.token <= oauth.issued

Held == Known /\ Issued /\ \A t \in Threads : Sound(t)

\* provider may replace old: it is not an older credential of the same account.
NotOlder(old, provider) ==
    old # Absent /\ provider # Absent /\ old.auth.account = provider.auth.account
        => old.auth.token <= provider.auth.token

\* Does the settings worker save a draft?
Saving == op["settings"].kind \in {"save", "commit_refresh"}

\* A draft that was not overtaken is still the freshest when its mutation is prepared, and so
\* when it is written; the other mutations bring nothing older in any case.
Latest ==
    /\ SavePending /\ ~ overtaken =>
           NotOlder(control.providers[op["settings"].id], op["settings"].provider)
    /\ \A t \in Threads :
           op[t].pc \in {"cache", "providers"} /\ ~ (t = "settings" /\ Saving /\ overtaken) =>
               NotOlder(control.providers[op[t].id], op[t].next.providers[op[t].id])

\* When no refreshed token is stored between the compilation of a draft and its save, no draft
\* is overtaken.
Ahead == ~ overtaken /\ (SavePending => lock = Nobody)

\* A commit of a refresh whose cache is written and whose Providers are not.
HalfWritten(t) == op[t].pc = "providers" /\ op[t].kind = "commit_refresh"

\* When no rename fails after it took effect, the hashes are those of the files, but for the
\* cache of a commit that is half written.
Agrees ==
    edits = 0 =>
        /\ disk.providers = control.provider_sha256
        /\ (\A t \in Threads : ~ HalfWritten(t)) => disk.cache = control.cache_sha256
        /\ \A t \in Threads : HalfWritten(t) => disk.cache = op[t].next.cache

\* Tokens are numbers: what is not newer than the last one stays so when another is issued.
LEMMA Older ==
    ASSUME TypeOK, TypeOK', oauth.issued <= oauth'.issued
    PROVE  /\ oauth.issued \in Nat /\ oauth'.issued \in Nat
           /\ \A provider \in Provider \cup {Absent} : Old(provider) => Old(provider)'
           /\ \A auth \in Auth : auth.token \in Nat
<1>1. oauth.issued \in Nat /\ oauth'.issued \in Nat
  BY ConstantsAssumption DEF TypeOK
<1>2. \A auth \in Auth : auth.token \in Nat
  BY ConstantsAssumption DEF Auth
<1>3. \A provider \in Provider : provider.auth \in Auth
  BY DEF Provider
<1> QED
  BY <1>1, <1>2, <1>3 DEF Old

\* An operation that is typed carries no newer token when another is issued.
LEMMA CarriedStays ==
    ASSUME TypeOK, TypeOK', oauth.issued <= oauth'.issued, NEW o \in Operation, Carried(o)
    PROVE  Carried(o)'
<1>1. /\ o.provider \in Provider \cup {Absent} /\ o.source \in Auth \cup {Absent}
      /\ \A id \in Providers : /\ o.batch[id] \in Provider \cup {Absent}
                               /\ o.next.providers[id] \in Provider \cup {Absent}
  BY DEF Operation, Documents
<1>2. o.source # Absent => o.source.token <= oauth'.issued
  BY <1>1, Older DEF Carried
<1> QED
  BY <1>1, <1>2, Older DEF Carried

\* An operation that carries nothing.
LEMMA NothingCarried == ASSUME NEW t \in Threads PROVE Carried(Idle) /\ Answered(Idle) /\ Prepared(Idle) /\ Role(t, Idle)
BY DEF Idle, NoProviders, Carried, Answered, Prepared, Role, Old

\* A thread that goes on with a sound operation leaves those of the others sound, unless it
\* writes the document, which only the holder of the mutex does.
LEMMA Goes ==
    ASSUME Inv, TypeOK', Held, NEW t \in Threads, NEW o, Start(t, o),
           oauth.issued <= oauth'.issued,
           control'.providers = control.providers \/ op[t].pc \in Committing,
           Carried(o)', Answered(o), Prepared(o)', Role(t, o)
    PROVE  \A s \in Threads : Sound(s)'
<1> SUFFICES ASSUME NEW s \in Threads PROVE Sound(s)'
  OBVIOUS
<1>1. op \in [Threads -> Operation] /\ TypeOK
  BY DEF Inv, TypeOK
<1>2. CASE s = t
  <2>1. op'[s] = o
    BY <1>1, <1>2 DEF Start
  <2> QED
    BY <1>2, <2>1 DEF Sound, Carried, Answered, Prepared, Role, Old
<1>3. CASE s # t
  <2>1. op'[s] = op[s] /\ op[s] \in Operation /\ Sound(s)
    BY <1>1, <1>3 DEF Start, Held
  <2>2. Carried(op[s])'
    <3>1. PICK x \in Operation : x = op[s]
      BY <2>1
    <3>2. Carried(x)'
      BY <1>1, <2>1, <3>1, CarriedStays DEF Sound
    <3> QED
      BY <2>1, <3>1, <3>2 DEF Carried, Old
  <2>3. Prepared(op[s])'
    <3>1. CASE control'.providers = control.providers
      BY <2>1, <3>1 DEF Sound, Prepared
    <3>2. CASE op[t].pc \in Committing
      <4>1. op[s].pc \notin Committing
        BY <1>3, <3>2 DEF Inv, Exclusive
      <4> QED
        BY <2>1, <4>1 DEF Prepared, Committing
    <3> QED
      BY <3>1, <3>2
  <2> QED
    BY <2>1, <2>2, <2>3 DEF Sound, Answered, Role
<1> QED
  BY <1>2, <1>3

\* A step that neither writes a document nor logs in keeps what is known of them.
LEMMA KnownStays ==
    ASSUME Inv, TypeOK', Held, UNCHANGED <<control, disk>>, oauth.issued <= oauth'.issued,
           session'.credential # Absent => session'.credential.token <= oauth'.issued
    PROVE  Known' /\ Issued'
<1>1. Known'
  BY DEF Held, Known, AsDocument
<1>2. ASSUME NEW id \in Providers PROVE Old(control.providers[id])' /\ Old(SavedBefore(id))'
  <2>1. /\ control.providers[id] \in Provider \cup {Absent}
        /\ SavedBefore(id) \in Provider \cup {Absent}
    BY IdleIsWellFormed DEF Inv, TypeOK, SavedBefore, AsDocument, Documents
  <2>2. PICK p, q : p = control.providers[id] /\ q = SavedBefore(id)
    OBVIOUS
  <2>3. Old(p)' /\ Old(q)'
    BY <1>2, <2>1, <2>2, Older DEF Inv, Held, Issued
  <2>4. control'.providers[id] = p /\ SavedBefore(id)' = q
    BY <2>2 DEF SavedBefore, AsDocument
  <2> QED
    BY <2>3, <2>4 DEF Old
<1> QED
  BY <1>1, <1>2 DEF Issued

\* The steps of the user and of the environment that move no thread.
LEMMA QuietHeld ==
    ASSUME Inv, TypeOK', Held, UNCHANGED <<op, control>>, oauth.issued <= oauth'.issued
    PROVE  \A s \in Threads : Sound(s)'
<1> SUFFICES ASSUME NEW s \in Threads PROVE Sound(s)'
  OBVIOUS
<1>1. op'[s] = op[s] /\ op[s] \in Operation /\ Sound(s) /\ TypeOK
  BY DEF Inv, TypeOK, Held
<1>2. PICK x \in Operation : x = op[s]
  BY <1>1
<1>3. Carried(x)'
  BY <1>1, <1>2, CarriedStays DEF Sound
<1> QED
  BY <1>1, <1>2, <1>3 DEF Sound, Carried, Answered, Prepared, Role, Old

\* The steps of the settings window touch no operation and no document.
LEMMA WindowHeld ==
    ASSUME Inv, TypeOK', Held,
           \/ \E id \in Providers : Open(id)
           \/ \E config \in Configs, models \in Models, forget \in BOOLEAN :
                 EditDraft(config, models, forget)
           \/ clear_draft
           \/ \E account \in Accounts : Login(account)
           \/ Expire
    PROVE  Held'
<1>1. oauth.issued \in Nat /\ session \in Sessions
  BY ConstantsAssumption DEF Inv, TypeOK
<1> DEFINE Quiet == /\ oauth.issued <= oauth'.issued /\ UNCHANGED <<op, control, disk>>
                    /\ session'.credential # Absent => session'.credential.token <= oauth'.issued
<1>2. Quiet
  <2>1. ASSUME NEW id \in Providers, Open(id) PROVE Quiet
    BY <1>1, <2>1 DEF Open, Held, Issued, Old
  <2>2. ASSUME NEW config \in Configs, NEW models \in Models, NEW forget \in BOOLEAN,
               EditDraft(config, models, forget)
        PROVE  Quiet
    <3>1. session'.credential \in {Absent, session.credential}
      BY <1>1, <2>2 DEF EditDraft, Sessions
    <3> QED
      <4>1. UNCHANGED <<op, control, disk, oauth>>
        BY <2>2 DEF EditDraft
      <4>2. session.credential # Absent => session.credential.token <= oauth.issued
        BY DEF Held, Issued
      <4> QED
        BY <1>1, <3>1, <4>1, <4>2
  <2>3. CASE clear_draft
    BY <1>1, <2>3 DEF clear_draft, Sessions
  <2>4. ASSUME NEW account \in Accounts, Login(account) PROVE Quiet
    BY <1>1, <2>4 DEF Login, Sessions, Inv, TypeOK
  <2>5. CASE Expire
    BY <1>1, <2>5 DEF Expire, Held, Issued
  <2> QED
    BY <2>1, <2>2, <2>3, <2>4, <2>5
<1> QED
  BY <1>2, QuietHeld, KnownStays DEF Held

\* Another program switches a Provider: its credential stays.
LEMMA EditedFile ==
    ASSUME TypeOK, NEW i \in Providers, ExternalEdit(i), NEW id \in Providers
    PROVE  /\ SavedBefore(id) # Absent /\ SavedAfter(id) # Absent
                => SavedAfter(id).auth = SavedBefore(id).auth
           /\ SavedBefore(id) = Absent => SavedAfter(id) = Absent
<1>1. /\ disk.providers \in Documents /\ disk.providers # Missing
      /\ disk' = [disk EXCEPT !.providers[i].enabled = ~ @]
      /\ disk \in [providers : Documents \cup {Missing}, cache : Caches \cup {Missing}]
      /\ disk.providers[i] # Absent
  BY DEF ExternalEdit, TypeOK
<1>2. disk.providers[i] \in Provider
  BY <1>1 DEF Documents
<1>3. /\ disk'.providers \in Documents
      /\ id # i => disk'.providers[id] = disk.providers[id]
      /\ id = i => disk'.providers[id].auth = disk.providers[id].auth
  BY <1>1, <1>2 DEF Documents, Provider
<1>4. disk'.providers # Missing
  BY <1>3, SentinelAssumption
<1>5. SavedBefore(id) = disk.providers[id] /\ SavedAfter(id) = disk'.providers[id]
  BY <1>1, <1>4 DEF SavedBefore, SavedAfter, AsDocument
<1> QED
  BY <1>1, <1>3, <1>5

\* An edit of the file by another program changes the document on disk only, with credentials
\* that were saved already.
LEMMA EditHeld ==
    ASSUME Inv, TypeOK', Held, NEW i \in Providers, ExternalEdit(i)
    PROVE  Held'
<1>1. UNCHANGED <<op, control, oauth, session>> /\ oauth.issued \in Nat /\ TypeOK
  BY ConstantsAssumption DEF ExternalEdit, Inv, TypeOK
<1>2. ASSUME NEW id \in Providers PROVE Old(SavedBefore(id))'
  <2>1. SavedBefore(id)' = SavedAfter(id)
    BY DEF SavedBefore, SavedAfter, AsDocument
  <2> QED
    BY <1>1, <2>1, EditedFile DEF Held, Issued, Old
<1>3. Known' /\ Issued'
  BY <1>1, <1>2 DEF Held, Known, Issued, Old, AsDocument
<1> QED
  BY <1>1, <1>3, QuietHeld DEF Held

\* A step of a thread that writes nothing.
LEMMA ThreadHeld ==
    ASSUME Inv, TypeOK', Held, NEW t \in Threads, NEW o \in Operation, Start(t, o),
           UNCHANGED <<control, disk>>, oauth.issued <= oauth'.issued,
           session'.credential # Absent => session'.credential.token <= oauth'.issued,
           Carried(o) \/ Carried(o)', Answered(o), Role(t, o),
           o.pc \notin {"cache", "providers"} \/ Prepared(o)
    PROVE  Held'
<1>1. Carried(o)'
  BY CarriedStays DEF Inv
<1>2. Prepared(o)'
  BY DEF Prepared
<1> QED
  BY <1>1, <1>2, Goes, KnownStays DEF Held

\* What a thread goes on with after an error.
LEMMA FailedIsSound ==
    ASSUME Inv, Held, NEW t \in Threads, NEW o, o = Failed(t)
    PROVE  /\ o \in Operation /\ Carried(o) /\ Answered(o) /\ Role(t, o)
           /\ o.pc \in {"idle", "next"}
<1>1. o \in Operation /\ (t # "refresher" => o = Idle)
  BY FailedIsWellFormed DEF Failed, Inv
<1>2. CASE t = "refresher"
  <2>1. o = [Idle EXCEPT !.pc = "next", !.kind = "refresh", !.batch = op[t].batch]
    BY <1>2 DEF Failed
  <2>2. \A id \in Providers : Old(op[t].batch[id])
    BY DEF Held, Sound, Carried
  <2>3. /\ o.pc = "next" /\ o.kind = "refresh" /\ o.batch = op[t].batch
        /\ o.provider = Absent /\ o.source = Absent /\ o.next.providers = NoProviders
    BY <2>1 DEF Idle
  <2> QED
    BY <1>1, <1>2, <2>2, <2>3 DEF NoProviders, Carried, Answered, Role, Old
<1>3. CASE t # "refresher"
  BY <1>1, <1>3, NothingCarried, IdleIsWellFormed
<1> QED
  BY <1>2, <1>3

\* What a thread goes on with after refresh_provider_if_needed returned.
LEMMA ReturnedIsSound ==
    ASSUME Inv, Held, NEW t \in Threads, NEW provider \in Provider, Old(provider),
           op[t].id \in Providers, NEW o, o = Returned(t, provider)
    PROVE  /\ o \in Operation /\ Carried(o) /\ Answered(o) /\ Role(t, o)
           /\ o.pc \in {"idle", "next", "list"}
<1>1. o \in Operation
  BY ReturnedIsWellFormed DEF Inv
<1>2. CASE t = "settings"
  <2>1. o = [Idle EXCEPT !.pc = "list", !.kind = "discover", !.id = op[t].id, !.provider = provider]
    BY <1>2 DEF Returned
  <2>2. /\ o.pc = "list" /\ o.kind = "discover" /\ o.batch = NoProviders
        /\ o.provider = provider /\ o.source = Absent /\ o.next.providers = NoProviders
    BY <2>1 DEF Idle
  <2> QED
    BY <1>1, <1>2, <2>2 DEF NoProviders, Carried, Answered, Role, Old
<1>3. CASE t # "settings"
  BY <1>3, FailedIsSound DEF Returned
<1> QED
  BY <1>2, <1>3

\* The credential of the draft, and of what is compiled from it.
LEMMA CompiledIsOld ==
    ASSUME Inv, Held, NEW id \in Providers, NEW enabled, Compiled(id, enabled).auth # Absent
    PROVE  /\ Old(Compiled(id, enabled))
           /\ NotOlder(control.providers[id], Compiled(id, enabled))
<1>1. /\ control.providers[id] \in Provider \cup {Absent} /\ session.credential \in Auth \cup {Absent}
      /\ Old(control.providers[id]) /\ oauth.issued \in Nat
      /\ session.credential # Absent => session.credential.token <= oauth.issued
  BY ConstantsAssumption DEF Inv, TypeOK, Documents, Held, Issued, Sessions
<1>2. control.providers[id] # Absent =>
          control.providers[id].auth \in Auth /\ control.providers[id].auth.token <= oauth.issued
  BY <1>1 DEF Old, Provider
<1>3. \A auth \in Auth : auth.token \in Nat
  BY ConstantsAssumption DEF Auth
<1>4. PICK own : own = IF session.credential = Absent /\ control.providers[id] # Absent
                       THEN control.providers[id].auth ELSE session.credential
  OBVIOUS
<1>5. Compiled(id, enabled).auth = freshest_credential(own, control.providers[id])
  BY <1>4 DEF Compiled
<1>6. own \in Auth \cup {Absent} /\ (own # Absent => own.token <= oauth.issued)
  BY <1>1, <1>2, <1>4
<1>7. freshest_credential(own, control.providers[id]) # Absent
  BY <1>5
<1>8. own # Absent
  BY <1>7 DEF freshest_credential
<1>9. Old(Compiled(id, enabled))
  BY <1>1, <1>2, <1>5, <1>6, <1>8 DEF freshest_credential, Old
<1>10. NotOlder(control.providers[id], Compiled(id, enabled))
  BY <1>1, <1>2, <1>3, <1>5, <1>6, <1>8 DEF freshest_credential, NotOlder
<1> QED
  BY <1>9, <1>10

\* The steps of the settings worker outside a refresh and the critical section.
LEMMA WorkerHeld ==
    ASSUME Inv, TypeOK', Held,
           \/ \E kind \in {"save", "commit_refresh", "discover"} : Compile(kind)
           \/ \E kind \in {"enable", "disable", "remove"} : Queue(kind)
           \/ Begin \/ Refuse \/ Listed
    PROVE  Held'
<1> DEFINE s == "settings"
<1>0. /\ s \in Threads /\ op[s] \in Operation /\ Carries(op[s]) /\ Sound(s) /\ TypeOK
      /\ op \in [Threads -> Operation] /\ oauth.issued \in Nat /\ Idle \in Operation
      /\ session.credential # Absent => session.credential.token <= oauth.issued
  BY IdleIsWellFormed, ConstantsAssumption DEF Inv, TypeOK, WellFormed, Threads, Held, Issued
<1>1. ASSUME NEW kind \in {"save", "commit_refresh", "discover"}, Compile(kind) PROVE Held'
  <2>0. /\ session.id \in Providers \cup {Absent}
        /\ \A id \in Providers : (IF kind = "commit_refresh" THEN BOOLEAN
               ELSE {control.providers[id] = Absent \/ control.providers[id].enabled}) \subseteq BOOLEAN
    BY <1>0 DEF TypeOK, Sessions
  <2>1. PICK id \in Providers, enabled \in BOOLEAN :
           /\ Compiled(id, enabled).auth # Absent
           /\ Start(s, [Idle EXCEPT !.kind = kind, !.id = id, !.provider = Compiled(id, enabled),
                  !.pc = IF kind # "discover" THEN "begin"
                         ELSE IF needs_refresh(Compiled(id, enabled).auth) THEN "adopt" ELSE "list"])
    BY <1>1, <2>0, Zenon DEF Compile, s
  <2>2. PICK o : o = [Idle EXCEPT !.kind = kind, !.id = id, !.provider = Compiled(id, enabled),
                  !.pc = IF kind # "discover" THEN "begin"
                         ELSE IF needs_refresh(Compiled(id, enabled).auth) THEN "adopt" ELSE "list"]
    OBVIOUS
  <2>3. Start(s, o) /\ o.pc \in {"begin", "adopt", "list"} /\ o.kind = kind
        /\ (o.pc = "begin" => kind # "discover")
    BY <2>1, <2>2 DEF Idle
  <2>4. o \in Operation
    BY <1>0, <2>3 DEF Start, TypeOK
  <2>5. Carried(o) /\ Answered(o) /\ Role(s, o)
    <3>1. o.provider = Compiled(id, enabled) /\ o.batch = NoProviders /\ o.source = Absent
          /\ o.next.providers = NoProviders
      BY <2>2 DEF Idle
    <3>2. Old(Compiled(id, enabled))
      BY <2>1, CompiledIsOld
    <3> QED
      BY <2>3, <3>1, <3>2 DEF Carried, Answered, Role, Old, NoProviders
  <2>6. UNCHANGED <<control, disk, oauth, session>>
    BY <1>1 DEF Compile
  <2> QED
    BY <1>0, <2>3, <2>4, <2>5, <2>6, ThreadHeld
<1>2. ASSUME NEW kind \in {"enable", "disable", "remove"}, Queue(kind) PROVE Held'
  <2>1. PICK o : o = [Idle EXCEPT !.pc = "begin", !.kind = kind, !.id = session.id]
    OBVIOUS
  <2>2. Start(s, o)
    BY <1>2, <2>1 DEF Queue
  <2>3. o \in Operation
    BY <1>0, <2>2 DEF Start, TypeOK
  <2>4. Carried(o) /\ Answered(o) /\ Role(s, o) /\ o.pc = "begin"
    BY <1>2, <2>1 DEF Idle, NoProviders, Carried, Answered, Role, Old
  <2> QED
    BY <1>0, <1>2, <2>2, <2>3, <2>4, ThreadHeld DEF Queue
<1>3. CASE Begin
  <2>1. /\ op[s].pc = "begin" /\ op[s].kind \in {"save", "commit_refresh", "enable", "disable", "remove"}
        /\ op[s].id \in Providers /\ ~ ProviderNotFound(op[s])
        /\ control.providers \in Documents /\ control.cache \in Caches
    BY <1>0, <1>3 DEF Begin, Operation, Kinds, Sound, Role, Carries, TypeOK
  <2>2. PICK models \in Models :
           Start(s, [op[s] EXCEPT !.next = prepare_mutation(op[s], models),
                                  !.pc = IF op[s].kind = "commit_refresh" THEN "cache" ELSE "providers"])
    BY <1>3 DEF Begin
  <2>3. PICK o : o = [op[s] EXCEPT !.next = prepare_mutation(op[s], models),
                                  !.pc = IF op[s].kind = "commit_refresh" THEN "cache" ELSE "providers"]
    OBVIOUS
  <2>4. /\ o.next = prepare_mutation(op[s], models) /\ o.id = op[s].id /\ o.kind = op[s].kind
        /\ o.provider = op[s].provider /\ o.batch = op[s].batch /\ o.source = op[s].source
        /\ o.pc = IF op[s].kind = "commit_refresh" THEN "cache" ELSE "providers"
    BY <1>0, <2>3 DEF Operation
  <2>5. \A id \in Providers \ {o.id} : o.next.providers[id] = control.providers[id]
    BY <2>1, <2>4 DEF prepare_mutation, CommitRefresh, SetProviderEnabled, RemoveProvider, SaveProvider, Documents
  <2>6. Old(o.next.providers[o.id])
    <3>1. Old(op[s].provider) /\ Old(control.providers[o.id])
      BY <1>0, <2>1, <2>4 DEF Sound, Carried, Held, Issued
    <3>2. CASE op[s].kind = "commit_refresh"
      <4>1. op[s].provider \in Provider
        BY <1>0, <2>1, <3>2 DEF Carries
      <4>2. o.next.providers[o.id] = [op[s].provider EXCEPT !.models = models]
        BY <2>1, <2>4, <3>2 DEF prepare_mutation, CommitRefresh, Documents
      <4>3. o.next.providers[o.id].auth = op[s].provider.auth
        BY <4>1, <4>2 DEF Provider
      <4> QED
        BY <3>1, <4>1, <4>3, SentinelAssumption DEF Old
    <3>3. CASE op[s].kind \in {"enable", "disable"}
      <4>1. control.providers[o.id] \in Provider /\ control.providers[o.id] # Absent
        BY <2>1, <2>4, <3>3 DEF ProviderNotFound, Documents
      <4>2. o.next.providers[o.id] = [control.providers[o.id] EXCEPT !.enabled = (op[s].kind = "enable")]
        BY <2>1, <2>4, <3>3 DEF prepare_mutation, SetProviderEnabled, Documents
      <4> QED
        BY <3>1, <4>1, <4>2 DEF Old, Provider
    <3>4. CASE op[s].kind = "remove"
      BY <2>1, <2>4, <3>4 DEF prepare_mutation, RemoveProvider, Documents, Old
    <3>5. CASE op[s].kind = "save"
      BY <2>1, <2>4, <3>1, <3>5 DEF prepare_mutation, SaveProvider, Documents
    <3> QED
      BY <2>1, <3>2, <3>3, <3>4, <3>5
  <2>7. Carried(o)
    <3>1. ASSUME NEW id \in Providers PROVE Old(o.next.providers[id])
      BY <2>5, <2>6 DEF Held, Issued
    <3> QED
      BY <1>0, <2>4, <3>1 DEF Sound, Carried
  <2>8. Answered(o) /\ Role(s, o) /\ Prepared(o)
    BY <2>1, <2>4, <2>5 DEF Answered, Role, Prepared
  <2>9. Start(s, o) /\ o \in Operation
    BY <1>0, <2>2, <2>3 DEF Start, TypeOK
  <2>10. UNCHANGED <<control, disk, oauth, session>>
    BY <1>3 DEF Begin
  <2> QED
    BY <1>0, <2>7, <2>8, <2>9, <2>10, ThreadHeld
<1>4. CASE Refuse
  BY <1>0, <1>4, NothingCarried, IdleIsWellFormed, ThreadHeld DEF Refuse
<1>5. CASE Listed
  <2>1. op[s].provider \in Provider /\ op[s].provider.auth \in Auth
    BY <1>0, <1>5, IdleIsWellFormed DEF Listed, Carries, Provider, Role, Sound, Inv, WellFormed
  <2>2. op[s].provider # Absent => op[s].provider.auth.token <= oauth.issued
    BY <1>0 DEF Sound, Carried, Old
  <2>3. session'.credential # Absent => session'.credential.token <= oauth.issued
    BY <1>0, <1>5, <2>1, <2>2, SentinelAssumption DEF Listed, Inv, TypeOK, Sessions
  <2>4. Start(s, Idle) /\ UNCHANGED <<control, disk, oauth>>
    BY <1>5 DEF Listed
  <2> QED
    BY <1>0, <2>3, <2>4, NothingCarried, IdleIsWellFormed, ThreadHeld
<1> QED
  BY <1>1, <1>2, <1>3, <1>4, <1>5

\* The steps of the loop between two refreshes.
LEMMA LoopHeld ==
    ASSUME Inv, TypeOK', Held, refresh_saved_providers \/ NextInBatch
    PROVE  Held'
<1> DEFINE r == "refresher"
<1>0. /\ r \in Threads /\ op[r] \in Operation /\ Sound(r) /\ Carries(op[r]) /\ TypeOK
      /\ op \in [Threads -> Operation] /\ oauth.issued \in Nat
      /\ session.credential # Absent => session.credential.token <= oauth.issued
  BY ConstantsAssumption DEF Inv, TypeOK, WellFormed, Threads, Held, Issued
<1>1. CASE refresh_saved_providers
  <2>1. PICK batch : batch = [id \in Providers |->
                IF control.providers[id] # Absent /\ needs_refresh(control.providers[id].auth)
                THEN control.providers[id] ELSE Absent]
    OBVIOUS
  <2>2. PICK o : o = [Idle EXCEPT !.pc = "next", !.kind = "refresh", !.batch = batch]
    OBVIOUS
  <2>3. Start(r, o) /\ UNCHANGED <<control, disk, oauth, session>>
    BY <1>1, <2>1, <2>2 DEF refresh_saved_providers
  <2>4. o \in Operation
    BY <1>0, <2>3 DEF Start, TypeOK
  <2>5. /\ o.pc = "next" /\ o.kind = "refresh" /\ o.batch = batch /\ o.provider = Absent
        /\ o.source = Absent /\ o.next.providers = NoProviders
    BY <2>2 DEF Idle
  <2>6. \A id \in Providers : Old(batch[id])
    BY <2>1 DEF Held, Issued, Old
  <2>7. Carried(o) /\ Answered(o) /\ Role(r, o)
    BY <2>5, <2>6 DEF Carried, Answered, Role, NoProviders, Old
  <2> QED
    BY <1>0, <2>3, <2>4, <2>5, <2>7, ThreadHeld
<1>2. CASE NextInBatch
  <2>1. op[r].pc = "next" /\ UNCHANGED <<control, disk, oauth, session>>
    BY <1>2 DEF NextInBatch
  <2>2. CASE Start(r, Idle)
    BY <1>0, <2>1, <2>2, NothingCarried, IdleIsWellFormed, ThreadHeld
  <2>3. ASSUME NEW id \in Providers,
               Start(r, [op[r] EXCEPT !.pc = "adopt", !.id = id, !.provider = op[r].batch[id],
                                      !.batch[id] = Absent])
        PROVE  Held'
    <3>1. PICK o : o = [op[r] EXCEPT !.pc = "adopt", !.id = id, !.provider = op[r].batch[id],
                                     !.batch[id] = Absent]
      OBVIOUS
    <3>2. /\ o.pc = "adopt" /\ o.kind = op[r].kind /\ o.provider = op[r].batch[id]
          /\ o.batch = [op[r].batch EXCEPT ![id] = Absent]
          /\ o.source = op[r].source /\ o.next = op[r].next /\ op[r].batch \in Documents
      BY <1>0, <3>1 DEF Operation
    <3>3. Start(r, o) /\ o \in Operation
      BY <1>0, <2>3, <3>1 DEF Start, TypeOK
    <3>4. ASSUME NEW i \in Providers PROVE o.batch[i] \in {op[r].batch[i], Absent}
      BY <3>2 DEF Documents
    <3>5. Carried(o) /\ Answered(o) /\ Role(r, o)
      BY <1>0, <2>1, <3>2, <3>4 DEF Sound, Carried, Answered, Role, Old
    <3> QED
      BY <1>0, <2>1, <3>2, <3>3, <3>5, ThreadHeld
  <2> QED
    BY <1>2, <2>2, <2>3 DEF NextInBatch
<1> QED
  BY <1>1, <1>2

\* A refresh starts from a credential that was issued.
LEMMA AdoptedIsOld ==
    ASSUME Inv, Held, NEW t \in Threads, op[t].pc = "adopt"
    PROVE  Old(Adopted(t)) /\ Adopted(t).auth.token <= oauth.issued
<1>1. /\ op[t].provider \in Provider /\ op[t].id \in Providers /\ Adopted(t) \in Provider
      /\ control.providers[op[t].id] \in Provider \cup {Absent}
  BY AdoptedIsTyped DEF Inv, WellFormed, Carries, TypeOK, Documents
<1>2. Old(op[t].provider) /\ Old(control.providers[op[t].id])
  BY <1>1 DEF Held, Sound, Carried, Issued
<1>3. CASE Adopted(t) = op[t].provider
  BY <1>1, <1>2, <1>3, SentinelAssumption DEF Old
<1>4. CASE /\ control.providers[op[t].id] # Absent
           /\ Adopted(t) = [op[t].provider EXCEPT !.auth = control.providers[op[t].id].auth]
  <2>1. Adopted(t).auth = control.providers[op[t].id].auth
    BY <1>1, <1>4 DEF Provider
  <2> QED
    BY <1>2, <1>4, <2>1 DEF Old
<1> QED
  BY <1>3, <1>4 DEF Adopted

\* The steps of a refresh: what it stores is newer than what it started from.
LEMMA RefreshHeld ==
    ASSUME Inv, TypeOK', Held, NEW t \in Threads, Refresh(t)
    PROVE  Held'
<1>0. /\ op[t] \in Operation /\ Carries(op[t]) /\ Sound(t) /\ TypeOK
      /\ op \in [Threads -> Operation] /\ oauth.issued \in Nat
      /\ session.credential # Absent => session.credential.token <= oauth.issued
  BY ConstantsAssumption DEF Inv, TypeOK, WellFormed, Held, Issued
<1>1. PICK failed : failed = Failed(t)
  OBVIOUS
<1>2. /\ failed \in Operation /\ Carried(failed) /\ Answered(failed) /\ Role(t, failed)
      /\ failed.pc \notin {"cache", "providers"}
  BY <1>1, FailedIsSound
<1>3. CASE Adopt(t)
  <2>1. op[t].pc = "adopt" /\ op[t].id \in Providers /\ Adopted(t) \in Provider
        /\ UNCHANGED <<control, disk, oauth, session>>
    BY <1>3, AdoptedIsTyped DEF Adopt
  <2>2. Old(Adopted(t)) /\ Adopted(t).auth.token <= oauth.issued
    BY <2>1, AdoptedIsOld
  <2>3. CASE needs_refresh(Adopted(t).auth)
    <3>1. PICK o : o = [op[t] EXCEPT !.pc = "request", !.provider = Adopted(t),
                            !.source = Adopted(t).auth,
                            !.saved = control.providers[op[t].id] # Absent]
      OBVIOUS
    <3>2. /\ o.pc = "request" /\ o.kind = op[t].kind /\ o.provider = Adopted(t)
          /\ o.source = Adopted(t).auth /\ o.batch = op[t].batch /\ o.next = op[t].next
      BY <1>0, <3>1 DEF Operation
    <3>3. Start(t, o) /\ o \in Operation
      BY <1>0, <1>3, <2>3, <3>1 DEF Adopt, Start, TypeOK
    <3>4. Carried(o) /\ Answered(o) /\ Role(t, o)
      BY <1>0, <2>1, <2>2, <3>2 DEF Sound, Carried, Answered, Role
    <3> QED
      BY <1>0, <2>1, <3>2, <3>3, <3>4, ThreadHeld
  <2>4. CASE ~ needs_refresh(Adopted(t).auth)
    <3>1. PICK o : o = Returned(t, Adopted(t))
      OBVIOUS
    <3>2. /\ o \in Operation /\ Carried(o) /\ Answered(o) /\ Role(t, o)
          /\ o.pc \in {"idle", "next", "list"}
      BY <2>1, <2>2, <3>1, ReturnedIsSound
    <3>3. Start(t, o)
      BY <1>3, <2>4, <3>1 DEF Adopt
    <3> QED
      BY <1>0, <2>1, <3>2, <3>3, ThreadHeld
  <2> QED
    BY <2>3, <2>4
<1>4. CASE Refreshed(t)
  <2>1. /\ op[t].pc = "request" /\ op[t].id \in Providers /\ op[t].provider \in Provider
        /\ op[t].source \in Auth /\ op[t].source.token <= oauth.issued
        /\ oauth'.issued = oauth.issued + 1 /\ UNCHANGED <<control, disk, session>>
    BY <1>0, <1>4, SentinelAssumption DEF Refreshed, Carries, Sound, Carried, TypeOK
  <2>2. oauth.issued <= oauth'.issued
        /\ (session'.credential # Absent => session'.credential.token <= oauth'.issued)
    BY <1>0, <2>1, Older DEF TypeOK, Sessions
  <2>3. PICK account \in Accounts :
              LET provider == [op[t].provider EXCEPT
                                  !.auth = [account |-> account, token |-> oauth.issued + 1],
                                  !.enabled = @ /\ account = op[t].source.account]
              IN  IF op[t].saved
                  THEN /\ Start(t, [op[t] EXCEPT !.pc = "publish", !.provider = provider])
                       /\ UNCHANGED refresh_lock
                  ELSE /\ Start(t, Returned(t, provider))
                       /\ Release(t)
    <3>1. op[t].source.account \in Accounts
      BY <2>1 DEF Auth
    <3> QED
      BY <1>4, <3>1 DEF Refreshed
  <2>4. PICK provider :
           /\ provider = [op[t].provider EXCEPT
                             !.auth = [account |-> account, token |-> oauth.issued + 1],
                             !.enabled = @ /\ account = op[t].source.account]
           /\ IF op[t].saved
              THEN /\ Start(t, [op[t] EXCEPT !.pc = "publish", !.provider = provider])
                   /\ UNCHANGED refresh_lock
              ELSE /\ Start(t, Returned(t, provider))
                   /\ Release(t)
    BY <2>3, Zenon
  <2>5. /\ provider.auth = [account |-> account, token |-> oauth.issued + 1]
        /\ provider.enabled = (op[t].provider.enabled /\ account = op[t].source.account)
    BY <2>1, <2>4 DEF Provider
  <2>6. /\ provider.auth.token = oauth'.issued /\ op[t].source.token < provider.auth.token
        /\ provider.enabled => provider.auth.account = op[t].source.account
        /\ provider.auth \in Auth /\ provider.enabled \in BOOLEAN
    <3>1. op[t].source.token \in Nat /\ oauth'.issued \in 0 .. MaxToken
      BY <2>1, ConstantsAssumption DEF Auth, TypeOK
    <3>2. provider.auth.token = oauth'.issued /\ op[t].source.token < provider.auth.token
      BY <1>0, <2>1, <2>5, <3>1
    <3>3. provider.auth \in Auth
      BY <1>0, <2>1, <2>5, <3>1 DEF Auth
    <3>4. provider.auth.account = account
      BY <2>5
    <3>5. provider.enabled \in BOOLEAN
      BY <2>5
    <3>6. provider.enabled => provider.auth.account = op[t].source.account
      BY <2>5, <3>4
    <3> QED
      BY <3>2, <3>3, <3>5, <3>6
  <2>7. provider \in Provider
    BY <2>1, <2>4, <2>6 DEF Provider
  <2>8. provider.auth.token <= oauth'.issued
    BY <1>0, <2>1, <2>6
  <2>9. CASE op[t].saved
    <3>1. PICK o : o = [op[t] EXCEPT !.pc = "publish", !.provider = provider]
      OBVIOUS
    <3>2. /\ o.pc = "publish" /\ o.kind = op[t].kind /\ o.provider = provider
          /\ o.source = op[t].source /\ o.batch = op[t].batch /\ o.next = op[t].next
      BY <1>0, <3>1 DEF Operation
    <3>3. Start(t, o) /\ o \in Operation
      BY <1>0, <2>4, <2>9, <3>1 DEF Start, TypeOK
    <3>4. Answered(o) /\ Role(t, o)
      BY <1>0, <2>1, <2>6, <3>2 DEF Sound, Answered, Role
    <3>5. Carried(o)'
      <4>1. PICK x \in Operation : x = op[t]
        BY <1>0
      <4>2. Carried(x)'
        BY <1>0, <2>2, <4>1, CarriedStays DEF Sound
      <4> QED
        BY <2>8, <3>2, <4>1, <4>2 DEF Carried, Old
    <3> QED
      BY <1>0, <2>1, <2>2, <3>2, <3>3, <3>4, <3>5, ThreadHeld
  <2>10. CASE ~ op[t].saved
    <3>1. PICK o : o = Returned(t, provider)
      OBVIOUS
    <3>2. Start(t, o)
      BY <2>4, <2>10, <3>1
    <3>3. o \in Operation
      BY <1>0, <3>2 DEF Start, TypeOK
    <3>4. CASE t = "settings"
      <4>1. o = [Idle EXCEPT !.pc = "list", !.kind = "discover", !.id = op[t].id, !.provider = provider]
        BY <3>1, <3>4 DEF Returned
      <4>2. /\ o.pc = "list" /\ o.kind = "discover" /\ o.batch = NoProviders
            /\ o.provider = provider /\ o.source = Absent /\ o.next.providers = NoProviders
        BY <4>1 DEF Idle
      <4>3. Carried(o)' /\ Answered(o) /\ Role(t, o)
        BY <2>8, <3>4, <4>2 DEF NoProviders, Carried, Answered, Role, Old
      <4> QED
        BY <1>0, <2>1, <2>2, <3>2, <3>3, <4>2, <4>3, ThreadHeld
    <3>5. CASE t # "settings"
      <4>1. o = failed
        BY <1>1, <3>1, <3>5 DEF Returned
      <4> QED
        BY <1>2, <2>1, <2>2, <3>2, <4>1, ThreadHeld
    <3> QED
      BY <3>4, <3>5
  <2> QED
    BY <2>9, <2>10
<1>5. CASE RefreshFails(t)
  <2>1. Start(t, failed) /\ UNCHANGED <<control, disk, session>>
    BY <1>1, <1>5 DEF RefreshFails
  <2>2. oauth.issued <= oauth'.issued
    BY <1>0, <1>5 DEF RefreshFails, TypeOK
  <2>3. session'.credential # Absent => session'.credential.token <= oauth'.issued
    BY <1>0, <2>1, <2>2, Older DEF TypeOK, Sessions
  <2> QED
    BY <1>2, <2>1, <2>2, <2>3, ThreadHeld
<1>6. CASE Publish(t)
  <2>1. /\ op[t].pc = "publish" /\ op[t].id \in Providers /\ op[t].provider \in Provider
        /\ op[t].source \in Auth /\ op[t].kind \in {"discover", "refresh"}
        /\ control.providers \in Documents /\ UNCHANGED <<control, disk, oauth, session>>
    BY <1>0, <1>6 DEF Publish, Carries, TypeOK
  <2>2. CASE Unchanged(t)
    <3>1. PICK o : o = [op[t] EXCEPT !.pc = "providers", !.next = SaveProvider(op[t])]
      OBVIOUS
    <3>2. /\ o.pc = "providers" /\ o.kind = op[t].kind /\ o.provider = op[t].provider /\ o.id = op[t].id
          /\ o.source = op[t].source /\ o.batch = op[t].batch /\ o.next = SaveProvider(op[t])
      BY <1>0, <3>1 DEF Operation
    <3>3. Start(t, o) /\ o \in Operation
      BY <1>0, <1>6, <2>2, <3>1 DEF Publish, Start, TypeOK
    <3>4. /\ o.next.providers[o.id] = o.provider
          /\ \A id \in Providers \ {o.id} : o.next.providers[id] = control.providers[id]
      BY <2>1, <3>2 DEF SaveProvider, Documents
    <3>5. ASSUME NEW id \in Providers PROVE Old(o.next.providers[id])
      BY <1>0, <3>2, <3>4 DEF Held, Issued, Sound, Carried
    <3>6. Carried(o) /\ Answered(o) /\ Role(t, o)
      BY <1>0, <2>1, <3>2, <3>5 DEF Sound, Carried, Answered, Role
    <3>7. Prepared(o)
      BY <2>2, <3>2, <3>4 DEF Prepared, Unchanged
    <3> QED
      BY <1>0, <2>1, <3>3, <3>6, <3>7, ThreadHeld
  <2>3. CASE ~ Unchanged(t)
    <3>1. PICK provider \in Provider : Start(t, Returned(t, provider)) /\ Old(provider)
      <4>1. control.providers[op[t].id] \in Provider \cup {Absent}
        BY <2>1 DEF Documents
      <4>2. Old(control.providers[op[t].id]) /\ Old(op[t].provider)
        BY <1>0, <2>1 DEF Held, Issued, Sound, Carried
      <4> QED
        BY <1>6, <2>1, <2>3, <4>1, <4>2 DEF Publish
    <3>2. PICK o : o = Returned(t, provider)
      OBVIOUS
    <3>3. /\ o \in Operation /\ Carried(o) /\ Answered(o) /\ Role(t, o)
          /\ o.pc \in {"idle", "next", "list"}
      BY <2>1, <3>1, <3>2, ReturnedIsSound
    <3> QED
      BY <1>0, <2>1, <3>1, <3>2, <3>3, ThreadHeld
  <2> QED
    BY <2>2, <2>3
<1>7. CASE PublishFails(t)
  <2>1. Start(t, failed) /\ UNCHANGED <<control, disk, oauth, session>>
    BY <1>1, <1>7 DEF PublishFails
  <2> QED
    BY <1>0, <1>2, <2>1, ThreadHeld
<1> QED
  BY <1>3, <1>4, <1>5, <1>6, <1>7 DEF Refresh

\* A cancelled operation takes what it carries with it.
LEMMA CancelHeld ==
    ASSUME Inv, TypeOK', Held, Cancel
    PROVE  Held'
<1> DEFINE s == "settings"
<1> DEFINE d == "detached"
<1>0. /\ s \in Threads /\ d \in Threads /\ s # d /\ TypeOK
      /\ op \in [Threads -> Operation] /\ oauth.issued \in Nat /\ Idle \in Operation
      /\ session.credential # Absent => session.credential.token <= oauth.issued
      /\ UNCHANGED <<control, disk, oauth, session>>
  BY IdleIsWellFormed, ConstantsAssumption DEF Cancel, Inv, TypeOK, Threads, Held, Issued
<1>1. Known' /\ Issued'
  BY <1>0, KnownStays
<1>2. CASE op[s].pc \in {"publish"} \cup Committing
  <2>1. op' = [op EXCEPT ![s] = Idle, ![d] = op[s]] /\ op[s].kind = "discover"
    BY <1>2 DEF Cancel
  <2>2. /\ op'[s] = Idle /\ op'[d] = op[s]
        /\ \A t \in Threads : t # s /\ t # d => op'[t] = op[t]
    BY <1>0, <2>1
  <2>3. ASSUME NEW t \in Threads, NEW o \in Operation, op'[t] = o, Carried(o), Answered(o), Prepared(o), Role(t, o)
        PROVE  Sound(t)'
    BY <1>0, <2>3 DEF Sound, Carried, Answered, Prepared, Role, Old
  <2>4. Sound(s)'
    BY <1>0, <2>2, <2>3, NothingCarried
  <2>5. Sound(d)'
    <3>1. Sound(s) /\ op[s] \in Operation
      BY <1>0 DEF Held
    <3>2. Role(d, op[s])
      BY <2>1, <3>1 DEF Sound, Role
    <3>3. PICK o \in Operation : o = op[s]
      BY <3>1
    <3> QED
      BY <1>0, <2>2, <3>1, <3>2, <3>3 DEF Sound, Carried, Answered, Prepared, Role, Old
  <2>6. ASSUME NEW t \in Threads, t # s, t # d PROVE Sound(t)'
    BY <1>0, <2>2, <2>6 DEF Held, Sound, Carried, Answered, Prepared, Role, Old
  <2> QED
    BY <1>1, <2>4, <2>5, <2>6 DEF Held
<1>3. CASE op[s].pc \notin {"publish"} \cup Committing
  <2>1. Start(s, Idle)
    BY <1>3 DEF Cancel
  <2> QED
    BY <1>0, <2>1, NothingCarried, IdleIsWellFormed, ThreadHeld
<1> QED
  BY <1>2, <1>3

\* A restart comes up with what the file holds, which was issued.
LEMMA CrashHeld ==
    ASSUME Inv, TypeOK', Held, Crash
    PROVE  Held'
<1>1. /\ UNCHANGED <<disk, oauth>> /\ control' = load /\ op' = [t \in Threads |-> Idle]
      /\ session'.credential = Absent
  BY DEF Crash, Inv, TypeOK, Sessions
<1>2. control'.providers = AsDocument(disk.providers) /\ control'.provider_sha256 = disk.providers
  BY <1>1 DEF load
<1>3. Known'
  BY <1>1, <1>2 DEF Known, AsDocument
<1>4. Issued'
  BY <1>1, <1>2 DEF Held, Issued, SavedBefore, AsDocument, Old
<1>5. ASSUME NEW t \in Threads PROVE Sound(t)'
  <2>1. op'[t] = Idle
    BY <1>1
  <2>2. Carried(Idle)' /\ Answered(Idle) /\ Prepared(Idle)' /\ Role(t, Idle)
    BY DEF Idle, NoProviders, Carried, Answered, Prepared, Role, Old
  <2> QED
    BY <2>1, <2>2 DEF Sound, Carried, Answered, Prepared, Role, Old
<1> QED
  BY <1>3, <1>4, <1>5 DEF Held

\* The file a save of the Providers leaves, written or failed after its rename, differs from the
\* document in memory only in the Provider of the operation.
LEMMA Saved ==
    ASSUME Inv, TypeOK', Held, NEW t \in Threads, op[t].pc = "providers",
           disk.providers = control.provider_sha256, disk'.providers = op[t].next.providers,
           NEW id \in Providers
    PROVE  /\ SavedBefore(id) = control.providers[id] /\ SavedAfter(id) = op[t].next.providers[id]
           /\ op[t].next.providers \in Documents /\ op[t].next.providers # Missing
           /\ id # op[t].id => SavedAfter(id) = SavedBefore(id)
<1>1. op[t].next.providers \in Documents /\ op[t].next.providers # Missing
  BY SentinelAssumption DEF Inv, TypeOK, Operation
<1>2. SavedBefore(id) = control.providers[id] /\ SavedAfter(id) = op[t].next.providers[id]
  BY <1>1 DEF Held, Known, SavedBefore, SavedAfter, AsDocument
<1>3. id # op[t].id => SavedAfter(id) = SavedBefore(id)
  BY <1>2 DEF Held, Sound, Prepared
<1> QED
  BY <1>1, <1>2, <1>3

\* The steps of the critical section, where the document and its hash change together.
LEMMA CommitHeld ==
    ASSUME Inv, TypeOK', Held, NEW t \in Threads, Commit(t)
    PROVE  Held'
<1>0. /\ op[t] \in Operation /\ Carries(op[t]) /\ Sound(t) /\ TypeOK
      /\ op \in [Threads -> Operation] /\ oauth.issued \in Nat /\ Idle \in Operation
      /\ session.credential # Absent => session.credential.token <= oauth.issued
      /\ UNCHANGED oauth
  BY IdleIsWellFormed, ConstantsAssumption
     DEF Inv, TypeOK, WellFormed, Held, Issued, Commit, SaveCache, SaveProviders, SaveFails, commit_reload
<1>1. PICK failed : failed = Failed(t)
  OBVIOUS
<1>2. /\ failed \in Operation /\ Carried(failed) /\ Answered(failed) /\ Role(t, failed)
      /\ failed.pc \notin {"cache", "providers"}
  BY <1>1, FailedIsSound
<1>3. CASE SaveCache(t)
  <2>1. /\ op[t].pc = "cache" /\ UNCHANGED <<control, oauth, session>> /\ op[t].kind = "commit_refresh"
        /\ disk' = [disk EXCEPT !.cache = op[t].next.cache]
    BY <1>0, <1>3 DEF SaveCache, Sound, Role
  <2>2. disk'.providers = disk.providers
    BY <1>0, <2>1 DEF TypeOK
  <2>3. PICK o : o = [op[t] EXCEPT !.pc = "providers"]
    OBVIOUS
  <2>4. /\ o.pc = "providers" /\ o.kind = op[t].kind /\ o.provider = op[t].provider /\ o.id = op[t].id
        /\ o.source = op[t].source /\ o.batch = op[t].batch /\ o.next = op[t].next
    BY <1>0, <2>3 DEF Operation
  <2>5. Start(t, o)
    BY <1>3, <2>3 DEF SaveCache
  <2>6. Carried(o)' /\ Answered(o) /\ Prepared(o)' /\ Role(t, o)
    BY <1>0, <2>1, <2>4 DEF Sound, Carried, Answered, Prepared, Role, Old
  <2>7. Known' /\ Issued'
    BY <1>0, <2>1, <2>2 DEF Held, Known, Issued, SavedBefore, AsDocument, Old
  <2> QED
    BY <1>0, <2>1, <2>5, <2>6, <2>7, Goes DEF Held
<1>4. CASE SaveProviders(t)
  <2>1. /\ op[t].pc = "providers" /\ disk.providers = control.provider_sha256
        /\ disk' = [disk EXCEPT !.providers = op[t].next.providers]
        /\ control'.providers = op[t].next.providers /\ control'.provider_sha256 = op[t].next.providers
        /\ UNCHANGED <<oauth, session>>
    BY <1>4 DEF SaveProviders
  <2>2. disk'.providers = op[t].next.providers
    BY <1>0, <2>1 DEF TypeOK
  <2>3. PICK o : o = [op[t] EXCEPT !.pc = "swap"]
    OBVIOUS
  <2>4. /\ o.pc = "swap" /\ o.kind = op[t].kind /\ o.provider = op[t].provider
        /\ o.source = op[t].source /\ o.batch = op[t].batch /\ o.next = op[t].next
    BY <1>0, <2>3 DEF Operation
  <2>5. Start(t, o)
    BY <1>4, <2>3 DEF SaveProviders
  <2>6. Carried(o)' /\ Answered(o) /\ Prepared(o)' /\ Role(t, o)
    BY <1>0, <2>1, <2>4 DEF Sound, Carried, Answered, Prepared, Role, Old
  <2>7. Known'
    <3>1. op[t].next.providers # Missing
      BY <1>0, SentinelAssumption DEF Operation
    <3> QED
      BY <2>1, <3>1 DEF Known, AsDocument
  <2>8. Issued'
    <3>1. ASSUME NEW id \in Providers PROVE Old(control.providers[id])' /\ Old(SavedBefore(id))'
      <4>1. Old(op[t].next.providers[id])
        BY <1>0 DEF Sound, Carried
      <4>2. control'.providers[id] = op[t].next.providers[id] /\ SavedBefore(id)' = op[t].next.providers[id]
        BY <2>1, <2>2, Saved DEF SavedBefore, SavedAfter, AsDocument
      <4> QED
        BY <1>0, <4>1, <4>2 DEF Old
    <3> QED
      BY <1>0, <2>1, <3>1 DEF Issued
  <2> QED
    BY <1>0, <2>1, <2>5, <2>6, <2>7, <2>8, Goes DEF Held, Committing
<1>5. CASE SaveFails(t)
  <2>1. /\ op[t].pc \in {"cache", "providers"} /\ control' = AfterFailure(t) /\ Start(t, failed)
        /\ UNCHANGED <<oauth, session>>
        /\ \/ UNCHANGED disk
           \/ HashMatches(t) /\ disk' = LeftBy(t)
    BY <1>1, <1>5 DEF SaveFails
  <2>2. control'.providers = control.providers /\ control'.provider_sha256 = control.provider_sha256
    BY <1>0, <2>1 DEF AfterFailure, TypeOK
  <2>3. Known'
    BY <2>2 DEF Held, Known, AsDocument
  <2>4. Issued'
    <3>1. ASSUME NEW id \in Providers PROVE Old(control.providers[id])' /\ Old(SavedBefore(id))'
      <4>1. Old(op[t].next.providers[id]) /\ Old(SavedBefore(id)) /\ Old(control.providers[id])
        BY <1>0 DEF Sound, Carried, Held, Issued
      <4>2. SavedBefore(id)' \in {SavedBefore(id), op[t].next.providers[id]}
        <5>1. disk'.providers \in {disk.providers, op[t].next.providers}
          BY <1>0, <2>1 DEF LeftBy, TypeOK
        <5>2. op[t].next.providers # Missing
          BY <1>0, SentinelAssumption DEF Operation
        <5> QED
          BY <5>1, <5>2 DEF SavedBefore, AsDocument
      <4> QED
        BY <1>0, <2>2, <4>1, <4>2 DEF Old
    <3> QED
      BY <1>0, <2>1, <3>1 DEF Issued
  <2>5. Carried(failed)' /\ Prepared(failed)'
    BY <1>0, <1>2 DEF Carried, Old, Prepared
  <2> QED
    BY <1>0, <1>2, <2>1, <2>2, <2>3, <2>4, <2>5, Goes DEF Held
<1>6. CASE commit_reload(t)
  <2>1. op[t].pc = "swap" /\ UNCHANGED <<disk, control, oauth>> /\ op[t].id \in Providers
    BY <1>0, <1>6 DEF commit_reload, Carries
  <2>2. session'.credential \in {session.credential, Absent}
    BY <1>0, <1>6 DEF commit_reload, TypeOK, Sessions
  <2>3. PICK o : o = IF op[t].kind \in {"discover", "refresh"}
                     THEN Returned(t, op[t].provider) ELSE Idle
    OBVIOUS
  <2>4. Start(t, o)
    BY <1>6, <2>3 DEF commit_reload
  <2>5. o \in Operation /\ Carried(o) /\ Answered(o) /\ Role(t, o) /\ o.pc \notin {"cache", "providers"}
    <3>1. CASE op[t].kind \in {"discover", "refresh"}
      <4>1. op[t].provider \in Provider /\ Old(op[t].provider)
        BY <1>0, <2>1, <3>1 DEF Carries, Sound, Carried
      <4> QED
        BY <2>1, <2>3, <3>1, <4>1, ReturnedIsSound
    <3>2. CASE op[t].kind \notin {"discover", "refresh"}
      BY <1>0, <2>3, <3>2, NothingCarried, IdleIsWellFormed
    <3> QED
      BY <3>1, <3>2
  <2>6. session'.credential # Absent => session'.credential.token <= oauth'.issued
    BY <1>0, <2>2
  <2> QED
    BY <1>0, <2>1, <2>4, <2>5, <2>6, ThreadHeld
<1> QED
  BY <1>3, <1>4, <1>5, <1>6 DEF Commit

\* Held is true after the first load.
LEMMA HeldStarts == Init => Held
<1> SUFFICES ASSUME Init PROVE Held
  OBVIOUS
<1>1. op = [t \in Threads |-> Idle] /\ control = load /\ session.credential = Absent
  BY DEF Init
<1>2. ASSUME NEW t \in Threads PROVE Sound(t)
  BY <1>1, NothingCarried DEF Sound
<1>3. Known
  BY <1>1 DEF load, Known
<1>4. ASSUME NEW id \in Providers PROVE Old(AsDocument(disk.providers)[id])
  BY DEF Init, AsDocument, NoProviders, Old
<1>5. Issued
  BY <1>1, <1>4 DEF load, Issued, SavedBefore
<1> QED
  BY <1>2, <1>3, <1>5 DEF Held

\* Every step keeps both invariants.
LEMMA HeldKept == Inv /\ Held /\ [Next]_vars => Held'
<1> SUFFICES ASSUME Inv, Held, [Next]_vars PROVE Held'
  OBVIOUS
<1>0. TypeOK'
  BY NextInv DEF Inv
<1>1. CASE UNCHANGED vars
  BY <1>1 DEF vars, Held, Known, Issued, Sound, Carried, Answered, Prepared, Role, Old, SavedBefore, AsDocument
<1>2. CASE User
  BY <1>0, <1>2, WindowHeld, WorkerHeld, CancelHeld DEF User
<1>3. CASE Begin \/ Refuse \/ Listed
  BY <1>0, <1>3, WorkerHeld
<1>4. CASE refresh_saved_providers \/ NextInBatch
  BY <1>0, <1>4, LoopHeld
<1>5. ASSUME NEW t \in Threads, Commit(t) \/ Refresh(t) PROVE Held'
  BY <1>0, <1>5, CommitHeld, RefreshHeld
<1>6. CASE Expire \/ \E id \in Providers : ExternalEdit(id)
  BY <1>0, <1>6, WindowHeld, EditHeld
<1>7. CASE Crash
  BY <1>0, <1>7, CrashHeld
<1> QED
  BY <1>1, <1>2, <1>3, <1>4, <1>5, <1>6, <1>7 DEF Next

-------------------------------------------------------------------------------
\* The file of the Providers changes when an operation saves it, and by an external edit.
LEMMA SavedChanges ==
    ASSUME Inv, [Next]_vars
    PROVE  \/ disk'.providers = disk.providers
           \/ \E i \in Providers : ExternalEdit(i)
           \/ \E t \in Threads : /\ op[t].pc = "providers" /\ disk.providers = control.provider_sha256
                                 /\ disk'.providers = op[t].next.providers
<1>0. disk \in [providers : Documents \cup {Missing}, cache : Caches \cup {Missing}]
  BY DEF Inv, TypeOK
<1>1. CASE UNCHANGED vars
  BY <1>1 DEF vars
<1>2. CASE User
  BY <1>2 DEF User, Open, EditDraft, clear_draft, Login, Compile, Queue, Cancel
<1>3. CASE Begin \/ Refuse \/ Listed \/ refresh_saved_providers \/ NextInBatch \/ Expire \/ Crash
  BY <1>3 DEF Begin, Refuse, Listed, refresh_saved_providers, NextInBatch, Expire, Crash
<1>4. ASSUME NEW t \in Threads, Refresh(t) PROVE disk'.providers = disk.providers
  BY <1>4 DEF Refresh, Adopt, Refreshed, RefreshFails, Publish, PublishFails
<1>5. ASSUME NEW t \in Threads, Commit(t)
      PROVE  \/ disk'.providers = disk.providers
             \/ /\ op[t].pc = "providers" /\ disk.providers = control.provider_sha256
                /\ disk'.providers = op[t].next.providers
  <2>1. CASE SaveCache(t) \/ commit_reload(t)
    BY <1>0, <2>1 DEF SaveCache, commit_reload
  <2>2. CASE SaveProviders(t)
    BY <1>0, <2>2 DEF SaveProviders
  <2>3. CASE SaveFails(t)
    BY <1>0, <2>3 DEF SaveFails, LeftBy, HashMatches
  <2> QED
    BY <1>5, <2>1, <2>2, <2>3 DEF Commit
<1> QED
  BY <1>1, <1>2, <1>3, <1>4, <1>5 DEF Next

\* What a save by the loop, or by a task whose window was cancelled, does to its Provider.
LEMMA RefreshSaves ==
    ASSUME Held, NEW t \in Threads, op[t].pc = "providers", t # "settings"
    PROVE  /\ control.providers[op[t].id] # Absent
           /\ control.providers[op[t].id].auth = op[t].source
           /\ op[t].next.providers[op[t].id] = op[t].provider
           /\ op[t].provider.enabled => op[t].provider.auth.account = op[t].source.account
<1>1. op[t].kind \in {"discover", "refresh"}
  BY DEF Held, Sound, Role, Threads
<1> QED
  BY <1>1 DEF Held, Sound, Prepared, Answered

\* A step that brings a Provider into the saved document is the settings worker's write of it.
LEMMA StepKeepsRemoved ==
    ASSUME Inv, Held, [Next]_vars, NEW id \in Providers, SavedBefore(id) = Absent, SavedAfter(id) # Absent
    PROVE  op["settings"].pc = "providers" /\ op["settings"].id = id
<1>0. TypeOK /\ TypeOK'
  BY NextInv DEF Inv
<1>1. disk'.providers # disk.providers
  BY DEF SavedBefore, SavedAfter
<1>2. \A i \in Providers : ~ ExternalEdit(i)
  BY <1>0, EditedFile
<1>3. PICK t \in Threads : /\ op[t].pc = "providers" /\ disk.providers = control.provider_sha256
                           /\ disk'.providers = op[t].next.providers
  BY <1>1, <1>2, SavedChanges
<1>4. id = op[t].id /\ SavedBefore(id) = control.providers[id]
  BY <1>0, <1>3, Saved
<1> QED
  BY <1>3, <1>4, RefreshSaves

\* A step that changes the account of an enabled saved Provider is the settings worker's write.
LEMMA StepKeepsLogin ==
    ASSUME Inv, Held, [Next]_vars, NEW id \in Providers,
           SavedBefore(id) # Absent, SavedAfter(id) # Absent,
           SavedBefore(id).auth.account # SavedAfter(id).auth.account, SavedAfter(id).enabled
    PROVE  op["settings"].pc = "providers" /\ op["settings"].id = id
<1>0. TypeOK /\ TypeOK'
  BY NextInv DEF Inv
<1>1. disk'.providers # disk.providers
  BY DEF SavedBefore, SavedAfter
<1>2. \A i \in Providers : ~ ExternalEdit(i)
  BY <1>0, EditedFile
<1>3. PICK t \in Threads : /\ op[t].pc = "providers" /\ disk.providers = control.provider_sha256
                           /\ disk'.providers = op[t].next.providers
  BY <1>1, <1>2, SavedChanges
<1>4. /\ id = op[t].id /\ SavedBefore(id) = control.providers[id]
      /\ SavedAfter(id) = op[t].next.providers[id]
  BY <1>0, <1>3, Saved
<1>5. CASE t = "settings"
  BY <1>3, <1>4, <1>5
<1>6. CASE t # "settings"
  <2>1. /\ control.providers[id].auth = op[t].source /\ op[t].next.providers[id] = op[t].provider
        /\ op[t].provider.enabled => op[t].provider.auth.account = op[t].source.account
    BY <1>3, <1>4, <1>6, RefreshSaves
  <2>2. SavedBefore(id).auth.account = SavedAfter(id).auth.account
    BY <1>4, <2>1
  <2> QED
    BY <2>2
<1> QED
  BY <1>5, <1>6

-------------------------------------------------------------------------------
\* The freshest credential: a step of a thread keeps Latest if what it goes on with does.
LEMMA LatestGoes ==
    ASSUME Inv, Latest, NEW t \in Threads, NEW o, Start(t, o), UNCHANGED overtaken,
           op[t].pc \in Committing \/ control'.providers = control.providers,
           t # "settings" /\ SavePending /\ ~ overtaken =>
               control'.providers[op["settings"].id] = control.providers[op["settings"].id],
           o.pc \in {"cache", "providers"}
               /\ ~ (t = "settings" /\ o.kind \in {"save", "commit_refresh"} /\ overtaken)
               => NotOlder(control'.providers[o.id], o.next.providers[o.id]),
           t = "settings" /\ o.pc = "begin" /\ o.kind \in {"save", "commit_refresh"} /\ ~ overtaken =>
               NotOlder(control'.providers[o.id], o.provider)
    PROVE  Latest'
<1>1. /\ "settings" \in Threads /\ op'[t] = o
      /\ \A s \in Threads : s # t => op'[s] = op[s]
  BY DEF Inv, TypeOK, Start, Threads
<1>2. ASSUME NEW s \in Threads, op'[s].pc \in {"cache", "providers"},
             ~ (s = "settings" /\ Saving' /\ overtaken)
      PROVE  NotOlder(control.providers[op[s].id], op[s].next.providers[op[s].id])'
  <2>1. CASE s = t
    BY <1>1, <1>2, <2>1 DEF NotOlder, Saving
  <2>2. CASE s # t
    <3>1. op[t].pc \notin Committing
      BY <1>1, <1>2, <2>2 DEF Inv, Exclusive, Committing
    <3>2. op'[s] = op[s] /\ ~ (s = "settings" /\ Saving /\ overtaken)
      BY <1>1, <1>2, <2>2 DEF Saving
    <3> QED
      BY <1>2, <3>1, <3>2 DEF Latest, NotOlder
  <2> QED
    BY <2>1, <2>2
<1>3. ASSUME SavePending', ~ overtaken
      PROVE  NotOlder(control.providers[op["settings"].id], op["settings"].provider)'
  <2>1. CASE t = "settings"
    BY <1>1, <1>3, <2>1 DEF SavePending, NotOlder
  <2>2. CASE t # "settings"
    <3>1. op'["settings"] = op["settings"] /\ SavePending
      BY <1>1, <1>3, <2>2 DEF SavePending
    <3> QED
      BY <1>3, <3>1, <2>2 DEF Latest, NotOlder
  <2> QED
    BY <2>1, <2>2
<1> QED
  BY <1>2, <1>3 DEF Latest

\* A step that moves no thread.
LEMMA LatestStill ==
    ASSUME Latest, UNCHANGED <<op, control, overtaken>>
    PROVE  Latest'
BY DEF Latest, SavePending, Saving, NotOlder

\* A mutation that is prepared does not bring an older credential.
LEMMA BeginIsLatest ==
    ASSUME Inv, Held, Latest, Begin
    PROVE  Latest'
<1> DEFINE s == "settings"
<1>0. /\ s \in Threads /\ op[s] \in Operation /\ Carries(op[s]) /\ Sound(s) /\ TypeOK
  BY DEF Inv, TypeOK, WellFormed, Threads, Held
<1>1. /\ op[s].pc = "begin" /\ op[s].kind \in {"save", "commit_refresh", "enable", "disable", "remove"}
      /\ op[s].id \in Providers /\ ~ ProviderNotFound(op[s])
      /\ control.providers \in Documents /\ UNCHANGED control
  BY <1>0 DEF Begin, Operation, Kinds, Sound, Role, Carries, TypeOK
<1>2. PICK models \in Models :
         Start(s, [op[s] EXCEPT !.next = prepare_mutation(op[s], models),
                                !.pc = IF op[s].kind = "commit_refresh" THEN "cache" ELSE "providers"])
  BY DEF Begin
<1>3. PICK o : o = [op[s] EXCEPT !.next = prepare_mutation(op[s], models),
                                !.pc = IF op[s].kind = "commit_refresh" THEN "cache" ELSE "providers"]
  OBVIOUS
<1>4. /\ o.next = prepare_mutation(op[s], models) /\ o.id = op[s].id /\ o.kind = op[s].kind
      /\ o.pc \in {"cache", "providers"}
  BY <1>0, <1>3 DEF Operation
<1>5. ASSUME ~ (o.kind \in {"save", "commit_refresh"} /\ overtaken)
      PROVE  NotOlder(control.providers[o.id], o.next.providers[o.id])
  <2>1. control.providers[o.id] \in Provider \cup {Absent}
    BY <1>1, <1>4 DEF Documents
  <2>2. CASE op[s].kind \in {"save", "commit_refresh"}
    <3>1. NotOlder(control.providers[o.id], op[s].provider) /\ op[s].provider \in Provider
      BY <1>0, <1>1, <1>4, <1>5, <2>2 DEF Latest, SavePending, Carries
    <3>2. o.next.providers[o.id] \in {op[s].provider, [op[s].provider EXCEPT !.models = models]}
      BY <1>1, <1>4, <2>2 DEF prepare_mutation, CommitRefresh, SaveProvider, Documents
    <3>3. o.next.providers[o.id].auth = op[s].provider.auth
      BY <3>1, <3>2 DEF Provider
    <3> QED
      BY <3>1, <3>3, SentinelAssumption DEF NotOlder
  <2>3. CASE op[s].kind \in {"enable", "disable"}
    <3>1. control.providers[o.id] \in Provider
      BY <1>1, <1>4, <2>1, <2>3 DEF ProviderNotFound
    <3>2. o.next.providers[o.id] = [control.providers[o.id] EXCEPT !.enabled = (op[s].kind = "enable")]
      BY <1>1, <1>4, <2>3 DEF prepare_mutation, SetProviderEnabled, Documents
    <3>3. o.next.providers[o.id].auth = control.providers[o.id].auth /\ control.providers[o.id].auth \in Auth
      BY <3>1, <3>2 DEF Provider
    <3>4. control.providers[o.id].auth.token \in Nat
      BY <3>3, ConstantsAssumption DEF Auth
    <3> QED
      BY <3>3, <3>4 DEF NotOlder
  <2>4. CASE op[s].kind = "remove"
    BY <1>1, <1>4, <2>4 DEF prepare_mutation, RemoveProvider, Documents, NotOlder
  <2> QED
    BY <1>1, <2>2, <2>3, <2>4
<1>6. UNCHANGED overtaken
  BY DEF Begin
<1> QED
  BY <1>0, <1>1, <1>2, <1>3, <1>4, <1>5, <1>6, LatestGoes

\* The settings worker compiles from the freshest credential.
LEMMA WorkerLatest ==
    ASSUME Inv, Held, Latest,
           \/ \E kind \in {"save", "commit_refresh", "discover"} : Compile(kind)
           \/ \E kind \in {"enable", "disable", "remove"} : Queue(kind)
           \/ Refuse \/ Listed
    PROVE  Latest'
<1> DEFINE s == "settings"
<1>0. s \in Threads /\ Idle.pc = "idle"
  BY IdleIsWellFormed DEF Threads
<1>1. ASSUME NEW kind \in {"save", "commit_refresh", "discover"}, Compile(kind) PROVE Latest'
  <2>1. PICK id \in Providers, enabled \in BOOLEAN :
           /\ Compiled(id, enabled).auth # Absent
           /\ Start(s, [Idle EXCEPT !.kind = kind, !.id = id, !.provider = Compiled(id, enabled),
                  !.pc = IF kind # "discover" THEN "begin"
                         ELSE IF needs_refresh(Compiled(id, enabled).auth) THEN "adopt" ELSE "list"])
    BY <1>1, Zenon DEF Compile, Inv, TypeOK, Sessions, s
  <2>2. PICK o : o = [Idle EXCEPT !.kind = kind, !.id = id, !.provider = Compiled(id, enabled),
                  !.pc = IF kind # "discover" THEN "begin"
                         ELSE IF needs_refresh(Compiled(id, enabled).auth) THEN "adopt" ELSE "list"]
    OBVIOUS
  <2>3. /\ Start(s, o) /\ o.pc \in {"begin", "adopt", "list"}
        /\ o.id = id /\ o.provider = Compiled(id, enabled)
    BY <2>1, <2>2 DEF Idle
  <2>4. NotOlder(control.providers[id], Compiled(id, enabled))
    BY <2>1, CompiledIsOld
  <2>5. UNCHANGED control /\ ~ overtaken' /\ lock = Nobody /\ op[s].pc = "idle"
    BY <1>1 DEF Compile, SettingsFree
  <2>6. \A t \in Threads : op[t].pc \notin Committing
    BY <2>5, NobodyAssumption DEF Inv, Exclusive
  <2>7. op'[s] = o /\ \A t \in Threads : t # s => op'[t] = op[t]
    BY <1>0, <2>3 DEF Inv, TypeOK, Start
  <2>8. \A t \in Threads : op'[t].pc \notin {"cache", "providers"}
    BY <2>3, <2>6, <2>7 DEF Committing
  <2>9. NotOlder(control.providers[op[s].id], op[s].provider)'
    BY <2>3, <2>4, <2>5, <2>7 DEF NotOlder
  <2> QED
    BY <2>8, <2>9 DEF Latest
<1>2. ASSUME NEW kind \in {"enable", "disable", "remove"}, Queue(kind) PROVE Latest'
  <2>1. PICK o : o = [Idle EXCEPT !.pc = "begin", !.kind = kind, !.id = session.id]
    OBVIOUS
  <2>2. Start(s, o) /\ UNCHANGED <<control, overtaken>>
    BY <1>2, <2>1 DEF Queue
  <2>3. o.pc = "begin" /\ o.kind = kind
    BY <2>1 DEF Idle
  <2> QED
    BY <1>0, <2>2, <2>3, LatestGoes
<1>3. CASE Refuse \/ Listed
  <2>1. Start(s, Idle) /\ UNCHANGED <<control, overtaken>>
    BY <1>3 DEF Refuse, Listed
  <2> QED
    BY <1>0, <2>1, LatestGoes
<1> QED
  BY <1>1, <1>2, <1>3

\* Where a thread goes on after an error, and after refresh_provider_if_needed returned.
LEMMA Resumes ==
    ASSUME Inv, Held, NEW t \in Threads
    PROVE  /\ Failed(t).pc \in {"idle", "next"}
           /\ \A provider : Returned(t, provider).pc \in {"idle", "next", "list"}
<1>1. Failed(t).pc \in {"idle", "next"}
  BY FailedIsSound
<1>2. ASSUME NEW provider PROVE Returned(t, provider).pc \in {"idle", "next", "list"}
  BY <1>1 DEF Returned, Idle
<1> QED
  BY <1>1, <1>2

\* A step of a refresh starts no mutation of the settings worker, and without the store it
\* writes nothing.
LEMMA RefreshGoes ==
    ASSUME Inv, Held, NEW t \in Threads, Refresh(t)
    PROVE  \E o : /\ Start(t, o) /\ o.pc # "begin"
                  /\ ~ (Unchanged(t) /\ Publish(t)) =>
                         o.pc \in {"request", "publish", "list", "idle", "next"}
<1>0. op[t] \in Operation
  BY DEF Inv, TypeOK
<1>1. Failed(t).pc \in {"idle", "next"}
  BY Resumes
<1>2. ASSUME NEW provider PROVE Returned(t, provider).pc \in {"idle", "next", "list"}
  BY Resumes
<1>3. CASE Unchanged(t) /\ Publish(t)
  <2>1. PICK o : o = [op[t] EXCEPT !.pc = "providers", !.next = SaveProvider(op[t])]
    OBVIOUS
  <2>2. o.pc = "providers"
    BY <1>0, <2>1 DEF Operation
  <2>3. Start(t, o)
    BY <1>3, <2>1 DEF Publish
  <2> QED
    BY <1>3, <2>2, <2>3
<1>4. CASE ~ (Unchanged(t) /\ Publish(t))
  <2>1. \E o : Start(t, o) /\ o.pc \in {"request", "publish", "list", "idle", "next"}
    <3>1. CASE Adopt(t)
      <4>1. PICK o : o = [op[t] EXCEPT !.pc = "request", !.provider = Adopted(t),
                              !.source = Adopted(t).auth,
                              !.saved = control.providers[op[t].id] # Absent]
        OBVIOUS
      <4>2. o.pc = "request"
        BY <1>0, <4>1 DEF Operation
      <4>3. PICK q : q = Returned(t, Adopted(t))
        OBVIOUS
      <4>4. Start(t, o) \/ Start(t, q)
        BY <3>1, <4>1, <4>3 DEF Adopt
      <4> QED
        BY <1>2, <4>2, <4>3, <4>4
    <3>2. CASE Refreshed(t)
      <4>1. PICK provider : \/ Start(t, [op[t] EXCEPT !.pc = "publish", !.provider = provider])
                            \/ Start(t, Returned(t, provider))
        BY <3>2, Zenon DEF Refreshed
      <4>2. PICK o : o = [op[t] EXCEPT !.pc = "publish", !.provider = provider]
        OBVIOUS
      <4>3. o.pc = "publish"
        BY <1>0, <4>2 DEF Operation
      <4> QED
        BY <1>2, <4>1, <4>2, <4>3
    <3>3. CASE RefreshFails(t) \/ PublishFails(t)
      BY <1>1, <3>3 DEF RefreshFails, PublishFails
    <3>4. CASE Publish(t)
      BY <1>2, <1>4, <3>4 DEF Publish
    <3> QED
      BY <3>1, <3>2, <3>3, <3>4 DEF Refresh
  <2> QED
    BY <1>4, <2>1
<1> QED
  BY <1>3, <1>4

\* A refresh stores no older credential.
LEMMA RefreshLatest ==
    ASSUME Inv, Held, Latest, NEW t \in Threads, Refresh(t)
    PROVE  Latest'
<1>0. /\ op[t] \in Operation /\ Carries(op[t]) /\ Sound(t) /\ TypeOK
      /\ op \in [Threads -> Operation]
  BY DEF Inv, TypeOK, WellFormed, Held
<1>3. CASE Unchanged(t) /\ Publish(t)
  <2>1. /\ op[t].pc = "publish" /\ op[t].id \in Providers /\ op[t].provider \in Provider
        /\ op[t].source \in Auth /\ op[t].kind \in {"discover", "refresh"}
        /\ control.providers \in Documents /\ UNCHANGED <<control, overtaken>>
    BY <1>0, <1>3 DEF Publish, Carries, TypeOK
  <2>2. PICK o : o = [op[t] EXCEPT !.pc = "providers", !.next = SaveProvider(op[t])]
    OBVIOUS
  <2>3. o.pc = "providers" /\ o.id = op[t].id /\ o.next = SaveProvider(op[t])
    BY <1>0, <2>2 DEF Operation
  <2>4. Start(t, o)
    BY <1>3, <2>2 DEF Publish
  <2>5. o.next.providers[o.id] = op[t].provider
    BY <2>1, <2>3 DEF SaveProvider, Documents
  <2>6. NotOlder(control.providers[o.id], o.next.providers[o.id])
    <3>1. op[t].source.token < op[t].provider.auth.token /\ control.providers[o.id].auth = op[t].source
      BY <1>0, <1>3, <2>1, <2>3 DEF Sound, Answered, Unchanged
    <3>2. op[t].source.token \in Nat /\ op[t].provider.auth.token \in Nat
      BY <2>1, ConstantsAssumption DEF Auth, Provider
    <3> QED
      BY <2>5, <3>1, <3>2 DEF NotOlder
  <2> QED
    BY <2>1, <2>3, <2>4, <2>6, LatestGoes
<1>4. CASE ~ (Unchanged(t) /\ Publish(t))
  <2>1. PICK o : Start(t, o) /\ o.pc \in {"request", "publish", "list", "idle", "next"}
    BY <1>4, RefreshGoes
  <2>2. UNCHANGED <<control, overtaken>>
    BY <1>4 DEF Refresh, Adopt, Refreshed, RefreshFails, Publish, PublishFails
  <2> QED
    BY <2>1, <2>2, LatestGoes
<1> QED
  BY <1>3, <1>4

\* The critical section lets nothing else prepare a mutation.
LEMMA CommitLatest ==
    ASSUME Inv, Held, Latest, NEW t \in Threads, Commit(t)
    PROVE  Latest'
<1>0. op[t] \in Operation /\ op[t].pc \in Committing /\ TypeOK
  BY DEF Inv, TypeOK, Commit, SaveCache, SaveProviders, SaveFails, commit_reload, Committing
<1>1. CASE SaveCache(t)
  <2>1. PICK o : o = [op[t] EXCEPT !.pc = "providers"]
    OBVIOUS
  <2>2. o.pc = "providers" /\ o.id = op[t].id /\ o.next = op[t].next /\ o.kind = op[t].kind
    BY <1>0, <2>1 DEF Operation
  <2>3. Start(t, o) /\ UNCHANGED <<control, overtaken>> /\ op[t].pc = "cache"
    BY <1>1, <2>1 DEF SaveCache
  <2>4. ~ (t = "settings" /\ o.kind \in {"save", "commit_refresh"} /\ overtaken) =>
          NotOlder(control'.providers[o.id], o.next.providers[o.id])
    BY <2>2, <2>3 DEF Latest, Saving
  <2> QED
    BY <1>0, <2>2, <2>3, <2>4, LatestGoes
\* The one step that can overtake a draft.
<1>2. CASE SaveProviders(t)
  <2>1. PICK o : o = [op[t] EXCEPT !.pc = "swap"]
    OBVIOUS
  <2>2. o.pc = "swap" /\ Start(t, o)
    BY <1>0, <1>2, <2>1 DEF Operation, SaveProviders
  <2>3. /\ "settings" \in Threads /\ op'[t] = o
        /\ \A s \in Threads : s # t => op'[s] = op[s]
    BY <1>0, <2>2 DEF TypeOK, Start, Threads
  <2>4. \A s \in Threads : op'[s].pc \notin {"cache", "providers"}
    BY <1>0, <2>2, <2>3 DEF Inv, Exclusive, Committing
  <2>5. ASSUME SavePending', ~ overtaken'
        PROVE  NotOlder(control.providers[op["settings"].id], op["settings"].provider)'
    <3>1. t # "settings" /\ op'["settings"] = op["settings"] /\ SavePending
      BY <2>2, <2>3, <2>5 DEF SavePending
    <3>2. ~ overtaken /\ op["settings"].id # op[t].id /\ op["settings"].id \in Providers
      <4>1. ~ overtaken /\ op["settings"].id # op[t].id
        BY <1>2, <2>5, <3>1 DEF SaveProviders
      <4>2. op["settings"].id \in Providers
        BY <2>3, <3>1 DEF Inv, WellFormed, Carries, SavePending
      <4> QED
        BY <4>1, <4>2
    <3>3. control'.providers = op[t].next.providers /\ op[t].pc = "providers"
      BY <1>2 DEF SaveProviders
    <3>4. op[t].next.providers[op["settings"].id] = control.providers[op["settings"].id]
      BY <3>2, <3>3 DEF Held, Sound, Prepared
    <3> QED
      BY <3>1, <3>2, <3>3, <3>4 DEF Latest, NotOlder
  <2> QED
    BY <2>4, <2>5 DEF Latest
<1>3. CASE SaveFails(t) \/ commit_reload(t)
  <2>1. PICK o : Start(t, o) /\ o.pc \in {"idle", "next", "list"}
    <3>1. CASE SaveFails(t)
      BY <3>1, Resumes DEF SaveFails
    <3>2. CASE commit_reload(t)
      BY <3>2, Resumes, IdleIsWellFormed DEF commit_reload
    <3> QED
      BY <1>3, <3>1, <3>2
  <2>2. control'.providers = control.providers /\ UNCHANGED overtaken
    <3>1. CASE SaveFails(t)
      <4>1. control' = AfterFailure(t) /\ UNCHANGED overtaken
        BY <3>1 DEF SaveFails
      <4>2. AfterFailure(t).providers = control.providers
        BY <1>0 DEF AfterFailure, TypeOK
      <4> QED
        BY <4>1, <4>2
    <3>2. CASE commit_reload(t)
      BY <3>2 DEF commit_reload
    <3> QED
      BY <1>3, <3>1, <3>2
  <2> QED
    BY <1>0, <2>1, <2>2, LatestGoes
<1> QED
  BY <1>1, <1>2, <1>3 DEF Commit

\* Every step keeps Latest.
LEMMA LatestKept ==
    ASSUME Inv, Held, Latest, [Next]_vars
    PROVE  Latest'
<1>0. Idle.pc = "idle" /\ op \in [Threads -> Operation] /\ Threads = {"settings", "refresher", "detached"}
  BY IdleIsWellFormed DEF Inv, TypeOK, Threads
<1>1. CASE \/ UNCHANGED vars \/ Expire \/ clear_draft
           \/ \E id \in Providers : Open(id) \/ ExternalEdit(id)
           \/ \E config \in Configs, models \in Models, forget \in BOOLEAN :
                 EditDraft(config, models, forget)
           \/ \E account \in Accounts : Login(account)
  BY <1>1, LatestStill DEF vars, Expire, clear_draft, Open, ExternalEdit, EditDraft, Login
<1>2. CASE refresh_saved_providers \/ NextInBatch
  <2>1. PICK o : Start("refresher", o) /\ o.pc \in {"next", "idle", "adopt"}
    <3>1. CASE refresh_saved_providers
      <4>1. PICK batch : Start("refresher", [Idle EXCEPT !.pc = "next", !.kind = "refresh", !.batch = batch])
        BY <3>1 DEF refresh_saved_providers
      <4>2. [Idle EXCEPT !.pc = "next", !.kind = "refresh", !.batch = batch].pc = "next"
        BY DEF Idle
      <4> QED
        BY <4>1, <4>2
    <3>2. CASE NextInBatch
      <4>1. op["refresher"] \in Operation
        BY <1>0
      <4>2. ASSUME NEW id \in Providers,
                   Start("refresher", [op["refresher"] EXCEPT !.pc = "adopt", !.id = id,
                            !.provider = op["refresher"].batch[id], !.batch[id] = Absent])
            PROVE  \E o : Start("refresher", o) /\ o.pc \in {"next", "idle", "adopt"}
        <5>1. PICK o : o = [op["refresher"] EXCEPT !.pc = "adopt", !.id = id,
                            !.provider = op["refresher"].batch[id], !.batch[id] = Absent]
          OBVIOUS
        <5>2. o.pc = "adopt"
          BY <4>1, <5>1 DEF Operation
        <5> QED
          BY <4>2, <5>1, <5>2
      <4> QED
        BY <1>0, <3>2, <4>2 DEF NextInBatch
    <3> QED
      BY <1>2, <3>1, <3>2
  <2>2. UNCHANGED <<control, overtaken>> /\ "refresher" \in Threads
    BY <1>2 DEF refresh_saved_providers, NextInBatch, Threads
  <2> QED
    BY <2>1, <2>2, LatestGoes
<1>3. CASE Cancel
  <2>1. UNCHANGED <<control, overtaken>> /\ op["settings"].kind = "discover"
    BY <1>3 DEF Cancel
  <2>2. /\ op'["settings"] = Idle
        /\ op'["detached"] \in {op["settings"], op["detached"]}
        /\ op'["refresher"] = op["refresher"]
    BY <1>0, <1>3 DEF Cancel, Start
  <2>3. Idle.pc = "idle" /\ ~ SavePending /\ Threads = {"settings", "refresher", "detached"}
    BY <2>1 DEF Idle, SavePending, Threads
  <2>4. ~ SavePending'
    BY <2>2, <2>3 DEF SavePending
  <2>5. ASSUME NEW t \in Threads, op'[t].pc \in {"cache", "providers"}
        PROVE  \E s \in Threads : op'[t] = op[s] /\ ~ (s = "settings" /\ Saving)
    BY <2>1, <2>2, <2>3, <2>5 DEF Saving
  <2>6. ASSUME NEW t \in Threads, op'[t].pc \in {"cache", "providers"}
        PROVE  NotOlder(control.providers[op[t].id], op[t].next.providers[op[t].id])'
    <3>1. PICK s \in Threads : op'[t] = op[s] /\ ~ (s = "settings" /\ Saving)
      BY <2>5, <2>6
    <3> QED
      BY <2>1, <2>6, <3>1 DEF Latest, NotOlder
  <2> QED
    BY <2>4, <2>6 DEF Latest
<1>4. CASE Crash
  <2>1. \A t \in Threads : op'[t] = Idle
    BY <1>4 DEF Crash
  <2> QED
    BY <1>0, <2>1 DEF Latest, SavePending
<1> QED
  BY <1>1, <1>2, <1>3, <1>4, BeginIsLatest, WorkerLatest, RefreshLatest, CommitLatest DEF Next, User

\* A saved credential is replaced by an older one of its account only when an overtaken draft
\* is saved.
LEMMA StepKeepsNewest ==
    ASSUME Inv, Held, Latest, [Next]_vars, NEW id \in Providers, RollsBack(id)
    PROVE  overtaken /\ op["settings"].pc = "providers" /\ op["settings"].id = id /\ Saving
<1>0. TypeOK /\ TypeOK'
  BY NextInv DEF Inv
<1>1. SavedBefore(id).auth.token \in Nat
  <2>1. AsDocument(disk.providers) \in Documents
    BY <1>0, IdleIsWellFormed DEF TypeOK, AsDocument
  <2>2. SavedBefore(id) \in Provider
    BY <2>1 DEF SavedBefore, Documents, RollsBack
  <2> QED
    BY <2>2, ConstantsAssumption DEF Provider, Auth
<1>2. SavedAfter(id).auth.token \in Nat
  <2>1. AsDocument(disk'.providers) \in Documents
    BY <1>0, IdleIsWellFormed DEF TypeOK, AsDocument
  <2>2. SavedAfter(id) \in Provider
    BY <2>1 DEF SavedAfter, Documents, RollsBack
  <2> QED
    BY <2>2, ConstantsAssumption DEF Provider, Auth
<1>3. SavedBefore(id).auth # SavedAfter(id).auth
  BY <1>1, <1>2 DEF RollsBack
<1>4. disk'.providers # disk.providers
  BY <1>3 DEF SavedBefore, SavedAfter
<1>5. ASSUME NEW i \in Providers, ExternalEdit(i) PROVE FALSE
  <2>1. SavedAfter(id).auth = SavedBefore(id).auth
    BY <1>0, <1>5, EditedFile DEF RollsBack
  <2> QED
    BY <1>3, <2>1
<1>6. PICK t \in Threads : /\ op[t].pc = "providers" /\ disk.providers = control.provider_sha256
                           /\ disk'.providers = op[t].next.providers
  BY <1>4, <1>5, SavedChanges
<1>7. /\ SavedBefore(id) = control.providers[id] /\ SavedAfter(id) = op[t].next.providers[id]
      /\ id # op[t].id => SavedAfter(id) = SavedBefore(id)
  BY <1>0, <1>6, Saved
<1>8. id = op[t].id
  BY <1>3, <1>7
<1>9. ~ NotOlder(control.providers[op[t].id], op[t].next.providers[op[t].id])
  BY <1>1, <1>2, <1>7, <1>8 DEF NotOlder, RollsBack
<1> QED
  BY <1>6, <1>8, <1>9 DEF Latest

\* No draft is overtaken while no refreshed token is stored between compilation and save.
LEMMA AheadKept ==
    ASSUME Inv, Held, Ahead, ~ SavesRaceRefreshes, [Next]_vars
    PROVE  Ahead'
<1>0. /\ op \in [Threads -> Operation] /\ "settings" \in Threads /\ Idle.pc = "idle"
      /\ \A t \in Threads : op[t].pc \in Committing => ~ SavePending
  BY IdleIsWellFormed, NobodyAssumption DEF Inv, TypeOK, Threads, Ahead, Exclusive
<1>1. ~ overtaken'
  <2>1. ASSUME NEW t \in Threads, SaveProviders(t) PROVE ~ overtaken'
    BY <1>0, <2>1 DEF SaveProviders, Committing, Ahead
  <2>2. UNCHANGED overtaken \/ ~ overtaken' \/ \E t \in Threads : SaveProviders(t)
    BY DEF vars, Next, User, Open, EditDraft, clear_draft, Login, Compile, Queue, Cancel, Begin,
       Refuse, Listed, refresh_saved_providers, NextInBatch, Commit, SaveCache, SaveFails,
       commit_reload, Refresh, Adopt, Refreshed, RefreshFails, Publish, PublishFails, Expire,
       ExternalEdit, Crash
  <2> QED
    BY <2>1, <2>2 DEF Ahead
<1>2. ASSUME SavePending' PROVE lock' = Nobody
  <2>1. CASE \/ UNCHANGED vars \/ Expire \/ clear_draft
             \/ \E id \in Providers : Open(id) \/ ExternalEdit(id)
             \/ \E config \in Configs, models \in Models, forget \in BOOLEAN :
                   EditDraft(config, models, forget)
             \/ \E account \in Accounts : Login(account)
    BY <1>2, <2>1 DEF vars, Expire, clear_draft, Open, ExternalEdit, EditDraft, Login, SavePending,
       Ahead
  <2>2. CASE \E kind \in {"save", "commit_refresh", "discover"} : Compile(kind)
    BY <2>2 DEF Compile
  <2>3. CASE \E kind \in {"enable", "disable", "remove"} : Queue(kind)
    <3>1. PICK kind \in {"enable", "disable", "remove"} :
             Start("settings", [Idle EXCEPT !.pc = "begin", !.kind = kind, !.id = session.id])
      BY <2>3 DEF Queue
    <3>2. op'["settings"].kind = kind
      BY <1>0, <3>1 DEF Start, Idle
    <3> QED
      BY <1>2, <3>1, <3>2 DEF SavePending
  <2>4. CASE Refuse \/ Listed \/ Cancel \/ Crash \/ Begin
    <3>1. op'["settings"].pc # "begin"
      <4>1. CASE Begin
        <5>1. PICK models \in Models :
                Start("settings", [op["settings"] EXCEPT !.next = prepare_mutation(op["settings"], models),
                   !.pc = IF op["settings"].kind = "commit_refresh" THEN "cache" ELSE "providers"])
          BY <4>1 DEF Begin
        <5> QED
          BY <1>0, <5>1 DEF Start, Operation
      <4>2. CASE Refuse \/ Listed \/ Cancel \/ Crash
        BY <1>0, <4>2 DEF Refuse, Listed, Cancel, Crash, Start
      <4> QED
        BY <2>4, <4>1, <4>2
    <3> QED
      BY <1>2, <3>1 DEF SavePending
  <2>5. CASE refresh_saved_providers \/ NextInBatch
    <3>1. op'["settings"] = op["settings"] /\ UNCHANGED lock
      BY <1>0, <2>5 DEF refresh_saved_providers, NextInBatch, Start
    <3> QED
      BY <1>2, <3>1 DEF SavePending, Ahead
  <2>6. ASSUME NEW t \in Threads, Commit(t) PROVE lock' = Nobody
    <3>1. op[t].pc \in Committing
      BY <2>6 DEF Commit, SaveCache, SaveProviders, SaveFails, commit_reload, Committing
    <3>2. \/ op'["settings"] = op["settings"]
          \/ t = "settings" /\ op'["settings"].pc # "begin"
      <4>1. CASE SaveCache(t) \/ SaveProviders(t)
        BY <1>0, <4>1 DEF SaveCache, SaveProviders, Start, Operation
      <4>2. CASE SaveFails(t) \/ commit_reload(t)
        BY <1>0, <4>2, Resumes DEF SaveFails, commit_reload, Start
      <4> QED
        BY <2>6, <4>1, <4>2 DEF Commit
    <3> QED
      BY <1>0, <1>2, <3>1, <3>2 DEF SavePending
  <2>7. ASSUME NEW t \in Threads, Refresh(t) PROVE lock' = Nobody
    <3>1. op[t].pc \in {"adopt", "request", "publish"}
      BY <2>7 DEF Refresh, Adopt, Refreshed, RefreshFails, Publish, PublishFails
    <3>2. CASE Publish(t) /\ SavePending
      BY <2>7, <3>2 DEF Publish
    <3>3. CASE ~ (Publish(t) /\ SavePending)
      <4>1. \/ op'["settings"] = op["settings"]
            \/ t = "settings" /\ op'["settings"].pc # "begin"
        <5>1. PICK o : Start(t, o) /\ o.pc # "begin"
          BY <2>7, RefreshGoes
        <5> QED
          BY <1>0, <5>1 DEF Start
      <4>2. SavePending
        BY <1>2, <4>1 DEF SavePending
      <4>3. UNCHANGED lock
        BY <2>7, <3>3, <4>2 DEF Refresh, Adopt, Refreshed, RefreshFails, PublishFails
      <4> QED
        BY <4>2, <4>3 DEF Ahead
    <3> QED
      BY <3>2, <3>3
  <2> QED
    BY <2>1, <2>2, <2>3, <2>4, <2>5, <2>6, <2>7 DEF Next, User
<1> QED
  BY <1>1, <1>2 DEF Ahead

-------------------------------------------------------------------------------
\* The hashes: a thread that writes nothing and is in no commit of a refresh keeps them.
LEMMA AgreesGoes ==
    ASSUME Inv, Agrees, NEW t \in Threads, NEW o, Start(t, o), UNCHANGED <<control, disk, edits>>,
           ~ HalfWritten(t), o.pc # "providers" \/ o.kind # "commit_refresh"
    PROVE  Agrees'
<1>1. op'[t] = o /\ \A s \in Threads : s # t => op'[s] = op[s]
  BY DEF Inv, TypeOK, Start
<1>2. \A s \in Threads : /\ HalfWritten(s)' <=> HalfWritten(s)
                         /\ HalfWritten(s) => op'[s] = op[s]
  BY <1>1 DEF HalfWritten
<1> QED
  BY <1>2 DEF Agrees

\* Only the holder of the mutex can have written half.
LEMMA HalfIsAlone ==
    ASSUME Inv, NEW t \in Threads, op[t].pc \in Committing
    PROVE  \A s \in Threads : s # t => ~ HalfWritten(s)
BY DEF Inv, Exclusive, HalfWritten, Committing

\* The critical section: a failure after the cache is written keeps the new hash of the cache.
LEMMA CommitAgrees ==
    ASSUME Inv, Held, Agrees, "sync" \notin Faults, NEW t \in Threads, Commit(t)
    PROVE  Agrees'
<1>0. /\ op[t] \in Operation /\ op[t].pc \in Committing /\ Sound(t) /\ UNCHANGED edits
      /\ op \in [Threads -> Operation] /\ TypeOK
  BY DEF Inv, TypeOK, Held, Commit, SaveCache, SaveProviders, SaveFails, commit_reload, Committing
<1>1. \A s \in Threads : s # t => ~ HalfWritten(s)
  BY <1>0, HalfIsAlone
<1>2. ASSUME NEW o, Start(t, o)
      PROVE  op'[t] = o /\ \A s \in Threads : s # t => ~ HalfWritten(s)'
  BY <1>0, <1>1, <1>2 DEF Start, HalfWritten
<1>3. CASE SaveCache(t)
  <2>1. PICK o : o = [op[t] EXCEPT !.pc = "providers"]
    OBVIOUS
  <2>2. o.pc = "providers" /\ o.kind = "commit_refresh" /\ o.next = op[t].next /\ op[t].pc = "cache"
    BY <1>0, <1>3, <2>1 DEF SaveCache, Operation, Sound, Role
  <2>3. Start(t, o) /\ UNCHANGED control
    BY <1>3, <2>1 DEF SaveCache
  <2>4. disk'.cache = op[t].next.cache /\ disk'.providers = disk.providers
    BY <1>0, <1>3 DEF SaveCache, TypeOK
  <2>5. op'[t] = o /\ \A s \in Threads : s # t => ~ HalfWritten(s)'
    BY <1>2, <2>3
  <2>6. HalfWritten(t)'
    BY <2>2, <2>5 DEF HalfWritten
  <2> QED
    BY <1>0, <2>2, <2>3, <2>4, <2>5, <2>6 DEF Agrees
<1>4. CASE ~ SaveCache(t)
  <2>1. PICK o : Start(t, o) /\ o.pc # "providers"
    <3>1. CASE SaveProviders(t)
      <4>1. PICK o : o = [op[t] EXCEPT !.pc = "swap"]
        OBVIOUS
      <4>2. o.pc = "swap"
        BY <1>0, <4>1 DEF Operation
      <4> QED
        BY <3>1, <4>1, <4>2 DEF SaveProviders
    <3>2. CASE SaveFails(t)
      BY <3>2, Resumes DEF SaveFails
    <3>3. CASE commit_reload(t)
      BY <3>3, Resumes, IdleIsWellFormed DEF commit_reload
    <3> QED
      BY <1>4, <3>1, <3>2, <3>3 DEF Commit
  <2>2. \A s \in Threads : ~ HalfWritten(s)'
    BY <1>2, <2>1 DEF HalfWritten
  <2>3. edits = 0 =>
          /\ disk.providers = control.provider_sha256
          /\ ~ HalfWritten(t) => disk.cache = control.cache_sha256
          /\ HalfWritten(t) => disk.cache = op[t].next.cache
    BY <1>1 DEF Agrees
  <2>4. edits = 0 => disk'.providers = control'.provider_sha256 /\ disk'.cache = control'.cache_sha256
    <3>1. CASE SaveProviders(t)
      <4>1. /\ disk'.providers = op[t].next.providers /\ disk'.cache = disk.cache
            /\ control'.provider_sha256 = op[t].next.providers /\ op[t].pc = "providers"
            /\ control'.cache_sha256 = IF op[t].kind = "commit_refresh" THEN op[t].next.cache
                                       ELSE control.cache_sha256
        BY <1>0, <3>1 DEF SaveProviders, TypeOK
      <4> QED
        BY <2>3, <4>1 DEF HalfWritten
    <3>2. CASE SaveFails(t)
      <4>1. /\ UNCHANGED disk /\ op[t].pc \in {"cache", "providers"}
            /\ control'.provider_sha256 = control.provider_sha256
            /\ control'.cache_sha256 = IF HalfWritten(t) THEN op[t].next.cache ELSE control.cache_sha256
        BY <1>0, <3>2 DEF SaveFails, AfterFailure, HalfWritten, TypeOK
      <4> QED
        BY <2>3, <4>1
    <3>3. CASE commit_reload(t)
      BY <2>3, <3>3 DEF commit_reload, HalfWritten
    <3> QED
      BY <1>4, <3>1, <3>2, <3>3 DEF Commit
  <2> QED
    BY <1>0, <2>2, <2>4 DEF Agrees
<1> QED
  BY <1>3, <1>4

\* A refresh writes in the critical section only.
LEMMA RefreshAgrees ==
    ASSUME Inv, Held, Agrees, NEW t \in Threads, Refresh(t)
    PROVE  Agrees'
<1>0. /\ op[t] \in Operation /\ op \in [Threads -> Operation] /\ Carries(op[t])
      /\ op[t].pc \in {"adopt", "request", "publish"} /\ UNCHANGED <<control, disk, edits>>
  BY DEF Inv, TypeOK, WellFormed, Refresh, Adopt, Refreshed, RefreshFails, Publish, PublishFails
<1>1. PICK o : Start(t, o) /\ (o.pc # "providers" \/ o.kind # "commit_refresh")
  <2>1. CASE Adopt(t)
    <3>1. PICK o : o = [op[t] EXCEPT !.pc = "request", !.provider = Adopted(t),
                            !.source = Adopted(t).auth,
                            !.saved = control.providers[op[t].id] # Absent]
      OBVIOUS
    <3>2. o.pc = "request"
      BY <1>0, <3>1 DEF Operation
    <3>3. PICK q : q = Returned(t, Adopted(t))
      OBVIOUS
    <3>4. Start(t, o) \/ Start(t, q)
      BY <2>1, <3>1, <3>3 DEF Adopt
    <3> QED
      BY <3>2, <3>3, <3>4, Resumes
  <2>2. CASE Refreshed(t)
    <3>1. PICK provider : \/ Start(t, [op[t] EXCEPT !.pc = "publish", !.provider = provider])
                          \/ Start(t, Returned(t, provider))
      BY <2>2, Zenon DEF Refreshed
    <3>2. PICK o : o = [op[t] EXCEPT !.pc = "publish", !.provider = provider]
      OBVIOUS
    <3>3. o.pc = "publish"
      BY <1>0, <3>2 DEF Operation
    <3> QED
      BY <3>1, <3>2, <3>3, Resumes
  <2>3. CASE RefreshFails(t) \/ PublishFails(t)
    BY <2>3, Resumes DEF RefreshFails, PublishFails
  <2>4. CASE Publish(t)
    <3>1. PICK o : o = [op[t] EXCEPT !.pc = "providers", !.next = SaveProvider(op[t])]
      OBVIOUS
    <3>2. o.kind = op[t].kind /\ op[t].kind \in {"discover", "refresh"}
      BY <1>0, <2>4, <3>1 DEF Operation, Publish, Carries
    <3>3. Start(t, o) \/ \E provider : Start(t, Returned(t, provider))
      BY <2>4, <3>1 DEF Publish
    <3> QED
      BY <3>2, <3>3, Resumes
  <2> QED
    BY <2>1, <2>2, <2>3, <2>4 DEF Refresh
<1> QED
  BY <1>0, <1>1, AgreesGoes DEF HalfWritten

\* The settings worker and the loop of refreshes write in the critical section only.
LEMMA WorkerAgrees ==
    ASSUME Inv, Held, Agrees,
           \/ \E kind \in {"save", "commit_refresh", "discover"} : Compile(kind)
           \/ \E kind \in {"enable", "disable", "remove"} : Queue(kind)
           \/ Begin \/ Refuse \/ Listed \/ refresh_saved_providers \/ NextInBatch
    PROVE  Agrees'
<1>0. /\ "settings" \in Threads /\ "refresher" \in Threads /\ op \in [Threads -> Operation]
      /\ op["settings"] \in Operation /\ op["refresher"] \in Operation /\ Idle.pc = "idle"
      /\ UNCHANGED <<control, disk, edits>>
  BY IdleIsWellFormed DEF Inv, TypeOK, Threads, Compile, Queue, Begin, Refuse, Listed,
                          refresh_saved_providers, NextInBatch
<1>1. ASSUME NEW kind \in {"save", "commit_refresh", "discover"}, Compile(kind) PROVE Agrees'
  <2>1. PICK id \in Providers, enabled \in BOOLEAN :
           /\ Compiled(id, enabled).auth # Absent
           /\ Start("settings", [Idle EXCEPT !.kind = kind, !.id = id, !.provider = Compiled(id, enabled),
                  !.pc = IF kind # "discover" THEN "begin"
                         ELSE IF needs_refresh(Compiled(id, enabled).auth) THEN "adopt" ELSE "list"])
    BY <1>1, Zenon DEF Compile, Inv, TypeOK, Sessions
  <2>2. PICK o : o = [Idle EXCEPT !.kind = kind, !.id = id, !.provider = Compiled(id, enabled),
                  !.pc = IF kind # "discover" THEN "begin"
                         ELSE IF needs_refresh(Compiled(id, enabled).auth) THEN "adopt" ELSE "list"]
    OBVIOUS
  <2>3. Start("settings", o) /\ o.pc \in {"begin", "adopt", "list"}
    BY <2>1, <2>2 DEF Idle
  <2>4. ~ HalfWritten("settings")
    BY <1>1 DEF Compile, SettingsFree, HalfWritten
  <2> QED
    BY <1>0, <2>3, <2>4, AgreesGoes
<1>2. ASSUME NEW kind \in {"enable", "disable", "remove"}, Queue(kind) PROVE Agrees'
  <2>1. Start("settings", [Idle EXCEPT !.pc = "begin", !.kind = kind, !.id = session.id])
        /\ ~ HalfWritten("settings")
    BY <1>2 DEF Queue, SettingsFree, HalfWritten
  <2>2. [Idle EXCEPT !.pc = "begin", !.kind = kind, !.id = session.id].pc = "begin"
    BY DEF Idle
  <2> QED
    BY <1>0, <2>1, <2>2, AgreesGoes
<1>3. CASE Begin
  <2>1. PICK models \in Models :
           Start("settings", [op["settings"] EXCEPT !.next = prepare_mutation(op["settings"], models),
                  !.pc = IF op["settings"].kind = "commit_refresh" THEN "cache" ELSE "providers"])
    BY <1>3 DEF Begin
  <2>2. PICK o : o = [op["settings"] EXCEPT !.next = prepare_mutation(op["settings"], models),
                  !.pc = IF op["settings"].kind = "commit_refresh" THEN "cache" ELSE "providers"]
    OBVIOUS
  <2>3. o.kind = op["settings"].kind
        /\ o.pc = IF op["settings"].kind = "commit_refresh" THEN "cache" ELSE "providers"
    BY <1>0, <2>2 DEF Operation
  <2>4. ~ HalfWritten("settings")
    BY <1>3 DEF Begin, HalfWritten
  <2>5. Start("settings", o) /\ (o.pc # "providers" \/ o.kind # "commit_refresh")
    BY <2>1, <2>2, <2>3
  <2> QED
    BY <1>0, <2>4, <2>5, AgreesGoes
<1>4. CASE Refuse \/ Listed
  <2>1. Start("settings", Idle) /\ ~ HalfWritten("settings")
    BY <1>4 DEF Refuse, Listed, HalfWritten
  <2> QED
    BY <1>0, <2>1, AgreesGoes
<1>5. CASE refresh_saved_providers
  <2>1. PICK batch : Start("refresher", [Idle EXCEPT !.pc = "next", !.kind = "refresh", !.batch = batch])
    BY <1>5 DEF refresh_saved_providers
  <2>2. [Idle EXCEPT !.pc = "next", !.kind = "refresh", !.batch = batch].pc = "next"
    BY DEF Idle
  <2>3. ~ HalfWritten("refresher")
    BY <1>5 DEF refresh_saved_providers, HalfWritten
  <2> QED
    BY <1>0, <2>1, <2>2, <2>3, AgreesGoes
<1>6. CASE NextInBatch
  <2>1. ~ HalfWritten("refresher")
    BY <1>6 DEF NextInBatch, HalfWritten
  <2>2. ASSUME NEW id \in Providers,
               Start("refresher", [op["refresher"] EXCEPT !.pc = "adopt", !.id = id,
                        !.provider = op["refresher"].batch[id], !.batch[id] = Absent])
        PROVE  Agrees'
    <3>1. PICK o : o = [op["refresher"] EXCEPT !.pc = "adopt", !.id = id,
                        !.provider = op["refresher"].batch[id], !.batch[id] = Absent]
      OBVIOUS
    <3>2. o.pc = "adopt"
      BY <1>0, <3>1 DEF Operation
    <3> QED
      BY <1>0, <2>1, <2>2, <3>1, <3>2, AgreesGoes
  <2>3. CASE Start("refresher", Idle)
    BY <1>0, <2>1, <2>3, AgreesGoes
  <2> QED
    BY <1>6, <2>2, <2>3 DEF NextInBatch
<1> QED
  BY <1>1, <1>2, <1>3, <1>4, <1>5, <1>6

\* Every step keeps Agrees; an edit of the file ends what it claims, a crash loads the files.
LEMMA AgreesKept ==
    ASSUME Inv, Held, Agrees, "sync" \notin Faults, [Next]_vars
    PROVE  Agrees'
<1>0. Idle.pc = "idle" /\ op \in [Threads -> Operation] /\ edits \in Nat
      /\ Threads = {"settings", "refresher", "detached"}
  BY IdleIsWellFormed, ConstantsAssumption DEF Inv, TypeOK, Threads
<1>1. CASE \/ UNCHANGED vars \/ Expire \/ clear_draft
           \/ \E id \in Providers : Open(id)
           \/ \E config \in Configs, models \in Models, forget \in BOOLEAN :
                 EditDraft(config, models, forget)
           \/ \E account \in Accounts : Login(account)
  <2>1. UNCHANGED <<op, control, disk, edits>>
    BY <1>1 DEF vars, Expire, clear_draft, Open, EditDraft, Login
  <2> QED
    BY <2>1 DEF Agrees, HalfWritten
<1>2. ASSUME NEW id \in Providers, ExternalEdit(id) PROVE Agrees'
  BY <1>0, <1>2 DEF ExternalEdit, Agrees
<1>3. CASE Cancel
  <2>1. UNCHANGED <<control, disk, edits>> /\ op["settings"].kind = "discover"
    BY <1>3 DEF Cancel
  <2>2. /\ op'["settings"] = Idle
        /\ op'["detached"] \in {op["settings"], op["detached"]}
        /\ op'["refresher"] = op["refresher"]
        /\ op'["detached"] # op["detached"] => op["detached"].pc = "idle"
    BY <1>0, <1>3 DEF Cancel, Start
  <2>3. \A s \in Threads : /\ HalfWritten(s)' <=> HalfWritten(s)
                           /\ HalfWritten(s) => op'[s] = op[s]
    BY <1>0, <2>1, <2>2 DEF HalfWritten
  <2> QED
    BY <2>1, <2>3 DEF Agrees
<1>4. CASE Crash
  <2>1. /\ \A t \in Threads : op'[t] = Idle
        /\ control' = load /\ UNCHANGED disk
    BY <1>4 DEF Crash
  <2> QED
    BY <1>0, <2>1 DEF load, Agrees, HalfWritten
<1> QED
  BY <1>1, <1>2, <1>3, <1>4, WorkerAgrees, RefreshAgrees, CommitAgrees DEF Next, User

-------------------------------------------------------------------------------

\* No operation fails, no other program edits the files, the process does not end, and no
\* refreshed token is stored between the compilation of a draft and its save.
NothingFails == Faults = {} /\ MaxCrashes = 0 /\ MaxEdits = 0 /\ ~ SavesRaceRefreshes

\* commit_refresh, which no caller of the application uses, is not used.
NoPreviews == op["settings"].kind # "commit_refresh"

\* Is it the credential of a Provider, saved or in the hands of the loop that refreshes it?
Saves(id, token) == control.providers[id] # Absent /\ control.providers[id].auth.token = token

Loops(id, token) ==
    LET o == op["refresher"]
    IN  \/ o.batch[id] # Absent /\ o.batch[id].auth.token = token
        \/ o.pc \in {"adopt", "request"} /\ o.id = id /\ o.provider.auth.token = token

Uses(id, token) == Saves(id, token) \/ Loops(id, token)

\* The saved credential is this one or a newer one of its account.
Covered(id, auth) ==
    /\ control.providers[id] # Absent
    /\ control.providers[id].auth.account = auth.account
    /\ auth.token <= control.providers[id].auth.token

\* A credential of the draft of a Provider is used or spent only if the saved one covers it.
Clean(id, auth) ==
    /\ \A other \in Providers : Uses(other, auth.token) => other = id /\ Covered(id, auth)
    /\ auth.token \in oauth.revoked => id \in Providers /\ Covered(id, auth)

\* No two Providers use a token.
Apart ==
    \A p, q \in Providers : \A token \in 1 .. MaxToken :
        p # q => ~ (Uses(p, token) /\ Uses(q, token))

\* The loop's credential of a Provider is the saved one if it has its token.
Matches(id, auth) == Saves(id, auth.token) => control.providers[id].auth = auth

Matched ==
    LET o == op["refresher"]
    IN  /\ \A id \in Providers : o.batch[id] # Absent => Matches(id, o.batch[id].auth)
        /\ o.pc \in {"adopt", "request"} => Matches(o.id, o.provider.auth)

\* Does the draft carry a credential that another one will replace?
Outdated ==
    LET o == op["settings"]
    IN  \/ o.kind = "discover" /\ o.pc \in {"publish", "providers", "swap", "list"}
        \/ o.kind = "remove" /\ o.pc = "swap"

Drafting == op["settings"].pc # "idle" /\ op["settings"].kind \in {"save", "discover"}

\* The Provider of the draft, from the moment it is saved.
DraftId == IF op["settings"].pc = "swap" /\ op["settings"].kind = "save"
           THEN op["settings"].id ELSE session.id

DraftsAreClean ==
    LET o == op["settings"] IN
    /\ session.credential # Absent /\ ~ Outdated => Clean(DraftId, session.credential)
    /\ Drafting =>
          /\ Clean(o.id, o.provider.auth)
          /\ \/ session.id = o.id
             \/ /\ session.id = Absent
                /\ control.providers[o.id] = Absent \/ (o.kind = "save" /\ o.pc = "swap")
    /\ Drafting /\ o.kind = "save" /\ session.credential # Absent =>
          /\ session.credential.account = o.provider.auth.account
          /\ session.credential.token <= o.provider.auth.token

\* Has the thread a refreshed credential to store?
Stores(t) == op[t].pc \in {"publish", "providers"} /\ op[t].kind \in {"discover", "refresh"}

\* What it has to store nobody else knows.
Secret(t, token) ==
    /\ token \notin oauth.revoked
    /\ \A id \in Providers : ~ Saves(id, token)
    /\ session.credential # Absent => session.credential.token # token
    /\ \A s \in Threads \ {t} : op[s].provider # Absent => op[s].provider.auth.token # token
    /\ \A id \in Providers : op["refresher"].batch[id] # Absent =>
                                op["refresher"].batch[id].auth.token # token

Stored(t) ==
    Stores(t) => /\ Secret(t, op[t].provider.auth.token)
                 /\ op[t].source.account = op[t].provider.auth.account

\* What the token endpoint is asked with.
Asked(t) ==
    op[t].pc = "request" => /\ op[t].source = op[t].provider.auth
                            /\ ~ op[t].saved => ~ Saves(op[t].id, op[t].source.token)

\* What a mutation of the settings worker writes; the loop's operations are not its.
Writes ==
    LET o == op["settings"] IN
    /\ o.kind # "refresh"
    /\ o.pc = "providers" =>
          /\ o.kind = "save" =>
                /\ o.next.providers[o.id] # Absent
                /\ o.next.providers[o.id].auth = o.provider.auth
          /\ o.kind \in {"enable", "disable"} =>
                /\ control.providers[o.id] # Absent /\ o.next.providers[o.id] # Absent
                /\ o.next.providers[o.id].auth = control.providers[o.id].auth
          /\ o.kind = "remove" => o.next.providers[o.id] = Absent

\* A saved credential that is spent is about to be replaced.
Replacing ==
    \A id \in Providers :
        control.providers[id] # Absent /\ control.providers[id].auth.token \in oauth.revoked =>
            \E t \in Threads :
                Stores(t) /\ op[t].id = id /\ op[t].source = control.providers[id].auth

\* Where the credentials are while nothing fails.
Usable ==
    /\ oauth.revoked \subseteq 1 .. oauth.issued
    /\ op["detached"].pc = "idle"
    /\ crashes = 0 /\ edits = 0
    /\ Apart /\ Matched /\ DraftsAreClean /\ Writes /\ Replacing
    /\ \A t \in Threads : Stored(t) /\ Asked(t)

\* Every credential is a pair of an account and a number up to the last token issued.
LEMMA Credentials ==
    ASSUME Inv, Held
    PROVE  /\ oauth.issued \in Nat
           /\ \A auth \in Auth : auth.token \in Nat /\ auth.token \in 1 .. MaxToken
           /\ \A p \in Provider : p # Absent /\ p.auth \in Auth
           /\ \A id \in Providers :
                 /\ control.providers[id] \in Provider \cup {Absent}
                 /\ control.providers[id] # Absent => control.providers[id].auth.token <= oauth.issued
           /\ session.credential \in Auth \cup {Absent}
           /\ session.credential # Absent => session.credential.token <= oauth.issued
           /\ \A t \in Threads :
                 /\ op[t] \in Operation /\ Carries(op[t])
                 /\ op[t].provider # Absent => op[t].provider.auth.token <= oauth.issued
                 /\ \A id \in Providers :
                       /\ op[t].batch[id] \in Provider \cup {Absent}
                       /\ op[t].batch[id] # Absent => op[t].batch[id].auth.token <= oauth.issued
<1>1. oauth.issued \in Nat /\ (\A auth \in Auth : auth.token \in Nat /\ auth.token \in 1 .. MaxToken)
  BY ConstantsAssumption DEF Inv, TypeOK, Auth
<1>2. \A p \in Provider : p # Absent /\ p.auth \in Auth
  BY SentinelAssumption DEF Provider
<1>3. ASSUME NEW id \in Providers
      PROVE  /\ control.providers[id] \in Provider \cup {Absent}
             /\ control.providers[id] # Absent => control.providers[id].auth.token <= oauth.issued
  BY DEF Inv, TypeOK, Documents, Held, Issued, Old
<1>4. /\ session.credential \in Auth \cup {Absent}
      /\ session.credential # Absent => session.credential.token <= oauth.issued
  BY DEF Inv, TypeOK, Sessions, Held, Issued
<1>5. ASSUME NEW t \in Threads
      PROVE  /\ op[t] \in Operation /\ Carries(op[t])
             /\ op[t].provider # Absent => op[t].provider.auth.token <= oauth.issued
             /\ \A id \in Providers :
                   /\ op[t].batch[id] \in Provider \cup {Absent}
                   /\ op[t].batch[id] # Absent => op[t].batch[id].auth.token <= oauth.issued
  <2>1. op[t] \in Operation /\ Carries(op[t]) /\ Carried(op[t])
    BY DEF Inv, WellFormed, Held, Sound
  <2>2. \A id \in Providers : op[t].batch[id] \in Provider \cup {Absent}
    BY <2>1 DEF Operation, Documents
  <2> QED
    BY <2>1, <2>2 DEF Carried, Old
<1> QED
  BY <1>1, <1>2, <1>3, <1>4, <1>5

\* The saved credential of a Provider is clean, and covers itself.
LEMMA SavedIsClean ==
    ASSUME Inv, Held, Usable, NEW id \in Providers, control.providers[id] # Absent
    PROVE  Clean(id, control.providers[id].auth)
<1>1. control.providers[id].auth \in Auth
  BY Credentials
<1>2. Covered(id, control.providers[id].auth)
  BY <1>1, Credentials DEF Covered
<1>3. Uses(id, control.providers[id].auth.token)
  BY DEF Uses, Saves
<1>4. \A other \in Providers : Uses(other, control.providers[id].auth.token) => other = id
  BY <1>1, <1>3, Credentials DEF Usable, Apart
<1> QED
  BY <1>2, <1>4 DEF Clean

\* A token that was not issued is used by nobody.
LEMMA NewIsClean ==
    ASSUME Inv, Held, Usable, NEW id, NEW auth \in Auth, auth.token > oauth.issued
    PROVE  Clean(id, auth)
<1>1. auth.token \notin oauth.revoked
  BY Credentials DEF Usable
<1>2. ASSUME NEW other \in Providers PROVE ~ Uses(other, auth.token)
  <2>1. ~ Saves(other, auth.token)
    BY Credentials DEF Saves
  <2>2. "refresher" \in Threads
    BY DEF Threads
  <2>3. op["refresher"].pc \in {"adopt", "request"} => op["refresher"].provider \in Provider
    <3>1. Carries(op["refresher"]) /\ (op["refresher"].pc \in {"adopt", "request"} => op["refresher"].kind \in {"discover", "refresh"})
      BY <2>2, Credentials DEF Carries
    <3> QED
      BY <3>1 DEF Carries
  <2>4. ~ Loops(other, auth.token)
    BY <2>2, <2>3, Credentials DEF Loops
  <2> QED
    BY <2>1, <2>4 DEF Uses
<1> QED
  BY <1>1, <1>2 DEF Clean

\* A step of the window, or the end of a token's time: no thread moves, and the credential of
\* the draft is the same one, a saved one or a new one.
LEMMA WindowUsable ==
    ASSUME Inv, Held, Usable,
           \/ \E id \in Providers : Open(id)
           \/ \E config \in Configs, models \in Models, forget \in BOOLEAN :
                 EditDraft(config, models, forget)
           \/ clear_draft
           \/ \E account \in Accounts : Login(account)
           \/ Expire
    PROVE  Usable'
<1>0. /\ session \in Sessions /\ oauth \in [issued : 0 .. MaxToken, revoked : SUBSET (1 .. MaxToken)]
      /\ oauth.issued \in Nat /\ MaxToken \in Nat
  BY ConstantsAssumption DEF Inv, TypeOK
<1>1. /\ UNCHANGED <<op, control, crashes, edits>> /\ oauth'.revoked = oauth.revoked
      /\ oauth.issued <= oauth'.issued /\ oauth'.issued \in Nat
  <2>1. ASSUME NEW account \in Accounts, Login(account)
        PROVE  oauth'.revoked = oauth.revoked /\ oauth'.issued = oauth.issued + 1
               /\ UNCHANGED <<op, control, crashes, edits>>
    BY <1>0, <2>1 DEF Login
  <2>2. CASE \/ \E id \in Providers : Open(id)
             \/ \E config \in Configs, models \in Models, forget \in BOOLEAN :
                   EditDraft(config, models, forget)
             \/ clear_draft \/ Expire
    <3>1. UNCHANGED <<op, control, crashes, edits, oauth>>
      BY <2>2 DEF Open, EditDraft, clear_draft, Expire
    <3> QED
      BY <1>0, <3>1
  <2> QED
    BY <1>0, <2>1, <2>2
<1> DEFINE c == session'.credential
           Same == c = session.credential /\ session'.id = session.id
           Shut == UNCHANGED session
           Loaded == session'.id \in Providers /\ control.providers[session'.id] # Absent
                    /\ c = control.providers[session'.id].auth
           New == c \in Auth /\ c.token > oauth.issued
<1>2. /\ Shut \/ Same \/ c = Absent \/ Loaded \/ New
      /\ ~ Shut => ~ Drafting /\ ~ Outdated
      /\ New => c # Absent
  <2>0. New => c # Absent
    BY SentinelAssumption
  <2>1. ASSUME NEW id \in Providers, Open(id) PROVE Loaded /\ ~ Drafting /\ ~ Outdated
    BY <2>1 DEF Open, FormFree, SettingsFree, Drafting, Outdated
  <2>2. ASSUME NEW config \in Configs, NEW models \in Models, NEW forget \in BOOLEAN,
               EditDraft(config, models, forget)
        PROVE  (Same \/ c = Absent) /\ ~ Drafting /\ ~ Outdated
    <3>1. session' = [session EXCEPT !.config = config, !.models = models,
                                  !.credential = IF forget THEN Absent ELSE @]
      BY <2>2 DEF EditDraft
    <3>2. Same \/ c = Absent
      BY <1>0, <3>1 DEF Sessions
    <3>3. ~ Drafting /\ ~ Outdated
      BY <2>2 DEF EditDraft, FormFree, SettingsFree, Drafting, Outdated
    <3> QED
      BY <3>2, <3>3
  <2>3. ASSUME clear_draft PROVE c = Absent /\ ~ Drafting /\ ~ Outdated
    <3>1. c = Absent
      BY <1>0, <2>3 DEF clear_draft, Sessions
    <3>2. ~ Drafting /\ ~ Outdated
      BY <2>3 DEF clear_draft, FormFree, SettingsFree, Drafting, Outdated
    <3> QED
      BY <3>1, <3>2
  <2>4. ASSUME NEW account \in Accounts, Login(account) PROVE New /\ ~ Drafting /\ ~ Outdated
    <3>1. c = [account |-> account, token |-> oauth.issued + 1]
      BY <1>0, <2>4 DEF Login, Sessions
    <3>2. oauth.issued + 1 \in 1 .. MaxToken
      BY <1>0, <2>4 DEF Login
    <3>3. New
      BY <1>0, <3>1, <3>2 DEF Auth
    <3> QED
      BY <2>4, <3>3 DEF Login, SettingsFree, Drafting, Outdated
  <2>5. ASSUME Expire PROVE Shut
    BY <2>5 DEF Expire
  <2> HIDE DEF Same, Shut, Loaded, New
  <2> QED
    BY <2>0, <2>1, <2>2, <2>3, <2>4, <2>5
<1>3. \A id, auth : Clean(id, auth)' <=> Clean(id, auth)
  BY <1>1 DEF Clean, Uses, Saves, Loops, Covered
<1>4. Apart' /\ Matched' /\ Writes' /\ Replacing' /\ \A t \in Threads : Asked(t)'
  BY <1>1 DEF Usable, Apart, Matched, Matches, Writes, Replacing, Stores, Asked, Uses, Saves, Loops
<1>5. ASSUME NEW t \in Threads PROVE Stored(t)'
  <2>1. Stored(t) /\ (Stores(t)' <=> Stores(t))
    BY <1>1 DEF Usable, Stores
  <2>2. ASSUME Stores(t) PROVE c # Absent => c.token # op[t].provider.auth.token
    <3>1. /\ Secret(t, op[t].provider.auth.token) /\ op[t].provider # Absent
          /\ op[t].provider.auth.token \in Nat /\ op[t].provider.auth.token <= oauth.issued
      BY <2>1, <2>2, Credentials DEF Stored, Stores, Carries
    <3> QED
      BY <1>0, <1>2, <3>1, Credentials DEF Secret, Saves
  <2> QED
    BY <1>1, <2>1, <2>2 DEF Stored, Secret, Stores, Saves
<1>6. DraftsAreClean'
  <2>1. CASE Shut
    BY <1>1, <1>3, <2>1 DEF Usable, DraftsAreClean, Outdated, Drafting, DraftId
  <2>2. CASE ~ Shut
    <3>1. ~ Drafting' /\ ~ Outdated' /\ ~ Drafting /\ ~ Outdated
      BY <1>1, <1>2, <2>2 DEF Drafting, Outdated
    <3>2. DraftId' = session'.id /\ DraftId = session.id
      BY <1>1, <3>1 DEF DraftId, Drafting
    <3>3. c # Absent => Clean(session'.id, c)
      <4>1. CASE Same
        BY <3>1, <3>2, <4>1 DEF Usable, DraftsAreClean
      <4>2. CASE Loaded
        BY <4>2, SavedIsClean
      <4>3. CASE New
        BY <4>3, NewIsClean
      <4> QED
        BY <1>2, <2>2, <4>1, <4>2, <4>3
    <3> QED
      BY <1>3, <3>1, <3>2, <3>3 DEF DraftsAreClean
  <2> QED
    BY <2>1, <2>2
<1> QED
  BY <1>0, <1>1, <1>4, <1>5, <1>6 DEF Usable

\* A thread that moves on without a new document and without an answer of the token endpoint.
LEMMA Moves ==
    ASSUME Inv, Inv', Held, Usable, NEW t \in Threads, t # "detached", NEW o, Start(t, o),
           UNCHANGED <<control, oauth, crashes, edits>>,
           \* it takes up no credential another thread has to store
           \A s \in Threads \ {t} : Stores(s) =>
               /\ o.provider # Absent => o.provider.auth.token # op[s].provider.auth.token
               /\ t = "refresher" => \A id \in Providers :
                     o.batch[id] # Absent => o.batch[id].auth.token # op[s].provider.auth.token
               /\ session'.credential # Absent =>
                     session'.credential.token # op[s].provider.auth.token,
           Stored(t)', Asked(t)',
           t = "refresher" =>
               /\ Matched' /\ UNCHANGED session
               /\ \A id \in Providers : \A token \in 1 .. MaxToken : Loops(id, token)' => Uses(id, token),
           t = "settings" => DraftsAreClean' /\ Writes',
           \* it gives up no credential that is to replace a saved one
           \/ ~ Stores(t)
           \/ Stores(t)' /\ o.id = op[t].id /\ o.source = op[t].source
           \/ control.providers[op[t].id] = Absent \/ control.providers[op[t].id].auth # op[t].source
    PROVE  Usable'
<1>1. /\ op \in [Threads -> Operation] /\ op'[t] = o /\ Threads = {"settings", "refresher", "detached"}
      /\ \A s \in Threads : s # t => op'[s] = op[s]
  BY DEF Inv, TypeOK, Start, Threads
<1>2. \A id \in Providers : \A token \in 1 .. MaxToken : Uses(id, token)' => Uses(id, token)
  BY <1>1 DEF Uses, Saves, Loops
<1>3. Apart'
  BY <1>2 DEF Usable, Apart
<1>4. Matched'
  BY <1>1 DEF Usable, Matched, Matches, Saves
<1>5. ASSUME NEW s \in Threads PROVE Stored(s)' /\ Asked(s)'
  <2>1. CASE s # t
    <3>1. Asked(s)'
      BY <1>1, <2>1 DEF Usable, Asked, Saves
    <3>2. ASSUME Stores(s)' PROVE Stores(s) /\ Secret(s, op[s].provider.auth.token)'
      <4>1. Stores(s) /\ Secret(s, op[s].provider.auth.token)
        BY <1>1, <2>1, <3>2 DEF Usable, Stored, Stores
      <4>2. \A r \in Threads \ {s} : op'[r].provider # Absent =>
                                         op'[r].provider.auth.token # op[s].provider.auth.token
        BY <1>1, <2>1, <4>1 DEF Secret
      <4>3. \A id \in Providers : op'["refresher"].batch[id] # Absent =>
                op'["refresher"].batch[id].auth.token # op[s].provider.auth.token
        BY <1>1, <2>1, <4>1 DEF Secret
      <4>4. session'.credential # Absent => session'.credential.token # op[s].provider.auth.token
        BY <1>1, <2>1, <4>1
      <4> QED
        BY <1>1, <2>1, <4>1, <4>2, <4>3, <4>4 DEF Secret, Saves
    <3> QED
      BY <1>1, <2>1, <3>1, <3>2 DEF Usable, Stored, Stores
  <2> QED
    BY <2>1
<1>6. DraftsAreClean'
  <2>1. CASE t = "refresher"
    <3>1. UNCHANGED <<control, session, oauth>> /\ op'["settings"] = op["settings"]
      BY <1>1, <2>1
    <3>2. ASSUME NEW id, NEW auth \in Auth, Clean(id, auth) PROVE Clean(id, auth)'
      <4>1. auth.token \in 1 .. MaxToken
        BY Credentials
      <4> QED
        BY <1>2, <3>1, <3>2, <4>1 DEF Clean, Covered
    <3>3. session.credential # Absent => session.credential \in Auth
      BY Credentials
    <3>4. Drafting => op["settings"].provider.auth \in Auth
      <4>1. Carries(op["settings"])
        BY <1>1, Credentials
      <4> QED
        BY <4>1, Credentials DEF Drafting, Carries, Role
    <3> QED
      BY <3>1, <3>2, <3>3, <3>4 DEF Usable, DraftsAreClean, Drafting, Outdated, DraftId
  <2> QED
    BY <1>1, <2>1
<1>7. Writes'
  <2>1. CASE t = "refresher"
    BY <1>1, <2>1 DEF Usable, Writes
  <2> QED
    BY <1>1, <2>1
<1>8. Replacing'
  <2>1. SUFFICES ASSUME NEW id \in Providers, control.providers[id] # Absent,
                        control.providers[id].auth.token \in oauth.revoked
                 PROVE  \E s \in Threads : /\ Stores(s)' /\ op'[s].id = id
                                           /\ op'[s].source = control.providers[id].auth
    BY DEF Replacing
  <2>2. PICK s \in Threads : Stores(s) /\ op[s].id = id /\ op[s].source = control.providers[id].auth
    BY <2>1 DEF Usable, Replacing
  <2>3. CASE s # t
    BY <1>1, <2>2, <2>3 DEF Stores
  <2>4. CASE s = t
    BY <1>1, <2>1, <2>2, <2>4
  <2> QED
    BY <2>3, <2>4
<1> QED
  BY <1>1, <1>3, <1>4, <1>5, <1>6, <1>7, <1>8 DEF Usable

\* Nothing changes what credentials are in use but a write, an answer and the loop.
LEMMA CleanStays ==
    ASSUME UNCHANGED <<control, oauth>>, op'["refresher"] = op["refresher"], NEW id, NEW auth
    PROVE  Clean(id, auth)' <=> Clean(id, auth)
BY DEF Clean, Uses, Saves, Loops, Covered

\* What the settings worker may take up: no other thread has to store it.
LEMMA NotSecret ==
    ASSUME Inv, Held, Usable, NEW t \in Threads, NEW s \in Threads \ {t}, Stores(s)
    PROVE  /\ \A id \in Providers : control.providers[id] # Absent =>
                  control.providers[id].auth.token # op[s].provider.auth.token
           /\ session.credential # Absent => session.credential.token # op[s].provider.auth.token
           /\ op[t].provider # Absent => op[t].provider.auth.token # op[s].provider.auth.token
           /\ \A id \in Providers : op["refresher"].batch[id] # Absent =>
                  op["refresher"].batch[id].auth.token # op[s].provider.auth.token
BY DEF Usable, Stored, Secret, Saves

\* A step of the settings worker that neither refreshes nor writes.
LEMMA WorkerMoves ==
    ASSUME Inv, Inv', Held, Usable, NEW o \in Operation, Start("settings", o),
           UNCHANGED <<control, oauth, crashes, edits>>,
           o.pc \notin {"request", "publish"}, o.pc = "providers" => o.kind \notin {"discover", "refresh"},
           ~ Stores("settings"),
           \A s \in Threads \ {"settings"} : Stores(s) =>
               /\ o.provider # Absent => o.provider.auth.token # op[s].provider.auth.token
               /\ session'.credential # Absent =>
                     session'.credential.token # op[s].provider.auth.token,
           DraftsAreClean', Writes'
    PROVE  Usable'
<1>1. /\ "settings" \in Threads /\ op'["settings"] = o
  BY DEF Inv, TypeOK, Start, Threads
<1>2. Stored("settings")' /\ Asked("settings")'
  BY <1>1 DEF Stored, Asked, Stores
<1> QED
  BY <1>1, <1>2, Moves

\* The settings worker compiles a draft, or starts a switch or a removal.
LEMMA StartUsable ==
    ASSUME Inv, Inv', Held, Usable, NoPreviews',
           \/ \E kind \in {"save", "commit_refresh", "discover"} : Compile(kind)
           \/ \E kind \in {"enable", "disable", "remove"} : Queue(kind)
    PROVE  Usable'
<1> DEFINE s == "settings"
<1>0. /\ s \in Threads /\ op[s] \in Operation /\ op \in [Threads -> Operation]
      /\ op' \in [Threads -> Operation] /\ "refresher" \in Threads
      /\ session \in Sessions
  BY DEF Inv, TypeOK, Threads
<1>1. ASSUME NEW kind \in {"save", "commit_refresh", "discover"}, Compile(kind) PROVE Usable'
  <2>1. PICK id \in IF session.id = Absent
                    THEN {i \in Providers : control.providers[i] = Absent} ELSE {session.id},
             enabled \in BOOLEAN :
           /\ Compiled(id, enabled).auth # Absent
           /\ Start(s, [Idle EXCEPT !.kind = kind, !.id = id, !.provider = Compiled(id, enabled),
                  !.pc = IF kind # "discover" THEN "begin"
                         ELSE IF needs_refresh(Compiled(id, enabled).auth) THEN "adopt" ELSE "list"])
    BY <1>1, Zenon DEF Compile, s
  <2>2. PICK o : o = [Idle EXCEPT !.kind = kind, !.id = id, !.provider = Compiled(id, enabled),
                  !.pc = IF kind # "discover" THEN "begin"
                         ELSE IF needs_refresh(Compiled(id, enabled).auth) THEN "adopt" ELSE "list"]
    OBVIOUS
  <2>3. /\ Start(s, o) /\ o.pc \in {"begin", "adopt", "list"} /\ o.kind = kind /\ o.id = id
        /\ o.provider = Compiled(id, enabled) /\ (o.pc = "list" => kind = "discover")
    BY <2>1, <2>2 DEF Idle
  <2>4. o \in Operation /\ op'[s] = o /\ op'["refresher"] = op["refresher"]
    BY <1>0, <2>3 DEF Start
  <2>5. /\ UNCHANGED <<control, disk, oauth, session, crashes, edits>>
        /\ op[s].pc = "idle" /\ kind # "commit_refresh"
    BY <1>1, <2>3, <2>4 DEF Compile, SettingsFree, NoPreviews
  <2>6. id \in Providers /\ (session.id = id \/ (session.id = Absent /\ control.providers[id] = Absent))
    BY <1>0, <2>1 DEF Sessions
  <2>7. PICK auth : auth = o.provider.auth
    OBVIOUS
  <2>8. /\ auth = session.credential \/ (control.providers[id] # Absent /\ auth = control.providers[id].auth)
        /\ session.credential # Absent =>
              auth.account = session.credential.account /\ session.credential.token <= auth.token
        /\ auth # Absent
    <3>1. auth = freshest_credential(IF session.credential = Absent /\ control.providers[id] # Absent
                                     THEN control.providers[id].auth ELSE session.credential,
                                     control.providers[id])
      BY <2>3, <2>7 DEF Compiled
    <3>2. auth # Absent
      BY <2>1, <2>3, <2>7
    <3>3. control.providers[id] # Absent =>
              control.providers[id].auth \in Auth /\ control.providers[id].auth.token \in Nat
      BY <2>6, Credentials
    <3>4. session.credential # Absent => session.credential.token \in Nat
      BY Credentials
    <3>5. CASE session.credential = Absent
      BY <3>1, <3>2, <3>5 DEF freshest_credential
    <3>6. CASE session.credential # Absent
      BY <3>1, <3>2, <3>3, <3>4, <3>6 DEF freshest_credential
    <3> QED
      BY <3>2, <3>5, <3>6
  <2>9. session.credential # Absent => Clean(session.id, session.credential)
    BY <2>5 DEF Usable, DraftsAreClean, Outdated, DraftId
  <2>10. Clean(id, auth)
    <3>1. CASE control.providers[id] # Absent /\ auth = control.providers[id].auth
      BY <2>6, <3>1, SavedIsClean
    <3>2. CASE auth = session.credential /\ session.id = id
      BY <2>8, <2>9, <3>2
    <3>3. CASE auth = session.credential /\ session.id = Absent
      <4>1. Clean(Absent, auth) /\ Absent \notin Providers
        BY <2>8, <2>9, <3>3, ConstantsAssumption
      <4> QED
        BY <4>1 DEF Clean
    <3> QED
      BY <2>6, <2>8, <3>1, <3>2, <3>3
  <2>11. DraftsAreClean'
    <3>1. Drafting' /\ DraftId' = session.id
      BY <2>3, <2>4, <2>5 DEF Drafting, DraftId
    <3> QED
      BY <2>3, <2>4, <2>5, <2>6, <2>7, <2>8, <2>9, <2>10, <3>1, CleanStays DEF DraftsAreClean
  <2>12. Writes'
    BY <2>3, <2>4 DEF Writes
  <2>13. ASSUME NEW r \in Threads \ {s}, Stores(r)
         PROVE  /\ o.provider # Absent => o.provider.auth.token # op[r].provider.auth.token
                /\ session'.credential # Absent =>
                      session'.credential.token # op[r].provider.auth.token
    BY <1>0, <2>5, <2>6, <2>7, <2>8, <2>13, NotSecret
  <2>14. ~ Stores(s)
    BY <2>5 DEF Stores
  <2> QED
    BY <2>3, <2>4, <2>5, <2>11, <2>12, <2>13, <2>14, WorkerMoves
<1>2. ASSUME NEW kind \in {"enable", "disable", "remove"}, Queue(kind) PROVE Usable'
  <2>1. PICK o : o = [Idle EXCEPT !.pc = "begin", !.kind = kind, !.id = session.id]
    OBVIOUS
  <2>2. Start(s, o) /\ UNCHANGED <<control, oauth, session, crashes, edits>> /\ op[s].pc = "idle"
    BY <1>2, <2>1 DEF Queue, SettingsFree
  <2>3. o.pc = "begin" /\ o.kind = kind /\ o.provider = Absent
    BY <2>1 DEF Idle
  <2>4. o \in Operation /\ op'[s] = o /\ op'["refresher"] = op["refresher"]
    BY <1>0, <2>2 DEF Start
  <2>5. DraftsAreClean'
    <3>1. ~ Outdated /\ ~ Outdated' /\ ~ Drafting' /\ DraftId = session.id /\ DraftId' = session.id
      BY <2>2, <2>3, <2>4 DEF Drafting, DraftId, Outdated
    <3> QED
      BY <2>2, <2>4, <3>1, CleanStays DEF Usable, DraftsAreClean
  <2>6. Writes' /\ ~ Stores(s)
    BY <2>2, <2>3, <2>4 DEF Writes, Stores
  <2> QED
    BY <1>0, <2>2, <2>3, <2>4, <2>5, <2>6, NotSecret, WorkerMoves
<1> QED
  BY <1>1, <1>2

\* The settings worker prepares a mutation, gives it up, or takes over a list of models.
LEMMA WorkUsable ==
    ASSUME Inv, Inv', Held, Usable, NothingFails, NoPreviews, Begin \/ Refuse \/ Listed
    PROVE  Usable'
<1> DEFINE s == "settings"
<1>0. /\ s \in Threads /\ op[s] \in Operation /\ op \in [Threads -> Operation] /\ Sound(s)
      /\ Carries(op[s]) /\ "refresher" \in Threads /\ session \in Sessions
      /\ Idle \in Operation /\ Idle.pc = "idle" /\ Idle.kind = "save" /\ Idle.provider = Absent
      /\ control.providers \in Documents
  BY IdleIsWellFormed DEF Inv, WellFormed, TypeOK, Threads, Held, Idle
<1>1. CASE Begin
  <2>1. /\ op[s].pc = "begin" /\ op[s].kind \in {"save", "enable", "disable", "remove"}
        /\ op[s].id \in Providers /\ ~ ProviderNotFound(op[s])
        /\ UNCHANGED <<control, oauth, session, crashes, edits>>
    BY <1>0, <1>1 DEF Begin, Operation, Kinds, Sound, Role, Carries, NoPreviews
  <2>2. PICK models \in Models :
           Start(s, [op[s] EXCEPT !.next = prepare_mutation(op[s], models),
                                  !.pc = IF op[s].kind = "commit_refresh" THEN "cache" ELSE "providers"])
    BY <1>1 DEF Begin
  <2>3. PICK o : o = [op[s] EXCEPT !.next = prepare_mutation(op[s], models),
                                  !.pc = IF op[s].kind = "commit_refresh" THEN "cache" ELSE "providers"]
    OBVIOUS
  <2>4. /\ o.next = prepare_mutation(op[s], models) /\ o.id = op[s].id /\ o.kind = op[s].kind
        /\ o.provider = op[s].provider /\ o.pc = "providers"
    BY <1>0, <2>1, <2>3 DEF Operation
  <2>5. Start(s, o) /\ o \in Operation /\ op'[s] = o /\ op'["refresher"] = op["refresher"]
    BY <1>0, <2>2, <2>3 DEF Start, Inv, TypeOK
  <2>6. Writes'
    <3>1. CASE op[s].kind = "save"
      <4>1. op[s].provider \in Provider
        BY <1>0, <2>1, <3>1 DEF Carries
      <4>2. o.next.providers[o.id] = op[s].provider
        BY <1>0, <2>1, <2>4, <3>1 DEF prepare_mutation, SaveProvider, Documents
      <4> QED
        BY <2>4, <2>5, <3>1, <4>1, <4>2, SentinelAssumption DEF Writes
    <3>2. CASE op[s].kind \in {"enable", "disable"}
      <4>1. control.providers[o.id] \in Provider
        BY <1>0, <2>1, <2>4, <3>2 DEF ProviderNotFound, Documents
      <4>2. o.next.providers[o.id] = [control.providers[o.id] EXCEPT !.enabled = (op[s].kind = "enable")]
        BY <1>0, <2>1, <2>4, <3>2 DEF prepare_mutation, SetProviderEnabled, Documents
      <4>3. o.next.providers[o.id].auth = control.providers[o.id].auth /\ o.next.providers[o.id] \in Provider
        BY <4>1, <4>2 DEF Provider
      <4> QED
        BY <2>1, <2>4, <2>5, <3>2, <4>1, <4>3, SentinelAssumption DEF Writes
    <3>3. CASE op[s].kind = "remove"
      BY <1>0, <2>1, <2>4, <2>5, <3>3 DEF prepare_mutation, RemoveProvider, Documents, Writes
    <3> QED
      BY <2>1, <3>1, <3>2, <3>3
  <2>7. DraftsAreClean'
    <3>1. /\ Drafting' <=> Drafting
          /\ ~ Outdated /\ ~ Outdated' /\ DraftId = session.id /\ DraftId' = session.id
      BY <2>1, <2>4, <2>5 DEF Drafting, DraftId, Outdated
    <3> QED
      BY <2>1, <2>4, <2>5, <3>1, CleanStays DEF Usable, DraftsAreClean
  <2>8. ~ Stores(s) /\ o.kind \notin {"discover", "refresh"}
    BY <2>1, <2>4 DEF Stores
  <2> QED
    BY <1>0, <2>1, <2>4, <2>5, <2>6, <2>7, <2>8, NotSecret, WorkerMoves
<1>2. CASE Refuse
  <2>1. /\ op[s].pc = "begin" /\ Start(s, Idle) /\ UNCHANGED <<control, oauth, session, crashes, edits>>
    BY <1>2 DEF Refuse
  <2>2. op'[s] = Idle /\ op'["refresher"] = op["refresher"]
    BY <1>0, <2>1 DEF Start
  <2>3. Writes' /\ ~ Stores(s)
    BY <1>0, <2>1, <2>2 DEF Writes, Stores
  <2>4. DraftsAreClean'
    <3>1. ~ Drafting' /\ ~ Outdated /\ DraftId = session.id /\ DraftId' = session.id
      BY <1>0, <2>1, <2>2 DEF Drafting, DraftId, Outdated
    <3> QED
      BY <2>1, <2>2, <3>1, CleanStays DEF Usable, DraftsAreClean
  <2> QED
    BY <1>0, <2>1, <2>2, <2>3, <2>4, NotSecret, WorkerMoves
<1>3. CASE Listed
  <2>1. /\ op[s].pc = "list" /\ op[s].kind = "discover" /\ Start(s, Idle)
        /\ UNCHANGED <<control, oauth, crashes, edits>>
    BY <1>0, <1>3 DEF Listed, Carries, Usable, Writes
  <2>2. /\ session'.id = session.id /\ session'.credential = op[s].provider.auth
        /\ op[s].provider \in Provider /\ op[s].id \in Providers
    BY <1>0, <1>3, <2>1 DEF Listed, NothingFails, Sessions, Carries
  <2>3. op'[s] = Idle /\ op'["refresher"] = op["refresher"]
    BY <1>0, <2>1 DEF Start
  <2>4. Writes' /\ ~ Stores(s)
    BY <1>0, <2>1, <2>3 DEF Writes, Stores
  <2>5. DraftsAreClean'
    <3>1. ~ Drafting' /\ Drafting /\ DraftId' = session.id
      BY <1>0, <2>1, <2>2, <2>3 DEF Drafting, DraftId
    <3>2. /\ Clean(op[s].id, op[s].provider.auth)
          /\ session.id = op[s].id \/ (session.id = Absent /\ control.providers[op[s].id] = Absent)
      BY <2>1, <3>1 DEF Usable, DraftsAreClean
    <3>3. Clean(session.id, op[s].provider.auth)
      BY <2>2, <3>2, ConstantsAssumption DEF Clean, Covered
    <3> QED
      BY <2>1, <2>2, <2>3, <3>1, <3>3, CleanStays DEF DraftsAreClean
  <2>6. \A r \in Threads \ {s} : Stores(r) => op[s].provider.auth.token # op[r].provider.auth.token
    BY <1>0, <2>2, NotSecret, Credentials
  <2> QED
    BY <1>0, <2>1, <2>2, <2>3, <2>4, <2>5, <2>6, WorkerMoves
<1> QED
  BY <1>1, <1>2, <1>3

\* Where the loop takes a credential of a Provider from.
Source(id, auth) ==
    LET o == op["refresher"]
    IN  \/ control.providers[id] # Absent /\ auth = control.providers[id].auth
        \/ o.batch[id] # Absent /\ auth = o.batch[id].auth
        \/ o.pc \in {"adopt", "request"} /\ o.id = id /\ auth = o.provider.auth

LEMMA SourceIsUsed ==
    ASSUME Usable, NEW id \in Providers, NEW auth, Source(id, auth)
    PROVE  Uses(id, auth.token) /\ Matches(id, auth)
BY DEF Source, Uses, Saves, Loops, Usable, Matched, Matches

\* A step of the loop goes on with credentials it has, or with saved ones.
LEMMA LoopMoves ==
    ASSUME Inv, Inv', Held, Usable, NEW o \in Operation, Start("refresher", o),
           UNCHANGED <<control, oauth, session, crashes, edits>>,
           \A id \in Providers : o.batch[id] # Absent =>
               \/ o.batch[id] = op["refresher"].batch[id]
               \/ o.batch[id] = control.providers[id],
           o.provider # Absent =>
               \/ o.pc \notin {"adopt", "request"} /\ o.provider = op["refresher"].provider
               \/ o.id \in Providers /\ Source(o.id, o.provider.auth),
           o.pc \in {"adopt", "request"} => o.provider # Absent /\ o.id \in Providers
                                            /\ Source(o.id, o.provider.auth),
           Stored("refresher")', Asked("refresher")',
           \/ ~ Stores("refresher")
           \/ Stores("refresher")' /\ o.id = op["refresher"].id /\ o.source = op["refresher"].source
           \/ control.providers[op["refresher"].id] = Absent
           \/ control.providers[op["refresher"].id].auth # op["refresher"].source
    PROVE  Usable'
<1> DEFINE r == "refresher"
<1>1. /\ r \in Threads /\ op'[r] = o
  BY DEF Inv, TypeOK, Start, Threads
<1>2. \A id \in Providers : \A token \in 1 .. MaxToken : Loops(id, token)' => Uses(id, token)
  <2>1. SUFFICES ASSUME NEW id \in Providers, NEW token \in 1 .. MaxToken, Loops(id, token)'
                 PROVE  Uses(id, token)
    OBVIOUS
  <2>2. CASE o.batch[id] # Absent /\ o.batch[id].auth.token = token
    BY <1>1, <2>2 DEF Uses, Saves, Loops
  <2>3. CASE o.pc \in {"adopt", "request"} /\ o.id = id /\ o.provider.auth.token = token
    BY <2>3, SourceIsUsed
  <2> QED
    BY <1>1, <2>1, <2>2, <2>3 DEF Loops
<1>3. Matched'
  <2>1. ASSUME NEW id \in Providers, o.batch[id] # Absent PROVE Matches(id, o.batch[id].auth)
    BY <2>1 DEF Usable, Matched, Matches, Saves
  <2>2. o.pc \in {"adopt", "request"} => Matches(o.id, o.provider.auth)
    BY SourceIsUsed
  <2> QED
    BY <1>1, <2>1, <2>2 DEF Matched, Matches, Saves
<1>4. ASSUME NEW s \in Threads \ {r}, Stores(s)
      PROVE  /\ o.provider # Absent => o.provider.auth.token # op[s].provider.auth.token
             /\ \A id \in Providers :
                   o.batch[id] # Absent => o.batch[id].auth.token # op[s].provider.auth.token
             /\ session'.credential # Absent =>
                   session'.credential.token # op[s].provider.auth.token
  <2>1. ASSUME o.provider # Absent PROVE o.provider.auth.token # op[s].provider.auth.token
    <3>1. CASE o.provider = op[r].provider
      BY <1>1, <1>4, <2>1, <3>1, NotSecret
    <3>2. CASE o.id \in Providers /\ Source(o.id, o.provider.auth)
      <4>1. Carries(op[r]) /\ (op[r].pc \in {"adopt", "request"} => op[r].provider # Absent)
        BY <1>1, Credentials DEF Carries
      <4> QED
        BY <1>1, <1>4, <3>2, <4>1, NotSecret DEF Source
    <3> QED
      BY <2>1, <3>1, <3>2
  <2> QED
    BY <1>1, <1>4, <2>1, NotSecret
<1> QED
  BY <1>1, <1>2, <1>3, <1>4, Moves

\* The loop begins, and goes to its next Provider.
LEMMA LoopUsable ==
    ASSUME Inv, Inv', Held, Usable, refresh_saved_providers \/ NextInBatch
    PROVE  Usable'
<1> DEFINE r == "refresher"
<1>0. /\ r \in Threads /\ op[r] \in Operation /\ op \in [Threads -> Operation]
      /\ op' \in [Threads -> Operation] /\ Idle \in Operation /\ Idle.pc = "idle"
      /\ Idle.provider = Absent /\ Idle.batch = NoProviders /\ op[r].batch \in Documents
  BY IdleIsWellFormed DEF Inv, TypeOK, Threads, Operation, Idle
<1>1. ASSUME NEW o, Start(r, o), o.pc \notin {"request", "publish", "providers"}
      PROVE  Stored(r)' /\ Asked(r)' /\ o \in Operation
  <2>1. op'[r] = o
    BY <1>0, <1>1 DEF Start
  <2> QED
    BY <1>0, <1>1, <2>1 DEF Stored, Asked, Stores
<1>2. CASE refresh_saved_providers
  <2>1. PICK batch : batch = [id \in Providers |->
                IF control.providers[id] # Absent /\ needs_refresh(control.providers[id].auth)
                THEN control.providers[id] ELSE Absent]
    OBVIOUS
  <2>2. PICK o : o = [Idle EXCEPT !.pc = "next", !.kind = "refresh", !.batch = batch]
    OBVIOUS
  <2>3. Start(r, o) /\ UNCHANGED <<control, oauth, session, crashes, edits>> /\ op[r].pc = "idle"
    BY <1>2, <2>1, <2>2 DEF refresh_saved_providers
  <2>4. o.pc = "next" /\ o.batch = batch /\ o.provider = Absent
    BY <2>2 DEF Idle
  <2>5. \A id \in Providers : o.batch[id] # Absent => o.batch[id] = control.providers[id]
    BY <2>1, <2>4
  <2>6. ~ Stores(r)
    BY <2>3 DEF Stores
  <2> QED
    BY <1>1, <2>3, <2>4, <2>5, <2>6, LoopMoves
<1>3. CASE NextInBatch
  <2>1. op[r].pc = "next" /\ UNCHANGED <<control, oauth, session, crashes, edits>>
    BY <1>3 DEF NextInBatch
  <2>2. ~ Stores(r)
    BY <2>1 DEF Stores
  <2>3. CASE Start(r, Idle)
    BY <1>0, <1>1, <2>1, <2>2, <2>3, LoopMoves DEF NoProviders
  <2>4. ASSUME NEW id \in Providers, op[r].batch[id] # Absent,
               Start(r, [op[r] EXCEPT !.pc = "adopt", !.id = id, !.provider = op[r].batch[id],
                                      !.batch[id] = Absent])
        PROVE  Usable'
    <3>1. PICK o : o = [op[r] EXCEPT !.pc = "adopt", !.id = id, !.provider = op[r].batch[id],
                                     !.batch[id] = Absent]
      OBVIOUS
    <3>2. /\ o.pc = "adopt" /\ o.provider = op[r].batch[id] /\ o.id = id
          /\ o.batch = [op[r].batch EXCEPT ![id] = Absent]
      BY <1>0, <3>1 DEF Operation
    <3>3. \A i \in Providers : o.batch[i] # Absent => o.batch[i] = op[r].batch[i]
      BY <1>0, <3>2 DEF Documents
    <3>4. Source(id, o.provider.auth) /\ Start(r, o)
      BY <2>4, <3>1, <3>2 DEF Source
    <3>5. Stored(r)' /\ Asked(r)' /\ o \in Operation
      BY <1>1, <3>2, <3>4
    <3>6. o.provider # Absent /\ o.id \in Providers /\ Source(o.id, o.provider.auth)
      BY <2>4, <3>2, <3>4
    <3> QED
      BY <2>1, <2>2, <3>3, <3>4, <3>5, <3>6, LoopMoves
  <2> QED
    BY <1>3, <2>3, <2>4 DEF NextInBatch
<1> QED
  BY <1>2, <1>3

\* The loop after an error, or after a Provider.
LEMMA LoopReturns ==
    ASSUME Inv, Inv', Held, Usable, Start("refresher", Failed("refresher")),
           UNCHANGED <<control, oauth, session, crashes, edits>>,
           \/ ~ Stores("refresher")
           \/ control.providers[op["refresher"].id] = Absent
           \/ control.providers[op["refresher"].id].auth # op["refresher"].source
    PROVE  Usable'
<1>1. /\ "refresher" \in Threads /\ op["refresher"] \in Operation /\ op \in [Threads -> Operation]
  BY DEF Inv, TypeOK, Threads
<1>2. PICK o : o = Failed("refresher")
  OBVIOUS
<1>3. /\ o.pc = "next" /\ o.provider = Absent /\ o.batch = op["refresher"].batch
  BY <1>2 DEF Failed, Idle
<1>4. o \in Operation /\ op'["refresher"] = o
  BY <1>1, <1>2, FailedIsSound DEF Start
<1>5. Stored("refresher")' /\ Asked("refresher")'
  BY <1>3, <1>4 DEF Stored, Asked, Stores
<1> QED
  BY <1>2, <1>3, <1>4, <1>5, LoopMoves

\* A discovery of the settings worker has a Provider to list the models of.
LEMMA WorkerReturns ==
    ASSUME Inv, Inv', Held, Usable, NEW p \in Provider, op["settings"].kind = "discover",
           op["settings"].pc # "idle", Start("settings", Returned("settings", p)),
           UNCHANGED <<control, oauth, session, crashes, edits>>,
           Clean(op["settings"].id, p.auth),
           \A s \in Threads \ {"settings"} : Stores(s) => p.auth.token # op[s].provider.auth.token,
           \/ ~ Stores("settings")
           \/ control.providers[op["settings"].id] = Absent
           \/ control.providers[op["settings"].id].auth # op["settings"].source
    PROVE  Usable'
<1> DEFINE s == "settings"
<1>1. /\ s \in Threads /\ op[s] \in Operation /\ op \in [Threads -> Operation] /\ "refresher" \in Threads
  BY DEF Inv, TypeOK, Threads
<1>2. PICK o : o = Returned(s, p)
  OBVIOUS
<1>3. o.pc = "list" /\ o.kind = "discover" /\ o.id = op[s].id /\ o.provider = p
  BY <1>2 DEF Returned, Idle
<1>4. op'[s] = o /\ op'["refresher"] = op["refresher"]
  BY <1>1, <1>2 DEF Start
<1>5. Stored(s)' /\ Asked(s)' /\ Writes'
  BY <1>3, <1>4 DEF Stored, Asked, Stores, Writes
<1>6. DraftsAreClean'
  <2>1. Outdated' /\ Drafting' /\ Drafting
    BY <1>3, <1>4 DEF Outdated, Drafting
  <2> QED
    BY <1>3, <1>4, <2>1, CleanStays DEF Usable, DraftsAreClean
<1>7. \A r \in Threads \ {s} : Stores(r) =>
          (session'.credential # Absent => session'.credential.token # op[r].provider.auth.token)
  BY <1>1, NotSecret
<1> QED
  BY <1>1, <1>2, <1>3, <1>5, <1>6, <1>7, Moves

\* What a refresh works on, whoever does it.
LEMMA Refreshing ==
    ASSUME Inv, Held, Usable, NEW t \in Threads, op[t].pc \in {"adopt", "request", "publish"}
    PROVE  /\ op[t].id \in Providers /\ op[t].provider \in Provider /\ op[t].provider.auth \in Auth
           /\ op[t].pc # "adopt" => op[t].source \in Auth
           /\ \/ t = "settings" /\ op[t].kind = "discover" /\ Drafting
              \/ t = "refresher" /\ op[t].kind = "refresh"
<1>1. /\ Carries(op[t]) /\ Role(t, op[t]) /\ t # "detached"
  BY Credentials DEF Held, Sound, Usable
<1>2. t \in {"settings", "refresher"} /\ op[t].kind \in {"discover", "refresh"}
  BY <1>1 DEF Threads, Carries
<1>3. t = "settings" => op[t].kind = "discover"
  BY <1>2 DEF Usable, Writes
<1>4. /\ op[t].id \in Providers /\ op[t].provider \in Provider
      /\ op[t].pc # "adopt" => op[t].source \in Auth
  BY <1>1, <1>2 DEF Carries
<1>5. t = "settings" => Drafting
  BY <1>3 DEF Drafting
<1>6. t = "refresher" => op[t].kind = "refresh"
  BY <1>1 DEF Role
<1>7. op[t].provider.auth \in Auth
  BY <1>4, Credentials
<1>8. \/ t = "settings" /\ op[t].kind = "discover" /\ Drafting
      \/ t = "refresher" /\ op[t].kind = "refresh"
  <2>1. CASE t = "settings"
    BY <1>3, <1>5, <2>1
  <2>2. CASE t = "refresher"
    BY <1>6, <2>2
  <2> QED
    BY <1>2, <2>1, <2>2
<1> QED
  BY <1>4, <1>7, <1>8

\* A refresh starts from the saved credential, if it is of the account.
LEMMA AdoptUsable ==
    ASSUME Inv, Inv', Held, Usable, NEW t \in Threads, Adopt(t)
    PROVE  Usable'
<1> DEFINE saved == control.providers[op[t].id]
<1>0. /\ op[t].pc = "adopt" /\ UNCHANGED <<control, oauth, session, crashes, edits>> /\ op[t] \in Operation
      /\ op \in [Threads -> Operation] /\ "refresher" \in Threads /\ "settings" \in Threads
      /\ ~ Stores(t)
  BY DEF Adopt, Inv, TypeOK, Threads, Stores
<1>1. /\ op[t].id \in Providers /\ op[t].provider \in Provider /\ Adopted(t) \in Provider
      /\ Adopted(t) # Absent
      /\ \/ Adopted(t).auth = op[t].provider.auth
         \/ saved # Absent /\ Adopted(t).auth = saved.auth
  <2>1. op[t].provider \in Provider /\ Adopted(t) \in Provider /\ op[t].id \in Providers
    BY <1>0, Refreshing, AdoptedIsTyped
  <2>2. \/ Adopted(t) = op[t].provider
        \/ saved # Absent /\ Adopted(t) = [op[t].provider EXCEPT !.auth = saved.auth]
    BY DEF Adopted
  <2> QED
    BY <2>1, <2>2, SentinelAssumption DEF Provider
<1>2. \A r \in Threads \ {t} : Stores(r) => Adopted(t).auth.token # op[r].provider.auth.token
  BY <1>1, NotSecret, Credentials
<1>3. t = "settings" => op[t].kind = "discover" /\ Drafting /\ Clean(op[t].id, Adopted(t).auth)
  BY <1>0, <1>1, Refreshing, SavedIsClean DEF Usable, DraftsAreClean
<1>4. t = "refresher" => Source(op[t].id, Adopted(t).auth)
  BY <1>0, <1>1 DEF Source
<1>5. CASE ~ needs_refresh(Adopted(t).auth)
  <2>1. Start(t, Returned(t, Adopted(t)))
    BY <1>5 DEF Adopt
  <2>2. CASE t = "settings"
    BY <1>0, <1>1, <1>2, <1>3, <2>1, <2>2, WorkerReturns
  <2>3. CASE t = "refresher"
    BY <1>0, <2>1, <2>3, LoopReturns DEF Returned
  <2> QED
    BY <1>0, <2>2, <2>3, Refreshing
<1>6. CASE needs_refresh(Adopted(t).auth)
  <2>1. PICK o : o = [op[t] EXCEPT !.pc = "request", !.provider = Adopted(t),
                          !.source = Adopted(t).auth, !.saved = saved # Absent]
    OBVIOUS
  <2>2. /\ o.pc = "request" /\ o.provider = Adopted(t) /\ o.source = Adopted(t).auth
        /\ o.saved = (saved # Absent) /\ o.id = op[t].id /\ o.kind = op[t].kind /\ o.batch = op[t].batch
    BY <1>0, <2>1 DEF Operation
  <2>3. Start(t, o)
    BY <1>6, <2>1 DEF Adopt
  <2>4. op'[t] = o /\ o \in Operation /\ \A r \in Threads \ {t} : op'[r] = op[r]
    BY <1>0, <2>3 DEF Start, Inv, TypeOK
  <2>5. Stored(t)' /\ Asked(t)'
    BY <1>0, <2>2, <2>4 DEF Stored, Asked, Stores, Saves
  <2>6. CASE t = "settings"
    <3>1. Writes'
      BY <1>3, <2>2, <2>4, <2>6 DEF Writes
    <3>2. DraftsAreClean'
      <4>1. ~ Outdated /\ Drafting' /\ DraftId = session.id /\ DraftId' = session.id
        BY <1>0, <1>3, <2>2, <2>4, <2>6 DEF Outdated, Drafting, DraftId
      <4>2. op'["refresher"] = op["refresher"]
        BY <1>0, <2>4, <2>6
      <4> QED
        BY <1>0, <1>3, <2>2, <2>4, <2>6, <4>1, <4>2, CleanStays DEF Usable, DraftsAreClean
    <3>3. \A r \in Threads \ {t} : Stores(r) =>
              (session'.credential # Absent => session'.credential.token # op[r].provider.auth.token)
      BY <1>0, NotSecret
    <3> QED
      BY <1>0, <1>2, <2>2, <2>3, <2>5, <2>6, <3>1, <3>2, <3>3, Moves
  <2>7. CASE t = "refresher"
    <3>1. o.provider # Absent /\ o.id \in Providers /\ Source(o.id, o.provider.auth)
      BY <1>1, <1>4, <2>2, <2>7
    <3> QED
      BY <1>0, <2>2, <2>3, <2>4, <2>5, <2>7, <3>1, LoopMoves
  <2> QED
    BY <1>0, <2>6, <2>7, Refreshing
<1> QED
  BY <1>5, <1>6

\* The settings worker ends an operation that has nothing to tell the draft.
LEMMA WorkerEnds ==
    ASSUME Inv, Inv', Held, Usable, Start("settings", Idle),
           UNCHANGED <<control, oauth, session, crashes, edits>>,
           ~ Outdated, DraftId = session.id, ~ Stores("settings")
    PROVE  Usable'
<1>1. /\ "settings" \in Threads /\ op \in [Threads -> Operation] /\ "refresher" \in Threads
      /\ Idle \in Operation /\ Idle.pc = "idle" /\ Idle.kind = "save" /\ Idle.provider = Absent
  BY IdleIsWellFormed DEF Inv, TypeOK, Threads, Idle
<1>2. op'["settings"] = Idle /\ op'["refresher"] = op["refresher"]
  BY <1>1 DEF Start
<1>3. ~ Drafting' /\ DraftId' = session.id
  BY <1>1, <1>2 DEF Drafting, DraftId
<1>4. DraftsAreClean'
  BY <1>2, <1>3, CleanStays DEF Usable, DraftsAreClean
<1>5. Writes'
  BY <1>1, <1>2 DEF Writes
<1> QED
  BY <1>1, <1>4, <1>5, NotSecret, WorkerMoves

\* The token endpoint refuses a credential: it was used up, or the bound is reached.
LEMMA RefusedUsable ==
    ASSUME Inv, Inv', Held, Usable, NothingFails, NEW t \in Threads, RefreshFails(t)
    PROVE  Usable'
<1>1. /\ op[t].pc = "request" /\ Start(t, Failed(t)) /\ ~ Stores(t)
      /\ UNCHANGED <<control, oauth, session, crashes, edits>>
  BY DEF RefreshFails, NothingFails, Stores
<1>2. CASE t = "settings"
  <2>1. ~ Outdated /\ DraftId = session.id
    BY <1>1, <1>2, Refreshing DEF Outdated, DraftId
  <2> QED
    BY <1>1, <1>2, <2>1, WorkerEnds DEF Failed
<1>3. CASE t = "refresher"
  BY <1>1, <1>3, LoopReturns
<1> QED
  BY <1>1, <1>2, <1>3, Refreshing

\* A refreshed credential is stored, unless the saved one has changed.
LEMMA PublishUsable ==
    ASSUME Inv, Inv', Held, Usable, NEW t \in Threads, Publish(t)
    PROVE  Usable'
<1> DEFINE current == control.providers[op[t].id]
<1>0. /\ op[t].pc = "publish" /\ UNCHANGED <<control, oauth, session, crashes, edits>>
      /\ op[t] \in Operation /\ op \in [Threads -> Operation]
      /\ "refresher" \in Threads /\ "settings" \in Threads
  BY DEF Publish, Inv, TypeOK, Threads
<1>1. op[t].id \in Providers /\ op[t].provider \in Provider
  BY <1>0, Refreshing
<1>2. Stores(t)
  BY <1>0, Refreshing DEF Stores
<1>3. CASE Unchanged(t)
  <2>1. PICK o : o = [op[t] EXCEPT !.pc = "providers", !.next = SaveProvider(op[t])]
    OBVIOUS
  <2>2. /\ o.pc = "providers" /\ o.provider = op[t].provider /\ o.source = op[t].source
        /\ o.id = op[t].id /\ o.kind = op[t].kind /\ o.batch = op[t].batch
    BY <1>0, <2>1 DEF Operation
  <2>3. Start(t, o)
    BY <1>3, <2>1 DEF Publish
  <2>4. op'[t] = o /\ o \in Operation /\ \A r \in Threads \ {t} : op'[r] = op[r]
    BY <1>0, <2>3 DEF Start, Inv, TypeOK
  <2>5. Stores(t)' /\ Asked(t)'
    BY <1>2, <2>2, <2>4 DEF Stores, Asked
  <2>6. Stored(t)'
    <3>1. Secret(t, op[t].provider.auth.token) /\ op[t].source.account = op[t].provider.auth.account
      BY <1>2 DEF Usable, Stored
    <3>2. op'["refresher"].batch = op["refresher"].batch
      BY <1>0, <2>2, <2>4
    <3>3. Secret(t, op[t].provider.auth.token)'
      BY <1>0, <2>2, <2>4, <3>1, <3>2 DEF Secret, Saves
    <3> QED
      BY <2>2, <2>4, <3>1, <3>3 DEF Stored
  <2>7. CASE t = "settings"
    <3>1. op[t].kind = "discover" /\ Drafting
      BY <1>0, <2>7, Refreshing
    <3>2. Writes'
      BY <2>2, <2>4, <2>7, <3>1 DEF Writes
    <3>3. DraftsAreClean'
      <4>1. Outdated' /\ Drafting'
        BY <2>2, <2>4, <2>7, <3>1 DEF Outdated, Drafting
      <4>2. op'["refresher"] = op["refresher"]
        BY <1>0, <2>4, <2>7
      <4> QED
        BY <1>0, <2>2, <2>4, <2>7, <3>1, <4>1, <4>2, CleanStays DEF Usable, DraftsAreClean
    <3>4. \A r \in Threads \ {t} : Stores(r) =>
              /\ session'.credential # Absent => session'.credential.token # op[r].provider.auth.token
              /\ o.provider # Absent => o.provider.auth.token # op[r].provider.auth.token
      BY <1>0, <2>2, NotSecret
    <3> QED
      BY <1>0, <2>2, <2>3, <2>5, <2>6, <2>7, <3>2, <3>3, <3>4, Moves
  <2>8. CASE t = "refresher"
    BY <1>0, <2>2, <2>3, <2>4, <2>5, <2>6, <2>8, LoopMoves
  <2> QED
    BY <1>0, <2>7, <2>8, Refreshing
<1>4. CASE ~ Unchanged(t)
  <2>1. Start(t, Returned(t, IF current = Absent THEN op[t].provider ELSE current))
    BY <1>4 DEF Publish
  <2>2. current = Absent \/ current.auth # op[t].source
    BY <1>4 DEF Unchanged
  <2>3. CASE t = "settings"
    <3>1. op[t].kind = "discover" /\ Drafting
      BY <1>0, <2>3, Refreshing
    <3>2. PICK p \in Provider : /\ p = IF current = Absent THEN op[t].provider ELSE current
      BY <1>1, Credentials
    <3>3. Clean(op[t].id, p.auth)
      <4>1. CASE current = Absent
        BY <2>3, <3>1, <3>2, <4>1 DEF Usable, DraftsAreClean
      <4>2. CASE current # Absent
        BY <1>1, <3>2, <4>2, SavedIsClean
      <4> QED
        BY <4>1, <4>2
    <3>4. \A r \in Threads \ {t} : Stores(r) => p.auth.token # op[r].provider.auth.token
      BY <1>1, <3>2, NotSecret, Credentials
    <3> QED
      BY <1>0, <2>1, <2>2, <2>3, <3>1, <3>2, <3>3, <3>4, WorkerReturns
  <2>4. CASE t = "refresher"
    <3>1. Start(t, Failed(t))
      BY <2>1, <2>4 DEF Returned
    <3> QED
      BY <1>0, <2>2, <2>4, <3>1, LoopReturns
  <2> QED
    BY <1>0, <2>3, <2>4, Refreshing
<1> QED
  BY <1>3, <1>4

\* The token endpoint answers: the credential it was asked with is spent, and the new one
\* replaces it or is known to the draft alone.
LEMMA AnswerUsable ==
    ASSUME Inv, Inv', Held, Usable, NothingFails, NEW t \in Threads, Refreshed(t)
    PROVE  Usable'
<1> DEFINE a == op[t].source
           n == oauth.issued + 1
<1>0. /\ op[t].pc = "request" /\ UNCHANGED <<control, session, crashes, edits>>
      /\ oauth' = [issued |-> n, revoked |-> oauth.revoked \cup {a.token}]
      /\ oauth'.issued = n /\ oauth'.revoked = oauth.revoked \cup {a.token}
      /\ op[t] \in Operation /\ op \in [Threads -> Operation] /\ oauth.issued \in Nat
      /\ oauth.issued < MaxToken /\ MaxToken \in Nat
      /\ Threads = {"settings", "refresher", "detached"}
  BY ConstantsAssumption DEF Refreshed, Inv, TypeOK, Threads
<1>1. /\ op[t].id \in Providers /\ op[t].provider \in Provider /\ op[t].provider # Absent
      /\ a \in Auth /\ a = op[t].provider.auth /\ a.token <= oauth.issued
      /\ a.token \in 1 .. MaxToken
      /\ ~ op[t].saved => ~ Saves(op[t].id, a.token)
  BY <1>0, Refreshing, Credentials DEF Usable, Asked
<1>2. PICK provider :
         /\ provider = [op[t].provider EXCEPT
                           !.auth = [account |-> a.account, token |-> n],
                           !.enabled = @ /\ a.account = a.account]
         /\ IF op[t].saved
            THEN Start(t, [op[t] EXCEPT !.pc = "publish", !.provider = provider])
            ELSE Start(t, Returned(t, provider))
  <2>1. \E account \in {op[t].source.account} :
          LET provider == [op[t].provider EXCEPT
                              !.auth = [account |-> account, token |-> oauth.issued + 1],
                              !.enabled = @ /\ account = op[t].source.account]
          IN  IF op[t].saved
              THEN /\ Start(t, [op[t] EXCEPT !.pc = "publish", !.provider = provider])
                   /\ UNCHANGED refresh_lock
              ELSE /\ Start(t, Returned(t, provider))
                   /\ Release(t)
    BY DEF Refreshed, NothingFails
  <2> QED
    BY <2>1, Zenon
<1>3. provider \in Provider /\ provider.auth = [account |-> a.account, token |-> n]
  <2>1. [account |-> a.account, token |-> n] \in Auth
    BY <1>0, <1>1 DEF Auth
  <2> QED
    BY <1>1, <1>2, <2>1 DEF Provider
<1>4. /\ provider.auth \in Auth /\ provider.auth.token = n /\ provider.auth.account = a.account
      /\ provider # Absent
  BY <1>3, Credentials
<1>5. PICK o : /\ o = IF op[t].saved THEN [op[t] EXCEPT !.pc = "publish", !.provider = provider]
                      ELSE Returned(t, provider)
               /\ Start(t, o)
  BY <1>2
<1>6. op'[t] = o /\ \A s \in Threads \ {t} : op'[s] = op[s]
  BY <1>0, <1>5 DEF Start
\* What the thread goes on with.
<1>7. /\ o.pc \in {"publish", "list", "next"}
      /\ op[t].saved <=> o.pc = "publish"
      /\ o.provider \in {provider, Absent}
      /\ o.pc # "next" => o.provider = provider
      /\ o.pc = "publish" => o.id = op[t].id /\ o.source = a /\ o.kind = op[t].kind
      /\ t = "settings" => o.pc # "next" /\ o.id = op[t].id /\ o.kind = "discover"
      /\ t = "refresher" => o.pc # "list" /\ o.batch = op[t].batch
  <2>1. CASE op[t].saved
    BY <1>0, <1>5, <2>1, Refreshing DEF Operation
  <2>2. CASE ~ op[t].saved /\ t = "settings"
    BY <1>0, <1>5, <2>2 DEF Returned, Idle
  <2>3. CASE ~ op[t].saved /\ t = "refresher"
    BY <1>0, <1>5, <2>3 DEF Returned, Failed, Idle
  <2> QED
    BY <1>0, <2>1, <2>2, <2>3, Refreshing
<1>8. \A id, token : Uses(id, token)' => Uses(id, token)
  <2>1. CASE t = "refresher"
    BY <1>0, <1>6, <1>7, <2>1 DEF Uses, Saves, Loops
  <2>2. CASE t = "settings"
    BY <1>0, <1>6, <2>2 DEF Uses, Saves, Loops
  <2> QED
    BY <1>0, <2>1, <2>2, Refreshing
<1>9. Apart'
  BY <1>8 DEF Usable, Apart
<1>10. Matched'
  <2>1. CASE t = "refresher"
    BY <1>0, <1>6, <1>7, <2>1 DEF Usable, Matched, Matches, Saves
  <2>2. CASE t = "settings"
    BY <1>0, <1>6, <2>2 DEF Usable, Matched, Matches, Saves
  <2> QED
    BY <1>0, <2>1, <2>2, Refreshing
<1>11. ASSUME NEW id, NEW auth, Clean(id, auth),
              auth.token = a.token => id \in Providers /\ Covered(id, auth)
       PROVE  Clean(id, auth)'
  BY <1>0, <1>8, <1>11 DEF Clean, Covered
<1>12. DraftsAreClean'
  <2>1. CASE t = "refresher"
    <3>1. op'["settings"] = op["settings"] /\ Uses(op[t].id, a.token)
      BY <1>0, <1>1, <1>6, <2>1 DEF Uses, Loops
    <3>2. ASSUME NEW id, NEW auth, Clean(id, auth) PROVE Clean(id, auth)'
      <4>1. auth.token = a.token => id \in Providers /\ Covered(id, auth)
        BY <1>1, <3>1, <3>2 DEF Clean
      <4> QED
        BY <1>11, <3>2, <4>1
    <3> QED
      BY <1>0, <3>1, <3>2 DEF Usable, DraftsAreClean, Drafting, Outdated, DraftId
  <2>2. CASE t = "settings"
    <3>1. Drafting /\ Drafting' /\ Outdated'
      BY <1>0, <1>6, <1>7, <2>2, Refreshing DEF Drafting, Outdated
    <3>2. Clean(op[t].id, provider.auth)
      BY <1>0, <1>4, NewIsClean
    <3>3. Clean(op[t].id, provider.auth)'
      <4>1. PICK id : id = op[t].id
        OBVIOUS
      <4>2. Clean(id, provider.auth)'
        BY <1>0, <1>1, <1>4, <1>11, <3>2, <4>1
      <4> QED
        BY <1>6, <1>7, <2>2, <4>1, <4>2
    <3>4. /\ op'["settings"].id = op["settings"].id /\ op'["settings"].provider = provider
          /\ op'["settings"].kind = "discover" /\ op["settings"].kind = "discover"
      BY <1>0, <1>6, <1>7, <2>2, Refreshing
    <3> QED
      BY <1>0, <2>2, <3>1, <3>3, <3>4 DEF Usable, DraftsAreClean
  <2> QED
    BY <1>0, <2>1, <2>2, Refreshing
<1>13. ASSUME NEW s \in Threads, Stores(s)'
       PROVE  /\ Secret(s, op[s].provider.auth.token)'
              /\ op'[s].source.account = op'[s].provider.auth.account
  <2>0. \A r \in Threads : op[r].provider # Absent => op[r].provider.auth.token <= oauth.issued
    BY Credentials
  <2>1. CASE s = t
    <3>1. /\ op'[t].provider = provider /\ op'[t].source = a
          /\ n \notin oauth'.revoked
      BY <1>0, <1>1, <1>6, <1>7, <1>13, <2>1 DEF Stores, Usable
    <3>2. session'.credential # Absent => session'.credential.token # n
      BY <1>0, Credentials
    <3>3. \A r \in Threads \ {t} : op'[r].provider # Absent => op'[r].provider.auth.token # n
      BY <1>0, <1>6, <2>0
    <3>4. op'["refresher"].batch = op["refresher"].batch
      BY <1>0, <1>6, <1>7, Refreshing
    <3>5. \A id \in Providers : op'["refresher"].batch[id] # Absent =>
                                    op'["refresher"].batch[id].auth.token # n
      BY <1>0, <3>4, Credentials
    <3>6. PICK m : m = op[s].provider.auth.token' /\ m = n
      BY <1>4, <2>1, <3>1
    <3>7. Secret(s, m)'
      <4>1. \A id \in Providers : ~ Saves(id, m)'
        BY <1>0, <3>6, Credentials DEF Saves
      <4> QED
        BY <2>1, <3>1, <3>2, <3>3, <3>5, <3>6, <4>1 DEF Secret
    <3> QED
      BY <1>4, <2>1, <3>1, <3>6, <3>7
  <2>2. CASE s # t
    <3>1. op'[s] = op[s] /\ Stores(s)
      BY <1>6, <1>13, <2>2 DEF Stores
    <3>2. Secret(s, op[s].provider.auth.token) /\ op[s].source.account = op[s].provider.auth.account
      BY <3>1 DEF Usable, Stored
    <3>3. op[s].provider \in Provider /\ op[s].provider # Absent
      BY <3>1, Credentials DEF Stores, Carries
    <3>4. op[s].provider.auth.token # a.token /\ op[s].provider.auth.token # n
      BY <1>0, <1>1, <2>0, <2>2, <3>2, <3>3, Credentials DEF Secret
    <3>5. op'["refresher"].batch = op["refresher"].batch
      BY <1>0, <1>6, <1>7, Refreshing
    <3>6. \A r \in Threads \ {s} : op'[r].provider # Absent =>
              op'[r].provider.auth.token # op[s].provider.auth.token
      BY <1>4, <1>6, <1>7, <3>2, <3>4 DEF Secret
    <3> QED
      BY <1>0, <3>1, <3>2, <3>4, <3>5, <3>6 DEF Secret, Saves
  <2> QED
    BY <2>1, <2>2
<1>14. \A s \in Threads : Stored(s)' /\ Asked(s)'
  <2>1. ASSUME NEW s \in Threads PROVE Asked(s)'
    <3>1. CASE s = t
      BY <1>6, <1>7, <3>1 DEF Asked
    <3>2. CASE s # t
      BY <1>0, <1>6, <3>2 DEF Usable, Asked, Saves
    <3> QED
      BY <3>1, <3>2
  <2> QED
    BY <1>13, <2>1 DEF Stored
<1>15. Replacing'
  <2>1. SUFFICES ASSUME NEW id \in Providers, control.providers[id] # Absent,
                        control.providers[id].auth.token \in oauth'.revoked
                 PROVE  \E s \in Threads : /\ Stores(s)' /\ op'[s].id = id
                                           /\ op'[s].source = control.providers[id].auth
    BY <1>0 DEF Replacing
  <2>2. CASE control.providers[id].auth.token \in oauth.revoked
    <3>1. PICK s \in Threads : Stores(s) /\ op[s].id = id /\ op[s].source = control.providers[id].auth
      BY <2>1, <2>2 DEF Usable, Replacing
    <3>2. s # t
      BY <1>0, <3>1 DEF Stores
    <3> QED
      BY <1>6, <3>1, <3>2 DEF Stores
  <2>3. CASE control.providers[id].auth.token = a.token
    <3>1. Uses(id, a.token) /\ Saves(id, a.token)
      BY <2>1, <2>3 DEF Uses, Saves
    <3>2. id = op[t].id /\ control.providers[id].auth = a
      <4>1. CASE t = "settings"
        <5>1. Clean(op[t].id, a)
          BY <1>0, <1>1, <4>1, Refreshing DEF Usable, DraftsAreClean
        <5>2. id = op[t].id /\ Covered(op[t].id, a)
          BY <3>1, <5>1 DEF Clean
        <5>3. control.providers[id].auth \in Auth
          BY <2>1, Credentials
        <5> QED
          BY <1>1, <2>3, <5>2, <5>3 DEF Covered, Auth
      <4>2. CASE t = "refresher"
        <5>1. Uses(op[t].id, a.token)
          BY <1>0, <1>1, <4>2 DEF Uses, Loops
        <5>2. id = op[t].id
          BY <1>1, <3>1, <5>1 DEF Usable, Apart
        <5> QED
          BY <1>0, <1>1, <3>1, <4>2, <5>2 DEF Usable, Matched, Matches
      <4> QED
        BY <1>0, <4>1, <4>2, Refreshing
    <3>3. op[t].saved /\ o.pc = "publish"
      BY <1>1, <1>7, <3>1, <3>2
    <3>4. Stores(t)' /\ o.id = id /\ o.source = a
      BY <1>0, <1>6, <1>7, <3>2, <3>3, Refreshing DEF Stores
    <3> QED
      BY <1>6, <3>2, <3>4
  <2> QED
    BY <1>0, <2>1, <2>2, <2>3
<1>16. Writes'
  <2>1. CASE t = "settings"
    BY <1>6, <1>7, <2>1 DEF Writes
  <2>2. CASE t # "settings"
    BY <1>0, <1>6, <2>2 DEF Usable, Writes
  <2> QED
    BY <2>1, <2>2
<1>17. oauth'.revoked \subseteq 1 .. oauth'.issued
  BY <1>0, <1>1 DEF Usable
<1>18. op'["detached"].pc = "idle" /\ crashes' = 0 /\ edits' = 0
  <2>1. t # "detached"
    BY <1>0, Refreshing
  <2> QED
    BY <1>0, <1>6, <2>1 DEF Usable
<1> QED
  BY <1>9, <1>10, <1>12, <1>14, <1>15, <1>16, <1>17, <1>18 DEF Usable

\* The write of a document, by the thread that holds the mutex.
LEMMA Writing ==
    ASSUME Inv, Inv', Held, Usable, NoPreviews, NEW t \in Threads, SaveProviders(t)
    PROVE  /\ op[t].pc = "providers" /\ op'[t].pc = "swap" /\ op[t].id \in Providers
           /\ op'[t].kind = op[t].kind /\ op'[t].id = op[t].id /\ op'[t].provider = op[t].provider
           /\ \A s \in Threads \ {t} : op'[s] = op[s] /\ op[s].pc \notin Committing
           /\ op'["refresher"].batch = op["refresher"].batch
           /\ UNCHANGED <<oauth, session, crashes, edits>>
           /\ control'.providers = op[t].next.providers
           /\ \A id \in Providers \ {op[t].id} : control'.providers[id] = control.providers[id]
           /\ \A id, token : Loops(id, token)' <=> Loops(id, token)
           /\ op'["detached"].pc = "idle" /\ t \in {"settings", "refresher"}
           /\ t = "settings" => op[t].kind \in {"save", "enable", "disable", "remove", "discover"}
           /\ t = "refresher" => op[t].kind = "refresh"
<1>1. /\ op[t].pc = "providers" /\ op[t] \in Operation /\ op \in [Threads -> Operation]
      /\ "refresher" \in Threads /\ "settings" \in Threads /\ "detached" \in Threads
      /\ Sound(t) /\ Carries(op[t]) /\ t # "detached"
      /\ UNCHANGED <<oauth, session, crashes, edits>> /\ control'.providers = op[t].next.providers
      /\ Start(t, [op[t] EXCEPT !.pc = "swap"])
  BY DEF SaveProviders, Inv, TypeOK, WellFormed, Threads, Held, Usable
<1>2. PICK o : o = [op[t] EXCEPT !.pc = "swap"]
  OBVIOUS
<1>3. /\ o.pc = "swap" /\ o.kind = op[t].kind /\ o.id = op[t].id /\ o.provider = op[t].provider
      /\ o.batch = op[t].batch
  BY <1>1, <1>2 DEF Operation
<1>4. op'[t] = o /\ \A s \in Threads \ {t} : op'[s] = op[s]
  BY <1>1, <1>2 DEF Start
<1>5. ASSUME NEW s \in Threads \ {t} PROVE op[s].pc \notin Committing
  BY <1>1 DEF Inv, Exclusive, Committing
<1>6. op[t].id \in Providers /\ \A id \in Providers \ {op[t].id} : control'.providers[id] = control.providers[id]
  BY <1>1 DEF Carries, Sound, Prepared
<1>7. op'["refresher"].batch = op["refresher"].batch
  BY <1>1, <1>3, <1>4
<1>8. \A id, token : Loops(id, token)' <=> Loops(id, token)
  <2>1. CASE t = "refresher"
    BY <1>1, <1>3, <1>4, <2>1 DEF Loops
  <2>2. CASE t # "refresher"
    BY <1>1, <1>4, <2>2 DEF Loops
  <2> QED
    BY <2>1, <2>2
<1>9. t = "settings" => op[t].kind \in {"save", "enable", "disable", "remove", "discover"}
  BY <1>1 DEF Operation, Kinds, NoPreviews, Usable, Writes
<1>10. t = "refresher" => op[t].kind = "refresh"
  BY <1>1 DEF Sound, Role
<1>11. op'["detached"].pc = "idle" /\ t \in {"settings", "refresher"}
  BY <1>1, <1>4 DEF Usable, Threads
<1> QED
  BY <1>1, <1>3, <1>4, <1>5, <1>6, <1>7, <1>8, <1>9, <1>10, <1>11

\* A write keeps what the other threads have to store, if it does not write that.
LEMMA WriteKeeps ==
    ASSUME Inv, Inv', Held, Usable, NoPreviews, NEW t \in Threads, SaveProviders(t),
           LET id == op[t].id IN
           /\ control'.providers[id] # Absent =>
                 \/ control'.providers[id].auth = op[t].provider.auth /\ op[t].provider # Absent
                 \/ control.providers[id] # Absent
                    /\ control'.providers[id].auth = control.providers[id].auth
           \* a token that is asked to be refreshed without being saved is not saved now
           /\ \A s \in Threads \ {t} : op[s].pc = "request" /\ ~ op[s].saved /\ op[s].id = id =>
                                          ~ Saves(id, op[s].source.token)'
    PROVE  \A s \in Threads : Stored(s)' /\ Asked(s)'
<1> SUFFICES ASSUME NEW s \in Threads PROVE Stored(s)' /\ Asked(s)'
  OBVIOUS
<1>1. CASE s = t
  BY <1>1, Writing DEF Stored, Asked, Stores
<1>2. CASE s # t
  <2>1. op'[s] = op[s]
    BY <1>2, Writing
  <2>2. ASSUME Stores(s) PROVE Secret(s, op[s].provider.auth.token)'
    <3>1. Secret(s, op[s].provider.auth.token)
      BY <2>2 DEF Usable, Stored
    <3>2. ASSUME NEW id \in Providers PROVE ~ Saves(id, op[s].provider.auth.token)'
      <4>1. CASE id # op[t].id
        BY <2>1, <3>1, <4>1, Writing DEF Secret, Saves
      <4>2. CASE id = op[t].id
        BY <1>2, <2>1, <3>1, <4>2, Writing DEF Secret, Saves
      <4> QED
        BY <4>1, <4>2
    <3>3. \A r \in Threads \ {s} : op'[r].provider = op[r].provider
      BY Writing
    <3> QED
      BY <2>1, <3>1, <3>2, <3>3, Writing DEF Secret
  <2>3. Stored(s)'
    BY <2>1, <2>2 DEF Usable, Stored, Stores
  <2>4. Asked(s)'
    <3>1. ASSUME op[s].pc = "request", ~ op[s].saved PROVE ~ Saves(op[s].id, op[s].source.token)'
      <4>1. CASE op[s].id = op[t].id
        BY <1>2, <2>1, <3>1, <4>1, Writing
      <4>2. CASE op[s].id # op[t].id
        <5>1. op[s].id \in Providers /\ ~ Saves(op[s].id, op[s].source.token)
          BY <3>1, Refreshing DEF Usable, Asked
        <5> QED
          BY <2>1, <4>2, <5>1, Writing DEF Saves
      <4> QED
        BY <4>1, <4>2
    <3> QED
      BY <2>1, <3>1 DEF Usable, Asked
  <2> QED
    BY <2>3, <2>4
<1> QED
  BY <1>1, <1>2

\* A write after which all is clean leaves all usable.
LEMMA WriteUsable ==
    ASSUME Inv, Inv', Held, Usable, NoPreviews, NEW t \in Threads, SaveProviders(t),
           Apart', Matched', DraftsAreClean', Replacing', \A s \in Threads : Stored(s)' /\ Asked(s)'
    PROVE  Usable'
<1>1. Writes'
  <2>1. CASE t = "settings"
    BY <2>1, Writing DEF Writes
  <2>2. CASE t # "settings"
    <3>1. "settings" \in Threads
      BY DEF Threads
    <3>2. op'["settings"] = op["settings"] /\ op["settings"].pc # "providers"
      BY <2>2, <3>1, Writing DEF Committing
    <3> QED
      BY <3>2 DEF Usable, Writes
  <2> QED
    BY <2>1, <2>2
<1> QED
  BY <1>1, Writing DEF Usable

\* A refreshed credential replaces the one it was made from.
LEMMA StoreUsable ==
    ASSUME Inv, Inv', Held, Usable, NoPreviews, NEW t \in Threads, SaveProviders(t),
           op[t].kind \in {"discover", "refresh"}
    PROVE  Usable'
<1> DEFINE k == op[t].id
<1>0. /\ Threads = {"settings", "refresher", "detached"} /\ op[t].pc = "providers" /\ k \in Providers
      /\ UNCHANGED <<oauth, session>> /\ t \in {"settings", "refresher"} /\ Stores(t)
  BY Writing DEF Stores, Threads
<1>1. PICK n : n = op[t].provider.auth.token
  OBVIOUS
<1>2. /\ op[t].provider \in Provider /\ op[t].provider # Absent
      /\ n \in 1 .. MaxToken /\ n \in Nat
      /\ control.providers[k] # Absent /\ control.providers[k].auth = op[t].source
      /\ control'.providers[k] = op[t].provider
      /\ op[t].source.token < n /\ op[t].source.account = op[t].provider.auth.account
      /\ Secret(t, n)
      /\ op[t].source \in Auth
  <2>1. Carries(op[t]) /\ Prepared(op[t]) /\ Answered(op[t])
    BY Credentials DEF Held, Sound
  <2>2. op[t].provider \in Provider /\ control.providers[k] # Absent
        /\ control.providers[k].auth = op[t].source /\ op[t].next.providers[k] = op[t].provider
        /\ op[t].source.token < n
    BY <1>0, <1>1, <2>1 DEF Carries, Prepared, Answered
  <2>3. Secret(t, n) /\ op[t].source.account = op[t].provider.auth.account
    BY <1>0, <1>1 DEF Usable, Stored
  <2> QED
    BY <1>0, <1>1, <2>2, <2>3, Writing, Credentials
<1>3. /\ \A i \in Providers : \A x : Uses(i, x)' => Uses(i, x) \/ (i = k /\ x = n)
      /\ \A i \in Providers : ~ Uses(i, n)
  <2>1. ASSUME NEW i \in Providers, NEW x, Uses(i, x)' PROVE Uses(i, x) \/ (i = k /\ x = n)
    BY <1>1, <1>2, <2>1, Writing DEF Uses, Saves
  <2>2. ASSUME NEW i \in Providers PROVE ~ Uses(i, n)
    <3>1. ~ Saves(i, n) /\ (op["refresher"].batch[i] # Absent => op["refresher"].batch[i].auth.token # n)
      BY <1>2 DEF Secret
    <3>2. ASSUME op["refresher"].pc \in {"adopt", "request"} PROVE op["refresher"].provider.auth.token # n
      <4>1. t # "refresher" /\ "refresher" \in Threads
        BY <1>0, <3>2
      <4>2. op["refresher"].provider \in Provider
        BY <3>2, <4>1, Refreshing
      <4> QED
        BY <1>2, <4>1, <4>2, SentinelAssumption DEF Secret
    <3> QED
      BY <3>1, <3>2 DEF Uses, Loops
  <2> QED
    BY <2>1, <2>2
<1>4. Apart'
  BY <1>3 DEF Usable, Apart
<1>5. ASSUME NEW id \in Providers, NEW auth, Matches(id, auth), auth.token # n
      PROVE  Matches(id, auth)'
  BY <1>1, <1>2, <1>5, Writing DEF Matches, Saves
<1>6. Matched'
  <2>1. ASSUME NEW id \in Providers, op["refresher"].batch[id] # Absent
        PROVE  Matches(id, op["refresher"].batch[id].auth)'
    <3>1. PICK auth : auth = op["refresher"].batch[id].auth
      OBVIOUS
    <3>2. Matches(id, auth)'
      BY <1>2, <1>5, <2>1, <3>1 DEF Usable, Matched, Secret
    <3> QED
      BY <3>1, <3>2, Writing
  <2>2. ASSUME op'["refresher"].pc \in {"adopt", "request"}
        PROVE  Matches(op["refresher"].id, op["refresher"].provider.auth)'
    <3>1. t # "refresher" /\ op'["refresher"] = op["refresher"] /\ "refresher" \in Threads
      BY <1>0, <2>2, Writing
    <3>2. PICK id, auth : id = op["refresher"].id /\ auth = op["refresher"].provider.auth
      OBVIOUS
    <3>3. id \in Providers /\ op["refresher"].provider # Absent
      BY <2>2, <3>1, <3>2, Refreshing, SentinelAssumption
    <3>4. auth.token # n
      BY <1>2, <3>1, <3>2, <3>3 DEF Secret
    <3>5. Matches(id, auth)'
      BY <1>5, <2>2, <3>1, <3>2, <3>3, <3>4 DEF Usable, Matched
    <3> QED
      BY <3>1, <3>2, <3>5
  <2> QED
    BY <2>1, <2>2, Writing DEF Matched
<1>7. ASSUME NEW id, NEW auth \in Auth, Clean(id, auth), auth.token # n
      PROVE  Clean(id, auth)'
  <2>1. ASSUME id \in Providers, Covered(id, auth) PROVE Covered(id, auth)'
    <3>1. CASE id = k
      <4>1. auth.token \in Nat /\ op[t].source.token \in Nat
        BY <1>2, Credentials
      <4> QED
        BY <1>1, <1>2, <2>1, <3>1, <4>1 DEF Covered
    <3>2. CASE id # k
      BY <2>1, <3>2, Writing DEF Covered
    <3> QED
      BY <3>1, <3>2
  <2> QED
    BY <1>0, <1>3, <1>7, <2>1 DEF Clean
<1>8. DraftsAreClean'
  <2>1. CASE t = "settings"
    <3>1. /\ op[t].kind = "discover" /\ Drafting /\ Drafting' /\ Outdated'
          /\ op'[t].kind = "discover" /\ op'[t].id = k /\ op'[t].provider = op[t].provider
      BY <1>0, <2>1, Writing DEF Drafting, Outdated
    <3>2. session.id = k
      BY <1>2, <2>1, <3>1 DEF Usable, DraftsAreClean
    <3>3. Clean(k, op[t].provider.auth)'
      <4>1. PICK id, auth : id = k /\ auth = op[t].provider.auth
        OBVIOUS
      <4>2. Covered(id, auth)' /\ id \in Providers
        BY <1>0, <1>1, <1>2, <4>1 DEF Covered
      <4>3. auth.token = n /\ \A other \in Providers : Uses(other, auth.token)' => other = id
        BY <1>1, <1>3, <4>1
      <4>4. Clean(id, auth)'
        BY <4>2, <4>3 DEF Clean
      <4> QED
        BY <3>1, <4>1, <4>4
    <3> QED
      BY <1>0, <2>1, <3>1, <3>2, <3>3 DEF DraftsAreClean
  <2>2. CASE t = "refresher"
    <3>1. op'["settings"] = op["settings"] /\ "settings" \in Threads \ {t}
      BY <1>0, <2>2, Writing
    <3>2. session.credential # Absent => session.credential \in Auth /\ session.credential.token # n
      BY <1>2, Credentials DEF Secret
    <3>3. Drafting => /\ op["settings"].provider.auth \in Auth
                      /\ op["settings"].provider.auth.token # n
                      /\ op["settings"].id \in Providers
      <4>1. Carries(op["settings"]) /\ op["settings"] \in Operation
        BY <3>1, Credentials
      <4>2. Drafting => op["settings"].provider \in Provider /\ op["settings"].id \in Providers
        BY <4>1 DEF Drafting, Carries, Usable, Writes
      <4> QED
        BY <1>2, <3>1, <4>2, Credentials DEF Secret
    <3>4. ASSUME NEW id \in Providers PROVE control'.providers[id] = Absent <=> control.providers[id] = Absent
      BY <1>2, Writing
    <3>5. /\ session.credential # Absent /\ ~ Outdated => Clean(DraftId, session.credential)'
          /\ Drafting => Clean(op["settings"].id, op["settings"].provider.auth)'
      <4>1. PICK d, c, id, auth : d = DraftId /\ c = session.credential /\ id = op["settings"].id
                                  /\ auth = op["settings"].provider.auth
        OBVIOUS
      <4>2. session.credential # Absent /\ ~ Outdated => Clean(d, c)'
        BY <1>7, <3>2, <4>1 DEF Usable, DraftsAreClean
      <4>3. Drafting => Clean(id, auth)'
        BY <1>7, <3>3, <4>1 DEF Usable, DraftsAreClean
      <4>4. DraftId' = d
        BY <1>0, <3>1, <4>1 DEF DraftId
      <4> QED
        BY <1>0, <3>1, <4>1, <4>2, <4>3, <4>4
    <3>6. (Drafting' <=> Drafting) /\ (Outdated' <=> Outdated)
      BY <3>1 DEF Drafting, Outdated
    <3> QED
      BY <1>0, <3>1, <3>3, <3>4, <3>5, <3>6 DEF Usable, DraftsAreClean
  <2> QED
    BY <1>0, <2>1, <2>2
<1>9. \A s \in Threads : Stored(s)' /\ Asked(s)'
  <2>1. ASSUME NEW s \in Threads \ {t}, op[s].pc = "request"
        PROVE  ~ Saves(k, op[s].source.token)'
    <3>1. op[s].source = op[s].provider.auth /\ op[s].provider # Absent
      BY <2>1, Refreshing, SentinelAssumption DEF Usable, Asked
    <3>2. op[s].source.token # n
      BY <1>2, <3>1 DEF Secret
    <3> QED
      BY <1>1, <1>2, <2>1, <3>2, Writing DEF Saves
  <2> QED
    BY <1>2, <2>1, WriteKeeps
<1>10. Replacing'
  <2>1. SUFFICES ASSUME NEW id \in Providers, control'.providers[id] # Absent,
                        control'.providers[id].auth.token \in oauth.revoked
                 PROVE  \E s \in Threads : /\ Stores(s)' /\ op'[s].id = id
                                           /\ op'[s].source = control'.providers[id].auth
    BY <1>0 DEF Replacing
  <2>2. id # k
    BY <1>1, <1>2, <2>1 DEF Secret
  <2>3. PICK s \in Threads : Stores(s) /\ op[s].id = id /\ op[s].source = control.providers[id].auth
    BY <2>1, <2>2, Writing DEF Usable, Replacing
  <2>4. s # t /\ op'[s] = op[s]
    BY <2>2, <2>3, Writing
  <2> QED
    BY <2>2, <2>3, <2>4, Writing DEF Stores
<1> QED
  BY <1>4, <1>6, <1>8, <1>9, <1>10, WriteUsable

\* A draft is saved: what it carries replaces nothing newer, and the draft keeps no newer one.
LEMMA SaveUsable ==
    ASSUME Inv, Inv', Held, Latest, Ahead, Usable, NoPreviews, SaveProviders("settings"),
           op["settings"].kind = "save"
    PROVE  Usable'
<1> DEFINE o == op["settings"]
           k == op["settings"].id
           d == op["settings"].provider.auth
<1>0. /\ Threads = {"settings", "refresher", "detached"} /\ "settings" \in Threads
      /\ o.pc = "providers" /\ k \in Providers
      /\ UNCHANGED <<oauth, session>> /\ ~ Stores("settings") /\ Drafting /\ ~ Outdated
      /\ op'["settings"].pc = "swap" /\ op'["settings"].kind = "save" /\ op'["settings"].id = k
      /\ op'["settings"].provider = o.provider /\ op'["refresher"] = op["refresher"]
  BY Writing DEF Threads, Stores, Drafting, Outdated
<1>1. /\ o.provider \in Provider /\ o.provider # Absent /\ d \in Auth
      /\ control'.providers[k] # Absent /\ control'.providers[k].auth = d
      /\ Clean(k, d)
  <2>1. Carries(o) /\ o \in Operation
    BY <1>0, Credentials
  <2>2. o.provider \in Provider
    BY <1>0, <2>1 DEF Carries
  <2> QED
    BY <1>0, <2>2, Writing, Credentials DEF Usable, Writes, DraftsAreClean
\* If the credential is in use it is the saved one, and so if it is spent.
<1>2. ASSUME Covered(k, d) PROVE Saves(k, d.token) /\ control.providers[k].auth = d
  <2>1. control.providers[k] # Absent /\ control.providers[k].auth.account = d.account
        /\ d.token <= control.providers[k].auth.token /\ control.providers[k].auth \in Auth
    BY <1>0, <1>2, Credentials DEF Covered
  <2>2. control.providers[k].auth.token <= d.token
    <3>1. NotOlder(control.providers[k], o.next.providers[k])
      BY <1>0 DEF Latest, Ahead
    <3>2. control'.providers = o.next.providers
      BY <1>0, Writing
    <3> QED
      BY <1>1, <2>1, <3>1, <3>2 DEF NotOlder
  <2>3. control.providers[k].auth.token = d.token
    <3>1. control.providers[k].auth.token \in Nat /\ d.token \in Nat
      BY <1>1, <2>1, ConstantsAssumption DEF Auth
    <3> QED
      BY <2>1, <2>2, <3>1
  <2> QED
    BY <1>1, <2>1, <2>3 DEF Saves, Auth
<1>3. /\ \A i \in Providers : Uses(i, d.token) => i = k /\ control.providers[k].auth = d /\ Saves(k, d.token)
      /\ d.token \in oauth.revoked => control.providers[k].auth = d /\ Saves(k, d.token)
  BY <1>1, <1>2 DEF Clean
<1>4. PICK id, auth, token : id = k /\ auth = d /\ token = d.token
  OBVIOUS
<1>5. \A i \in Providers : \A x : Uses(i, x)' => Uses(i, x) \/ (i = id /\ x = token)
  <2>1. ASSUME NEW i \in Providers, NEW x, Uses(i, x)' PROVE Uses(i, x) \/ (i = id /\ x = token)
    <3>1. Loops(i, x)' <=> Loops(i, x)
      BY <1>0, Writing
    <3>2. CASE i = k
      BY <1>1, <1>4, <2>1, <3>1, <3>2 DEF Uses, Saves
    <3>3. CASE i # k
      <4>1. control'.providers[i] = control.providers[i]
        BY <1>0, <3>3, Writing
      <4> QED
        BY <2>1, <3>1, <4>1 DEF Uses, Saves
    <3> QED
      BY <3>2, <3>3
  <2> QED
    BY <2>1
<1>6. Apart'
  BY <1>3, <1>4, <1>5 DEF Usable, Apart
<1>7. ASSUME NEW i \in Providers, NEW b, Matches(i, b), Loops(i, b.token)
      PROVE  Matches(i, b)'
  <2>1. CASE i = k /\ b.token = d.token
    <3>1. Saves(i, b.token) /\ control.providers[k].auth = d
      BY <1>3, <1>7, <2>1 DEF Uses
    <3> QED
      BY <1>1, <1>7, <2>1, <3>1, Writing DEF Matches
  <2>2. CASE i = k /\ b.token # d.token
    BY <1>1, <2>2 DEF Matches, Saves
  <2>3. CASE i # k
    BY <1>0, <1>7, <2>3, Writing DEF Matches, Saves
  <2> QED
    BY <2>1, <2>2, <2>3
<1>8. Matched'
  <2>1. ASSUME NEW i \in Providers, op["refresher"].batch[i] # Absent
        PROVE  Matches(i, op["refresher"].batch[i].auth)'
    <3>1. PICK b : b = op["refresher"].batch[i].auth
      OBVIOUS
    <3>2. Matches(i, b)'
      BY <1>7, <2>1, <3>1 DEF Usable, Matched, Loops
    <3> QED
      BY <1>0, <3>1, <3>2
  <2>2. ASSUME op["refresher"].pc \in {"adopt", "request"}
        PROVE  Matches(op["refresher"].id, op["refresher"].provider.auth)'
    <3>1. PICK i, b : i = op["refresher"].id /\ b = op["refresher"].provider.auth
      OBVIOUS
    <3>2. i \in Providers
      BY <1>0, <2>2, <3>1, Refreshing
    <3>3. Matches(i, b)'
      BY <1>7, <2>2, <3>1, <3>2 DEF Usable, Matched, Loops
    <3> QED
      BY <1>0, <3>1, <3>3
  <2> QED
    BY <1>0, <2>1, <2>2 DEF Matched
<1>9. DraftsAreClean'
  <2>1. Drafting' /\ DraftId' = id /\ id \in Providers
    BY <1>0, <1>4 DEF Drafting, DraftId
  <2>2. session.id \in {k, Absent} /\ session.id = DraftId
    BY <1>0 DEF Usable, DraftsAreClean, DraftId
  <2>3. Covered(id, auth)' /\ auth = d /\ control'.providers[id].auth = auth /\ auth.token \in Nat
    BY <1>1, <1>4, Credentials DEF Covered
  <2>4. Clean(id, auth)'
    BY <1>3, <1>4, <1>5, <2>1, <2>3 DEF Clean
  <2>5. ASSUME session.credential # Absent
        PROVE  /\ session.credential.account = auth.account /\ session.credential.token <= auth.token
               /\ Clean(id, session.credential)'
    <3>1. PICK c, s : c = session.credential /\ s = session.id
      OBVIOUS
    <3>2. c.account = auth.account /\ c.token <= auth.token /\ Clean(s, c)
      BY <1>0, <1>4, <2>2, <2>5, <3>1 DEF Usable, DraftsAreClean
    <3>3. Covered(id, c)'
      BY <1>1, <1>4, <2>3, <3>2 DEF Covered
    <3>4. ASSUME NEW other \in Providers, Uses(other, c.token)' PROVE other = id
      <4>1. CASE Uses(other, c.token)
        BY <1>4, <2>2, <3>1, <3>2, <4>1, ConstantsAssumption DEF Clean
      <4> QED
        BY <1>5, <3>4, <4>1
    <3>5. Clean(id, c)'
      BY <2>1, <3>3, <3>4 DEF Clean
    <3> QED
      BY <1>0, <3>1, <3>2, <3>5
  <2> QED
    BY <1>0, <1>4, <2>1, <2>2, <2>4, <2>5 DEF DraftsAreClean
<1>10. \A s \in Threads : Stored(s)' /\ Asked(s)'
  <2>1. ASSUME NEW s \in Threads \ {"settings"}, op[s].pc = "request", ~ op[s].saved, op[s].id = k
        PROVE  ~ Saves(k, op[s].source.token)'
    <3>1. s = "refresher"
      BY <1>0, <2>1, Refreshing
    <3>2. /\ op[s].source = op[s].provider.auth /\ ~ Saves(k, op[s].source.token)
          /\ Loops(k, op[s].source.token)
      BY <1>0, <2>1, <3>1 DEF Usable, Asked, Loops
    <3>3. op[s].source.token # d.token
      BY <1>0, <1>3, <3>2 DEF Uses
    <3> QED
      BY <1>0, <1>1, <3>1, <3>3 DEF Saves
  <2> QED
    BY <1>0, <1>1, <2>1, WriteKeeps
<1>11. Replacing'
  <2>1. SUFFICES ASSUME NEW i \in Providers, control'.providers[i] # Absent,
                        control'.providers[i].auth.token \in oauth.revoked
                 PROVE  \E s \in Threads : /\ Stores(s)' /\ op'[s].id = i
                                           /\ op'[s].source = control'.providers[i].auth
    BY <1>0 DEF Replacing
  <2>2. control.providers[i] # Absent /\ control.providers[i].auth = control'.providers[i].auth
    BY <1>0, <1>1, <1>3, <2>1, Writing DEF Saves
  <2>3. PICK s \in Threads : Stores(s) /\ op[s].id = i /\ op[s].source = control.providers[i].auth
    BY <2>1, <2>2 DEF Usable, Replacing
  <2>4. s # "settings" /\ op'[s] = op[s]
    BY <1>0, <2>3, Writing
  <2> QED
    BY <2>2, <2>3, <2>4 DEF Stores
<1> QED
  BY <1>0, <1>6, <1>8, <1>9, <1>10, <1>11, WriteUsable

\* A switch keeps the credential, and a removal leaves none.
LEMMA SwitchUsable ==
    ASSUME Inv, Inv', Held, Usable, NoPreviews, SaveProviders("settings"),
           op["settings"].kind \in {"enable", "disable", "remove"}
    PROVE  Usable'
<1> DEFINE k == op["settings"].id
<1>0. /\ "settings" \in Threads /\ op["settings"].pc = "providers" /\ k \in Providers
      /\ UNCHANGED <<oauth, session>> /\ ~ Stores("settings") /\ ~ Drafting /\ ~ Outdated /\ ~ Drafting'
      /\ op'["settings"].kind = op["settings"].kind /\ op'["settings"].pc = "swap"
      /\ DraftId = session.id /\ DraftId' = session.id
  BY Writing DEF Threads, Stores, Drafting, Outdated, DraftId
<1>1. /\ \A id \in Providers \ {k} : control'.providers[id] = control.providers[id]
      /\ \A id, token : Loops(id, token)' <=> Loops(id, token)
      /\ \A s \in Threads \ {"settings"} : op'[s] = op[s]
  <2>1. "settings" \in Threads
    BY DEF Threads
  <2> QED
    BY <2>1, Writing
<1>2. \/ control'.providers[k] = Absent /\ op["settings"].kind = "remove"
      \/ /\ control'.providers[k] # Absent /\ control.providers[k] # Absent
         /\ control'.providers[k].auth = control.providers[k].auth
         /\ op["settings"].kind # "remove"
  BY <1>0, Writing DEF Usable, Writes
<1>3. ASSUME NEW id \in Providers, control'.providers[id] # Absent
      PROVE  control.providers[id] # Absent /\ control'.providers[id].auth = control.providers[id].auth
  BY <1>2, <1>3, <1>1
<1>4. /\ \A id \in Providers : \A token : Saves(id, token)' => Saves(id, token)
      /\ \A id \in Providers : \A token : Uses(id, token)' => Uses(id, token)
  BY <1>3, <1>1 DEF Saves, Uses
<1>5. Apart'
  BY <1>4 DEF Usable, Apart
<1>6. Matched'
  <2>1. op'["refresher"] = op["refresher"] /\ "refresher" \in Threads
    BY Writing DEF Threads
  <2>2. ASSUME NEW id \in Providers, NEW b, Matches(id, b) PROVE Matches(id, b)'
    BY <1>3, <1>4, <2>2 DEF Matches, Saves
  <2>3. ASSUME NEW id \in Providers, op["refresher"].batch[id] # Absent
        PROVE  Matches(id, op["refresher"].batch[id].auth)'
    <3>1. PICK b : b = op["refresher"].batch[id].auth
      OBVIOUS
    <3> QED
      BY <2>1, <2>2, <2>3, <3>1 DEF Usable, Matched
  <2>4. ASSUME op["refresher"].pc \in {"adopt", "request"}
        PROVE  Matches(op["refresher"].id, op["refresher"].provider.auth)'
    <3>1. PICK id, b : id = op["refresher"].id /\ b = op["refresher"].provider.auth
      OBVIOUS
    <3>2. id \in Providers
      BY <2>1, <2>4, <3>1, Refreshing
    <3> QED
      BY <2>1, <2>2, <2>4, <3>1, <3>2 DEF Usable, Matched
  <2> QED
    BY <2>1, <2>3, <2>4 DEF Matched
<1>7. DraftsAreClean'
  <2>1. CASE op["settings"].kind = "remove"
    BY <1>0, <2>1 DEF DraftsAreClean, Outdated
  <2>2. CASE op["settings"].kind # "remove"
    <3>1. \A id \in Providers : control'.providers[id] = Absent <=> control.providers[id] = Absent
      BY <1>2, <1>1, <2>2
    <3>2. ASSUME session.credential # Absent PROVE Clean(session.id, session.credential)'
      <4>1. PICK c, id : c = session.credential /\ id = session.id
        OBVIOUS
      <4>2. Clean(id, c)
        BY <1>0, <3>2, <4>1 DEF Usable, DraftsAreClean
      <4>3. ASSUME id \in Providers, Covered(id, c) PROVE Covered(id, c)'
        BY <1>3, <3>1, <4>3 DEF Covered
      <4>4. Clean(id, c)'
        BY <1>0, <1>4, <4>2, <4>3 DEF Clean
      <4> QED
        BY <1>0, <4>1, <4>4
    <3> QED
      BY <1>0, <3>2 DEF DraftsAreClean
  <2> QED
    BY <2>1, <2>2
<1>8. \A s \in Threads : Stored(s)' /\ Asked(s)'
  <2>1. ASSUME NEW s \in Threads \ {"settings"}, op[s].pc = "request", ~ op[s].saved, op[s].id = k
        PROVE  ~ Saves(k, op[s].source.token)'
    <3>1. PICK token : token = op[s].source.token
      OBVIOUS
    <3>2. ~ Saves(k, token) /\ op'[s] = op[s]
      BY <1>1, <2>1, <3>1 DEF Usable, Asked
    <3>3. op'["settings"].id = k /\ k \in Providers
      BY <1>0, Writing
    <3> QED
      BY <1>3, <3>1, <3>2, <3>3 DEF Saves
  <2> QED
    BY <1>0, <1>3, <2>1, WriteKeeps
<1>9. Replacing'
  <2>1. SUFFICES ASSUME NEW id \in Providers, control'.providers[id] # Absent,
                        control'.providers[id].auth.token \in oauth.revoked
                 PROVE  \E s \in Threads : /\ Stores(s)' /\ op'[s].id = id
                                           /\ op'[s].source = control'.providers[id].auth
    BY <1>0 DEF Replacing
  <2>2. PICK s \in Threads : Stores(s) /\ op[s].id = id /\ op[s].source = control.providers[id].auth
    BY <1>3, <2>1 DEF Usable, Replacing
  <2>3. s # "settings" /\ op'[s] = op[s]
    BY <1>0, <2>2, Writing
  <2> QED
    BY <1>3, <2>1, <2>2, <2>3 DEF Stores
<1> QED
  BY <1>0, <1>5, <1>6, <1>7, <1>8, <1>9, WriteUsable

\* The end of the critical section: the loop goes on, and the settings worker lists the models of
\* the Provider it stored, or leaves the draft that was saved, switched or removed.
LEMMA ReloadUsable ==
    ASSUME Inv, Inv', Held, Usable, NoPreviews, NEW t \in Threads, commit_reload(t)
    PROVE  Usable'
<1>0. /\ op[t].pc = "swap" /\ UNCHANGED <<control, oauth, crashes, edits>> /\ ~ Stores(t)
      /\ "settings" \in Threads /\ t \in {"settings", "refresher"}
      /\ Role(t, op[t]) /\ Carries(op[t]) /\ op[t] \in Operation
      /\ session \in Sessions /\ op \in [Threads -> Operation]
  BY Credentials DEF commit_reload, Threads, Stores, Usable, Held, Sound, Inv, TypeOK
<1>1. CASE t = "refresher"
  <2>1. op[t].kind = "refresh"
    BY <1>0, <1>1 DEF Role
  <2>2. Start("refresher", Failed("refresher")) /\ UNCHANGED session
    BY <1>0, <1>1, <2>1 DEF commit_reload, Returned
  <2> QED
    BY <1>0, <1>1, <2>2, LoopReturns
<1>2. CASE t = "settings" /\ op[t].kind = "discover"
  <2>1. Start("settings", Returned("settings", op[t].provider)) /\ UNCHANGED session
    BY <1>0, <1>2 DEF commit_reload
  <2>2. op[t].provider \in Provider /\ op[t].provider # Absent /\ Drafting
    BY <1>0, <1>2, SentinelAssumption DEF Carries, Drafting
  <2>3. Clean(op["settings"].id, op[t].provider.auth)
    BY <1>2, <2>2 DEF Usable, DraftsAreClean
  <2>4. \A s \in Threads \ {"settings"} : Stores(s) =>
            op[t].provider.auth.token # op[s].provider.auth.token
    BY <1>0, <1>2, <2>2, NotSecret
  <2> QED
    BY <1>0, <1>2, <2>1, <2>2, <2>3, <2>4, WorkerReturns
<1>3. CASE t = "settings" /\ op[t].kind \in {"save", "remove"}
  <2>1. /\ Start("settings", Idle)
        /\ session' = IF op[t].kind = "save" THEN [session EXCEPT !.id = op[t].id]
                      ELSE [session EXCEPT !.id = Absent, !.credential = Absent]
    BY <1>0, <1>3 DEF commit_reload
  <2>2. /\ op[t].kind = "save" => session'.id = op[t].id /\ session'.credential = session.credential
        /\ op[t].kind = "remove" => session'.credential = Absent
    BY <1>0, <2>1 DEF Sessions
  <2>3. /\ Idle \in Operation /\ Idle.pc = "idle" /\ Idle.provider = Absent /\ Idle.kind = "save"
        /\ op'["settings"] = Idle /\ op'["refresher"] = op["refresher"]
    BY <1>0, <2>1, IdleIsWellFormed DEF Start, Idle, Threads
  <2>4. DraftsAreClean'
    <3>1. ~ Drafting' /\ DraftId' = session'.id
      BY <2>3 DEF Drafting, DraftId
    <3>2. CASE op[t].kind = "save"
      <4>1. ~ Outdated /\ DraftId = op[t].id
        BY <1>0, <1>3, <3>2 DEF Outdated, DraftId
      <4>2. PICK id, auth : id = op[t].id /\ auth = session.credential
        OBVIOUS
      <4>3. auth # Absent => Clean(id, auth)'
        BY <1>0, <2>3, <4>1, <4>2, CleanStays DEF Usable, DraftsAreClean
      <4> QED
        BY <2>2, <3>1, <3>2, <4>2, <4>3 DEF DraftsAreClean
    <3>3. CASE op[t].kind = "remove"
      BY <2>2, <3>1, <3>3 DEF DraftsAreClean
    <3> QED
      BY <1>3, <3>2, <3>3
  <2>5. Writes'
    BY <2>3 DEF Writes
  <2>6. \A s \in Threads \ {"settings"} : Stores(s) => (session'.credential # Absent =>
            session'.credential.token # op[s].provider.auth.token)
    BY <1>0, <1>3, <2>2, NotSecret
  <2> QED
    BY <1>0, <1>3, <2>1, <2>3, <2>4, <2>5, <2>6, WorkerMoves
<1>4. CASE t = "settings" /\ op[t].kind \in {"enable", "disable"}
  <2>1. Start("settings", Idle) /\ UNCHANGED session
    BY <1>0, <1>4 DEF commit_reload
  <2>2. ~ Outdated /\ DraftId = session.id
    BY <1>4 DEF Outdated, DraftId
  <2> QED
    BY <1>0, <1>4, <2>1, <2>2, WorkerEnds
<1> QED
  BY <1>0, <1>1, <1>2, <1>3, <1>4 DEF NoPreviews, Usable, Writes, Operation, Kinds

\* What cannot happen: a write that fails, a cancellation, an edit of the files, a crash.
LEMMA NothingElse ==
    ASSUME Inv, Held, Agrees, Usable, NothingFails, NoPreviews
    PROVE  /\ ~ Cancel /\ ~ Crash
           /\ \A id \in Providers : ~ ExternalEdit(id)
           /\ \A t \in Threads : ~ SaveCache(t) /\ ~ SaveFails(t) /\ ~ PublishFails(t)
<1>1. ~ Cancel /\ ~ Crash /\ \A id \in Providers : ~ ExternalEdit(id)
  BY DEF NothingFails, Usable, Cancel, Crash, ExternalEdit
<1>2. ASSUME NEW t \in Threads PROVE op[t].pc # "cache"
  <2>1. Role(t, op[t]) /\ t \in {"settings", "refresher", "detached"}
    BY DEF Held, Sound, Threads
  <2> QED
    BY <2>1 DEF Role, Usable, NoPreviews
<1>3. ASSUME NEW t \in Threads, op[t].pc = "providers" PROVE HashMatches(t)
  BY <1>3 DEF Agrees, Usable, HashMatches
<1>4. ASSUME NEW t \in Threads PROVE ~ SaveCache(t) /\ ~ SaveFails(t) /\ ~ PublishFails(t)
  BY <1>2, <1>3 DEF NothingFails, SaveCache, SaveFails, PublishFails
<1> QED
  BY <1>1, <1>4

\* At the start every credential is saved once, none is spent, and nobody works.
LEMMA UsableStarts == ASSUME Init, Inv PROVE Usable
<1>1. /\ \A t \in Threads : op[t] = Idle
      /\ Idle.pc = "idle" /\ Idle.batch = NoProviders /\ Idle.kind = "save"
      /\ oauth.revoked = {} /\ session.credential = Absent /\ crashes = 0 /\ edits = 0
      /\ "settings" \in Threads /\ "refresher" \in Threads /\ "detached" \in Threads
  BY DEF Init, Idle, Threads, Sessions
<1>2. \A id \in Providers : \A token : Uses(id, token) => Saves(id, token)
  BY <1>1 DEF Uses, Loops, NoProviders
<1>3. ASSUME NEW p \in Providers, NEW q \in Providers, p # q, control.providers[p] # Absent,
             control.providers[q] # Absent
      PROVE  control.providers[p].auth.token # control.providers[q].auth.token
  <2>1. control.providers = AsDocument(disk.providers)
    BY DEF Init, load
  <2>2. disk.providers # Missing
    BY <1>3, <2>1 DEF AsDocument, NoProviders
  <2> QED
    BY <1>3, <2>1, <2>2 DEF Init, AsDocument
<1>4. Apart
  BY <1>2, <1>3 DEF Apart, Saves
<1>5. Matched
  BY <1>1 DEF Matched, NoProviders
<1>6. DraftsAreClean /\ Writes /\ Replacing
  BY <1>1 DEF DraftsAreClean, Drafting, Writes, Replacing
<1>7. \A t \in Threads : Stored(t) /\ Asked(t)
  BY <1>1 DEF Stored, Stores, Asked
<1> QED
  BY <1>1, <1>4, <1>5, <1>6, <1>7 DEF Usable

\* Every step keeps Usable.
LEMMA UsableKept ==
    ASSUME Inv, Held, Latest, Ahead, Agrees, Usable, NothingFails, NoPreviews, NoPreviews', [Next]_vars
    PROVE  Usable'
<1>0. Inv'
  BY NextInv
<1>1. CASE UNCHANGED vars
  <2>1. op' = op /\ UNCHANGED <<control, oauth, session, crashes, edits>>
    BY <1>1 DEF vars
  <2>2. /\ \A id, token : Uses(id, token)' <=> Uses(id, token)
        /\ \A id, token : Saves(id, token)' <=> Saves(id, token)
        /\ \A id, auth : Matches(id, auth)' <=> Matches(id, auth)
    BY <2>1 DEF Uses, Saves, Loops, Matches
  <2>3. \A id, auth : Clean(id, auth)' <=> Clean(id, auth)
    BY <2>1, CleanStays
  <2>4. Apart'
    BY <2>2 DEF Usable, Apart
  <2>5. Matched'
    BY <2>1, <2>2 DEF Usable, Matched
  <2>6. DraftsAreClean'
    <3>1. Drafting' = Drafting /\ Outdated' = Outdated /\ DraftId' = DraftId
      BY <2>1 DEF Drafting, Outdated, DraftId
    <3> QED
      BY <2>1, <2>3, <3>1 DEF Usable, DraftsAreClean
  <2>7. Writes'
    BY <2>1 DEF Usable, Writes
  <2>8. \A t : Stores(t)' <=> Stores(t)
    BY <2>1 DEF Stores
  <2>9. Replacing'
    BY <2>1, <2>8 DEF Usable, Replacing
  <2>10. ASSUME NEW t \in Threads PROVE Stored(t)' /\ Asked(t)'
    <3>1. Secret(t, op[t].provider.auth.token) => Secret(t, op[t].provider.auth.token)'
      BY <2>1, <2>2 DEF Secret
    <3>2. Stored(t) /\ Asked(t)
      BY DEF Usable
    <3>3. Stored(t)'
      BY <2>1, <2>8, <3>1, <3>2 DEF Stored
    <3>4. Asked(t)'
      BY <2>1, <2>2, <3>2 DEF Asked
    <3> QED
      BY <3>3, <3>4
  <2> QED
    BY <2>1, <2>4, <2>5, <2>6, <2>7, <2>9, <2>10 DEF Usable
<1>2. ASSUME NEW t \in Threads, SaveProviders(t) PROVE Usable'
  <2>1. op[t].pc = "providers" /\ t \in {"settings", "refresher"} /\ op[t].kind \in Kinds
        /\ Role(t, op[t])
    BY <1>2 DEF SaveProviders, Usable, Threads, Inv, TypeOK, Operation, Held, Sound
  <2>2. CASE op[t].kind \in {"discover", "refresh"}
    BY <1>0, <1>2, <2>2, StoreUsable
  <2>3. CASE op[t].kind = "save"
    BY <1>0, <1>2, <2>1, <2>3, SaveUsable DEF Role
  <2>4. CASE op[t].kind \in {"enable", "disable", "remove"}
    BY <1>0, <1>2, <2>1, <2>4, SwitchUsable DEF Role
  <2>5. op[t].kind # "commit_refresh"
    BY <2>1 DEF Role, NoPreviews
  <2> QED
    BY <2>1, <2>2, <2>3, <2>4, <2>5 DEF Kinds
<1>3. ASSUME NEW t \in Threads, commit_reload(t) PROVE Usable'
  BY <1>0, <1>3, ReloadUsable
<1>4. ASSUME NEW t \in Threads, Refresh(t) PROVE Usable'
  BY <1>0, <1>4, AdoptUsable, AnswerUsable, RefusedUsable, PublishUsable, NothingElse DEF Refresh
<1>5. CASE Begin \/ Refuse \/ Listed
  BY <1>0, <1>5, WorkUsable
<1>6. CASE refresh_saved_providers \/ NextInBatch
  BY <1>0, <1>6, LoopUsable
<1>7. CASE \/ \E kind \in {"save", "commit_refresh", "discover"} : Compile(kind)
           \/ \E kind \in {"enable", "disable", "remove"} : Queue(kind)
  BY <1>0, <1>7, StartUsable
<1>8. CASE \/ \E id \in Providers : Open(id)
           \/ \E config \in Configs, models \in Models, forget \in BOOLEAN :
                 EditDraft(config, models, forget)
           \/ clear_draft \/ Expire
           \/ \E account \in Accounts : Login(account)
  BY <1>8, WindowUsable
<1> QED
  BY <1>1, <1>2, <1>3, <1>4, <1>5, <1>6, <1>7, <1>8, NothingElse DEF Next, User, Commit

-------------------------------------------------------------------------------

\* Both invariants hold at every moment.
LEMMA HeldAlways == Spec => [](Inv /\ Held)
  BY InitInv, NextInv, HeldStarts, HeldKept, PTL DEF Spec

\* Only the settings worker adds a Provider: a refresh never stores again one that was removed
\* while the token endpoint was asked, with every failure, cancellation, edit and crash.
THEOREM RemovedStays == Spec => RemovedStaysRemoved
<1>1. Inv /\ Held /\ [Next]_vars =>
        [\A id \in Providers :
          SavedBefore(id) = Absent /\ SavedAfter(id) # Absent =>
              op["settings"].pc = "providers" /\ op["settings"].id = id]_vars
  BY StepKeepsRemoved
<1> QED
  BY <1>1, HeldAlways, PTL DEF Spec, RemovedStaysRemoved

\* An enabled Provider changes account only when the settings worker saves it: an answer for the
\* account before, or for another one, does not undo a login.
THEOREM LoginKept == Spec => LoginIsKept
<1>1. Inv /\ Held /\ [Next]_vars =>
        [\A id \in Providers :
          /\ SavedBefore(id) # Absent /\ SavedAfter(id) # Absent
          /\ SavedBefore(id).auth.account # SavedAfter(id).auth.account
          /\ SavedAfter(id).enabled
          => op["settings"].pc = "providers" /\ op["settings"].id = id]_vars
  BY StepKeepsLogin
<1> QED
  BY <1>1, HeldAlways, PTL DEF Spec, LoginIsKept

\* A saved credential is replaced by an older one of its account in one case only: the settings
\* worker saves a draft that a refresh of the same Provider overtook after its compilation.
\* With every failure, cancellation, external edit and crash.
THEOREM OnlyOvertakenRollBack == Spec => OnlyOvertakenSavesRollBack
<1>1. Init => Latest
  BY IdleIsWellFormed DEF Init, Latest, SavePending, Threads
<1>2. Inv /\ Held /\ Latest /\ [Next]_vars => Latest'
  BY LatestKept
<1>3. Inv /\ Held /\ Latest /\ [Next]_vars =>
        [\A id \in Providers : RollsBack(id) =>
          /\ overtaken
          /\ op["settings"].pc = "providers" /\ op["settings"].id = id
          /\ op["settings"].kind \in {"save", "commit_refresh"}]_vars
  BY StepKeepsNewest DEF Saving
<1> QED
  BY <1>1, <1>2, <1>3, HeldAlways, PTL DEF Spec, OnlyOvertakenSavesRollBack

\* When no rename fails after it took effect, the hashes of the control plane are those of the
\* files whenever nobody edited them: also after a commit that wrote the cache only, and after a
\* crash at any step.
THEOREM DiskFollows == ASSUME "sync" \notin Faults PROVE Spec => []DiskFollowsControl
<1>1. Init => Agrees
  BY IdleIsWellFormed DEF Init, load, Agrees, HalfWritten
<1>2. Inv /\ Held /\ Agrees /\ [Next]_vars => Agrees'
  BY AgreesKept
<1>3. Inv /\ Agrees => DiskFollowsControl
  <2> SUFFICES ASSUME Inv, Agrees, lock = Nobody, edits = 0
               PROVE  disk.providers = control.provider_sha256 /\ disk.cache = control.cache_sha256
    BY DEF DiskFollowsControl
  <2>1. \A t \in Threads : ~ HalfWritten(t)
    BY NobodyAssumption DEF Inv, Exclusive, HalfWritten, Committing
  <2> QED
    BY <2>1 DEF Agrees
<1> QED
  BY <1>1, <1>2, <1>3, HeldAlways, PTL DEF Spec

\* While no operation fails and nobody else writes the files, no answer of the token endpoint is
\* lost: a saved credential that is spent is about to be replaced, with the loop, discoveries,
\* saves, switches and removals of any number of Providers in every order.
THEOREM SavedIsUsable ==
    ASSUME NothingFails PROVE Spec /\ []NoPreviews => []SavedCredentialUsable
<1>1. Init => Latest
  BY IdleIsWellFormed DEF Init, Latest, SavePending, Threads
<1>2. Inv /\ Held /\ Latest /\ [Next]_vars => Latest'
  BY LatestKept
<1>8. Init => Ahead
  BY IdleIsWellFormed DEF Init, Ahead, SavePending, Threads
<1>9. Inv /\ Held /\ Ahead /\ [Next]_vars => Ahead'
  BY AheadKept DEF NothingFails
<1>3. Init => Agrees
  BY IdleIsWellFormed DEF Init, load, Agrees, HalfWritten
<1>4. Inv /\ Held /\ Agrees /\ [Next]_vars => Agrees'
  BY AgreesKept DEF NothingFails
<1>5. Init /\ Inv => Usable
  BY UsableStarts
<1>6. Inv /\ Held /\ Latest /\ Ahead /\ Agrees /\ Usable /\ NoPreviews /\ NoPreviews' /\ [Next]_vars
        => Usable'
  BY UsableKept
<1>7. Inv /\ Usable => SavedCredentialUsable
  <2> SUFFICES ASSUME Inv, Usable, NEW id \in Providers, lock = Nobody,
                      control.providers[id] # Absent,
                      control.providers[id].auth.token \in oauth.revoked
               PROVE  \E t \in Threads : /\ op[t].pc = "publish" /\ op[t].id = id
                                         /\ op[t].source = control.providers[id].auth
    BY DEF SavedCredentialUsable
  <2>1. PICK t \in Threads :
          Stores(t) /\ op[t].id = id /\ op[t].source = control.providers[id].auth
    BY DEF Usable, Replacing
  <2>2. op[t].pc # "providers"
    BY NobodyAssumption DEF Inv, Exclusive, Committing
  <2> QED
    BY <2>1, <2>2 DEF Stores
<1> QED
  BY <1>1, <1>2, <1>3, <1>4, <1>5, <1>6, <1>7, <1>8, <1>9, InitInv, HeldAlways, PTL DEF Spec

\* At every moment of every run the documents, hashes, operations and credentials of the control
\* plane are typed: no operation is ever without the Provider its program counter uses.
THEOREM TypeCorrect == Spec => []TypeOK
<1>1. Inv => TypeOK
  BY DEF Inv
<1> QED
  BY <1>1, InitInv, NextInv, PTL DEF Spec

\* Whenever the mutex is free the egress routes by exactly the documents the control plane holds,
\* with every failure, cancellation, external edit and crash the code meets.
THEOREM EgressFollows == Spec => []EgressFollowsControl
  BY InitInv, NextInv, InvImpliesEgress, PTL DEF Spec
=============================================================================
