---------------------------- MODULE ModelCatalog ----------------------------
(***************************************************************************)
(* The models of the configured Providers, from the Provider's model list  *)
(* to the request they answer: manual_refresh.rs and model_registry.rs     *)
(* (what a refresh keeps of a model), settings_state.rs (the form and the  *)
(* compilation of a Provider), snapshot.rs, compiler.rs and state.rs (what *)
(* the router publishes), server.rs, ws_proxy.rs and ws_http_runner.rs     *)
(* (which upstream a request goes to).                                     *)
(*                                                                         *)
(* One settings form is filled, refreshed and saved while Codex lists      *)
(* models, asks for them and holds a WebSocket session open.               *)
(*                                                                         *)
(* A model has two of its facts here: "name", which the registry may       *)
(* suggest when nobody gave it, and "window", which it may suggest when    *)
(* there is no value. The reasoning levels are treated like the window;    *)
(* the two tool flags like the window without a registry.                  *)
(***************************************************************************)
EXTENDS Naturals, Sequences, Functions

CONSTANTS
  None,          \* nothing, whatever could be there
  Ids,           \* Provider ids in the order compile_instance tries them: a sequence
  Models,        \* the upstream model ids
  Accounts,      \* the upstream accounts a Provider may stand for
  Registered,    \* those the registry knows a Provider of
  Known,         \* what the registry may say of a fact
  Told,          \* what a Provider may report of a fact
  Wished,        \* what the user may enter for a fact
  Official,      \* the names of official models: none has a slash
  OfficialLists, \* the lists the official endpoint may answer with
  Budgets        \* bound: what one run may bring; records of numbers of refreshes,
                 \* changes to the form, openings, saves, removals, listings, requests

(* Functions: the empty one, those of some of the keys, f with v for x, and *)
(* one laid over another.                                                  *)
Empty == [x \in {} |-> None]
IsMap(f, keys, values) == DOMAIN f \subseteq keys /\ f \in [DOMAIN f -> values]
Maps(keys, values) == UNION {[ks -> values] : ks \in SUBSET keys}
Put(f, x, v) == [y \in DOMAIN f \cup {x} |-> IF y = x THEN v ELSE f[y]]
Over(new, old) == [y \in DOMAIN new \cup DOMAIN old |-> IF y \in DOMAIN new THEN new[y] ELSE old[y]]

NoForm == [id |-> None, account |-> None, models |-> Empty]
IdSet == Range(Ids)
Facts == {"name", "window"}
Slug(id, m) == <<id, m>>
Slashed(name) == Len(name) = 2

(* What the router serves, and what the settings keep of a model.          *)
Runtimes == [routes: SUBSET (IdSet \X Models), providers: Maps(IdSet, Accounts),
             overlay: SUBSET (IdSet \X Models)]
Sources == {"user", "provider", "registry"}
Values == Known \cup Told \cup Wished
ModelSpecs == [enabled: BOOLEAN, value: [Facts -> Values], source: [Facts -> Sources \cup {None}]]
Wish == [enabled: BOOLEAN, said: Maps(Facts, Wished)]

(* None is none of the things it stands in for, and no account has the     *)
(* name of another answer.                                                 *)
ASSUME ModelCatalogAssumption ==
  /\ Ids \in Seq(STRING) /\ "" \notin IdSet
  /\ \A name \in Official : Len(name) = 1
  /\ Registered \subseteq Accounts
  /\ None \in Told \cap Wished /\ None \notin Known
  /\ None \notin IdSet \cup {""} \cup Sources \cup Runtimes
  /\ Accounts \cap {"official", "refused"} = {}

VARIABLES
  providers,    \* the saved document: for each id, [enabled, account, models]
  form,         \* session.draft
  registry,     \* the registry's cache on disk, None when there is none
  runtime,      \* what the router serves: [routes, providers, overlay]
  publication,  \* a prepared reload whose document is saved, None otherwise
  listing,      \* the snapshot a request for the model list holds, None otherwise
  listed,       \* the names Codex listed last, with the account shown under each
  socket,       \* Codex's WebSocket session: [runtime, account, id, asked],
                \* None otherwise; asked: the names it was answered for
  answer,       \* the request of the last step: [name, by, via], None when there was none
  removed,      \* accounts whose Provider was removed
  wishes,       \* what the user decided of each model: of the form and of each saved id
  budget        \* what this run may still bring

settings == <<providers, form, registry, wishes, removed>>
egress == <<runtime, publication>>
codex == <<listing, listed, socket, answer>>
vars == <<settings, egress, codex, budget>>

(* A model nobody decided anything about, and what was decided of it.      *)
NoWish == [enabled |-> FALSE, said |-> Empty]
Wishes(of, m) == IF m \in DOMAIN of THEN of[m] ELSE NoWish
Say(wish, f, v) == [wish EXCEPT !.said = Put(@, f, v)]

Spend(kind) == budget[kind] > 0 /\ budget' = [budget EXCEPT ![kind] = @ - 1]

-----------------------------------------------------------------------------
(* A model: its switch and, for each fact, a value (None: absent, or for a *)
(* name the model's own id) and where it comes from.                       *)
ModelSpec(on, values, sources) == [enabled |-> on, value |-> values, source |-> sources]
Blank == [f \in Facts |-> None]

(* Mutant: no value counts as the user's.                                  *)
NeverConfirmed(old, f) == FALSE
is_user_confirmed(old, f) == old.source[f] = "user"

(* merge_model: the user's values stay, the others become what the         *)
(* Provider reports now, absent values included; a new model is off.       *)
choose(report, old, f) ==
  IF is_user_confirmed(old, f) THEN [value |-> old.value[f], source |-> "user"]
  ELSE IF report[f] # None     THEN [value |-> report[f], source |-> "provider"]
                               ELSE [value |-> None, source |-> None]
merge_model(report, old) ==
  ModelSpec(old.enabled, [f \in Facts |-> choose(report, old, f).value],
                     [f \in Facts |-> choose(report, old, f).source])

build_refresh_preview(reports, models) ==
  [m \in DOMAIN reports |->
     merge_model(reports[m],
                 IF m \in DOMAIN models THEN models[m] ELSE ModelSpec(FALSE, Blank, Blank))]

(* apply_model_suggestion: the name when it has no source, the window when *)
(* it has no value, wherever the absence comes from.                       *)
Missing(model, f) == IF f = "name" THEN model.source[f] = None ELSE model.value[f] = None
apply_model_suggestion(model, known) ==
  ModelSpec(model.enabled,
        [f \in Facts |-> IF Missing(model, f) THEN known ELSE model.value[f]],
        [f \in Facts |-> IF Missing(model, f) THEN "registry" ELSE model.source[f]])
apply_registry_suggestions(preview, known) ==
  [m \in DOMAIN preview |-> apply_model_suggestion(preview[m], known)]

-----------------------------------------------------------------------------
(* compile_model: a value that differs from the saved one and has no       *)
(* source is taken for the user's.                                         *)
compile_model(model, saved) ==
  [model EXCEPT !.source = [f \in Facts |->
     IF @[f] = None /\ saved.value[f] # model.value[f] THEN "user" ELSE @[f]]]

SavedModel(id, m, model) ==
  IF id \in DOMAIN providers /\ m \in DOMAIN providers[id].models
  THEN providers[id].models[m]
  ELSE ModelSpec(FALSE, [Blank EXCEPT !["name"] = model.value["name"]], Blank)

(* Mutant: a new Provider is called by its preset whether or not the id is *)
(* taken.                                                                  *)
PresetId(taken) == Ids[1]
NewId(taken) ==
  Ids[CHOOSE i \in DOMAIN Ids : Ids[i] \notin taken /\ \A j \in 1..(i - 1) : Ids[j] \in taken]

(* compile_instance.                                                       *)
FormId == IF form.id = "" THEN NewId(DOMAIN providers) ELSE form.id
compile_instance ==
  [enabled |-> IF FormId \in DOMAIN providers THEN providers[FormId].enabled ELSE TRUE,
   account |-> form.account,
   models  |-> [m \in DOMAIN form.models |->
                  compile_model(form.models[m], SavedModel(FormId, m, form.models[m]))]]
Compiles == form # NoForm /\ (form.id = "" => IdSet \ DOMAIN providers # {})

-----------------------------------------------------------------------------
(* What the router makes of a document. The three are built separately.    *)
Enabled(docs, id) == {m \in DOMAIN docs[id].models : docs[id].models[m].enabled}

(* Mutant: the routes of a Provider that is switched off are built too.    *)
EveryRoute(docs) == UNION {{Slug(id, m) : m \in Enabled(docs, id)} : id \in DOMAIN docs}
build_runtime_snapshot(docs) ==
  UNION {{Slug(id, m) : m \in Enabled(docs, id)} : id \in {i \in DOMAIN docs : docs[i].enabled}}
build_provider_map(docs) == [id \in DOMAIN docs |-> docs[id].account]
CatalogOverlay(docs) ==
  {name \in IdSet \X Models :
     /\ name[1] \in DOMAIN docs
     /\ docs[name[1]].enabled
     /\ name[2] \in Enabled(docs, name[1])}

prepare_reload(docs) ==
  [routes |-> build_runtime_snapshot(docs), providers |-> build_provider_map(docs),
   overlay |-> CatalogOverlay(docs)]

(* RuntimeSnapshot::resolve and what the caller makes of it: the account   *)
(* that gets the request, "official", or "refused".                        *)
resolve(rt, name) ==
  IF name \in rt.routes  THEN rt.providers[name[1]]
  ELSE IF Slashed(name) THEN "refused" ELSE "official"

-----------------------------------------------------------------------------
Init ==
  /\ providers = Empty
  /\ form = NoForm
  /\ registry \in Known \cup {None}
  /\ runtime = prepare_reload(providers)
  /\ publication = None
  /\ listing = None
  /\ listed = Empty
  /\ socket = None
  /\ answer = None
  /\ removed = {}
  /\ wishes = [form |-> Empty, saved |-> Empty]
  /\ budget \in Budgets

Quiet == answer' = None /\ UNCHANGED <<listing, listed, socket>>
FormOnly == Quiet /\ UNCHANGED <<providers, registry, removed, egress>>

(* open: the saved Provider replaces the form. Its models are read under   *)
(* the lock of the control plane.                                          *)
Open ==
  /\ publication = None
  /\ Spend("opens")
  /\ \E id \in DOMAIN providers :
       /\ form' = [id |-> id, account |-> providers[id].account, models |-> providers[id].models]
       /\ wishes' = [wishes EXCEPT !.form = wishes.saved[id]]
  /\ FormOnly

(* A form for a Provider that is not saved yet.                            *)
New ==
  /\ Spend("opens")
  /\ \E a \in Accounts :
       /\ a \notin removed
       /\ \A id \in DOMAIN providers : providers[id].account # a
       /\ form' = [id |-> "", account |-> a, models |-> Empty]
  /\ wishes' = [wishes EXCEPT !.form = Empty]
  /\ FormOnly

(* input_changed, choice_changed and the boxes of the reasoning levels:     *)
(* whatever is entered is the user's.                                      *)
Enter ==
  /\ Spend("edits")
  /\ \E m \in DOMAIN form.models, f \in Facts, v \in Wished :
       /\ form' = [form EXCEPT !.models[m].value[f] = v, !.models[m].source[f] = "user"]
       /\ wishes' = [wishes EXCEPT !.form = Put(@, m, Say(Wishes(@, m), f, v))]
  /\ FormOnly

Toggle ==
  /\ Spend("edits")
  /\ \E m \in DOMAIN form.models :
       /\ form' = [form EXCEPT !.models[m].enabled = ~@]
       /\ wishes' = [wishes EXCEPT !.form =
                       Put(@, m, [Wishes(@, m) EXCEPT !.enabled = ~form.models[m].enabled])]
  /\ FormOnly

(* A model entered by hand is on, and nothing is known of it.              *)
Add ==
  /\ Spend("edits")
  /\ form # NoForm
  /\ \E m \in Models \ DOMAIN form.models :
       /\ form' = [form EXCEPT !.models = Put(@, m, ModelSpec(TRUE, Blank, Blank))]
       /\ wishes' = [wishes EXCEPT !.form = Put(@, m, [enabled |-> TRUE, said |-> Empty])]
  /\ FormOnly

Drop ==
  /\ Spend("edits")
  /\ \E m \in DOMAIN form.models :
       /\ form' = [form EXCEPT !.models = Restrict(@, DOMAIN @ \ {m})]
       /\ wishes' = [wishes EXCEPT !.form = Restrict(@, DOMAIN @ \ {m})]
  /\ FormOnly

(* What a model list reports of the models it names (discover), and what   *)
(* the registry answers (fetch_model_registry): nothing new, or contents.  *)
discover == UNION {[seen -> [Facts -> Told]] : seen \in SUBSET Models}
fetch_model_registry == Known \cup {None}

(* The registry is asked only when the Provider has a model that is new.   *)
Enriches(reports) == form.account \in Registered /\ DOMAIN reports \ DOMAIN form.models # {}
(* enrich_preview_with_registry: the cache serves when there is no answer. *)
Effective(fetched) == IF fetched # None THEN fetched ELSE registry
refresh_provider_models(reports, fetched) ==
  LET preview == build_refresh_preview(reports, compile_instance.models)
  IN IF Enriches(reports) /\ Effective(fetched) # None
     THEN apply_registry_suggestions(preview, Effective(fetched))
     ELSE preview

(* discover_action: the form takes the models of the answer and keeps its  *)
(* others. What the registry answered is used even when its cache cannot   *)
(* be written. A failure before that leaves the form alone.                *)
Discover ==
  /\ publication = None
  /\ Compiles
  /\ Spend("refreshes")
  /\ \E reports \in discover, fetched \in fetch_model_registry :
       /\ Enriches(reports) \/ fetched = None
       /\ form' = [form EXCEPT !.models = Over(refresh_provider_models(reports, fetched), @)]
       /\ registry' \in {registry, Effective(fetched)}
  /\ Quiet
  /\ UNCHANGED <<providers, wishes, removed, egress>>

-----------------------------------------------------------------------------
(* apply_provider_mutation holds the control plane until the reload is     *)
(* published: the reload is prepared from the candidate, the candidate     *)
(* saved, and only then does the router change. A save that fails changes  *)
(* nothing (ProviderControl has its ways to fail).                         *)
Mutate(docs) ==
  /\ publication = None
  /\ providers' = docs
  /\ publication' = prepare_reload(docs)
  /\ UNCHANGED <<registry, runtime>>
  /\ Quiet

Save ==
  /\ Compiles
  /\ Spend("saves")
  /\ Mutate(Put(providers, FormId, compile_instance))
  /\ form' = [form EXCEPT !.id = FormId]
  /\ wishes' = [wishes EXCEPT !.saved = Put(@, FormId, wishes.form)]
  /\ UNCHANGED removed

SetProviderEnabled ==
  /\ Spend("switches")
  /\ \E id \in DOMAIN providers : Mutate([providers EXCEPT ![id].enabled = ~@])
  /\ UNCHANGED <<form, wishes, removed>>

(* remove_existing: the form's Provider goes, and the form with it.        *)
Remove ==
  /\ Spend("removals")
  /\ form.id \in DOMAIN providers
  /\ Mutate(Restrict(providers, DOMAIN providers \ {form.id}))
  /\ form' = NoForm
  /\ removed' = removed \cup {providers[form.id].account}
  /\ wishes' = [form |-> Empty, saved |-> Restrict(wishes.saved, DOMAIN providers \ {form.id})]

commit_reload ==
  /\ publication # None
  /\ runtime' = publication
  /\ publication' = None
  /\ Quiet
  /\ UNCHANGED <<settings, budget>>

(* The program starts again, whatever it was doing: the router serves what *)
(* is saved. Codex remembers what it listed.                               *)
Restart ==
  /\ Spend("restarts")
  /\ form' = NoForm
  /\ wishes' = [wishes EXCEPT !.form = Empty]
  /\ runtime' = prepare_reload(providers)
  /\ publication' = None
  /\ listing' = None /\ socket' = None /\ answer' = None
  /\ UNCHANGED <<providers, registry, removed, listed>>

-----------------------------------------------------------------------------
(* proxy_official_models: the snapshot is taken before the official list   *)
(* is fetched, and its overlay added to that list when it came. A name     *)
(* that is already there fails the request.                                *)
Settled == UNCHANGED <<settings, egress>>

merge(snapshot, official) ==
  [name \in official \cup snapshot.overlay |->
     IF name \in snapshot.overlay THEN snapshot.providers[name[1]] ELSE "official"]

AskList ==
  /\ listing = None
  /\ Spend("lists")
  /\ listing' = runtime
  /\ answer' = None
  /\ UNCHANGED <<listed, socket>>
  /\ Settled

proxy_official_models ==
  /\ listing # None
  /\ listing' = None
  /\ \/ \E official \in OfficialLists :
          /\ official \cap listing.overlay = {}
          /\ listed' = merge(listing, official)
     \/ UNCHANGED listed
  /\ answer' = None
  /\ UNCHANGED <<socket, budget>>
  /\ Settled

Names == Official \cup (IdSet \X Models)
Answer(name, by, via) == answer' = [name |-> name, by |-> by, via |-> via]

(* proxy: one HTTP request.                                                *)
Ask ==
  /\ Spend("requests")
  /\ \E name \in Names : Answer(name, resolve(runtime, name), "http")
  /\ UNCHANGED <<listing, listed, socket>>
  /\ Settled

(* prepare_first_message: the session keeps the snapshot that routed its   *)
(* first request.                                                          *)
Connect ==
  /\ socket = None
  /\ Spend("requests")
  /\ \E name \in Names :
       LET by == resolve(runtime, name) IN
       /\ Answer(name, by, "connect")
       /\ socket' = IF by = "refused" THEN None
                    ELSE [runtime |-> runtime, account |-> by, asked |-> {name},
                          id |-> IF Slashed(name) THEN name[1] ELSE None]
  /\ UNCHANGED <<listing, listed>>
  /\ Settled

(* prepare_followup_message and validate_followup_route: the session's own *)
(* snapshot decides, and only for the Provider the session began with.     *)
SameRoute(name) == IF Slashed(name) THEN name[1] = socket.id ELSE socket.id = None
(* Mutant: a follow-up is resolved with what the router serves now.        *)
ResolveNow(name) == IF resolve(runtime, name) # "refused" /\ SameRoute(name) THEN socket.account
                    ELSE "refused"
FollowedBy(name) ==
  IF resolve(socket.runtime, name) # "refused" /\ SameRoute(name) THEN socket.account
  ELSE "refused"
FollowUp ==
  /\ socket # None
  /\ Spend("requests")
  /\ \E name \in Names :
       /\ Answer(name, FollowedBy(name), "followup")
       /\ socket' = IF FollowedBy(name) = "refused" THEN None
                    ELSE [socket EXCEPT !.asked = @ \cup {name}]
  /\ UNCHANGED <<listing, listed>>
  /\ Settled

Next ==
  \/ Open \/ New \/ Enter \/ Toggle \/ Add \/ Drop \/ Discover
  \/ Save \/ SetProviderEnabled \/ Remove \/ commit_reload \/ Restart
  \/ AskList \/ proxy_official_models \/ Ask \/ Connect \/ FollowUp

Spec == Init /\ [][Next]_vars

IsSaved(provider) ==
  /\ provider \in [enabled: BOOLEAN, account: Accounts, models: {provider.models}]
  /\ IsMap(provider.models, Models, ModelSpecs)

SettingsOK ==
  /\ DOMAIN providers \subseteq IdSet /\ \A id \in DOMAIN providers : IsSaved(providers[id])
  /\ form \in [id: IdSet \cup {"", None}, account: Accounts \cup {None}, models: {form.models}]
  /\ IsMap(form.models, Models, ModelSpecs)
  /\ registry \in Known \cup {None}
  /\ removed \subseteq Accounts
  /\ wishes \in [form: {wishes.form}, saved: {wishes.saved}]
  /\ IsMap(wishes.form, Models, Wish)
  /\ \A id \in DOMAIN wishes.saved : IsMap(wishes.saved[id], Models, Wish)

EgressOK == runtime \in Runtimes /\ publication \in Runtimes \cup {None}

CodexOK ==
  /\ listing \in Runtimes \cup {None}
  /\ listed \in [DOMAIN listed -> Accounts \cup {"official"}]
  /\ socket = None \/ socket \in [runtime: Runtimes, account: Accounts \cup {"official"},
                                 id: IdSet \cup {None}, asked: SUBSET Names]
  /\ answer = None \/ answer \in [name: Names, by: Accounts \cup {"official", "refused"},
                                 via: {"http", "connect", "followup"}]

TypeOK == SettingsOK /\ EgressOK /\ CodexOK

-----------------------------------------------------------------------------
(* What is on record of a model is true: what counts as confirmed by the   *)
(* user is what the user entered, and what the user entered stays through  *)
(* refreshes, suggestions, saves and openings. Two exceptions the code     *)
(* makes: a value the Provider stopped reporting is recorded as the user's *)
(* (compile_model), and a window the user cleared is not kept (the         *)
(* registry fills it).                                                     *)
Honest(model, said) ==
  \A f \in Facts :
    /\ model.source[f] = "user" =>
         model.value[f] = IF f \in DOMAIN said THEN said[f] ELSE None
    /\ f \in DOMAIN said /\ (f = "window" => said[f] # None) => model.source[f] = "user"
    /\ model.source[f] = None => model.value[f] = None
SourcesAreHonest ==
  /\ \A m \in DOMAIN form.models : Honest(form.models[m], Wishes(wishes.form, m).said)
  /\ \A id \in DOMAIN providers : \A m \in DOMAIN providers[id].models :
       Honest(providers[id].models[m], Wishes(wishes.saved[id], m).said)

(* The router serves, lists and can place exactly the models the user      *)
(* switched on, of the Providers the user switched on, as last saved: at   *)
(* once or, while a save is being published, next. A refresh, a suggestion *)
(* or a restart switches nothing.                                          *)
Chosen ==
  {name \in IdSet \X Models :
     /\ name[1] \in DOMAIN providers
     /\ providers[name[1]].enabled
     /\ Wishes(wishes.saved[name[1]], name[2]).enabled}
RoutedAsChosen ==
  LET served == IF publication = None THEN runtime ELSE publication IN
  /\ served.routes = Chosen
  /\ served.overlay = Chosen
  /\ \A id \in DOMAIN providers : served.providers[id] = providers[id].account

(* A request goes where the list said: a name with a slash never to the    *)
(* official endpoint, a name without one never to a Provider, and a name   *)
(* Codex listed to the account it was listed for, or else one of the two   *)
(* Providers was removed (its id is given again). Once a removal is        *)
(* published, the removed account gets nothing but the follow-ups of a     *)
(* session that began before.                                              *)
AnsweredAsListed ==
  answer # None =>
    /\ answer.by = "official" => ~Slashed(answer.name)
    /\ answer.by \in Accounts =>
         /\ Slashed(answer.name)
         /\ answer.name \in DOMAIN listed /\ listed[answer.name] \in Accounts =>
              \/ answer.by = listed[answer.name]
              \/ {answer.by, listed[answer.name]} \cap removed # {}
         /\ answer.by \in removed => publication # None \/ answer.via = "followup"

(* What a session was answered for once it is answered for until it ends,  *)
(* by the same account, whatever is saved, switched or removed meanwhile.  *)
SessionsHold ==
  [][socket # None /\ answer' # None /\ answer'.via = "followup" =>
       (answer'.name \in socket.asked => answer'.by = socket.account)]_vars

-----------------------------------------------------------------------------
(* What the documents and the code promise and do not keep (see README).   *)

(* "User-confirmed values survive refresh" (manual_refresh.rs:91): also a  *)
(* window the user cleared.                                                *)
EveryChoiceSurvives ==
  \A m \in DOMAIN form.models : \A f \in DOMAIN Wishes(wishes.form, m).said :
    form.models[m].source[f] = "user"

(* "Provider-derived values are replaced by what the current response      *)
(* explicitly reports" (manual_refresh.rs:91): nothing is on record as the *)
(* user's that the user never entered.                                     *)
OnlyTheUserConfirms ==
  \A m \in DOMAIN form.models : \A f \in Facts :
    form.models[m].source[f] = "user" => f \in DOMAIN Wishes(wishes.form, m).said

(* A listed name is answered by the Provider it was listed for, or not at  *)
(* all: an id is given again after a removal.                              *)
ListedNamesKeepTheirProvider ==
  answer # None /\ answer.name \in DOMAIN listed /\ answer.via # "followup" =>
    listed[answer.name] = "official" \/ answer.by \in {listed[answer.name], "refused"}
=============================================================================
