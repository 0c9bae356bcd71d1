------------------------- MODULE ModelCatalogProofs -------------------------
(***************************************************************************)
(* Proofs about ModelCatalog for every number of Provider ids, models and  *)
(* accounts, every registry and official list, and runs of any length.     *)
(*                                                                         *)
(* None of the properties is inductive. Inv adds that the switch of every  *)
(* model, in the form and in the saved document, is the one the user set;  *)
(* that what is served is made of the saved document; that a Provider id   *)
(* stands for one account until its Provider is removed, in every snapshot *)
(* that is still in use; and which names a session was opened for.         *)
(***************************************************************************)
EXTENDS ModelCatalog, WellFoundedInduction, TLAPS

(* The models of a form or of a saved Provider agree with what the user    *)
(* decided of them.                                                        *)
Matches(models, of) ==
  /\ DOMAIN of \subseteq DOMAIN models
  /\ \A m \in DOMAIN models : /\ models[m].enabled = Wishes(of, m).enabled
                              /\ Honest(models[m], Wishes(of, m).said)

Recorded ==
  /\ Matches(form.models, wishes.form)
  /\ DOMAIN wishes.saved = DOMAIN providers
  /\ \A id \in DOMAIN providers : Matches(providers[id].models, wishes.saved[id])

(* What is served, at once or next, is made of the saved document.         *)
Served == IF publication = None THEN runtime = prepare_reload(providers)
          ELSE publication = prepare_reload(providers)

(* No two Providers share an account, and none has that of a removed one;  *)
(* the form is that of a saved Provider or of one that can be added.       *)
Distinct ==
  /\ \A id \in DOMAIN providers :
       /\ providers[id].account \notin removed
       /\ \A other \in DOMAIN providers \ {id} : providers[other].account # providers[id].account
  /\ form # NoForm =>
       /\ form.account \in Accounts
       /\ IF form.id = ""
          THEN form.account \notin removed \cup {providers[id].account : id \in DOMAIN providers}
          ELSE form.id \in DOMAIN providers /\ form.account = providers[form.id].account

(* An id was given to this account: it still has it, or was removed.       *)
Belongs(id, account) ==
  account \in removed \/ (id \in DOMAIN providers /\ account = providers[id].account)

Fits(snapshot) ==
  /\ \A name \in snapshot.routes \cup snapshot.overlay : name[1] \in DOMAIN snapshot.providers
  /\ \A id \in DOMAIN snapshot.providers : Belongs(id, snapshot.providers[id])

Snapshots ==
  /\ Fits(runtime)
  /\ publication # None => Fits(publication)
  /\ listing # None => Fits(listing)
  /\ socket # None => Fits(socket.runtime)

ListedOf ==
  \A name \in DOMAIN listed : listed[name] \in Accounts =>
    name \in IdSet \X Models /\ Belongs(name[1], listed[name])

(* A session was answered for names of its own Provider only, by the       *)
(* account of that Provider.                                               *)
Held ==
  socket # None =>
    /\ \A name \in socket.asked : SameRoute(name) /\ resolve(socket.runtime, name) # "refused"
    /\ IF socket.id = None THEN socket.account = "official"
       ELSE /\ socket.id \in DOMAIN socket.runtime.providers
            /\ socket.account = socket.runtime.providers[socket.id]

Inv == TypeOK /\ Recorded /\ Served /\ Distinct /\ Snapshots /\ ListedOf /\ Held

-----------------------------------------------------------------------------
(* Functions.                                                              *)
LEMMA PutIs ==
  ASSUME NEW f, NEW x, NEW v
  PROVE  /\ DOMAIN Put(f, x, v) = DOMAIN f \cup {x}
         /\ Put(f, x, v)[x] = v
         /\ \A y \in DOMAIN f : y # x => Put(f, x, v)[y] = f[y]
BY DEF Put

LEMMA PutMap ==
  ASSUME NEW keys, NEW values, NEW f, IsMap(f, keys, values), NEW x \in keys, NEW v \in values
  PROVE  IsMap(Put(f, x, v), keys, values)
BY DEF Put, IsMap

LEMMA RestrictMap ==
  ASSUME NEW keys, NEW values, NEW f, IsMap(f, keys, values), NEW x
  PROVE  IsMap(Restrict(f, DOMAIN f \ {x}), keys, values)
BY DEF Restrict, IsMap

LEMMA EmptyMap == ASSUME NEW keys, NEW values PROVE IsMap(Empty, keys, values) /\ DOMAIN Empty = {}
BY DEF Empty, IsMap

LEMMA MapsAre ==
  ASSUME NEW keys, NEW values, NEW f
  PROVE  f \in Maps(keys, values) <=> IsMap(f, keys, values)
BY DEF Maps, IsMap

(* A model nobody decided anything about.                                  *)
LEMMA NoWishType == NoWish \in Wish
BY EmptyMap, MapsAre DEF NoWish, Wish

(* What was decided of a model, and what is when the user decides again.   *)
LEMMA WishesType ==
  ASSUME NEW of, IsMap(of, Models, Wish), NEW m
  PROVE  Wishes(of, m) \in Wish
BY NoWishType DEF Wishes, IsMap

(* The first id that is not taken is one of the ids, and not taken.        *)
LEMMA NewIdFits ==
  ASSUME NEW taken, IdSet \ taken # {}
  PROVE  NewId(taken) \in IdSet \ taken
<1> DEFINE free == {i \in DOMAIN Ids : Ids[i] \notin taken}
<1>1. Ids \in Seq(STRING)
  BY ModelCatalogAssumption
<1>2. DOMAIN Ids = 1..Len(Ids) /\ Len(Ids) \in Nat
  BY <1>1
<1>3. free \in SUBSET Nat /\ free # {}
  BY <1>2 DEF IdSet, Range
<1> DEFINE R == {ss \in Nat \X Nat : ss[1] < ss[2]}
<1>4. IsWellFoundedOn(R, Nat)
  BY NatLessThanWellFounded DEF OpToRel
<1>5. PICK i \in free : \A j \in free : ~ (<<j, i>> \in R)
  BY <1>3, <1>4, WFMin
<1>6. \A j \in 1..(i - 1) : Ids[j] \in taken
  <2> SUFFICES ASSUME NEW j \in 1..(i - 1), Ids[j] \notin taken PROVE FALSE
    OBVIOUS
  <2>1. i \in 1..Len(Ids)
    BY <1>2, <1>5
  <2>2. j \in DOMAIN Ids /\ j \in Nat /\ i \in Nat /\ j < i
    BY <1>2, <2>1
  <2>3. j \in free /\ <<j, i>> \in R
    BY <2>2
  <2> QED
    BY <1>5, <2>3
<1>7. \E k : k \in DOMAIN Ids /\ Ids[k] \notin taken /\ \A j \in 1..(k - 1) : Ids[j] \in taken
  BY <1>5, <1>6
<1> QED
  BY <1>7 DEF NewId, IdSet, Range

(* Models: what the compilation, a refresh and the registry make of one.   *)
LEMMA BlankType ==
  ASSUME NEW on \in BOOLEAN
  PROVE  /\ ModelSpec(on, Blank, Blank) \in ModelSpecs
         /\ Honest(ModelSpec(on, Blank, Blank), Empty)
<1>1. None \in Values /\ None \notin {"user"}
  BY ModelCatalogAssumption DEF Values, Sources
<1> QED
  BY <1>1, EmptyMap DEF ModelSpec, ModelSpecs, Blank, Honest

LEMMA CompileModel ==
  ASSUME NEW model \in ModelSpecs, NEW saved, NEW said, Honest(model, said)
  PROVE  /\ compile_model(model, saved) \in ModelSpecs
         /\ compile_model(model, saved).enabled = model.enabled
         /\ Honest(compile_model(model, saved), said)
<1> DEFINE c == compile_model(model, saved)
<1>1. None # "user"
  BY ModelCatalogAssumption DEF Sources
<1>2. /\ c = [enabled |-> model.enabled, value |-> model.value, source |-> c.source]
      /\ c.source = [f \in Facts |-> IF model.source[f] = None /\ saved.value[f] # model.value[f]
                                     THEN "user" ELSE model.source[f]]
  BY DEF compile_model, ModelSpecs
<1> HIDE DEF c
<1>3. c.value = model.value /\ c.enabled = model.enabled
  BY <1>2
<1>4. c \in ModelSpecs
  BY <1>2 DEF ModelSpecs, Sources
<1>5. \A f \in Facts : c.source[f] = model.source[f] \/ (c.source[f] = "user" /\ model.source[f] = None)
  BY <1>2
<1>6. Honest(c, said)
  BY <1>1, <1>3, <1>5 DEF Honest
<1> QED
  BY <1>3, <1>4, <1>6 DEF c

LEMMA MergeModel ==
  ASSUME NEW report \in [Facts -> Told], NEW old \in ModelSpecs, NEW said, Honest(old, said)
  PROVE  /\ merge_model(report, old) \in ModelSpecs
         /\ merge_model(report, old).enabled = old.enabled
         /\ Honest(merge_model(report, old), said)
<1> DEFINE c == merge_model(report, old)
<1>1. None \in Values /\ Told \subseteq Values /\ None \notin Sources
  BY ModelCatalogAssumption DEF Values
<1>2. \A f \in Facts :
        \/ old.source[f] = "user" /\ choose(report, old, f) = [value |-> old.value[f], source |-> "user"]
        \/ /\ old.source[f] # "user" /\ report[f] # None
           /\ choose(report, old, f) = [value |-> report[f], source |-> "provider"]
        \/ old.source[f] # "user" /\ choose(report, old, f) = [value |-> None, source |-> None]
  BY DEF choose, is_user_confirmed
<1>3. c = [enabled |-> old.enabled, value |-> [f \in Facts |-> choose(report, old, f).value],
           source |-> [f \in Facts |-> choose(report, old, f).source]]
  BY DEF merge_model, ModelSpec
<1> HIDE DEF c
<1>4. \A f \in Facts :
        \/ old.source[f] = "user" /\ c.value[f] = old.value[f] /\ c.source[f] = "user"
        \/ old.source[f] # "user" /\ report[f] # None /\ c.value[f] = report[f] /\ c.source[f] = "provider"
        \/ old.source[f] # "user" /\ c.value[f] = None /\ c.source[f] = None
  BY <1>2, <1>3
<1>5. \A f \in Facts : c.value[f] \in Values /\ c.source[f] \in Sources \cup {None}
  BY <1>1, <1>4 DEF ModelSpecs, Sources
<1>6. c \in ModelSpecs /\ c.enabled = old.enabled
  BY <1>3, <1>5 DEF ModelSpecs
<1>7. Honest(c, said)
  BY <1>1, <1>4 DEF Honest, Sources
<1> QED
  BY <1>6, <1>7 DEF c

LEMMA SuggestModel ==
  ASSUME NEW model \in ModelSpecs, NEW known \in Known, NEW said, Honest(model, said)
  PROVE  /\ apply_model_suggestion(model, known) \in ModelSpecs
         /\ apply_model_suggestion(model, known).enabled = model.enabled
         /\ Honest(apply_model_suggestion(model, known), said)
<1> DEFINE c == apply_model_suggestion(model, known)
<1>1. None \notin Sources
  BY ModelCatalogAssumption
<1>2. c = [enabled |-> model.enabled,
           value |-> [f \in Facts |-> IF Missing(model, f) THEN known ELSE model.value[f]],
           source |-> [f \in Facts |-> IF Missing(model, f) THEN "registry" ELSE model.source[f]]]
  BY DEF apply_model_suggestion, ModelSpec
<1> HIDE DEF c
<1>3. \A f \in Facts :
        \/ Missing(model, f) /\ c.value[f] = known /\ c.source[f] = "registry"
        \/ ~ Missing(model, f) /\ c.value[f] = model.value[f] /\ c.source[f] = model.source[f]
  BY <1>2
<1>4. c \in ModelSpecs /\ c.enabled = model.enabled
  <2>1. \A f \in Facts : c.value[f] \in Values /\ c.source[f] \in Sources \cup {None}
    BY <1>3 DEF ModelSpecs, Sources, Values
  <2> QED
    BY <1>2, <2>1 DEF ModelSpecs
<1>5. ASSUME NEW f \in Facts, Missing(model, f), f \in DOMAIN said, f = "window" => said[f] # None
      PROVE  FALSE
  <2>1. model.source[f] = "user" /\ model.value[f] = said[f]
    BY <1>5 DEF Honest
  <2> QED
    BY <1>1, <1>5, <2>1 DEF Missing, Facts, Sources
<1>6. Honest(c, said)
  BY <1>1, <1>3, <1>5 DEF Honest, Sources
<1> QED
  BY <1>4, <1>6 DEF c

(* The models of a form or of a Provider.                                  *)
LEMMA MatchesEmpty == Matches(Empty, Empty)
BY EmptyMap DEF Matches

(* A model that changes together with what is decided of it.               *)
LEMMA MatchesPut ==
  ASSUME NEW models, NEW of, Matches(models, of),
         NEW m, NEW model, NEW wish, NEW ms, DOMAIN ms = DOMAIN models \cup {m}, ms[m] = model,
         \A n \in DOMAIN models : n # m => ms[n] = models[n],
         model.enabled = wish.enabled, Honest(model, wish.said)
  PROVE  Matches(ms, Put(of, m, wish))
<1>1. DOMAIN Put(of, m, wish) \subseteq DOMAIN ms
  BY DEF Matches, Put
<1>2. Wishes(Put(of, m, wish), m) = wish /\ \A n : n # m => Wishes(Put(of, m, wish), n) = Wishes(of, n)
  BY DEF Wishes, Put
<1> QED
  BY <1>1, <1>2 DEF Matches

LEMMA MatchesDrop ==
  ASSUME NEW models, NEW of, Matches(models, of), NEW m
  PROVE  Matches(Restrict(models, DOMAIN models \ {m}), Restrict(of, DOMAIN of \ {m}))
BY DEF Matches, Restrict, Wishes

(* The compiled models, which are those of the form but for sources.       *)
LEMMA CompiledModels ==
  ASSUME TypeOK, Recorded
  PROVE  /\ IsMap(compile_instance.models, Models, ModelSpecs)
         /\ DOMAIN compile_instance.models = DOMAIN form.models
         /\ Matches(compile_instance.models, wishes.form)
<1> DEFINE c == compile_instance.models
<1>1. c = [m \in DOMAIN form.models |->
             compile_model(form.models[m], SavedModel(FormId, m, form.models[m]))]
  BY DEF compile_instance
<1> HIDE DEF c
<1>2. ASSUME NEW m \in DOMAIN form.models
      PROVE  /\ c[m] \in ModelSpecs /\ c[m].enabled = form.models[m].enabled
             /\ Honest(c[m], Wishes(wishes.form, m).said)
  <2>1. form.models[m] \in ModelSpecs /\ Honest(form.models[m], Wishes(wishes.form, m).said)
    BY DEF TypeOK, SettingsOK, IsMap, Recorded, Matches
  <2> QED
    BY <1>1, <2>1, CompileModel
<1>3. DOMAIN c = DOMAIN form.models
  BY <1>1
<1>4. IsMap(c, Models, ModelSpecs)
  BY <1>1, <1>2, <1>3 DEF TypeOK, SettingsOK, IsMap
<1>5. Matches(c, wishes.form)
  BY <1>2, <1>3 DEF Recorded, Matches
<1> QED
  BY <1>3, <1>4, <1>5 DEF c

(* The models a refresh adds to the form.                                  *)
LEMMA RefreshedModels ==
  ASSUME TypeOK, Recorded, NEW reports \in discover, NEW fetched \in fetch_model_registry
  PROVE  /\ IsMap(refresh_provider_models(reports, fetched), Models, ModelSpecs)
         /\ \A m \in DOMAIN refresh_provider_models(reports, fetched) :
              LET model == refresh_provider_models(reports, fetched)[m]
              IN  /\ model.enabled = Wishes(wishes.form, m).enabled
                  /\ Honest(model, Wishes(wishes.form, m).said)
<1> DEFINE models == compile_instance.models
           preview == build_refresh_preview(reports, models)
           good(ms) == /\ DOMAIN ms \subseteq Models /\ ms = [m \in DOMAIN ms |-> ms[m]]
                       /\ \A m \in DOMAIN ms : /\ ms[m] \in ModelSpecs
                                               /\ ms[m].enabled = Wishes(wishes.form, m).enabled
                                               /\ Honest(ms[m], Wishes(wishes.form, m).said)
<1>1. DOMAIN reports \subseteq Models /\ \A m \in DOMAIN reports : reports[m] \in [Facts -> Told]
  BY DEF discover
<1>2. /\ IsMap(models, Models, ModelSpecs) /\ DOMAIN models = DOMAIN form.models
      /\ Matches(models, wishes.form)
  BY CompiledModels
<1>3. preview = [m \in DOMAIN reports |->
                   merge_model(reports[m],
                     IF m \in DOMAIN models THEN models[m] ELSE ModelSpec(FALSE, Blank, Blank))]
  BY DEF build_refresh_preview
<1> HIDE DEF preview, models
<1>4. ASSUME NEW m \in DOMAIN reports
      PROVE  /\ preview[m] \in ModelSpecs /\ preview[m].enabled = Wishes(wishes.form, m).enabled
             /\ Honest(preview[m], Wishes(wishes.form, m).said)
  <2>1. CASE m \in DOMAIN models
    <3>1. /\ models[m] \in ModelSpecs /\ models[m].enabled = Wishes(wishes.form, m).enabled
          /\ Honest(models[m], Wishes(wishes.form, m).said)
      BY <1>2, <2>1 DEF IsMap, Matches
    <3> QED
      BY <1>1, <1>3, <2>1, <3>1, MergeModel
  <2>2. CASE m \notin DOMAIN models
    <3>1. Wishes(wishes.form, m) = NoWish
      BY <1>2, <2>2 DEF Matches, Wishes
    <3>2. PICK old : old = ModelSpec(FALSE, Blank, Blank)
      OBVIOUS
    <3>3. old \in ModelSpecs /\ old.enabled = FALSE /\ Honest(old, Empty)
      BY <3>2, BlankType DEF ModelSpec
    <3>4. preview[m] = merge_model(reports[m], old)
      BY <1>3, <2>2, <3>2
    <3>5. Wishes(wishes.form, m).enabled = FALSE /\ Wishes(wishes.form, m).said = Empty
      BY <3>1 DEF NoWish
    <3>6. /\ merge_model(reports[m], old) \in ModelSpecs
          /\ merge_model(reports[m], old).enabled = FALSE
          /\ Honest(merge_model(reports[m], old), Empty)
      BY <1>1, <3>3, MergeModel
    <3> QED
      BY <3>4, <3>5, <3>6
  <2> QED
    BY <2>1, <2>2
<1>5. good(preview)
  BY <1>1, <1>3, <1>4
<1>6. ASSUME NEW known \in Known
      PROVE  good(apply_registry_suggestions(preview, known))
  <2> DEFINE new == apply_registry_suggestions(preview, known)
  <2>1. new = [m \in DOMAIN preview |-> apply_model_suggestion(preview[m], known)]
    BY DEF apply_registry_suggestions
  <2> HIDE DEF new
  <2>2. \A m \in DOMAIN preview : /\ new[m] \in ModelSpecs /\ new[m].enabled = preview[m].enabled
                                  /\ Honest(new[m], Wishes(wishes.form, m).said)
    BY <1>5, <2>1, SuggestModel
  <2>3. good(new)
    BY <1>5, <2>1, <2>2
  <2> QED
    BY <2>3 DEF new
<1>7. Effective(fetched) # None => Effective(fetched) \in Known
  BY DEF Effective, fetch_model_registry, TypeOK, SettingsOK
<1>8. good(refresh_provider_models(reports, fetched))
  <2>1. refresh_provider_models(reports, fetched) \in
          {preview} \cup {apply_registry_suggestions(preview, known) : known \in Known}
    BY <1>7 DEF refresh_provider_models, preview, models
  <2> QED
    BY <1>5, <1>6, <2>1
<1> QED
  BY <1>8 DEF IsMap

(* What is served of a document: the routes and the overlay are the models *)
(* that are on, of the Providers that are on.                              *)
LEMMA Reload ==
  ASSUME NEW docs, DOMAIN docs \subseteq IdSet, \A id \in DOMAIN docs : IsSaved(docs[id])
  PROVE  /\ prepare_reload(docs) \in Runtimes /\ prepare_reload(docs) # None
         /\ prepare_reload(docs).routes = CatalogOverlay(docs)
         /\ prepare_reload(docs).overlay = CatalogOverlay(docs)
         /\ DOMAIN prepare_reload(docs).providers = DOMAIN docs
         /\ \A id \in DOMAIN docs : prepare_reload(docs).providers[id] = docs[id].account
<1>1. /\ prepare_reload(docs).routes = build_runtime_snapshot(docs)
      /\ prepare_reload(docs).overlay = CatalogOverlay(docs)
      /\ prepare_reload(docs).providers = [id \in DOMAIN docs |-> docs[id].account]
      /\ prepare_reload(docs) = [routes |-> build_runtime_snapshot(docs),
                                 providers |-> build_provider_map(docs),
                                 overlay |-> CatalogOverlay(docs)]
  BY DEF prepare_reload, build_provider_map
<1>2. \A id \in DOMAIN docs : id \in IdSet /\ Enabled(docs, id) \subseteq Models
  BY DEF IsSaved, IsMap, Enabled
<1>3. build_runtime_snapshot(docs) = CatalogOverlay(docs)
  <2>1. ASSUME NEW name \in build_runtime_snapshot(docs) PROVE name \in CatalogOverlay(docs)
    BY <1>2, <2>1 DEF build_runtime_snapshot, CatalogOverlay, Slug
  <2>2. ASSUME NEW name \in CatalogOverlay(docs) PROVE name \in build_runtime_snapshot(docs)
    <3>1. /\ name[1] \in {id \in DOMAIN docs : docs[id].enabled}
          /\ name[2] \in Enabled(docs, name[1]) /\ name = Slug(name[1], name[2])
      BY DEF CatalogOverlay, Slug
    <3>2. name \in {Slug(name[1], m) : m \in Enabled(docs, name[1])}
      BY <3>1
    <3> QED
      BY <3>1, <3>2 DEF build_runtime_snapshot
  <2> QED
    BY <2>1, <2>2
<1>4. build_provider_map(docs) \in Maps(IdSet, Accounts)
  <2>1. \A id \in DOMAIN docs : docs[id].account \in Accounts
    BY DEF IsSaved
  <2>2. IsMap(build_provider_map(docs), IdSet, Accounts)
    BY <2>1 DEF build_provider_map, IsMap
  <2> QED
    BY <2>2, MapsAre
<1>5. CatalogOverlay(docs) \subseteq IdSet \X Models
  BY DEF CatalogOverlay
<1>6. prepare_reload(docs) \in Runtimes
  BY <1>1, <1>3, <1>4, <1>5 DEF Runtimes
<1>7. None \notin Runtimes
  BY ModelCatalogAssumption
<1> QED
  BY <1>1, <1>3, <1>6, <1>7

(* An id stays with its account for as long as no action gives it away.    *)
LEMMA BelongsStays ==
  ASSUME removed \subseteq removed',
         \A id \in DOMAIN providers :
           \/ id \in DOMAIN providers' /\ providers'[id].account = providers[id].account
           \/ providers[id].account \in removed'
  PROVE  \A id, account : Belongs(id, account) => Belongs(id, account)'
BY DEF Belongs

LEMMA FitsStays ==
  ASSUME \A id, account : Belongs(id, account) => Belongs(id, account)',
         NEW snapshot, Fits(snapshot), NEW next, next = snapshot
  PROVE  /\ \A name \in next.routes \cup next.overlay : name[1] \in DOMAIN next.providers
         /\ \A id \in DOMAIN next.providers : Belongs(id, next.providers[id])'
BY DEF Fits

-----------------------------------------------------------------------------
(* The form.                                                               *)
LEMMA FormStep ==
  ASSUME Inv, Quiet, UNCHANGED <<providers, removed, egress>>,
         SettingsOK', Recorded', Distinct'
  PROVE  Inv'
<1>1. TypeOK'
  BY DEF Inv, TypeOK, EgressOK, CodexOK, Quiet, egress
<1>2. Served'
  BY DEF Inv, Served, egress
<1>3. Snapshots'
  BY DEF Inv, Snapshots, Fits, Belongs, Quiet, egress
<1>4. ListedOf'
  BY DEF Inv, ListedOf, Belongs, Quiet
<1>5. Held'
  BY DEF Inv, Held, SameRoute, Quiet
<1> QED
  BY <1>1, <1>2, <1>3, <1>4, <1>5 DEF Inv

(* What the form may become: models that agree with what the user decided, *)
(* under the id and the account it had.                                    *)
LEMMA ModelsStep ==
  ASSUME Inv, Quiet, UNCHANGED <<providers, removed, egress>>, registry' \in Known \cup {None},
         form # NoForm, NEW ms, IsMap(ms, Models, ModelSpecs), form' = [form EXCEPT !.models = ms],
         NEW of, IsMap(of, Models, Wish), wishes' = [wishes EXCEPT !.form = of], Matches(ms, of)
  PROVE  Inv'
<1>1. /\ form' = [id |-> form.id, account |-> form.account, models |-> ms]
      /\ wishes' = [form |-> of, saved |-> wishes.saved]
  BY DEF Inv, TypeOK, SettingsOK
<1>2. SettingsOK'
  BY <1>1 DEF Inv, TypeOK, SettingsOK
<1>3. Recorded'
  BY <1>1 DEF Inv, Recorded
<1>4. Distinct'
  <2>1. form'.id = form.id /\ form'.account = form.account
    BY <1>1
  <2> QED
    BY <2>1 DEF Inv, Distinct
<1> QED
  BY <1>2, <1>3, <1>4, FormStep

LEMMA EnterKeeps == ASSUME Inv, Enter PROVE Inv'
<1>1. PICK m \in DOMAIN form.models, f \in Facts, v \in Wished :
        /\ form' = [form EXCEPT !.models[m].value[f] = v, !.models[m].source[f] = "user"]
        /\ wishes' = [wishes EXCEPT !.form = Put(@, m, Say(Wishes(@, m), f, v))]
  BY DEF Enter
<1> DEFINE old == form.models[m]
           model == [enabled |-> old.enabled, value |-> [old.value EXCEPT ![f] = v],
                     source |-> [old.source EXCEPT ![f] = "user"]]
           had == Wishes(wishes.form, m)
           wish == [enabled |-> had.enabled, said |-> Put(had.said, f, v)]
           ms == [form.models EXCEPT ![m] = model]
           of == Put(wishes.form, m, wish)
<1>2. old \in ModelSpecs /\ had \in Wish /\ old.enabled = had.enabled /\ Honest(old, had.said)
  BY WishesType DEF Inv, TypeOK, SettingsOK, Recorded, Matches, IsMap
<1>3. m \in Models /\ form.models \in [DOMAIN form.models -> ModelSpecs]
      /\ wishes = [form |-> wishes.form, saved |-> wishes.saved]
      /\ form = [id |-> form.id, account |-> form.account, models |-> form.models]
  BY DEF Inv, TypeOK, SettingsOK, IsMap
<1>4. model \in ModelSpecs
  BY <1>2 DEF ModelSpecs, Values, Sources
<1>5. wish \in Wish
  <2>1. IsMap(had.said, Facts, Wished)
    BY <1>2, MapsAre DEF Wish
  <2>2. Put(had.said, f, v) \in Maps(Facts, Wished)
    BY <2>1, PutMap, MapsAre
  <2> QED
    BY <1>2, <2>2 DEF Wish
<1>6. Honest(model, wish.said)
  <2>1. model.value[f] = v /\ model.source[f] = "user" /\ wish.said[f] = v /\ f \in DOMAIN wish.said
    BY <1>2 DEF ModelSpecs, Put
  <2>2. ASSUME NEW g \in Facts, g # f
        PROVE  /\ model.value[g] = old.value[g] /\ model.source[g] = old.source[g]
               /\ g \in DOMAIN wish.said <=> g \in DOMAIN had.said
               /\ g \in DOMAIN had.said => wish.said[g] = had.said[g]
    BY <1>2, <2>2 DEF ModelSpecs, Put
  <2>3. None # "user"
    BY ModelCatalogAssumption DEF Sources
  <2> HIDE DEF model, wish
  <2> QED
    BY <1>2, <2>1, <2>2, <2>3 DEF Honest
<1>7. [old EXCEPT !.value[f] = v, !.source[f] = "user"] = model
  <2>1. PICK values, sources : /\ values = [old.value EXCEPT ![f] = v]
                               /\ sources = [old.source EXCEPT ![f] = "user"]
    OBVIOUS
  <2>2. [old EXCEPT !.value[f] = v, !.source[f] = "user"]
          = [old EXCEPT !.value = values, !.source = sources]
    BY <2>1
  <2>3. PICK half : half = [old EXCEPT !.value = values]
    OBVIOUS
  <2>4. half = [enabled |-> old.enabled, value |-> values, source |-> old.source]
    BY <1>2, <2>3 DEF ModelSpecs
  <2>5. half \in ModelSpecs
    BY <1>2, <2>1, <2>4 DEF ModelSpecs, Values
  <2>6. [half EXCEPT !.source = sources]
          = [enabled |-> old.enabled, value |-> values, source |-> sources]
    BY <2>4, <2>5 DEF ModelSpecs
  <2>7. [old EXCEPT !.value = values, !.source = sources] = [half EXCEPT !.source = sources]
    BY <2>3
  <2> QED
    BY <2>1, <2>2, <2>6, <2>7
<1>8. form' = [form EXCEPT !.models = ms]
  BY <1>1, <1>3, <1>7
<1>9. wishes' = [wishes EXCEPT !.form = of]
  <2>1. Say(had, f, v) = wish
    BY <1>2 DEF Wish, Say
  <2> QED
    BY <1>1, <1>3, <2>1
<1>10. IsMap(ms, Models, ModelSpecs) /\ DOMAIN ms = DOMAIN form.models /\ ms[m] = model
       /\ \A n \in DOMAIN form.models : n # m => ms[n] = form.models[n]
  BY <1>4, <1>3 DEF IsMap, Inv, TypeOK, SettingsOK
<1>11. IsMap(of, Models, Wish)
  BY <1>5, <1>3, PutMap DEF Inv, TypeOK, SettingsOK
<1>12. Matches(ms, of)
  <2>1. model.enabled = wish.enabled /\ DOMAIN ms = DOMAIN form.models \cup {m}
    BY <1>2, <1>10
  <2>2. Matches(form.models, wishes.form)
    BY DEF Inv, Recorded
  <2> HIDE DEF model, wish, ms
  <2> QED
    BY <1>6, <1>10, <2>1, <2>2, MatchesPut
<1>13. form # NoForm
  BY EmptyMap DEF NoForm
<1>14. Quiet /\ UNCHANGED <<providers, removed, egress>> /\ registry' \in Known \cup {None}
  BY DEF Enter, FormOnly, Inv, TypeOK, SettingsOK
<1> HIDE DEF ms, of
<1> QED
  BY <1>8, <1>9, <1>10, <1>11, <1>12, <1>13, <1>14, ModelsStep

LEMMA ToggleKeeps == ASSUME Inv, Toggle PROVE Inv'
<1>1. PICK m \in DOMAIN form.models :
        /\ form' = [form EXCEPT !.models[m].enabled = ~@]
        /\ wishes' = [wishes EXCEPT !.form =
                        Put(@, m, [Wishes(@, m) EXCEPT !.enabled = ~form.models[m].enabled])]
  BY DEF Toggle
<1> DEFINE old == form.models[m]
           model == [enabled |-> ~old.enabled, value |-> old.value, source |-> old.source]
           had == Wishes(wishes.form, m)
           wish == [enabled |-> ~old.enabled, said |-> had.said]
           ms == [form.models EXCEPT ![m] = model]
           of == Put(wishes.form, m, wish)
<1>2. old \in ModelSpecs /\ had \in Wish /\ Honest(old, had.said)
  BY WishesType DEF Inv, TypeOK, SettingsOK, Recorded, Matches, IsMap
<1>3. m \in Models /\ form.models \in [DOMAIN form.models -> ModelSpecs]
      /\ wishes = [form |-> wishes.form, saved |-> wishes.saved]
      /\ form = [id |-> form.id, account |-> form.account, models |-> form.models]
  BY DEF Inv, TypeOK, SettingsOK, IsMap
<1>4. model \in ModelSpecs /\ wish \in Wish
  BY <1>2 DEF ModelSpecs, Wish
<1>5. Honest(model, wish.said)
  BY <1>2 DEF Honest
<1>6. [old EXCEPT !.enabled = ~@] = model
  BY <1>2 DEF ModelSpecs
<1>7. form' = [form EXCEPT !.models = ms]
  BY <1>1, <1>3, <1>6
<1>8. wishes' = [wishes EXCEPT !.form = of]
  <2>1. [had EXCEPT !.enabled = ~old.enabled] = wish
    BY <1>2 DEF Wish
  <2> QED
    BY <1>1, <1>3, <2>1
<1>9. IsMap(ms, Models, ModelSpecs) /\ DOMAIN ms = DOMAIN form.models /\ ms[m] = model
      /\ \A n \in DOMAIN form.models : n # m => ms[n] = form.models[n]
  BY <1>4, <1>3 DEF IsMap, Inv, TypeOK, SettingsOK
<1>10. IsMap(of, Models, Wish)
  BY <1>4, <1>3, PutMap DEF Inv, TypeOK, SettingsOK
<1>11. Matches(ms, of)
  <2>1. model.enabled = wish.enabled /\ DOMAIN ms = DOMAIN form.models \cup {m}
    BY <1>9
  <2>2. Matches(form.models, wishes.form)
    BY DEF Inv, Recorded
  <2> HIDE DEF model, wish, ms
  <2> QED
    BY <1>5, <1>9, <2>1, <2>2, MatchesPut
<1>12. form # NoForm
  BY EmptyMap DEF NoForm
<1>13. Quiet /\ UNCHANGED <<providers, removed, egress>> /\ registry' \in Known \cup {None}
  BY DEF Toggle, FormOnly, Inv, TypeOK, SettingsOK
<1> HIDE DEF ms, of
<1> QED
  BY <1>7, <1>8, <1>9, <1>10, <1>11, <1>12, <1>13, ModelsStep

LEMMA AddKeeps == ASSUME Inv, Add PROVE Inv'
<1>1. PICK m \in Models \ DOMAIN form.models :
        /\ form' = [form EXCEPT !.models = Put(@, m, ModelSpec(TRUE, Blank, Blank))]
        /\ wishes' = [wishes EXCEPT !.form = Put(@, m, [enabled |-> TRUE, said |-> Empty])]
  BY DEF Add
<1>2. PICK model : model = ModelSpec(TRUE, Blank, Blank)
  OBVIOUS
<1>3. PICK wish : wish = [enabled |-> TRUE, said |-> Empty]
  OBVIOUS
<1>4. model \in ModelSpecs /\ Honest(model, Empty) /\ model.enabled = TRUE
  BY <1>2, BlankType DEF ModelSpec
<1>5. wish \in Wish
  <2>1. Empty \in Maps(Facts, Wished)
    BY EmptyMap, MapsAre
  <2> QED
    BY <1>3, <2>1 DEF Wish
<1> DEFINE ms == Put(form.models, m, model)
           of == Put(wishes.form, m, wish)
<1>6. /\ form = [id |-> form.id, account |-> form.account, models |-> form.models]
      /\ wishes = [form |-> wishes.form, saved |-> wishes.saved]
      /\ IsMap(form.models, Models, ModelSpecs) /\ IsMap(wishes.form, Models, Wish)
      /\ Matches(form.models, wishes.form)
  BY DEF Inv, TypeOK, SettingsOK, Recorded
<1>7. form' = [form EXCEPT !.models = ms] /\ wishes' = [wishes EXCEPT !.form = of]
  BY <1>1, <1>2, <1>3, <1>6
<1>8. IsMap(ms, Models, ModelSpecs) /\ IsMap(of, Models, Wish)
  BY <1>1, <1>4, <1>5, <1>6, PutMap
<1>9. Matches(ms, of)
  <2>1. DOMAIN ms = DOMAIN form.models \cup {m} /\ ms[m] = model
        /\ \A n \in DOMAIN form.models : n # m => ms[n] = form.models[n]
    BY DEF Put
  <2>2. model.enabled = wish.enabled /\ Honest(model, wish.said)
    BY <1>3, <1>4
  <2> HIDE DEF ms
  <2> QED
    BY <1>6, <2>1, <2>2, MatchesPut
<1>10. form # NoForm /\ Quiet /\ UNCHANGED <<providers, removed, egress>>
       /\ registry' \in Known \cup {None}
  BY DEF Add, FormOnly, Inv, TypeOK, SettingsOK
<1> HIDE DEF ms, of
<1> QED
  BY <1>7, <1>8, <1>9, <1>10, ModelsStep

LEMMA DropKeeps == ASSUME Inv, Drop PROVE Inv'
<1>1. PICK m \in DOMAIN form.models :
        /\ form' = [form EXCEPT !.models = Restrict(@, DOMAIN @ \ {m})]
        /\ wishes' = [wishes EXCEPT !.form = Restrict(@, DOMAIN @ \ {m})]
  BY DEF Drop
<1> DEFINE ms == Restrict(form.models, DOMAIN form.models \ {m})
           of == Restrict(wishes.form, DOMAIN wishes.form \ {m})
<1>2. /\ form = [id |-> form.id, account |-> form.account, models |-> form.models]
      /\ wishes = [form |-> wishes.form, saved |-> wishes.saved]
      /\ IsMap(form.models, Models, ModelSpecs) /\ IsMap(wishes.form, Models, Wish)
      /\ Matches(form.models, wishes.form)
  BY DEF Inv, TypeOK, SettingsOK, Recorded
<1>3. form' = [form EXCEPT !.models = ms] /\ wishes' = [wishes EXCEPT !.form = of]
  BY <1>1, <1>2
<1>4. IsMap(ms, Models, ModelSpecs) /\ IsMap(of, Models, Wish)
  BY <1>2, RestrictMap
<1>5. Matches(ms, of)
  BY <1>2, MatchesDrop
<1>6. Quiet /\ UNCHANGED <<providers, removed, egress>> /\ registry' \in Known \cup {None}
  BY DEF Drop, FormOnly, Inv, TypeOK, SettingsOK
<1>7. form # NoForm
  BY EmptyMap DEF NoForm
<1> HIDE DEF ms, of
<1> QED
  BY <1>3, <1>4, <1>5, <1>6, <1>7, ModelsStep

LEMMA DiscoverKeeps == ASSUME Inv, Discover PROVE Inv'
<1>1. PICK reports \in discover, fetched \in fetch_model_registry :
        /\ form' = [form EXCEPT !.models = Over(refresh_provider_models(reports, fetched), @)]
        /\ registry' \in {registry, Effective(fetched)}
  BY DEF Discover
<1>2. PICK new : new = refresh_provider_models(reports, fetched)
  OBVIOUS
<1>3. /\ IsMap(new, Models, ModelSpecs)
      /\ \A m \in DOMAIN new : /\ new[m].enabled = Wishes(wishes.form, m).enabled
                               /\ Honest(new[m], Wishes(wishes.form, m).said)
  BY <1>2, RefreshedModels DEF Inv
<1> DEFINE ms == Over(new, form.models)
<1>4. /\ form = [id |-> form.id, account |-> form.account, models |-> form.models]
      /\ wishes = [form |-> wishes.form, saved |-> wishes.saved]
      /\ IsMap(form.models, Models, ModelSpecs) /\ IsMap(wishes.form, Models, Wish)
      /\ Matches(form.models, wishes.form)
  BY DEF Inv, TypeOK, SettingsOK, Recorded
<1>5. form' = [form EXCEPT !.models = ms]
  BY <1>1, <1>2, <1>4
<1>6. IsMap(ms, Models, ModelSpecs)
  BY <1>3, <1>4 DEF Over, IsMap
<1>7. Matches(ms, wishes.form)
  BY <1>3, <1>4 DEF Over, Matches
<1>8. wishes' = [wishes EXCEPT !.form = wishes.form]
  BY <1>4 DEF Discover
<1>9. form # NoForm /\ Quiet /\ UNCHANGED <<providers, removed, egress>>
      /\ registry' \in Known \cup {None}
  BY <1>1 DEF Discover, Compiles, Effective, fetch_model_registry, Inv, TypeOK, SettingsOK
<1> HIDE DEF ms
<1> QED
  BY <1>4, <1>5, <1>6, <1>7, <1>8, <1>9, ModelsStep

(* The form of a saved Provider, and of one that is not saved yet.         *)
LEMMA OpenKeeps == ASSUME Inv, Open PROVE Inv'
<1>1. PICK id \in DOMAIN providers :
        /\ form' = [id |-> id, account |-> providers[id].account, models |-> providers[id].models]
        /\ wishes' = [wishes EXCEPT !.form = wishes.saved[id]]
  BY DEF Open
<1>2. Quiet /\ UNCHANGED <<providers, registry, removed, egress>>
  BY DEF Open, FormOnly
<1>3. wishes' = [form |-> wishes.saved[id], saved |-> wishes.saved]
  BY <1>1 DEF Inv, TypeOK, SettingsOK
<1>4. id \in IdSet /\ IsSaved(providers[id]) /\ id \in DOMAIN wishes.saved
  BY <1>1 DEF Inv, TypeOK, SettingsOK, Recorded
<1>5. SettingsOK'
  BY <1>1, <1>2, <1>3, <1>4 DEF Inv, TypeOK, SettingsOK, IsSaved
<1>6. Recorded'
  BY <1>1, <1>2, <1>3, <1>4 DEF Inv, Recorded
<1>7. Distinct'
  <2>1. id # "" /\ providers[id].account \in Accounts
    BY <1>4, ModelCatalogAssumption DEF IsSaved
  <2>2. form'.id = id /\ form'.account = providers[id].account
    BY <1>1
  <2> QED
    BY <1>1, <1>2, <2>1, <2>2 DEF Inv, Distinct
<1> QED
  BY <1>2, <1>5, <1>6, <1>7, FormStep

LEMMA NewKeeps == ASSUME Inv, New PROVE Inv'
<1>1. PICK a \in Accounts :
        /\ a \notin removed
        /\ \A id \in DOMAIN providers : providers[id].account # a
        /\ form' = [id |-> "", account |-> a, models |-> Empty]
  BY DEF New
<1>2. Quiet /\ UNCHANGED <<providers, registry, removed, egress>>
  BY DEF New, FormOnly
<1>3. wishes' = [form |-> Empty, saved |-> wishes.saved]
  BY DEF New, Inv, TypeOK, SettingsOK
<1>4. SettingsOK'
  BY <1>1, <1>2, <1>3, EmptyMap DEF Inv, TypeOK, SettingsOK
<1>5. Recorded'
  BY <1>1, <1>2, <1>3, MatchesEmpty DEF Inv, Recorded
<1>6. Distinct'
  <2>1. form'.id = "" /\ form'.account = a
    BY <1>1
  <2> QED
    BY <1>1, <1>2, <2>1 DEF Inv, Distinct
<1> QED
  BY <1>2, <1>4, <1>5, <1>6, FormStep

-----------------------------------------------------------------------------
(* The document, and what is published of it.                              *)
LEMMA MutateStep ==
  ASSUME Inv, NEW docs, Mutate(docs), SettingsOK', Recorded', Distinct', removed \subseteq removed',
         \A id \in DOMAIN providers :
           \/ id \in DOMAIN docs /\ docs[id].account = providers[id].account
           \/ providers[id].account \in removed'
  PROVE  Inv'
<1>1. /\ providers' = docs /\ publication' = prepare_reload(docs) /\ runtime' = runtime /\ Quiet
  BY DEF Mutate
<1>2. \A id, account : Belongs(id, account) => Belongs(id, account)'
  BY <1>1, BelongsStays
<1>3. /\ publication' \in Runtimes /\ publication' # None
      /\ publication'.routes = CatalogOverlay(docs) /\ publication'.overlay = CatalogOverlay(docs)
      /\ DOMAIN publication'.providers = DOMAIN docs
      /\ \A id \in DOMAIN docs : publication'.providers[id] = docs[id].account
  <2>1. DOMAIN docs \subseteq IdSet /\ \A id \in DOMAIN docs : IsSaved(docs[id])
    BY <1>1 DEF SettingsOK
  <2> QED
    BY <1>1, <2>1, Reload
<1>4. TypeOK'
  BY <1>1, <1>3 DEF Inv, TypeOK, EgressOK, CodexOK, Quiet
<1>5. Served'
  BY <1>1, <1>3 DEF Served
<1>6. Snapshots'
  <2>1. Fits(publication)'
    BY <1>1, <1>3 DEF Fits, Belongs, CatalogOverlay
  <2>2. Fits(runtime)'
    BY <1>1, <1>2, FitsStays DEF Inv, Snapshots, Fits
  <2>3. (listing # None => Fits(listing))'
    BY <1>1, <1>2, FitsStays DEF Inv, Snapshots, Fits, Quiet
  <2>4. (socket # None => Fits(socket.runtime))'
    BY <1>1, <1>2, FitsStays DEF Inv, Snapshots, Fits, Quiet
  <2> QED
    BY <2>1, <2>2, <2>3, <2>4 DEF Snapshots
<1>7. ListedOf'
  BY <1>1, <1>2 DEF Inv, ListedOf, Quiet
<1>8. Held'
  BY <1>1 DEF Inv, Held, SameRoute, Quiet
<1> QED
  BY <1>4, <1>5, <1>6, <1>7, <1>8 DEF Inv

(* The id the form is saved under, and the account it has there.           *)
LEMMA FormIdFits ==
  ASSUME Inv, Compiles
  PROVE  /\ FormId \in IdSet /\ form.account \in Accounts
         /\ FormId \in DOMAIN providers => form.account = providers[FormId].account
         /\ FormId \notin DOMAIN providers =>
              form.account \notin removed \cup {providers[id].account : id \in DOMAIN providers}
<1>1. form # NoForm /\ form.account \in Accounts
  BY DEF Compiles, Inv, Distinct
<1>2. CASE form.id = ""
  <2>1. NewId(DOMAIN providers) \in IdSet \ DOMAIN providers
    BY <1>2, NewIdFits DEF Compiles
  <2> QED
    BY <1>1, <1>2, <2>1 DEF FormId, Inv, Distinct
<1>3. CASE form.id # ""
  <2>1. form.id \in DOMAIN providers /\ form.account = providers[form.id].account
    BY <1>1, <1>3 DEF Inv, Distinct
  <2> QED
    BY <1>1, <1>3, <2>1 DEF FormId, Inv, TypeOK, SettingsOK
<1> QED
  BY <1>2, <1>3

LEMMA SaveKeeps == ASSUME Inv, Save PROVE Inv'
<1>1. PICK id : id = FormId
  OBVIOUS
<1>2. PICK new : new = compile_instance
  OBVIOUS
<1>3. PICK docs : docs = Put(providers, id, new)
  OBVIOUS
<1>4. /\ id \in IdSet /\ id # "" /\ id # None /\ form.account \in Accounts
      /\ id \in DOMAIN providers => form.account = providers[id].account
      /\ id \notin DOMAIN providers =>
           form.account \notin removed \cup {providers[i].account : i \in DOMAIN providers}
  BY <1>1, FormIdFits, ModelCatalogAssumption DEF Save
<1>5. /\ new.account = form.account /\ IsMap(new.models, Models, ModelSpecs)
      /\ Matches(new.models, wishes.form) /\ IsSaved(new)
  <2>1. /\ IsMap(new.models, Models, ModelSpecs) /\ Matches(new.models, wishes.form)
    BY <1>2, CompiledModels DEF Inv
  <2>2. PICK on, account, models : /\ new = [enabled |-> on, account |-> account, models |-> models]
                                   /\ account = form.account /\ on \in BOOLEAN
    <3>1. (IF FormId \in DOMAIN providers THEN providers[FormId].enabled ELSE TRUE) \in BOOLEAN
      BY DEF Inv, TypeOK, SettingsOK, IsSaved
    <3> QED
      BY <1>2, <3>1 DEF compile_instance
  <2> QED
    BY <1>4, <2>1, <2>2 DEF IsSaved
<1>6. Mutate(docs) /\ form' = [form EXCEPT !.id = id] /\ removed' = removed
      /\ wishes' = [wishes EXCEPT !.saved = Put(@, id, wishes.form)]
  BY <1>1, <1>2, <1>3 DEF Save
<1>7. providers' = docs /\ registry' = registry
  BY <1>6 DEF Mutate
<1>8. /\ DOMAIN docs = DOMAIN providers \cup {id} /\ docs[id] = new
      /\ \A i \in DOMAIN providers : i # id => docs[i] = providers[i]
  BY <1>3 DEF Put
<1>9. /\ form' = [id |-> id, account |-> form.account, models |-> form.models]
      /\ wishes' = [form |-> wishes.form, saved |-> Put(wishes.saved, id, wishes.form)]
  BY <1>6 DEF Inv, TypeOK, SettingsOK
<1>10. PICK saved : saved = Put(wishes.saved, id, wishes.form)
  OBVIOUS
<1>11. /\ DOMAIN saved = DOMAIN wishes.saved \cup {id} /\ saved[id] = wishes.form
       /\ \A i \in DOMAIN wishes.saved : i # id => saved[i] = wishes.saved[i]
  BY <1>10 DEF Put
<1>12. SettingsOK'
  BY <1>4, <1>5, <1>6, <1>7, <1>8, <1>9, <1>10, <1>11 DEF Inv, TypeOK, SettingsOK
<1>13. Recorded'
  BY <1>5, <1>7, <1>8, <1>9, <1>10, <1>11 DEF Inv, Recorded
<1>14. Distinct'
  <2>1. form'.id = id /\ form'.account = form.account /\ removed' = removed
    BY <1>6, <1>9
  <2>2. /\ \A i \in DOMAIN docs : docs[i].account \notin removed
        /\ \A i \in DOMAIN docs : \A other \in DOMAIN docs \ {i} : docs[other].account # docs[i].account
    <3>1. /\ \A i \in DOMAIN providers : providers[i].account \notin removed
          /\ \A i \in DOMAIN providers : \A other \in DOMAIN providers \ {i} :
               providers[other].account # providers[i].account
      BY DEF Inv, Distinct
    <3>2. docs[id].account = form.account
      BY <1>5, <1>8
    <3>3. \A i \in DOMAIN providers \ {id} : docs[i].account = providers[i].account
      BY <1>8
    <3>4. CASE id \in DOMAIN providers
      <4>1. \A i \in DOMAIN docs : i \in DOMAIN providers /\ docs[i].account = providers[i].account
        BY <1>4, <1>8, <3>2, <3>3, <3>4
      <4> QED
        BY <3>1, <4>1
    <3>5. CASE id \notin DOMAIN providers
      <4>1. /\ \A i \in DOMAIN providers : docs[i].account = providers[i].account
            /\ \A i \in DOMAIN providers : docs[id].account # providers[i].account
            /\ docs[id].account \notin removed
        BY <1>4, <3>2, <3>3, <3>5
      <4>2. DOMAIN docs = DOMAIN providers \cup {id}
        BY <1>8
      <4>3. ASSUME NEW i \in DOMAIN docs PROVE docs[i].account \notin removed
        BY <3>1, <4>1, <4>2
      <4>4. ASSUME NEW i \in DOMAIN docs, NEW other \in DOMAIN docs \ {i}
            PROVE  docs[other].account # docs[i].account
        <5>1. i \in DOMAIN providers \/ i = id
          BY <4>2
        <5>2. other \in DOMAIN providers \/ other = id
          BY <4>2
        <5> QED
          BY <3>1, <4>1, <5>1, <5>2
      <4> QED
        BY <4>3, <4>4
    <3> QED
      BY <3>4, <3>5
  <2> QED
    BY <1>4, <1>5, <1>7, <1>8, <2>1, <2>2 DEF Distinct
<1>15. \A i \in DOMAIN providers : i \in DOMAIN docs /\ docs[i].account = providers[i].account
  BY <1>4, <1>5, <1>8
<1> QED
  BY <1>6, <1>12, <1>13, <1>14, <1>15, MutateStep

LEMMA SwitchKeeps == ASSUME Inv, SetProviderEnabled PROVE Inv'
<1>1. PICK id \in DOMAIN providers : Mutate([providers EXCEPT ![id].enabled = ~@])
  BY DEF SetProviderEnabled
<1>2. PICK docs : docs = [providers EXCEPT ![id].enabled = ~@]
  OBVIOUS
<1>3. PICK new : new = [providers[id] EXCEPT !.enabled = ~@]
  OBVIOUS
<1>4. IsSaved(providers[id])
  BY DEF Inv, TypeOK, SettingsOK
<1>5. new.account = providers[id].account /\ new.models = providers[id].models /\ IsSaved(new)
  BY <1>3, <1>4 DEF IsSaved
<1>6. /\ DOMAIN docs = DOMAIN providers /\ docs[id] = new
      /\ \A i \in DOMAIN providers : i # id => docs[i] = providers[i]
  BY <1>2, <1>3
<1>7. providers' = docs /\ Mutate(docs) /\ UNCHANGED <<form, wishes, removed, registry>>
  BY <1>1, <1>2 DEF Mutate, SetProviderEnabled
<1>8. SettingsOK'
  BY <1>5, <1>6, <1>7 DEF Inv, TypeOK, SettingsOK
<1>9. Recorded'
  BY <1>5, <1>6, <1>7 DEF Inv, Recorded
<1>10. \A i \in DOMAIN providers : docs[i].account = providers[i].account
  BY <1>5, <1>6
<1>11. Distinct'
  <2>1. {providers'[i].account : i \in DOMAIN providers'}
          = {providers[i].account : i \in DOMAIN providers}
    BY <1>6, <1>7, <1>10
  <2>2. \A i \in DOMAIN providers : providers'[i].account = providers[i].account
    BY <1>7, <1>10
  <2>3. DOMAIN providers' = DOMAIN providers
    BY <1>6, <1>7
  <2>4. \A i \in DOMAIN providers' :
          /\ providers'[i].account \notin removed'
          /\ \A other \in DOMAIN providers' \ {i} : providers'[other].account # providers'[i].account
    <3>1. /\ \A i \in DOMAIN providers : providers[i].account \notin removed
          /\ \A i \in DOMAIN providers : \A other \in DOMAIN providers \ {i} :
               providers[other].account # providers[i].account
      BY DEF Inv, Distinct
    <3>2. removed' = removed
      BY <1>7
    <3>3. ASSUME NEW i \in DOMAIN providers, NEW other \in DOMAIN providers \ {i}
          PROVE  providers'[other].account # providers'[i].account
      BY <2>2, <3>1
    <3> QED
      BY <2>2, <2>3, <3>1, <3>2, <3>3
  <2>5. form # NoForm =>
          /\ form.account \in Accounts
          /\ IF form.id = ""
             THEN form.account \notin removed \cup {providers'[i].account : i \in DOMAIN providers'}
             ELSE form.id \in DOMAIN providers' /\ form.account = providers'[form.id].account
    BY <2>1, <2>2, <2>3 DEF Inv, Distinct
  <2> QED
    BY <1>7, <2>4, <2>5 DEF Distinct
<1> QED
  BY <1>6, <1>7, <1>8, <1>9, <1>10, <1>11, MutateStep

LEMMA RemoveKeeps == ASSUME Inv, Remove PROVE Inv'
<1>1. PICK id \in DOMAIN providers : id = form.id
  BY DEF Remove
<1>2. PICK docs : docs = Restrict(providers, DOMAIN providers \ {id})
  OBVIOUS
<1>3. PICK saved : saved = Restrict(wishes.saved, DOMAIN providers \ {id})
  OBVIOUS
<1>4. /\ Mutate(docs) /\ providers' = docs /\ registry' = registry /\ form' = NoForm
      /\ removed' = removed \cup {providers[id].account}
      /\ wishes' = [form |-> Empty, saved |-> saved]
  BY <1>1, <1>2, <1>3 DEF Remove, Mutate
<1>5. DOMAIN docs = DOMAIN providers \ {id} /\ \A i \in DOMAIN docs : docs[i] = providers[i]
  BY <1>2 DEF Restrict
<1>6. DOMAIN saved = DOMAIN docs /\ \A i \in DOMAIN saved : saved[i] = wishes.saved[i]
  BY <1>3, <1>5 DEF Restrict, Inv, Recorded
<1>7. SettingsOK'
  <2>1. providers[id].account \in Accounts
    BY DEF Inv, TypeOK, SettingsOK, IsSaved
  <2> QED
    BY <1>4, <1>5, <1>6, <2>1, EmptyMap DEF Inv, TypeOK, SettingsOK, NoForm, Recorded
<1>8. Recorded'
  BY <1>4, <1>5, <1>6, MatchesEmpty DEF Inv, Recorded, NoForm
<1>9. Distinct'
  <2>1. ASSUME NEW i \in DOMAIN docs
        PROVE  /\ docs[i].account \notin removed'
               /\ \A other \in DOMAIN docs \ {i} : docs[other].account # docs[i].account
    BY <1>1, <1>4, <1>5 DEF Inv, Distinct
  <2> QED
    BY <1>4, <2>1 DEF Distinct
<1>10. \A i \in DOMAIN providers :
         \/ i \in DOMAIN docs /\ docs[i].account = providers[i].account
         \/ providers[i].account \in removed'
  BY <1>4, <1>5
<1> QED
  BY <1>4, <1>7, <1>8, <1>9, <1>10, MutateStep

LEMMA CommitKeeps == ASSUME Inv, commit_reload PROVE Inv'
<1>1. /\ publication # None /\ runtime' = publication /\ publication' = None /\ Quiet
      /\ UNCHANGED settings
  BY DEF commit_reload
<1>2. TypeOK'
  BY <1>1 DEF Inv, TypeOK, SettingsOK, EgressOK, CodexOK, Quiet, settings
<1>3. Recorded' /\ Distinct'
  BY <1>1 DEF Inv, Recorded, Distinct, settings
<1>4. Served'
  BY <1>1 DEF Inv, Served, settings
<1>5. Snapshots'
  BY <1>1 DEF Inv, Snapshots, Fits, Belongs, Quiet, settings
<1>6. ListedOf' /\ Held'
  BY <1>1 DEF Inv, ListedOf, Belongs, Held, SameRoute, Quiet, settings
<1> QED
  BY <1>2, <1>3, <1>4, <1>5, <1>6 DEF Inv

LEMMA RestartKeeps == ASSUME Inv, Restart PROVE Inv'
<1>1. /\ form' = NoForm /\ wishes' = [wishes EXCEPT !.form = Empty]
      /\ runtime' = prepare_reload(providers) /\ publication' = None
      /\ listing' = None /\ socket' = None /\ answer' = None
      /\ UNCHANGED <<providers, registry, removed, listed>>
  BY DEF Restart
<1>2. wishes' = [form |-> Empty, saved |-> wishes.saved]
  BY <1>1 DEF Inv, TypeOK, SettingsOK
<1>3. /\ runtime' \in Runtimes
      /\ runtime'.routes = CatalogOverlay(providers) /\ runtime'.overlay = CatalogOverlay(providers)
      /\ DOMAIN runtime'.providers = DOMAIN providers
      /\ \A id \in DOMAIN providers : runtime'.providers[id] = providers[id].account
  BY <1>1, Reload DEF Inv, TypeOK, SettingsOK
<1>4. TypeOK'
  <2>1. SettingsOK'
    <3>1. IsMap(Empty, Models, ModelSpecs) /\ IsMap(Empty, Models, Wish)
      BY EmptyMap
    <3>2. form' = [id |-> None, account |-> None, models |-> Empty]
      BY <1>1 DEF NoForm
    <3>3. /\ form' \in [id: IdSet \cup {"", None}, account: Accounts \cup {None},
                        models: {form'.models}]
          /\ IsMap(form'.models, Models, ModelSpecs)
      BY <3>1, <3>2
    <3>4. /\ wishes' \in [form: {wishes'.form}, saved: {wishes'.saved}]
          /\ IsMap(wishes'.form, Models, Wish) /\ wishes'.saved = wishes.saved
      BY <1>2, <3>1
    <3> QED
      BY <1>1, <3>3, <3>4 DEF Inv, TypeOK, SettingsOK
  <2> QED
    BY <1>1, <1>3, <2>1 DEF Inv, TypeOK, EgressOK, CodexOK
<1>5. Recorded'
  BY <1>1, <1>2, MatchesEmpty DEF Inv, Recorded, NoForm
<1>6. Served'
  BY <1>1 DEF Served, prepare_reload, build_runtime_snapshot, build_provider_map, CatalogOverlay,
     Enabled
<1>7. Distinct'
  BY <1>1 DEF Inv, Distinct
<1>8. Snapshots'
  BY <1>1, <1>3 DEF Snapshots, Fits, Belongs, CatalogOverlay
<1>9. ListedOf' /\ Held'
  BY <1>1 DEF Inv, ListedOf, Belongs, Held
<1> QED
  BY <1>4, <1>5, <1>6, <1>7, <1>8, <1>9 DEF Inv

-----------------------------------------------------------------------------
(* Codex.                                                                  *)
LEMMA CodexStep ==
  ASSUME Inv, Settled, CodexOK',
         listing' # None => listing' \in {runtime, listing},
         socket' # None => IF socket = None THEN socket'.runtime = runtime
                                            ELSE socket'.runtime = socket.runtime,
         ListedOf', Held'
  PROVE  Inv'
<1>1. UNCHANGED <<providers, form, registry, wishes, removed, runtime, publication>>
  BY DEF Settled, settings, egress
<1>2. TypeOK'
  BY <1>1 DEF Inv, TypeOK, SettingsOK, EgressOK
<1>3. Recorded' /\ Distinct'
  BY <1>1 DEF Inv, Recorded, Distinct
<1>4. Served'
  BY <1>1 DEF Inv, Served
<1>5. \A id, account : Belongs(id, account) => Belongs(id, account)'
  BY <1>1 DEF Belongs
<1>6. Snapshots'
  <2>1. Fits(runtime)' /\ (publication # None => Fits(publication))'
    BY <1>1, <1>5 DEF Inv, Snapshots, Fits
  <2>2. (listing # None => Fits(listing))'
    BY <1>5 DEF Inv, Snapshots, Fits
  <2>3. (socket # None => Fits(socket.runtime))'
    BY <1>5 DEF Inv, Snapshots, Fits
  <2> QED
    BY <2>1, <2>2, <2>3 DEF Snapshots
<1> QED
  BY <1>2, <1>3, <1>4, <1>6 DEF Inv

(* Names: those with a slash are the Providers'.                           *)
LEMMA SlashedName ==
  ASSUME NEW name \in Names
  PROVE  /\ Slashed(name) <=> name \in IdSet \X Models
         /\ ~ Slashed(name) <=> name \in Official
<1>1. \A official \in Official : Len(official) = 1
  BY ModelCatalogAssumption
<1>2. \A id \in IdSet, m \in Models : Len(<<id, m>>) = 2
  OBVIOUS
<1>3. ASSUME NEW pair \in IdSet \X Models PROVE Len(pair) = 2
  <2>1. pair = <<pair[1], pair[2]>> /\ pair[1] \in IdSet /\ pair[2] \in Models
    OBVIOUS
  <2> QED
    BY <1>2, <2>1
<1> QED
  BY <1>1, <1>3 DEF Slashed, Names

(* Who answers a name: nobody, the official endpoint only a name without a *)
(* slash, or the account the snapshot has for the Provider of the name.    *)
LEMMA ResolveIs ==
  ASSUME NEW rt \in Runtimes, NEW name \in Names,
         \A n \in rt.routes \cup rt.overlay : n[1] \in DOMAIN rt.providers
  PROVE  /\ resolve(rt, name) \in Accounts \cup {"official", "refused"}
         /\ resolve(rt, name) = "official" => ~ Slashed(name)
         /\ ~ Slashed(name) => resolve(rt, name) = "official"
         /\ Slashed(name) /\ resolve(rt, name) # "refused" =>
              /\ name[1] \in DOMAIN rt.providers /\ name[1] \in IdSet
              /\ resolve(rt, name) = rt.providers[name[1]] /\ resolve(rt, name) \in Accounts
<1>1. rt.routes \subseteq IdSet \X Models /\ IsMap(rt.providers, IdSet, Accounts)
  BY MapsAre DEF Runtimes
<1>2. CASE name \in rt.routes
  <2>1. Slashed(name) /\ name[1] \in DOMAIN rt.providers /\ name[1] \in IdSet
    BY <1>1, <1>2, SlashedName
  <2>2. resolve(rt, name) = rt.providers[name[1]] /\ rt.providers[name[1]] \in Accounts
    BY <1>1, <1>2, <2>1 DEF resolve, IsMap
  <2>3. resolve(rt, name) # "official" /\ resolve(rt, name) # "refused"
    BY <2>2, ModelCatalogAssumption
  <2> QED
    BY <2>1, <2>2, <2>3
<1>3. CASE name \notin rt.routes
  BY <1>3 DEF resolve
<1> QED
  BY <1>2, <1>3

LEMMA AskListKeeps == ASSUME Inv, AskList PROVE Inv'
<1>1. listing' = runtime /\ answer' = None /\ UNCHANGED <<listed, socket>> /\ Settled
  BY DEF AskList
<1>2. UNCHANGED <<providers, removed>>
  BY <1>1 DEF Settled, settings
<1>3. CodexOK'
  BY <1>1 DEF Inv, TypeOK, EgressOK, CodexOK
<1>4. ListedOf' /\ Held'
  BY <1>1, <1>2 DEF Inv, ListedOf, Belongs, Held, SameRoute
<1> QED
  BY <1>1, <1>3, <1>4, CodexStep

LEMMA ListKeeps == ASSUME Inv, proxy_official_models PROVE Inv'
<1>1. listing # None /\ listing' = None /\ answer' = None /\ socket' = socket /\ Settled
  BY DEF proxy_official_models
<1>2. UNCHANGED <<providers, removed>>
  BY <1>1 DEF Settled, settings
<1>3. listing \in Runtimes /\ Fits(listing) /\ IsMap(listing.providers, IdSet, Accounts)
      /\ listing.overlay \subseteq IdSet \X Models
  BY <1>1, MapsAre DEF Inv, TypeOK, CodexOK, Snapshots, Runtimes
<1>4. CASE listed' = listed
  <2>1. CodexOK'
    BY <1>1, <1>4 DEF Inv, TypeOK, CodexOK
  <2>2. ListedOf' /\ Held'
    BY <1>1, <1>2, <1>4 DEF Inv, ListedOf, Belongs, Held, SameRoute
  <2> QED
    BY <1>1, <2>1, <2>2, CodexStep
<1>5. CASE \E official \in OfficialLists : listed' = merge(listing, official)
  <2>1. PICK official \in OfficialLists : listed' = merge(listing, official)
    BY <1>5
  <2>2. /\ DOMAIN listed' = official \cup listing.overlay
        /\ \A name \in listing.overlay : listed'[name] = listing.providers[name[1]]
        /\ \A name \in official \ listing.overlay : listed'[name] = "official"
        /\ listed' = [name \in DOMAIN listed' |-> listed'[name]]
    BY <2>1 DEF merge
  <2>3. \A name \in listing.overlay :
          /\ name[1] \in DOMAIN listing.providers /\ listing.providers[name[1]] \in Accounts
          /\ Belongs(name[1], listing.providers[name[1]])
    BY <1>3 DEF Fits, IsMap
  <2>4. \A name \in DOMAIN listed' : listed'[name] \in Accounts \cup {"official"}
    BY <2>2, <2>3
  <2>5. CodexOK'
    BY <1>1, <2>2, <2>4 DEF Inv, TypeOK, CodexOK
  <2>6. ListedOf'
    BY <1>2, <1>3, <2>2, <2>3, ModelCatalogAssumption DEF ListedOf, Belongs
  <2>7. Held'
    BY <1>1 DEF Inv, Held, SameRoute
  <2> QED
    BY <1>1, <2>5, <2>6, <2>7, CodexStep
<1> QED
  BY <1>4, <1>5 DEF proxy_official_models

LEMMA AskKeeps == ASSUME Inv, Ask PROVE Inv'
<1>1. PICK name \in Names : answer' = [name |-> name, by |-> resolve(runtime, name), via |-> "http"]
  BY DEF Ask, Answer
<1>2. UNCHANGED <<listing, listed, socket>> /\ Settled
  BY DEF Ask
<1>3. UNCHANGED <<providers, removed>>
  BY <1>2 DEF Settled, settings
<1>4. resolve(runtime, name) \in Accounts \cup {"official", "refused"}
  BY ResolveIs DEF Inv, TypeOK, EgressOK, Snapshots, Fits
<1>5. CodexOK'
  BY <1>1, <1>2, <1>4 DEF Inv, TypeOK, CodexOK
<1>6. ListedOf' /\ Held'
  BY <1>2, <1>3 DEF Inv, ListedOf, Belongs, Held, SameRoute
<1> QED
  BY <1>2, <1>5, <1>6, CodexStep

LEMMA ConnectKeeps == ASSUME Inv, Connect PROVE Inv'
<1>1. PICK name \in Names :
        /\ answer' = [name |-> name, by |-> resolve(runtime, name), via |-> "connect"]
        /\ socket' = IF resolve(runtime, name) = "refused" THEN None
                     ELSE [runtime |-> runtime, account |-> resolve(runtime, name), asked |-> {name},
                           id |-> IF Slashed(name) THEN name[1] ELSE None]
  BY DEF Connect, Answer
<1>2. socket = None /\ UNCHANGED <<listing, listed>> /\ Settled
  BY DEF Connect
<1>3. UNCHANGED <<providers, removed>>
  BY <1>2 DEF Settled, settings
<1>4. PICK by : by = resolve(runtime, name)
  OBVIOUS
<1>5. /\ runtime \in Runtimes /\ by \in Accounts \cup {"official", "refused"}
      /\ ~ Slashed(name) => by = "official"
      /\ Slashed(name) /\ by # "refused" =>
           /\ name[1] \in DOMAIN runtime.providers /\ name[1] \in IdSet
           /\ by = runtime.providers[name[1]]
  BY <1>4, ResolveIs DEF Inv, TypeOK, EgressOK, Snapshots, Fits
<1>6. PICK id : id = IF Slashed(name) THEN name[1] ELSE None
  OBVIOUS
<1>7. by # "refused" => id \in IdSet \cup {None} /\ (id = None <=> ~ Slashed(name))
  BY <1>5, <1>6, ModelCatalogAssumption
<1>8. socket' = IF by = "refused" THEN None
                ELSE [runtime |-> runtime, account |-> by, asked |-> {name}, id |-> id]
  BY <1>1, <1>4, <1>6
<1>9. CodexOK'
  <2>1. answer' \in [name: Names, by: Accounts \cup {"official", "refused"},
                     via: {"http", "connect", "followup"}]
    BY <1>1, <1>4, <1>5
  <2>2. socket' = None \/ socket' \in [runtime: Runtimes, account: Accounts \cup {"official"},
                                      id: IdSet \cup {None}, asked: SUBSET Names]
    BY <1>5, <1>7, <1>8
  <2> QED
    BY <1>2, <2>1, <2>2 DEF Inv, TypeOK, CodexOK
<1>10. ListedOf'
  BY <1>2, <1>3 DEF Inv, ListedOf, Belongs
<1>11. Held'
  <2>1. SUFFICES ASSUME by # "refused" PROVE Held'
    BY <1>8 DEF Held
  <2>2. /\ socket'.runtime = runtime /\ socket'.account = by /\ socket'.asked = {name}
        /\ socket'.id = id
    BY <1>8, <2>1
  <2>3. resolve(socket'.runtime, name) # "refused"
    BY <1>4, <2>1, <2>2
  <2>4. SameRoute(name)'
    BY <1>6, <2>2 DEF SameRoute
  <2>5. \A n \in socket'.asked : SameRoute(n)' /\ resolve(socket'.runtime, n) # "refused"
    BY <2>2, <2>3, <2>4
  <2> QED
    BY <1>5, <1>6, <1>7, <2>1, <2>2, <2>5 DEF Held
<1>12. socket' # None => socket'.runtime = runtime
  BY <1>8
<1> QED
  BY <1>2, <1>9, <1>10, <1>11, <1>12, CodexStep

LEMMA FollowUpKeeps == ASSUME Inv, FollowUp PROVE Inv'
<1>1. PICK name \in Names :
        /\ answer' = [name |-> name, by |-> FollowedBy(name), via |-> "followup"]
        /\ socket' = IF FollowedBy(name) = "refused" THEN None
                     ELSE [socket EXCEPT !.asked = @ \cup {name}]
  BY DEF FollowUp, Answer
<1>2. socket # None /\ UNCHANGED <<listing, listed>> /\ Settled
  BY DEF FollowUp
<1>3. UNCHANGED <<providers, removed>>
  BY <1>2 DEF Settled, settings
<1>4. socket \in [runtime: Runtimes, account: Accounts \cup {"official"}, id: IdSet \cup {None},
                  asked: SUBSET Names]
  BY <1>2 DEF Inv, TypeOK, CodexOK
<1>5. FollowedBy(name) \in Accounts \cup {"official", "refused"}
  BY <1>4 DEF FollowedBy
<1>6. FollowedBy(name) # "refused" =>
        /\ SameRoute(name) /\ resolve(socket.runtime, name) # "refused"
        /\ socket' = [runtime |-> socket.runtime, account |-> socket.account, id |-> socket.id,
                      asked |-> socket.asked \cup {name}]
  BY <1>1, <1>4 DEF FollowedBy
<1>7. FollowedBy(name) = "refused" => socket' = None
  BY <1>1
<1>8. CodexOK'
  <2>1. answer' \in [name: Names, by: Accounts \cup {"official", "refused"},
                     via: {"http", "connect", "followup"}]
    BY <1>1, <1>5
  <2>2. socket' = None \/ socket' \in [runtime: Runtimes, account: Accounts \cup {"official"},
                                      id: IdSet \cup {None}, asked: SUBSET Names]
    BY <1>4, <1>6, <1>7
  <2> QED
    BY <1>2, <2>1, <2>2 DEF Inv, TypeOK, CodexOK
<1>9. ListedOf'
  BY <1>2, <1>3 DEF Inv, ListedOf, Belongs
<1>10. Held'
  <2>1. SUFFICES ASSUME FollowedBy(name) # "refused" PROVE Held'
    BY <1>7 DEF Held
  <2>2. /\ socket'.runtime = socket.runtime /\ socket'.account = socket.account
        /\ socket'.asked = socket.asked \cup {name} /\ socket'.id = socket.id
    BY <1>6, <2>1
  <2>3. \A n \in socket'.asked : SameRoute(n) /\ resolve(socket.runtime, n) # "refused"
    BY <1>2, <1>6, <2>1, <2>2 DEF Inv, Held
  <2>4. \A n \in socket'.asked : SameRoute(n)' /\ resolve(socket'.runtime, n) # "refused"
    BY <2>2, <2>3 DEF SameRoute
  <2> QED
    BY <1>2, <2>2, <2>4 DEF Inv, Held
<1>11. socket' # None => socket'.runtime = socket.runtime
  BY <1>6, <1>7
<1> QED
  BY <1>2, <1>8, <1>9, <1>10, <1>11, CodexStep

-----------------------------------------------------------------------------
LEMMA InitInv == Init => Inv
<1> SUFFICES ASSUME Init PROVE Inv
  OBVIOUS
<1>1. /\ providers = Empty /\ form = [id |-> None, account |-> None, models |-> Empty]
      /\ registry \in Known \cup {None} /\ runtime = prepare_reload(providers)
      /\ publication = None /\ listing = None /\ listed = Empty /\ socket = None /\ answer = None
      /\ removed = {} /\ wishes = [form |-> Empty, saved |-> Empty]
  BY DEF Init, NoForm
<1>2. DOMAIN Empty = {} /\ IsMap(Empty, Models, ModelSpecs) /\ IsMap(Empty, Models, Wish)
      /\ Empty \in [{} -> Accounts \cup {"official"}]
  BY EmptyMap DEF Empty
<1>3. SettingsOK
  BY <1>1, <1>2 DEF SettingsOK
<1>4. runtime \in Runtimes /\ DOMAIN runtime.providers = {}
      /\ runtime.routes = CatalogOverlay(providers) /\ runtime.overlay = CatalogOverlay(providers)
  BY <1>1, <1>2, Reload
<1>5. TypeOK
  BY <1>1, <1>2, <1>3, <1>4 DEF TypeOK, EgressOK, CodexOK
<1>6. Recorded
  BY <1>1, <1>2, MatchesEmpty DEF Recorded
<1>7. Served /\ Distinct
  BY <1>1, <1>2 DEF Served, Distinct, NoForm
<1>8. Snapshots /\ ListedOf /\ Held
  BY <1>1, <1>2, <1>4 DEF Snapshots, Fits, CatalogOverlay, ListedOf, Held
<1> QED
  BY <1>5, <1>6, <1>7, <1>8 DEF Inv

LEMMA NextInv == Inv /\ [Next]_vars => Inv'
<1> SUFFICES ASSUME Inv, [Next]_vars PROVE Inv'
  OBVIOUS
<1>1. CASE UNCHANGED vars
  <2>1. TypeOK'
    <3>1. /\ UNCHANGED <<providers, form, registry, wishes, removed, runtime, publication>>
          /\ UNCHANGED <<listing, listed, socket, answer, budget>>
      BY <1>1 DEF vars, settings, egress, codex
    <3>2. SettingsOK'
      BY <3>1 DEF Inv, TypeOK, SettingsOK
    <3>3. EgressOK'
      BY <3>1 DEF Inv, TypeOK, EgressOK
    <3>4. CodexOK'
      BY <3>1 DEF Inv, TypeOK, CodexOK
    <3> QED
      BY <3>2, <3>3, <3>4 DEF TypeOK
  <2>2. Recorded' /\ Served' /\ Distinct'
    BY <1>1 DEF Inv, Recorded, Served, Distinct, vars, settings, egress
  <2>3. Snapshots' /\ ListedOf' /\ Held'
    BY <1>1 DEF Inv, Snapshots, Fits, Belongs, ListedOf, Held, SameRoute, vars, settings, egress,
       codex
  <2> QED
    BY <2>1, <2>2, <2>3 DEF Inv
<1>2. CASE Next
  BY <1>2, OpenKeeps, NewKeeps, EnterKeeps, ToggleKeeps, AddKeeps, DropKeeps, DiscoverKeeps,
     SaveKeeps, SwitchKeeps, RemoveKeeps, CommitKeeps, RestartKeeps, AskListKeeps, ListKeeps,
     AskKeeps, ConnectKeeps, FollowUpKeeps DEF Next
<1> QED
  BY <1>1, <1>2

LEMMA Invariance == Spec => []Inv
BY InitInv, NextInv, PTL DEF Spec

(* Every part of the state keeps its type, for every number of ids, models *)
(* and accounts: in particular a compiled or refreshed model is always a   *)
(* whole one, and what is published is made of ids and models that exist.  *)
THEOREM CatalogTypes == Spec => []TypeOK
<1>1. Inv => TypeOK
  BY DEF Inv
<1> QED
  BY <1>1, Invariance, PTL

(* What the settings record of a model is true: confirmed by the user only *)
(* what the user entered, and what the user entered stays confirmed.       *)
THEOREM SourcesHonest == Spec => []SourcesAreHonest
<1>1. Inv => SourcesAreHonest
  BY DEF Inv, Recorded, Matches, SourcesAreHonest
<1> QED
  BY <1>1, Invariance, PTL

(* The router serves, lists and can place exactly the models the user      *)
(* switched on of the Providers the user switched on, as last saved.       *)
THEOREM RoutesAreChosen == Spec => []RoutedAsChosen
<1>1. ASSUME Inv PROVE RoutedAsChosen
  <2>1. PICK served : served = IF publication = None THEN runtime ELSE publication
    OBVIOUS
  <2>2. served = prepare_reload(providers)
    BY <1>1, <2>1 DEF Inv, Served
  <2>3. /\ served.routes = CatalogOverlay(providers) /\ served.overlay = CatalogOverlay(providers)
        /\ \A id \in DOMAIN providers : served.providers[id] = providers[id].account
    BY <1>1, <2>2, Reload DEF Inv, TypeOK, SettingsOK
  <2>4. CatalogOverlay(providers) = Chosen
    <3>1. ASSUME NEW id \in DOMAIN providers, NEW m \in Models
          PROVE  m \in Enabled(providers, id) <=> Wishes(wishes.saved[id], m).enabled
      <4>1. Matches(providers[id].models, wishes.saved[id])
        BY <1>1 DEF Inv, Recorded
      <4>2. CASE m \in DOMAIN providers[id].models
        BY <4>1, <4>2 DEF Matches, Enabled
      <4>3. CASE m \notin DOMAIN providers[id].models
        BY <4>1, <4>3 DEF Matches, Enabled, Wishes, NoWish
      <4> QED
        BY <4>2, <4>3
    <3> QED
      BY <3>1 DEF CatalogOverlay, Chosen
  <2> QED
    BY <2>1, <2>3, <2>4 DEF RoutedAsChosen
<1> QED
  BY <1>1, Invariance, PTL

-----------------------------------------------------------------------------
(* Two accounts an id was given to, neither of them removed, are the same. *)
LEMMA OneAccount ==
  ASSUME NEW id, NEW one, NEW other, Belongs(id, one), Belongs(id, other)
  PROVE  one = other \/ {one, other} \cap removed # {}
BY DEF Belongs

LEMMA AnswerStep == Inv /\ Next => AnsweredAsListed'
<1> SUFFICES ASSUME Inv, Next, answer' # None PROVE AnsweredAsListed'
  BY DEF AnsweredAsListed
<1>1. Ask \/ Connect \/ FollowUp
  BY DEF Next, Open, New, Enter, Toggle, Add, Drop, Discover, Save, SetProviderEnabled, Remove,
     Mutate, commit_reload, Restart, AskList, proxy_official_models, FormOnly, Quiet
<1>2. UNCHANGED <<listed, providers, removed, runtime, publication>>
  BY <1>1 DEF Ask, Connect, FollowUp, Settled, settings, egress
<1>3. PICK name, by, via : /\ name \in Names /\ answer' = [name |-> name, by |-> by, via |-> via]
                           /\ \/ by = resolve(runtime, name) /\ (Ask \/ Connect)
                              \/ by = FollowedBy(name) /\ FollowUp /\ via = "followup"
  BY <1>1 DEF Ask, Connect, FollowUp, Answer
<1>4. answer'.name = name /\ answer'.by = by /\ answer'.via = via /\ name \in Names
  BY <1>3
<1> DEFINE Good == /\ by = "official" => ~Slashed(name)
                   /\ by \in Accounts => /\ Slashed(name) /\ Belongs(name[1], by)
                                         /\ by \in removed => publication # None \/ via = "followup"
<1>5. ASSUME by = resolve(runtime, name) PROVE Good
  <2>1. /\ runtime \in Runtimes /\ Fits(runtime)
        /\ \A n \in runtime.routes \cup runtime.overlay : n[1] \in DOMAIN runtime.providers
    BY DEF Inv, TypeOK, EgressOK, Snapshots, Fits
  <2>2. /\ by = "official" => ~ Slashed(name)
        /\ ~ Slashed(name) => by = "official"
        /\ Slashed(name) /\ by # "refused" =>
             name[1] \in DOMAIN runtime.providers /\ by = runtime.providers[name[1]]
    BY <1>4, <1>5, <2>1, ResolveIs
  <2>3. by \in Accounts => Slashed(name) /\ by # "refused"
    BY <2>2, ModelCatalogAssumption
  <2>4. ASSUME by \in Accounts, publication = None PROVE by \notin removed
    <3>1. runtime = prepare_reload(providers)
      BY <2>4 DEF Inv, Served
    <3>2. /\ DOMAIN runtime.providers = DOMAIN providers
          /\ \A id \in DOMAIN providers : runtime.providers[id] = providers[id].account
      BY <3>1, Reload DEF Inv, TypeOK, SettingsOK
    <3> QED
      BY <2>2, <2>3, <2>4, <3>2 DEF Inv, Distinct
  <2> QED
    BY <2>1, <2>2, <2>3, <2>4 DEF Fits
<1>6. ASSUME by = FollowedBy(name), FollowUp, via = "followup" PROVE Good
  <2>1. SUFFICES ASSUME by # "refused" PROVE Good
    BY ModelCatalogAssumption
  <2>2. /\ socket # None /\ by = socket.account /\ SameRoute(name)
        /\ socket.id \in IdSet \cup {None} /\ IsMap(socket.runtime.providers, IdSet, Accounts)
    BY <1>6, <2>1, MapsAre DEF FollowUp, FollowedBy, Inv, TypeOK, CodexOK, Runtimes
  <2>3. CASE socket.id = None
    <3>1. by = "official" /\ by \notin Accounts
      BY <2>2, <2>3, ModelCatalogAssumption DEF Inv, Held
    <3>2. ~ Slashed(name)
      <4>1. Slashed(name) => name[1] = None /\ name[1] \in IdSet
        BY <1>4, <2>2, <2>3, SlashedName DEF SameRoute
      <4> QED
        BY <4>1, ModelCatalogAssumption
    <3> QED
      BY <3>1, <3>2
  <2>4. CASE socket.id # None
    <3>1. socket.id \in DOMAIN socket.runtime.providers /\ by = socket.runtime.providers[socket.id]
      BY <2>2, <2>4 DEF Inv, Held
    <3>2. Slashed(name) /\ name[1] = socket.id
      BY <2>2, <2>4 DEF SameRoute
    <3>3. by \in Accounts /\ by # "official" /\ Belongs(name[1], by)
      BY <2>2, <3>1, <3>2, ModelCatalogAssumption DEF IsMap, Inv, Snapshots, Fits
    <3> QED
      BY <1>6, <3>2, <3>3
  <2> QED
    BY <2>3, <2>4
<1>7. Good
  BY <1>3, <1>5, <1>6
<1>8. ASSUME by \in Accounts, name \in DOMAIN listed, listed[name] \in Accounts
      PROVE  by = listed[name] \/ {by, listed[name]} \cap removed # {}
  <2>1. Belongs(name[1], by) /\ Belongs(name[1], listed[name])
    BY <1>7, <1>8 DEF Inv, ListedOf
  <2> QED
    BY <2>1, OneAccount
<1> QED
  BY <1>2, <1>4, <1>7, <1>8 DEF AnsweredAsListed

(* A request goes where the list said: no name of a Provider to the        *)
(* official endpoint, no other name to a Provider, a listed name to the    *)
(* account it was listed for unless one of the two was removed, and to a   *)
(* removed account only what a session began before.                       *)
THEOREM AnswersAsListed == Spec => []AnsweredAsListed
<1>1. Init => AnsweredAsListed
  BY DEF Init, AnsweredAsListed
<1>2. AnsweredAsListed /\ UNCHANGED vars => AnsweredAsListed'
  BY DEF AnsweredAsListed, vars, settings, egress, codex
<1>3. Inv /\ AnsweredAsListed /\ [Next]_vars => AnsweredAsListed'
  BY <1>2, AnswerStep
<1> QED
  BY <1>1, <1>3, Invariance, PTL DEF Spec

(* What a session was answered for once it is answered for until it ends,  *)
(* by the same account, whatever is saved, switched or removed meanwhile.  *)
THEOREM SessionsAreHeld == Spec => SessionsHold
<1>1. ASSUME Inv, Next, socket # None, answer' # None, answer'.via = "followup",
             answer'.name \in socket.asked
      PROVE  answer'.by = socket.account
  <2>1. ~ Ask /\ ~ Connect
    BY <1>1 DEF Ask, Connect, Answer
  <2>2. FollowUp
    BY <1>1, <2>1 DEF Next, Open, New, Enter, Toggle, Add, Drop, Discover, Save,
       SetProviderEnabled, Remove, Mutate, commit_reload, Restart, AskList, proxy_official_models,
       FormOnly, Quiet
  <2>3. PICK name \in Names : answer' = [name |-> name, by |-> FollowedBy(name), via |-> "followup"]
    BY <2>2 DEF FollowUp, Answer
  <2>4. SameRoute(name) /\ resolve(socket.runtime, name) # "refused"
    BY <1>1, <2>3 DEF Inv, Held
  <2> QED
    BY <2>3, <2>4 DEF FollowedBy
<1>2. Inv /\ [Next]_vars =>
        [socket # None /\ answer' # None /\ answer'.via = "followup" =>
           (answer'.name \in socket.asked => answer'.by = socket.account)]_vars
  BY <1>1
<1> QED
  BY <1>2, Invariance, PTL DEF Spec, SessionsHold
=============================================================================
