--------------------------- MODULE ProviderRegistry ---------------------------
(***************************************************************************)
(* The backends a process knows (providers/registry.py), the stored ones   *)
(* an administrator creates, edits and deletes (services/providers.py),    *)
(* autodiscovery, and the short-lived cache of each backend's model list,  *)
(* which operations on the backend invalidate.                             *)
(*                                                                         *)
(* A listing is the version of what its address served when it answered.   *)
(* The labels of a backend are left out: an edit that changes only a label *)
(* is one that keeps address and credential.  An edit's commit and what it *)
(* registers are one step: on SQLite nothing is awaited between the write  *)
(* lock's release and the registration, so no other edit comes between.    *)
(* PostgreSQL has no such lock, and there another edit may.                *)
(***************************************************************************)
EXTENDS Naturals, FiniteSets

CONSTANTS
  Providers,    \* ids of backends
  Urls,         \* addresses
  Loopback,     \* the address autodiscovery probes
  Keys,         \* credentials
  Admins, Discoverers, Listers, Operators,   \* requests under way at a time
  Keep,         \* a field a patch leaves alone
  MaxChanges,   \* bound on changes of backends and of what they serve
  None

Secrets == Keys \cup {None}
Origins == {"config", "ui", "autodiscovered"}
StoredBackend == [url : Urls, key : Secrets]
KnownBackend == [url : Urls, key : Secrets, origin : Origins]
Entry == [url : Urls, seen : Nat, begun : Nat, stored : Nat]
ListingMade == [id : Providers, url : Urls, begun : Nat, seen : Nat \cup {None}]
OperationMade == [id : Providers, url : Urls]

\* None is a value of its own: no address, number or record.
ASSUME RegistryAssumption ==
  /\ Loopback \in Urls
  /\ MaxChanges \in Nat
  /\ None \notin Urls \cup Keys \cup Providers
  /\ None \notin Nat
  /\ None \notin StoredBackend /\ None \notin KnownBackend /\ None \notin Entry
  /\ None \notin ListingMade /\ None \notin OperationMade
  /\ \A urls \in SUBSET Urls : urls # None

VARIABLES
  row,       \* stored backends: address and credential
  spec,      \* registered ones, with their origin
  adapter,   \* what the adapter built for a backend was built from
  cache,     \* its cached listing
  served,    \* version of what an address serves
  edit,      \* each administrator's change under way
  probe,     \* each discovery's known addresses, or None
  listing,   \* each listing under way
  operation, \* each operation on a backend under way: its address
  due,       \* what a listing begun now would show at least
  epoch,     \* changes completed, per backend
  raced      \* backends an edit wrote from a spec that had changed meanwhile

regVars == <<row, spec, adapter, cache, served, edit, probe, listing, operation, due, epoch, raced>>

NoEdit    == [op |-> "none"]

RegTypeOK ==
  /\ \A p \in Providers :
       /\ row[p] # None => row[p] \in StoredBackend
       /\ spec[p] # None => spec[p] \in KnownBackend
       /\ adapter[p] # None => adapter[p] \in StoredBackend
       /\ cache[p] # None => cache[p] \in Entry
  /\ served \in [Urls -> 0..MaxChanges]
  /\ \A a \in Admins : edit[a].op \in {"none", "create", "update", "delete"}
  /\ \A d \in Discoverers : probe[d] = None \/ probe[d] \subseteq Urls
  /\ raced \subseteq Providers

RegInit ==
  /\ row = [p \in Providers |-> None]
  \* Backends named in the configuration are registered before the first request.
  /\ \E configured \in SUBSET Providers, url \in Urls :
       /\ Cardinality(configured) <= 1
       /\ spec = [p \in Providers |->
            IF p \in configured THEN [url |-> url, key |-> None, origin |-> "config"] ELSE None]
  /\ adapter = [p \in Providers |-> None]
  /\ cache = [p \in Providers |-> None]
  /\ served = [u \in Urls |-> 0]
  /\ edit = [a \in Admins |-> NoEdit]
  /\ probe = [d \in Discoverers |-> None]
  /\ listing = [l \in Listers |-> None]
  /\ operation = [o \in Operators |-> None]
  /\ due = [p \in Providers |-> [url |-> None, seen |-> 0]]
  /\ epoch = [p \in Providers |-> 0]
  /\ raced = {}

Changes(p) == epoch[p] < MaxChanges

-----------------------------------------------------------------------------
(* The registry *)

\* A change of p is complete: a listing begun from here on shows at least this.
Completed(p, specs) ==
  /\ due' = [due EXCEPT ![p] =
       IF specs[p] = None THEN @ ELSE [url |-> specs[p].url, seen |-> served[specs[p].url]]]
  /\ epoch' = [epoch EXCEPT ![p] = @ + 1]

\* Mutant: the adapter goes, the listing it made stays.
Register_KeepsCache(p, s) ==
  /\ spec' = [spec EXCEPT ![p] = s]
  /\ adapter' = [adapter EXCEPT ![p] = None]
  /\ cache' = cache
  /\ Completed(p, spec')

\* register: the new spec, without the adapter and the listing of the old one.
Register(p, s) ==
  /\ spec' = [spec EXCEPT ![p] = s]
  /\ adapter' = [adapter EXCEPT ![p] = None]
  /\ cache' = [cache EXCEPT ![p] = None]
  /\ Completed(p, spec')

Removed(p) ==
  /\ spec' = [spec EXCEPT ![p] = None]
  /\ adapter' = [adapter EXCEPT ![p] = None]
  /\ cache' = [cache EXCEPT ![p] = None]
  /\ Completed(p, spec')

\* invalidate, at the end of an operation on p that may have changed what it serves.
Invalidated(p) ==
  /\ cache' = [cache EXCEPT ![p] = None]
  /\ Completed(p, spec)

\* get: the adapter that exists, or one built from the spec.
Adapter(p) == IF adapter[p] # None THEN adapter[p]
              ELSE [url |-> spec[p].url, key |-> spec[p].key]

-----------------------------------------------------------------------------
(* Stored backends *)

CreateBegins(a, p, url, key) ==
  /\ edit[a] = NoEdit
  /\ spec[p] = None
  /\ edit' = [edit EXCEPT ![a] = [op |-> "create", id |-> p, url |-> url, key |-> key]]
  /\ UNCHANGED <<row, spec, adapter, cache, served, probe, listing, operation, due, epoch, raced>>

\* In one transaction, which finds out whether another request stored the id meanwhile.
CreateCommits(a) ==
  LET p == edit[a].id
  IN /\ edit[a].op = "create"
     /\ Changes(p)
     /\ edit' = [edit EXCEPT ![a] = NoEdit]
     /\ IF row[p] # None
        THEN UNCHANGED <<row, spec, adapter, cache, due, epoch, raced>>
        ELSE /\ row' = [row EXCEPT ![p] = [url |-> edit[a].url, key |-> edit[a].key]]
             /\ Register(p, [url |-> edit[a].url, key |-> edit[a].key, origin |-> "ui"])
             /\ raced' = raced \ {p}
     /\ UNCHANGED <<served, probe, listing, operation>>

\* update takes what the patch leaves alone from the spec, before it waits for a session.
UpdateBegins(a, p, url, key) ==
  /\ edit[a] = NoEdit
  /\ spec[p] # None /\ spec[p].origin = "ui"
  /\ edit' = [edit EXCEPT ![a] =
       [op |-> "update", id |-> p, url |-> IF url = Keep THEN spec[p].url ELSE url,
        key |-> key, current |-> spec[p]]]
  /\ UNCHANGED <<row, spec, adapter, cache, served, probe, listing, operation, due, epoch, raced>>

\* The stored row keeps its own credential where the patch gives none; the spec that is
\* registered keeps the one update began with.
UpdateCommits(a) ==
  LET p == edit[a].id
      e == edit[a]
  IN /\ e.op = "update"
     /\ Changes(p)
     /\ edit' = [edit EXCEPT ![a] = NoEdit]
     /\ IF row[p] = None
        THEN UNCHANGED <<row, spec, adapter, cache, due, epoch, raced>>
        ELSE /\ row' = [row EXCEPT ![p] =
                  [url |-> e.url, key |-> IF e.key = Keep THEN @.key ELSE e.key]]
             /\ Register(p, [url |-> e.url, origin |-> "ui",
                             key |-> IF e.key = Keep THEN e.current.key ELSE e.key])
             /\ raced' = IF spec[p] = e.current THEN raced ELSE raced \cup {p}
     /\ UNCHANGED <<served, probe, listing, operation>>

DeleteBegins(a, p) ==
  /\ edit[a] = NoEdit
  /\ spec[p] # None /\ spec[p].origin = "ui"
  /\ edit' = [edit EXCEPT ![a] = [op |-> "delete", id |-> p]]
  /\ UNCHANGED <<row, spec, adapter, cache, served, probe, listing, operation, due, epoch, raced>>

\* Whatever the id stands for by then goes, the row if there is one and the spec.
DeleteCommits(a) ==
  LET p == edit[a].id
  IN /\ edit[a].op = "delete"
     /\ Changes(p)
     /\ edit' = [edit EXCEPT ![a] = NoEdit]
     /\ row' = [row EXCEPT ![p] = None]
     /\ Removed(p)
     /\ raced' = raced \ {p}
     /\ UNCHANGED <<served, probe, listing, operation>>

\* The store refused: locked, or gone.
EditFails(a) ==
  /\ edit[a] # NoEdit
  /\ edit' = [edit EXCEPT ![a] = NoEdit]
  /\ UNCHANGED <<row, spec, adapter, cache, served, probe, listing, operation, due, epoch, raced>>

\* A restart forgets what is in memory and registers the configuration, then the rows it
\* does not shadow.
Restarts ==
  /\ \E p \in Providers : row[p] # None
  /\ spec' = [p \in Providers |->
       IF spec[p] # None /\ spec[p].origin = "config" THEN spec[p]
       ELSE IF row[p] # None THEN [url |-> row[p].url, key |-> row[p].key, origin |-> "ui"]
       ELSE None]
  /\ adapter' = [p \in Providers |-> None]
  /\ cache' = [p \in Providers |-> None]
  /\ edit' = [a \in Admins |-> NoEdit]
  /\ probe' = [d \in Discoverers |-> None]
  /\ listing' = [l \in Listers |-> None]
  /\ operation' = [o \in Operators |-> None]
  /\ due' = [p \in Providers |-> [url |-> None, seen |-> 0]]
  /\ raced' = {}
  /\ UNCHANGED <<row, served, epoch>>

-----------------------------------------------------------------------------
(* Autodiscovery *)

Known == {spec[p].url : p \in {q \in Providers : spec[q] # None}}

\* autodiscover notes the known addresses, then probes.
DiscoverBegins(d) ==
  /\ probe[d] = None
  /\ probe' = [probe EXCEPT ![d] = Known]
  /\ UNCHANGED <<row, spec, adapter, cache, served, edit, listing, operation, due, epoch, raced>>

\* A backend answered there and was not known as the probe began: it gets a free id.
DiscoverAdds(d, p) ==
  /\ probe[d] # None /\ Loopback \notin probe[d]
  /\ spec[p] = None
  /\ Changes(p)
  /\ Register(p, [url |-> Loopback, key |-> None, origin |-> "autodiscovered"])
  /\ probe' = [probe EXCEPT ![d] = None]
  /\ UNCHANGED <<row, served, edit, listing, operation, raced>>

\* Nothing answered, or the address was known: then it is reported, or the request fails
\* because the backend that had it is gone.
DiscoverEnds(d) ==
  /\ probe[d] # None
  /\ probe' = [probe EXCEPT ![d] = None]
  /\ UNCHANGED <<row, spec, adapter, cache, served, edit, listing, operation, due, epoch, raced>>

-----------------------------------------------------------------------------
(* Model lists *)

\* _models_for asks the adapter: the listing is not cached, has expired, or is refreshed.
ListBegins(l, p) ==
  /\ listing[l] = None
  /\ spec[p] # None
  /\ adapter' = [adapter EXCEPT ![p] = Adapter(p)]
  /\ listing' = [listing EXCEPT ![l] =
       [id |-> p, url |-> Adapter(p).url, begun |-> epoch[p], seen |-> None]]
  /\ UNCHANGED <<row, spec, cache, served, edit, probe, operation, due, epoch, raced>>

Answers(l) ==
  /\ listing[l] # None /\ listing[l].seen = None
  /\ listing' = [listing EXCEPT ![l].seen = served[listing[l].url]]
  /\ UNCHANGED <<row, spec, adapter, cache, served, edit, probe, operation, due, epoch, raced>>

\* Whatever happened to the backend meanwhile, the answer is cached under its id.
ListStores(l) ==
  LET p == listing[l].id
  IN /\ listing[l] # None /\ listing[l].seen # None
     /\ cache' = [cache EXCEPT ![p] = [url |-> listing[l].url, seen |-> listing[l].seen,
                                       begun |-> listing[l].begun, stored |-> epoch[p]]]
     /\ listing' = [listing EXCEPT ![l] = None]
     /\ UNCHANGED <<row, spec, adapter, served, edit, probe, operation, due, epoch, raced>>

\* An unreachable backend: the caller gets the listing that was cached, or none.
ListFails(l) ==
  /\ listing[l] # None
  /\ listing' = [listing EXCEPT ![l] = None]
  /\ UNCHANGED <<row, spec, adapter, cache, served, edit, probe, operation, due, epoch, raced>>

\* POST refresh, GET models of a backend: its cached listing is dropped.
Refreshes(p) ==
  /\ spec[p] # None
  /\ cache[p] # None
  /\ cache' = [cache EXCEPT ![p] = None]
  /\ UNCHANGED <<row, spec, adapter, served, edit, probe, listing, operation, due, epoch, raced>>

\* Deleting or copying a model: the request keeps the adapter it found.
OperationBegins(o, p) ==
  /\ operation[o] = None
  /\ spec[p] # None
  /\ adapter' = [adapter EXCEPT ![p] = Adapter(p)]
  /\ operation' = [operation EXCEPT ![o] = [id |-> p, url |-> Adapter(p).url]]
  /\ UNCHANGED <<row, spec, cache, served, edit, probe, listing, due, epoch, raced>>

BackendChanges(url) ==
  /\ served[url] < MaxChanges
  /\ served' = [served EXCEPT ![url] = @ + 1]

OperationWorks(o) ==
  /\ operation[o] # None
  /\ BackendChanges(operation[o].url)
  /\ UNCHANGED <<row, spec, adapter, cache, edit, probe, listing, operation, due, epoch, raced>>

OperationSucceeds(o) ==
  /\ operation[o] # None
  /\ Changes(operation[o].id)
  /\ Invalidated(operation[o].id)
  /\ operation' = [operation EXCEPT ![o] = None]
  /\ UNCHANGED <<row, spec, adapter, served, edit, probe, listing, raced>>

\* The route passes the error on before it invalidates, whatever the backend did.
OperationFails(o) ==
  /\ operation[o] # None
  /\ operation' = [operation EXCEPT ![o] = None]
  /\ UNCHANGED <<row, spec, adapter, cache, served, edit, probe, listing, due, epoch, raced>>

EditSteps ==
  \/ \E a \in Admins, p \in Providers, u \in Urls, k \in Secrets : CreateBegins(a, p, u, k)
  \/ \E a \in Admins, p \in Providers, u \in Urls \cup {Keep}, k \in Secrets \cup {Keep} :
       UpdateBegins(a, p, u, k)
  \/ \E a \in Admins, p \in Providers : DeleteBegins(a, p)
  \/ \E a \in Admins : CreateCommits(a) \/ UpdateCommits(a) \/ DeleteCommits(a) \/ EditFails(a)

DiscoverySteps ==
  \E d \in Discoverers :
    DiscoverBegins(d) \/ DiscoverEnds(d) \/ \E p \in Providers : DiscoverAdds(d, p)

ListingSteps ==
  \/ \E l \in Listers : Answers(l) \/ ListStores(l) \/ ListFails(l)
                          \/ \E p \in Providers : ListBegins(l, p)
  \/ \E p \in Providers : Refreshes(p)
  \/ \E o \in Operators : OperationWorks(o) \/ OperationSucceeds(o) \/ OperationFails(o)
                            \/ \E p \in Providers : OperationBegins(o, p)

RegNext == EditSteps \/ Restarts \/ DiscoverySteps \/ ListingSteps
RegSpec == RegInit /\ [][RegNext]_regVars

-----------------------------------------------------------------------------
(* Properties *)

\* A cached listing shows everything that was complete when it was begun: it is from the
\* backend's present address, and from after the last operation there.  Only a listing that
\* was under way as a change completed may be older.
StaleOnlyByRace ==
  \A p \in Providers :
    cache[p] # None /\ cache[p].begun = cache[p].stored /\ due[p].url # None =>
      cache[p].url = due[p].url /\ cache[p].seen >= due[p].seen

\* A backend added in the interface is used as it is stored, address and credential, after
\* any edits, failures and restarts.  Only an edit that overlapped another may leave
\* the two apart.
ServedAsStored ==
  \A p \in Providers \ raced :
    spec[p] # None /\ spec[p].origin = "ui" =>
      row[p] # None /\ row[p].url = spec[p].url /\ row[p].key = spec[p].key

\* The registry shows, lists and serves what is stored, but for the two races: all of the above.
RegistryInv == RegTypeOK /\ StaleOnlyByRace /\ ServedAsStored

\* services/providers.py: "A backend already registered at the same address is reported but
\* not added twice."
AddedOnce ==
  \A p, q \in Providers :
    /\ p # q /\ spec[p] # None /\ spec[q] # None
    /\ spec[p].origin = "autodiscovered" /\ spec[q].origin = "autodiscovered"
    => spec[p].url # spec[q].url

\* services/providers.py: "``None`` leaves a field as it is."
PatchesKeepTheRest ==
  [][\A a \in Admins :
       edit[a].op = "update" /\ edit[a].key = Keep /\ edit' = [edit EXCEPT ![a] = NoEdit]
         /\ spec[edit[a].id] # None
       => spec'[edit[a].id].key = spec[edit[a].id].key]_regVars
=============================================================================
