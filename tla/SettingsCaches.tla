---------------------------- MODULE SettingsCaches ----------------------------
(***************************************************************************)
(* Two caches over stored settings: a user's saved parameters per model    *)
(* (services/model_params.py), bounded and written through, and the loaded *)
(* plugin of a kind (plugins/loader.py, api/routes/plugins.py), rebuilt    *)
(* after an invalidation.  A stored value is its version; 0 is none.       *)
(***************************************************************************)
EXTENDS Naturals, Sequences, SequencesExt, FiniteSets

CONSTANTS
  ParamKeys,    \* pairs of a user and a model
  Kinds,        \* plugin kinds
  Lookups, Savers,   \* requests under way at a time
  CacheEntries, \* _CACHE_ENTRIES
  MaxSaves

ASSUME CachesAssumption ==
  CacheEntries \in Nat \ {0} /\ MaxSaves \in Nat /\ ParamKeys \cap Kinds = {}

VARIABLES
  saved,    \* the stored version of each key and kind
  cached,   \* the cached entries: version, and whether a save overlapped its lookup
  recent,   \* cached parameters, least recently used first
  lookup,   \* each lookup under way and what it read
  saver,    \* each save under way, from its commit on
  saves

cacheVars == <<saved, cached, recent, lookup, saver, saves>>

Settings == ParamKeys \cup Kinds
Idle == [at |-> "idle"]

CachesTypeOK ==
  /\ saved \in [Settings -> 0..MaxSaves]
  /\ DOMAIN cached \subseteq Settings
  /\ \A k \in DOMAIN cached : cached[k] \in [version : 0..MaxSaves, overlapped : BOOLEAN]
  \* The order of use lists the cached parameters, each once, never more than there is room for.
  /\ ToSet(recent) = DOMAIN cached \cap ParamKeys
  /\ IsInjective(recent) /\ Len(recent) <= CacheEntries

CachesInit ==
  /\ saved = [k \in Settings |-> 0]
  /\ cached = <<>> /\ recent = <<>>
  /\ lookup = [l \in Lookups |-> Idle]
  /\ saver = [s \in Savers |-> Idle]
  /\ saves = 0

\* The order of use without a key, which it has once at most.
Without(seq, k) ==
  IF \E i \in DOMAIN seq : seq[i] = k
  THEN RemoveAt(seq, CHOOSE i \in DOMAIN seq : seq[i] = k)
  ELSE seq

\* _remember: newest last, the least recently used entry makes room.
Remembered(k, entry) ==
  LET order == Append(Without(recent, k), k)
      kept  == IF Len(order) > CacheEntries THEN Tail(order) ELSE order
  IN /\ recent' = kept
     /\ cached' = [e \in (DOMAIN cached \cap Kinds) \cup ToSet(kept) |->
                     IF e = k THEN entry ELSE cached[e]]

\* A save that completes is one that the lookups under way overlapped.
Overlap(k) == [l \in Lookups |-> IF lookup[l].at = "idle" \/ lookup[l].key # k THEN lookup[l]
                                 ELSE [lookup[l] EXCEPT !.overlapped = TRUE]]

-----------------------------------------------------------------------------
(* Saved parameters *)

ParamsHit(k) ==
  /\ k \in DOMAIN cached
  /\ recent' = Append(Without(recent, k), k)
  /\ UNCHANGED <<saved, cached, lookup, saver, saves>>

\* A miss: wait for a session, read, remember what was read.
LookupBegins(l, k) ==
  /\ lookup[l] = Idle /\ k \notin DOMAIN cached
  /\ lookup' = [lookup EXCEPT ![l] = [at |-> "waits", key |-> k, overlapped |-> FALSE]]
  /\ UNCHANGED <<saved, cached, recent, saver, saves>>

LookupReads(l) ==
  /\ lookup[l].at = "waits"
  /\ lookup' = [lookup EXCEPT ![l] = [at |-> "read", key |-> lookup[l].key,
                  version |-> saved[lookup[l].key], overlapped |-> lookup[l].overlapped]]
  /\ UNCHANGED <<saved, cached, recent, saver, saves>>

ParamsRemembers(l) ==
  /\ lookup[l].at = "read" /\ lookup[l].key \in ParamKeys
  /\ Remembered(lookup[l].key,
       [version |-> lookup[l].version, overlapped |-> lookup[l].overlapped])
  /\ lookup' = [lookup EXCEPT ![l] = Idle]
  /\ UNCHANGED <<saved, saver, saves>>

\* put and clear commit, one at a time for a row.
Commits(s, k, version) ==
  /\ saver[s] = Idle /\ saves < MaxSaves
  /\ \A o \in Savers : saver[o] # Idle => saver[o].key # k
  /\ saves' = saves + 1
  /\ saved' = [saved EXCEPT ![k] = version]
  /\ saver' = [saver EXCEPT ![s] = [at |-> "committed", key |-> k]]
  /\ UNCHANGED <<cached, recent, lookup>>

ParamsSaves(s, k, cleared) == k \in ParamKeys /\ Commits(s, k, IF cleared THEN 0 ELSE saves + 1)

\* Mutant: a save does not touch the cache.
ParamsSaved_NoWriteThrough(s) ==
  /\ saver[s] # Idle /\ saver[s].key \in ParamKeys
  /\ lookup' = Overlap(saver[s].key)
  /\ saver' = [saver EXCEPT ![s] = Idle]
  /\ UNCHANGED <<saved, cached, recent, saves>>

\* ... and then replace the cached entry.
ParamsSaved(s) ==
  LET k == saver[s].key
  IN /\ saver[s] # Idle /\ k \in ParamKeys
     /\ Remembered(k, [version |-> saved[k], overlapped |-> FALSE])
     /\ lookup' = Overlap(k)
     /\ saver' = [saver EXCEPT ![s] = Idle]
     /\ UNCHANGED <<saved, saves>>

-----------------------------------------------------------------------------
(* Plugins *)

\* get and tool_plugins: the plugin, or its absence, is kept until the next invalidation.
PluginLoads(l) ==
  LET k == lookup[l].key
  IN /\ lookup[l].at = "read" /\ k \in Kinds
     /\ cached' = [e \in DOMAIN cached \cup {k} |->
          IF e = k THEN [version |-> lookup[l].version, overlapped |-> lookup[l].overlapped]
          ELSE cached[e]]
     /\ lookup' = [lookup EXCEPT ![l] = Idle]
     /\ UNCHANGED <<saved, recent, saver, saves>>

PluginSaves(s, k) == k \in Kinds /\ Commits(s, k, saves + 1)

\* update_plugin invalidates once the configuration is stored.
PluginInvalidates(s) ==
  LET k == saver[s].key
  IN /\ saver[s] # Idle /\ k \in Kinds
     /\ cached' = [e \in DOMAIN cached \ {k} |-> cached[e]]
     /\ lookup' = Overlap(k)
     /\ saver' = [saver EXCEPT ![s] = Idle]
     /\ UNCHANGED <<saved, recent, saves>>

CachesNext ==
  \/ \E k \in ParamKeys : ParamsHit(k)
  \/ \E l \in Lookups : LookupReads(l) \/ ParamsRemembers(l) \/ PluginLoads(l)
                          \/ \E k \in Settings : LookupBegins(l, k)
  \/ \E s \in Savers : ParamsSaved(s) \/ PluginInvalidates(s)
  \/ \E s \in Savers, k \in Settings :
       PluginSaves(s, k) \/ \E cleared \in BOOLEAN : ParamsSaves(s, k, cleared)

CachesSpec == CachesInit /\ [][CachesNext]_cacheVars

-----------------------------------------------------------------------------
(* Properties *)

\* A cached setting is the stored one, except while its save completes, or where a lookup
\* that overlapped a save put it there.
SettingsAreCurrent ==
  \A k \in DOMAIN cached :
    \/ cached[k].version = saved[k]
    \/ cached[k].overlapped
    \/ \E s \in Savers : saver[s] # Idle /\ saver[s].key = k

\* The caches stay small and current (model_params.py, plugins/loader.py): both of the above.
SettingsInv == CachesTypeOK /\ SettingsAreCurrent

\* services/model_params.py: "a save or reset replaces the entry in the same request, so
\* the next turn sees it."
SavesTakeEffect ==
  \A k \in DOMAIN cached \cap ParamKeys :
    \/ cached[k].version = saved[k]
    \/ \E s \in Savers : saver[s] # Idle /\ saver[s].key = k
=============================================================================
