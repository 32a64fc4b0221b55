--------------------------- MODULE NotionSources ---------------------------
(***************************************************************************)
(* The data source of a Notion database, as NotionClient of                *)
(* app/tools/notion.py finds and remembers it.  Searches and reassignment  *)
(* proposals name a database and its properties (the cache key); the data  *)
(* source with that schema is discovered once for all requests that wait   *)
(* for it, kept in an LRU cache, and forgotten when a search with a cached *)
(* one gets a 404.  Between two awaits a coroutine is not interrupted, so  *)
(* a step here is what runs from one await to the next.                    *)
(*                                                                         *)
(* Left out: what a query returns, and cancelled requests (an entry of     *)
(* _inflight stays then, until the next request for its key).              *)
(***************************************************************************)
EXTENDS Naturals, Sequences, FiniteSets, Common

CONSTANTS
  SourceKeys,        \* databases with their property names
  Searchers,         \* concurrent requests
  SourceCacheSize,   \* cache_size
  MaxSources         \* bound on data sources the databases have had

ASSUME SourcesAssumption ==
  {SourceCacheSize, MaxSources} \subseteq Nat \ {0} /\ IsFiniteSet(Searchers)

VARIABLES
  source,     \* the data source that has the schema; older ones are gone
  sources,    \* _source_cache, the entry used last at the end
  inflight,   \* _inflight: tasks in the order they were created
  lookup,     \* lookup[i]: the discovery task i, or None
  search      \* search[s]: what request s is at, or None

sourceVars == <<source, sources, inflight, lookup, search>>

SourceIds == 1..MaxSources
LookupIds == 1..Cardinality(Searchers)    \* someone waits for each task

Entries == [key : SourceKeys, id : SourceIds]

Lookups ==
  [ key : SourceKeys, state : {"asking", "done", "failed"}, id : SourceIds \cup {None} ]

Searches ==
  [ key  : SourceKeys,
    kind : {"search", "propose"},       \* search_pages, resolve_reassignment_targets
    next : {"await", "capacity", "query"},
    task : LookupIds \cup {None},       \* awaited
    id   : SourceIds \cup {None},       \* queried
    again : BOOLEAN,                    \* a 404 has sent it here once before
    retry : BOOLEAN ]                   \* a 404 has this source discovered again

ASSUME NoneIsNoSearch == None \notin Lookups \cup Searches

Cached(k)    == {i \in DOMAIN sources : sources[i].key = k}
Searching(k) == {n \in DOMAIN inflight : lookup[inflight[n]].key = k}

SourcesTypeOK ==
  /\ source \in SourceIds
  /\ sources \in Seq(Entries) /\ Len(sources) <= SourceCacheSize
  /\ inflight \in Seq(LookupIds) /\ Len(inflight) <= SourceCacheSize
  /\ lookup \in [LookupIds -> Lookups \cup {None}]
  /\ search \in [Searchers -> Searches \cup {None}]
  /\ \A k \in SourceKeys : Cardinality(Cached(k)) <= 1 /\ Cardinality(Searching(k)) <= 1

SourcesInit ==
  /\ source = 1
  /\ sources = <<>>
  /\ inflight = <<>>
  /\ lookup = [i \in LookupIds |-> None]
  /\ search = [s \in Searchers |-> None]

(* seq without the entry at the one place in N, if there is one.          *)
Without(seq, N) ==
  IF N = {} THEN seq
  ELSE LET n == CHOOSE m \in N : TRUE IN
       SubSeq(seq, 1, n - 1) \o SubSeq(seq, n + 1, Len(seq))
-----------------------------------------------------------------------------
(* The cache: a hit moves to the end, an insertion drops the oldest.       *)

Used(cache, n) == Append(Without(cache, {n}), cache[n])

Stored(cache, e) ==
  LET all == Append(Without(cache, {n \in DOMAIN cache : cache[n].key = e.key}), e) IN
  IF Len(all) > SourceCacheSize THEN Tail(all) ELSE all

(* Mutant of Invalidated: a source is forgotten only when it is evicted.   *)
InvalidatedNever(cache, e) == cache

(* _invalidate, unless another request has replaced the entry.             *)
Invalidated(cache, e) == Without(cache, {n \in DOMAIN cache : cache[n] = e})
-----------------------------------------------------------------------------
(* _resolve_source up to its first await: a cached source, the discovery   *)
(* that runs for the key, a new one, or, when there are as many as cached  *)
(* sources, the end of the oldest.  cache and tasks are what the coroutine *)
(* has made of the cache and of the tasks by now.                          *)

Referred(s) == {search[t].task : t \in {u \in Searchers \ {s} : search[u] # None}}

ResolveSource(s, req, cache) ==
  LET hits == {n \in DOMAIN cache : cache[n].key = req.key}
      runs == Searching(req.key)
      goes(next, task, id, retry) ==
        search' = [search EXCEPT ![s] =
          [key |-> req.key, kind |-> req.kind, next |-> next, task |-> task, id |-> id,
           again |-> req.again, retry |-> retry]]
  IN
  \/ \E n \in hits :
       /\ sources' = Used(cache, n)
       /\ goes("query", None, cache[n].id, req.kind = "search" /\ ~req.again)
       /\ UNCHANGED <<inflight, lookup>>
  \/ /\ hits = {} /\ sources' = cache
     /\ \/ \E n \in runs :
             /\ goes("await", inflight[n], None, FALSE)
             /\ UNCHANGED <<inflight, lookup>>
        \/ /\ runs = {} /\ Len(inflight) < SourceCacheSize
           /\ LET i == CHOOSE j \in LookupIds \ Referred(s) : TRUE IN
              /\ lookup' = [lookup EXCEPT ![i] =
                   [key |-> req.key, state |-> "asking", id |-> None]]
              /\ inflight' = Append(inflight, i)
              /\ goes("await", i, None, FALSE)
        \/ /\ runs = {} /\ Len(inflight) = SourceCacheSize
           /\ goes("capacity", Head(inflight), None, FALSE)
           /\ UNCHANGED <<inflight, lookup>>

StartSearch(s) ==
  /\ search[s] = None
  /\ \E k \in SourceKeys, kind \in {"search", "propose"} :
       ResolveSource(s, [key |-> k, kind |-> kind, again |-> FALSE], sources)
  /\ UNCHANGED source

(* The requests that wait for a task are resumed in the order in which     *)
(* they began to, the one that takes it from _inflight first.              *)
CapacityFrees(s) ==
  /\ search[s] # None /\ search[s].next = "capacity"
  /\ search[s].task \notin {inflight[n] : n \in DOMAIN inflight}
  /\ ResolveSource(s, [key |-> search[s].key, kind |-> search[s].kind,
                       again |-> search[s].again], sources)
  /\ UNCHANGED source
-----------------------------------------------------------------------------
(* _discover_source: the data sources of the database, and the one with a  *)
(* compatible schema; or none, several, or no answer.                      *)

SourceFound(i) ==
  /\ lookup[i] # None /\ lookup[i].state = "asking"
  /\ lookup' = [lookup EXCEPT ![i].state = "done", ![i].id = source]
  /\ UNCHANGED <<source, sources, inflight, search>>

LookupFails(i) ==
  /\ lookup[i] # None /\ lookup[i].state = "asking"
  /\ lookup' = [lookup EXCEPT ![i].state = "failed"]
  /\ UNCHANGED <<source, sources, inflight, search>>

(* What a finished task leaves when s does not wait for it any more.       *)
Released(s, i) == IF i \in Referred(s) THEN lookup ELSE [lookup EXCEPT ![i] = None]

SourceAwaited(s) ==
  /\ search[s] # None /\ search[s].next = "await"
  /\ LET i == search[s].task IN
     /\ lookup[i].state # "asking"
     /\ IF lookup[i].state = "done"
          THEN /\ sources' = Stored(sources, [key |-> search[s].key, id |-> lookup[i].id])
               /\ search' = [search EXCEPT ![s].next = "query", ![s].task = None,
                               ![s].id = lookup[i].id]
          ELSE /\ search' = [search EXCEPT ![s] = None]
               /\ UNCHANGED sources
     /\ inflight' = Without(inflight, {n \in DOMAIN inflight : inflight[n] = i})
     /\ lookup' = Released(s, i)
  /\ UNCHANGED source
-----------------------------------------------------------------------------
(* The query.                                                              *)

Queries(s) == search[s] # None /\ search[s].next = "query"

SearchAnswered(s) ==
  /\ Queries(s) /\ search[s].id = source
  /\ search' = [search EXCEPT ![s] = None]
  /\ UNCHANGED <<source, sources, inflight, lookup>>

(* 404 for a cached source: forget it, and once more.                      *)
SearchRetries(s) ==
  /\ Queries(s) /\ search[s].id # source /\ search[s].retry
  /\ ResolveSource(s, [key |-> search[s].key, kind |-> search[s].kind, again |-> TRUE],
                   Invalidated(sources, [key |-> search[s].key, id |-> search[s].id]))
  /\ UNCHANGED source

(* 404 otherwise: the request fails.                                       *)
SearchLost(s) ==
  /\ Queries(s) /\ search[s].id # source /\ ~search[s].retry
  /\ search' = [search EXCEPT ![s] = None]
  /\ UNCHANGED <<source, sources, inflight, lookup>>

(* Someone replaces the data source of the database.                       *)
SourceReplaced ==
  /\ source < MaxSources
  /\ source' = source + 1
  /\ UNCHANGED <<sources, inflight, lookup, search>>
-----------------------------------------------------------------------------
SourcesNext ==
  \/ \E s \in Searchers :
       \/ StartSearch(s) \/ CapacityFrees(s) \/ SourceAwaited(s)
       \/ SearchAnswered(s) \/ SearchRetries(s) \/ SearchLost(s)
  \/ \E i \in LookupIds : SourceFound(i) \/ LookupFails(i)
  \/ SourceReplaced

SourcesSpec == SourcesInit /\ [][SourcesNext]_sourceVars
-----------------------------------------------------------------------------
(* Properties.                                                             *)

(* From some time after the last replacement of the data source on, no     *)
(* search fails because the one it queries is gone, however discoveries    *)
(* that began before, requests that share them and evictions overlap.      *)
SearchesRecover ==
  <>[][\A s \in Searchers : SearchLost(s) => search[s].kind = "propose"]_sourceVars
=============================================================================
