---------------------------- MODULE ShardedSearch ----------------------------
(***************************************************************************)
(* HierarchicalIndex::search with per-event HNSW shards enabled, called by *)
(* several threads: the coarse scan, the choice of path, and, when the     *)
(* candidate scope is worth it, one EventHnswCache::search per candidate   *)
(* event.  The shards are built lazily behind a RwLock: looked up under    *)
(* the read lock, looked up again and built under the write lock.  The     *)
(* list of built shards is saved to and loaded from a file.                *)
(*                                                                         *)
(* The graph of a shard is instant-distance's: external.  What is relied   *)
(* on is that it returns points of the shard, nearest first, and something *)
(* if there is anything.                                                   *)
(***************************************************************************)
EXTENDS TopKScan

CONSTANTS
  Threads,      \* callers sharing one index
  NoThread,     \* nobody holds the write lock
  Requests,     \* the searches asked for: [query, k]
  Parallel,     \* SearchOptions::parallel
  MinShardSize, \* min_shard_size
  WarmFiles,    \* the warm_shards.json an earlier process may have left
  NoFile,       \* no such file
  NoResult,     \* nothing searched yet
  MaxCalls,     \* bound: searches, saves and loads
  MaxRestarts   \* bound: process restarts

ASSUME ShardedAssumption ==
  /\ NoThread \notin Threads
  /\ Requests \subseteq [query : Signatures, k : Nat \ {0}]  \* k = 0 returns at once
  /\ Corpus # <<>>                                          \* so does an empty corpus
  /\ Parallel \in BOOLEAN
  /\ MinShardSize \in Nat
  /\ \A listing \in WarmFiles : IsFiniteSet(listing)

\* A shard pairs the points found in the corpus with the scope's documents
\* by position, so it is right only for scopes inside the corpus: those that
\* indexing writes.
ASSUME ScopesInCorpus == \A e \in Events : Scopes[e] \subseteq Docs

VARIABLES
  built,    \* the events whose shard is in the map
  builds,   \* history: how often each shard was built by this process
  readers,  \* who holds the read lock
  writer,   \* who holds the write lock
  warmFile, \* warm_shards.json
  at,       \* where each thread is
  request,  \* what it searches for
  coarse,   \* coarse_results
  todo,     \* candidate events still to be asked
  merged,   \* hits so far
  listed,   \* the list a load has read
  result,   \* the last SearchResult of the thread
  calls,    \* bound counter
  restarts  \* bound counter

lockVars   == <<readers, writer>>
searchVars == <<request, coarse, todo, merged, result>>
countVars  == <<calls, restarts>>
vars == <<built, builds, lockVars, warmFile, listed, at, searchVars, countVars>>

Init ==
  /\ built = {}
  /\ builds = [e \in Events |-> 0]
  /\ readers = {}
  /\ writer = NoThread
  /\ warmFile \in WarmFiles \cup {NoFile}
  /\ at = [t \in Threads |-> "idle"]
  /\ request \in [Threads -> {CHOOSE r \in Requests : TRUE}]
  /\ coarse = [t \in Threads |-> <<>>]
  /\ todo = [t \in Threads |-> <<>>]
  /\ merged = [t \in Threads |-> <<>>]
  /\ listed = [t \in Threads |-> {}]
  /\ result = [t \in Threads |-> NoResult]
  /\ calls = 0
  /\ restarts = 0

Large(e)         == e \in Events /\ Cardinality(Scopes[e]) >= MinShardSize
IsWorthHnsw(scope) == Cardinality(scope) >= MinShardSize

Goes(t, to)   == at' = [at EXCEPT ![t] = to]
Take(t)       == at[t] = "idle" /\ calls < MaxCalls /\ calls' = calls + 1
LockRead(t)   == writer = NoThread /\ readers' = readers \cup {t} /\ UNCHANGED writer
UnlockRead(t) == readers' = readers \ {t} /\ UNCHANGED writer
LockWrite(t)  == writer = NoThread /\ readers = {} /\ writer' = t /\ UNCHANGED readers
UnlockWrite   == writer' = NoThread /\ UNCHANGED readers

-----------------------------------------------------------------------------
(* HierarchicalIndex::search up to the shards. *)

\* The candidates in the order the ranking names them.
CandidateList(hits, limit) ==
  LET events   == CandidateEvents(hits, limit)
      first(e) == Min({i \in DOMAIN hits : DocEvent(hits[i].doc) = e})
  IN  Ordered(events, LAMBDA a, b : first(a) < first(b))

Seeds(hits, k) == CandidateList(Prefix(hits, AtLeast(4 * k, 1)), AtLeast(MaxCandidateEvents, 1))

Found(rq, hits, found, shards) ==
  [query |-> rq.query, k |-> rq.k, coarse |-> found, results |-> hits, viaShards |-> shards]

\* Too few events, or none on the way: the coarse ranking is the answer.
BeginFlat(t, rq, found) ==
  /\ Len(Scopes) <= 1 \/ UnionScope(Range(Seeds(found, rq.k))) = {}
  /\ result' = [result EXCEPT ![t] = Found(rq, Prefix(found, rq.k), found, FALSE)]
  /\ UNCHANGED <<at, request, coarse, todo, merged>>

\* The scope is small: its documents are scanned again.
BeginRescan(t, rq, found) ==
  LET scope == UnionScope(Range(Seeds(found, rq.k)))
  IN  /\ Len(Scopes) > 1 /\ scope # {} /\ ~IsWorthHnsw(scope)
      /\ \E hits \in Scan(rq.query, Packed(scope), rq.k, Parallel) :
           result' = [result EXCEPT ![t] = Found(rq, hits, found, FALSE)]
      /\ UNCHANGED <<at, request, coarse, todo, merged>>

\* The shards are asked, one candidate after the other.
BeginShards(t, rq, found) ==
  LET events == Seeds(found, rq.k)
  IN  /\ Len(Scopes) > 1 /\ UnionScope(Range(events)) # {}
      /\ IsWorthHnsw(UnionScope(Range(events)))
      /\ Goes(t, "lookup")
      /\ request' = [request EXCEPT ![t] = rq]
      /\ coarse' = [coarse EXCEPT ![t] = found]
      /\ todo' = [todo EXCEPT ![t] = events]
      /\ merged' = [merged EXCEPT ![t] = <<>>]
      /\ UNCHANGED result

Begin(t) ==
  /\ Take(t)
  /\ \E rq \in Requests :
       \E found \in Scan(rq.query, Packed(Docs),
                          AtMost(AtLeast(CoarseK, rq.k), Len(Corpus)), Parallel) :
         \/ BeginFlat(t, rq, found)
         \/ BeginRescan(t, rq, found)
         \/ BeginShards(t, rq, found)
  /\ UNCHANGED <<built, builds, lockVars, warmFile, listed, restarts>>

-----------------------------------------------------------------------------
(* EventHnswCache::search of the first event still to be asked. *)

\* External: some points of the shard, nearest first, at least one.
ShardAnswers(e, q, k) ==
  {HitsOf(q, r) :
     r \in UNION {Rankings(q, S) : S \in {D \in SUBSET Scopes[e] :
                                            D # {} /\ Cardinality(D) <= k}}}

\* cache.search(top_k): what the shard finds joins the rest.
AskShard(t, e) ==
  \E hits \in ShardAnswers(e, request[t].query, request[t].k) :
    merged' = [merged EXCEPT ![t] = @ \o hits]

NextEvent(t) ==
  /\ Goes(t, "lookup")
  /\ todo' = [todo EXCEPT ![t] = Tail(@)]

Lookup(t) ==
  /\ at[t] = "lookup" /\ todo[t] # <<>>
  /\ LockRead(t)
  /\ Goes(t, "reading")
  /\ UNCHANGED <<built, builds, warmFile, listed, searchVars, countVars>>

\* Fast path: answered under the read lock.
ReadHit(t) ==
  /\ at[t] = "reading" /\ Head(todo[t]) \in built
  /\ AskShard(t, Head(todo[t]))
  /\ NextEvent(t)
  /\ UnlockRead(t)
  /\ UNCHANGED <<built, builds, warmFile, listed, request, coarse, result, countVars>>

\* Mutant: the read lock is kept while the write lock is asked for.
ReadMissHolding(t) ==
  /\ at[t] = "reading" /\ Head(todo[t]) \notin built
  /\ Goes(t, "upgrade")
  /\ UNCHANGED <<built, builds, lockVars, warmFile, listed, searchVars, countVars>>

\* Nothing there: the read lock goes before the write lock is asked for.
ReadMiss(t) ==
  /\ at[t] = "reading" /\ Head(todo[t]) \notin built
  /\ Goes(t, "upgrade")
  /\ UnlockRead(t)
  /\ UNCHANGED <<built, builds, warmFile, listed, searchVars, countVars>>

Upgrade(t) ==
  /\ at[t] = "upgrade"
  /\ LockWrite(t)
  /\ Goes(t, "writing")
  /\ UNCHANGED <<built, builds, warmFile, listed, searchVars, countVars>>

\* Mutant: the shard is built without a second look.
MissingUnchecked(e) == Large(e)

\* Entry::Vacant, and a scope of the size.
Missing(e) == e \notin built /\ Large(e)

\* Mutant: who finds the shard there after all goes on without asking it.
WriteAndAskOwn(t) ==
  LET e == Head(todo[t])
  IN  /\ at[t] = "writing"
      /\ built'  = built \cup {s \in {e} : Missing(s)}
      /\ builds' = [s \in Events |-> builds[s] + (IF s = e /\ Missing(e) THEN 1 ELSE 0)]
      /\ \/ Missing(e) /\ AskShard(t, e)
         \/ ~Missing(e) /\ UNCHANGED merged
      /\ NextEvent(t)
      /\ UnlockWrite
      /\ UNCHANGED <<warmFile, listed, request, coarse, result, countVars>>

\* Someone else may have built it since; a scope below the size gets none.
WriteAndAsk(t) ==
  LET e == Head(todo[t])
  IN  /\ at[t] = "writing"
      /\ built'  = built \cup {s \in {e} : Missing(s)}
      /\ builds' = [s \in Events |-> builds[s] + (IF s = e /\ Missing(e) THEN 1 ELSE 0)]
      /\ \/ e \in built' /\ AskShard(t, e)
         \/ e \notin built' /\ UNCHANGED merged
      /\ NextEvent(t)
      /\ UnlockWrite
      /\ UNCHANGED <<warmFile, listed, request, coarse, result, countVars>>

\* Mutant: the shards' hits in the order asked.
MergeUncut(hits, k) == Prefix(hits, k)

\* sort_by_key is stable, so equal distances stay in the order asked.
MergeSorted(hits, k) ==
  LET before(i, j) == hits[i].dist < hits[j].dist \/ (hits[i].dist = hits[j].dist /\ i < j)
      order        == Ordered(DOMAIN hits, before)
  IN  Prefix([r \in DOMAIN hits |-> hits[order[r]]], k)

Finish(t) ==
  /\ at[t] = "lookup" /\ todo[t] = <<>>
  /\ result' = [result EXCEPT ![t] =
       Found(request[t], MergeSorted(merged[t], request[t].k), coarse[t], TRUE)]
  /\ merged' = [merged EXCEPT ![t] = <<>>]
  /\ coarse' = [coarse EXCEPT ![t] = <<>>]
  /\ Goes(t, "idle")
  /\ UNCHANGED <<built, builds, lockVars, warmFile, listed, request, todo, countVars>>

-----------------------------------------------------------------------------
(* save_to_dir, load_from_dir, and a new process. *)

Save(t) ==
  /\ Take(t)
  /\ LockRead(t)
  /\ Goes(t, "saving")
  /\ UNCHANGED <<built, builds, warmFile, listed, searchVars, restarts>>

SaveWrite(t) ==
  /\ at[t] = "saving"
  /\ warmFile' = built
  /\ UnlockRead(t)
  /\ Goes(t, "idle")
  /\ UNCHANGED <<built, builds, listed, searchVars, countVars>>

\* The file is read before the lock is taken.
Load(t) ==
  /\ Take(t)
  /\ warmFile # NoFile
  /\ listed' = [listed EXCEPT ![t] = warmFile]
  /\ Goes(t, "loading")
  /\ UNCHANGED <<built, builds, lockVars, warmFile, searchVars, restarts>>

LoadLock(t) ==
  /\ at[t] = "loading"
  /\ LockWrite(t)
  /\ Goes(t, "rebuilding")
  /\ UNCHANGED <<built, builds, warmFile, listed, searchVars, countVars>>

\* Events built meanwhile, unknown to this corpus, or too small are skipped.
LoadRebuild(t) ==
  LET new == {e \in listed[t] : Missing(e)}
  IN  /\ at[t] = "rebuilding"
      /\ built' = built \cup new
      /\ builds' = [e \in Events |-> builds[e] + (IF e \in new THEN 1 ELSE 0)]
      /\ listed' = [listed EXCEPT ![t] = {}]
      /\ UnlockWrite
      /\ Goes(t, "idle")
      /\ UNCHANGED <<warmFile, searchVars, countVars>>

Restart ==
  /\ restarts < MaxRestarts
  /\ restarts' = restarts + 1
  /\ built' = {}
  /\ builds' = [e \in Events |-> 0]
  /\ readers' = {}
  /\ writer' = NoThread
  /\ at' = [t \in Threads |-> "idle"]
  /\ todo' = [t \in Threads |-> <<>>]
  /\ merged' = [t \in Threads |-> <<>>]
  /\ listed' = [t \in Threads |-> {}]
  /\ result' = [t \in Threads |-> NoResult]
  /\ coarse' = [t \in Threads |-> <<>>]
  /\ UNCHANGED <<warmFile, request, calls>>

\* The steps of a call under way.
Step(t) ==
  \/ Lookup(t) \/ ReadHit(t) \/ ReadMiss(t) \/ Upgrade(t) \/ WriteAndAsk(t) \/ Finish(t)
  \/ SaveWrite(t) \/ LoadLock(t) \/ LoadRebuild(t)

Next ==
  \/ \E t \in Threads : Begin(t) \/ Save(t) \/ Load(t) \/ Step(t)
  \/ Restart

\* A thread in a call keeps running, and the lock does not starve one for
\* ever: only finitely many calls are made.
Spec == Init /\ [][Next]_vars /\ \A t \in Threads : WF_vars(Step(t))

-----------------------------------------------------------------------------
(* Properties. *)

Places == {"idle", "lookup", "reading", "upgrade", "writing", "saving", "loading", "rebuilding"}

\* Shape of the state, and what each place means for the lock.
TypeOK ==
  /\ built \subseteq Events
  /\ builds \in [Events -> Nat]
  /\ warmFile # NoFile => IsFiniteSet(warmFile)
  /\ at \in [Threads -> Places]
  /\ readers = {t \in Threads : at[t] \in {"reading", "saving"}}
  /\ {writer} \ {NoThread} = {t \in Threads : at[t] \in {"writing", "rebuilding"}}
  /\ \A t \in Threads : at[t] \in {"reading", "upgrade", "writing"} => todo[t] # <<>>

\* However lookups, builds and loads of the threads interleave, a process
\* builds a shard once, and only one that is worth it (hnsw.rs:235, "handle
\* the racing-thread case").
BuiltOnce ==
  \A e \in Events : /\ builds[e] = IF e \in built THEN 1 ELSE 0
                    /\ e \in built => Large(e)

Sorted(hits) == \A i, j \in DOMAIN hits : i < j => hits[i].dist <= hits[j].dist

\* An answer put together from shards is ranked, its distances are those of
\* its query, its documents those of the events the coarse ranking named,
\* whatever the other threads asked and built meanwhile.
ShardAnswersHonest ==
  \A t \in Threads : result[t] # NoResult /\ result[t].viaShards =>
    LET r == result[t]
    IN  /\ Len(r.results) <= r.k
        /\ Sorted(r.results)
        /\ \A i \in DOMAIN r.results :
             /\ r.results[i].dist = DistanceTo(r.query, r.results[i].doc)
             /\ r.results[i].doc \in UnionScope(Range(Seeds(r.coarse, r.k)))

\* However rayon splits and merges, both scans return k nearest documents
\* of their scope, in rank order.
ScansNearest ==
  \A t \in Threads : result[t] # NoResult =>
    LET r     == result[t]
        scope == UnionScope(Range(Seeds(r.coarse, r.k)))
    IN  /\ r.coarse \in ScanTopK(r.query, Docs, AtMost(AtLeast(CoarseK, r.k), Len(Corpus)))
        /\ ~r.viaShards =>
             \/ r.results = Prefix(r.coarse, r.k)
             \/ r.results \in ScanTopK(r.query, scope, r.k)

\* A search that went to the shards comes back with something if any
\* candidate event is large enough for a shard.
LargeEventAnswers ==
  \A t \in Threads : result[t] # NoResult /\ result[t].viaShards =>
    LET r == result[t]
    IN  (\E e \in Range(Seeds(r.coarse, r.k)) : Large(e)) => r.results # <<>>

\* Every call ends: no thread waits for the lock for ever.
CallsEnd == \A t \in Threads : at[t] # "idle" ~> at[t] = "idle"

\* Claimed by hnsw.rs:94: below the threshold the caller falls through to
\* the rescan, so that a scope with documents has an answer.
SmallScopesRescanned ==
  \A t \in Threads : result[t] # NoResult => result[t].results # <<>>

=============================================================================
