---------------------------- MODULE RedirectCache ----------------------------
(***************************************************************************)
(* Redirects: HttpHandle (cores/http.go) asks the server's in-memory LRU   *)
(* (cores/lru.go), then the store of mappings, and fills the LRU.  The     *)
(* store is the Redis hash of all servers (ext/redisx/cache.go) or the map *)
(* of the only server (ext/memx/cache.go); `backend` says which.           *)
(*                                                                         *)
(* A visitor is a goroutine that serves one redirect after the other; one  *)
(* step is one call on the LRU or the store.  The store's Add and Remove   *)
(* are called by the service (see LinkLifecycle).  The in-memory Get holds *)
(* a read lock to its end, the in-memory Add and Remove the write lock.    *)
(*                                                                         *)
(* Times are counted in ticks, as what is left until now.  A request takes *)
(* at most Latency ticks.                                                  *)
(***************************************************************************)
EXTENDS Integers, Functions

CONSTANTS
  Codes, Links,
  Visitors, Servers,
  Home,      \* the server of the in-memory backend
  TTL,       \* lifetime of an LRU entry: five minutes
  Latency,   \* ticks a request may take
  Lives,     \* the lives of the mappings that are added
  Forever,   \* a life that does not end while we look
  MaxEdits   \* bound: calls of Add and Remove

ASSUME RedirectAssumption ==
  /\ Home \in Servers
  /\ TTL \in Nat /\ Latency \in Nat /\ MaxEdits \in Nat
  /\ Lives \subseteq Nat /\ Forever \in Nat

VARIABLES
  backend,   \* "redis" or "memory": chosen by the program that wires the service
  mapping,   \* the store: link and life for each code that is mapped
  lru,       \* each server's LRU: link and remaining lifetime per code
  visit,     \* each visitor's request: what it does next, where, for which code
  edits,     \* how often Add and Remove were called
  since      \* history: ticks since a link was the live mapping of a code

vars == <<backend, mapping, lru, visit, edits, since>>

Put(f, k, v) == [x \in DOMAIN f \cup {k} |-> IF x = k THEN v ELSE f[x]]
Without(f, k) == Restrict(f, DOMAIN f \ {k})

Live(m, k) == k \in DOMAIN m /\ m[k].life >= 0

\* The longest a link may be answered with after its mapping ended: until a
\* request that had read it fills the LRU, while it stays there, and until the
\* request that found it there is answered.
MaxStale == TTL + 2 * Latency
Never    == MaxStale + 1

\* since, after the store became m and n ticks went by.
Watch(m, n) ==
  since' = [k \in Codes |-> [l \in Links |->
              IF Live(m, k) /\ m[k].link = l THEN 0
              ELSE IF since[k][l] + n <= Never THEN since[k][l] + n ELSE Never]]

NoVisit == [at |-> "idle"]

Init ==
  /\ backend \in {"redis", "memory"}
  /\ mapping = <<>> /\ lru = [s \in Servers |-> <<>>]
  /\ visit = [v \in Visitors |-> NoVisit]
  /\ edits = 0 /\ since = [k \in Codes |-> [l \in Links |-> Never]]

-----------------------------------------------------------------------------
(* HttpHandle. *)

Goto(v, where) == visit' = [visit EXCEPT ![v].at = where]
Done(v)        == visit' = [visit EXCEPT ![v] = NoVisit]

\* Where a redirect goes: with a link from the LRU to its answer, else to the store.
Looked(s, k) ==
  IF k \in DOMAIN lru[s]
  THEN [at |-> "answer", server |-> s, code |-> k, link |-> lru[s][k].link, took |-> 0]
  ELSE [at |-> "get", server |-> s, code |-> k, took |-> 0]

\* A variant of Lookup whose LRU starts a new lifetime at every hit.
LookupRenews(v, s, k) ==
  /\ visit[v].at = "idle" /\ (backend = "redis" \/ s = Home)
  /\ visit' = [visit EXCEPT ![v] = Looked(s, k)]
  /\ lru' = IF k \in DOMAIN lru[s] THEN [lru EXCEPT ![s][k].ttl = TTL] ELSE lru
  /\ UNCHANGED <<backend, mapping, edits, since>>

\* GetMemLRUCache.
Lookup(v, s, k) ==
  /\ visit[v].at = "idle" /\ (backend = "redis" \/ s = Home)
  /\ visit' = [visit EXCEPT ![v] = Looked(s, k)]
  /\ UNCHANGED <<backend, mapping, lru, edits, since>>

\* Cache.Get finds a link that is not past its expiry.
GetFinds(v) ==
  /\ visit[v].at = "get" /\ Live(mapping, visit[v].code)
  /\ visit' = [visit EXCEPT ![v] =
        [at |-> "fill", server |-> visit[v].server, code |-> visit[v].code,
         link |-> mapping[visit[v].code].link, took |-> visit[v].took]]
  /\ UNCHANGED <<backend, mapping, lru, edits, since>>

\* A variant of GetFindsNone that goes on with the empty link.
GetFindsNoneFills(v) ==
  /\ visit[v].at = "get" /\ (backend = "redis" \/ visit[v].code \notin DOMAIN mapping)
  /\ visit' = [visit EXCEPT ![v] =
        [at |-> "fill", server |-> visit[v].server, code |-> visit[v].code,
         link |-> "", took |-> visit[v].took]]
  /\ UNCHANGED <<backend, mapping, lru, edits, since>>

\* Cache.Get finds nothing, or HGET fails: not found.
GetFindsNone(v) ==
  /\ visit[v].at = "get" /\ (backend = "redis" \/ visit[v].code \notin DOMAIN mapping)
  /\ Done(v)
  /\ UNCHANGED <<backend, mapping, lru, edits, since>>

\* Cache.Get finds a mapping past its expiry, and is about to remove it.
GetFindsExpired(v) ==
  /\ visit[v].at = "get"
  /\ visit[v].code \in DOMAIN mapping /\ ~Live(mapping, visit[v].code)
  /\ Goto(v, "remove")
  /\ UNCHANGED <<backend, mapping, lru, edits, since>>

\* HDEL, which may fail unnoticed, or delete under the read lock: not found.
GetRemoves(v) ==
  /\ visit[v].at = "remove"
  /\ \/ mapping' = Without(mapping, visit[v].code)
     \/ backend = "redis" /\ UNCHANGED mapping
  /\ Watch(mapping', 0)
  /\ Done(v)
  /\ UNCHANGED <<backend, lru, edits>>

\* AddMemLRUCache.
Fill(v) ==
  /\ visit[v].at = "fill"
  /\ lru' = [lru EXCEPT ![visit[v].server] =
        Put(@, visit[v].code, [link |-> visit[v].link, ttl |-> TTL])]
  /\ Goto(v, "answer")
  /\ UNCHANGED <<backend, mapping, edits, since>>

\* The redirect.
Answer(v) ==
  /\ visit[v].at = "answer"
  /\ Done(v)
  /\ UNCHANGED <<backend, mapping, lru, edits, since>>

Serve(v) ==
  \/ GetFinds(v) \/ GetFindsNone(v) \/ GetFindsExpired(v) \/ GetRemoves(v)
  \/ Fill(v) \/ Answer(v)

-----------------------------------------------------------------------------
(* The store's writers, and the environment. *)

\* Whether a Get of the in-memory store is under way.
ReadLocked == backend = "memory" /\ \E v \in Visitors : visit[v].at = "remove"

\* A variant of Add that does not wait for readers.
AddUnlocked(k, link, life) ==
  /\ edits < MaxEdits
  /\ edits' = edits + 1
  /\ mapping' = Put(mapping, k, [link |-> link, life |-> life])
  /\ Watch(mapping', 0)
  /\ UNCHANGED <<backend, lru, visit>>

\* Add.
Add(k, link, life) ==
  /\ edits < MaxEdits /\ ~ReadLocked
  /\ edits' = edits + 1
  /\ mapping' = Put(mapping, k, [link |-> link, life |-> life])
  /\ Watch(mapping', 0)
  /\ UNCHANGED <<backend, lru, visit>>

\* Remove.
Remove(k) ==
  /\ edits < MaxEdits /\ ~ReadLocked
  /\ edits' = edits + 1
  /\ mapping' = Without(mapping, k)
  /\ Watch(mapping', 0)
  /\ UNCHANGED <<backend, lru, visit>>

\* A Get deletes from the map of a length while another Get reads it or deletes from
\* it too, both under the read lock: the Go runtime may end the process.  The server
\* starts again with empty stores.
ConcurrentAccess(v, w) ==
  /\ backend = "memory" /\ v # w
  /\ visit[v].at = "remove" /\ visit[w].at \in {"get", "remove"}
  /\ mapping' = <<>> /\ lru' = [lru EXCEPT ![Home] = <<>>]
  /\ visit' = [u \in Visitors |-> NoVisit]
  /\ Watch(mapping', 0)
  /\ UNCHANGED <<backend, edits>>

\* The LRU is full: the link of another code takes the place of this one.
Evict(s, k) ==
  /\ k \in DOMAIN lru[s]
  /\ lru' = [lru EXCEPT ![s] = Without(@, k)]
  /\ UNCHANGED <<backend, mapping, visit, edits, since>>

Older(m) ==
  [k \in DOMAIN m |-> IF m[k].life \in {Forever, -1} THEN m[k]
                      ELSE [m[k] EXCEPT !.life = @ - 1]]

\* A variant of Tick under which LRU entries do not age.
TickLruAgeless ==
  /\ \A v \in Visitors : visit[v].at # "idle" => visit[v].took < Latency
  /\ mapping' = Older(mapping)
  /\ visit' = [v \in Visitors |-> IF visit[v].at = "idle" THEN visit[v]
                                  ELSE [visit[v] EXCEPT !.took = @ + 1]]
  /\ Watch(mapping', 1)
  /\ UNCHANGED <<backend, edits, lru>>

\* Time goes by: mappings end, LRU entries end, requests take longer.
Tick ==
  /\ \A v \in Visitors : visit[v].at # "idle" => visit[v].took < Latency
  /\ mapping' = Older(mapping)
  /\ lru' = [s \in Servers |->
        [k \in {c \in DOMAIN lru[s] : lru[s][c].ttl > 0} |->
           [lru[s][k] EXCEPT !.ttl = @ - 1]]]
  /\ visit' = [v \in Visitors |-> IF visit[v].at = "idle" THEN visit[v]
                                  ELSE [visit[v] EXCEPT !.took = @ + 1]]
  /\ Watch(mapping', 1)
  /\ UNCHANGED <<backend, edits>>

Next ==
  \/ \E v \in Visitors :
        \/ \E s \in Servers, k \in Codes : Lookup(v, s, k)
        \/ Serve(v)
        \/ \E w \in Visitors : ConcurrentAccess(v, w)
  \/ \E k \in Codes :
        \/ \E link \in Links, life \in Lives : Add(k, link, life)
        \/ Remove(k)
        \/ \E s \in Servers : Evict(s, k)
  \/ Tick

Spec == Init /\ [][Next]_vars

-----------------------------------------------------------------------------
(* What redirects guarantee. *)

Entry == [link : Links, ttl : 0 .. TTL]

Visits ==
  {NoVisit}
  \cup [at : {"get", "remove"}, server : Servers, code : Codes, took : 0 .. Latency]
  \cup [at : {"fill", "answer"}, server : Servers, code : Codes, link : Links,
        took : 0 .. Latency]

\* Mappings, LRU entries within their lifetime, requests within their time.
TypeOK ==
  /\ backend \in {"redis", "memory"}
  /\ DOMAIN mapping \subseteq Codes
  /\ \A k \in DOMAIN mapping : mapping[k] \in [link : Links, life : Int]
  /\ \A s \in Servers : /\ DOMAIN lru[s] \subseteq Codes
                        /\ \A k \in DOMAIN lru[s] : lru[s][k] \in Entry
  /\ visit \in [Visitors -> Visits]
  /\ edits \in 0 .. MaxEdits /\ since \in [Codes -> [Links -> 0 .. Never]]

\* A visitor is redirected to a link that was the code's live mapping at most
\* MaxStale ago, however the fills of two requests, edits, removals, the expiry of
\* the mapping and the lifetime of the LRU entry fall (doc/design.md:149, 427;
\* cores/http.go:59 serves from the LRU without looking at the expiry).
BoundedStaleness ==
  \A v \in Visitors :
     visit[v].at = "answer" => since[visit[v].code][visit[v].link] <= MaxStale

\* These requests found the code's mapping expired and have not removed it yet.
Removing(k) == {v \in Visitors : visit[v].at = "remove" /\ visit[v].code = k}

\* The in-memory server's stores are gone, and with them the requests: one Get was
\* removing a mapping while another was in the store.
Restarted ==
  /\ backend = "memory" /\ mapping' = <<>> /\ visit' = [v \in Visitors |-> NoVisit]
  /\ \E k \in Codes : \E v \in Removing(k), w \in Visitors :
        v # w /\ visit[w].at \in {"get", "remove"}

\* A live mapping is removed by the service only.  One exception is Redis, where
\* the lazy removal is a second call (ext/redisx/cache.go:94): it also deletes a
\* renewal that came in between.  In memory the read lock keeps the renewal out
\* (ext/memx/cache.go:63); there a mapping is lost with the process only, which
\* two Gets of the same moment can end, when one of them removes.
OnlyEditsEndMappings ==
  [][\A k \in Codes :
       Live(mapping, k) /\ k \notin DOMAIN mapping' =>
          \/ edits' > edits
          \/ backend = "redis" /\ Removing(k) # {}
          \/ Restarted]_vars

-----------------------------------------------------------------------------
(* Liveness.  Requests are served and time goes by. *)

Fairness == WF_vars(Tick) /\ \A v \in Visitors : WF_vars(Serve(v))

FairSpec == Spec /\ Fairness

\* What every server's LRU answers for a code is the code's live mapping.
Current ==
  \A s \in Servers : \A k \in DOMAIN lru[s] :
     Live(mapping, k) /\ mapping[k].link = lru[s][k].link

\* After the last edit every server's LRU comes to hold nothing but current links,
\* and stays so, although visitors never stop and nobody tells the LRUs: what it
\* answers without asking the store is what the store would answer.  (A link whose
\* mapping a late lazy removal took away is then in no LRU; nobody maps it again.)
EventuallyCurrent == <>[]Current

=============================================================================
