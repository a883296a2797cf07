------------------------- MODULE RedirectCacheProofs -------------------------
(***************************************************************************)
(* Redirects are not staler than MaxStale, and live mappings end by edits  *)
(* only, for any codes, servers, visitors and times: proved.               *)
(***************************************************************************)
EXTENDS RedirectCache, TLAPS

Mapping == [link : Links, life : Int]

GetVisits  == [at : {"get", "remove"}, server : Servers, code : Codes, took : 0 .. Latency]
LinkVisits == [at : {"fill", "answer"}, server : Servers, code : Codes, link : Links,
               took : 0 .. Latency]

\* TypeOK, in parts.
MappingOK(m) == DOMAIN m \subseteq Codes /\ \A k \in DOMAIN m : m[k] \in Mapping
LruOK(f)     == DOMAIN f \subseteq Codes /\ \A k \in DOMAIN f : f[k] \in Entry

Types ==
  /\ backend \in {"redis", "memory"}
  /\ MappingOK(mapping)
  /\ lru = [s \in Servers |-> lru[s]] /\ \A s \in Servers : LruOK(lru[s])
  /\ visit \in [Visitors -> Visits]
  /\ edits \in 0 .. MaxEdits
  /\ since \in [Codes -> [Links -> 0 .. Never]]

LEMMA VisitKinds ==
  \A x \in Visits : /\ x.at = "idle" => x = NoVisit
                    /\ x.at \in {"get", "remove"} => x \in GetVisits
                    /\ x.at \in {"fill", "answer"} => x \in LinkVisits
                    /\ x.at \in {"idle", "get", "remove", "fill", "answer"}
BY DEF Visits, NoVisit, GetVisits, LinkVisits

LEMMA NeverIsNat == Never \in Nat /\ MaxStale \in Nat /\ MaxStale < Never
BY RedirectAssumption DEF Never, MaxStale

\* The history counts the ticks, and starts anew with a link that is live.
LEMMA WatchCounts ==
  ASSUME since \in [Codes -> [Links -> 0 .. Never]],
         NEW m, NEW n \in Nat, Watch(m, n)
  PROVE  /\ since' \in [Codes -> [Links -> 0 .. Never]]
         /\ \A k \in Codes, l \in Links :
               /\ since'[k][l] <= since[k][l] + n
               /\ Live(m, k) /\ m[k].link = l => since'[k][l] = 0
<1>1. ASSUME NEW k \in Codes, NEW l \in Links
      PROVE  /\ since'[k][l] \in 0 .. Never
             /\ since'[k][l] <= since[k][l] + n
             /\ Live(m, k) /\ m[k].link = l => since'[k][l] = 0
  <2>1. since'[k][l] = IF Live(m, k) /\ m[k].link = l THEN 0
                       ELSE IF since[k][l] + n <= Never THEN since[k][l] + n ELSE Never
    BY DEF Watch
  <2>2. since[k][l] \in 0 .. Never
    OBVIOUS
  <2> QED BY <2>1, <2>2, NeverIsNat
<1>2. since' = [k \in Codes |-> [l \in Links |-> since'[k][l]]]
  BY DEF Watch
<1> QED BY <1>1, <1>2

LEMMA PutKeeps ==
  ASSUME NEW m, MappingOK(m), NEW k \in Codes, NEW x \in Mapping
  PROVE  MappingOK(Put(m, k, x))
BY DEF MappingOK, Put

LEMMA WithoutKeeps ==
  ASSUME NEW m, NEW k
  PROVE  /\ MappingOK(m) => MappingOK(Without(m, k))
         /\ LruOK(m) => LruOK(Without(m, k))
BY DEF MappingOK, LruOK, Without, Restrict

LEMMA EmptyOK == MappingOK(<<>>) /\ LruOK(<<>>) /\ DOMAIN <<>> = {}
BY DEF MappingOK, LruOK

LEMMA OlderKeeps == ASSUME NEW m, MappingOK(m) PROVE MappingOK(Older(m))
<1>1. DOMAIN Older(m) = DOMAIN m
  BY DEF Older
<1>2. ASSUME NEW k \in DOMAIN m PROVE Older(m)[k] \in Mapping
  <2>1. m[k] \in Mapping
    BY DEF MappingOK
  <2>2. Older(m)[k] = m[k] \/ Older(m)[k] = [m[k] EXCEPT !.life = @ - 1]
    BY DEF Older
  <2> QED BY <2>1, <2>2 DEF Mapping
<1> QED BY <1>1, <1>2 DEF MappingOK

LEMMA TypesInit == Init => Types
BY EmptyOK, NeverIsNat, RedirectAssumption DEF Init, Types, Visits, NoVisit

\* A visitor's next call.
LEMMA LookupTypes ==
  ASSUME Types, NEW v \in Visitors, NEW s \in Servers, NEW k \in Codes, Lookup(v, s, k)
  PROVE  Types'
<1>1. 0 \in 0 .. Latency
  BY RedirectAssumption
<1>2. Looked(s, k) \in GetVisits \cup LinkVisits
  <2>1. k \in DOMAIN lru[s] => lru[s][k].link \in Links
    BY DEF Types, LruOK, Entry
  <2> QED BY <1>1, <2>1 DEF Looked, GetVisits, LinkVisits
<1>3. visit' = [visit EXCEPT ![v] = Looked(s, k)]
  BY DEF Lookup
<1> QED BY <1>2, <1>3 DEF Types, Lookup, Visits, GetVisits, LinkVisits

LEMMA ServeTypes == ASSUME Types, NEW v \in Visitors, Serve(v) PROVE Types'
<1>1. visit[v] \in Visits
  BY DEF Types
<1>2. ASSUME NEW x \in Visits, visit' = [visit EXCEPT ![v] = x]
      PROVE  visit' \in [Visitors -> Visits]
  BY <1>2 DEF Types
<1>3. NoVisit \in Visits
  BY DEF Visits
<1>4. CASE GetFinds(v)
  <2>1. visit[v] \in GetVisits
    BY <1>1, <1>4, VisitKinds DEF GetFinds
  <2>2. mapping[visit[v].code].link \in Links
    BY <1>4 DEF GetFinds, Live, Types, MappingOK, Mapping
  <2>3. [at |-> "fill", server |-> visit[v].server, code |-> visit[v].code,
         link |-> mapping[visit[v].code].link, took |-> visit[v].took] \in Visits
    BY <2>1, <2>2 DEF Visits, GetVisits
  <2> QED BY <1>2, <1>4, <2>3 DEF GetFinds, Types
<1>5. CASE GetFindsNone(v)
  BY <1>2, <1>3, <1>5 DEF GetFindsNone, Done, Types
<1>6. CASE GetFindsExpired(v)
  <2>1. visit[v] \in GetVisits
    BY <1>1, <1>6, VisitKinds DEF GetFindsExpired
  <2>2. [visit[v] EXCEPT !.at = "remove"] \in Visits
    BY <2>1 DEF Visits, GetVisits
  <2>3. visit' = [visit EXCEPT ![v] = [visit[v] EXCEPT !.at = "remove"]]
    BY <1>6 DEF GetFindsExpired, Goto
  <2> QED BY <1>2, <1>6, <2>2, <2>3 DEF GetFindsExpired, Types
<1>7. CASE GetRemoves(v)
  <2>1. MappingOK(mapping')
    BY <1>7, WithoutKeeps DEF GetRemoves, Types
  <2>2. since' \in [Codes -> [Links -> 0 .. Never]]
    BY <1>7, WatchCounts DEF GetRemoves, Types
  <2> QED BY <1>2, <1>3, <1>7, <2>1, <2>2 DEF GetRemoves, Done, Types
<1>8. CASE Fill(v)
  <2>1. visit[v] \in LinkVisits
    BY <1>1, <1>8, VisitKinds DEF Fill
  <2>2. [visit[v] EXCEPT !.at = "answer"] \in Visits
    BY <2>1 DEF Visits, LinkVisits
  <2>3. visit' = [visit EXCEPT ![v] = [visit[v] EXCEPT !.at = "answer"]]
    BY <1>8 DEF Fill, Goto
  <2>4. [link |-> visit[v].link, ttl |-> TTL] \in Entry /\ visit[v].code \in Codes
        /\ visit[v].server \in Servers
    BY <2>1, RedirectAssumption DEF Entry, LinkVisits
  <2>5. LruOK(Put(lru[visit[v].server], visit[v].code,
                  [link |-> visit[v].link, ttl |-> TTL]))
    BY <2>4 DEF Types, LruOK, Put
  <2>6. lru' = [lru EXCEPT ![visit[v].server] =
                  Put(lru[visit[v].server], visit[v].code,
                      [link |-> visit[v].link, ttl |-> TTL])]
    BY <1>8 DEF Fill
  <2>7. lru' = [s \in Servers |-> lru'[s]] /\ \A s \in Servers : LruOK(lru'[s])
    BY <2>4, <2>5, <2>6 DEF Types
  <2> QED BY <1>2, <1>8, <2>2, <2>3, <2>7 DEF Fill, Types
<1>9. CASE Answer(v)
  BY <1>2, <1>3, <1>9 DEF Answer, Done, Types
<1> QED BY <1>4, <1>5, <1>6, <1>7, <1>8, <1>9 DEF Serve

LEMMA EditTypes ==
  ASSUME Types, NEW k \in Codes,
         Remove(k) \/ \E link \in Links, life \in Lives : Add(k, link, life)
  PROVE  Types'
<1>1. MappingOK(mapping')
  <2>1. CASE Remove(k)
    BY <2>1, WithoutKeeps DEF Remove, Types
  <2>2. ASSUME NEW link \in Links, NEW life \in Lives, Add(k, link, life)
        PROVE  MappingOK(mapping')
    <3>1. [link |-> link, life |-> life] \in Mapping
      BY RedirectAssumption DEF Mapping
    <3> QED BY <2>2, <3>1, PutKeeps DEF Add, Types
  <2> QED BY <2>1, <2>2
<1>2. since' \in [Codes -> [Links -> 0 .. Never]]
  BY WatchCounts DEF Add, Remove, Types
<1>3. edits' = edits + 1 /\ edits < MaxEdits /\ UNCHANGED <<backend, lru, visit>>
  BY DEF Add, Remove
<1>4. edits' \in 0 .. MaxEdits
  BY <1>3, RedirectAssumption DEF Types
<1> QED BY <1>1, <1>2, <1>3, <1>4 DEF Types

LEMMA RestartTypes ==
  ASSUME Types, NEW v \in Visitors, NEW w \in Visitors, ConcurrentAccess(v, w)
  PROVE  Types'
<1>1. since' \in [Codes -> [Links -> 0 .. Never]]
  BY WatchCounts DEF ConcurrentAccess, Types
<1>2. MappingOK(mapping')
  BY EmptyOK DEF ConcurrentAccess
<1>3. lru' = [s \in Servers |-> lru'[s]] /\ \A s \in Servers : LruOK(lru'[s])
  BY EmptyOK DEF ConcurrentAccess, Types
<1>4. visit' \in [Visitors -> Visits]
  BY DEF ConcurrentAccess, Visits
<1> QED BY <1>1, <1>2, <1>3, <1>4 DEF ConcurrentAccess, Types

LEMMA EvictTypes ==
  ASSUME Types, NEW s \in Servers, NEW k \in Codes, Evict(s, k)
  PROVE  Types'
<1>1. lru' = [t \in Servers |-> lru'[t]] /\ \A t \in Servers : LruOK(lru'[t])
  BY WithoutKeeps DEF Evict, Types
<1> QED BY <1>1 DEF Evict, Types

\* An LRU entry after a tick is an older one from before.
LEMMA TickLru ==
  ASSUME Types, Tick, NEW s \in Servers, NEW k \in DOMAIN lru'[s]
  PROVE  /\ k \in DOMAIN lru[s] /\ k \in Codes
         /\ lru'[s][k].link = lru[s][k].link /\ lru[s][k].ttl \in 1 .. TTL
         /\ lru'[s][k].ttl = lru[s][k].ttl - 1 /\ lru'[s][k] \in Entry
<1>1. lru'[s] = [c \in {d \in DOMAIN lru[s] : lru[s][d].ttl > 0} |->
                   [lru[s][c] EXCEPT !.ttl = @ - 1]]
  BY DEF Tick
<1>2. k \in DOMAIN lru[s] /\ lru[s][k].ttl > 0
      /\ lru'[s][k] = [lru[s][k] EXCEPT !.ttl = @ - 1]
  BY <1>1
<1>3. lru[s][k] \in Entry /\ k \in Codes
  BY <1>2 DEF Types, LruOK
<1> QED BY <1>2, <1>3, RedirectAssumption DEF Entry

\* A request after a tick has taken one more, and is otherwise as before.
LEMMA TickVisit ==
  ASSUME Types, Tick, NEW v \in Visitors
  PROVE  /\ visit'[v] \in Visits
         /\ visit'[v].at = visit[v].at
         /\ visit[v].at # "idle" =>
               /\ visit'[v] = [visit[v] EXCEPT !.took = @ + 1]
               /\ visit[v].took + 1 <= Latency
<1>1. visit[v] \in Visits
  BY DEF Types
<1>2. CASE visit[v].at = "idle"
  BY <1>1, <1>2 DEF Tick
<1>3. CASE visit[v].at # "idle"
  <2>1. visit'[v] = [visit[v] EXCEPT !.took = @ + 1] /\ visit[v].took < Latency
    BY <1>3 DEF Tick
  <2>2. visit[v] \in GetVisits \/ visit[v] \in LinkVisits
    BY <1>1, <1>3, VisitKinds
  <2>3. CASE visit[v] \in GetVisits
    BY <2>1, <2>3, RedirectAssumption DEF GetVisits, Visits
  <2>4. CASE visit[v] \in LinkVisits
    BY <2>1, <2>4, RedirectAssumption DEF LinkVisits, Visits
  <2> QED BY <2>2, <2>3, <2>4
<1> QED BY <1>2, <1>3

LEMMA TickTypes == ASSUME Types, Tick PROVE Types'
<1>1. lru' = [s \in Servers |-> lru'[s]]
  BY DEF Tick
<1>2. ASSUME NEW s \in Servers PROVE LruOK(lru'[s])
  BY TickLru DEF LruOK
<1>3. visit' = [v \in Visitors |-> visit'[v]]
  BY DEF Tick
<1>4. visit' \in [Visitors -> Visits]
  BY <1>3, TickVisit
<1>5. since' \in [Codes -> [Links -> 0 .. Never]]
  BY WatchCounts DEF Tick, Types
<1>6. MappingOK(mapping')
  BY OlderKeeps DEF Tick, Types
<1> QED BY <1>1, <1>2, <1>4, <1>5, <1>6 DEF Tick, Types

LEMMA TypesStep == Types /\ [Next]_vars => Types'
<1> SUFFICES ASSUME Types, [Next]_vars PROVE Types'
  OBVIOUS
<1>1. CASE Next
  BY <1>1, LookupTypes, ServeTypes, RestartTypes, EditTypes, EvictTypes, TickTypes
     DEF Next
<1>2. CASE UNCHANGED vars
  BY <1>2 DEF Types, vars
<1> QED BY <1>1, <1>2

\* Mappings, LRU entries and requests are of their types, each entry within its
\* lifetime and each request within its time (cores/http.go:59).
THEOREM TypeCorrect == Spec => []TypeOK
<1>1. Types => TypeOK
  BY DEF Types, TypeOK, MappingOK, LruOK, Mapping
<1>2. Spec => []Types
  BY TypesInit, TypesStep, PTL DEF Spec
<1> QED BY <1>1, <1>2, PTL

-----------------------------------------------------------------------------
(* Staleness.  A link is as old as the request that carries it, or as the     *)
(* request that filled the LRU and the time since; an answer may come from    *)
(* either, so it adds up to both.                                             *)

FreshLru(s) ==
  \A k \in DOMAIN lru[s] :
     since[k][lru[s][k].link] <= Latency + (TTL - lru[s][k].ttl)

FreshVisit(v) ==
  /\ visit[v].at = "fill" =>
        since[visit[v].code][visit[v].link] <= visit[v].took
  /\ visit[v].at = "answer" =>
        since[visit[v].code][visit[v].link] <= Latency + TTL + visit[v].took

Fresh ==
  /\ \A s \in Servers : FreshLru(s)
  /\ \A v \in Visitors : FreshVisit(v)
  /\ \A k \in Codes : Live(mapping, k) => since[k][mapping[k].link] = 0

LEMMA FreshInit == Init => Fresh
BY EmptyOK DEF Init, Fresh, FreshLru, FreshVisit, NoVisit, Live

\* Whatever makes no link older and leaves LRUs and requests alone.
LEMMA FreshWatch ==
  ASSUME Types, Fresh, Watch(mapping', 0), MappingOK(mapping'),
         \A s \in Servers : \A k \in DOMAIN lru'[s] :
            k \in DOMAIN lru[s] /\ lru'[s][k] = lru[s][k],
         \A v \in Visitors : visit'[v] = visit[v] \/ visit'[v] = NoVisit
  PROVE  Fresh'
<1>1. /\ since' \in [Codes -> [Links -> 0 .. Never]]
      /\ \A k \in Codes, l \in Links :
            /\ since'[k][l] <= since[k][l] + 0
            /\ Live(mapping', k) /\ mapping'[k].link = l => since'[k][l] = 0
  BY WatchCounts DEF Types
<1>2. \A k \in Codes, l \in Links : since'[k][l] <= since[k][l]
  <2> SUFFICES ASSUME NEW k \in Codes, NEW l \in Links PROVE since'[k][l] <= since[k][l]
    OBVIOUS
  <2>1. since[k][l] \in 0 .. Never
    BY DEF Types
  <2>2. since'[k][l] \in 0 .. Never
    BY <1>1
  <2> QED BY <1>1, <2>1, <2>2, NeverIsNat
<1>3. ASSUME NEW s \in Servers, NEW k \in DOMAIN lru'[s]
      PROVE  since'[k][lru'[s][k].link] <= Latency + (TTL - lru'[s][k].ttl)
  <2>1. k \in DOMAIN lru[s] /\ lru'[s][k] = lru[s][k]
    OBVIOUS
  <2>2. k \in Codes /\ lru[s][k] \in Entry
    BY <2>1 DEF Types, LruOK
  <2>3. since[k][lru[s][k].link] <= Latency + (TTL - lru[s][k].ttl)
    BY <2>1 DEF Fresh, FreshLru
  <2>4. lru[s][k].link \in Links /\ lru[s][k].ttl \in Int
    BY <2>2 DEF Entry
  <2>5. since'[k][lru[s][k].link] <= since[k][lru[s][k].link]
    BY <1>2, <2>2, <2>4
  <2>6. since'[k][lru[s][k].link] \in Int /\ since[k][lru[s][k].link] \in Int
    BY <1>1, <2>2, <2>4, NeverIsNat DEF Types
  <2> QED BY <2>1, <2>3, <2>4, <2>5, <2>6, RedirectAssumption
<1>4. ASSUME NEW v \in Visitors PROVE FreshVisit(v)'
  <2>1. CASE visit'[v] = NoVisit
    BY <2>1 DEF FreshVisit, NoVisit
  <2>2. CASE visit'[v] = visit[v] /\ visit[v].at \in {"fill", "answer"}
    <3>1. visit[v] \in LinkVisits
      BY <2>2, VisitKinds DEF Types
    <3>2. /\ visit[v].code \in Codes /\ visit[v].link \in Links
          /\ visit[v].took \in Int
      BY <3>1 DEF LinkVisits
    <3>3. since'[visit[v].code][visit[v].link] <= since[visit[v].code][visit[v].link]
      BY <1>2, <3>2
    <3>4. /\ since'[visit[v].code][visit[v].link] \in Int
          /\ since[visit[v].code][visit[v].link] \in Int
      BY <1>1, <3>2, NeverIsNat DEF Types
    <3>5. FreshVisit(v)
      BY DEF Fresh
    <3> QED BY <2>2, <3>2, <3>3, <3>4, <3>5, RedirectAssumption DEF FreshVisit
  <2>3. CASE visit'[v] = visit[v] /\ visit[v].at \notin {"fill", "answer"}
    BY <2>3 DEF FreshVisit
  <2> QED BY <2>1, <2>2, <2>3
<1>5. ASSUME NEW k \in Codes, Live(mapping', k) PROVE since'[k][mapping'[k].link] = 0
  <2>1. mapping'[k].link \in Links
    BY <1>5 DEF MappingOK, Mapping, Live
  <2> QED BY <1>1, <1>5, <2>1
<1> QED BY <1>3, <1>4, <1>5 DEF Fresh, FreshLru

\* The steps of a visitor that leave the store, its history and the LRUs alone.
LEMMA FreshGoto ==
  ASSUME Types, Fresh, UNCHANGED <<mapping, lru, since>>, NEW v \in Visitors, NEW x,
         visit' = [visit EXCEPT ![v] = x],
         x.at = "fill" => since[x.code][x.link] <= x.took,
         x.at = "answer" => since[x.code][x.link] <= Latency + TTL + x.took
  PROVE  Fresh'
<1>1. ASSUME NEW w \in Visitors PROVE FreshVisit(w)'
  <2>1. visit'[w] = IF w = v THEN x ELSE visit[w]
    BY DEF Types
  <2> QED BY <2>1 DEF Fresh, FreshVisit
<1> QED BY <1>1 DEF Fresh, FreshLru

LEMMA LookupFresh ==
  ASSUME Types, Fresh, NEW v \in Visitors, NEW s \in Servers, NEW k \in Codes,
         Lookup(v, s, k)
  PROVE  Fresh'
<1>1. ASSUME k \in DOMAIN lru[s]
      PROVE  since[k][lru[s][k].link] <= Latency + TTL + 0
  <2>1. lru[s][k] \in Entry
    BY <1>1 DEF Types, LruOK
  <2>2. lru[s][k].ttl \in 0 .. TTL /\ lru[s][k].link \in Links
    BY <2>1 DEF Entry
  <2>3. since[k][lru[s][k].link] \in Int
    BY <2>2, NeverIsNat DEF Types
  <2>4. since[k][lru[s][k].link] <= Latency + (TTL - lru[s][k].ttl)
    BY <1>1 DEF Fresh, FreshLru
  <2> QED BY <2>2, <2>3, <2>4, RedirectAssumption
<1>2. Looked(s, k).at = "fill" => FALSE
  BY DEF Looked
<1>3. Looked(s, k).at = "answer" =>
        since[Looked(s, k).code][Looked(s, k).link] <= Latency + TTL + Looked(s, k).took
  BY <1>1 DEF Looked
<1>4. visit' = [visit EXCEPT ![v] = Looked(s, k)] /\ UNCHANGED <<mapping, lru, since>>
  BY DEF Lookup
<1> QED BY <1>2, <1>3, <1>4, FreshGoto

LEMMA GetFindsFresh ==
  ASSUME Types, Fresh, NEW v \in Visitors, GetFinds(v)
  PROVE  Fresh'
<1>1. visit[v] \in GetVisits
  BY VisitKinds DEF GetFinds, Types
<1>2. visit[v].code \in Codes /\ visit[v].took \in Nat
  BY <1>1, RedirectAssumption DEF GetVisits
<1>3. since[visit[v].code][mapping[visit[v].code].link] = 0
  BY <1>2 DEF GetFinds, Fresh
<1>4. 0 <= visit[v].took
  BY <1>2
<1> DEFINE x == [at |-> "fill", server |-> visit[v].server, code |-> visit[v].code,
                 link |-> mapping[visit[v].code].link, took |-> visit[v].took]
<1>5. /\ x.at = "fill" => since[x.code][x.link] <= x.took
      /\ x.at # "answer"
  BY <1>3, <1>4
<1>6. visit' = [visit EXCEPT ![v] = x] /\ UNCHANGED <<mapping, lru, since>>
  BY DEF GetFinds
<1> HIDE DEF x
<1> QED BY <1>5, <1>6, FreshGoto

LEMMA FillFresh ==
  ASSUME Types, Fresh, NEW v \in Visitors, Fill(v)
  PROVE  Fresh'
<1>1. visit[v] \in LinkVisits
  BY VisitKinds DEF Fill, Types
<1>2. /\ visit[v].code \in Codes /\ visit[v].link \in Links
      /\ visit[v].server \in Servers /\ visit[v].took \in 0 .. Latency
  BY <1>1 DEF LinkVisits
<1>3. since[visit[v].code][visit[v].link] <= visit[v].took
  BY DEF Fill, Fresh, FreshVisit
<1>4. since[visit[v].code][visit[v].link] \in Int
  BY <1>2, NeverIsNat DEF Types
<1>5. UNCHANGED <<mapping, since>>
  BY DEF Fill
<1>6. ASSUME NEW s \in Servers, NEW k \in DOMAIN lru'[s]
      PROVE  since[k][lru'[s][k].link] <= Latency + (TTL - lru'[s][k].ttl)
  <2>1. lru'[s] = IF s = visit[v].server
                  THEN Put(lru[s], visit[v].code, [link |-> visit[v].link, ttl |-> TTL])
                  ELSE lru[s]
    BY DEF Fill, Types
  <2>2. CASE s = visit[v].server /\ k = visit[v].code
    <3>1. lru'[s][k] = [link |-> visit[v].link, ttl |-> TTL]
      BY <2>1, <2>2 DEF Put
    <3> QED BY <1>2, <1>3, <1>4, <2>2, <3>1, RedirectAssumption
  <2>3. CASE ~(s = visit[v].server /\ k = visit[v].code)
    <3>1. k \in DOMAIN lru[s] /\ lru'[s][k] = lru[s][k]
      BY <2>1, <2>3 DEF Put
    <3> QED BY <3>1 DEF Fresh, FreshLru
  <2> QED BY <2>2, <2>3
<1>7. ASSUME NEW w \in Visitors PROVE FreshVisit(w)'
  <2>1. visit'[w] = IF w = v THEN [visit[v] EXCEPT !.at = "answer"] ELSE visit[w]
    BY DEF Fill, Goto, Types
  <2>2. CASE w = v
    <3>1. /\ visit'[w].at = "answer" /\ visit'[w].code = visit[v].code
          /\ visit'[w].link = visit[v].link /\ visit'[w].took = visit[v].took
      BY <1>1, <2>1, <2>2 DEF LinkVisits
    <3>2. since[visit[v].code][visit[v].link] <= Latency + TTL + visit[v].took
      BY <1>2, <1>3, <1>4, RedirectAssumption
    <3> QED BY <1>5, <3>1, <3>2 DEF FreshVisit
  <2>3. CASE w # v
    BY <1>5, <2>1, <2>3 DEF Fresh, FreshVisit
  <2> QED BY <2>2, <2>3
<1> QED BY <1>5, <1>6, <1>7 DEF Fresh, FreshLru

LEMMA ServeFresh == ASSUME Types, Types', Fresh, NEW v \in Visitors, Serve(v) PROVE Fresh'
<1>1. CASE GetFinds(v)
  BY <1>1, GetFindsFresh
<1>2. CASE GetFindsNone(v) \/ Answer(v)
  <2>1. visit' = [visit EXCEPT ![v] = NoVisit] /\ UNCHANGED <<mapping, lru, since>>
    BY <1>2 DEF GetFindsNone, Answer, Done
  <2>2. NoVisit.at = "idle"
    BY DEF NoVisit
  <2> QED BY <2>1, <2>2, FreshGoto
<1>3. CASE GetFindsExpired(v)
  <2>1. visit[v] \in GetVisits
    BY <1>3, VisitKinds DEF GetFindsExpired, Types
  <2>2. [visit[v] EXCEPT !.at = "remove"].at = "remove"
    BY <2>1 DEF GetVisits
  <2>3. visit' = [visit EXCEPT ![v] = [visit[v] EXCEPT !.at = "remove"]]
        /\ UNCHANGED <<mapping, lru, since>>
    BY <1>3 DEF GetFindsExpired, Goto
  <2> QED BY <2>2, <2>3, FreshGoto
<1>4. CASE GetRemoves(v)
  <2>1. \A w \in Visitors : visit'[w] = visit[w] \/ visit'[w] = NoVisit
    BY <1>4 DEF GetRemoves, Done, Types
  <2> QED BY <1>4, <2>1, FreshWatch DEF GetRemoves, Types
<1>5. CASE Fill(v)
  BY <1>5, FillFresh
<1> QED BY <1>1, <1>2, <1>3, <1>4, <1>5 DEF Serve

LEMMA EnvironmentFresh ==
  ASSUME Types, Types', Fresh,
         \/ \E v, w \in Visitors : ConcurrentAccess(v, w)
         \/ \E k \in Codes : \/ \E link \in Links, life \in Lives : Add(k, link, life)
                             \/ Remove(k)
  PROVE  Fresh'
<1>1. Watch(mapping', 0)
  BY DEF ConcurrentAccess, Add, Remove
<1>2. \A v \in Visitors : visit'[v] = visit[v] \/ visit'[v] = NoVisit
  BY DEF ConcurrentAccess, Add, Remove
<1>3. ASSUME NEW s \in Servers, NEW k \in DOMAIN lru'[s]
      PROVE  k \in DOMAIN lru[s] /\ lru'[s][k] = lru[s][k]
  <2>1. CASE lru' = lru
    BY <2>1
  <2>2. CASE lru' = [lru EXCEPT ![Home] = <<>>]
    BY <2>2, EmptyOK DEF Types
  <2> QED BY <2>1, <2>2 DEF ConcurrentAccess, Add, Remove
<1> QED BY <1>1, <1>2, <1>3, FreshWatch DEF Types

LEMMA EvictFresh ==
  ASSUME Types, Fresh, NEW s \in Servers, NEW k \in Codes, Evict(s, k)
  PROVE  Fresh'
<1>1. ASSUME NEW t \in Servers, NEW c \in DOMAIN lru'[t]
      PROVE  c \in DOMAIN lru[t] /\ lru'[t][c] = lru[t][c]
  BY DEF Evict, Types, Without, Restrict
<1>2. UNCHANGED <<mapping, visit, since>>
  BY DEF Evict
<1> QED BY <1>1, <1>2 DEF Fresh, FreshLru, FreshVisit

LEMMA TickFresh == ASSUME Types, Types', Fresh, Tick PROVE Fresh'
<1>1. \A k \in Codes, l \in Links :
         /\ since'[k][l] <= since[k][l] + 1
         /\ Live(mapping', k) /\ mapping'[k].link = l => since'[k][l] = 0
  <2>1. Watch(mapping', 1) /\ 1 \in Nat
    BY DEF Tick
  <2>2. since \in [Codes -> [Links -> 0 .. Never]]
    BY DEF Types
  <2> QED BY <2>1, <2>2, WatchCounts
<1>2. \A k \in Codes, l \in Links : since[k][l] \in Int /\ since'[k][l] \in Int
  BY NeverIsNat DEF Types
<1>3. ASSUME NEW s \in Servers, NEW k \in DOMAIN lru'[s]
      PROVE  since'[k][lru'[s][k].link] <= Latency + (TTL - lru'[s][k].ttl)
  <2>1. /\ k \in DOMAIN lru[s] /\ k \in Codes
        /\ lru'[s][k].link = lru[s][k].link /\ lru[s][k].ttl \in 1 .. TTL
        /\ lru'[s][k].ttl = lru[s][k].ttl - 1 /\ lru'[s][k] \in Entry
    BY TickLru
  <2>2. lru'[s][k].link \in Links
    BY <2>1 DEF Entry
  <2>3. since[k][lru[s][k].link] <= Latency + (TTL - lru[s][k].ttl)
    BY <2>1 DEF Fresh, FreshLru
  <2>4. since'[k][lru[s][k].link] <= since[k][lru[s][k].link] + 1
    BY <1>1, <2>1, <2>2
  <2>5. since[k][lru[s][k].link] \in Int /\ since'[k][lru[s][k].link] \in Int
    BY <1>2, <2>1, <2>2
  <2> QED BY <2>1, <2>3, <2>4, <2>5, RedirectAssumption
<1>4. ASSUME NEW v \in Visitors PROVE FreshVisit(v)'
  <2>1. CASE visit[v].at \in {"fill", "answer"}
    <3>1. visit[v] \in LinkVisits
      BY <2>1, VisitKinds DEF Types
    <3>2. visit'[v] = [visit[v] EXCEPT !.took = @ + 1]
      BY <2>1, TickVisit
    <3>3. /\ visit'[v].at = visit[v].at /\ visit'[v].code = visit[v].code
          /\ visit'[v].link = visit[v].link /\ visit'[v].took = visit[v].took + 1
          /\ visit[v].code \in Codes /\ visit[v].link \in Links /\ visit[v].took \in Int
      BY <3>1, <3>2 DEF LinkVisits
    <3>4. since'[visit[v].code][visit[v].link] <= since[visit[v].code][visit[v].link] + 1
      BY <1>1, <3>3
    <3>5. /\ since'[visit[v].code][visit[v].link] \in Int
          /\ since[visit[v].code][visit[v].link] \in Int
      BY <1>2, <3>3
    <3>6. FreshVisit(v)
      BY DEF Fresh
    <3> QED BY <3>3, <3>4, <3>5, <3>6, RedirectAssumption DEF FreshVisit
  <2>2. CASE visit[v].at \notin {"fill", "answer"}
    BY <2>2, TickVisit DEF FreshVisit
  <2> QED BY <2>1, <2>2
<1>5. ASSUME NEW k \in Codes, Live(mapping', k) PROVE since'[k][mapping'[k].link] = 0
  <2>1. mapping'[k].link \in Links
    BY <1>5 DEF Types, MappingOK, Mapping, Live
  <2> QED BY <1>1, <1>5, <2>1
<1> QED BY <1>3, <1>4, <1>5 DEF Fresh, FreshLru

LEMMA FreshStep == Types /\ Types' /\ Fresh /\ [Next]_vars => Fresh'
<1> SUFFICES ASSUME Types, Types', Fresh, [Next]_vars PROVE Fresh'
  OBVIOUS
<1>1. CASE Next
  BY <1>1, LookupFresh, ServeFresh, EnvironmentFresh, EvictFresh, TickFresh DEF Next
<1>2. CASE UNCHANGED vars
  BY <1>2 DEF Fresh, FreshLru, FreshVisit, vars
<1> QED BY <1>1, <1>2

LEMMA FreshBounds == Types /\ Fresh => BoundedStaleness
<1> SUFFICES ASSUME Types, Fresh, NEW v \in Visitors, visit[v].at = "answer"
             PROVE  since[visit[v].code][visit[v].link] <= MaxStale
  BY DEF BoundedStaleness
<1>1. visit[v] \in LinkVisits
  BY VisitKinds DEF Types
<1>2. visit[v].code \in Codes /\ visit[v].link \in Links /\ visit[v].took \in 0 .. Latency
  BY <1>1 DEF LinkVisits
<1>3. since[visit[v].code][visit[v].link] \in Int
  BY <1>2, NeverIsNat DEF Types
<1>4. since[visit[v].code][visit[v].link] <= Latency + TTL + visit[v].took
  BY DEF Fresh, FreshVisit
<1> QED BY <1>2, <1>3, <1>4, RedirectAssumption DEF MaxStale

\* No redirect is staler than the LRU's lifetime and two requests, for every
\* lifetime and every time a request may take (doc/design.md:149, cores/http.go:59).
THEOREM BoundedStalenessHolds == Spec => []BoundedStaleness
<1>1. Init => Types /\ Fresh
  BY TypesInit, FreshInit
<1>2. Types /\ Fresh /\ [Next]_vars => (Types /\ Fresh)'
  BY TypesStep, FreshStep
<1> QED BY <1>1, <1>2, FreshBounds, PTL DEF Spec

-----------------------------------------------------------------------------
(* Live mappings. *)

\* In memory, what a reader is about to remove stays expired: it holds the lock.
RemovesExpired ==
  backend = "memory" =>
     \A v \in Visitors : visit[v].at = "remove" => ~Live(mapping, visit[v].code)

\* Neither a removal nor time makes a mapping live.
LEMMA NotRevived ==
  ASSUME NEW m, MappingOK(m), NEW k, ~Live(m, k)
  PROVE  /\ ~Live(Older(m), k) /\ ~Live(<<>>, k)
         /\ \A c : ~Live(Without(m, c), k)
<1>1. ~Live(Older(m), k)
  <2>1. DOMAIN Older(m) = DOMAIN m
    BY DEF Older
  <2>2. ASSUME k \in DOMAIN m PROVE Older(m)[k].life < 0
    <3>1. m[k] \in Mapping /\ m[k].life < 0
      BY <2>2 DEF Live, MappingOK, Mapping
    <3>2. Older(m)[k] = IF m[k].life \in {Forever, -1} THEN m[k]
                        ELSE [m[k] EXCEPT !.life = @ - 1]
      BY <2>2 DEF Older
    <3>3. CASE m[k].life \in {Forever, -1}
      BY <3>1, <3>2, <3>3
    <3>4. CASE m[k].life \notin {Forever, -1}
      <4>1. Older(m)[k].life = m[k].life - 1
        BY <3>1, <3>2, <3>4 DEF Mapping
      <4>2. m[k].life \in Int
        BY <3>1 DEF Mapping
      <4> QED BY <3>1, <4>1, <4>2
    <3> QED BY <3>3, <3>4
  <2>3. ASSUME k \in DOMAIN m PROVE Older(m)[k].life \in Int
    BY <2>1, <2>3, OlderKeeps DEF MappingOK, Mapping
  <2> QED BY <2>1, <2>2, <2>3 DEF Live
<1>2. ~Live(<<>>, k)
  BY EmptyOK DEF Live
<1>3. \A c : ~Live(Without(m, c), k)
  BY DEF Live, Without, Restrict
<1> QED BY <1>1, <1>2, <1>3

LEMMA RemovesExpiredInit == Init => RemovesExpired
BY DEF Init, RemovesExpired, NoVisit

\* A step that makes no mapping live and starts no removal.
LEMMA RemovesExpiredFrame ==
  ASSUME RemovesExpired, UNCHANGED backend,
         \A v \in Visitors : visit'[v].at = "remove" =>
            visit[v].at = "remove" /\ visit'[v].code = visit[v].code,
         \A k : ~Live(mapping, k) => ~Live(mapping', k)
  PROVE  RemovesExpired'
BY DEF RemovesExpired

LEMMA RemovesExpiredStep == Types /\ RemovesExpired /\ [Next]_vars => RemovesExpired'
<1> SUFFICES ASSUME Types, RemovesExpired, [Next]_vars PROVE RemovesExpired'
  OBVIOUS
<1>1. ASSUME NEW v \in Visitors, NEW x, visit' = [visit EXCEPT ![v] = x],
             x.at # "remove", NEW w \in Visitors, visit'[w].at = "remove"
      PROVE  visit[w].at = "remove" /\ visit'[w].code = visit[w].code
  BY <1>1 DEF Types
<1>2. ASSUME NEW v \in Visitors, NEW s \in Servers, NEW k \in Codes, Lookup(v, s, k)
      PROVE  RemovesExpired'
  <2>1. Looked(s, k).at # "remove"
    BY DEF Looked
  <2>2. visit' = [visit EXCEPT ![v] = Looked(s, k)] /\ UNCHANGED <<backend, mapping>>
    BY <1>2 DEF Lookup
  <2> QED BY <1>1, <2>1, <2>2, RemovesExpiredFrame
<1>3. ASSUME NEW v \in Visitors, GetFinds(v) PROVE RemovesExpired'
  <2> DEFINE x == [at |-> "fill", server |-> visit[v].server, code |-> visit[v].code,
                   link |-> mapping[visit[v].code].link, took |-> visit[v].took]
  <2>1. visit' = [visit EXCEPT ![v] = x] /\ x.at # "remove"
    BY <1>3 DEF GetFinds
  <2>2. UNCHANGED <<backend, mapping>>
    BY <1>3 DEF GetFinds
  <2> HIDE DEF x
  <2> QED BY <1>1, <2>1, <2>2, RemovesExpiredFrame
<1>4. ASSUME NEW v \in Visitors, GetFindsNone(v) \/ Answer(v) \/ GetRemoves(v)
      PROVE  RemovesExpired'
  <2>1. visit' = [visit EXCEPT ![v] = NoVisit] /\ NoVisit.at # "remove"
    BY <1>4 DEF GetFindsNone, Answer, GetRemoves, Done, NoVisit
  <2>2. UNCHANGED backend /\ \A k : ~Live(mapping, k) => ~Live(mapping', k)
    BY <1>4, NotRevived DEF GetFindsNone, Answer, GetRemoves, Types
  <2> QED BY <1>1, <2>1, <2>2, RemovesExpiredFrame
<1>5. ASSUME NEW v \in Visitors, GetFindsExpired(v) PROVE RemovesExpired'
  <2>1. visit[v] \in GetVisits
    BY <1>5, VisitKinds DEF GetFindsExpired, Types
  <2>2. ASSUME NEW w \in Visitors, visit'[w].at = "remove"
        PROVE  /\ visit'[w].code = visit[w].code
               /\ visit[w].at = "remove" \/ ~Live(mapping, visit[w].code)
    <3>1. CASE w = v
      BY <1>5, <2>1, <3>1 DEF GetFindsExpired, Goto, Types, GetVisits
    <3>2. CASE w # v
      BY <1>5, <2>2, <3>2 DEF GetFindsExpired, Goto, Types
    <3> QED BY <3>1, <3>2
  <2> QED BY <1>5, <2>2 DEF RemovesExpired, GetFindsExpired
<1>6. ASSUME NEW v \in Visitors, Fill(v) PROVE RemovesExpired'
  <2>1. visit[v] \in LinkVisits
    BY <1>6, VisitKinds DEF Fill, Types
  <2>2. [visit[v] EXCEPT !.at = "answer"].at # "remove"
    BY <2>1 DEF LinkVisits
  <2>3. visit' = [visit EXCEPT ![v] = [visit[v] EXCEPT !.at = "answer"]]
        /\ UNCHANGED <<backend, mapping>>
    BY <1>6 DEF Fill, Goto
  <2> QED BY <1>1, <2>2, <2>3, RemovesExpiredFrame
<1>7. ASSUME NEW k \in Codes,
             Remove(k) \/ \E link \in Links, life \in Lives : Add(k, link, life)
      PROVE  RemovesExpired'
  <2>1. backend = "memory" => \A v \in Visitors : visit[v].at # "remove"
    BY <1>7 DEF Add, Remove, ReadLocked
  <2> QED BY <1>7, <2>1 DEF RemovesExpired, Add, Remove
<1>8. ASSUME NEW v \in Visitors, NEW w \in Visitors, ConcurrentAccess(v, w)
      PROVE  RemovesExpired'
  BY <1>8 DEF ConcurrentAccess, RemovesExpired, NoVisit
<1>9. ASSUME NEW s \in Servers, NEW k \in Codes, Evict(s, k) PROVE RemovesExpired'
  BY <1>9 DEF Evict, RemovesExpired
<1>10. CASE Tick
  <2>1. ASSUME NEW v \in Visitors, visit'[v].at = "remove"
        PROVE  visit[v].at = "remove" /\ visit'[v].code = visit[v].code
    <3>1. visit[v].at = "remove" /\ visit'[v] = [visit[v] EXCEPT !.took = @ + 1]
      BY <1>10, <2>1, TickVisit
    <3>2. visit[v] \in GetVisits
      BY <3>1, VisitKinds DEF Types
    <3> QED BY <3>1, <3>2 DEF GetVisits
  <2>2. UNCHANGED backend /\ \A k : ~Live(mapping, k) => ~Live(mapping', k)
    BY <1>10, NotRevived DEF Tick, Types
  <2> QED BY <2>1, <2>2, RemovesExpiredFrame
<1>11. CASE UNCHANGED vars
  BY <1>11 DEF RemovesExpired, vars
<1> QED BY <1>2, <1>3, <1>4, <1>5, <1>6, <1>7, <1>8, <1>9, <1>10, <1>11 DEF Next, Serve

\* A step that ends a live mapping is an edit, or one of the two exceptions.
EndsRightly(k) ==
  Live(mapping, k) /\ k \notin DOMAIN mapping' =>
     \/ edits' > edits
     \/ backend = "redis" /\ Removing(k) # {}
     \/ Restarted

LEMMA EndsRightlyStep ==
  ASSUME Types, RemovesExpired, [Next]_vars, NEW k \in Codes
  PROVE  EndsRightly(k)
<1>1. ASSUME NEW v \in Visitors, GetRemoves(v) PROVE EndsRightly(k)
  <2>1. CASE visit[v].code = k
    <3>1. Removing(k) # {}
      BY <1>1, <2>1 DEF Removing, GetRemoves
    <3>2. backend = "memory" => ~Live(mapping, k)
      BY <1>1, <2>1 DEF RemovesExpired, GetRemoves
    <3> QED BY <3>1, <3>2 DEF EndsRightly, Types
  <2>2. CASE visit[v].code # k
    BY <1>1, <2>2 DEF EndsRightly, Live, GetRemoves, Without, Restrict
  <2> QED BY <2>1, <2>2
<1>2. ASSUME NEW v \in Visitors, NEW w \in Visitors, ConcurrentAccess(v, w)
      PROVE  EndsRightly(k)
  <2>1. visit[v] \in GetVisits
    BY <1>2, VisitKinds DEF ConcurrentAccess, Types
  <2>2. v \in Removing(visit[v].code) /\ visit[v].code \in Codes
    BY <1>2, <2>1 DEF ConcurrentAccess, Removing, GetVisits
  <2>3. \E j \in Codes : \E x \in Removing(j), y \in Visitors :
           x # y /\ visit[y].at \in {"get", "remove"}
    BY <1>2, <2>2 DEF ConcurrentAccess
  <2> QED BY <1>2, <2>3 DEF EndsRightly, Restarted, ConcurrentAccess
<1>3. ASSUME NEW c \in Codes,
             Remove(c) \/ \E link \in Links, life \in Lives : Add(c, link, life)
      PROVE  EndsRightly(k)
  <2>1. edits' = edits + 1 /\ edits \in 0 .. MaxEdits
    BY <1>3 DEF Add, Remove, Types
  <2>2. edits' > edits
    BY <2>1, RedirectAssumption
  <2> QED BY <2>2 DEF EndsRightly
<1>4. ASSUME DOMAIN mapping' = DOMAIN mapping PROVE EndsRightly(k)
  BY <1>4 DEF EndsRightly, Live
<1>5. CASE UNCHANGED mapping
  BY <1>4, <1>5
<1>6. CASE Tick
  <2>1. DOMAIN mapping' = DOMAIN mapping
    BY <1>6 DEF Tick, Older
  <2> QED BY <1>4, <2>1
<1>7. [Next]_vars =>
        \/ \E v \in Visitors : GetRemoves(v)
        \/ \E v, w \in Visitors : ConcurrentAccess(v, w)
        \/ \E c \in Codes : Remove(c) \/ \E link \in Links, life \in Lives : Add(c, link, life)
        \/ Tick \/ UNCHANGED mapping
  BY DEF Next, Serve, Lookup, GetFinds, GetFindsNone, GetFindsExpired, Fill, Answer, Evict,
         vars
<1> QED BY <1>1, <1>2, <1>3, <1>5, <1>6, <1>7

\* A live mapping ends with a call of the service only, but for Redis' second call
\* and the in-memory server's death (ext/redisx/cache.go:94, ext/memx/cache.go:63),
\* whatever the visitors, servers and codes.
THEOREM OnlyEditsEndMappingsHolds == Spec => OnlyEditsEndMappings
<1>1. Init => Types /\ RemovesExpired
  BY TypesInit, RemovesExpiredInit
<1>2. Types /\ RemovesExpired /\ [Next]_vars => (Types /\ RemovesExpired)'
  BY TypesStep, RemovesExpiredStep
<1>3. Types /\ RemovesExpired /\ [Next]_vars =>
        [\A k \in Codes : Live(mapping, k) /\ k \notin DOMAIN mapping' =>
            \/ edits' > edits
            \/ backend = "redis" /\ Removing(k) # {}
            \/ Restarted]_vars
  BY EndsRightlyStep DEF EndsRightly
<1> QED BY <1>1, <1>2, <1>3, PTL DEF Spec, OnlyEditsEndMappings

=============================================================================
