----------------------------- MODULE PlanCache -----------------------------
(***************************************************************************)
(* The read-through cache in front of the Plan API (PlanCache): readers    *)
(* that are served from an entry, lead a fetch or join the one under way,  *)
(* and clear(), which may come at any moment.                              *)
(*                                                                         *)
(* Node runs one callback at a time.  When a fetch settles, the leader's   *)
(* continuation and those of whoever joined it run in one turn, so that is *)
(* one step here; a fetch takes any time and may fail.  A value is the     *)
(* instant at which Plan read it.                                          *)
(***************************************************************************)
EXTENDS Naturals, Sequences, Functions

CONSTANTS
  Readers,     \* reads in progress at once
  Keys,        \* <endpoint>:<server>, and the retention payload
  TTL,         \* ttlMs, by key
  MaxEntries,  \* MAX_ENTRIES
  Nobody,      \* no fetch is registered
  MaxTime      \* bound: instants

ASSUME CacheAssumption ==
  /\ TTL \in [Keys -> Nat \ {0}]
  /\ MaxEntries \in Nat \ {0}
  /\ Nobody \notin Readers
  /\ MaxTime \in Nat

VARIABLES
  clock,      \* now, the same for every read
  entries,    \* what each key holds; its domain is the Map's keys
  order,      \* the Map's keys, first inserted first
  inFlight,   \* the leader of the fetch registered for each key
  reader,     \* what each reader is doing
  forgotten   \* keys whose entry was once dropped by clear() or eviction

vars == <<clock, entries, order, inFlight, reader, forgotten>>

-----------------------------------------------------------------------------
Times == 0..MaxTime
Entry == [value : Times, at : Times]   \* at: storedAt
None  == [value |-> 0, at |-> 0]       \* no entry was there; see held

\* held: whether an entry was cached when the read began; cached: that entry.
\* abandoned: clear() has emptied the registry since this fetch began.
Leading == [pc : {"leading"}, key : Keys, now : Times, held : BOOLEAN,
            cached : Entry, abandoned : BOOLEAN]
Joined  == [pc : {"joined"}, key : Keys, now : Times, held : BOOLEAN,
            cached : Entry, leader : Readers]
Served  == [pc : {"served"}, key : Keys, now : Times,
            outcome : {"fresh", "miss", "stale", "unavailable"},
            value : Times, at : Times]
Idle    == [pc |-> "idle"]

TypeOK ==
  /\ clock \in Times
  /\ DOMAIN entries \subseteq Keys
  /\ entries \in [DOMAIN entries -> Entry]
  /\ order \in Seq(Keys)
  /\ inFlight \in [Keys -> Readers \cup {Nobody}]
  /\ reader \in [Readers -> Leading \cup Joined \cup Served \cup {Idle}]
  /\ forgotten \subseteq Keys
  /\ Len(order) <= MaxEntries
  /\ DOMAIN entries = Range(order) /\ IsInjective(order)

Init ==
  /\ clock = 0
  /\ entries = [k \in {} |-> None] /\ order = <<>>
  /\ inFlight = [k \in Keys |-> Nobody]
  /\ reader = [r \in Readers |-> Idle]
  /\ forgotten = {}

-----------------------------------------------------------------------------
Leads(r)   == reader[r].pc = "leading"
Joins(r)   == reader[r].pc = "joined"
Waiting(r) == Leads(r) \/ Joins(r)

Held(k)   == k \in DOMAIN entries
Cached(k) == IF Held(k) THEN entries[k] ELSE None
Fresh(k)  == Held(k) /\ clock - entries[k].at < TTL[k]

\* An entry inside its TTL is served and Plan is not asked.
ReadFresh(r, k) ==
  /\ ~Waiting(r)
  /\ Fresh(k)
  /\ reader' = [reader EXCEPT
       ![r] = [pc |-> "served", key |-> k, now |-> clock, outcome |-> "fresh",
               value |-> entries[k].value, at |-> entries[k].at]]
  /\ UNCHANGED <<clock, entries, order, inFlight, forgotten>>

\* Faulty variant: who misses asks Plan, whether or not someone else does.
LeadFetchAlways(r, k) ==
  /\ ~Waiting(r)
  /\ ~Fresh(k)
  /\ reader' = [reader EXCEPT
       ![r] = [pc |-> "leading", key |-> k, now |-> clock, held |-> Held(k),
               cached |-> Cached(k), abandoned |-> FALSE]]
  /\ inFlight' = [inFlight EXCEPT ![k] = r]
  /\ UNCHANGED <<clock, entries, order, forgotten>>

\* fetchOnce: nothing is registered, so this read asks Plan.
LeadFetch(r, k) ==
  /\ ~Waiting(r)
  /\ ~Fresh(k)
  /\ inFlight[k] = Nobody
  /\ reader' = [reader EXCEPT
       ![r] = [pc |-> "leading", key |-> k, now |-> clock, held |-> Held(k),
               cached |-> Cached(k), abandoned |-> FALSE]]
  /\ inFlight' = [inFlight EXCEPT ![k] = r]
  /\ UNCHANGED <<clock, entries, order, forgotten>>

\* fetchOnce: a fetch is registered, and this read awaits its promise.
JoinFetch(r, k) ==
  /\ ~Waiting(r)
  /\ ~Fresh(k)
  /\ inFlight[k] # Nobody
  /\ reader' = [reader EXCEPT
       ![r] = [pc |-> "joined", key |-> k, now |-> clock, held |-> Held(k),
               cached |-> Cached(k), leader |-> inFlight[k]]]
  /\ UNCHANGED <<clock, entries, order, inFlight, forgotten>>

\* The leader of the fetch that w waits for.
LeaderOf(w) == IF Joins(w) THEN reader[w].leader ELSE w
Awaits(w, r) == Waiting(w) /\ LeaderOf(w) = r

\* Faulty variant: the registration is dropped whoever made it.
UnregisterAny(r) == inFlight' = [inFlight EXCEPT ![reader[r].key] = Nobody]

\* The finally of fetchOnce: a fetch takes its own registration back.
Unregister(r) ==
  inFlight' = [inFlight EXCEPT ![reader[r].key] = IF @ = r THEN Nobody ELSE @]

\* Faulty variant: dated by the end of the fetch.
DatedAtEnd(r) == clock

\* storedAt: the instant the shared fetch began.
StartedAt(r) == reader[r].now

\* Faulty variant: nothing is evicted.
EvictedNever(k) == {}

\* The keys held after k was stored, oldest first, and the key evicted for it.
Evicted(k) ==
  IF Len(order) >= MaxEntries /\ ~Held(k) THEN {Head(order)} ELSE {}
OrderWith(k) ==
  IF Held(k) THEN order
  ELSE Append(IF Evicted(k) = {} THEN order ELSE Tail(order), k)

\* Plan answers the fetch of r with what it read at v: the entry is stored and
\* everyone who waits for this fetch is served it.
FetchSucceeds(r, v) ==
  /\ Leads(r)
  /\ v \in reader[r].now..clock
  /\ LET k == reader[r].key IN
     /\ entries' = [x \in (DOMAIN entries \ Evicted(k)) \cup {k} |->
                      IF x = k THEN [value |-> v, at |-> StartedAt(r)]
                      ELSE entries[x]]
     /\ order' = OrderWith(k)
     /\ forgotten' = forgotten \cup Evicted(k)
  /\ Unregister(r)
  /\ reader' = [w \in Readers |->
       IF Awaits(w, r)
       THEN [pc |-> "served", key |-> reader[w].key, now |-> reader[w].now,
             outcome |-> "miss", value |-> v, at |-> StartedAt(r)]
       ELSE reader[w]]
  /\ UNCHANGED clock

\* What a reader falls back to when the fetch it waits for fails.
Fallback(w) ==
  [pc |-> "served", key |-> reader[w].key, now |-> reader[w].now,
   outcome |-> IF reader[w].held THEN "stale" ELSE "unavailable",
   value |-> reader[w].cached.value, at |-> reader[w].cached.at]

\* Plan cannot be reached, or its answer does not parse.
FetchFails(r) ==
  /\ Leads(r)
  /\ Unregister(r)
  /\ reader' = [w \in Readers |->
                  IF Awaits(w, r) THEN Fallback(w) ELSE reader[w]]
  /\ UNCHANGED <<clock, entries, order, forgotten>>

Clear ==
  /\ entries' = [k \in {} |-> None] /\ order' = <<>>
  /\ inFlight' = [k \in Keys |-> Nobody]
  /\ reader' = [r \in Readers |->
       IF Leads(r) THEN [reader[r] EXCEPT !.abandoned = TRUE] ELSE reader[r]]
  /\ forgotten' = Keys
  /\ UNCHANGED clock

Tick ==
  /\ clock < MaxTime
  /\ clock' = clock + 1
  /\ UNCHANGED <<entries, order, inFlight, reader, forgotten>>

Next ==
  \/ \E r \in Readers :
       \/ \E k \in Keys : ReadFresh(r, k) \/ LeadFetch(r, k) \/ JoinFetch(r, k)
       \/ \E v \in Times : FetchSucceeds(r, v)
       \/ FetchFails(r)
  \/ Clear
  \/ Tick

Spec == Init /\ [][Next]_vars

-----------------------------------------------------------------------------
(* Properties.                                                             *)

\* However many readers miss at once, Plan is asked once: of the fetches begun
\* since the last clear(), at most one per key is outstanding, and a reader
\* only ever waits for a fetch that has not ended (fetchOnce).
SingleFlight ==
  /\ \A r, s \in Readers :
       /\ Leads(r) /\ Leads(s) /\ reader[r].key = reader[s].key
       /\ ~reader[r].abandoned /\ ~reader[s].abandoned
       => r = s
  /\ \A r \in Readers : Joins(r) => Leads(reader[r].leader)
  /\ \A k \in Keys : inFlight[k] # Nobody => Leads(inFlight[k])

\* A value is never passed off as younger than it is: what is served or kept
\* was read by Plan at the instant it is dated, or later (fetchOnce, read).
DatesAreHonest ==
  /\ \A k \in DOMAIN entries : entries[k].at <= entries[k].value
  /\ \A r \in Readers :
       reader[r].pc = "served" /\ reader[r].outcome # "unavailable" =>
         /\ reader[r].at <= reader[r].value
         /\ reader[r].at <= reader[r].now

\* The cache protects the game server: as long as nothing is forgotten, an
\* entry is only replaced by one whose fetch began a whole TTL later, so
\* neither a slow answer nor a crowd of readers brings values closer (read).
RefetchesAreSpaced ==
  [][\A k \in DOMAIN entries \cap DOMAIN entries' :
       k \notin forgotten' /\ entries'[k] # entries[k] =>
         entries'[k].at >= entries[k].at + TTL[k]]_vars

\* When Plan fails the reader gets what the cache holds: unavailable only if
\* nothing is held for the key, and otherwise the very entry (read).
FallbackIsCurrent ==
  [][\A r \in Readers :
       Waiting(r) /\ reader'[r].pc = "served" /\ reader[r].key \notin forgotten' =>
         LET k == reader[r].key IN
         /\ reader'[r].outcome = "unavailable" => ~Held(k)
         /\ reader'[r].outcome = "stale" =>
              Held(k) /\ entries[k] = reader[r].cached]_vars
=============================================================================
