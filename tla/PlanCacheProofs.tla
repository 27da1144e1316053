-------------------------- MODULE PlanCacheProofs --------------------------
(* Proofs about PlanCache, for any readers, keys, TTLs, limit and bound.   *)
EXTENDS PlanCache, SequenceTheorems, TLAPS

\* A fetch is registered exactly while it runs and was begun since the last
\* clear(); who joined waits for a running fetch of its own key.
RegistryOK ==
  /\ \A k \in Keys : inFlight[k] # Nobody =>
       /\ Leads(inFlight[k]) /\ reader[inFlight[k]].key = k
       /\ ~reader[inFlight[k]].abandoned
  /\ \A r \in Readers : Leads(r) /\ ~reader[r].abandoned =>
       inFlight[reader[r].key] = r
  /\ \A r \in Readers : Joins(r) =>
       LET l == reader[r].leader IN
       /\ Leads(l) /\ reader[l].key = reader[r].key
       /\ reader[l].now <= reader[r].now

\* What a reader cached when it began is still what is held, and was out of
\* date then.
WaiterOK(r) ==
  LET k == reader[r].key IN
  /\ Leads(r) => ~reader[r].abandoned
  /\ reader[r].held <=> Held(k)
  /\ Held(k) => /\ reader[r].cached = entries[k]
                /\ Leads(r) => entries[k].at + TTL[k] <= reader[r].now

WaitersOK ==
  \A r \in Readers : Waiting(r) /\ reader[r].key \notin forgotten => WaiterOK(r)

\* Nothing is dated after the instant it was read, or in the future.
DatesOK ==
  /\ \A k \in DOMAIN entries : /\ entries[k].at <= entries[k].value
                               /\ entries[k].at <= clock
  /\ \A r \in Readers :
       /\ Waiting(r) => /\ reader[r].now <= clock
                        /\ reader[r].cached.at <= reader[r].cached.value
                        /\ reader[r].cached.at <= reader[r].now
       /\ reader[r].pc = "served" =>
            reader[r].at <= reader[r].value /\ reader[r].at <= reader[r].now

IInv ==
  /\ TypeOK
  /\ RegistryOK
  /\ WaitersOK
  /\ DatesOK

-----------------------------------------------------------------------------
(* The order of the keys: adding one at the end, dropping the first.       *)

LEMMA AppendNew ==
  ASSUME NEW S, NEW s \in Seq(S), NEW e \in S, e \notin Range(s), IsInjective(s)
  PROVE  /\ Append(s, e) \in Seq(S) /\ Len(Append(s, e)) = Len(s) + 1
         /\ Range(Append(s, e)) = Range(s) \cup {e}
         /\ IsInjective(Append(s, e))
<1>1. Append(s, e) \in Seq(S) /\ Len(Append(s, e)) = Len(s) + 1
  BY AppendProperties
<1>2. \A i \in 1..Len(s) : Append(s, e)[i] = s[i] BY AppendProperties
<1>3. Append(s, e)[Len(s) + 1] = e BY AppendProperties
<1>4. PICK n \in Nat : n = Len(s) /\ DOMAIN s = 1..n BY LenProperties
<1>5. DOMAIN Append(s, e) = 1..(n + 1) BY <1>1, <1>4, LenProperties
<1>6. PICK t : t = Append(s, e) OBVIOUS
<1>7. \A i \in 1..(n + 1) : i \in 1..n \/ i = n + 1 BY <1>4
<1>8. 1..n \subseteq 1..(n + 1) /\ n + 1 \in 1..(n + 1) BY <1>4
<1>9. Range(t) = Range(s) \cup {e}
  BY <1>2, <1>3, <1>4, <1>5, <1>6, <1>7, <1>8 DEF Range
<1>10. IsInjective(t)
  BY <1>2, <1>3, <1>4, <1>5, <1>6, <1>7 DEF IsInjective, Range
<1>q. QED BY <1>1, <1>6, <1>9, <1>10

LEMMA TailDrops ==
  ASSUME NEW S, NEW s \in Seq(S), Len(s) > 0, IsInjective(s)
  PROVE  /\ Tail(s) \in Seq(S) /\ Len(Tail(s)) = Len(s) - 1
         /\ Range(Tail(s)) = Range(s) \ {Head(s)}
         /\ IsInjective(Tail(s))
<1>1. s # <<>> BY EmptySeq
<1>2. Tail(s) \in Seq(S) /\ Len(Tail(s)) = Len(s) - 1
  BY <1>1, HeadTailProperties
<1>3. \A i \in 1..Len(Tail(s)) : Tail(s)[i] = s[i + 1]
  BY <1>1, HeadTailProperties
<1>4. Head(s) = s[1] BY <1>1
<1>5. PICK n \in Nat : Len(s) = n + 1 /\ DOMAIN s = 1..(n + 1)
  BY LenProperties
<1>6. DOMAIN Tail(s) = 1..n BY <1>2, <1>5, LenProperties
<1>7. PICK t : t = Tail(s) OBVIOUS
<1>8. \A i \in 1..n : t[i] = s[i + 1] /\ i + 1 \in 1..(n + 1) /\ i + 1 # 1
  <2>1. \A i \in 1..n : t[i] = s[i + 1] BY <1>2, <1>3, <1>5, <1>7
  <2>2. \A i \in 1..n : i + 1 \in 1..(n + 1) /\ i + 1 # 1 BY <1>5
  <2>q. QED BY <2>1, <2>2
<1>9. 1 \in 1..(n + 1) BY <1>5
<1>10. ASSUME NEW i \in 1..(n + 1), i # 1
       PROVE  i - 1 \in 1..n /\ t[i - 1] = s[i]
  <2>1. i - 1 \in 1..n /\ (i - 1) + 1 = i BY <1>5, <1>10
  <2>q. QED BY <1>8, <2>1
<1>11. Range(t) = Range(s) \ {s[1]}
  <2>1. ASSUME NEW i \in 1..n PROVE t[i] \in Range(s) \ {s[1]}
    BY <1>5, <1>8, <1>9 DEF Range, IsInjective
  <2>2. ASSUME NEW i \in 1..(n + 1), s[i] # s[1] PROVE s[i] \in Range(t)
    BY <1>6, <1>7, <1>10, <2>2 DEF Range
  <2>3. Range(t) \subseteq Range(s) \ {s[1]} BY <1>6, <1>7, <2>1 DEF Range
  <2>4. Range(s) \ {s[1]} \subseteq Range(t) BY <1>5, <2>2 DEF Range
  <2>q. QED BY <2>3, <2>4
<1>12. IsInjective(t)
  <2> SUFFICES ASSUME NEW i \in 1..n, NEW j \in 1..n, t[i] = t[j] PROVE i = j
    BY <1>6, <1>7 DEF IsInjective
  <2>1. PICK a \in 1..(n + 1), b \in 1..(n + 1) :
          a = i + 1 /\ b = j + 1 /\ s[a] = s[b]
    BY <1>8
  <2>2. a = b BY <1>5, <2>1 DEF IsInjective
  <2>q. QED BY <2>1, <2>2
<1>q. QED BY <1>2, <1>4, <1>7, <1>11, <1>12

\* Storing k keeps the Map's keys in order, within its limit.
LEMMA OrderStays ==
  ASSUME TypeOK, NEW k \in Keys
  PROVE  /\ OrderWith(k) \in Seq(Keys) /\ Len(OrderWith(k)) <= MaxEntries
         /\ Range(OrderWith(k)) = (DOMAIN entries \ Evicted(k)) \cup {k}
         /\ IsInjective(OrderWith(k))
<1>1. /\ order \in Seq(Keys) /\ Len(order) <= MaxEntries
      /\ DOMAIN entries = Range(order) /\ IsInjective(order)
  BY DEF TypeOK
<1>2. PICK n \in Nat : n = Len(order)
  BY <1>1, LenProperties
<1>3. MaxEntries \in Nat \ {0} BY CacheAssumption
<1>4. CASE Held(k)
  <2>1. OrderWith(k) = order /\ Evicted(k) = {}
    BY <1>4 DEF OrderWith, Evicted
  <2>2. (DOMAIN entries \ {}) \cup {k} = DOMAIN entries BY <1>4 DEF Held
  <2>q. QED BY <1>1, <2>1, <2>2
<1>5. CASE ~Held(k) /\ n < MaxEntries
  <2>1. OrderWith(k) = Append(order, k) /\ Evicted(k) = {}
    BY <1>2, <1>3, <1>5 DEF OrderWith, Evicted
  <2>2. k \notin Range(order) BY <1>1, <1>5 DEF Held
  <2>3. /\ Append(order, k) \in Seq(Keys) /\ Len(Append(order, k)) = n + 1
        /\ Range(Append(order, k)) = DOMAIN entries \cup {k}
        /\ IsInjective(Append(order, k))
    BY <1>1, <1>2, <2>2, AppendNew
  <2>4. n + 1 <= MaxEntries BY <1>3, <1>5
  <2>q. QED BY <2>1, <2>3, <2>4
<1>6. CASE ~Held(k) /\ n = MaxEntries
  <2>1. OrderWith(k) = Append(Tail(order), k) /\ Evicted(k) = {Head(order)}
    BY <1>2, <1>3, <1>6 DEF OrderWith, Evicted
  <2>2. PICK t : t = Tail(order) OBVIOUS
  <2>3. /\ t \in Seq(Keys) /\ Len(t) = n - 1
        /\ Range(t) = DOMAIN entries \ {Head(order)}
        /\ IsInjective(t)
    <3>1. Len(order) > 0 BY <1>2, <1>3, <1>6
    <3>2. /\ Tail(order) \in Seq(Keys) /\ Len(Tail(order)) = Len(order) - 1
          /\ Range(Tail(order)) = Range(order) \ {Head(order)}
          /\ IsInjective(Tail(order))
      BY <1>1, <3>1, TailDrops
    <3>q. QED BY <1>1, <1>2, <2>2, <3>2
  <2>4. k \notin Range(t) BY <2>3, <1>6 DEF Held
  <2>5. /\ Append(t, k) \in Seq(Keys) /\ Len(Append(t, k)) = Len(t) + 1
        /\ Range(Append(t, k)) = (DOMAIN entries \ {Head(order)}) \cup {k}
        /\ IsInjective(Append(t, k))
    <3>1. t \in Seq(Keys) /\ IsInjective(t) BY <2>3
    <3>2. /\ Append(t, k) \in Seq(Keys) /\ Len(Append(t, k)) = Len(t) + 1
          /\ Range(Append(t, k)) = Range(t) \cup {k}
          /\ IsInjective(Append(t, k))
      BY <2>4, <3>1, AppendNew
    <3>q. QED BY <2>3, <3>2
  <2>6. Len(Append(t, k)) <= MaxEntries BY <1>2, <1>3, <1>6, <2>3, <2>5
  <2>q. QED BY <2>1, <2>2, <2>5, <2>6
<1>7. n < MaxEntries \/ n = MaxEntries BY <1>1, <1>2, <1>3
<1>q. QED BY <1>4, <1>5, <1>6, <1>7

-----------------------------------------------------------------------------
(* Readers.                                                                *)

LEMMA WaitingTypes ==
  ASSUME TypeOK, NEW r \in Readers, Waiting(r)
  PROVE  /\ reader[r] \in Leading \cup Joined
         /\ reader[r].key \in Keys /\ reader[r].now \in Times
         /\ reader[r].held \in BOOLEAN
         /\ reader[r].cached \in Entry
         /\ reader[r].cached.value \in Times /\ reader[r].cached.at \in Times
         /\ Leads(r) => reader[r] \in Leading
         /\ Joins(r) => reader[r] \in Joined /\ reader[r].leader \in Readers
<1>1. reader[r] \in Leading \cup Joined
  BY DEF TypeOK, Waiting, Leads, Joins, Served, Idle
<1>2. /\ reader[r].key \in Keys /\ reader[r].now \in Times
      /\ reader[r].held \in BOOLEAN
      /\ reader[r].cached \in Entry
  BY <1>1 DEF Leading, Joined
<1>3. /\ Leads(r) => reader[r] \in Leading
      /\ Joins(r) => reader[r] \in Joined /\ reader[r].leader \in Readers
  BY <1>1 DEF Leading, Joined, Leads, Joins
<1>q. QED BY <1>1, <1>2, <1>3 DEF Entry

\* One reader's entry is replaced.
LEMMA ReaderSet ==
  ASSUME TypeOK, NEW r \in Readers, NEW v, reader' = [reader EXCEPT ![r] = v]
  PROVE  reader'[r] = v /\ \A w \in Readers \ {r} : reader'[w] = reader[w]
BY DEF TypeOK

LEMMA CachedType == ASSUME TypeOK, NEW k \in Keys PROVE Cached(k) \in Entry
<1>1. 0 \in Times BY CacheAssumption DEF Times
<1>q. QED BY <1>1 DEF TypeOK, Cached, Held, None, Entry

LEMMA ReadTypes ==
  ASSUME TypeOK, NEW r \in Readers, NEW k \in Keys,
         ReadFresh(r, k) \/ LeadFetch(r, k) \/ JoinFetch(r, k)
  PROVE  TypeOK'
<1>1. clock \in Times BY DEF TypeOK
<1>2. CASE ReadFresh(r, k)
  <2> DEFINE v == [pc |-> "served", key |-> k, now |-> clock, outcome |-> "fresh",
                   value |-> entries[k].value, at |-> entries[k].at]
  <2>1. entries[k] \in Entry BY <1>2 DEF TypeOK, ReadFresh, Fresh, Held
  <2>2. v \in Served BY <1>1, <2>1 DEF Served, Entry
  <2>3. reader' = [reader EXCEPT ![r] = v] BY <1>2 DEF ReadFresh
  <2> HIDE DEF v
  <2>q. QED BY <1>2, <2>2, <2>3 DEF TypeOK, ReadFresh
<1>3. CASE LeadFetch(r, k)
  <2> DEFINE v == [pc |-> "leading", key |-> k, now |-> clock, held |-> Held(k),
                   cached |-> Cached(k), abandoned |-> FALSE]
  <2>1. v \in Leading BY <1>1, CachedType DEF Leading, Held
  <2>2. /\ reader' = [reader EXCEPT ![r] = v]
        /\ inFlight' = [inFlight EXCEPT ![k] = r]
    BY <1>3 DEF LeadFetch
  <2> HIDE DEF v
  <2>q. QED BY <1>3, <2>1, <2>2 DEF TypeOK, LeadFetch
<1>4. CASE JoinFetch(r, k)
  <2> DEFINE v == [pc |-> "joined", key |-> k, now |-> clock, held |-> Held(k),
                   cached |-> Cached(k), leader |-> inFlight[k]]
  <2>1. inFlight[k] \in Readers BY <1>4 DEF TypeOK, JoinFetch
  <2>2. v \in Joined BY <1>1, <2>1, CachedType DEF Joined, Held
  <2>3. reader' = [reader EXCEPT ![r] = v] BY <1>4 DEF JoinFetch
  <2> HIDE DEF v
  <2>q. QED BY <1>4, <2>2, <2>3 DEF TypeOK, JoinFetch
<1>q. QED BY <1>2, <1>3, <1>4

LEMMA UnregisterTypes ==
  ASSUME TypeOK, NEW r \in Readers, Leads(r), Unregister(r)
  PROVE  inFlight' \in [Keys -> Readers \cup {Nobody}]
BY DEF TypeOK, Unregister

LEMMA SucceedsTypes ==
  ASSUME TypeOK, NEW r \in Readers, NEW v \in Times, FetchSucceeds(r, v)
  PROVE  TypeOK'
<1>1. /\ reader[r].key \in Keys /\ reader[r].now \in Times /\ Leads(r)
  BY WaitingTypes DEF FetchSucceeds, Waiting
<1>2. PICK k \in Keys, n \in Times : k = reader[r].key /\ n = reader[r].now
  BY <1>1
<1>3. /\ entries' = [x \in (DOMAIN entries \ Evicted(k)) \cup {k} |->
                      IF x = k THEN [value |-> v, at |-> n] ELSE entries[x]]
      /\ order' = OrderWith(k)
      /\ forgotten' = forgotten \cup Evicted(k)
      /\ clock' = clock
  BY <1>2 DEF FetchSucceeds, StartedAt
<1>4. inFlight' \in [Keys -> Readers \cup {Nobody}]
  BY <1>1, UnregisterTypes DEF FetchSucceeds
<1>5. reader' \in [Readers -> Leading \cup Joined \cup Served \cup {Idle}]
  <2>1. reader' = [w \in Readers |->
           IF Awaits(w, r)
           THEN [pc |-> "served", key |-> reader[w].key, now |-> reader[w].now,
                 outcome |-> "miss", value |-> v, at |-> n]
           ELSE reader[w]]
    BY <1>2 DEF FetchSucceeds, StartedAt
  <2>2. ASSUME NEW w \in Readers, Awaits(w, r)
        PROVE  [pc |-> "served", key |-> reader[w].key, now |-> reader[w].now,
                outcome |-> "miss", value |-> v, at |-> n] \in Served
    BY <2>2, WaitingTypes DEF Served, Awaits
  <2>3. ASSUME NEW w \in Readers
        PROVE  reader[w] \in Leading \cup Joined \cup Served \cup {Idle}
    BY DEF TypeOK
  <2>q. QED BY <2>1, <2>2, <2>3
<1>6. /\ DOMAIN entries' = (DOMAIN entries \ Evicted(k)) \cup {k}
      /\ DOMAIN entries' \subseteq Keys
      /\ entries' \in [DOMAIN entries' -> Entry]
  <2>1. [value |-> v, at |-> n] \in Entry BY DEF Entry
  <2>q. QED BY <1>3, <2>1 DEF TypeOK
<1>7. /\ order' \in Seq(Keys) /\ Len(order') <= MaxEntries
      /\ DOMAIN entries' = Range(order') /\ IsInjective(order')
  BY <1>3, <1>6, OrderStays
<1>8. forgotten' \subseteq Keys
  <2>1. Evicted(k) \subseteq Keys
    <3>1. CASE Evicted(k) = {} BY <3>1
    <3>2. CASE Evicted(k) = {Head(order)} /\ Len(order) >= MaxEntries
      <4>1. order \in Seq(Keys) /\ Len(order) \in Nat /\ Len(order) # 0
        BY <3>2, CacheAssumption, LenProperties DEF TypeOK
      <4>2. order # <<>> BY <4>1, EmptySeq
      <4>3. Head(order) \in Keys BY <4>1, <4>2, HeadTailProperties
      <4>q. QED BY <3>2, <4>3
    <3>q. QED BY <3>1, <3>2 DEF Evicted
  <2>q. QED BY <1>3, <2>1 DEF TypeOK
<1>q. QED BY <1>3, <1>4, <1>5, <1>6, <1>7, <1>8 DEF TypeOK

LEMMA FailsTypes ==
  ASSUME TypeOK, NEW r \in Readers, FetchFails(r)
  PROVE  TypeOK'
<1>1. inFlight' \in [Keys -> Readers \cup {Nobody}]
  BY UnregisterTypes DEF FetchFails
<1>2. ASSUME NEW w \in Readers, Waiting(w) PROVE Fallback(w) \in Served
  BY <1>2, WaitingTypes DEF Fallback, Served
<1>3. reader' \in [Readers -> Leading \cup Joined \cup Served \cup {Idle}]
  <2>1. \A w \in Readers :
          reader[w] \in Leading \cup Joined \cup Served \cup {Idle}
    BY DEF TypeOK
  <2>2. reader' = [w \in Readers |->
                    IF Awaits(w, r) THEN Fallback(w) ELSE reader[w]]
    BY DEF FetchFails
  <2>3. \A w \in Readers : Awaits(w, r) => Fallback(w) \in Served
    BY <1>2 DEF Awaits
  <2>q. QED BY <2>1, <2>2, <2>3
<1>q. QED BY <1>1, <1>3 DEF TypeOK, FetchFails

LEMMA ClearTypes == TypeOK /\ Clear => TypeOK'
<1> SUFFICES ASSUME TypeOK, Clear PROVE TypeOK' OBVIOUS
<1>1. ASSUME NEW r \in Readers, Leads(r)
      PROVE  [reader[r] EXCEPT !.abandoned = TRUE] \in Leading
  BY <1>1, WaitingTypes DEF Waiting, Leading
<1>2. reader' \in [Readers -> Leading \cup Joined \cup Served \cup {Idle}]
  <2>1. \A w \in Readers :
          reader[w] \in Leading \cup Joined \cup Served \cup {Idle}
    BY DEF TypeOK
  <2>2. reader' = [r \in Readers |->
       IF Leads(r) THEN [reader[r] EXCEPT !.abandoned = TRUE] ELSE reader[r]]
    BY DEF Clear
  <2>3. \A r \in Readers : Leads(r) =>
          [reader[r] EXCEPT !.abandoned = TRUE] \in Leading
    BY <1>1
  <2>q. QED BY <2>1, <2>2, <2>3
<1>3. /\ order' = <<>> /\ DOMAIN entries' = {} /\ forgotten' = Keys
      /\ inFlight' \in [Keys -> Readers \cup {Nobody}] /\ clock' = clock
  BY DEF Clear
<1>4. /\ order' \in Seq(Keys) /\ Len(order') = 0 /\ DOMAIN order' = {}
  BY <1>3, EmptySeq
<1>5. Range(order') = {} /\ IsInjective(order') BY <1>4 DEF Range, IsInjective
<1>6. entries' \in [DOMAIN entries' -> Entry] BY DEF Clear
<1>7. 0 <= MaxEntries BY CacheAssumption
<1>q. QED BY <1>2, <1>3, <1>4, <1>5, <1>6, <1>7 DEF TypeOK

-----------------------------------------------------------------------------
(* The registry.                                                           *)

\* What the end of a fetch does to the readers.
SettledBy(r) ==
  \A w \in Readers :
    IF Awaits(w, r) THEN reader'[w].pc = "served" ELSE reader'[w] = reader[w]

LEMMA SettleRegistry ==
  ASSUME TypeOK, RegistryOK, NEW r \in Readers, Leads(r), Unregister(r), SettledBy(r)
  PROVE  RegistryOK'
<1>1. \A w \in Readers : Leads(w)' => Leads(w) /\ w # r /\ reader'[w] = reader[w]
  BY DEF SettledBy, Awaits, Waiting, LeaderOf, Leads, Joins
<1>2. \A w \in Readers : Leads(w) /\ w # r => Leads(w)' /\ reader'[w] = reader[w]
  BY DEF SettledBy, Awaits, Waiting, LeaderOf, Leads, Joins
<1>3. ASSUME NEW k \in Keys, inFlight'[k] # Nobody
      PROVE  /\ Leads(inFlight[k])' /\ inFlight'[k] = inFlight[k]
             /\ reader'[inFlight'[k]].key = k
             /\ ~reader'[inFlight'[k]].abandoned
  <2>1. inFlight'[k] = inFlight[k] /\ (k = reader[r].key => inFlight[k] # r)
    BY <1>3 DEF Unregister, TypeOK
  <2>2. /\ inFlight[k] \in Readers /\ Leads(inFlight[k])
        /\ reader[inFlight[k]].key = k /\ ~reader[inFlight[k]].abandoned
    BY <1>3, <2>1 DEF RegistryOK, TypeOK
  <2>3. inFlight[k] # r BY <2>1, <2>2
  <2>q. QED BY <1>2, <2>1, <2>2, <2>3 DEF Leads
<1>4. ASSUME NEW w \in Readers, Leads(w)', ~reader'[w].abandoned
      PROVE  inFlight'[reader'[w].key] = w
  <2>1. Leads(w) /\ w # r /\ reader'[w] = reader[w] BY <1>1, <1>4
  <2>2. inFlight[reader[w].key] = w /\ reader[w].key \in Keys
    BY <1>4, <2>1, WaitingTypes DEF RegistryOK, Waiting
  <2>q. QED BY <2>1, <2>2 DEF Unregister, TypeOK
<1>5. ASSUME NEW w \in Readers, reader'[w].pc = "joined"
      PROVE  LET l == reader'[w].leader IN
             /\ reader'[l].pc = "leading" /\ reader'[l].key = reader'[w].key
             /\ reader'[l].now <= reader'[w].now
  <2>1. Joins(w) /\ reader'[w] = reader[w] /\ reader[w].leader # r
    BY <1>5 DEF SettledBy, Awaits, Waiting, LeaderOf, Leads, Joins
  <2>2. reader[w].leader \in Readers BY <2>1, WaitingTypes DEF Waiting
  <2>3. /\ Leads(reader[w].leader)
        /\ reader[reader[w].leader].key = reader[w].key
        /\ reader[reader[w].leader].now <= reader[w].now
    BY <2>1 DEF RegistryOK
  <2>q. QED BY <1>2, <2>1, <2>2, <2>3 DEF Leads
<1>q. QED BY <1>3, <1>4, <1>5 DEF RegistryOK, Leads, Joins

LEMMA SettlesAll ==
  ASSUME TypeOK, NEW r \in Readers,
         FetchFails(r) \/ (\E v \in Times : FetchSucceeds(r, v))
  PROVE  SettledBy(r) /\ Leads(r) /\ Unregister(r)
BY DEF FetchFails, FetchSucceeds, SettledBy, Fallback

LEMMA LeadRegistry ==
  ASSUME TypeOK, RegistryOK, NEW r \in Readers, NEW k \in Keys, LeadFetch(r, k)
  PROVE  RegistryOK'
<1>1. /\ reader'[r].pc = "leading" /\ reader'[r].key = k /\ ~reader'[r].abandoned
      /\ reader'[r].now = clock
      /\ \A w \in Readers \ {r} : reader'[w] = reader[w]
      /\ ~Waiting(r) /\ inFlight[k] = Nobody
      /\ inFlight' = [inFlight EXCEPT ![k] = r]
  BY DEF LeadFetch, TypeOK
<1>2. inFlight'[k] = r /\ \A x \in Keys \ {k} : inFlight'[x] = inFlight[x]
  BY <1>1 DEF TypeOK
<1>3. ASSUME NEW x \in Keys, inFlight'[x] # Nobody
      PROVE  /\ Leads(inFlight[x])' \/ x = k
             /\ reader'[inFlight'[x]].pc = "leading"
             /\ reader'[inFlight'[x]].key = x
             /\ ~reader'[inFlight'[x]].abandoned
  <2>1. CASE x = k BY <1>1, <1>2, <2>1
  <2>2. CASE x # k
    <3>1. /\ inFlight[x] \in Readers /\ Leads(inFlight[x])
          /\ reader[inFlight[x]].key = x /\ ~reader[inFlight[x]].abandoned
      BY <1>2, <1>3, <2>2 DEF RegistryOK, TypeOK
    <3>2. inFlight[x] # r BY <1>1, <3>1 DEF Waiting
    <3>q. QED BY <1>1, <1>2, <2>2, <3>1, <3>2 DEF Leads
  <2>q. QED BY <2>1, <2>2
<1>4. ASSUME NEW w \in Readers, reader'[w].pc = "leading", ~reader'[w].abandoned
      PROVE  inFlight'[reader'[w].key] = w
  <2>1. CASE w = r BY <1>1, <1>2, <2>1
  <2>2. CASE w # r
    <3>1. Leads(w) /\ reader'[w] = reader[w] BY <1>1, <1>4, <2>2 DEF Leads
    <3>2. inFlight[reader[w].key] = w /\ reader[w].key \in Keys
      BY <1>4, <3>1, WaitingTypes DEF RegistryOK, Waiting
    <3>3. w # Nobody BY CacheAssumption
    <3>q. QED BY <1>1, <1>2, <3>1, <3>2, <3>3
  <2>q. QED BY <2>1, <2>2
<1>5. ASSUME NEW w \in Readers, reader'[w].pc = "joined"
      PROVE  LET l == reader'[w].leader IN
             /\ reader'[l].pc = "leading" /\ reader'[l].key = reader'[w].key
             /\ reader'[l].now <= reader'[w].now
  <2>1. w # r /\ Joins(w) /\ reader'[w] = reader[w] BY <1>1, <1>5 DEF Joins
  <2>2. reader[w].leader \in Readers BY <2>1, WaitingTypes DEF Waiting
  <2>3. /\ Leads(reader[w].leader)
        /\ reader[reader[w].leader].key = reader[w].key
        /\ reader[reader[w].leader].now <= reader[w].now
    BY <2>1 DEF RegistryOK
  <2>4. reader[w].leader # r BY <1>1, <2>3 DEF Waiting
  <2>q. QED BY <1>1, <2>1, <2>2, <2>3, <2>4 DEF Leads
<1>q. QED BY <1>3, <1>4, <1>5 DEF RegistryOK, Leads, Joins

LEMMA ReadRegistry ==
  ASSUME TypeOK, RegistryOK, DatesOK, NEW r \in Readers, NEW k \in Keys,
         ReadFresh(r, k) \/ JoinFetch(r, k)
  PROVE  RegistryOK'
<1>1. /\ reader'[r].pc \in {"served", "joined"}
      /\ \A w \in Readers \ {r} : reader'[w] = reader[w]
      /\ ~Waiting(r) /\ UNCHANGED inFlight
  BY DEF ReadFresh, JoinFetch, TypeOK
<1>2. \A w \in Readers : Leads(w) => w # r /\ reader'[w] = reader[w]
  BY <1>1 DEF Waiting
<1>3. \A w \in Readers : Leads(w)' => w # r /\ Leads(w) /\ reader'[w] = reader[w]
  BY <1>1 DEF Leads
<1>4. \A x \in Keys : inFlight'[x] # Nobody =>
       /\ Leads(inFlight[x])' /\ reader'[inFlight'[x]].key = x
       /\ ~reader'[inFlight'[x]].abandoned
  BY <1>1, <1>2 DEF RegistryOK, Leads, TypeOK
<1>5. \A w \in Readers : Leads(w)' /\ ~reader'[w].abandoned =>
       inFlight'[reader'[w].key] = w
  BY <1>1, <1>3 DEF RegistryOK
<1>6. ASSUME NEW w \in Readers, reader'[w].pc = "joined"
      PROVE  LET l == reader'[w].leader IN
             /\ reader'[l].pc = "leading" /\ reader'[l].key = reader'[w].key
             /\ reader'[l].now <= reader'[w].now
  <2>1. CASE w = r
    <3>1. JoinFetch(r, k) BY <1>6, <2>1 DEF ReadFresh, Joins, TypeOK
    <3>2. /\ reader'[r].leader = inFlight[k] /\ reader'[r].key = k
          /\ reader'[r].now = clock /\ inFlight[k] # Nobody
      BY <3>1 DEF JoinFetch, TypeOK
    <3>3. /\ inFlight[k] \in Readers /\ Leads(inFlight[k])
          /\ reader[inFlight[k]].key = k
      BY <3>2 DEF RegistryOK, TypeOK
    <3>4. reader[inFlight[k]].now <= clock BY <3>3 DEF DatesOK, Waiting
    <3>q. QED BY <1>2, <2>1, <3>2, <3>3, <3>4 DEF Leads
  <2>2. CASE w # r
    <3>1. Joins(w) /\ reader'[w] = reader[w] BY <1>1, <1>6, <2>2 DEF Joins
    <3>2. reader[w].leader \in Readers BY <3>1, WaitingTypes DEF Waiting
    <3>q. QED BY <1>2, <3>1, <3>2 DEF RegistryOK, Leads
  <2>q. QED BY <2>1, <2>2
<1>q. QED BY <1>4, <1>5, <1>6 DEF RegistryOK, Leads, Joins

\* What clear() does to a reader.
LEMMA ClearReader ==
  ASSUME TypeOK, Clear, NEW w \in Readers
  PROVE  IF Leads(w)
         THEN /\ reader'[w].abandoned /\ reader'[w].pc = "leading"
              /\ reader'[w].key = reader[w].key /\ reader'[w].now = reader[w].now
              /\ reader'[w].cached = reader[w].cached
         ELSE reader'[w] = reader[w]
<1>1. CASE Leads(w)
  <2>1. PICK u \in Leading : u = reader[w] BY <1>1, WaitingTypes DEF Waiting
  <2>2. reader'[w] = [u EXCEPT !.abandoned = TRUE] BY <1>1, <2>1 DEF Clear
  <2>3. /\ [u EXCEPT !.abandoned = TRUE].abandoned
        /\ [u EXCEPT !.abandoned = TRUE].pc = u.pc
        /\ [u EXCEPT !.abandoned = TRUE].key = u.key
        /\ [u EXCEPT !.abandoned = TRUE].now = u.now
        /\ [u EXCEPT !.abandoned = TRUE].cached = u.cached
    BY DEF Leading
  <2>4. u.pc = "leading" BY DEF Leading
  <2>q. QED BY <1>1, <2>1, <2>2, <2>3, <2>4
<1>2. CASE ~Leads(w) BY <1>2 DEF Clear
<1>q. QED BY <1>1, <1>2

LEMMA ClearRegistry ==
  ASSUME TypeOK, RegistryOK, Clear
  PROVE  RegistryOK'
<1>1. \A k \in Keys : inFlight'[k] = Nobody BY DEF Clear
<1>3. \A w \in Readers : Leads(w)' => reader'[w].abandoned
  BY ClearReader DEF Leads
<1>4. ASSUME NEW w \in Readers, reader'[w].pc = "joined"
      PROVE  LET l == reader'[w].leader IN
             /\ reader'[l].pc = "leading" /\ reader'[l].key = reader'[w].key
             /\ reader'[l].now <= reader'[w].now
  <2>1. Joins(w) /\ reader'[w] = reader[w] BY <1>4, ClearReader DEF Leads, Joins
  <2>2. reader[w].leader \in Readers BY <2>1, WaitingTypes DEF Waiting
  <2>3. /\ Leads(reader[w].leader)
        /\ reader[reader[w].leader].key = reader[w].key
        /\ reader[reader[w].leader].now <= reader[w].now
    BY <2>1 DEF RegistryOK
  <2>q. QED BY ClearReader, <2>1, <2>2, <2>3 DEF Leads
<1>q. QED BY <1>1, <1>3, <1>4 DEF RegistryOK, Leads, Joins

-----------------------------------------------------------------------------
(* What a waiter cached.                                                   *)

\* A waiter is only disturbed through its own key.
LEMMA WaiterStays ==
  ASSUME NEW w \in Readers, WaiterOK(w), reader'[w] = reader[w],
         reader[w].key \in DOMAIN entries' <=> reader[w].key \in DOMAIN entries,
         reader[w].key \in DOMAIN entries =>
           entries'[reader[w].key] = entries[reader[w].key]
  PROVE  WaiterOK(w)'
BY DEF WaiterOK, Held, Leads

\* A reader that misses caches what is held, which is out of date.
LEMMA MissWaiters ==
  ASSUME TypeOK, DatesOK, WaitersOK, NEW r \in Readers, NEW k \in Keys,
         LeadFetch(r, k) \/ JoinFetch(r, k)
  PROVE  WaitersOK'
<1>1. /\ reader'[r].pc \in {"leading", "joined"} /\ reader'[r].key = k
      /\ reader'[r].now = clock /\ reader'[r].held = Held(k)
      /\ reader'[r].cached = Cached(k)
      /\ reader'[r].pc = "leading" => ~reader'[r].abandoned
      /\ ~Fresh(k) /\ UNCHANGED <<entries, forgotten>>
  BY DEF LeadFetch, JoinFetch, TypeOK
<1>2. \A w \in Readers \ {r} : reader'[w] = reader[w]
  BY DEF LeadFetch, JoinFetch, TypeOK
<1>3. ASSUME NEW w \in Readers, Waiting(w)', (reader[w].key \notin forgotten)'
      PROVE  WaiterOK(w)'
  <2>1. CASE w = r
    <3>1. Held(k) => entries[k].at + TTL[k] <= clock
      <4>1. SUFFICES ASSUME Held(k) PROVE entries[k].at + TTL[k] <= clock
        OBVIOUS
      <4>2. entries[k].at \in Nat /\ clock \in Nat /\ TTL[k] \in Nat
        BY <4>1, CacheAssumption DEF TypeOK, Held, Entry, Times
      <4>3. ~(clock - entries[k].at < TTL[k]) BY <1>1, <4>1 DEF Fresh
      <4>q. QED BY <4>2, <4>3
    <3>2. Held(k) => Cached(k) = entries[k] BY DEF Cached
    <3>q. QED BY <1>1, <2>1, <3>1, <3>2 DEF WaiterOK, Held, Leads
  <2>2. CASE w # r
    <3>1. reader'[w] = reader[w] BY <1>2, <2>2
    <3>2. Waiting(w) /\ reader[w].key \notin forgotten
      BY <1>1, <1>3, <3>1 DEF Waiting, Leads, Joins
    <3>3. WaiterOK(w) BY <3>2 DEF WaitersOK
    <3>q. QED BY <1>1, <3>1, <3>3, WaiterStays
  <2>q. QED BY <2>1, <2>2
<1>q. QED BY <1>3 DEF WaitersOK

\* Steps that store nothing, after which whoever waits already waited.
LEMMA QuietWaiters ==
  ASSUME WaitersOK, UNCHANGED <<entries, forgotten>>,
         \A w \in Readers : Waiting(w)' => reader'[w] = reader[w]
  PROVE  WaitersOK'
<1>1. ASSUME NEW w \in Readers, Waiting(w)', (reader[w].key \notin forgotten)'
      PROVE  WaiterOK(w)'
  <2>1. reader'[w] = reader[w] BY <1>1
  <2>2. Waiting(w) /\ reader[w].key \notin forgotten
    BY <1>1, <2>1 DEF Waiting, Leads, Joins
  <2>3. WaiterOK(w) BY <2>2 DEF WaitersOK
  <2>q. QED BY <2>1, <2>3, WaiterStays
<1>q. QED BY <1>1 DEF WaitersOK

\* Whoever waits for a key that was never dropped waits for the registered
\* fetch.
LEMMA WaitersAwaitRegistered ==
  ASSUME TypeOK, RegistryOK, WaitersOK, NEW w \in Readers, Waiting(w),
         reader[w].key \notin forgotten
  PROVE  inFlight[reader[w].key] = LeaderOf(w)
<1>1. PICK k \in Keys : k = reader[w].key BY WaitingTypes
<1>2. CASE Leads(w)
  <2>1. ~reader[w].abandoned BY <1>2 DEF WaitersOK, WaiterOK
  <2>q. QED BY <1>2, <2>1 DEF RegistryOK, LeaderOf, Leads, Joins
<1>3. CASE Joins(w)
  <2>1. PICK l \in Readers : l = reader[w].leader BY <1>3, WaitingTypes
  <2>2. Leads(l) /\ reader[l].key = k BY <1>1, <1>3, <2>1 DEF RegistryOK
  <2>3. WaiterOK(l) BY <1>1, <2>2 DEF WaitersOK, Waiting
  <2>4. ~reader[l].abandoned BY <2>2, <2>3 DEF WaiterOK
  <2>5. inFlight[k] = l BY <2>2, <2>4 DEF RegistryOK
  <2>q. QED BY <1>1, <1>3, <2>1, <2>5 DEF LeaderOf
<1>q. QED BY <1>2, <1>3 DEF Waiting

LEMMA SucceedsWaiters ==
  ASSUME TypeOK, RegistryOK, WaitersOK, NEW r \in Readers, NEW v \in Times,
         FetchSucceeds(r, v)
  PROVE  WaitersOK'
<1>1. PICK k \in Keys : k = reader[r].key
  BY WaitingTypes DEF FetchSucceeds, Waiting
<1>2. /\ Leads(r) /\ SettledBy(r) /\ forgotten' = forgotten \cup Evicted(k)
      /\ DOMAIN entries' = (DOMAIN entries \ Evicted(k)) \cup {k}
      /\ \A x \in DOMAIN entries \ Evicted(k) : x # k => entries'[x] = entries[x]
  BY <1>1, SettlesAll DEF FetchSucceeds
<1>3. ASSUME NEW w \in Readers, Waiting(w)', (reader[w].key \notin forgotten)'
      PROVE  WaiterOK(w)'
  <2>1. ~Awaits(w, r) /\ reader'[w] = reader[w] /\ Waiting(w)
    BY <1>2, <1>3 DEF SettledBy, Waiting, Leads, Joins
  <2>2. reader[w].key \notin forgotten /\ reader[w].key \notin Evicted(k)
    BY <1>2, <1>3, <2>1
  <2>3. WaiterOK(w) BY <2>1, <2>2 DEF WaitersOK
  <2>4. reader[w].key # k
    <3>1. SUFFICES ASSUME reader[w].key = k PROVE FALSE OBVIOUS
    <3>2. inFlight[k] = LeaderOf(w)
      BY <2>1, <2>2, <3>1, WaitersAwaitRegistered
    <3>3. inFlight[k] = LeaderOf(r)
      BY <1>1, <1>2, <2>2, <3>1, WaitersAwaitRegistered DEF Waiting
    <3>4. LeaderOf(r) = r BY <1>2 DEF LeaderOf, Leads, Joins
    <3>q. QED BY <2>1, <3>2, <3>3, <3>4 DEF Awaits
  <2>5. reader[w].key \in DOMAIN entries' <=> reader[w].key \in DOMAIN entries
    BY <1>2, <2>2, <2>4
  <2>6. reader[w].key \in DOMAIN entries =>
          entries'[reader[w].key] = entries[reader[w].key]
    BY <1>2, <2>2, <2>4
  <2>q. QED BY <2>1, <2>3, <2>5, <2>6, WaiterStays
<1>q. QED BY <1>3 DEF WaitersOK

-----------------------------------------------------------------------------
(* Dates.                                                                  *)

\* DatesOK, for one reader.
ReaderDated(r) ==
  /\ Waiting(r) => /\ reader[r].now <= clock
                   /\ reader[r].cached.at <= reader[r].cached.value
                   /\ reader[r].cached.at <= reader[r].now
  /\ reader[r].pc = "served" =>
       reader[r].at <= reader[r].value /\ reader[r].at <= reader[r].now

LEMMA CachedDated ==
  ASSUME TypeOK, DatesOK, NEW k \in Keys
  PROVE  Cached(k).at <= Cached(k).value /\ Cached(k).at <= clock
<1>1. CASE Held(k) BY <1>1 DEF Cached, Held, DatesOK
<1>2. CASE ~Held(k)
  <2>1. clock \in Nat BY DEF TypeOK, Times
  <2>q. QED BY <1>2, <2>1 DEF Cached, None
<1>q. QED BY <1>1, <1>2

LEMMA ReadDates ==
  ASSUME TypeOK, DatesOK, NEW r \in Readers, NEW k \in Keys,
         ReadFresh(r, k) \/ LeadFetch(r, k) \/ JoinFetch(r, k)
  PROVE  DatesOK'
<1>1. UNCHANGED <<clock, entries>> /\ \A w \in Readers \ {r} : reader'[w] = reader[w]
  BY DEF ReadFresh, LeadFetch, JoinFetch, TypeOK
<1>2. clock \in Nat BY DEF TypeOK, Times
<1>3. CASE ReadFresh(r, k)
  <2>1. /\ reader'[r].pc = "served" /\ reader'[r].now = clock
        /\ reader'[r].value = entries[k].value /\ reader'[r].at = entries[k].at
        /\ k \in DOMAIN entries
    BY <1>3 DEF ReadFresh, Fresh, Held, TypeOK
  <2>q. QED BY <1>1, <2>1 DEF DatesOK, Waiting, Leads, Joins
<1>4. CASE LeadFetch(r, k) \/ JoinFetch(r, k)
  <2>1. /\ reader'[r].pc \in {"leading", "joined"} /\ reader'[r].now = clock
        /\ reader'[r].cached = Cached(k)
    BY <1>4 DEF LeadFetch, JoinFetch, TypeOK
  <2>q. QED BY <1>1, <1>2, <2>1, CachedDated DEF DatesOK, Waiting, Leads, Joins
<1>q. QED BY <1>3, <1>4

LEMMA SucceedsDates ==
  ASSUME TypeOK, RegistryOK, DatesOK, NEW r \in Readers, NEW v \in Times,
         FetchSucceeds(r, v)
  PROVE  DatesOK'
<1>1. PICK k \in Keys, n \in Times : k = reader[r].key /\ n = reader[r].now
  BY WaitingTypes DEF FetchSucceeds, Waiting
<1>2. /\ Leads(r) /\ n <= v /\ v <= clock /\ clock' = clock /\ clock \in Nat
      /\ n \in Nat /\ v \in Nat
  BY <1>1 DEF FetchSucceeds, TypeOK, Times
<1>3. entries' = [x \in (DOMAIN entries \ Evicted(k)) \cup {k} |->
                    IF x = k THEN [value |-> v, at |-> n] ELSE entries[x]]
  BY <1>1 DEF FetchSucceeds, StartedAt
<1>4. ASSUME NEW x \in DOMAIN entries'
      PROVE  entries'[x].at <= entries'[x].value /\ entries'[x].at <= clock
  <2>1. CASE x = k
    <3>1. entries'[x].at = n /\ entries'[x].value = v BY <1>3, <1>4, <2>1
    <3>q. QED BY <1>2, <3>1
  <2>2. CASE x # k
    <3>1. x \in DOMAIN entries /\ entries'[x] = entries[x] BY <1>3, <1>4, <2>2
    <3>q. QED BY <3>1 DEF DatesOK
  <2>q. QED BY <2>1, <2>2
<1>5. ASSUME NEW w \in Readers, Awaits(w, r)
      PROVE  /\ reader'[w].pc = "served"
             /\ reader'[w].at <= reader'[w].value /\ reader'[w].at <= reader'[w].now
  <2>1. /\ reader'[w].pc = "served" /\ reader'[w].at = n /\ reader'[w].value = v
        /\ reader'[w].now = reader[w].now
    BY <1>1, <1>5 DEF FetchSucceeds, StartedAt
  <2>2. n <= reader[w].now
    BY <1>1, <1>2, <1>5 DEF Awaits, LeaderOf, RegistryOK
  <2>q. QED BY <1>2, <2>1, <2>2
<1>6. \A w \in Readers : ~Awaits(w, r) => reader'[w] = reader[w]
  BY DEF FetchSucceeds
<1>7. ASSUME NEW w \in Readers PROVE ReaderDated(w)'
  <2>1. CASE Awaits(w, r)
    BY <1>5, <2>1 DEF ReaderDated, Waiting, Leads, Joins
  <2>2. CASE ~Awaits(w, r)
    BY <1>2, <1>6, <2>2 DEF ReaderDated, DatesOK, Waiting, Leads, Joins
  <2>q. QED BY <2>1, <2>2
<1>q. QED BY <1>2, <1>4, <1>7 DEF DatesOK, ReaderDated

LEMMA FailsDates ==
  ASSUME TypeOK, DatesOK, NEW r \in Readers, FetchFails(r)
  PROVE  DatesOK'
<1>1. UNCHANGED <<clock, entries>> BY DEF FetchFails
<1>2. ASSUME NEW w \in Readers PROVE ReaderDated(w)'
  <2>1. CASE Awaits(w, r)
    <3>1. /\ reader'[w].pc = "served" /\ reader'[w].now = reader[w].now
          /\ reader'[w].value = reader[w].cached.value
          /\ reader'[w].at = reader[w].cached.at
      BY <2>1 DEF FetchFails, Fallback
    <3>q. QED
      BY <2>1, <3>1 DEF ReaderDated, DatesOK, Awaits, Waiting, Leads, Joins
  <2>2. CASE ~Awaits(w, r)
    <3>1. reader'[w] = reader[w] BY <2>2 DEF FetchFails
    <3>q. QED BY <1>1, <3>1 DEF ReaderDated, DatesOK, Waiting, Leads, Joins
  <2>q. QED BY <2>1, <2>2
<1>q. QED BY <1>1, <1>2 DEF DatesOK, ReaderDated

LEMMA ClearDates == ASSUME TypeOK, DatesOK, Clear PROVE DatesOK'
<1>1. clock' = clock /\ DOMAIN entries' = {} BY DEF Clear
<1>2. ASSUME NEW w \in Readers PROVE ReaderDated(w)'
  <2>1. CASE Leads(w)
    BY <1>1, <2>1, ClearReader DEF ReaderDated, DatesOK, Waiting, Leads, Joins
  <2>2. CASE ~Leads(w)
    <3>1. reader'[w] = reader[w] BY <2>2, ClearReader
    <3>q. QED BY <1>1, <3>1 DEF ReaderDated, DatesOK, Waiting, Leads, Joins
  <2>q. QED BY <2>1, <2>2
<1>q. QED BY <1>1, <1>2 DEF DatesOK, ReaderDated

-----------------------------------------------------------------------------
(* The invariant and the theorems.                                         *)

LEMMA InitInvariant == Init => IInv
<1> SUFFICES ASSUME Init PROVE IInv OBVIOUS
<1>1. /\ entries = [k \in {} |-> None] /\ order = <<>> /\ clock = 0
      /\ inFlight = [k \in Keys |-> Nobody] /\ forgotten = {}
      /\ reader = [r \in Readers |-> Idle]
  BY DEF Init
<1>2. order \in Seq(Keys) /\ Len(order) = 0 /\ DOMAIN order = {}
  BY <1>1, EmptySeq
<1>3. Range(order) = {} /\ IsInjective(order) BY <1>2 DEF Range, IsInjective
<1>4. DOMAIN entries = {} /\ entries \in [DOMAIN entries -> Entry] BY <1>1
<1>5. 0 <= MaxEntries /\ 0 \in Times BY CacheAssumption DEF Times
<1>6. TypeOK BY <1>1, <1>2, <1>3, <1>4, <1>5 DEF TypeOK
<1>7. \A r \in Readers : reader[r].pc = "idle" BY <1>1 DEF Idle
<1>8. RegistryOK BY <1>1, <1>7 DEF RegistryOK, Leads, Joins
<1>9. WaitersOK BY <1>7 DEF WaitersOK, Waiting, Leads, Joins
<1>10. DatesOK BY <1>4, <1>7 DEF DatesOK, Waiting, Leads, Joins
<1>q. QED BY <1>6, <1>8, <1>9, <1>10 DEF IInv

LEMMA TickInvariant == IInv /\ Tick => IInv'
<1> SUFFICES ASSUME IInv, Tick PROVE IInv' OBVIOUS
<1>1. UNCHANGED <<entries, order, inFlight, reader, forgotten>> BY DEF Tick
<1>2. clock' = clock + 1 /\ clock \in Nat /\ clock' \in Times
  BY CacheAssumption DEF Tick, IInv, TypeOK, Times
<1>3. TypeOK' BY <1>1, <1>2 DEF IInv, TypeOK
<1>4. RegistryOK' BY <1>1 DEF IInv, RegistryOK, Leads, Joins
<1>5. WaitersOK' BY <1>1, QuietWaiters DEF IInv
<1>6. \A k \in DOMAIN entries : entries[k].at \in Nat
  BY DEF IInv, TypeOK, Entry, Times
<1>7. \A r \in Readers : Waiting(r) => reader[r].now \in Nat
  BY WaitingTypes DEF IInv, Times
<1>8. DatesOK' BY <1>1, <1>2, <1>6, <1>7 DEF IInv, DatesOK, Waiting, Leads, Joins
<1>q. QED BY <1>3, <1>4, <1>5, <1>8 DEF IInv

LEMMA NextInvariant == IInv /\ [Next]_vars => IInv'
<1> SUFFICES ASSUME IInv, [Next]_vars PROVE IInv' OBVIOUS
<1>i. TypeOK /\ RegistryOK /\ WaitersOK /\ DatesOK BY DEF IInv
<1>1. ASSUME NEW r \in Readers, NEW k \in Keys, ReadFresh(r, k) PROVE IInv'
  <2>1. TypeOK' /\ RegistryOK' /\ DatesOK'
    BY <1>i, <1>1, ReadTypes, ReadRegistry, ReadDates
  <2>2. \A w \in Readers : Waiting(w)' => reader'[w] = reader[w]
    BY <1>i, <1>1 DEF ReadFresh, Waiting, Leads, Joins, TypeOK
  <2>3. UNCHANGED <<entries, forgotten>> BY <1>1 DEF ReadFresh
  <2>4. WaitersOK' BY <1>i, <2>2, <2>3, QuietWaiters
  <2>q. QED BY <2>1, <2>4 DEF IInv
<1>2. ASSUME NEW r \in Readers, NEW k \in Keys, LeadFetch(r, k) PROVE IInv'
  BY <1>i, <1>2, ReadTypes, LeadRegistry, ReadDates, MissWaiters DEF IInv
<1>3. ASSUME NEW r \in Readers, NEW k \in Keys, JoinFetch(r, k) PROVE IInv'
  BY <1>i, <1>3, ReadTypes, ReadRegistry, ReadDates, MissWaiters DEF IInv
<1>4. ASSUME NEW r \in Readers, NEW v \in Times, FetchSucceeds(r, v) PROVE IInv'
  <2>1. SettledBy(r) /\ Leads(r) /\ Unregister(r) BY <1>i, <1>4, SettlesAll
  <2>2. RegistryOK' BY <1>i, <2>1, SettleRegistry
  <2>q. QED BY <1>i, <1>4, <2>2, SucceedsTypes, SucceedsDates, SucceedsWaiters DEF IInv
<1>5. ASSUME NEW r \in Readers, FetchFails(r) PROVE IInv'
  <2>1. SettledBy(r) /\ Leads(r) /\ Unregister(r) BY <1>i, <1>5, SettlesAll
  <2>2. RegistryOK' BY <1>i, <2>1, SettleRegistry
  <2>3. \A w \in Readers : Waiting(w)' => reader'[w] = reader[w]
    BY <2>1 DEF SettledBy, Waiting, Leads, Joins
  <2>4. UNCHANGED <<entries, forgotten>> BY <1>5 DEF FetchFails
  <2>5. WaitersOK' BY <1>i, <2>3, <2>4, QuietWaiters
  <2>q. QED BY <1>i, <1>5, <2>2, <2>5, FailsTypes, FailsDates DEF IInv
<1>6. CASE Clear
  <2>1. TypeOK' /\ RegistryOK' /\ DatesOK'
    BY <1>i, <1>6, ClearTypes, ClearRegistry, ClearDates
  <2>2. forgotten' = Keys BY <1>6 DEF Clear
  <2>3. ASSUME NEW w \in Readers, Waiting(w)' PROVE reader'[w].key \in Keys
    <3>1. Waiting(w) /\ reader'[w].key = reader[w].key
      BY <1>i, <1>6, <2>3, ClearReader DEF Waiting, Leads, Joins
    <3>q. QED BY <1>i, <3>1, WaitingTypes
  <2>4. WaitersOK' BY <2>2, <2>3 DEF WaitersOK
  <2>q. QED BY <2>1, <2>4 DEF IInv
<1>7. CASE Tick BY <1>7, TickInvariant
<1>8. CASE UNCHANGED vars
  BY <1>8 DEF vars, IInv, TypeOK, RegistryOK, WaitersOK, WaiterOK, DatesOK,
     Waiting, Leads, Joins, Held
<1>q. QED BY <1>1, <1>2, <1>3, <1>4, <1>5, <1>6, <1>7, <1>8 DEF Next

THEOREM Invariant == Spec => []IInv
BY InitInvariant, NextInvariant, PTL DEF Spec

\* The type invariant: among others, the Map and its insertion order agree and
\* never exceed MAX_ENTRIES (write).
THEOREM TypeCorrect == Spec => []TypeOK
BY Invariant, PTL DEF IInv

\* Plan is asked once for all who miss, and nobody waits for a fetch that has
\* ended (fetchOnce).
THEOREM SingleFlightHolds == Spec => []SingleFlight
<1>1. IInv => SingleFlight
  <2> SUFFICES ASSUME IInv PROVE SingleFlight OBVIOUS
  <2>1. RegistryOK BY DEF IInv
  <2>2. ASSUME NEW r \in Readers, NEW s \in Readers, Leads(r), Leads(s),
               reader[r].key = reader[s].key,
               ~reader[r].abandoned, ~reader[s].abandoned
        PROVE  r = s
    BY <2>1, <2>2 DEF RegistryOK
  <2>q. QED BY <2>1, <2>2 DEF SingleFlight, RegistryOK
<1>q. QED BY <1>1, Invariant, PTL

\* Nothing is passed off as younger than it is (fetchOnce, read).
THEOREM DatesHold == Spec => []DatesAreHonest
<1>1. IInv => DatesAreHonest BY DEF IInv, DatesOK, DatesAreHonest
<1>q. QED BY <1>1, Invariant, PTL

\* Entries of a key are at least its TTL apart (read).
THEOREM SpacingHolds == Spec => RefetchesAreSpaced
<1> DEFINE Spaced == \A k \in DOMAIN entries \cap DOMAIN entries' :
       k \notin forgotten' /\ entries'[k] # entries[k] =>
         entries'[k].at >= entries[k].at + TTL[k]
<1>1. IInv /\ [Next]_vars => [Spaced]_vars
  <2> SUFFICES ASSUME IInv, Next PROVE Spaced OBVIOUS
  <2>1. CASE UNCHANGED entries BY <2>1
  <2>2. CASE DOMAIN entries' = {} BY <2>2
  <2>3. ASSUME NEW r \in Readers, NEW v \in Times, FetchSucceeds(r, v) PROVE Spaced
    <3>1. PICK k \in Keys, n \in Times : k = reader[r].key /\ n = reader[r].now
      BY <2>3, WaitingTypes DEF IInv, FetchSucceeds, Waiting
    <3>2. /\ entries' = [x \in (DOMAIN entries \ Evicted(k)) \cup {k} |->
                           IF x = k THEN [value |-> v, at |-> n] ELSE entries[x]]
          /\ forgotten' = forgotten \cup Evicted(k)
          /\ Leads(r)
      BY <2>3, <3>1 DEF FetchSucceeds, StartedAt
    <3>3. SUFFICES ASSUME NEW x \in DOMAIN entries \cap DOMAIN entries',
                          x \notin forgotten', entries'[x] # entries[x]
                   PROVE  entries'[x].at >= entries[x].at + TTL[x]
      OBVIOUS
    <3>4. x = k BY <3>2, <3>3
    <3>5. entries'[k].at = n BY <3>2
    <3>6. k \in DOMAIN entries /\ k \notin forgotten BY <3>2, <3>3, <3>4
    <3>7. WaiterOK(r) BY <3>1, <3>2, <3>6 DEF IInv, WaitersOK, Waiting
    <3>8. entries[k].at + TTL[k] <= n
      BY <3>1, <3>2, <3>6, <3>7 DEF WaiterOK, Held
    <3>9. entries[k].at \in Nat /\ TTL[k] \in Nat /\ n \in Nat
      BY <3>6, CacheAssumption DEF IInv, TypeOK, Entry, Times
    <3>q. QED BY <3>4, <3>5, <3>8, <3>9
  <2>4. CASE Clear BY <2>2, <2>4 DEF Clear
  <2>5. CASE Tick BY <2>1, <2>5 DEF Tick
  <2>6. ASSUME NEW r \in Readers, NEW k \in Keys,
               ReadFresh(r, k) \/ LeadFetch(r, k) \/ JoinFetch(r, k)
        PROVE  Spaced
    BY <2>1, <2>6 DEF ReadFresh, LeadFetch, JoinFetch
  <2>7. ASSUME NEW r \in Readers, FetchFails(r) PROVE Spaced
    BY <2>1, <2>7 DEF FetchFails
  <2> HIDE DEF Spaced
  <2>q. QED BY <2>3, <2>4, <2>5, <2>6, <2>7 DEF Next
<1>q. QED BY <1>1, Invariant, PTL DEF Spec, RefetchesAreSpaced

\* A reader whose fetch fails is given the entry that is held, and is refused
\* only if none is (read).
THEOREM FallbackHolds == Spec => FallbackIsCurrent
<1> DEFINE Current == \A r \in Readers :
       Waiting(r) /\ reader'[r].pc = "served" /\ reader[r].key \notin forgotten' =>
         LET k == reader[r].key IN
         /\ reader'[r].outcome = "unavailable" => ~Held(k)
         /\ reader'[r].outcome = "stale" =>
              Held(k) /\ entries[k] = reader[r].cached
<1>1. IInv /\ [Next]_vars => [Current]_vars
  <2> SUFFICES ASSUME IInv, Next PROVE Current OBVIOUS
  <2>1. ASSUME NEW r \in Readers, FetchFails(r) PROVE Current
    <3> SUFFICES ASSUME NEW w \in Readers, Waiting(w), reader'[w].pc = "served",
                        reader[w].key \notin forgotten'
                 PROVE  LET k == reader[w].key IN
                        /\ reader'[w].outcome = "unavailable" => ~Held(k)
                        /\ reader'[w].outcome = "stale" =>
                             Held(k) /\ entries[k] = reader[w].cached
      OBVIOUS
    <3>1. WaiterOK(w) BY <2>1 DEF FetchFails, IInv, WaitersOK
    <3>2. Awaits(w, r) BY <2>1 DEF FetchFails, Waiting, Leads, Joins
    <3>3. reader'[w].outcome = IF reader[w].held THEN "stale" ELSE "unavailable"
      BY <2>1, <3>2 DEF FetchFails, Fallback
    <3>q. QED BY <3>1, <3>3 DEF WaiterOK
  <2>2. ASSUME NEW r \in Readers, NEW v \in Times, FetchSucceeds(r, v)
        PROVE  Current
    <3>1. ASSUME NEW w \in Readers, Waiting(w), reader'[w].pc = "served"
          PROVE  reader'[w].outcome = "miss"
      BY <2>2, <3>1 DEF FetchSucceeds, Waiting, Leads, Joins
    <3>q. QED BY <3>1
  <2>3. ASSUME \A w \in Readers : Waiting(w) => Waiting(w)' PROVE Current
    BY <2>3 DEF Waiting, Leads, Joins
  <2>4. ASSUME NEW r \in Readers, NEW k \in Keys,
               ReadFresh(r, k) \/ LeadFetch(r, k) \/ JoinFetch(r, k)
        PROVE  Current
    <3>1. \A w \in Readers : Waiting(w) => reader'[w] = reader[w]
      BY <2>4 DEF ReadFresh, LeadFetch, JoinFetch, IInv, TypeOK
    <3>q. QED BY <2>3, <3>1 DEF Waiting, Leads, Joins
  <2>5. CASE Clear
    BY <2>3, <2>5, ClearReader DEF IInv, Waiting, Leads, Joins
  <2>6. CASE Tick BY <2>3, <2>6 DEF Tick, Waiting, Leads, Joins
  <2> HIDE DEF Current
  <2>q. QED BY <2>1, <2>2, <2>4, <2>5, <2>6 DEF Next
<1>q. QED BY <1>1, Invariant, PTL DEF Spec, FallbackIsCurrent

=============================================================================
