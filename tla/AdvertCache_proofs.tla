-------------------------- MODULE AdvertCache_proofs --------------------------
(* Proofs about AdvertCache: type correctness, that an entry is never       *)
(* replaced by an older one while it is held, and, as long as all adverts   *)
(* carry one TTL, that a reader sees the newest one and does not lose a     *)
(* provider that runs.                                                      *)
EXTENDS AdvertCache, TLAPS

(* The state of the cache alone, for every TTL: an advert let through is    *)
(* newer than the entry, and no entry is newer than the newest accepted.    *)
Ordered ==
    /\ checked # Nothing /\ entry # Nothing => checked.ts > entry.ts
    /\ entry # Nothing => newest # Nothing /\ entry.ts <= newest

LEMMA InitTyped == Init => TypeOK /\ Ordered
<1> SUFFICES ASSUME Init PROVE TypeOK /\ Ordered
  OBVIOUS
<1>1. now \in Nat /\ due \in Nat \union {Nothing} /\ beacon \in 0..MaxVersion /\ since \in 0..now
      /\ lost \in 0..MaxLost
  BY TimesAssumption DEF Init
<1>2. offset \in Offsets /\ wanted \in BOOLEAN /\ sent \subseteq Advert
  BY DEF Init
<1>3. owed = Nothing /\ checked = Nothing /\ entry = Nothing /\ newest = Nothing
  BY DEF Init
<1> QED
  BY <1>1, <1>2, <1>3 DEF TypeOK, Ordered

(* Every step keeps the types. *)
LEMMA TypeStep == TypeOK /\ [Next]_vars => TypeOK'
<1> SUFFICES ASSUME TypeOK, [Next]_vars PROVE TypeOK'
  OBVIOUS
<1> USE TimesAssumption DEF TypeOK, provider, network, cache
<1>1. CASE ChangeBeacon
  BY <1>1 DEF ChangeBeacon
<1>2. CASE PeerConnects
  BY <1>2 DEF PeerConnects
<1>3. ASSUME NEW ttl \in Ttls, AdvertisePeriodically(ttl) PROVE TypeOK'
  <2>1. Fresh(ttl) \in Advert
    BY DEF Fresh, Advert
  <2>2. sent' = sent \union {Fresh(ttl)} /\ sent' \subseteq Advert
    BY <1>3, <2>1 DEF AdvertisePeriodically
  <2>3. owed' \in sent' \union {Nothing} /\ lost' \in 0..MaxLost
    BY <1>3, <2>2 DEF AdvertisePeriodically
  <2>4. due' \in Nat \union {Nothing} /\ wanted' \in BOOLEAN
    <3>1. due' = due + Interval /\ wanted' = FALSE /\ due = now
      BY <1>3 DEF AdvertisePeriodically
    <3>2. now \in Nat /\ Interval \in Nat
      OBVIOUS
    <3>3. due' \in Nat
      BY ONLY <3>1, <3>2
    <3> QED
      BY <3>1, <3>3
  <2>5. UNCHANGED <<now, offset, beacon, since, checked, entry, newest>>
    BY <1>3 DEF AdvertisePeriodically
  <2>6. checked' \in sent' \union {Nothing}
    BY <2>2, <2>5
  <2> QED
    BY <2>2, <2>3, <2>4, <2>5, <2>6
<1>4. ASSUME NEW ttl \in Ttls, AdvertiseNow(ttl) PROVE TypeOK'
  <2>1. Fresh(ttl) \in Advert
    BY DEF Fresh, Advert
  <2> QED
    BY <1>4, <2>1 DEF AdvertiseNow
<1>5. ASSUME NEW a \in sent, Refuse(a) PROVE TypeOK'
  BY <1>5 DEF Refuse, Arrived
<1>6. ASSUME NEW a \in sent, Accept(a) PROVE TypeOK'
  BY <1>6 DEF Accept, Arrived
<1>7. CASE Insert
  <2>1. checked \in Advert
    BY <1>7 DEF Insert
  <2>2. entry' \in Entry
    <3>1. checked.ts \in Int /\ checked.ttl \in Int /\ checked.version \in Nat
      BY <2>1 DEF Advert
    <3>2. Expires(checked) \in Int
      BY <3>1 DEF Expires
    <3> QED
      BY <1>7, <3>1, <3>2 DEF Insert, Entry
  <2>3. newest' \in Int \union {Nothing}
    BY <1>7, <2>1 DEF Insert, Advert
  <2>4. UNCHANGED <<now, offset, due, beacon, since, wanted, sent, lost, owed>>
        /\ checked' = Nothing
    BY <1>7 DEF Insert
  <2> QED
    BY <2>2, <2>3, <2>4
<1>8. CASE Forget
  BY <1>8 DEF Forget
<1>9. CASE Tick
  BY <1>9 DEF Tick
<1>10. CASE Stops
  BY <1>10 DEF Stops
<1>11. CASE Starts
  BY <1>11 DEF Starts
<1>12. CASE UNCHANGED vars
  BY <1>12 DEF vars
<1> QED
  BY <1>1, <1>2, <1>3, <1>4, <1>5, <1>6, <1>7, <1>8, <1>9, <1>10, <1>11, <1>12 DEF Next

(* Only Accept and Insert can disturb the order. *)
LEMMA OrderedStep == TypeOK /\ Ordered /\ [Next]_vars => Ordered'
<1> SUFFICES ASSUME TypeOK, Ordered, [Next]_vars PROVE Ordered'
  OBVIOUS
<1> USE NothingAssumption DEF Ordered
<1>1. ASSUME NEW a \in sent, Accept(a) PROVE Ordered'
  BY <1>1 DEF Accept, Acceptable, NewerThanEntry
<1>2. CASE Insert
  <2>1. checked \in Advert /\ (newest = Nothing \/ newest \in Int)
    BY <1>2 DEF Insert, TypeOK
  <2>2. checked.ts \in Int
    BY <2>1 DEF Advert
  <2>3. checked' = Nothing /\ entry'.ts = checked.ts
    BY <1>2 DEF Insert
  <2>4. newest' \in Int /\ checked.ts <= newest'
    <3>1. CASE newest # Nothing /\ newest > checked.ts
      BY <1>2, <3>1, <2>1, <2>2 DEF Insert
    <3>2. CASE ~(newest # Nothing /\ newest > checked.ts)
      <4>1. newest' = checked.ts
        BY <1>2, <3>2 DEF Insert
      <4> QED
        BY <4>1, <2>2
    <3> QED
      BY <3>1, <3>2
  <2> QED
    BY <2>3, <2>4
<1>3. CASE Forget
  BY <1>3 DEF Forget
<1>4. CASE UNCHANGED cache
  BY <1>4 DEF cache
<1>5. ChangeBeacon \/ PeerConnects \/ Stops \/ Starts \/ Tick => UNCHANGED cache
  BY DEF ChangeBeacon, PeerConnects, Stops, Starts, Tick
<1>6. ASSUME NEW ttl \in Ttls, AdvertisePeriodically(ttl) \/ AdvertiseNow(ttl)
      PROVE UNCHANGED cache
  BY <1>6 DEF AdvertisePeriodically, AdvertiseNow
<1>7. ASSUME NEW a \in sent, Refuse(a) PROVE UNCHANGED cache
  BY <1>7 DEF Refuse
<1>8. UNCHANGED vars => UNCHANGED cache
  BY DEF vars
<1> QED
  BY <1>1, <1>2, <1>3, <1>4, <1>5, <1>6, <1>7, <1>8 DEF Next

(* The types hold in every reachable state. *)
THEOREM TypeCorrect == Spec => []TypeOK
<1>1. Init => TypeOK
  BY InitTyped
<1> QED
  BY <1>1, TypeStep, PTL DEF Spec

LEMMA AlwaysOrdered == Spec => [](TypeOK /\ Ordered)
<1>1. TypeOK /\ Ordered /\ [Next]_vars => (TypeOK /\ Ordered)'
  BY TypeStep, OrderedStep
<1> QED
  BY <1>1, InitTyped, PTL DEF Spec

(* While the cache holds an entry of a provider, what replaces it is newer: *)
(* the check and the insertion are two critical sections, and readers may   *)
(* forget the entry between them.                                           *)
THEOREM NoRollback ==
    Spec => [][entry # Nothing /\ entry' # Nothing /\ entry' # entry
                 => entry'.ts > entry.ts]_vars
<1>1. TypeOK /\ Ordered /\ [Next]_vars =>
        [entry # Nothing /\ entry' # Nothing /\ entry' # entry => entry'.ts > entry.ts]_vars
  <2> SUFFICES ASSUME TypeOK, Ordered, Next,
                      entry # Nothing, entry' # Nothing, entry' # entry
               PROVE  entry'.ts > entry.ts
    OBVIOUS
  <2>1. CASE Insert
    BY <2>1 DEF Insert, Ordered
  <2>2. CASE Forget
    BY <2>2 DEF Forget
  <2>3. Insert \/ Forget
    BY DEF Next, ChangeBeacon, PeerConnects, Stops, Starts, Tick, AdvertisePeriodically,
           AdvertiseNow, Refuse, Accept, cache
  <2> QED
    BY <2>1, <2>2, <2>3
<1> QED
  BY <1>1, AlwaysOrdered, PTL DEF Spec

-----------------------------------------------------------------------------
(* One TTL.  The inductive invariant says where the newest advert is: in    *)
(* the entry, or expired for good, so that no older one can be live.        *)
Newest(t) ==
    /\ entry # Nothing => entry.expires = entry.ts + t + TtlGrace
    /\ newest # Nothing =>
         \/ entry # Nothing /\ entry.ts = newest
         \/ newest + t + TtlGrace <= now

LEMMA NewestStep ==
    ASSUME NEW t \in Int, Ttls = {t}
    PROVE  TypeOK /\ Ordered /\ Newest(t) /\ [Next]_vars => Newest(t)'
<1> SUFFICES ASSUME TypeOK, Ordered, Newest(t), [Next]_vars PROVE Newest(t)'
  OBVIOUS
<1> USE NothingAssumption, TimesAssumption DEF Newest
<1>0. now \in Nat /\ (newest = Nothing \/ newest \in Int)
  BY DEF TypeOK
<1>1. CASE Insert
  <2>1. checked \in Advert
    BY <1>1 DEF Insert, TypeOK
  <2>2. checked.ts \in Int /\ checked.ttl = t
    BY <2>1 DEF Advert
  <2>3. entry' \in Entry /\ entry'.ts = checked.ts /\ now' = now
        /\ entry'.expires = entry'.ts + t + TtlGrace
    BY <1>1, <2>2, <2>1 DEF Insert, Entry, Expires, Advert
  <2>4. entry' # Nothing
    BY <2>3
  <2>5. CASE newest # Nothing /\ newest > checked.ts
    <3>1. newest' = newest
      BY <1>1, <2>5 DEF Insert
    <3>2. newest + t + TtlGrace <= now
      <4>1. ~(entry # Nothing /\ entry.ts = newest)
        BY <2>5, <2>2, <1>0, <1>1 DEF Ordered, Insert
      <4> QED
        BY <4>1, <2>5
    <3> QED
      BY <3>1, <3>2, <2>3, <2>4
  <2>6. CASE ~(newest # Nothing /\ newest > checked.ts)
    <3>1. newest' = checked.ts
      BY <1>1, <2>6 DEF Insert
    <3> QED
      BY <3>1, <2>3, <2>4
  <2> QED
    BY <2>5, <2>6
<1>2. CASE Forget
  <2>1. entry \in Entry /\ entry.ts \in Int
    BY <1>2 DEF Forget, TypeOK, Entry
  <2>2. entry.ts = newest => newest + t + TtlGrace <= now
    BY <1>2, <2>1 DEF Forget
  <2> QED
    BY <1>2, <2>2 DEF Forget
<1>3. CASE UNCHANGED <<entry, newest>> /\ (now' = now \/ now' = now + 1)
  <2>1. newest # Nothing /\ newest + t + TtlGrace <= now => newest + t + TtlGrace <= now'
    BY <1>3, <1>0
  <2> QED
    BY <1>3, <2>1
<1>4. Tick \/ ChangeBeacon \/ PeerConnects \/ Stops \/ Starts \/ UNCHANGED vars
        => UNCHANGED <<entry, newest>> /\ (now' = now \/ now' = now + 1)
  BY DEF Tick, ChangeBeacon, PeerConnects, Stops, Starts, vars, cache
<1>5. ASSUME NEW ttl \in Ttls, AdvertisePeriodically(ttl) \/ AdvertiseNow(ttl)
      PROVE UNCHANGED <<entry, newest>> /\ now' = now
  BY <1>5 DEF AdvertisePeriodically, AdvertiseNow, cache
<1>6. ASSUME NEW a \in sent, Refuse(a) \/ Accept(a)
      PROVE UNCHANGED <<entry, newest>> /\ now' = now
  BY <1>6 DEF Refuse, Accept, cache
<1> QED
  BY <1>1, <1>2, <1>3, <1>4, <1>5, <1>6 DEF Next

(* With one TTL, whatever it is, the grace, the clocks and the intervals,   *)
(* a reader never sees an advert older than one accepted before.            *)
THEOREM ReadersSeeNewest ==
    ASSUME NEW t \in Int, Ttls = {t}
    PROVE  Spec => []ShowsNewest
<1>1. Init => Newest(t)
  BY DEF Init, Newest
<1>2. TypeOK /\ Ordered /\ Newest(t) => ShowsNewest
  <2> SUFFICES ASSUME TypeOK, Ordered, Newest(t), Live PROVE entry.ts = newest
    BY DEF ShowsNewest
  <2>1. entry \in Entry /\ entry.ts \in Int /\ entry.expires = entry.ts + t + TtlGrace
        /\ entry.expires > now /\ entry # Nothing
    BY DEF Live, TypeOK, Entry, Newest
  <2>2. newest \in Int /\ entry.ts <= newest /\ newest # Nothing
    BY <2>1 DEF Ordered, TypeOK
  <2>3. now \in Nat /\ TtlGrace \in Nat
    BY TimesAssumption DEF TypeOK
  <2>4. ~(newest + t + TtlGrace <= now)
    BY <2>1, <2>2, <2>3
  <2> QED
    BY <2>2, <2>4 DEF Newest
<1>3. Spec => []Newest(t)
  BY <1>1, NewestStep, AlwaysOrdered, PTL DEF Spec
<1> QED
  BY <1>2, <1>3, AlwaysOrdered, PTL
-----------------------------------------------------------------------------
(* KeepsUp.  An advert counts when it was sent after the beacon last        *)
(* changed, and covers an instant when it lives beyond it.  The invariant   *)
(* says that the next advert which is not lost comes while one that counts  *)
(* is held, or before any is asked for.                                     *)
Slack == (MaxLost + 1) * Interval

\* When the next periodic advert that is not lost is sent, at the latest.
Deadline == due + (MaxLost - lost) * Interval

Covers(x, life, t) == x # Nothing /\ x.ts > since + offset /\ x.ts + life > t

\* Nothing is dated later than the provider's clock, and what counts carries
\* its beacon; an advert arrives at the instant it was sent.
Dated ==
    /\ \A a \in sent : a.ts <= now + offset /\ (a.ts > since + offset => a.version = beacon)
    /\ entry # Nothing =>
           entry.ts <= now + offset /\ (entry.ts > since + offset => entry.version = beacon)
    /\ owed # Nothing => owed.ts = now + offset
    /\ owed # Nothing /\ owed.ts > since + offset /\ due # Nothing => now < due
    /\ due # Nothing => now <= due /\ due <= now + Interval

Kept(life) ==
    due # Nothing =>
        /\ now <= since + Slack \/ Covers(entry, life, now)
        /\ \/ Deadline <= since + Slack
           \/ Covers(entry, life, Deadline)
           \/ Covers(checked, life, Deadline)
           \/ Covers(owed, life, Deadline)

\* What is left of the deadline, by how many may still be lost.
LEMMA Remaining ==
    ASSUME NEW n \in 0..MaxLost
    PROVE  /\ n * Interval \in Int /\ 0 <= n * Interval /\ n * Interval <= MaxLost * Interval
           /\ (n + 1) * Interval = n * Interval + Interval
           /\ MaxLost * Interval \in Int /\ Slack = MaxLost * Interval + Interval
<1>1. Interval \in Nat /\ MaxLost \in Nat /\ n \in Nat /\ n <= MaxLost
  BY TimesAssumption
<1>2. 0 <= n * Interval /\ n * Interval \in Int /\ MaxLost * Interval \in Int
  BY <1>1
<1>3. PICK m \in Nat : MaxLost = n + m
  <2>1. MaxLost - n \in Nat /\ MaxLost = n + (MaxLost - n)
    BY <1>1
  <2> QED
    BY <2>1
<1>4. MaxLost * Interval = n * Interval + m * Interval /\ 0 <= m * Interval
      /\ m * Interval \in Int
  BY <1>1, <1>3
<1>5. (n + 1) * Interval = n * Interval + Interval
      /\ (MaxLost + 1) * Interval = MaxLost * Interval + Interval
  BY <1>1
<1> QED
  BY <1>2, <1>4, <1>5 DEF Slack

LEMMA DeadlineWithin ==
    ASSUME TypeOK, due # Nothing, now <= due, due <= now + Interval
    PROVE  /\ Slack \in Int /\ Deadline \in Int /\ now \in Int
           /\ now <= due /\ due <= Deadline /\ Deadline <= now + Slack
<1> DEFINE n == MaxLost - lost
<1>1. n \in 0..MaxLost /\ due \in Int /\ now \in Int /\ Interval \in Int
  BY TimesAssumption DEF TypeOK
<1>2. /\ n * Interval \in Int /\ 0 <= n * Interval /\ n * Interval <= MaxLost * Interval
      /\ MaxLost * Interval \in Int /\ Slack = MaxLost * Interval + Interval
  BY <1>1, Remaining
<1>3. Deadline = due + n * Interval
  BY DEF Deadline
<1> QED
  BY ONLY <1>1, <1>2, <1>3, now <= due, due <= now + Interval

LEMMA DatedStep == TypeOK /\ Dated /\ [Next]_vars => Dated'
<1> SUFFICES ASSUME TypeOK, Dated, [Next]_vars PROVE Dated'
  OBVIOUS
<1>0. /\ now \in Int /\ offset \in Int /\ since \in Int /\ since <= now /\ Interval \in Nat
      /\ Interval >= 1 /\ (due # Nothing => due \in Int)
      /\ \A a \in sent : a.ts \in Int
      /\ entry # Nothing => entry.ts \in Int
      /\ owed # Nothing => owed \in sent
  BY TimesAssumption DEF TypeOK, Advert, Entry
<1>1. CASE ChangeBeacon \/ Starts
  <2>1. since' = now /\ now' = now /\ offset' = offset /\ sent' = sent /\ entry' = entry
        /\ owed' = owed
    BY <1>1 DEF ChangeBeacon, Starts, network, cache
  <2>2. \A x : x <= now + offset => ~(x > since' + offset') \/ x \notin Int
    BY <2>1, <1>0
  <2>3. due' # Nothing => now' <= due' /\ due' <= now' + Interval
    BY <1>1, <1>0 DEF ChangeBeacon, Starts, Dated
  <2> QED
    BY <2>1, <2>2, <2>3, <1>0 DEF Dated
<1>2. CASE Stops
  BY <1>2 DEF Stops, Dated, network, cache
<1>3. CASE PeerConnects \/ UNCHANGED vars
  BY <1>3 DEF PeerConnects, Dated, vars, provider, network, cache
<1>4. ASSUME NEW ttl \in Ttls, AdvertisePeriodically(ttl) PROVE Dated'
  <2>1. /\ now' = now /\ offset' = offset /\ since' = since /\ beacon' = beacon /\ entry' = entry
        /\ sent' = sent \union {Fresh(ttl)} /\ owed' \in {Fresh(ttl), Nothing}
        /\ now = due /\ due' = due + Interval
    BY <1>4 DEF AdvertisePeriodically, cache
  <2>2. Fresh(ttl).ts = now + offset /\ Fresh(ttl).version = beacon
    BY DEF Fresh
  <2>3. now' <= due' /\ due' <= now' + Interval /\ now' < due'
    BY <2>1, <1>0
  <2>4. \A a \in sent' : a.ts <= now' + offset' /\ (a.ts > since' + offset' => a.version = beacon')
    BY <2>1, <2>2, <1>0 DEF Dated
  <2> QED
    BY <2>1, <2>2, <2>3, <2>4 DEF Dated
<1>5. ASSUME NEW ttl \in Ttls, AdvertiseNow(ttl) PROVE Dated'
  <2>1. UNCHANGED <<now, offset, due, since, beacon, entry, owed>>
        /\ sent' = sent \union {Fresh(ttl)}
    BY <1>5 DEF AdvertiseNow, cache
  <2>2. Fresh(ttl).ts = now + offset /\ Fresh(ttl).version = beacon
    BY DEF Fresh
  <2>3. \A a \in sent' : a.ts <= now' + offset' /\ (a.ts > since' + offset' => a.version = beacon')
    BY <2>1, <2>2, <1>0 DEF Dated
  <2> QED
    BY <2>1, <2>3 DEF Dated
<1>6. ASSUME NEW a \in sent, Refuse(a) \/ Accept(a) PROVE Dated'
  <2>1. UNCHANGED <<now, offset, due, since, beacon, entry, sent>> /\ owed' \in {owed, Nothing}
    BY <1>6 DEF Refuse, Accept, Arrived, provider, cache
  <2> QED
    BY <2>1 DEF Dated
<1>7. CASE Insert
  <2>1. UNCHANGED <<now, offset, due, since, beacon, sent, owed>> /\ checked \in sent
        /\ entry'.ts = checked.ts /\ entry'.version = checked.version
    BY <1>7 DEF Insert, TypeOK, provider, network
  <2> QED
    BY <2>1 DEF Dated
<1>8. CASE Forget
  BY <1>8 DEF Forget, Dated, provider, network
<1>9. CASE Tick
  <2>1. UNCHANGED <<offset, due, since, beacon, sent, entry>> /\ owed' = Nothing
        /\ now' = now + 1 /\ (due # Nothing => now < due)
    BY <1>9 DEF Tick, provider, network, cache
  <2>2. due' # Nothing => now' <= due' /\ due' <= now' + Interval
    BY <2>1, <1>0 DEF Dated
  <2>3. \A a \in sent' : a.ts <= now' + offset' /\ (a.ts > since' + offset' => a.version = beacon')
    BY <2>1, <1>0 DEF Dated
  <2>4. entry' # Nothing =>
            entry'.ts <= now' + offset' /\ (entry'.ts > since' + offset' => entry'.version = beacon')
    BY <2>1, <1>0 DEF Dated
  <2> QED
    BY <2>1, <2>2, <2>3, <2>4 DEF Dated
<1> QED
  BY <1>1, <1>2, <1>3, <1>4, <1>5, <1>6, <1>7, <1>8, <1>9 DEF Next

\* What an instance must leave room for: a fresh advert is accepted, and it
\* outlives the periodic adverts that may be lost.
Room(t) ==
    /\ Ttls = {t} /\ 1 <= t /\ t <= MaxTtl
    /\ \A o \in Offsets : -MaxSkew <= o /\ o <= MaxSkew /\ t + TtlGrace + o > Slack

LEMMA KeptStep ==
    ASSUME NEW t \in Int, Room(t)
    PROVE  TypeOK /\ Ordered /\ Newest(t) /\ Dated /\ Kept(t + TtlGrace) /\ [Next]_vars
               => Kept(t + TtlGrace)'
<1> DEFINE life == t + TtlGrace
           Due(x) == Covers(x, life, Deadline)
<1> SUFFICES ASSUME TypeOK, Ordered, Newest(t), Dated, Kept(life), [Next]_vars, due' # Nothing
             PROVE  /\ now' <= since' + Slack \/ Covers(entry, life, now)'
                    /\ Deadline' <= since' + Slack \/ Due(entry)' \/ Due(checked)' \/ Due(owed)'
  BY DEF Kept, Slack, Covers
<1>0. /\ now \in Int /\ offset \in Int /\ since \in Int /\ since <= now /\ life \in Int
      /\ Slack \in Int
      /\ \A a \in sent : a.ts \in Int
      /\ entry # Nothing => entry.ts \in Int
      /\ owed # Nothing => owed \in sent
      /\ checked # Nothing => checked \in sent
  BY TimesAssumption DEF TypeOK, Advert, Entry, Slack
<1>1. due # Nothing =>
          /\ Deadline \in Int /\ now <= due /\ due <= Deadline /\ Deadline <= now + Slack
          /\ now <= since + Slack \/ Covers(entry, life, now)
          /\ Deadline <= since + Slack \/ Due(entry) \/ Due(checked) \/ Due(owed)
  BY DeadlineWithin DEF Kept, Dated
<1>2. Slack >= 0
  BY TimesAssumption DEF Slack
<1>3. CASE ChangeBeacon
  <2>1. now' = now /\ since' = now /\ due # Nothing /\ Deadline' = Deadline
    BY <1>3 DEF ChangeBeacon, Deadline, network
  <2> QED
    BY <2>1, <1>0, <1>1, <1>2
<1>4. CASE Starts
  <2>1. now' = now /\ since' = now
    BY <1>4 DEF Starts
  <2>2. MaxLost - lost \in 0..MaxLost /\ Interval \in Nat
    BY TimesAssumption DEF TypeOK
  <2>3. Deadline' <= now' + Slack
    <3> DEFINE rest == (MaxLost - lost) * Interval
    <3>1. Deadline' = now + rest
      BY <1>4, <2>1 DEF Starts, Deadline, network
    <3>2. rest \in Int /\ rest <= MaxLost * Interval /\ MaxLost * Interval \in Int
          /\ Slack = MaxLost * Interval + Interval
      BY <2>2, Remaining
    <3> QED
      BY ONLY <3>1, <3>2, <2>1, <2>2, <1>0
  <2> QED
    BY <2>1, <2>3, <1>0, <1>2
<1>5. CASE PeerConnects \/ UNCHANGED vars
  <2>1. UNCHANGED <<now, offset, due, since, lost, owed, checked, entry>>
    BY <1>5 DEF PeerConnects, vars, provider, network, cache
  <2> QED
    BY <2>1, <1>1 DEF Covers, Deadline
<1>6. ASSUME NEW ttl \in Ttls, AdvertiseNow(ttl)
      PROVE  UNCHANGED <<now, offset, due, since, lost, owed, checked, entry>>
  BY <1>6 DEF AdvertiseNow, cache
<1>7. ASSUME NEW ttl \in Ttls, AdvertisePeriodically(ttl)
      PROVE  /\ now' <= since' + Slack \/ Covers(entry, life, now)'
             /\ Deadline' <= since' + Slack \/ Due(entry)' \/ Due(checked)' \/ Due(owed)'
  <2>1. /\ UNCHANGED <<now, offset, since, checked, entry>> /\ now = due
        /\ due' = due + Interval /\ due # Nothing
    BY <1>7, <1>0, NothingAssumption DEF AdvertisePeriodically, cache
  <2>2. now' <= since' + Slack \/ Covers(entry, life, now)'
    BY <2>1, <1>1 DEF Covers
  <2>3. CASE lost < MaxLost /\ lost' = lost + 1
    <3> DEFINE n == MaxLost - lost'
    <3>1. n \in 0..MaxLost /\ MaxLost - lost = n + 1 /\ due \in Int /\ Interval \in Int
      BY <2>1, <2>3, <1>0, TimesAssumption DEF TypeOK
    <3>2. n * Interval \in Int /\ (n + 1) * Interval = n * Interval + Interval
      BY <3>1, Remaining
    <3>3. Deadline' = due + Interval + n * Interval /\ Deadline = due + (n + 1) * Interval
      BY <2>1, <3>1 DEF Deadline
    <3>4. Deadline' = Deadline
      BY ONLY <3>1, <3>2, <3>3
    <3>5. ~Due(owed)
      BY <2>1, <1>0 DEF Dated, Covers
    <3> QED
      BY <3>4, <3>5, <2>1, <2>2, <1>1 DEF Covers
  <2>4. CASE lost' = 0 /\ owed' = Fresh(ttl)
    <3>1. Deadline' = now + Slack
      <4>1. MaxLost \in 0..MaxLost /\ MaxLost - 0 = MaxLost /\ Interval \in Int
        BY TimesAssumption
      <4>2. MaxLost * Interval \in Int /\ Slack = MaxLost * Interval + Interval
        BY <4>1, Remaining
      <4>3. Deadline' = now + Interval + MaxLost * Interval
        BY <2>1, <2>4, <4>1 DEF Deadline
      <4> QED
        BY ONLY <4>1, <4>2, <4>3, <1>0
    <3>2. CASE now = since
      BY <3>1, <3>2, <2>1, <2>2
    <3>3. CASE now > since
      <4>1. Fresh(ttl) \in Advert /\ Fresh(ttl).ts = now + offset
        BY <1>0 DEF Fresh, Advert, TypeOK
      <4>2. Fresh(ttl) # Nothing
        BY <4>1, NothingAssumption
      <4>3. life + offset > Slack
        BY TimesAssumption DEF Room, TypeOK
      <4>4. now + offset > since + offset /\ now + offset + life > now + Slack
        BY ONLY <4>3, <3>3, <1>0
      <4>5. Due(owed)'
        BY <4>1, <4>2, <4>4, <3>1, <2>1, <2>4 DEF Covers
      <4> QED
        BY <4>5, <2>2
    <3> QED
      BY <3>2, <3>3, <1>0
  <2> QED
    BY <1>7, <2>3, <2>4 DEF AdvertisePeriodically
<1>8. ASSUME NEW a \in sent, Refuse(a) \/ Accept(a)
      PROVE  /\ now' <= since' + Slack \/ Covers(entry, life, now)'
             /\ Deadline' <= since' + Slack \/ Due(entry)' \/ Due(checked)' \/ Due(owed)'
  <2>1. /\ UNCHANGED <<now, offset, due, since, lost, entry>> /\ Deadline' = Deadline
        /\ due # Nothing /\ checked = Nothing /\ Arrived(a)
    BY <1>8 DEF Refuse, Accept, provider, cache, Deadline
  <2>2. ~Due(checked)
    BY <2>1 DEF Covers
  <2>3. CASE ~Due(owed) \/ owed' = owed
    BY <2>1, <2>2, <2>3, <1>1 DEF Covers
  <2>4. CASE Due(owed) /\ owed' # owed
    <3>1. a = owed /\ owed \in sent /\ owed # Nothing
      BY <2>1, <2>4, <1>0 DEF Arrived, Covers
    <3>2. CASE Accept(a)
      <4>1. checked' = owed
        BY <3>1, <3>2 DEF Accept
      <4> QED
        BY <4>1, <2>1, <2>4, <1>1 DEF Covers
    <3>3. CASE Refuse(a)
      <4>1. InTime(a)
        <5>1. a.ts = now + offset /\ a.ttl = t
          BY <3>1 DEF Dated, TypeOK, Advert, Room
        <5>2. -MaxSkew <= offset /\ offset <= MaxSkew /\ 1 <= t /\ t <= MaxTtl
          BY DEF TypeOK, Room
        <5> QED
          BY <5>1, <5>2, <1>0, TimesAssumption DEF InTime
      <4>2. entry # Nothing /\ ~(a.ts > entry.ts)
        BY <3>3, <4>1 DEF Refuse, Acceptable, NewerThanEntry
      <4>3. Due(entry)
        <5>1. entry.ts \in Int /\ owed.ts \in Int /\ Deadline \in Int
          BY <4>2, <3>1, <2>1, <1>0, <1>1
        <5> QED
          BY <5>1, <4>2, <3>1, <2>4, <1>0 DEF Covers
      <4> QED
        BY <4>3, <2>1, <1>1 DEF Covers
    <3> QED
      BY <3>2, <3>3, <1>8
  <2> QED
    BY <2>3, <2>4
<1>9. CASE Insert
  <2>1. /\ UNCHANGED <<now, offset, due, since, lost, owed>> /\ Deadline' = Deadline
        /\ due # Nothing /\ checked # Nothing /\ entry'.ts = checked.ts
    BY <1>9 DEF Insert, provider, network, Deadline
  <2>2. entry' # Nothing
    <3>1. checked \in Advert
      BY <2>1, <1>0 DEF TypeOK
    <3>2. Expires(checked) \in Int
      <4>1. checked.ts \in Int /\ checked.ttl \in Int
        BY <3>1, TimesAssumption DEF Advert
      <4> QED
        BY <4>1, TimesAssumption DEF Expires
    <3>3. entry' \in Entry
      BY <1>9, <3>1, <3>2 DEF Insert, Entry, Advert
    <3> QED
      BY <3>3, NothingAssumption
  <2>3. \A x \in {now, Deadline} :
            Covers(entry, life, x) \/ Covers(checked, life, x) =>
                entry'.ts > since + offset /\ entry'.ts + life > x
    <3>1. checked.ts \in Int /\ (entry # Nothing => checked.ts > entry.ts)
      BY <2>1, <1>0 DEF Ordered
    <3> QED
      BY <3>1, <2>1, <1>0, <1>1 DEF Covers
  <2> QED
    BY <2>1, <2>2, <2>3, <1>1 DEF Covers
<1>10. CASE Forget
  <2>1. /\ UNCHANGED <<now, offset, due, since, lost, owed, checked>> /\ Deadline' = Deadline
        /\ due # Nothing /\ entry # Nothing /\ entry.expires <= now
    BY <1>10 DEF Forget, provider, network, Deadline
  <2>2. \A x \in {now, Deadline} : ~Covers(entry, life, x)
    <3>1. entry.ts \in Int /\ entry.expires = entry.ts + life
      BY <2>1, <1>0, TimesAssumption DEF Newest
    <3>2. now \in Int /\ life \in Int /\ Deadline \in Int /\ now <= Deadline
      BY <2>1, <1>0, <1>1, TimesAssumption DEF TypeOK
    <3>3. ~(entry.ts + life > now) /\ ~(entry.ts + life > Deadline)
      BY ONLY <3>1, <3>2, <2>1
    <3> QED
      BY <3>3 DEF Covers
  <2> QED
    BY <2>1, <2>2, <1>1 DEF Covers
<1>11. CASE Tick
  <2>1. /\ UNCHANGED <<offset, due, since, lost, owed, checked, entry>> /\ Deadline' = Deadline
        /\ due # Nothing /\ now' = now + 1 /\ now < due /\ owed = Nothing /\ checked = Nothing
    BY <1>11 DEF Tick, provider, network, cache, Deadline
  <2>2. Deadline <= since + Slack \/ Due(entry)
    BY <2>1, <1>1 DEF Covers
  <2>3. now' <= Deadline
    BY <2>1, <1>0, <1>1 DEF TypeOK
  <2>4. now' <= since + Slack \/ Covers(entry, life, now')
    <3>1. entry # Nothing => entry.ts \in Int
      BY <1>0
    <3> QED
      BY <3>1, <2>1, <2>2, <2>3, <1>0, <1>1 DEF Covers
  <2> QED
    BY <2>1, <2>2, <2>4 DEF Covers
<1>12. ~Stops
  BY DEF Stops
<1>13. UNCHANGED <<now, offset, due, since, lost, owed, checked, entry>> =>
          /\ now' <= since' + Slack \/ Covers(entry, life, now)'
          /\ Deadline' <= since' + Slack \/ Due(entry)' \/ Due(checked)' \/ Due(owed)'
  BY <1>1 DEF Covers, Deadline
<1> QED
  BY <1>3, <1>4, <1>5, <1>6, <1>7, <1>8, <1>9, <1>10, <1>11, <1>12, <1>13 DEF Next

(* With one TTL that leaves room for the adverts that may be lost, whatever *)
(* the clocks, delays, repetitions, restarts and changes of the beacon, a   *)
(* provider that runs stays in the cache with its current beacon.           *)
THEOREM ProviderIsKept ==
    ASSUME NEW t \in Int, Room(t)
    PROVE  Spec => []KeepsUp
<1> DEFINE life == t + TtlGrace
<1>1. Init => Dated /\ Kept(life) /\ Newest(t)
  <2> SUFFICES ASSUME Init PROVE Dated /\ Kept(life) /\ Newest(t)
    OBVIOUS
  <2>1. now = 0 /\ due = 0 /\ since = 0 /\ sent = {} /\ entry = Nothing /\ owed = Nothing
        /\ newest = Nothing /\ lost = 0
    BY DEF Init
  <2>2. Dated
    BY <2>1, TimesAssumption DEF Dated
  <2>3. TypeOK
    BY InitTyped
  <2>4. Deadline <= since + Slack /\ now <= since + Slack
    <3>1. due # Nothing
      BY <2>1, NothingAssumption
    <3> QED
      BY <3>1, <2>1, <2>2, <2>3, DeadlineWithin DEF Dated
  <2> QED
    BY <2>1, <2>2, <2>4 DEF Kept, Newest
<1>2. TypeOK /\ Ordered /\ Dated /\ Kept(life) /\ Newest(t) /\ [Next]_vars
        => (Dated /\ Kept(life) /\ Newest(t))'
  BY DatedStep, KeptStep, NewestStep DEF Room
<1>3. TypeOK /\ Dated /\ Kept(life) /\ Newest(t) => KeepsUp
  <2> SUFFICES ASSUME TypeOK, Dated, Kept(life), Newest(t),
                      due # Nothing, now > since + (MaxLost + 1) * Interval
               PROVE  Live /\ entry.version = beacon
    BY DEF KeepsUp
  <2>1. now \in Int /\ since \in Int /\ Slack \in Int
    BY TimesAssumption DEF TypeOK, Slack
  <2>2. Covers(entry, life, now)
    BY <2>1 DEF Kept, Slack
  <2>3. entry # Nothing /\ entry \in Entry /\ entry.expires = entry.ts + t + TtlGrace
    BY <2>2 DEF Covers, Newest, TypeOK
  <2>4. entry.ts \in Int /\ TtlGrace \in Int
    BY <2>3, TimesAssumption DEF Entry
  <2>5. entry.expires > now
    BY <2>1, <2>2, <2>3, <2>4 DEF Covers
  <2> QED
    BY <2>2, <2>3, <2>5 DEF Covers, Dated, Live
<1>4. Spec => [](Dated /\ Kept(life) /\ Newest(t))
  BY <1>1, <1>2, AlwaysOrdered, PTL DEF Spec
<1> QED
  BY <1>3, <1>4, AlwaysOrdered, PTL
=============================================================================
