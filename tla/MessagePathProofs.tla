------------------------- MODULE MessagePathProofs --------------------------
(***************************************************************************)
(* Proofs about four stages of MessagePath: rtlamr-collect, for every      *)
(* range of the interval counter, every number of intervals in a message,  *)
(* every error of the receive time and any number of restarts and failed   *)
(* writes; the histories of the decoder, for every geometry and back end;  *)
(* the receiver's output, for every command line; and the dispatch of what *)
(* the decoder finds, for every set of parsers and preambles.              *)
(***************************************************************************)
EXTENDS MessagePath, FiniteSetTheorems, WellFoundedInduction, TLAPS

Num(k) == written[k] + (IF k \in batch THEN 1 ELSE 0)

\* The entry of the meter map is the one the message of interval l made.
EntryOf(l) ==
  /\ meters.interval = l % Indices
  /\ meters.time - l * Period \in -Jitter .. Jitter

KindInv ==
  /\ clock \in (Carried * Period) .. MaxClock /\ pc \in {"read", "write"}
  /\ meters \in [time : Int, interval : 0 .. (Indices - 1)] \cup {None}
  /\ coalesced \in Database!Points /\ reading \in Database!Points
  /\ stored \in Database!Points /\ heard \in Database!Points
  /\ batch \subseteq Database!Intervals /\ lost \subseteq Database!Intervals
  /\ offered \subseteq Database!Intervals
  /\ written \in [Database!Intervals -> Nat] /\ unsaved \in 0 .. MaxUnsaved

\* The newest interval l the map has, -1 if it has none: it was in a message
\* with the ones before it, and what is newer was stored once for every
\* update of the map that failed.
Newest(l) ==
  /\ meters = None => l = -1
  /\ meters # None => /\ l >= Carried - 1 /\ EntryOf(l)
                      /\ \A i \in 0 .. (Carried - 1) : l - i \in offered
  /\ \A k \in Database!Intervals : Num(k) <= IF k > l THEN unsaved ELSE unsaved + 1

StoreInv ==
  /\ \E l \in -1 .. Database!Current : Newest(l)
  /\ \A k \in offered : written[k] > 0 \/ k \in lost \/ k \in batch

\* A point not yet written is what was heard last; otherwise the database
\* has what the coalescer and the receiver last knew.
ReadingInv ==
  /\ pc = "read" => batch = {} /\ reading = None
  /\ reading # None => heard = reading /\ (Heartbeat > 0 => coalesced = reading)
  /\ Heartbeat = 0 => coalesced = None
  /\ reading = None =>
       /\ coalesced # None => stored = coalesced
       /\ heard # None => /\ stored # None /\ stored.fields = heard.fields
                          /\ heard.time = stored.time \/ heard.time - stored.time \in 1 .. (Heartbeat - 1)

CollectInv == KindInv /\ StoreInv /\ ReadingInv

-----------------------------------------------------------------------------
(* Numbers.                                                                *)

LEMMA Constants ==
  /\ Carried \in Nat \ {0} /\ Indices \in Nat /\ Carried < Indices /\ Indices >= 2
  /\ Period \in Nat \ {0} /\ Jitter \in Nat /\ Threshold \in Nat
  /\ 2 * Jitter < Threshold /\ Threshold < Period
  /\ Heartbeat \in Nat /\ MaxUnsaved \in Nat /\ MaxClock \in Nat
  /\ Carried * Period \in Nat /\ Carried * Period <= MaxClock
  /\ None \notin [fields : Readings, time : Int]
  /\ None \notin [time : Int, interval : 0 .. (Indices - 1)]
<1>1. Database!CollectorAssumption
  BY PathAssumption
<1>2. /\ Carried \in Nat \ {0} /\ Indices \in Nat /\ Carried < Indices
      /\ Period \in Nat \ {0} /\ Jitter \in Nat /\ Threshold \in Nat
      /\ 2 * Jitter < Threshold /\ Threshold < Period
      /\ Heartbeat \in Nat /\ MaxUnsaved \in Nat /\ MaxClock \in Nat /\ Carried * Period <= MaxClock
      /\ None \notin [fields : Readings, time : Int]
      /\ None \notin [time : Int, interval : 0 .. (Indices - 1)]
  BY <1>1 DEF Database!CollectorAssumption
<1>3. Carried * Period \in Nat /\ Indices >= 2
  BY <1>2
<1> QED BY <1>2, <1>3

LEMMA Divided ==
  ASSUME NEW a \in Nat, NEW d \in Nat \ {0}
  PROVE  /\ a \div d \in Nat /\ a % d \in 0 .. (d - 1)
         /\ a = d * (a \div d) + (a % d)
  OBVIOUS

LEMMA ProductGrows ==
  ASSUME NEW d \in Nat, NEW p \in Nat, NEW q \in Nat, p < q
  PROVE  d * p \in Nat /\ d * q \in Nat /\ d * p + d <= d * q
<1> DEFINE g == q - p - 1
<1>1. g \in Nat /\ q = p + 1 + g
  OBVIOUS
<1> HIDE DEF g
<1>2. d * q = d * p + d + d * g /\ d * g \in Nat /\ d * p \in Nat /\ d * q \in Nat
  BY <1>1
<1> QED BY <1>2

LEMMA DivMonotone ==
  ASSUME NEW a \in Nat, NEW b \in Nat, a <= b, NEW d \in Nat \ {0}
  PROVE  a \div d <= b \div d
<1> DEFINE p == a \div d
           q == b \div d
           r == a % d
           s == b % d
<1>1. /\ p \in Nat /\ r \in 0 .. (d - 1) /\ a = d * p + r
      /\ q \in Nat /\ s \in 0 .. (d - 1) /\ b = d * q + s
  BY Divided
<1> HIDE DEF p, q, r, s
<1>2. CASE q < p
  <2>1. d * q \in Nat /\ d * p \in Nat /\ d * q + d <= d * p
    BY <1>1, <1>2, ProductGrows
  <2> QED BY <1>1, <2>1
<1>3. CASE p <= q
  BY <1>3 DEF p, q
<1> QED BY <1>1, <1>2, <1>3

LEMMA DivExact ==
  ASSUME NEW a \in Nat, NEW d \in Nat \ {0}
  PROVE  (a * d) \div d = a
<1> DEFINE x == a * d
           p == x \div d
           r == x % d
<1>0. x \in Nat /\ x = d * a
  OBVIOUS
<1> HIDE DEF x
<1>1. p \in Nat /\ r \in 0 .. (d - 1) /\ x = d * p + r
  BY <1>0, Divided, Zenon
<1> HIDE DEF p, r
<1>2. CASE p < a
  <2>1. d * p \in Nat /\ d * a \in Nat /\ d * p + d <= d * a
    BY <1>1, <1>2, ProductGrows
  <2> QED BY <1>0, <1>1, <2>1
<1>3. CASE a < p
  <2>1. d * p \in Nat /\ d * a \in Nat /\ d * a + d <= d * p
    BY <1>1, <1>3, ProductGrows
  <2> QED BY <1>0, <1>1, <2>1
<1>4. CASE p = a
  BY <1>4 DEF p, x
<1> QED BY <1>1, <1>2, <1>3, <1>4

(* Intervals with the same counter are a whole round of it apart.          *)
LEMMA SameIndex ==
  ASSUME NEW a \in Nat, NEW b \in Nat, NEW m \in Nat \ {0}, a % m = b % m, a < b
  PROVE  a + m <= b
<1> DEFINE p == a \div m
           q == b \div m
           r == a % m
<1>1. p \in Nat /\ q \in Nat /\ r \in 0 .. (m - 1) /\ a = m * p + r /\ b = m * q + r
  BY Divided, Zenon
<1> HIDE DEF p, q, r
<1>2. p < q
  <2>1. CASE q < p
    <3>1. m * q \in Nat /\ m * p \in Nat /\ m * q + m <= m * p
      BY <1>1, <2>1, ProductGrows
    <3> QED BY <1>1, <3>1
  <2>2. CASE p = q
    <3>1. a = b
      BY <1>1, <2>2
    <3> QED BY <3>1
  <2> QED BY <1>1, <2>1, <2>2
<1>3. m * p \in Nat /\ m * q \in Nat /\ m * p + m <= m * q
  BY <1>1, <1>2, ProductGrows
<1> QED BY <1>1, <1>3

(* The current interval: every message has its full window behind it.      *)
LEMMA CurrentIs ==
  ASSUME KindInv
  PROVE  /\ Database!Current \in Nat /\ Database!Current >= Carried
         /\ Database!Current \in Database!Intervals
         /\ \A i \in 0 .. (Carried - 1) : Database!Current - i \in Database!Intervals
<1>1. clock \in Nat /\ Carried * Period <= clock /\ clock <= MaxClock
  BY Constants DEF KindInv
<1>2. clock \div Period \in Nat /\ clock \div Period <= MaxClock \div Period
      /\ MaxClock \div Period \in Nat
  BY <1>1, Constants, DivMonotone, Divided
<1>3. (Carried * Period) \div Period <= clock \div Period
  BY <1>1, Constants, DivMonotone
<1>4. Carried <= clock \div Period
  BY <1>3, Constants, DivExact
<1> DEFINE c == clock \div Period
           m == MaxClock \div Period
<1> HIDE DEF c, m
<1>5. c \in Nat /\ m \in Nat /\ c <= m /\ Carried <= c
  BY <1>2, <1>4 DEF c, m
<1>6. \A i \in 0 .. (Carried - 1) : c - i \in 0 .. m
  BY <1>5, Constants
<1>7. c \in 0 .. m
  BY <1>5
<1> QED BY <1>5, <1>6, <1>7 DEF Database!Current, Database!Intervals, c, m

(* Which intervals of a message are new: the counter and the time tell the *)
(* newest stored interval from every other one.                            *)
LEMMA KnownIs ==
  ASSUME KindInv, meters # None, NEW l \in Nat, l <= Database!Current, EntryOf(l),
         NEW e \in -Jitter .. Jitter, NEW i \in 0 .. (Carried - 1)
  PROVE  Database!Known(Database!Current, i, Database!Current * Period + e)
           <=> Database!Current - i = l
<1> DEFINE c == Database!Current
           n == c - i
           f == meters.time - l * Period
<1>1. c \in Nat /\ n \in Nat
  BY CurrentIs, Constants
<1>2. f \in -Jitter .. Jitter /\ meters.interval = l % Indices /\ meters.time \in Int
  BY DEF EntryOf, KindInv
<1> HIDE DEF c
<1>3. Database!Index(c, i) = n % Indices
  BY DEF Database!Index
<1> DEFINE lp == l * Period
           np == n * Period
           d == meters.time - ((c * Period + e) - i * Period)
<1>4. lp \in Int /\ np \in Int /\ lp = Period * l /\ np = Period * n /\ c * Period - i * Period = np
      /\ c * Period \in Int /\ i * Period \in Int
  BY <1>1, Constants
<1>5. d = lp - np + (f - e) /\ f \in Int /\ d \in Int /\ e \in Int /\ lp \in Int /\ np \in Int
  BY <1>2, <1>4, Constants
<1>6. Database!Known(c, i, c * Period + e)
        <=> n % Indices = l % Indices /\ d \in (1 - Threshold) .. (Threshold - 1)
  <2> DEFINE st == c * Period + e
             index == n % Indices
             latest == l % Indices
  <2>1. d = meters.time - (st - i * Period)
    OBVIOUS
  <2>2. Database!Index(c, i) = index
    BY <1>3
  <2>3. meters.interval = latest
    BY <1>2
  <2> HIDE DEF st, d, index, latest
  <2>4. Database!Known(c, i, st) <=> index = latest /\ d \in (1 - Threshold) .. (Threshold - 1)
    BY <2>1, <2>2, <2>3 DEF Database!Known
  <2> QED BY <2>4 DEF st, index, latest
<1> HIDE DEF lp, np, d, f, n
<1>7. CASE n = l
  <2>1. lp = np
    BY <1>4, <1>7
  <2>2. d = f - e
    BY <2>1, <1>5
  <2>3. d \in (1 - Threshold) .. (Threshold - 1)
    BY <2>2, <1>2, <1>5, Constants
  <2> QED BY <1>6, <1>7, <2>3 DEF n, c
<1>8. CASE n # l
  <2>0. Indices \in Nat \ {0}
    BY Constants
  <2>1. SUFFICES ASSUME n % Indices = l % Indices PROVE ~(d \in (1 - Threshold) .. (Threshold - 1))
    BY <1>6, <1>8 DEF n, c
  <2>2. CASE l < n
    <3>1. l + Indices <= n
      BY <1>1, <2>0, <2>1, <2>2, SameIndex, Zenon
    <3>2. l + 1 < n /\ l + 1 \in Nat
      BY <1>1, <3>1, Constants
    <3>3. Period * l + Period <= Period * (l + 1) /\ Period * (l + 1) + Period <= Period * n
          /\ Period * (l + 1) \in Nat
      <4>1. Period * l + Period <= Period * (l + 1) /\ Period * l \in Nat
        BY ProductGrows, Constants
      <4>2. Period * (l + 1) + Period <= Period * n /\ Period * (l + 1) \in Nat
        BY <1>1, <3>2, ProductGrows, Constants
      <4> QED BY <4>1, <4>2
    <3>4. lp - np <= -(2 * Period)
      BY <3>3, <1>4, Constants
    <3> QED BY <3>4, <1>2, <1>4, <1>5, Constants
  <2>3. CASE n < l
    <3>1. n + Indices <= l
      BY <1>1, <2>0, <2>1, <2>3, SameIndex, Zenon
    <3>2. n + 1 < l /\ n + 1 \in Nat
      BY <1>1, <3>1, Constants
    <3>3. Period * n + Period <= Period * (n + 1) /\ Period * (n + 1) + Period <= Period * l
          /\ Period * (n + 1) \in Nat
      <4>1. Period * n + Period <= Period * (n + 1) /\ Period * n \in Nat
        BY <1>1, ProductGrows, Constants
      <4>2. Period * (n + 1) + Period <= Period * l /\ Period * (n + 1) \in Nat
        BY <1>1, <3>2, ProductGrows, Constants
      <4> QED BY <4>1, <4>2
    <3>4. lp - np >= 2 * Period
      BY <3>3, <1>4, Constants
    <3> QED BY <3>4, <1>2, <1>4, <1>5, Constants
  <2> QED BY <1>1, <1>8, <2>2, <2>3
<1> QED BY <1>7, <1>8

(* The batch of a message is the part of its window that is newer.         *)
LEMMA BatchIs ==
  ASSUME KindInv, NEW l \in -1 .. Database!Current, Newest(l), NEW e \in -Jitter .. Jitter
  PROVE  {Database!Current - i : i \in Database!Unknown(Database!Current, Database!Current * Period + e)}
           = {k \in {Database!Current - i : i \in 0 .. (Carried - 1)} : k > l}
<1> DEFINE c == Database!Current
           known(i) == Database!Known(c, i, c * Period + e)
<1>1. c \in Nat /\ c >= Carried
  BY CurrentIs
<1>2. \A i \in 0 .. (Carried - 1) : known(i) <=> meters # None /\ c - i = l
  <2>1. CASE meters = None
    BY <2>1 DEF Database!Known
  <2>2. CASE meters # None
    <3>1. l \in Nat /\ EntryOf(l) /\ l <= c
      BY <1>1, <2>2, Constants DEF Newest
    <3> QED BY <2>2, <3>1, KnownIs
  <2> QED BY <2>1, <2>2
<1> HIDE DEF known
<1>3. Database!Unknown(c, c * Period + e) = {i \in 0 .. (Carried - 1) : \A j \in 0 .. i : ~known(j)}
  BY DEF Database!Unknown, known
<1> HIDE DEF c
<1>4. \A i \in 0 .. (Carried - 1) : (\A j \in 0 .. i : ~known(j)) <=> c - i > l
  <2> TAKE i \in 0 .. (Carried - 1)
  <2>1. ASSUME c - i > l, NEW j \in 0 .. i PROVE ~known(j)
    BY <1>1, <1>2, <2>1, Constants
  <2>2. ASSUME ~(c - i > l) PROVE \E j \in 0 .. i : known(j)
    <3>1. meters # None
      BY <1>1, <2>2, Constants DEF Newest
    <3>2. c - l \in 0 .. i /\ c - l \in 0 .. (Carried - 1) /\ c - (c - l) = l
      BY <1>1, <2>2, Constants DEF c
    <3> QED BY <1>2, <3>1, <3>2
  <2> QED BY <2>1, <2>2
<1>5. {c - i : i \in {i \in 0 .. (Carried - 1) : \A j \in 0 .. i : ~known(j)}}
        = {k \in {c - i : i \in 0 .. (Carried - 1)} : k > l}
  BY <1>4
<1> QED BY <1>3, <1>5 DEF c

-----------------------------------------------------------------------------
(* Every step keeps the invariant.                                         *)

LEMMA CollectInit == Database!Init => CollectInv
<1> SUFFICES ASSUME Database!Init PROVE CollectInv
  OBVIOUS
<1> USE Constants DEF Database!Init
<1>1. KindInv
  BY DEF KindInv, Database!Points
<1>2. Database!Current \in Nat
  BY <1>1, CurrentIs
<1>3. Newest(-1)
  BY DEF Newest, Num
<1>4. StoreInv
  BY <1>2, <1>3 DEF StoreInv
<1>5. ReadingInv
  BY DEF ReadingInv
<1> QED BY <1>1, <1>4, <1>5 DEF CollectInv

LEMMA TickInv ==
  ASSUME CollectInv, Database!Tick
  PROVE  CollectInv'
<1> USE DEF CollectInv
<1>0. /\ pc = "read" /\ clock < MaxClock /\ clock' = clock + 1
      /\ UNCHANGED <<pc, meters, coalesced, batch, reading, written, lost, offered, stored, heard, unsaved>>
  BY DEF Database!Tick
<1>1. clock \in Nat /\ Carried * Period <= clock
  BY Constants DEF KindInv
<1>2. KindInv'
  <2>1. clock' \in (Carried * Period) .. MaxClock
    BY <1>0, <1>1, Constants DEF KindInv
  <2> QED BY <1>0, <2>1 DEF KindInv
<1>3. Database!Current <= Database!Current' /\ Database!Current \in Nat /\ Database!Current' \in Nat
  <2>1. clock' \in Nat /\ clock <= clock' /\ Period \in Nat \ {0}
    BY <1>0, <1>1, Constants
  <2>2. clock \div Period <= clock' \div Period
    BY <1>1, <2>1, DivMonotone, Zenon
  <2>3. clock \div Period \in Nat /\ clock' \div Period \in Nat
    BY <1>1, <2>1, Divided, Zenon
  <2> QED BY <2>2, <2>3 DEF Database!Current
<1>4. PICK l \in -1 .. Database!Current : Newest(l)
  BY DEF StoreInv
<1>5. l \in -1 .. Database!Current' /\ Newest(l)'
  BY <1>0, <1>3, <1>4 DEF Newest, Num, EntryOf
<1>6. StoreInv' /\ ReadingInv'
  BY <1>0, <1>5 DEF StoreInv, ReadingInv
<1> QED BY <1>2, <1>6

LEMMA ReceiveIDMInv ==
  ASSUME CollectInv, NEW e \in -Jitter .. Jitter, Database!ReceiveIDM(e)
  PROVE  CollectInv'
<1> DEFINE c == Database!Current
           start0 == c * Period + e
           message == {c - i : i \in 0 .. (Carried - 1)}
<1> USE DEF CollectInv
<1>0. /\ pc = "read" /\ pc' = "write" /\ Database!UpdateMeters(start0)
      /\ batch' = {c - i : i \in Database!Unknown(c, start0)}
      /\ offered' = offered \cup message
      /\ clock' = clock /\ coalesced' = coalesced /\ reading' = reading /\ written' = written
      /\ lost' = lost /\ stored' = stored /\ heard' = heard
  BY DEF Database!ReceiveIDM
<1>1. /\ c \in Nat /\ c >= Carried /\ message \subseteq Database!Intervals
      /\ Database!Intervals \subseteq Nat
  <2>1. c \in Nat /\ c >= Carried /\ message \subseteq Database!Intervals
    BY CurrentIs
  <2>2. Database!Intervals \subseteq Nat
    BY DEF Database!Intervals
  <2> QED BY <2>1, <2>2
<1>2. PICK l \in -1 .. c : Newest(l)
  BY DEF StoreInv
<1>3. batch' = {k \in message : k > l}
  BY <1>0, <1>2, BatchIs
<1>4. batch = {} /\ reading = None
  BY <1>0 DEF ReadingInv
<1>5. \/ meters' = [time |-> start0, interval |-> c % Indices] /\ unsaved' = unsaved
      \/ unsaved < MaxUnsaved /\ unsaved' = unsaved + 1 /\ meters' = meters
  <2>1. Database!Index(c, 0) = c % Indices
    BY <1>1 DEF Database!Index
  <2> QED BY <1>0, <2>1 DEF Database!UpdateMeters
<1>6. start0 \in Int /\ start0 - c * Period = e /\ c % Indices \in 0 .. (Indices - 1)
  <2>1. c * Period \in Nat
    BY <1>1, Constants
  <2>2. e \in Int /\ Indices \in Nat \ {0}
    BY Constants
  <2>3. c % Indices \in 0 .. (Indices - 1)
    BY <1>1, <2>2, Divided
  <2> DEFINE p == c * Period
  <2> HIDE DEF p
  <2>4. p + e \in Int /\ (p + e) - p = e
    BY <2>1, <2>2 DEF p
  <2> QED BY <2>3, <2>4 DEF p
<1>7. KindInv'
  <2>1. batch' \subseteq Database!Intervals /\ offered' \subseteq Database!Intervals
    BY <1>0, <1>1, <1>3, Zenon DEF KindInv
  <2>2. meters' \in [time : Int, interval : 0 .. (Indices - 1)] \cup {None}
    BY <1>5, <1>6 DEF KindInv
  <2>3. unsaved' \in 0 .. MaxUnsaved
    BY <1>5, Constants DEF KindInv
  <2> HIDE DEF message, start0, c
  <2> QED BY <1>0, <2>1, <2>2, <2>3 DEF KindInv, Database!Points, Database!Intervals
<1>8. \A k \in Database!Intervals : written[k] \in Nat /\ Num(k) = written[k]
  BY <1>4 DEF Num, KindInv
<1>9. \A k \in Database!Intervals : written[k] <= IF k > l THEN unsaved ELSE unsaved + 1
  BY <1>2, <1>8 DEF Newest
<1> HIDE DEF message, start0
<1>10. \A k \in Database!Intervals : Num(k)' = written[k] + (IF k \in message /\ k > l THEN 1 ELSE 0)
  BY <1>0, <1>3 DEF Num
<1>11. \A k \in message : k <= c
  BY <1>1 DEF message
<1>12. unsaved \in Nat
  BY Constants DEF KindInv
<1>13. \E m \in -1 .. Database!Current' : Newest(m)'
  <2>0. Database!Current' = c
    BY <1>0 DEF Database!Current
  <2>1. CASE meters' = [time |-> start0, interval |-> c % Indices] /\ unsaved' = unsaved
    <3>1. meters' # None
      <4>1. meters' \in [time : Int, interval : 0 .. (Indices - 1)]
        BY <1>6, <2>1
      <4> QED BY <4>1, Constants
    <3>0. PICK m \in Nat : m = c
      BY <1>1
    <3>2. EntryOf(m)'
      <4>1. meters'.interval = c % Indices /\ meters'.time = start0
        BY <2>1
      <4>2. meters'.time - c * Period = e
        BY <1>6, <4>1
      <4> HIDE DEF c
      <4> QED BY <3>0, <4>1, <4>2 DEF EntryOf
    <3>3. \A i \in 0 .. (Carried - 1) : c - i \in offered'
      BY <1>0 DEF message
    <3>4. \A k \in Database!Intervals : Num(k)' <= IF k > c THEN unsaved' ELSE unsaved' + 1
      <4> TAKE k \in Database!Intervals
      <4>1. k \in Nat /\ written[k] \in Nat /\ l \in Int
        BY <1>1, <1>8
      <4>2. Num(k)' = written[k] + (IF k \in message /\ k > l THEN 1 ELSE 0)
        BY <1>10
      <4>3. written[k] <= IF k > l THEN unsaved ELSE unsaved + 1
        BY <1>9
      <4>4. k \in message => ~(k > c)
        BY <1>1, <1>11, <4>1
      <4>5. k > c => k > l
        BY <1>1, <4>1
      <4> HIDE DEF c
      <4> QED BY <2>1, <1>12, <4>1, <4>2, <4>3, <4>4, <4>5
    <3>5. Newest(m)'
      <4>1. c >= Carried - 1
        BY <1>1, Constants
      <4>2. \A k \in Database!Intervals' : Num(k)' <= IF k > c THEN unsaved' ELSE unsaved' + 1
        BY <3>4 DEF Database!Intervals
      <4> HIDE DEF c
      <4> QED BY <3>0, <3>1, <3>2, <3>3, <4>1, <4>2 DEF Newest
    <3>6. m \in -1 .. c
      BY <3>0
    <3> QED BY <2>0, <3>5, <3>6
  <2>2. CASE unsaved' = unsaved + 1 /\ meters' = meters
    <3>1. \A k \in Database!Intervals : Num(k)' <= IF k > l THEN unsaved' ELSE unsaved' + 1
      <4> TAKE k \in Database!Intervals
      <4>1. k \in Nat /\ written[k] \in Nat
        BY <1>1, <1>8
      <4> QED BY <2>2, <1>9, <1>10, <1>12, <4>1
    <3>2. Newest(l)'
      <4>1. \A i \in 0 .. (Carried - 1) : l - i \in offered => l - i \in offered'
        BY <1>0
      <4>2. \A k \in Database!Intervals' : Num(k)' <= IF k > l THEN unsaved' ELSE unsaved' + 1
        BY <3>1 DEF Database!Intervals
      <4>3. EntryOf(l)' <=> EntryOf(l)
        BY <2>2 DEF EntryOf
      <4> QED BY <1>2, <2>2, <4>1, <4>2, <4>3 DEF Newest
    <3> QED BY <2>0, <3>2
  <2> QED BY <1>5, <2>1, <2>2
<1>14. \A k \in offered' : written'[k] > 0 \/ k \in lost' \/ k \in batch'
  <2>1. \A k \in offered : written[k] > 0 \/ k \in lost
    BY <1>4 DEF StoreInv
  <2>2. ASSUME NEW k \in message, ~(k > l) PROVE k \in offered
    <3>1. PICK i \in 0 .. (Carried - 1) : k = c - i
      BY DEF message
    <3> HIDE DEF c
    <3>2. i - (c - l) \in 0 .. (Carried - 1) /\ k = l - (i - (c - l)) /\ l >= 0
      BY <1>1, <2>2, <3>1, Constants
    <3>3. meters # None
      BY <1>2, <3>2 DEF Newest
    <3> QED BY <1>2, <3>2, <3>3 DEF Newest
  <2> QED BY <1>0, <1>3, <2>1, <2>2
<1>15. StoreInv'
  BY <1>13, <1>14 DEF StoreInv
<1>16. ReadingInv'
  BY <1>0, <1>4 DEF ReadingInv
<1> QED BY <1>7, <1>15, <1>16

LEMMA ReceiveR900Inv ==
  ASSUME CollectInv, NEW e \in -Jitter .. Jitter, NEW fields \in Readings,
         Database!ReceiveR900(fields, e)
  PROVE  CollectInv'
<1> DEFINE point == [fields |-> fields, time |-> clock + e]
<1> USE DEF CollectInv
<1>0. /\ pc = "read" /\ heard' = point
      /\ clock' = clock /\ meters' = meters /\ batch' = batch /\ written' = written
      /\ lost' = lost /\ offered' = offered /\ stored' = stored /\ unsaved' = unsaved
  BY DEF Database!ReceiveR900
<1>1. point \in [fields : Readings, time : Int] /\ point # None /\ point \in Database!Points
  <2>1. clock + e \in Int
    BY Constants DEF KindInv
  <2> QED BY <2>1, Constants DEF Database!Points
<1>2. batch = {} /\ reading = None
  BY <1>0 DEF ReadingInv
<1>3. StoreInv'
  <2>1. PICK l \in -1 .. Database!Current : Newest(l)
    BY DEF StoreInv
  <2>2. Newest(l)' /\ Database!Current' = Database!Current
    BY <1>0, <2>1 DEF Newest, EntryOf, Num, Database!Current
  <2> QED BY <1>0, <2>1, <2>2 DEF StoreInv
<1>4. CASE Database!Suppressed(fields, point.time)
  <2>1. coalesced' = coalesced /\ reading' = reading /\ pc' = pc
    BY <1>4 DEF Database!ReceiveR900
  <2>2. /\ Heartbeat > 0 /\ coalesced # None
        /\ point.time > coalesced.time /\ fields = coalesced.fields
        /\ point.time - coalesced.time < Heartbeat
    BY <1>4 DEF Database!Suppressed
  <2>3. stored = coalesced /\ coalesced.time \in Int /\ point.time \in Int /\ point.fields = fields
    BY <1>1, <1>2, <2>2 DEF ReadingInv, KindInv, Database!Points
  <2>4. KindInv'
    BY <1>0, <1>1, <2>1 DEF KindInv
  <2> HIDE DEF point
  <2>5. point.time - stored.time \in 1 .. (Heartbeat - 1)
    BY <2>2, <2>3, Constants
  <2>6. ReadingInv'
    BY <1>0, <1>2, <2>1, <2>2, <2>3, <2>5 DEF ReadingInv
  <2> QED BY <1>3, <2>4, <2>6
<1>5. CASE ~Database!Suppressed(fields, point.time)
  <2>1. coalesced' = (IF Heartbeat > 0 THEN point ELSE None) /\ reading' = point /\ pc' = "write"
    BY <1>5 DEF Database!ReceiveR900
  <2> HIDE DEF point
  <2>2. KindInv'
    BY <1>0, <1>1, <2>1 DEF KindInv, Database!Points
  <2>3. ReadingInv'
    BY <1>0, <1>1, <2>1, Constants DEF ReadingInv
  <2> QED BY <1>3, <2>2, <2>3
<1> QED BY <1>4, <1>5

LEMMA WriteBatchInv ==
  ASSUME CollectInv, Database!WriteBatch
  PROVE  CollectInv'
<1> USE DEF CollectInv
<1>0. /\ pc = "write" /\ pc' = "read" /\ batch' = {} /\ reading' = None
      /\ written' = [k \in Database!Intervals |-> IF k \in batch THEN written[k] + 1 ELSE written[k]]
      /\ stored' = IF reading = None THEN stored ELSE reading
      /\ clock' = clock /\ meters' = meters /\ coalesced' = coalesced /\ lost' = lost
      /\ offered' = offered /\ heard' = heard /\ unsaved' = unsaved
  BY DEF Database!WriteBatch
<1>1. \A k \in Database!Intervals : /\ written[k] \in Nat /\ written'[k] \in Nat
                                    /\ written'[k] = Num(k) /\ Num(k)' = Num(k)
                                    /\ (k \in batch \/ written[k] > 0) => written'[k] > 0
  BY <1>0 DEF KindInv, Num
<1>2. KindInv'
  <2>1. written' \in [Database!Intervals -> Nat]
    BY <1>0, <1>1
  <2> QED BY <1>0, <2>1 DEF KindInv, Database!Points
<1>3. StoreInv'
  <2>1. PICK l \in -1 .. Database!Current : Newest(l)
    BY DEF StoreInv
  <2>2. Newest(l)'
    <3>1. \A k \in Database!Intervals' : Num(k)' <= IF k > l THEN unsaved' ELSE unsaved' + 1
      BY <1>0, <1>1, <2>1 DEF Newest, Database!Intervals
    <3>2. EntryOf(l)' <=> EntryOf(l)
      BY <1>0 DEF EntryOf
    <3> QED BY <1>0, <2>1, <3>1, <3>2 DEF Newest
  <2>3. Database!Current' = Database!Current
    BY <1>0 DEF Database!Current
  <2>4. \A k \in offered' : written'[k] > 0 \/ k \in lost' \/ k \in batch'
    BY <1>0, <1>1 DEF StoreInv, KindInv
  <2> QED BY <2>1, <2>2, <2>3, <2>4 DEF StoreInv
<1>4. ReadingInv'
  <2>1. CASE reading = None
    BY <1>0, <2>1 DEF ReadingInv
  <2>2. CASE reading # None
    <3>1. heard = reading /\ stored' = reading /\ (Heartbeat > 0 => coalesced = reading)
          /\ (Heartbeat = 0 => coalesced = None) /\ (Heartbeat > 0 \/ Heartbeat = 0)
      BY <1>0, <2>2, Constants DEF ReadingInv
    <3> QED BY <1>0, <2>2, <3>1 DEF ReadingInv
  <2> QED BY <2>1, <2>2
<1> QED BY <1>2, <1>3, <1>4

LEMMA RestartInv ==
  ASSUME CollectInv, Database!Restart
  PROVE  CollectInv'
<1> USE DEF CollectInv
<1>0. /\ pc' = "read" /\ batch' = {} /\ reading' = None /\ coalesced' = None /\ heard' = None
      /\ lost' = lost \cup batch /\ clock' = clock /\ meters' = meters /\ written' = written
      /\ offered' = offered /\ stored' = stored /\ unsaved' = unsaved
  BY DEF Database!Restart
<1>1. KindInv'
  BY <1>0 DEF KindInv, Database!Points
<1>2. \A k \in Database!Intervals : Num(k) \in Nat /\ Num(k)' \in Nat /\ Num(k)' <= Num(k)
  BY <1>0 DEF Num, KindInv
<1>3. StoreInv'
  <2>1. PICK l \in -1 .. Database!Current : Newest(l)
    BY DEF StoreInv
  <2>2. Newest(l)'
    <3>1. \A k \in Database!Intervals' : Num(k)' <= IF k > l THEN unsaved' ELSE unsaved' + 1
      <4>1. unsaved \in Nat
        BY Constants DEF KindInv
      <4> QED BY <1>0, <1>2, <2>1, <4>1 DEF Newest, Database!Intervals
    <3>2. EntryOf(l)' <=> EntryOf(l)
      BY <1>0 DEF EntryOf
    <3> QED BY <1>0, <2>1, <3>1, <3>2 DEF Newest
  <2>3. Database!Current' = Database!Current
    BY <1>0 DEF Database!Current
  <2>4. \A k \in offered' : written'[k] > 0 \/ k \in lost' \/ k \in batch'
    BY <1>0 DEF StoreInv
  <2> QED BY <2>1, <2>2, <2>3, <2>4 DEF StoreInv
<1>4. ReadingInv'
  BY <1>0 DEF ReadingInv
<1> QED BY <1>1, <1>3, <1>4

-----------------------------------------------------------------------------
(* The path as a whole: the stages before rtlamr-collect do not touch it.  *)
THEOREM CollectInvariant == PathSpec => []CollectInv
<1>1. PathInit => CollectInv
  BY CollectInit DEF PathInit
<1>2. ASSUME CollectInv, [PathNext]_all PROVE CollectInv'
  <2>1. CASE DatabaseStep
    <3>1. Database!Next
      BY <2>1 DEF DatabaseStep
    <3> QED BY <1>2, <3>1, TickInv, ReceiveIDMInv, ReceiveR900Inv, WriteBatchInv, RestartInv
        DEF Database!Next
  <2>2. CASE UNCHANGED collectorVars
    <3>1. UNCHANGED <<clock, pc, meters, coalesced, batch, reading, written, lost, offered, stored,
                      heard, unsaved>>
      BY <2>2 DEF collectorVars
    <3>2. KindInv' /\ ReadingInv'
      BY <1>2, <3>1 DEF CollectInv, KindInv, ReadingInv
    <3>3. PICK l \in -1 .. Database!Current : Newest(l)
      BY <1>2 DEF CollectInv, StoreInv
    <3>4. Newest(l)' /\ Database!Current' = Database!Current
      BY <3>1, <3>3 DEF Newest, EntryOf, Num, Database!Current
    <3>5. StoreInv'
      BY <1>2, <3>1, <3>3, <3>4 DEF CollectInv, StoreInv
    <3> QED BY <3>2, <3>5 DEF CollectInv
  <2> QED BY <1>2, <2>1, <2>2 DEF PathNext, all, RingsStep, DispatchStep, CheckStep, OutputStep
<1> QED BY <1>1, <1>2, PTL DEF PathSpec

(* rtlamr-collect stores no interval of a meter twice unless an update of  *)
(* the meter map failed, skips none although the interval counter repeats, *)
(* and its last R900 point is the current reading, over restarts and       *)
(* failed writes (MeterMap.Update, IDM.AddPoints, ShouldEmit).             *)
THEOREM CollectedOnceThm == PathSpec => []CollectedOnce
<1>1. ASSUME CollectInv PROVE CollectedOnce
  <2> USE <1>1 DEF CollectInv
  <2>1. Database!TypeOK
    <3>1. clock \in 0 .. MaxClock
      BY Constants DEF KindInv
    <3> QED BY <3>1 DEF KindInv, Database!TypeOK
  <2>2. Database!NoDuplicates
    <3>1. PICK l \in -1 .. Database!Current : Newest(l)
      BY DEF StoreInv
    <3>2. ASSUME NEW k \in Database!Intervals PROVE written[k] <= 1 + unsaved
      <4>1. written[k] \in Nat /\ unsaved \in Nat /\ Num(k) <= IF k > l THEN unsaved ELSE unsaved + 1
        BY <3>1, Constants DEF KindInv, Newest
      <4> QED BY <4>1 DEF Num
    <3> QED BY <3>2 DEF Database!NoDuplicates
  <2>3. Database!NothingSkipped
    BY DEF Database!NothingSkipped, StoreInv, ReadingInv
  <2>4. Database!ReadingCurrent
    BY DEF Database!ReadingCurrent, ReadingInv
  <2> QED BY <2>1, <2>2, <2>3, <2>4 DEF CollectedOnce, Database!CollectedOnce
<1> QED BY <1>1, CollectInvariant, PTL
(* Induction over the naturals, for the set S of the numbers that have the *)
(* property in question.                                                   *)
LEMMA SetInduction ==
  ASSUME NEW S, 0 \in S, \A k \in Nat : k \in S => k + 1 \in S
  PROVE  Nat \subseteq S
<1> SUFFICES ASSUME Nat \ S # {} PROVE FALSE
  OBVIOUS
<1>1. PICK x \in Nat \ S : \A y \in Nat \ S : ~(<<y, x>> \in OpToRel(<, Nat))
  BY NatLessThanWellFounded, WFMin
<1>2. \A y \in Nat \ S : ~(y < x)
  BY <1>1 DEF OpToRel
<1>3. x # 0 /\ x - 1 \in Nat
  OBVIOUS
<1>4. x - 1 \in S
  BY <1>2, <1>3
<1>5. (x - 1) + 1 \in S
  BY <1>3, <1>4
<1> QED BY <1>3, <1>5
-----------------------------------------------------------------------------
(* The decoder's histories.  What every buffer of the decoder holds, and   *)
(* where the indices stand.                                                *)

\* Blocks decoded since block b of the magnitudes was written.
Age(b) == IF b <= block THEN block - b ELSE block - b + Rings!BlockCount

IndexInv ==
  /\ cfg \in Geometries /\ backend \in Backends
  /\ start \in 0 .. (Rings!BufferLength - 1) /\ block \in 0 .. (Rings!BlockCount - 1)
  /\ packedStart \in 0 .. (Rings!PackedLength - 1)
  /\ \E s \in 0 .. start : start = ByteBits * s
  /\ backend = "packed" => start = ByteBits * packedStart
  /\ next \in 0 .. DecodedBlocks /\ origin \in Nat /\ origin <= Rings!End

\* Every block of magnitudes is preceded by the end of the block before it.
SignalInv ==
  IF Rings!Short
  THEN /\ DOMAIN signal = 0 .. (Rings!BlockSize + Rings!SymbolLength - 1)
       /\ \A i \in 0 .. (Rings!BlockSize + Rings!SymbolLength - 1) :
            signal[i] = Rings!Fresh(Rings!End - Rings!BlockSize - Rings!SymbolLength + 1 + i)
  ELSE /\ DOMAIN signal = 0 .. (Rings!BlockCount * Rings!Stride - 1)
       /\ \A b \in 0 .. (Rings!BlockCount - 1), u \in 0 .. (Rings!Stride - 1) :
            signal[b * Rings!Stride + u] =
              Rings!Fresh(Rings!End - Age(b) * Rings!BlockSize - Rings!Stride + 1 + u)

QuantizedInv ==
  /\ DOMAIN quantized = 0 .. (Rings!BufferLength + (IF backend = "packed" THEN Rings!BlockSize ELSE 0) - 1)
  /\ \A i \in DOMAIN quantized : quantized[i] \in Nat
  /\ Rings!DecisionsExact

\* The packed ring is the ring of decisions, and is repeated behind its end.
PackedInv ==
  backend = "packed" =>
    /\ DOMAIN packed = 0 .. (Rings!PackedLength + Rings!Lookahead - 1)
    /\ \A j \in 0 .. (Rings!PackedLength - 1), b \in 0 .. (ByteBits - 1) :
         packed[j][b] = quantized[ByteBits * j + b]
    /\ \A j \in 0 .. (Rings!Lookahead - 1) : packed[Rings!PackedLength + j] = packed[j]

\* A published block was preceded by BlockCount others since the reset.
WarmInv ==
  rebuilt => /\ replayed \in Nat /\ origin + replayed * Rings!BlockSize = Rings!End
             /\ published => replayed >= Rings!BlockCount + 1

RingsInv == IndexInv /\ SignalInv /\ QuantizedInv /\ PackedInv /\ WarmInv
-----------------------------------------------------------------------------
(* Lengths.                                                                *)

LEMMA Multiple ==
  ASSUME NEW a \in Nat, NEW d \in Nat \ {0}, a % d = 0
  PROVE  \E k \in Nat : a = d * k /\ a \div d = k
<1>1. a \div d \in Nat /\ a = d * (a \div d) + (a % d)
  BY Divided
<1> DEFINE k == a \div d
<1> HIDE DEF k
<1>2. k \in Nat /\ a = d * k + 0
  BY <1>1 DEF k
<1>3. a = d * k
  BY <1>2
<1> QED BY <1>2, <1>3 DEF k

LEMMA MultipleDiv ==
  ASSUME NEW k \in Nat, NEW d \in Nat \ {0}
  PROVE  (d * k) \div d = k
<1>1. d * k = k * d
  OBVIOUS
<1> QED BY <1>1, DivExact

LEMMA ProductOrder ==
  ASSUME NEW d \in Nat, NEW p \in Nat, NEW q \in Nat, p <= q
  PROVE  d * p \in Nat /\ d * q \in Nat /\ d * p <= d * q
<1>1. CASE p < q
  BY <1>1, ProductGrows
<1>2. CASE p = q
  BY <1>2
<1> QED BY <1>1, <1>2

(* The lengths Allocate derives from the parsers' geometry.                *)
LEMMA Lengths ==
  ASSUME cfg \in Geometries, backend \in Backends
  PROVE  /\ Rings!SymbolLength \in Nat \ {0} /\ Rings!PreambleLength \in Nat
         /\ Rings!PacketLength \in Nat /\ Rings!BlockSize \in Nat \ {0}
         /\ Rings!SymbolLength <= Rings!PreambleLength
         /\ Rings!PreambleLength <= Rings!PacketLength
         /\ Rings!PreambleLength <= Rings!BlockSize
         /\ Rings!BufferLength = Rings!PacketLength + Rings!BlockSize
         /\ cfg.packet \in Nat \ {0} /\ Rings!PacketLength = cfg.packet * Rings!SymbolLength
         /\ Rings!SymbolLength % ByteBits = 0 /\ Rings!BlockSize % ByteBits = 0
         /\ cfg.preamble \in Nat /\ Rings!PreambleLength = cfg.preamble * Rings!SymbolLength
         /\ Rings!Overlap \in Nat
         /\ Rings!Overlap # 0 => /\ Rings!SymbolLength <= Rings!Overlap
                                 /\ Rings!Overlap <= Rings!PreambleLength
<1>0. /\ ByteBits \in Nat \ {0}
      /\ cfg.chip \in Nat \ {0} /\ cfg.packet \in Nat /\ cfg.preamble \in 1 .. cfg.packet
      /\ cfg.overlap = 0 \/ cfg.overlap \in (2 * cfg.chip) .. (cfg.preamble * (2 * cfg.chip))
      /\ Rings!NextPowerOf2(cfg.preamble * (2 * cfg.chip)) \in Nat
      /\ Rings!NextPowerOf2(cfg.preamble * (2 * cfg.chip)) >= cfg.preamble * (2 * cfg.chip)
      /\ (2 * cfg.chip) % ByteBits = 0
      /\ Rings!NextPowerOf2(cfg.preamble * (2 * cfg.chip)) % ByteBits = 0
  BY PathAssumption DEF Rings!HistoryAssumption
<1> DEFINE c == cfg.chip
           p == cfg.preamble
           q == cfg.packet
           o == cfg.overlap
           sl == 2 * c
           pr == p * sl
           bs == Rings!NextPowerOf2(pr)
<1>1. /\ Rings!SymbolLength = sl /\ Rings!PreambleLength = pr /\ Rings!PacketLength = q * sl
      /\ Rings!BlockSize = bs
  BY DEF Rings!SymbolLength, Rings!PreambleLength, Rings!PacketLength, Rings!BlockSize
<1>2. /\ c \in Nat \ {0} /\ q \in Nat /\ p \in 1 .. q /\ (o = 0 \/ o \in sl .. pr)
      /\ bs \in Nat /\ bs >= pr /\ sl % ByteBits = 0 /\ bs % ByteBits = 0
  BY <1>0
<1>3. Rings!Overlap = IF backend = "float" \/ o >= Rings!SymbolLength THEN o ELSE Rings!SymbolLength
  BY DEF Rings!Overlap
<1> HIDE DEF c, p, q, o, bs
<1>4. sl \in Nat \ {0}
  BY <1>2
<1> HIDE DEF sl
<1>5. sl * 1 <= sl * p /\ sl * p <= sl * q /\ sl * p \in Nat /\ sl * q \in Nat
  BY <1>2, <1>4, ProductOrder
<1>6. pr = sl * p /\ q * sl = sl * q /\ sl * 1 = sl
  BY <1>2, <1>4
<1> HIDE DEF pr
<1>7. pr \in Nat /\ sl <= pr /\ pr <= q * sl /\ q * sl \in Nat
  BY <1>4, <1>5, <1>6
<1>8. /\ Rings!Overlap \in Nat
      /\ Rings!Overlap # 0 => sl <= Rings!Overlap /\ Rings!Overlap <= pr
  BY <1>1, <1>2, <1>3, <1>4, <1>7
<1>9. bs \in Nat \ {0}
  BY <1>2, <1>4, <1>7
<1>10. q \in Nat \ {0} /\ p \in Nat
  BY <1>2
<1>11. Rings!PreambleLength = p * Rings!SymbolLength /\ Rings!PacketLength = q * Rings!SymbolLength
  BY DEF Rings!PreambleLength, Rings!PacketLength, p, q
<1> QED BY <1>1, <1>2, <1>4, <1>7, <1>8, <1>9, <1>10, <1>11 DEF p, q, Rings!BufferLength

(* The blocks of magnitudes cover the buffer, with a gap less than one.    *)
LEMMA Blocks ==
  ASSUME cfg \in Geometries, backend \in Backends
  PROVE  /\ Rings!BlockCount \in Nat /\ Rings!BlockCount >= 2
         /\ Rings!Gap \in 0 .. (Rings!BlockSize - 1)
         /\ Rings!BlockCount * Rings!BlockSize = Rings!BufferLength + Rings!Gap
         /\ Rings!Stride \in Nat \ {0} /\ Rings!Stride = Rings!BlockSize + Rings!Overlap
<1> DEFINE bs == Rings!BlockSize
           bl == Rings!BufferLength
           n  == bl + bs - 1
           bc == n \div bs
           r  == n % bs
<1>1. bs \in Nat \ {0} /\ bl \in Nat /\ bl > bs
  BY Lengths
<1>2. Rings!BlockCount = bc /\ Rings!Gap = bc * bs - bl
  BY DEF Rings!BlockCount, Rings!Gap
<1> HIDE DEF bs, bl
<1>3. n \in Nat
  BY <1>1
<1>3a. n = bl + bs - 1
  OBVIOUS
<1> HIDE DEF n
<1>4. bc \in Nat /\ r \in 0 .. (bs - 1) /\ n = bs * bc + r
  BY <1>1, <1>3, Divided
<1> HIDE DEF bc, r
<1>5. bc * bs = bs * bc /\ bs * bc \in Nat /\ bs * 1 = bs /\ bs * 0 = 0
  BY <1>1, <1>4
<1>6. bc * bs - bl \in 0 .. (bs - 1) /\ bc * bs > bs
  BY <1>1, <1>3a, <1>4, <1>5
<1>7. bc >= 2
  <2>1. bc # 0 /\ bc # 1
    BY <1>1, <1>5, <1>6
  <2> QED BY <1>4, <2>1
<1>8. bc * bs \in Nat /\ bc * bs = bl + (bc * bs - bl)
  BY <1>1, <1>4, <1>5
<1>9. Rings!Stride = bs + Rings!Overlap /\ Rings!Overlap \in Nat
  BY Lengths DEF Rings!Stride, bs
<1> QED BY <1>1, <1>2, <1>4, <1>6, <1>7, <1>8, <1>9 DEF bs, bl

(* Blocks, packets and preambles are whole bytes.                          *)
LEMMA WholeBytes ==
  ASSUME cfg \in Geometries, backend \in Backends
  PROVE  /\ ByteBits \in Nat \ {0}
         /\ Rings!PackedLength \in Nat \ {0} /\ Rings!BufferLength = ByteBits * Rings!PackedLength
         /\ Rings!BlockBytes \in Nat \ {0} /\ Rings!BlockSize = ByteBits * Rings!BlockBytes
         /\ Rings!Lookahead \in Nat /\ Rings!Lookahead <= Rings!PackedLength
         /\ Rings!BlockSize + Rings!PreambleLength = ByteBits * Rings!Lookahead
         /\ Rings!PacketLength \div ByteBits \in Nat
         /\ Rings!PackedLength = Rings!PacketLength \div ByteBits + Rings!BlockBytes
<1> DEFINE sl == Rings!SymbolLength
           pr == Rings!PreambleLength
           pl == Rings!PacketLength
           bs == Rings!BlockSize
           bl == Rings!BufferLength
           p == cfg.preamble
           q == cfg.packet
           d == ByteBits
<1>1. /\ sl \in Nat \ {0} /\ pr \in Nat /\ pl \in Nat /\ bs \in Nat \ {0} /\ pr <= pl
      /\ bl = pl + bs /\ q \in Nat /\ pl = q * sl /\ p \in Nat /\ pr = p * sl
      /\ sl % d = 0 /\ bs % d = 0
  BY Lengths
<1>2. d \in Nat \ {0}
  BY PathAssumption DEF Rings!HistoryAssumption
<1>3. /\ Rings!PackedLength = bl \div d /\ Rings!BlockBytes = bs \div d
      /\ Rings!Lookahead = (bs + pr) \div d
  BY DEF Rings!PackedLength, Rings!BlockBytes, Rings!Lookahead
<1> HIDE DEF sl, pr, pl, bs, bl, p, q, d
<1>4. PICK m \in Nat : sl = d * m
  BY <1>1, <1>2, Multiple
<1>5. PICK b \in Nat : bs = d * b
  BY <1>1, <1>2, Multiple
<1>6. q * m \in Nat /\ p * m \in Nat /\ pl = d * (q * m) /\ pr = d * (p * m)
  BY <1>1, <1>2, <1>4
<1>7. PICK x \in Nat : pl = d * x
  BY <1>6
<1>8. PICK y \in Nat : pr = d * y
  BY <1>6
<1>9. bl = d * (x + b) /\ bs + pr = d * (b + y)
  BY <1>1, <1>2, <1>5, <1>7, <1>8
<1>10. bl \div d = x + b /\ bs \div d = b /\ (bs + pr) \div d = b + y /\ pl \div d = x
  BY <1>2, <1>5, <1>7, <1>8, <1>9, MultipleDiv
<1>11. b # 0
  BY <1>1, <1>2, <1>5
<1>12. y <= x
  <2> SUFFICES ASSUME x < y PROVE FALSE
    BY <1>7, <1>8
  <2>1. d * x + d <= d * y /\ d * x \in Nat /\ d * y \in Nat
    BY <1>2, ProductGrows
  <2> QED BY <1>1, <1>2, <1>7, <1>8, <2>1
<1>13. x + b \in Nat \ {0} /\ b + y \in Nat /\ b + y <= x + b
  BY <1>11, <1>12
<1> QED BY <1>1, <1>2, <1>3, <1>5, <1>9, <1>10, <1>11, <1>13 DEF d, bl, bs, pr, pl
-----------------------------------------------------------------------------
(* A block is decoded.                                                     *)

(* The lengths are those of the geometry and the backend.                  *)
LEMMA SameLengths ==
  ASSUME cfg' = cfg, backend' = backend
  PROVE  /\ Rings!SymbolLength' = Rings!SymbolLength /\ Rings!BlockSize' = Rings!BlockSize
         /\ Rings!PreambleLength' = Rings!PreambleLength /\ Rings!PacketLength' = Rings!PacketLength
         /\ Rings!BufferLength' = Rings!BufferLength /\ Rings!Overlap' = Rings!Overlap
         /\ Rings!Short' = Rings!Short /\ Rings!Stride' = Rings!Stride
         /\ Rings!BlockCount' = Rings!BlockCount /\ Rings!PackedLength' = Rings!PackedLength
         /\ Rings!Lookahead' = Rings!Lookahead /\ Rings!BlockBytes' = Rings!BlockBytes
<1>1. Rings!SymbolLength' = Rings!SymbolLength
  BY DEF Rings!SymbolLength
<1>2. Rings!PreambleLength' = Rings!PreambleLength /\ Rings!PacketLength' = Rings!PacketLength
      /\ Rings!Overlap' = Rings!Overlap
  BY <1>1 DEF Rings!PreambleLength, Rings!PacketLength, Rings!Overlap
<1>3. Rings!BlockSize' = Rings!BlockSize /\ Rings!Short' = Rings!Short
  BY <1>2, Zenon DEF Rings!BlockSize, Rings!Short, Rings!NextPowerOf2
<1>4. Rings!BufferLength' = Rings!BufferLength /\ Rings!Stride' = Rings!Stride
  BY <1>2, <1>3, Zenon DEF Rings!BufferLength, Rings!Stride
<1>5. /\ Rings!BlockCount' = Rings!BlockCount /\ Rings!PackedLength' = Rings!PackedLength
      /\ Rings!Lookahead' = Rings!Lookahead /\ Rings!BlockBytes' = Rings!BlockBytes
  BY <1>2, <1>3, <1>4, Zenon
  DEF Rings!BlockCount, Rings!PackedLength, Rings!Lookahead, Rings!BlockBytes
<1> QED BY <1>1, <1>2, <1>3, <1>4, <1>5

(* Positions in the blocks of magnitudes do not overlap.                   *)
LEMMA OneBlock ==
  ASSUME NEW w \in Nat \ {0}, NEW n \in Nat, NEW b \in 0 .. (n - 1), NEW c \in 0 .. (n - 1),
         NEW u \in 0 .. (w - 1)
  PROVE  /\ b * w + u \in 0 .. (n * w - 1) /\ c * w \in Nat /\ b * w \in Nat
         /\ b # c => b * w + u < c * w \/ b * w + u >= c * w + w
<1>1. b * w = w * b /\ c * w = w * c /\ n * w = w * n /\ w * b \in Nat /\ w * c \in Nat
  OBVIOUS
<1>2. w * b + w <= w * n /\ w * n \in Nat
  BY ProductGrows
<1>3. CASE b < c
  <2>1. w * b + w <= w * c
    BY <1>3, ProductGrows
  <2> QED BY <1>1, <1>2, <2>1
<1>4. CASE c < b
  <2>1. w * c + w <= w * b
    BY <1>4, ProductGrows
  <2> QED BY <1>1, <1>2, <2>1
<1>5. CASE b = c
  BY <1>1, <1>2, <1>5
<1> QED BY <1>3, <1>4, <1>5

LEMMA EndIs ==
  ASSUME IndexInv
  PROVE  Rings!End \in Nat /\ origin \in Nat /\ origin <= Rings!End /\ next \in Nat
<1>1. Rings!BlockSize \in Nat /\ next \in Nat
  BY Lengths, PathAssumption DEF IndexInv, Rings!HistoryAssumption
<1>2. Rings!End \in Nat
  BY <1>1 DEF Rings!End
<1> QED BY <1>1, <1>2 DEF IndexInv

LEMMA Received ==
  ASSUME NEW p \in Int
  PROVE  /\ p > origin => Rings!Fresh(p) = p
         /\ ~(p > origin) => Rings!Fresh(p) = 0
  BY DEF Rings!Fresh, Rings!Cold

(* What the magnitudes are after appendSignal.                             *)
LEMMA AppendBlocks ==
  ASSUME IndexInv, SignalInv, ~Rings!Short, NEW b \in 0 .. (Rings!BlockCount - 1),
         NEW u \in 0 .. (Rings!Stride - 1)
  PROVE  Rings!AppendSignal[b * Rings!Stride + u] =
           IF b = Rings!NextBlock THEN Rings!Fresh(Rings!End - Rings!Overlap + 1 + u)
           ELSE Rings!Fresh(Rings!End - Age(b) * Rings!BlockSize - Rings!Stride + 1 + u)
<1> DEFINE st == Rings!Stride
           o == Rings!Overlap
           bs == Rings!BlockSize
           n == Rings!BlockCount
           e == Rings!End
           i == b * st + u
           cur == Rings!NextBlock * st
<1>1. /\ st \in Nat \ {0} /\ o \in Nat /\ bs \in Nat \ {0} /\ n \in Nat /\ st = bs + o
      /\ e \in Nat /\ origin \in Nat /\ origin <= e /\ block \in 0 .. (n - 1) /\ next \in Nat
  BY Lengths, Blocks, EndIs DEF IndexInv
<1>2. Rings!NextBlock \in 0 .. (n - 1)
  BY <1>1 DEF Rings!NextBlock
<1>3. /\ DOMAIN signal = 0 .. (n * st - 1)
      /\ \A b1 \in 0 .. (n - 1), u1 \in 0 .. (st - 1) :
           signal[b1 * st + u1] = Rings!Fresh(e - Age(b1) * bs - st + 1 + u1)
  BY DEF SignalInv
<1>4. i \in DOMAIN signal /\ cur \in Nat
      /\ (b # Rings!NextBlock => i < cur \/ i >= cur + st) /\ b * st \in Nat
  BY <1>1, <1>2, <1>3, OneBlock
<1>5. /\ i \in cur .. (cur + o - 1) => Rings!AppendSignal[i] = signal[block * st + bs + i - cur]
      /\ i \notin cur .. (cur + o - 1) /\ i \in (cur + o) .. (cur + st - 1) =>
           Rings!AppendSignal[i] = Rings!Input[i - cur - o]
      /\ i \notin cur .. (cur + o - 1) /\ i \notin (cur + o) .. (cur + st - 1) =>
           Rings!AppendSignal[i] = signal[i]
  BY <1>1, <1>4 DEF Rings!AppendSignal
<1>5a. u \in 0 .. (st - 1) /\ b \in 0 .. (n - 1)
  OBVIOUS
<1> HIDE DEF st, o, bs, n, e
<1>6. CASE b = Rings!NextBlock /\ u < o
  <2>1. i = cur + u /\ i \in cur .. (cur + o - 1) /\ i - cur = u
    BY <1>1, <1>4, <1>5a, <1>6
  <2>2. block * st \in Nat /\ block * st + bs + i - cur = block * st + (bs + u) /\ bs + u \in 0 .. (st - 1)
    BY <1>1, <1>5a, <1>6, <2>1
  <2>3. Rings!AppendSignal[i] = signal[block * st + (bs + u)]
    BY <1>5, <2>1, <2>2
  <2>4. signal[block * st + (bs + u)] = Rings!Fresh(e - Age(block) * bs - st + 1 + (bs + u))
    BY <1>1, <1>3, <2>2
  <2>5. Age(block) = 0
    BY <1>1 DEF Age
  <2>6. e - Age(block) * bs - st + 1 + (bs + u) = e - o + 1 + u
    BY <1>1, <1>5a, <2>5
  <2> QED BY <1>6, <2>3, <2>4, <2>6, Zenon DEF e, o, i, st
<1>7. CASE b = Rings!NextBlock /\ u >= o
  <2>1. i = cur + u /\ i \in (cur + o) .. (cur + st - 1) /\ i - cur - o = u - o /\ ~(i \in cur .. (cur + o - 1))
    BY <1>1, <1>4, <1>5a, <1>7
  <2>2. Rings!AppendSignal[i] = Rings!Input[u - o]
    BY <1>5, <2>1
  <2>3. u - o \in 0 .. (bs - 1)
    BY <1>1, <1>5a, <1>7
  <2>4. Rings!Input[u - o] = e + (u - o) + 1
    BY <2>3 DEF Rings!Input, e, bs, Rings!End
  <2>5. Rings!Fresh(e - o + 1 + u) = e + (u - o) + 1
    <3>1. e - o + 1 + u \in Int /\ e - o + 1 + u > origin /\ e - o + 1 + u = e + (u - o) + 1
      BY <1>1, <1>5a, <2>3
    <3> QED BY <3>1, Received
  <2> QED BY <1>7, <2>2, <2>4, <2>5, Zenon DEF e, o, i, st
<1>8. CASE b # Rings!NextBlock
  <2>1. Rings!AppendSignal[i] = signal[i]
    BY <1>1, <1>4, <1>5, <1>5a, <1>8
  <2>2. signal[i] = Rings!Fresh(e - Age(b) * bs - st + 1 + u)
    BY <1>3, <1>5a
  <2>3. Rings!AppendSignal[b * Rings!Stride + u] =
          Rings!Fresh(Rings!End - Age(b) * Rings!BlockSize - Rings!Stride + 1 + u)
    BY <2>1, <2>2, Zenon DEF e, st, bs, i
  <2> QED BY <1>8, <2>3, Zenon
<1>9. u < o \/ u >= o
  BY <1>1, <1>5a
<1> QED BY <1>6, <1>7, <1>8, <1>9, Zenon

LEMMA AppendShort ==
  ASSUME IndexInv, SignalInv, Rings!Short,
         NEW i \in 0 .. (Rings!BlockSize + Rings!SymbolLength - 1)
  PROVE  Rings!AppendSignal[i] = Rings!Fresh(Rings!End - Rings!SymbolLength + 1 + i)
<1> DEFINE sl == Rings!SymbolLength
           bs == Rings!BlockSize
           e == Rings!End
<1>1. /\ sl \in Nat \ {0} /\ bs \in Nat \ {0} /\ sl <= bs
      /\ e \in Nat /\ origin \in Nat /\ origin <= e /\ next \in Nat
  BY Lengths, EndIs DEF IndexInv
<1>2. /\ DOMAIN signal = 0 .. (bs + sl - 1)
      /\ \A j \in 0 .. (bs + sl - 1) : signal[j] = Rings!Fresh(e - bs - sl + 1 + j)
  BY DEF SignalInv
<1>3. /\ i < sl => Rings!AppendSignal[i] = signal[i + bs]
      /\ ~(i < sl) /\ i >= sl => Rings!AppendSignal[i] = Rings!Input[i - sl]
  BY <1>1, <1>2 DEF Rings!AppendSignal
<1> HIDE DEF sl, bs, e
<1>4. i \in 0 .. (bs + sl - 1)
  BY DEF bs, sl
<1>5. CASE i < sl
  <2>1. i + bs \in 0 .. (bs + sl - 1) /\ e - bs - sl + 1 + (i + bs) = e - sl + 1 + i
    BY <1>1, <1>4, <1>5
  <2>2. Rings!AppendSignal[i] = signal[i + bs]
    BY <1>3, <1>5
  <2>3. signal[i + bs] = Rings!Fresh(e - bs - sl + 1 + (i + bs))
    BY <1>2, <2>1, Zenon
  <2> QED BY <2>1, <2>2, <2>3, Zenon DEF e, sl
<1>6. CASE i >= sl
  <2>1. i - sl \in 0 .. (bs - 1) /\ ~(i < sl)
    BY <1>1, <1>4, <1>6
  <2>2. Rings!Input[i - sl] = e + (i - sl) + 1
    BY <2>1 DEF Rings!Input, e, bs, Rings!End
  <2>3. Rings!Fresh(e - sl + 1 + i) = e + (i - sl) + 1
    <3>1. e - sl + 1 + i \in Int /\ e - sl + 1 + i > origin /\ e - sl + 1 + i = e + (i - sl) + 1
      BY <1>1, <1>4, <2>1
    <3> QED BY <3>1, Received
  <2> QED BY <1>3, <1>6, <2>1, <2>2, <2>3 DEF e, sl
<1> QED BY <1>1, <1>4, <1>5, <1>6

(* The matched filter over the appended magnitudes: a decision for every   *)
(* sample of the block, cold if a sample it needs is from before a reset.  *)
LEMMA FilterIs ==
  ASSUME IndexInv, SignalInv, NEW i \in 0 .. (Rings!BlockSize - 1)
  PROVE  Rings!Filter(Rings!AppendSignal)[i] = Rings!Fresh(Rings!End - Rings!SymbolLength + 1 + i)
<1> DEFINE sl == Rings!SymbolLength
           bs == Rings!BlockSize
           o == Rings!Overlap
           st == Rings!Stride
           e == Rings!End
           first == IF Rings!Short THEN 0 ELSE Rings!NextBlock * st + o - sl
           at(k) == Rings!AppendSignal[first + k]
<1>1. /\ sl \in Nat \ {0} /\ bs \in Nat \ {0} /\ sl <= bs /\ o \in Nat /\ st = bs + o
      /\ ~Rings!Short => sl <= o
      /\ e \in Nat /\ origin \in Nat /\ origin <= e
  BY Lengths, Blocks, EndIs DEF IndexInv, Rings!Short
<1>2. ASSUME NEW k \in 0 .. (bs + sl - 2) PROVE at(k) = Rings!Fresh(e - sl + 1 + k)
  <2>1. CASE Rings!Short
    <3>1. k \in 0 .. (bs + sl - 1) /\ first + k = k
      BY <1>1, <1>2, <2>1
    <3> QED BY <2>1, <3>1, AppendShort
  <2>2. CASE ~Rings!Short
    <3>1. Rings!NextBlock \in 0 .. (Rings!BlockCount - 1) /\ Rings!NextBlock \in Nat /\ st \in Nat
      BY Blocks DEF IndexInv, Rings!NextBlock
    <3> DEFINE c == Rings!NextBlock * st
               u == o - sl + k
    <3>2. c \in Nat
      BY <3>1
    <3>3. first = c + o - sl
      BY <2>2
    <3> HIDE DEF c, first
    <3>4. u \in 0 .. (st - 1) /\ first + k = c + u /\ e - o + 1 + u = e - sl + 1 + k
      BY <1>1, <1>2, <2>2, <3>2, <3>3
    <3>5. Rings!AppendSignal[c + u] = Rings!Fresh(e - o + 1 + u)
      BY <2>2, <3>1, <3>4, AppendBlocks DEF c
    <3> QED BY <3>4, <3>5
  <2> QED BY <2>1, <2>2
<1>3. Rings!Filter(Rings!AppendSignal)[i] =
        IF at(i) > 0 /\ \A k \in 1 .. (sl - 1) : at(i + k) = at(i) + k THEN at(i) ELSE 0
  BY DEF Rings!Filter, Rings!Cold
<1> HIDE DEF sl, bs, o, st, e, first
<1>4. i \in 0 .. (bs - 1)
  BY DEF bs
<1> DEFINE p == e - sl + 1 + i
<1>5. at(i) = Rings!Fresh(p)
  BY <1>1, <1>2, <1>4
<1>6. \A k \in 1 .. (sl - 1) : at(i + k) = Rings!Fresh(p + k)
  <2> TAKE k \in 1 .. (sl - 1)
  <2>1. i + k \in 0 .. (bs + sl - 2) /\ e - sl + 1 + (i + k) = p + k
    BY <1>1, <1>4
  <2> QED BY <1>2, <2>1
<1>7. p \in Int
  BY <1>1, <1>4
<1> HIDE DEF p, at
<1>8. CASE p > origin
  <2>1. at(i) = p /\ p > 0 /\ \A k \in 1 .. (sl - 1) : at(i + k) = p + k
    BY <1>1, <1>5, <1>6, <1>7, <1>8 DEF Rings!Fresh
  <2>2. Rings!Filter(Rings!AppendSignal)[i] = p
    BY <1>3, <2>1
  <2>3. Rings!Fresh(p) = p
    BY <1>8 DEF Rings!Fresh
  <2> QED BY <2>2, <2>3 DEF p, e, sl
<1>9. CASE ~(p > origin)
  <2>1. at(i) = 0 /\ ~(at(i) > 0) /\ Rings!Fresh(p) = 0
    BY <1>5, <1>9 DEF Rings!Fresh, Rings!Cold
  <2>2. Rings!Filter(Rings!AppendSignal)[i] = 0
    BY <1>3, <2>1
  <2> QED BY <2>1, <2>2 DEF p, e, sl
<1> QED BY <1>8, <1>9

LEMMA DecodeFrame ==
  ASSUME IndexInv, Rings!Decode
  PROVE  /\ cfg' = cfg /\ backend' = backend /\ origin' = origin /\ rebuilt' = rebuilt
         /\ signal' = Rings!AppendSignal /\ start' = Rings!NextStart
         /\ block' = IF Rings!Short THEN block ELSE Rings!NextBlock
         /\ next' = next + 1 /\ next' \in 0 .. DecodedBlocks
         /\ Rings!End' = Rings!End + Rings!BlockSize
         /\ published' = Rings!Publishes /\ replayed' = IF rebuilt THEN replayed + 1 ELSE 0
<1>1. /\ cfg' = cfg /\ backend' = backend /\ origin' = origin /\ rebuilt' = rebuilt
      /\ signal' = Rings!AppendSignal /\ start' = Rings!NextStart
      /\ block' = IF Rings!Short THEN block ELSE Rings!NextBlock
      /\ next < DecodedBlocks /\ next' = next + 1
      /\ published' = Rings!Publishes /\ replayed' = IF rebuilt THEN replayed + 1 ELSE 0
  BY DEF Rings!Decode
<1>2. Rings!BlockSize' = Rings!BlockSize /\ Rings!BlockSize \in Nat /\ next \in Nat
  BY <1>1, SameLengths, Lengths, EndIs DEF IndexInv
<1>3. Rings!End' = Rings!End + Rings!BlockSize
  <2>1. (next + 1) * Rings!BlockSize = next * Rings!BlockSize + Rings!BlockSize
    BY <1>2
  <2> QED BY <1>1, <1>2, <2>1 DEF Rings!End
<1>4. next' \in 0 .. DecodedBlocks
  BY <1>1, <1>2, PathAssumption DEF Rings!HistoryAssumption
<1> QED BY <1>1, <1>3, <1>4

(* The block just written is the youngest, every other a block older.      *)
LEMMA Older ==
  ASSUME IndexInv, ~Rings!Short, block' = Rings!NextBlock, Rings!BlockCount' = Rings!BlockCount,
         NEW b \in 0 .. (Rings!BlockCount - 1)
  PROVE  /\ Age(b) \in Nat
         /\ Age(b)' = IF b = Rings!NextBlock THEN 0 ELSE Age(b) + 1
<1> DEFINE n == Rings!BlockCount
<1>1. n \in Nat /\ block \in 0 .. (n - 1) /\ b \in 0 .. (n - 1)
  BY Blocks DEF IndexInv
<1>2. Age(b) = IF b <= block THEN block - b ELSE block - b + n
  BY DEF Age
<1>3. Age(b)' = IF b <= Rings!NextBlock THEN Rings!NextBlock - b ELSE Rings!NextBlock - b + n
  BY DEF Age
<1>4. Rings!NextBlock = IF block + 1 = n THEN 0 ELSE block + 1
  BY DEF Rings!NextBlock
<1> HIDE DEF n
<1> QED BY <1>1, <1>2, <1>3, <1>4

LEMMA SignalStep ==
  ASSUME IndexInv, SignalInv, Rings!Decode
  PROVE  SignalInv'
<1> DEFINE sl == Rings!SymbolLength
           bs == Rings!BlockSize
           o == Rings!Overlap
           st == Rings!Stride
           n == Rings!BlockCount
           e == Rings!End
<1>1. /\ sl \in Nat \ {0} /\ bs \in Nat \ {0} /\ o \in Nat /\ st = bs + o /\ n \in Nat
      /\ e \in Nat /\ origin \in Nat /\ origin <= e
  BY Lengths, Blocks, EndIs DEF IndexInv
<1>2. /\ Rings!SymbolLength' = sl /\ Rings!BlockSize' = bs /\ Rings!Stride' = st
      /\ Rings!BlockCount' = n /\ Rings!Short' = Rings!Short
  BY DecodeFrame, SameLengths
<1>3. signal' = Rings!AppendSignal /\ Rings!End' = e + bs /\ origin' = origin
  BY DecodeFrame
<1>4. DOMAIN Rings!AppendSignal = DOMAIN signal
  BY DEF Rings!AppendSignal
<1>5. CASE Rings!Short
  <2>1. \A i \in 0 .. (bs + sl - 1) : Rings!AppendSignal[i] = Rings!Fresh(e - sl + 1 + i)
    BY <1>5, AppendShort
  <2>2. DOMAIN signal = 0 .. (bs + sl - 1)
    BY <1>5 DEF SignalInv
  <2> HIDE DEF sl, bs, e
  <2>3. \A i \in 0 .. (bs + sl - 1) : (e + bs) - bs - sl + 1 + i = e - sl + 1 + i
    BY <1>1
  <2>4. \A i \in 0 .. (bs + sl - 1) :
          signal'[i] = IF (e + bs) - bs - sl + 1 + i > origin THEN (e + bs) - bs - sl + 1 + i ELSE 0
    <3> TAKE i \in 0 .. (bs + sl - 1)
    <3>1. signal'[i] = Rings!Fresh((e + bs) - bs - sl + 1 + i)
      BY <1>3, <2>1, <2>3
    <3>2. (e + bs) - bs - sl + 1 + i \in Int
      BY <1>1
    <3> QED BY <3>1, <3>2, Received
  <2> QED BY <1>2, <1>3, <1>4, <1>5, <2>2, <2>4 DEF SignalInv, Rings!Fresh, Rings!Cold
<1>6. CASE ~Rings!Short
  <2>1. DOMAIN signal = 0 .. (n * st - 1)
    BY <1>6 DEF SignalInv
  <2>2. block' = Rings!NextBlock
    BY <1>6, DecodeFrame
  <2>3. ASSUME NEW b \in 0 .. (n - 1), NEW u \in 0 .. (st - 1)
        PROVE  signal'[b * st + u] = IF (e + bs) - Age(b)' * bs - st + 1 + u > origin
                                     THEN (e + bs) - Age(b)' * bs - st + 1 + u ELSE 0
    <3>1. Age(b) \in Nat /\ Age(b)' = IF b = Rings!NextBlock THEN 0 ELSE Age(b) + 1
      BY <1>2, <1>6, <2>2, Older
    <3>2. signal'[b * st + u] = IF b = Rings!NextBlock THEN Rings!Fresh(e - o + 1 + u)
                                ELSE Rings!Fresh(e - Age(b) * bs - st + 1 + u)
      BY <1>3, <1>6, AppendBlocks
    <3> HIDE DEF sl, bs, e, o, st, n
    <3> DEFINE a == Age(b)
               z == Age(b)'
               p == (e + bs) - z * bs - st + 1 + u
    <3>3. CASE b = Rings!NextBlock
      <4>1. p = e - o + 1 + u /\ p \in Int
        BY <1>1, <3>1, <3>3
      <4> QED BY <3>2, <3>3, <4>1, Received
    <3>4. CASE b # Rings!NextBlock
      <4>0. a \in Nat /\ z = a + 1
        BY <3>1, <3>4
      <4> HIDE DEF a, z
      <4>1. z * bs = a * bs + bs /\ a * bs \in Nat
        BY <1>1, <4>0
      <4>2. p = e - a * bs - st + 1 + u /\ p \in Int
        BY <1>1, <4>0, <4>1
      <4>3. signal'[b * st + u] = Rings!Fresh(e - a * bs - st + 1 + u)
        BY <3>2, <3>4 DEF a
      <4>4. signal'[b * st + u] = Rings!Fresh(p)
        BY <4>2, <4>3
      <4>5. signal'[b * st + u] = IF p > origin THEN p ELSE 0
        BY <4>2, <4>4, Received
      <4> QED BY <4>5, Zenon DEF z
    <3> QED BY <3>3, <3>4
  <2> HIDE DEF sl, bs, e, o, st, n
  <2> QED BY <1>2, <1>3, <1>4, <1>6, <2>1, <2>3 DEF SignalInv, Rings!Fresh, Rings!Cold
<1> QED BY <1>5, <1>6

(* The ring of decisions is full: a block replaces the oldest decisions.   *)
LEMMA TailIs ==
  ASSUME IndexInv
  PROVE  /\ Rings!Tail = start /\ Rings!NextStart \in 0 .. (Rings!BufferLength - 1)
         /\ Rings!NextStart = IF start + Rings!BlockSize >= Rings!BufferLength
                              THEN (start + Rings!BlockSize) - Rings!BufferLength
                              ELSE start + Rings!BlockSize
         /\ start \in Nat /\ start < Rings!BufferLength
<1> DEFINE bs == Rings!BlockSize
           bl == Rings!BufferLength
           pl == Rings!PacketLength
           s == Rings!NextStart
<1>1. bs \in Nat \ {0} /\ pl \in Nat /\ bl = pl + bs /\ start \in 0 .. (bl - 1)
  BY Lengths DEF IndexInv
<1>2. s = IF start + bs >= bl THEN (start + bs) - bl ELSE start + bs
  BY DEF Rings!NextStart, Rings!Wrapped
<1>3. Rings!Tail = IF s + pl >= bl THEN (s + pl) - bl ELSE s + pl
  BY DEF Rings!Tail, Rings!Wrapped
<1> HIDE DEF bs, bl, pl, s
<1>4. Rings!Tail = start /\ s \in 0 .. (bl - 1) /\ start \in Nat /\ start < bl
  BY <1>1, <1>2, <1>3
<1> QED BY <1>2, <1>4 DEF s, bl, bs

\* How far behind the start of the ring index j lies.
Behind(j) == IF j >= start THEN j - start ELSE j - start + Rings!BufferLength

(* Both ways of writing a block around the end of the ring agree.          *)
LEMMA RingWritten ==
  ASSUME IndexInv, QuantizedInv, NEW d, NEW j \in 0 .. (Rings!BufferLength - 1)
  PROVE  /\ Rings!AppendQuantized(d)[j] = IF Behind(j) < Rings!BlockSize THEN d[Behind(j)] ELSE quantized[j]
         /\ backend = "packed" =>
              Rings!WriteQuantized(d)[j] = IF Behind(j) < Rings!BlockSize THEN d[Behind(j)] ELSE quantized[j]
<1> DEFINE bs == Rings!BlockSize
           bl == Rings!BufferLength
           dom == DOMAIN quantized
           room == bl - start
           first == IF room < bs THEN room ELSE bs
           o == Behind(j)
<1>1. bs \in Nat \ {0} /\ bl \in Nat /\ bs <= bl /\ start \in 0 .. (bl - 1) /\ j \in 0 .. (bl - 1)
  BY Lengths DEF IndexInv
<1>2. o = IF j >= start THEN j - start ELSE j - start + bl
  BY DEF Behind
<1>3. dom = 0 .. (bl + (IF backend = "packed" THEN bs ELSE 0) - 1)
  BY DEF QuantizedInv
<1>4. j \in dom
  BY <1>1, <1>3
<1>5. /\ j \in start .. (start + first - 1) => Rings!AppendQuantized(d)[j] = d[j - start]
      /\ j \notin start .. (start + first - 1) /\ j < bs - first => Rings!AppendQuantized(d)[j] = d[first + j]
      /\ j \notin start .. (start + first - 1) /\ ~(j < bs - first) => Rings!AppendQuantized(d)[j] = quantized[j]
  BY <1>1, <1>4, TailIs DEF Rings!AppendQuantized
<1>6. backend = "packed" /\ j < start + bs - bl =>
        /\ bl + j \in dom
        /\ Rings!WriteQuantized(d)[j] = IF bl + j \in start .. (start + bs - 1) THEN d[(bl + j) - start] ELSE quantized[bl + j]
  <2> SUFFICES ASSUME backend = "packed", j < start + bs - bl
               PROVE  /\ bl + j \in dom
                      /\ Rings!WriteQuantized(d)[j] =
                           IF bl + j \in start .. (start + bs - 1) THEN d[(bl + j) - start] ELSE quantized[bl + j]
    OBVIOUS
  <2>1. bl + j \in dom
    BY <1>1, <1>3
  <2> QED BY <1>4, <2>1, TailIs DEF Rings!WriteQuantized
<1>7. ~(j < start + bs - bl) =>
        Rings!WriteQuantized(d)[j] = IF j \in start .. (start + bs - 1) THEN d[j - start] ELSE quantized[j]
  BY <1>4, TailIs DEF Rings!WriteQuantized
<1> HIDE DEF bs, bl, dom, o
<1>8. Rings!AppendQuantized(d)[j] = IF o < bs THEN d[o] ELSE quantized[j]
  <2>1. CASE j \in start .. (start + first - 1)
    <3>1. o = j - start /\ o < bs
      BY <1>1, <1>2, <2>1
    <3>2. Rings!AppendQuantized(d)[j] = d[j - start]
      BY <1>5, <2>1
    <3> QED BY <3>1, <3>2
  <2>2. CASE j \notin start .. (start + first - 1) /\ j < bs - first
    <3>1. first + j = o /\ o < bs
      BY <1>1, <1>2, <2>2
    <3>2. Rings!AppendQuantized(d)[j] = d[first + j]
      BY <1>5, <2>2
    <3> QED BY <3>1, <3>2
  <2>3. CASE j \notin start .. (start + first - 1) /\ ~(j < bs - first)
    <3>1. ~(o < bs)
      BY <1>1, <1>2, <2>3
    <3>2. Rings!AppendQuantized(d)[j] = quantized[j]
      BY <1>5, <2>3
    <3> QED BY <3>1, <3>2
  <2> QED BY <2>1, <2>2, <2>3
<1>9. backend = "packed" => Rings!WriteQuantized(d)[j] = IF o < bs THEN d[o] ELSE quantized[j]
  <2>1. CASE j < start + bs - bl
    <3>1. o = (bl + j) - start /\ o < bs /\ bl + j \in start .. (start + bs - 1)
      BY <1>1, <1>2, <2>1
    <3> QED BY <1>6, <2>1, <3>1
  <2>2. CASE ~(j < start + bs - bl)
    <3>1. o < bs <=> j \in start .. (start + bs - 1)
      BY <1>1, <1>2, <2>2
    <3>2. j \in start .. (start + bs - 1) => o = j - start
      BY <1>1, <1>2
    <3> QED BY <1>7, <2>2, <3>1, <3>2
  <2> QED BY <2>1, <2>2
<1> QED BY <1>8, <1>9 DEF bs, o

LEMMA QuantizedStep ==
  ASSUME IndexInv, SignalInv, QuantizedInv, Rings!Decode
  PROVE  /\ QuantizedInv'
         /\ DOMAIN quantized' = DOMAIN quantized
         /\ \A j \in 0 .. (Rings!BufferLength - 1) :
              quantized'[j] = IF Behind(j) < Rings!BlockSize THEN Rings!Filter(Rings!AppendSignal)[Behind(j)]
                              ELSE quantized[j]
<1> DEFINE sl == Rings!SymbolLength
           bs == Rings!BlockSize
           bl == Rings!BufferLength
           pl == Rings!PacketLength
           e == Rings!End
           d == Rings!Filter(Rings!AppendSignal)
           x == IF backend = "packed" THEN bs ELSE 0
<1>1. /\ sl \in Nat \ {0} /\ bs \in Nat \ {0} /\ pl \in Nat /\ bl = pl + bs /\ sl <= bs
      /\ e \in Nat /\ origin \in Nat /\ origin <= e /\ start \in 0 .. (bl - 1)
  BY Lengths, EndIs DEF IndexInv
<1>2. /\ Rings!SymbolLength' = sl /\ Rings!BlockSize' = bs /\ Rings!BufferLength' = bl
      /\ origin' = origin /\ Rings!End' = e + bs /\ backend' = backend /\ start' = Rings!NextStart
  BY DecodeFrame, SameLengths
<1>3. quantized' = IF backend = "packed" THEN Rings!WriteQuantized(d) ELSE Rings!AppendQuantized(d)
  BY DEF Rings!Decode
<1>4. DOMAIN quantized = 0 .. (bl + x - 1) /\ DOMAIN quantized' = DOMAIN quantized
  BY <1>3 DEF QuantizedInv, Rings!WriteQuantized, Rings!AppendQuantized
<1>5. \A j \in 0 .. (bl - 1) : quantized'[j] = IF Behind(j) < bs THEN d[Behind(j)] ELSE quantized[j]
  BY <1>3, RingWritten
<1>6. \A i \in 0 .. (bs - 1) : d[i] = Rings!Fresh(e - sl + 1 + i)
  BY FilterIs
<1>7. \A i \in 0 .. (bl - 1) :
        quantized[Rings!Wrapped(start + i, bl)] = Rings!Fresh(e - sl - bl + 1 + i)
  BY DEF QuantizedInv, Rings!DecisionsExact, Rings!QuantizedAt, Rings!DecisionStart
<1>8. ASSUME NEW i \in 0 .. (bl - 1)
      PROVE  quantized'[Rings!Wrapped(Rings!NextStart + i, bl)] = Rings!Fresh((e + bs) - sl - bl + 1 + i)
  <2> DEFINE j == Rings!Wrapped(Rings!NextStart + i, bl)
             s == Rings!NextStart
  <2>1. j = (IF s + i >= bl THEN (s + i) - bl ELSE s + i)
    BY DEF Rings!Wrapped
  <2>2. s = IF start + bs >= bl THEN (start + bs) - bl ELSE start + bs
    BY TailIs
  <2>3. Behind(j) = IF j >= start THEN j - start ELSE j - start + bl
    BY DEF Behind
  <2> HIDE DEF sl, bs, bl, pl, e, d, s, j
  <2>4. CASE i >= pl
    <3>1. j \in 0 .. (bl - 1) /\ Behind(j) = i - pl /\ i - pl \in 0 .. (bs - 1)
      BY <1>1, <1>8, <2>1, <2>2, <2>3, <2>4
    <3>2. quantized'[j] = Rings!Fresh(e - sl + 1 + (i - pl))
      BY <1>1, <1>5, <1>6, <3>1
    <3>3. e - sl + 1 + (i - pl) = (e + bs) - sl - bl + 1 + i
      BY <1>1, <1>8
    <3> QED BY <3>2, <3>3 DEF j
  <2>5. CASE i < pl
    <3>1. /\ j \in 0 .. (bl - 1) /\ Behind(j) = bs + i /\ ~(Behind(j) < bs) /\ bs + i \in 0 .. (bl - 1)
          /\ j = IF start + (bs + i) >= bl THEN (start + (bs + i)) - bl ELSE start + (bs + i)
      BY <1>1, <1>8, <2>1, <2>2, <2>3, <2>5
    <3>2. quantized'[j] = quantized[j]
      BY <1>5, <3>1
    <3>3. quantized[j] = Rings!Fresh(e - sl - bl + 1 + (bs + i))
      BY <1>7, <3>1 DEF Rings!Wrapped
    <3>4. e - sl - bl + 1 + (bs + i) = (e + bs) - sl - bl + 1 + i
      BY <1>1, <1>8
    <3> QED BY <3>2, <3>3, <3>4 DEF j
  <2> QED BY <1>1, <1>8, <2>4, <2>5
<1>9. \A i \in 0 .. (bs - 1) : d[i] \in Nat
  <2> TAKE i \in 0 .. (bs - 1)
  <2> DEFINE p == e - sl + 1 + i
  <2>1. p \in Int
    BY <1>1
  <2>2. d[i] = Rings!Fresh(p)
    BY <1>6
  <2> HIDE DEF p
  <2> QED BY <1>1, <2>1, <2>2, Received
<1>10. \A j \in DOMAIN quantized' : quantized'[j] \in Nat
  <2> DEFINE dom == DOMAIN quantized
  <2>1. /\ dom = 0 .. (bl + x - 1) /\ \A j \in dom : quantized[j] \in Nat
        /\ Rings!Tail = start /\ x = IF backend = "packed" THEN bs ELSE 0
    BY <1>4, TailIs DEF QuantizedInv
  <2> HIDE DEF dom, sl, bs, bl, pl, e, d, x
  <2>2. ASSUME NEW j \in dom, j >= bl PROVE quantized'[j] \in Nat
    <3>1. backend = "packed" /\ j \in Nat /\ ~(j < start + bs - bl)
      BY <1>1, <2>1, <2>2
    <3>2. quantized'[j] = IF j \in start .. (start + bs - 1) THEN d[j - start] ELSE quantized[j]
      BY <1>1, <1>3, <2>1, <2>2, <3>1 DEF Rings!WriteQuantized, bs, bl, dom
    <3>3. j \in start .. (start + bs - 1) => j - start \in 0 .. (bs - 1)
      BY <1>1
    <3> QED BY <1>9, <2>1, <2>2, <3>2, <3>3
  <2>3. ASSUME NEW j \in dom, ~(j >= bl) PROVE quantized'[j] \in Nat
    <3>1. j \in 0 .. (bl - 1)
      BY <1>1, <2>1, <2>3
    <3>2. Behind(j) = IF j >= start THEN j - start ELSE j - start + bl
      BY DEF Behind, bl
    <3>3. Behind(j) \in Int /\ (Behind(j) < bs => Behind(j) \in 0 .. (bs - 1))
      BY <1>1, <3>1, <3>2
    <3> QED BY <1>5, <1>9, <2>1, <3>1, <3>3
  <2> QED BY <1>4, <2>2, <2>3 DEF dom
<1>11. Rings!DecisionsExact'
  <2> HIDE DEF sl, bs, bl, pl, e, d, x
  <2> SUFFICES ASSUME NEW i \in 0 .. (bl - 1)
               PROVE  quantized'[Rings!Wrapped(Rings!NextStart + i, bl)] =
                        IF (e + bs) - sl - bl + 1 + i > origin THEN (e + bs) - sl - bl + 1 + i ELSE 0
    BY <1>2 DEF Rings!DecisionsExact, Rings!QuantizedAt, Rings!DecisionStart, Rings!Fresh, Rings!Cold,
                Rings!Wrapped
  <2>1. (e + bs) - sl - bl + 1 + i \in Int
    BY <1>1
  <2> QED BY <1>8, <2>1, Received
<1>12. DOMAIN quantized' = 0 .. (Rings!BufferLength' + (IF backend' = "packed" THEN Rings!BlockSize' ELSE 0) - 1)
  BY <1>2, <1>4
<1> QED BY <1>4, <1>5, <1>10, <1>11, <1>12 DEF QuantizedInv

(* Bit b of byte j, among bits that begin at a byte.                       *)
LEMMA ByteOrder ==
  ASSUME NEW y \in Nat \ {0}, NEW j \in Nat, NEW m \in Nat, NEW b \in 0 .. (y - 1)
  PROVE  /\ y * j + b \in Nat /\ y * m \in Nat
         /\ (y * j + b < y * m <=> j < m)
<1>1. y * j \in Nat /\ y * m \in Nat
  OBVIOUS
<1>2. CASE j < m
  <2>1. y * j + y <= y * m
    BY <1>2, ProductGrows
  <2> QED BY <1>1, <1>2, <2>1
<1>3. CASE ~(j < m)
  <2>1. y * m <= y * j
    BY <1>3, ProductOrder
  <2> QED BY <1>1, <1>3, <2>1
<1> QED BY <1>2, <1>3

LEMMA PackedTailIs ==
  ASSUME IndexInv
  PROVE  /\ Rings!PackedTail = packedStart /\ Rings!PackedNext \in 0 .. (Rings!PackedLength - 1)
         /\ Rings!PackedNext = IF packedStart + Rings!BlockBytes >= Rings!PackedLength
                               THEN (packedStart + Rings!BlockBytes) - Rings!PackedLength
                               ELSE packedStart + Rings!BlockBytes
<1> DEFINE bb == Rings!BlockBytes
           pk == Rings!PackedLength
           x == Rings!PacketLength \div ByteBits
           s == Rings!PackedNext
<1>1. bb \in Nat \ {0} /\ x \in Nat /\ pk = x + bb /\ packedStart \in 0 .. (pk - 1)
  BY WholeBytes DEF IndexInv
<1>2. s = IF packedStart + bb >= pk THEN (packedStart + bb) - pk ELSE packedStart + bb
  BY DEF Rings!PackedNext, Rings!Wrapped
<1>3. Rings!PackedTail = IF s + x >= pk THEN (s + x) - pk ELSE s + x
  BY DEF Rings!PackedTail, Rings!Wrapped
<1> HIDE DEF bb, pk, x, s
<1>4. Rings!PackedTail = packedStart /\ s \in 0 .. (pk - 1)
  BY <1>1, <1>2, <1>3
<1> QED BY <1>2, <1>4 DEF s, pk, bb

(* What a byte of the packed ring, and of its mirror, is after a block.    *)
LEMMA PackedWritten ==
  ASSUME IndexInv, PackedInv, backend = "packed", NEW d
  PROVE  /\ DOMAIN Rings!WritePacked(d) = DOMAIN packed
         /\ \A j \in 0 .. (Rings!PackedLength - 1) :
              Rings!WritePacked(d)[j] =
                IF j \in packedStart .. ((packedStart + Rings!BlockBytes) - 1)
                THEN Rings!Pack(d, j - packedStart)
                ELSE IF j < (packedStart + Rings!BlockBytes) - Rings!PackedLength
                THEN Rings!Pack(d, (Rings!PackedLength + j) - packedStart)
                ELSE packed[j]
         /\ \A j \in 0 .. (Rings!Lookahead - 1) :
              Rings!WritePacked(d)[Rings!PackedLength + j] = Rings!WritePacked(d)[j]
<1> DEFINE t == packedStart
           bb == Rings!BlockBytes
           pk == Rings!PackedLength
           la == Rings!Lookahead
           dom == DOMAIN packed
           end == t + bb
           inRing == IF end > pk THEN pk ELSE end
           mirror == IF inRing > la THEN la ELSE inRing
           D == [i \in dom |-> IF i \in t .. (end - 1) THEN Rings!Pack(d, i - t) ELSE packed[i]]
           P == [i \in dom |-> IF i < end - pk THEN D[pk + i] ELSE D[i]]
           W == Rings!WritePacked(d)
<1>1. W = [i \in dom |-> IF i - pk \in t .. (mirror - 1) THEN P[i - pk] ELSE P[i]]
  <2> DEFINE V(s) ==
        LET direct == [i \in dom |-> IF i \in s .. ((s + bb) - 1) THEN Rings!Pack(d, i - s) ELSE packed[i]]
            prefix == [i \in dom |-> IF i < (s + bb) - pk THEN direct[pk + i] ELSE direct[i]]
            ring   == IF s + bb > pk THEN pk ELSE s + bb
            copied == IF ring > la THEN la ELSE ring
        IN  [i \in dom |-> IF i - pk \in s .. (copied - 1) THEN prefix[i - pk] ELSE prefix[i]]
  <2>1. W = V(Rings!PackedTail)
    BY Zenon DEF Rings!WritePacked
  <2>2. V(t) = [i \in dom |-> IF i - pk \in t .. (mirror - 1) THEN P[i - pk] ELSE P[i]]
    OBVIOUS
  <2> HIDE DEF V
  <2>3. V(Rings!PackedTail) = V(t)
    BY PackedTailIs, Zenon
  <2> QED BY <2>1, <2>2, <2>3, Zenon
<1>2. /\ bb \in Nat \ {0} /\ pk \in Nat \ {0} /\ la \in Nat /\ la <= pk /\ bb <= la /\ bb <= pk
      /\ t \in 0 .. (pk - 1)
  <2>1. /\ bb \in Nat \ {0} /\ pk \in Nat \ {0} /\ la \in Nat /\ la <= pk /\ t \in 0 .. (pk - 1)
    BY WholeBytes DEF IndexInv
  <2>2. bb <= la
    <3>1. /\ ByteBits \in Nat \ {0} /\ Rings!BlockSize = ByteBits * bb
          /\ Rings!BlockSize + Rings!PreambleLength = ByteBits * la
          /\ Rings!PreambleLength \in Nat /\ Rings!BlockSize \in Nat
      BY WholeBytes, Lengths DEF IndexInv
    <3> HIDE DEF bb, la
    <3>2. ASSUME la < bb PROVE FALSE
      <4>1. ByteBits * la + ByteBits <= ByteBits * bb
        BY <2>1, <3>1, <3>2, ProductGrows
      <4> QED BY <3>1, <4>1
    <3> QED BY <2>1, <3>2
  <2> QED BY <2>1, <2>2
<1>3. dom = 0 .. (pk + la - 1) /\ \A j \in 0 .. (la - 1) : packed[pk + j] = packed[j]
  BY DEF PackedInv
<1> HIDE DEF t, bb, pk, la, dom, W
<1>4. \A i \in dom : D[i] = IF i \in t .. (end - 1) THEN Rings!Pack(d, i - t) ELSE packed[i]
  OBVIOUS
<1>5. \A i \in dom : P[i] = IF i < end - pk THEN D[pk + i] ELSE D[i]
  OBVIOUS
<1>6. \A i \in dom : W[i] = IF i - pk \in t .. (mirror - 1) THEN P[i - pk] ELSE P[i]
  BY <1>1
<1>7. DOMAIN W = dom
  BY <1>1
<1> HIDE DEF D, P
<1>8. ASSUME NEW j \in 0 .. (pk - 1)
      PROVE  /\ j \in dom /\ j \in Int /\ W[j] = P[j]
             /\ P[j] = IF j \in t .. (end - 1) THEN Rings!Pack(d, j - t)
                       ELSE IF j < end - pk THEN Rings!Pack(d, (pk + j) - t)
                       ELSE packed[j]
  <2>1. j \in dom /\ j - pk \notin t .. (mirror - 1)
    BY <1>2, <1>3, <1>8
  <2>2. W[j] = P[j] /\ P[j] = IF j < end - pk THEN D[pk + j] ELSE D[j]
    BY <1>5, <1>6, <2>1
  <2>3. CASE j < end - pk
    <3>1. pk + j \in dom /\ pk + j \in t .. (end - 1) /\ j \notin t .. (end - 1)
      BY <1>2, <1>3, <1>8, <2>3
    <3>2. D[pk + j] = Rings!Pack(d, (pk + j) - t)
      BY <1>4, <3>1
    <3> QED BY <2>1, <2>2, <2>3, <3>1, <3>2
  <2>4. CASE ~(j < end - pk)
    BY <1>4, <2>1, <2>2, <2>4
  <2> QED BY <2>3, <2>4
<1>9. ASSUME NEW j \in 0 .. (la - 1) PROVE W[pk + j] = W[j]
  <2>1. j \in 0 .. (pk - 1) /\ pk + j \in dom /\ (pk + j) - pk = j /\ ~(pk + j < end - pk) /\ j \in dom
    BY <1>2, <1>3, <1>9
  <2>2. W[j] = P[j]
    BY <1>8, <2>1
  <2>3. CASE j \in t .. (mirror - 1)
    BY <1>6, <2>1, <2>2, <2>3
  <2>4. CASE j \notin t .. (mirror - 1)
    <3>1. W[pk + j] = D[pk + j]
      BY <1>5, <1>6, <2>1, <2>4
    <3>2. CASE j < end - pk
      BY <1>5, <2>1, <2>2, <3>1, <3>2
    <3>3. CASE ~(j < end - pk)
      <4>1. j \notin t .. (end - 1) /\ pk + j \notin t .. (end - 1)
        BY <1>2, <1>9, <2>4, <3>3
      <4>2. D[pk + j] = packed[pk + j] /\ D[j] = packed[j]
        BY <1>4, <2>1, <4>1
      <4>3. P[j] = D[j]
        BY <1>5, <2>1, <3>3
      <4> QED BY <1>3, <1>9, <2>2, <3>1, <4>2, <4>3
    <3> QED BY <3>2, <3>3
  <2> QED BY <2>3, <2>4
<1>10. \A j \in 0 .. (pk - 1) :
         W[j] = IF j \in t .. (end - 1) THEN Rings!Pack(d, j - t)
                ELSE IF j < end - pk THEN Rings!Pack(d, (pk + j) - t) ELSE packed[j]
  BY <1>8, Zenon
<1>11. \A j \in 0 .. (la - 1) : W[pk + j] = W[j]
  BY <1>9, Zenon
<1> USE DEF t, bb, pk, la, dom, W
<1> QED BY <1>7, <1>10, <1>11

LEMMA PackedStep ==
  ASSUME IndexInv, SignalInv, QuantizedInv, PackedInv, Rings!Decode
  PROVE  PackedInv'
<1> SUFFICES ASSUME backend = "packed"
             PROVE  PackedInv'
  BY DecodeFrame DEF PackedInv
<1> DEFINE y == ByteBits
           t == packedStart
           bb == Rings!BlockBytes
           pk == Rings!PackedLength
           la == Rings!Lookahead
           bs == Rings!BlockSize
           bl == Rings!BufferLength
           d == Rings!Filter(Rings!AppendSignal)
<1>1. /\ y \in Nat \ {0} /\ bb \in Nat \ {0} /\ pk \in Nat \ {0} /\ bl = y * pk /\ bs = y * bb
      /\ t \in 0 .. (pk - 1) /\ start = y * t
  BY WholeBytes DEF IndexInv
<1>2. Rings!PackedLength' = pk /\ Rings!Lookahead' = la /\ backend' = backend
  BY DecodeFrame, SameLengths
<1>3. packed' = Rings!WritePacked(d)
  BY DEF Rings!Decode
<1>4. /\ DOMAIN packed = 0 .. (pk + la - 1)
      /\ \A j \in 0 .. (pk - 1), b \in 0 .. (y - 1) : packed[j][b] = quantized[y * j + b]
  BY DEF PackedInv
<1>5. \A j \in 0 .. (bl - 1) : quantized'[j] = IF Behind(j) < bs THEN d[Behind(j)] ELSE quantized[j]
  BY QuantizedStep
<1>6. /\ DOMAIN packed' = DOMAIN packed
      /\ \A j \in 0 .. (la - 1) : packed'[pk + j] = packed'[j]
      /\ \A j \in 0 .. (pk - 1) :
           packed'[j] = IF j \in t .. ((t + bb) - 1) THEN Rings!Pack(d, j - t)
                        ELSE IF j < (t + bb) - pk THEN Rings!Pack(d, (pk + j) - t) ELSE packed[j]
  BY <1>3, PackedWritten
<1>7. \A k : Behind(k) = IF k >= start THEN k - start ELSE k - start + bl
  BY DEF Behind
<1>8. \A k : \A b \in 0 .. (y - 1) : Rings!Pack(d, k)[b] = d[k * y + b]
  BY DEF Rings!Pack
<1> HIDE DEF y, t, bb, pk, la, bs, bl, d
<1>9. ASSUME NEW j \in 0 .. (pk - 1), NEW b \in 0 .. (y - 1)
      PROVE  packed'[j][b] = quantized'[y * j + b]
  <2> DEFINE i == y * j + b
             m == IF j >= t THEN j - t ELSE (j - t) + pk
  <2>1. j \in Nat /\ t \in Nat /\ m \in Nat /\ b \in Int
    BY <1>1, <1>9
  <2>2. i \in Nat /\ (i < y * pk <=> j < pk) /\ (i < y * t <=> j < t)
    BY <1>1, <1>9, <2>1, ByteOrder
  <2>3. i \in 0 .. (bl - 1)
    BY <1>1, <1>9, <2>2
  <2>4. Behind(i) = y * m + b
    <3>1. Behind(i) = IF i >= start THEN i - start ELSE i - start + bl
      BY <1>7
    <3>2. y * j \in Nat /\ y * t \in Nat /\ y * pk \in Nat
      BY <1>1, <2>1
    <3>3. CASE j >= t
      <4>1. y * (j - t) = y * j - y * t
        BY <1>1, <2>1
      <4> HIDE DEF i
      <4>2. Behind(i) = i - y * t
        BY <1>1, <2>1, <2>2, <3>1, <3>2, <3>3
      <4>3. m = j - t
        BY <3>3
      <4>4. i = y * j + b
        BY DEF i
      <4> HIDE DEF m
      <4> QED BY <1>9, <2>1, <3>2, <4>1, <4>2, <4>3, <4>4
    <3>4. CASE ~(j >= t)
      <4>1. y * ((j - t) + pk) = y * j - y * t + y * pk
        BY <1>1, <2>1
      <4> HIDE DEF i
      <4>2. Behind(i) = i - y * t + y * pk
        BY <1>1, <2>1, <2>2, <3>1, <3>2, <3>4
      <4>3. m = (j - t) + pk
        BY <3>4
      <4>4. i = y * j + b
        BY DEF i
      <4> HIDE DEF m
      <4> QED BY <1>9, <2>1, <3>2, <4>1, <4>2, <4>3, <4>4
    <3> QED BY <3>3, <3>4
  <2>5. Behind(i) < bs <=> m < bb
    BY <1>1, <1>9, <2>1, <2>4, ByteOrder
  <2>6. quantized'[i] = IF m < bb THEN d[y * m + b] ELSE quantized[i]
    BY <1>5, <2>3, <2>4, <2>5
  <2>7. packed'[j] = IF m < bb THEN Rings!Pack(d, m) ELSE packed[j]
    <3>1. CASE j \in t .. ((t + bb) - 1)
      <4>1. m = j - t /\ m < bb
        BY <1>1, <1>9, <3>1
      <4> QED BY <1>6, <3>1, <4>1
    <3>2. CASE j \notin t .. ((t + bb) - 1) /\ j < (t + bb) - pk
      <4>1. m = (pk + j) - t /\ m < bb
        BY <1>1, <1>9, <3>2
      <4> QED BY <1>6, <3>2, <4>1
    <3>3. CASE j \notin t .. ((t + bb) - 1) /\ ~(j < (t + bb) - pk)
      <4>1. ~(m < bb)
        BY <1>1, <1>9, <3>3
      <4> QED BY <1>6, <3>3, <4>1
    <3> QED BY <3>1, <3>2, <3>3
  <2>8. m * y = y * m
    BY <1>1, <2>1
  <2> HIDE DEF i, m
  <2>9. CASE m < bb
    BY <1>8, <2>6, <2>7, <2>8, <2>9 DEF i
  <2>10. CASE ~(m < bb)
    BY <1>4, <2>6, <2>7, <2>10 DEF i
  <2> QED BY <2>9, <2>10 DEF i
<1> QED BY <1>2, <1>4, <1>6, <1>9 DEF PackedInv, y, pk, la

LEMMA IndexStep ==
  ASSUME IndexInv, Rings!Decode
  PROVE  IndexInv'
<1> DEFINE y == ByteBits
           bs == Rings!BlockSize
           bl == Rings!BufferLength
           bb == Rings!BlockBytes
           pk == Rings!PackedLength
           n == Rings!BlockCount
<1>1. /\ y \in Nat \ {0} /\ bs \in Nat \ {0} /\ bl \in Nat /\ bb \in Nat \ {0} /\ pk \in Nat \ {0}
      /\ bs = y * bb /\ bl = y * pk /\ n \in Nat /\ n >= 2
      /\ start \in 0 .. (bl - 1) /\ block \in 0 .. (n - 1) /\ packedStart \in 0 .. (pk - 1)
      /\ Rings!End \in Nat /\ origin \in Nat /\ origin <= Rings!End
  BY WholeBytes, Lengths, Blocks, EndIs DEF IndexInv
<1>2. /\ Rings!BlockSize' = bs /\ Rings!BufferLength' = bl /\ Rings!PackedLength' = pk
      /\ Rings!BlockCount' = n
  BY DecodeFrame, SameLengths
<1>3. /\ cfg' = cfg /\ backend' = backend /\ origin' = origin /\ start' = Rings!NextStart
      /\ block' = (IF Rings!Short THEN block ELSE Rings!NextBlock)
      /\ next' \in 0 .. DecodedBlocks /\ Rings!End' = Rings!End + bs
  BY DecodeFrame
<1>4. Rings!NextStart \in 0 .. (bl - 1)
      /\ Rings!NextStart = IF start + bs >= bl THEN (start + bs) - bl ELSE start + bs
  BY TailIs
<1>5. packedStart' = (IF backend = "packed" THEN Rings!PackedNext ELSE packedStart)
      /\ Rings!PackedNext \in 0 .. (pk - 1)
      /\ Rings!PackedNext = IF packedStart + bb >= pk THEN (packedStart + bb) - pk ELSE packedStart + bb
  BY PackedTailIs DEF Rings!Decode
<1>6. block' \in 0 .. (n - 1)
  BY <1>1, <1>3 DEF Rings!NextBlock
<1>7. PICK s \in 0 .. start : start = y * s
  BY DEF IndexInv
<1>8. backend = "packed" => start = y * packedStart
  BY DEF IndexInv
<1> HIDE DEF y, bs, bl, bb, pk, n
<1>9. ASSUME NEW r \in Nat, start = y * r
      PROVE  Rings!NextStart = y * (IF r + bb >= pk THEN (r + bb) - pk ELSE r + bb)
             /\ (IF r + bb >= pk THEN (r + bb) - pk ELSE r + bb) \in Nat
  <2>1. start + bs = y * (r + bb) /\ y * (r + bb) \in Nat /\ y * pk \in Nat
    BY <1>1, <1>9
  <2>2. y * (r + bb) + 0 < y * pk <=> r + bb < pk
    <3>1. r + bb \in Nat /\ pk \in Nat /\ 0 \in 0 .. (y - 1)
      BY <1>1
    <3> QED BY <1>1, <3>1, ByteOrder
  <2>3. CASE r + bb >= pk
    <3>1. y * ((r + bb) - pk) = y * (r + bb) - y * pk
      BY <1>1
    <3>2. start + bs >= bl
      BY <1>1, <2>1, <2>2, <2>3
    <3> QED BY <1>1, <1>4, <2>1, <2>3, <3>1, <3>2
  <2>4. CASE ~(r + bb >= pk)
    <3>1. ~(start + bs >= bl)
      BY <1>1, <2>1, <2>2, <2>4
    <3> QED BY <1>1, <1>4, <2>1, <2>4, <3>1
  <2> QED BY <2>3, <2>4
<1>10. \E r \in 0 .. start' : start' = y * r
  <2>1. PICK r \in Nat : Rings!NextStart = y * r
    BY <1>7, <1>9
  <2>2. r <= y * r
    <3>1. r * 1 <= r * y /\ r * 1 = r /\ r * y = y * r
      BY <1>1, ProductOrder
    <3> QED BY <1>1, <3>1
  <2>3. y * r \in Nat
    BY <1>1
  <2> QED BY <1>3, <2>1, <2>2, <2>3
<1>11. backend' = "packed" => start' = y * packedStart'
  <2> SUFFICES ASSUME backend = "packed" PROVE start' = y * packedStart'
    BY <1>3
  <2>1. packedStart \in Nat /\ start = y * packedStart
    BY <1>1, <1>8
  <2> QED BY <1>3, <1>5, <1>9, <2>1
<1>12. packedStart' \in 0 .. (pk - 1)
  BY <1>1, <1>5
<1>13. origin' \in Nat /\ origin' <= Rings!End'
  BY <1>1, <1>3
<1>14. cfg' \in Geometries /\ backend' \in Backends
  BY <1>3 DEF IndexInv
<1> QED BY <1>2, <1>3, <1>4, <1>6, <1>10, <1>11, <1>12, <1>13, <1>14 DEF IndexInv, y

LEMMA WarmStep ==
  ASSUME IndexInv, WarmInv, Rings!Decode
  PROVE  WarmInv'
<1> DEFINE bs == Rings!BlockSize
           n == Rings!BlockCount
           e == Rings!End
<1>1. /\ rebuilt' = rebuilt /\ origin' = origin /\ Rings!End' = e + bs
      /\ Rings!BlockSize' = bs /\ Rings!BlockCount' = n
      /\ published' = Rings!Publishes /\ replayed' = IF rebuilt THEN replayed + 1 ELSE 0
  BY DecodeFrame, SameLengths
<1>2. bs \in Nat /\ n \in Nat /\ e \in Nat /\ origin \in Nat
  BY Lengths, Blocks, EndIs DEF IndexInv
<1>3. rebuilt => /\ replayed \in Nat /\ origin + replayed * bs = e
                 /\ (Rings!Publishes => replayed >= n)
  BY DEF WarmInv, Rings!Publishes
<1> HIDE DEF bs, n, e
<1> SUFFICES ASSUME rebuilt
             PROVE  /\ replayed + 1 \in Nat /\ origin + (replayed + 1) * bs = e + bs
                    /\ Rings!Publishes => replayed + 1 >= n + 1
  BY <1>1 DEF WarmInv
<1>4. (replayed + 1) * bs = replayed * bs + bs /\ replayed * bs \in Nat
  BY <1>2, <1>3
<1> QED BY <1>2, <1>3, <1>4

LEMMA DecodeInv ==
  ASSUME RingsInv, Rings!Decode
  PROVE  RingsInv'
  BY IndexStep, SignalStep, QuantizedStep, PackedStep, WarmStep DEF RingsInv

-----------------------------------------------------------------------------
(* Cleared buffers hold nothing received since.                            *)

\* As Allocate and Reset leave the decoder.
ClearedState ==
  /\ cfg \in Geometries /\ backend \in Backends
  /\ signal = Rings!Cleared.signal /\ quantized = Rings!Cleared.quantized
  /\ packed = Rings!Cleared.packed
  /\ start = 0 /\ packedStart = 0 /\ block = Rings!BlockCount - 1
  /\ next \in 0 .. DecodedBlocks /\ origin = Rings!End
  /\ ~published /\ (rebuilt => replayed = 0)

LEMMA ClearedInv == ClearedState => RingsInv
<1> SUFFICES ASSUME ClearedState PROVE RingsInv
  OBVIOUS
<1> USE DEF ClearedState
<1> DEFINE sl == Rings!SymbolLength
           bs == Rings!BlockSize
           bl == Rings!BufferLength
           st == Rings!Stride
           n == Rings!BlockCount
           pk == Rings!PackedLength
           la == Rings!Lookahead
           y == ByteBits
           e == Rings!End
           x == IF backend = "packed" THEN bs ELSE 0
           z == IF Rings!Short THEN bs + sl ELSE n * st
<1>1. /\ sl \in Nat \ {0} /\ bs \in Nat \ {0} /\ bl \in Nat /\ st \in Nat \ {0} /\ n \in Nat /\ n >= 2
      /\ pk \in Nat \ {0} /\ la \in Nat /\ la <= pk /\ y \in Nat \ {0} /\ bl = y * pk /\ bs <= bl
  BY Lengths, Blocks, WholeBytes
<1>2. e \in Nat
  <2>1. next \in Nat
    BY PathAssumption DEF Rings!HistoryAssumption
  <2> QED BY <1>1, <2>1 DEF Rings!End
<1>3. signal = [i \in 0 .. (z - 1) |-> 0] /\ quantized = [i \in 0 .. (bl + x - 1) |-> 0]
      /\ packed = [i \in 0 .. (pk + la - 1) |-> [b \in 0 .. (y - 1) |-> 0]]
  BY DEF Rings!Cleared, Rings!Cold
<1>4. \A p \in Int : p <= e => Rings!Fresh(p) = 0
  BY <1>2, Received
<1>5. IndexInv
  <2>1. start \in 0 .. (bl - 1) /\ block \in 0 .. (n - 1) /\ packedStart \in 0 .. (pk - 1)
    BY <1>1
  <2>2. \E s \in 0 .. start : start = y * s
    <3>1. 0 \in 0 .. start /\ start = y * 0
      BY <1>1
    <3> QED BY <3>1
  <2>3. start = y * packedStart
    BY <1>1
  <2> QED BY <1>2, <2>1, <2>2, <2>3 DEF IndexInv
<1>6. SignalInv
  <2>1. CASE Rings!Short
    <3>1. DOMAIN signal = 0 .. (bs + sl - 1) /\ \A i \in 0 .. (bs + sl - 1) : signal[i] = 0
      BY <1>1, <1>3, <2>1
    <3> HIDE DEF bs, sl, e
    <3>2. \A i \in 0 .. (bs + sl - 1) : Rings!Fresh(e - bs - sl + 1 + i) = 0
      <4> TAKE i \in 0 .. (bs + sl - 1)
      <4>1. e - bs - sl + 1 + i \in Int /\ e - bs - sl + 1 + i <= e
        BY <1>1, <1>2
      <4> QED BY <1>4, <4>1
    <3> QED BY <2>1, <3>1, <3>2, Zenon DEF SignalInv, bs, sl, e
  <2>2. CASE ~Rings!Short
    <3>1. DOMAIN signal = 0 .. (n * st - 1) /\ \A i \in 0 .. (n * st - 1) : signal[i] = 0
      BY <1>3, <2>2
    <3>2. ASSUME NEW b \in 0 .. (n - 1), NEW u \in 0 .. (st - 1)
          PROVE  signal[b * st + u] = Rings!Fresh(e - Age(b) * bs - st + 1 + u)
      <4>1. Age(b) = IF b <= block THEN block - b ELSE block - b + n
        BY DEF Age
      <4> HIDE DEF n, st, bs, e
      <4>2. Age(b) \in Nat
        BY <1>1, <3>2, <4>1 DEF n
      <4> DEFINE a == Age(b) * bs
      <4>3. a \in Nat
        BY <1>1, <4>2
      <4>4. b * st + u \in 0 .. (n * st - 1)
        BY <1>1, <3>2, OneBlock
      <4> HIDE DEF a
      <4>5. e - a - st + 1 + u \in Int /\ e - a - st + 1 + u <= e
        BY <1>1, <1>2, <3>2, <4>3
      <4>6. signal[b * st + u] = 0 /\ Rings!Fresh(e - a - st + 1 + u) = 0
        BY <1>4, <3>1, <4>4, <4>5
      <4> QED BY <4>6 DEF a
    <3> QED BY <2>2, <3>1, <3>2, Zenon DEF SignalInv
  <2> QED BY <2>1, <2>2
<1>7. QuantizedInv
  <2>1. DOMAIN quantized = 0 .. (bl + x - 1) /\ \A i \in 0 .. (bl + x - 1) : quantized[i] = 0
    BY <1>3
  <2>2. ASSUME NEW i \in 0 .. (bl - 1)
        PROVE  quantized[Rings!Wrapped(start + i, bl)] = Rings!Fresh(e - sl - bl + 1 + i)
    <3>1. x \in Nat
      BY <1>1
    <3> HIDE DEF bl, sl, e, x
    <3>2. Rings!Wrapped(start + i, bl) = i /\ i \in 0 .. (bl + x - 1)
      BY <1>1, <2>2, <3>1 DEF Rings!Wrapped
    <3>3. e - sl - bl + 1 + i \in Int /\ e - sl - bl + 1 + i <= e
      BY <1>1, <1>2, <2>2
    <3> QED BY <1>4, <2>1, <3>2, <3>3
  <2>3. Rings!DecisionsExact
    BY <2>2 DEF Rings!DecisionsExact, Rings!QuantizedAt, Rings!DecisionStart
  <2> QED BY <2>1, <2>3 DEF QuantizedInv
<1>8. PackedInv
  <2>1. x = bs \/ x = 0
    OBVIOUS
  <2> HIDE DEF bl, bs, pk, la, y, x
  <2>2. ASSUME NEW j \in 0 .. (pk - 1), NEW b \in 0 .. (y - 1)
        PROVE  packed[j][b] = quantized[y * j + b]
    <3>1. j \in 0 .. (pk + la - 1)
      BY <1>1, <2>2
    <3>2. packed[j][b] = 0
      BY <1>3, <2>2, <3>1
    <3>3. y * j + b \in Nat /\ y * j + b < y * pk
      BY <1>1, <2>2, ByteOrder
    <3>4. y * j + b \in 0 .. (bl + x - 1)
      BY <1>1, <2>1, <3>3
    <3> QED BY <1>3, <3>2, <3>4
  <2>3. ASSUME NEW j \in 0 .. (la - 1) PROVE packed[pk + j] = packed[j]
    <3>1. pk + j \in 0 .. (pk + la - 1) /\ j \in 0 .. (pk + la - 1)
      BY <1>1, <2>3
    <3> QED BY <1>3, <3>1
  <2>4. DOMAIN packed = 0 .. (pk + la - 1)
    BY <1>3
  <2> QED BY <2>2, <2>3, <2>4 DEF PackedInv, pk, la, y
<1>9. WarmInv
  BY <1>1, <1>2 DEF WarmInv
<1> QED BY <1>5, <1>6, <1>7, <1>8, <1>9 DEF RingsInv

LEMMA RingsInit == Rings!Init => RingsInv
<1> SUFFICES ASSUME Rings!Init PROVE ClearedState
  BY ClearedInv
<1>1. cfg \in Geometries /\ backend \in Backends /\ next = 0 /\ origin = 0
  BY DEF Rings!Init
<1>2. Rings!End = 0
  BY <1>1, Lengths DEF Rings!End
<1>3. 0 \in 0 .. DecodedBlocks
  BY PathAssumption DEF Rings!HistoryAssumption
<1> QED BY <1>1, <1>2, <1>3 DEF Rings!Init, ClearedState

LEMMA RebuildInv ==
  ASSUME RingsInv, NEW from \in 0 .. DecodedBlocks, Rings!Rebuild(from)
  PROVE  RingsInv'
<1>1. cfg' = cfg /\ backend' = backend /\ cfg \in Geometries /\ backend \in Backends
  BY DEF Rings!Rebuild, RingsInv, IndexInv
<1>2. /\ Rings!SymbolLength' = Rings!SymbolLength /\ Rings!BlockSize' = Rings!BlockSize
      /\ Rings!BufferLength' = Rings!BufferLength /\ Rings!Short' = Rings!Short
      /\ Rings!Stride' = Rings!Stride /\ Rings!BlockCount' = Rings!BlockCount
      /\ Rings!PackedLength' = Rings!PackedLength /\ Rings!Lookahead' = Rings!Lookahead
  BY <1>1, SameLengths
<1>3. Rings!Cleared' = Rings!Cleared
  BY <1>1, <1>2 DEF Rings!Cleared, Rings!Cold
<1>4. /\ signal' = Rings!Cleared.signal /\ quantized' = Rings!Cleared.quantized
      /\ packed' = Rings!Cleared.packed /\ start' = 0 /\ packedStart' = 0
      /\ block' = Rings!BlockCount - 1 /\ next' = from /\ origin' = from * Rings!BlockSize
      /\ published' = FALSE /\ replayed' = 0
  BY DEF Rings!Rebuild, Rings!Reset
<1>5. origin' = Rings!End'
  BY <1>2, <1>4 DEF Rings!End
<1>6. ClearedState'
  BY <1>1, <1>2, <1>3, <1>4, <1>5 DEF ClearedState
<1>7. (ClearedState => RingsInv)'
  BY ClearedInv, PTL
<1> QED BY <1>6, <1>7
-----------------------------------------------------------------------------
(* What the search and the parsers read.                                   *)

(* slice walks the ring in steps of a symbol and comes round at most once. *)
LEMMA SliceWalkIs ==
  ASSUME IndexInv, NEW candidate \in 0 .. (Rings!BlockSize - 1), NEW k \in 0 .. (cfg.packet - 1)
  PROVE  /\ Rings!SliceWalk(candidate)[k] = Rings!QuantizedAt(candidate + k * Rings!SymbolLength)
         /\ candidate + k * Rings!SymbolLength \in 0 .. (Rings!BufferLength - 1)
<1> DEFINE sl == Rings!SymbolLength
           bl == Rings!BufferLength
           bs == Rings!BlockSize
           q == cfg.packet
           c == candidate
           F(a) == [m \in 0 .. (q - 1) |-> IF m = 0 THEN Rings!Wrapped(start + c, bl)
                                           ELSE Rings!Wrapped(a[m - 1] + sl, bl)]
           h == [m \in 0 .. (q - 1) |-> Rings!Wrapped(start + (c + m * sl), bl)]
           walk == CHOOSE a : a = F(a)
<1>1. Rings!SliceWalk(c) = [m \in 0 .. (q - 1) |-> quantized[walk[m]]]
  BY Zenon DEF Rings!SliceWalk
<1>2. /\ sl \in Nat \ {0} /\ bs \in Nat \ {0} /\ q \in Nat \ {0} /\ bl = q * sl + bs
      /\ start \in 0 .. (bl - 1)
  BY Lengths DEF IndexInv
<1> HIDE DEF sl, bl, bs, q, walk
<1>3. c \in 0 .. (bs - 1)
  BY DEF bs
<1>4. ASSUME NEW m \in 0 .. (q - 1)
      PROVE  m * sl \in Nat /\ c + m * sl \in 0 .. (bl - 1)
  <2>1. sl * m \in Nat /\ sl * m + sl <= sl * q /\ sl * q \in Nat /\ sl * m = m * sl /\ sl * q = q * sl
    BY <1>2, <1>4, ProductGrows
  <2> QED BY <1>2, <1>3, <2>1
<1>5. ASSUME NEW m \in 1 .. (q - 1)
      PROVE  /\ m - 1 \in 0 .. (q - 1) /\ m \in 0 .. (q - 1) /\ m \in Nat
             /\ Rings!Wrapped(h[m - 1] + sl, bl) = h[m]
  <2>1. m - 1 \in 0 .. (q - 1) /\ m \in 0 .. (q - 1) /\ m \in Nat /\ m - 1 \in Nat
    BY <1>2, <1>5
  <2> DEFINE x == (m - 1) * sl
             z == m * sl
  <2>2. x \in Nat /\ z = x + sl
    BY <1>2, <2>1
  <2>3. c + x \in 0 .. (bl - 1) /\ c + z \in 0 .. (bl - 1)
    BY <1>4, <2>1
  <2>4. h[m - 1] = Rings!Wrapped(start + (c + x), bl) /\ h[m] = Rings!Wrapped(start + (c + z), bl)
    BY <2>1
  <2> HIDE DEF x, z, h
  <2>5. h[m - 1] = IF start + (c + x) >= bl THEN (start + (c + x)) - bl ELSE start + (c + x)
    BY <2>4 DEF Rings!Wrapped
  <2>6. h[m] = IF start + (c + z) >= bl THEN (start + (c + z)) - bl ELSE start + (c + z)
    BY <2>4 DEF Rings!Wrapped
  <2> DEFINE w == h[m - 1]
  <2>7. Rings!Wrapped(w + sl, bl) = IF w + sl >= bl THEN (w + sl) - bl ELSE w + sl
    BY DEF Rings!Wrapped
  <2> HIDE DEF w
  <2>8. w = IF start + (c + x) >= bl THEN (start + (c + x)) - bl ELSE start + (c + x)
    BY <2>5 DEF w
  <2>9. bl \in Nat
    BY <1>2
  <2>10. (IF w + sl >= bl THEN (w + sl) - bl ELSE w + sl)
           = IF start + (c + z) >= bl THEN (start + (c + z)) - bl ELSE start + (c + z)
    BY <1>2, <1>3, <2>2, <2>3, <2>8, <2>9
  <2> QED BY <2>1, <2>6, <2>7, <2>10 DEF w
<1>6. h[0] = Rings!Wrapped(start + c, bl) /\ 0 \in 0 .. (q - 1)
  <2>1. 0 \in 0 .. (q - 1) /\ c + 0 * sl = c
    BY <1>2, <1>3
  <2> QED BY <2>1
<1>7. h = F(h)
  <2>1. \A m \in 0 .. (q - 1) : h[m] = F(h)[m]
    <3> TAKE m \in 0 .. (q - 1)
    <3>0. F(h)[m] = IF m = 0 THEN Rings!Wrapped(start + c, bl) ELSE Rings!Wrapped(h[m - 1] + sl, bl)
      OBVIOUS
    <3> HIDE DEF h, F
    <3>1. CASE m = 0
      BY <1>6, <3>0, <3>1
    <3>2. CASE m # 0
      <4>1. m \in 1 .. (q - 1)
        BY <1>2, <3>2
      <4> QED BY <1>5, <3>0, <3>2, <4>1
    <3> QED BY <3>1, <3>2
  <2>2. /\ DOMAIN h = 0 .. (q - 1) /\ DOMAIN F(h) = 0 .. (q - 1)
        /\ h = [m \in DOMAIN h |-> h[m]] /\ F(h) = [m \in DOMAIN F(h) |-> F(h)[m]]
    OBVIOUS
  <2> HIDE DEF h, F
  <2> QED BY <2>1, <2>2
<1>8. walk = F(walk)
  <2> HIDE DEF F, h
  <2>1. \E a : a = F(a)
    BY <1>7
  <2> QED BY <2>1, Zenon DEF walk
<1>9. /\ walk[0] = Rings!Wrapped(start + c, bl)
      /\ \A m \in 1 .. (q - 1) : walk[m] = Rings!Wrapped(walk[m - 1] + sl, bl)
  <2>1. \A m \in 0 .. (q - 1) :
          F(walk)[m] = IF m = 0 THEN Rings!Wrapped(start + c, bl) ELSE Rings!Wrapped(walk[m - 1] + sl, bl)
    OBVIOUS
  <2> HIDE DEF F
  <2>2. \A m \in 0 .. (q - 1) :
          walk[m] = IF m = 0 THEN Rings!Wrapped(start + c, bl) ELSE Rings!Wrapped(walk[m - 1] + sl, bl)
    BY <1>8, <2>1
  <2>3. \A m \in 1 .. (q - 1) : m \in 0 .. (q - 1) /\ m # 0
    BY <1>2
  <2> QED BY <1>6, <2>2, <2>3
<1> HIDE DEF h, F
<1>10. walk[k] = h[k]
  <2> DEFINE S == {m \in Nat : m < q => walk[m] = h[m]}
  <2>1. 0 \in S
    BY <1>6, <1>9
  <2>2. ASSUME NEW m \in Nat, m \in S PROVE m + 1 \in S
    <3> SUFFICES ASSUME m + 1 < q PROVE walk[m + 1] = h[m + 1]
      OBVIOUS
    <3>1. m + 1 \in 1 .. (q - 1) /\ (m + 1) - 1 = m /\ m < q
      BY <1>2, <2>2
    <3>2. walk[m] = h[m]
      BY <2>2, <3>1
    <3> QED BY <1>5, <1>9, <3>1, <3>2
  <2> HIDE DEF S
  <2>3. Nat \subseteq S
    BY <2>1, <2>2, SetInduction
  <2>4. k \in Nat /\ k < q
    BY <1>2 DEF q
  <2> QED BY <2>3, <2>4 DEF S
<1>11. k \in 0 .. (q - 1)
  BY DEF q
<1>12. Rings!SliceWalk(c)[k] = quantized[Rings!Wrapped(start + (c + k * sl), bl)]
  BY <1>1, <1>10, <1>11 DEF h
<1> QED BY <1>4, <1>11, <1>12 DEF Rings!QuantizedAt, sl, bl

(* The packed decisions the preamble search reads.                         *)
LEMMA SearchReads ==
  ASSUME IndexInv, PackedInv, NEW i \in 0 .. (Rings!Lookahead - 1), NEW b \in 0 .. (ByteBits - 1)
  PROVE  Rings!SearchByte(i)[b] = Rings!QuantizedAt(i * ByteBits + b)
<1> DEFINE y == ByteBits
           pk == Rings!PackedLength
           la == Rings!Lookahead
           bl == Rings!BufferLength
           g == Rings!BlockSize + Rings!PreambleLength
<1>1. /\ y \in Nat \ {0} /\ pk \in Nat \ {0} /\ la \in Nat /\ la <= pk /\ bl = y * pk /\ g = y * la
  BY WholeBytes DEF IndexInv
<1>2. PICK s \in 0 .. start : start = y * s /\ (backend = "packed" => s = packedStart)
  <2>1. CASE backend = "packed"
    <3>1. start = y * packedStart /\ packedStart \in Nat /\ start \in Nat
      BY <2>1, <1>1, Lengths DEF IndexInv
    <3>2. packedStart <= start
      <4>1. packedStart * 1 <= packedStart * y
        BY <1>1, <3>1, ProductOrder
      <4> QED BY <1>1, <3>1, <4>1
    <3> QED BY <3>1, <3>2
  <2>2. CASE backend # "packed"
    BY <2>2 DEF IndexInv
  <2> QED BY <2>1, <2>2
<1>3. start \in 0 .. (bl - 1)
  BY DEF IndexInv
<1>4. Rings!QuantizedAt(i * y + b) = quantized[IF start + (i * y + b) >= bl THEN (start + (i * y + b)) - bl ELSE start + (i * y + b)]
  BY DEF Rings!QuantizedAt, Rings!Wrapped
<1> HIDE DEF y, pk, la, bl, g
<1>5. i \in 0 .. (la - 1) /\ b \in 0 .. (y - 1) /\ s \in Nat
  BY <1>1, <1>2, <1>3 DEF y, la
<1>6. s < pk
  <2> SUFFICES ASSUME ~(s < pk) PROVE FALSE
    OBVIOUS
  <2>1. y * pk <= y * s
    BY <1>1, <1>5, ProductOrder
  <2> QED BY <1>1, <1>2, <1>3, <2>1
<1>7. /\ start + (i * y + b) = y * (s + i) + b /\ s + i \in Nat
      /\ (y * (s + i) + b < y * pk <=> s + i < pk) /\ y * (s + i) + b \in Nat
  <2>1. i * y = y * i /\ y * (s + i) = y * s + y * i /\ y * i \in Nat /\ y * s \in Nat /\ s + i \in Nat
    BY <1>1, <1>5
  <2> QED BY <1>1, <1>2, <1>5, <2>1, ByteOrder
<1> DEFINE r == IF s + i >= pk THEN (s + i) - pk ELSE s + i
<1>8. Rings!QuantizedAt(i * y + b) = quantized[y * r + b] /\ r \in Nat /\ r < pk
  <2>1. CASE s + i >= pk
    <3>1. y * ((s + i) - pk) = y * (s + i) - y * pk
      BY <1>1, <1>7
    <3>2. start + (i * y + b) >= bl
      BY <1>1, <1>7, <2>1
    <3>3. (start + (i * y + b)) - bl = y * r + b
      BY <1>1, <1>5, <1>7, <2>1, <3>1
    <3>4. r \in Nat /\ r < pk
      BY <1>1, <1>5, <1>6, <2>1
    <3> QED BY <1>4, <3>2, <3>3, <3>4
  <2>2. CASE ~(s + i >= pk)
    <3>1. ~(start + (i * y + b) >= bl)
      BY <1>1, <1>7, <2>2
    <3> QED BY <1>1, <1>4, <1>7, <2>2, <3>1
  <2> QED BY <2>1, <2>2
<1> HIDE DEF r
<1>9. CASE backend = "packed"
  <2>1. /\ \A j \in 0 .. (pk - 1), b1 \in 0 .. (y - 1) : packed[j][b1] = quantized[y * j + b1]
        /\ \A j \in 0 .. (la - 1) : packed[pk + j] = packed[j]
    BY <1>9 DEF PackedInv, pk, y, la
  <2>2. Rings!SearchByte(i) = packed[s + i]
    BY <1>2, <1>9 DEF Rings!SearchByte
  <2>3. packed[s + i] = packed[r]
    <3>1. CASE s + i >= pk
      <4>1. r = (s + i) - pk /\ r \in 0 .. (la - 1) /\ s + i = pk + r
        BY <1>1, <1>5, <1>6, <3>1 DEF r
      <4> QED BY <2>1, <4>1
    <3>2. CASE ~(s + i >= pk)
      BY <3>2 DEF r
    <3> QED BY <3>1, <3>2
  <2>4. r \in 0 .. (pk - 1)
    BY <1>1, <1>8
  <2> QED BY <1>5, <1>8, <2>1, <2>2, <2>3, <2>4 DEF y
<1>10. CASE backend # "packed"
  <2> DEFINE needed == (g + y - 1) \div y
             before == bl - start
             first == before \div y
             from == IF needed * y <= before \/ i < first THEN start + i * y ELSE (i - first) * y
  <2>1. Rings!SearchByte(i)[b] = quantized[from + b]
    BY <1>5, <1>10 DEF Rings!SearchByte, Rings!PackRing, g, y, bl
  <2>2. first = pk - s
    <3>1. before = y * (pk - s) /\ pk - s \in Nat
      BY <1>1, <1>2, <1>5, <1>6
    <3> QED BY <1>1, <3>1, MultipleDiv
  <2>3. needed = la
    <3> DEFINE z == g + y - 1
               w == z \div y
               v == z % y
    <3>1. z \in Nat
      BY <1>1
    <3>2. w \in Nat /\ v \in 0 .. (y - 1) /\ z = y * w + v
      BY <1>1, <3>1, Divided
    <3>3. z = y * la + (y - 1)
      BY <1>1
    <3> HIDE DEF z, w, v
    <3>4. y * w \in Nat /\ y * la \in Nat
      BY <1>1, <3>2
    <3>5. CASE w < la
      <4>1. y * w + y <= y * la
        BY <1>1, <3>2, <3>5, ProductGrows
      <4> QED BY <1>1, <3>2, <3>3, <3>4, <4>1
    <3>6. CASE la < w
      <4>1. y * la + y <= y * w
        BY <1>1, <3>2, <3>6, ProductGrows
      <4> QED BY <1>1, <3>2, <3>3, <3>4, <4>1
    <3>7. CASE w = la
      BY <3>7 DEF w, z
    <3> QED BY <1>1, <3>2, <3>5, <3>6, <3>7
  <2> HIDE DEF needed, first
  <2>4. from = y * r
    <3>1. y * (s + i) = y * s + y * i /\ i * y = y * i /\ y * i \in Nat /\ y * s \in Nat
      BY <1>1, <1>5
    <3>2. CASE s + i < pk
      <4>1. i < first /\ r = s + i
        BY <1>1, <1>5, <2>2, <3>2 DEF r
      <4> QED BY <1>1, <1>2, <3>1, <4>1
    <3>3. CASE ~(s + i < pk)
      <4>1. ~(i < first) /\ r = (s + i) - pk /\ i - first = r /\ r \in Nat
        BY <1>1, <1>5, <2>2, <3>3 DEF r
      <4>2. pk - s < la /\ pk - s \in Nat
        BY <1>1, <1>5, <1>6, <3>3
      <4>3. y * (pk - s) + y <= y * la /\ y * (pk - s) \in Nat /\ y * la \in Nat
        BY <1>1, <4>2, ProductGrows
      <4>4. y * (pk - s) = before
        BY <1>1, <1>2, <1>5, <1>6
      <4>5. needed * y = y * la
        BY <1>1, <2>3
      <4> HIDE DEF before
      <4>6. ~(needed * y <= before)
        BY <1>1, <4>3, <4>4, <4>5
      <4>7. r * y = y * r
        BY <1>1, <4>1
      <4> QED BY <4>1, <4>6, <4>7
    <3> QED BY <1>1, <1>5, <3>2, <3>3
  <2> QED BY <1>8, <2>1, <2>4 DEF y
<1> QED BY <1>9, <1>10

(* A window across the end of a block lies in the overlap of the next.     *)
LEMMA WindowReads ==
  ASSUME IndexInv, SignalInv, ~Rings!Short, NEW length \in 1 .. Rings!Overlap,
         NEW i \in 0 .. (Rings!BufferLength - length), NEW k \in 0 .. (length - 1)
  PROVE  signal[Rings!WindowStart(i, length) + k] =
           Rings!Fresh(Rings!End - Rings!BufferLength + 1 + i + k)
<1> DEFINE bs == Rings!BlockSize
           bl == Rings!BufferLength
           o == Rings!Overlap
           st == Rings!Stride
           n == Rings!BlockCount
           gap == Rings!Gap
           e == Rings!End
           x == gap + i
           q == x \div bs
           f == x % bs
           b == Rings!Wrapped(block + 1 + q, n)
           after == IF b + 1 = n THEN 0 ELSE b + 1
<1>1. /\ bs \in Nat \ {0} /\ bl \in Nat /\ o \in Nat /\ o <= bs /\ st = bs + o /\ st \in Nat \ {0}
      /\ n \in Nat /\ n >= 2 /\ gap \in 0 .. (bs - 1) /\ n * bs = bl + gap
      /\ e \in Nat /\ block \in 0 .. (n - 1)
  BY Lengths, Blocks, EndIs DEF IndexInv, Rings!Short
<1>2. Rings!WindowStart(i, length) = IF f + length > bs THEN after * st + o - (bs - f) ELSE b * st + o + f
  BY DEF Rings!WindowStart
<1>3. \A c \in 0 .. (n - 1), u \in 0 .. (st - 1) :
        signal[c * st + u] = Rings!Fresh(e - Age(c) * bs - st + 1 + u)
  BY DEF SignalInv
<1>4. \A c : Age(c) = IF c <= block THEN block - c ELSE block - c + n
  BY DEF Age
<1>5. b = IF block + 1 + q >= n THEN (block + 1 + q) - n ELSE block + 1 + q
  BY DEF Rings!Wrapped
<1> HIDE DEF bs, bl, o, st, n, gap, e, b
<1>6. length \in 1 .. o /\ i \in 0 .. (bl - length) /\ k \in 0 .. (length - 1)
  BY DEF o, bl
<1>7. x \in Nat /\ x + length <= n * bs
  BY <1>1, <1>6
<1>8. x = gap + i
  OBVIOUS
<1> HIDE DEF x
<1>9. q \in Nat /\ f \in 0 .. (bs - 1) /\ x = bs * q + f
  BY <1>1, <1>7, Divided
<1> HIDE DEF q, f
<1>10. bs * q \in Nat /\ bs * n = n * bs /\ bs * n \in Nat /\ q * bs = bs * q
  BY <1>1, <1>9
<1>11. q < n
  <2> SUFFICES ASSUME ~(q < n) PROVE FALSE
    OBVIOUS
  <2>1. bs * n <= bs * q
    BY <1>1, <1>9, ProductOrder
  <2> QED BY <1>1, <1>6, <1>7, <1>9, <1>10, <2>1
<1>12. b \in 0 .. (n - 1) /\ Age(b) = n - 1 - q
  BY <1>1, <1>4, <1>5, <1>9, <1>11
<1>13. CASE ~(f + length > bs)
  <2> DEFINE u == o + f + k
             a == n - 1 - q
  <2>1. u \in 0 .. (st - 1)
    BY <1>1, <1>6, <1>9, <1>13
  <2>2. a * bs = n * bs - bs - q * bs
    BY <1>1, <1>9
  <2>3. b * st \in Nat
    BY <1>1, <1>12
  <2> DEFINE v == b * st
             w == a * bs
             m == n * bs
             qb == q * bs
  <2>4. w = m - bs - qb /\ m = bl + gap /\ x = qb + f /\ qb \in Nat /\ v \in Nat
    BY <1>1, <1>9, <1>10, <2>2, <2>3
  <2>5. signal[v + u] = Rings!Fresh(e - w - st + 1 + u)
    BY <1>3, <1>12, <2>1
  <2>6. Rings!WindowStart(i, length) = v + o + f
    BY <1>2, <1>13
  <2> HIDE DEF v, w, m, qb
  <2>7. v + o + f + k = v + u /\ e - w - st + 1 + u = e - bl + 1 + i + k
    BY <1>1, <1>6, <1>8, <1>9, <2>1, <2>4
  <2> QED BY <2>5, <2>6, <2>7 DEF e, bl
<1>14. CASE f + length > bs
  <2> DEFINE u == o - (bs - f) + k
             a == n - 1 - (q + 1)
  <2>1. u \in 0 .. (st - 1)
    BY <1>1, <1>6, <1>9, <1>14
  <2>2. q + 1 < n
    <3> SUFFICES ASSUME ~(q + 1 < n) PROVE FALSE
      OBVIOUS
    <3>1. bs * n <= bs * (q + 1) /\ bs * (q + 1) = bs * q + bs
      BY <1>1, <1>9, ProductOrder
    <3> QED BY <1>1, <1>6, <1>7, <1>9, <1>10, <1>14, <3>1
  <2>3. after \in 0 .. (n - 1) /\ Age(after) = a
    BY <1>1, <1>4, <1>5, <1>9, <2>2
  <2> HIDE DEF after
  <2>4. a * bs = n * bs - 2 * bs - q * bs
    BY <1>1, <1>9
  <2>5. after * st \in Nat
    BY <1>1, <2>3
  <2> DEFINE v == after * st
             w == a * bs
             m == n * bs
             qb == q * bs
  <2>6. w = m - 2 * bs - qb /\ m = bl + gap /\ x = qb + f /\ qb \in Nat /\ v \in Nat
    BY <1>1, <1>9, <1>10, <2>4, <2>5
  <2>7. signal[v + u] = Rings!Fresh(e - w - st + 1 + u)
    BY <1>3, <2>1, <2>3
  <2>8. Rings!WindowStart(i, length) = v + o - (bs - f)
    BY <1>2, <1>14
  <2> HIDE DEF v, w, m, qb
  <2>9. v + o - (bs - f) + k = v + u /\ e - w - st + 1 + u = e - bl + 1 + i + k
    BY <1>1, <1>6, <1>8, <1>9, <2>1, <2>6
  <2> QED BY <2>7, <2>8, <2>9 DEF e, bl
<1>15. f + length > bs \/ ~(f + length > bs)
  OBVIOUS
<1> QED BY <1>13, <1>14, <1>15

(* All of it: what search, slicer and parsers read is what was received.   *)
LEMMA RingsExact ==
  ASSUME RingsInv
  PROVE  Rings!HistoryExact
<1> USE DEF RingsInv
<1> DEFINE sl == Rings!SymbolLength
           pr == Rings!PreambleLength
           pl == Rings!PacketLength
           bs == Rings!BlockSize
           bl == Rings!BufferLength
           n == Rings!BlockCount
           e == Rings!End
<1>1. /\ sl \in Nat \ {0} /\ pr \in Nat /\ pl \in Nat /\ bs \in Nat \ {0} /\ bl = pl + bs
      /\ sl <= pr /\ pr <= pl /\ pr <= bs /\ e \in Nat /\ origin \in Nat /\ origin <= e
      /\ Rings!Overlap \in Nat /\ (~Rings!Short => sl <= Rings!Overlap)
      /\ n \in Nat /\ n * bs = bl + Rings!Gap /\ Rings!Gap \in Nat
  BY Lengths, Blocks, EndIs DEF IndexInv, Rings!Short
<1>2. Rings!DecisionsExact
  BY DEF QuantizedInv
<1>3. \A i \in 0 .. (bl - 1) : Rings!QuantizedAt(i) = Rings!Fresh(e - sl - bl + 1 + i)
  BY <1>2 DEF Rings!DecisionsExact, Rings!DecisionStart
<1>4. Rings!PackedExact
  BY SearchReads DEF Rings!PackedExact
<1>5. Rings!PacketsExact
  <2> SUFFICES ASSUME NEW candidate \in 0 .. (bs - 1), NEW k \in 0 .. (cfg.packet - 1)
               PROVE  Rings!SliceWalk(candidate)[k] = Rings!Fresh(e - sl - bl + 1 + candidate + k * sl)
    BY DEF Rings!PacketsExact, Rings!DecisionStart
  <2> DEFINE m == k * sl
  <2>1. /\ Rings!SliceWalk(candidate)[k] = Rings!QuantizedAt(candidate + m)
        /\ candidate + m \in 0 .. (bl - 1)
    BY SliceWalkIs
  <2>2. m \in Nat /\ candidate \in Nat
    BY <1>1, Lengths DEF IndexInv
  <2> HIDE DEF m, sl, bl, bs, e
  <2>3. e - sl - bl + 1 + (candidate + m) = e - sl - bl + 1 + candidate + m
    BY <1>1, <2>2
  <2> QED BY <1>3, <2>1, <2>3 DEF m
<1>6. Rings!WindowsContiguous
  BY WindowReads DEF Rings!WindowsContiguous
<1>7. Rings!PayloadFollowsPreamble
  <2> SUFFICES ASSUME ~Rings!Short, NEW c \in 0 .. (bs - 1), Rings!QuantizedAt(c) # 0
               PROVE  signal[Rings!WindowStart(Rings!PayloadIdx(c), 1)] = Rings!QuantizedAt(c) + pr
    BY DEF Rings!PayloadFollowsPreamble, Rings!Cold
  <2> DEFINE i == Rings!PayloadIdx(c)
             p == e - sl - bl + 1 + c
             at == Rings!WindowStart(i, 1)
  <2>1. i = c + pr - sl
    BY DEF Rings!PayloadIdx
  <2> HIDE DEF i
  <2>2. signal[at + 0] = Rings!Fresh(e - bl + 1 + i + 0)
    <3>1. 1 \in 1 .. Rings!Overlap /\ i \in 0 .. (bl - 1) /\ 0 \in 0 .. (1 - 1)
      BY <1>1, <2>1
    <3> QED BY <3>1, WindowReads
  <2>3. p \in Int /\ e - bl + 1 + i + 0 = p + pr /\ p + pr \in Int /\ c \in 0 .. (bl - 1)
    BY <1>1, <2>1
  <2>4. Rings!QuantizedAt(c) = Rings!Fresh(p)
    BY <1>3, <2>3
  <2>5. p > origin /\ Rings!QuantizedAt(c) = p
    BY <2>3, <2>4, Received
  <2>6. p + pr > origin
    BY <1>1, <2>3, <2>5
  <2>7. signal[at + 0] = p + pr
    BY <2>2, <2>3, <2>6, Received
  <2>8. at + 0 = at
    <3>1. /\ Rings!Stride \in Nat /\ Rings!Overlap \in Nat /\ Rings!BlockSize \in Nat \ {0}
          /\ Rings!Gap \in Nat /\ block \in Nat /\ n \in Nat /\ n >= 2 /\ i \in Nat
      BY <1>1, <2>1, Blocks DEF IndexInv
    <3> DEFINE x == Rings!Gap + i
               q == x \div Rings!BlockSize
               f == x % Rings!BlockSize
               b == Rings!Wrapped(block + 1 + q, n)
               after == IF b + 1 = n THEN 0 ELSE b + 1
    <3>2. q \in Int /\ f \in Int
      BY <3>1, Divided
    <3>3. at = IF f + 1 > Rings!BlockSize THEN after * Rings!Stride + Rings!Overlap - (Rings!BlockSize - f)
               ELSE b * Rings!Stride + Rings!Overlap + f
      BY DEF Rings!WindowStart
    <3> HIDE DEF q, f, at, n
    <3>4. b \in Int /\ after \in Int
      BY <3>1, <3>2 DEF Rings!Wrapped
    <3> HIDE DEF b, after
    <3>5. b * Rings!Stride \in Int /\ after * Rings!Stride \in Int
      BY <3>1, <3>4
    <3>6. at \in Int
      BY <3>1, <3>2, <3>3, <3>5
    <3> QED BY <3>6
  <2> QED BY <2>5, <2>7, <2>8 DEF i
<1>8. Rings!WarmBeforePublish
  <2> SUFFICES ASSUME rebuilt, published, NEW i \in 0 .. (bl - 1)
               PROVE  Rings!QuantizedAt(i) = e - sl - bl + 1 + i
    BY DEF Rings!WarmBeforePublish, Rings!DecisionStart
  <2>1. replayed \in Nat /\ origin + replayed * bs = e /\ n + 1 <= replayed
    BY <1>1 DEF WarmInv
  <2> HIDE DEF sl, bl, bs, n, e, pr, pl
  <2>2. bs * (n + 1) <= bs * replayed /\ bs * (n + 1) = n * bs + bs /\ bs * replayed = replayed * bs
        /\ n * bs \in Nat /\ replayed * bs \in Nat
    BY <1>1, <2>1, ProductOrder
  <2>3. e - sl - bl + 1 + i \in Int /\ e - sl - bl + 1 + i > origin
    BY <1>1, <2>1, <2>2
  <2> QED BY <1>3, <2>3, Received
<1>9. Rings!TypeOK
  <2>1. \A i \in DOMAIN signal : signal[i] \in Nat
    <3>1. \A p \in Int : Rings!Fresh(p) \in Nat
      <4> TAKE p \in Int
      <4> QED BY <1>1, Received
    <3>2. CASE Rings!Short
      <4>1. ASSUME NEW i \in 0 .. (bs + sl - 1) PROVE signal[i] \in Nat
        <5>1. signal[i] = Rings!Fresh(e - bs - sl + 1 + i)
          BY <3>2 DEF SignalInv
        <5> HIDE DEF e, bs, sl
        <5>2. e - bs - sl + 1 + i \in Int
          BY <1>1, <4>1
        <5> QED BY <3>1, <5>1, <5>2
      <4> QED BY <3>2, <4>1 DEF SignalInv
    <3>3. CASE ~Rings!Short
      <4> DEFINE st == Rings!Stride
      <4>1. st \in Nat \ {0} /\ DOMAIN signal = 0 .. (n * st - 1) /\ block \in Nat
        BY <3>3, Blocks, <1>1 DEF SignalInv, IndexInv
      <4>2. ASSUME NEW i \in 0 .. (n * st - 1) PROVE signal[i] \in Nat
        <5> DEFINE b == i \div st
                   u == i % st
        <5>0. i \in Nat
          BY <1>1, <4>1, <4>2
        <5>1. b \in Nat /\ u \in 0 .. (st - 1) /\ i = st * b + u
          BY <4>1, <5>0, Divided
        <5>2. \A c \in 0 .. (n - 1), w \in 0 .. (st - 1) :
                signal[c * st + w] = Rings!Fresh(e - Age(c) * bs - st + 1 + w)
          BY <3>3 DEF SignalInv
        <5>3. Age(b) = IF b <= block THEN block - b ELSE block - b + n
          BY DEF Age
        <5> HIDE DEF b, u, st, n, bs, e
        <5>4. b < n
          <6> SUFFICES ASSUME ~(b < n) PROVE FALSE
            OBVIOUS
          <6>1. st * n <= st * b /\ st * n = n * st /\ st * n \in Nat /\ st * b \in Nat
            BY <1>1, <4>1, <5>1, ProductOrder
          <6> QED BY <1>1, <4>1, <4>2, <5>1, <6>1
        <5>5. b * st = st * b
          BY <4>1, <5>1
        <5>6. signal[i] = Rings!Fresh(e - Age(b) * bs - st + 1 + u)
          BY <1>1, <5>1, <5>2, <5>4, <5>5
        <5>7. Age(b) \in Int
          BY <1>1, <4>1, <5>1, <5>3
        <5>8. e - Age(b) * bs - st + 1 + u \in Int
          BY <1>1, <4>1, <5>1, <5>7
        <5> QED BY <3>1, <5>6, <5>8
      <4> QED BY <4>1, <4>2
    <3> QED BY <3>2, <3>3
  <2> QED BY <2>1 DEF Rings!TypeOK, IndexInv, QuantizedInv
<1> QED BY <1>2, <1>4, <1>5, <1>6, <1>7, <1>8, <1>9 DEF Rings!HistoryExact

LEMMA RingsKept ==
  ASSUME RingsInv, UNCHANGED historyVars
  PROVE  RingsInv'
<1>1. UNCHANGED <<cfg, backend, signal, block, quantized, start, packed, packedStart, next, origin,
                  rebuilt, replayed, published>>
  BY DEF historyVars
<1>2. /\ Rings!SymbolLength' = Rings!SymbolLength /\ Rings!BlockSize' = Rings!BlockSize
      /\ Rings!BufferLength' = Rings!BufferLength /\ Rings!Short' = Rings!Short
      /\ Rings!Stride' = Rings!Stride /\ Rings!BlockCount' = Rings!BlockCount
      /\ Rings!PackedLength' = Rings!PackedLength /\ Rings!Lookahead' = Rings!Lookahead
  BY <1>1, SameLengths
<1>3. Rings!End' = Rings!End
  BY <1>1, <1>2 DEF Rings!End
<1>4. IndexInv'
  BY <1>1, <1>2, <1>3 DEF RingsInv, IndexInv
<1>5. SignalInv'
  BY <1>1, <1>2, <1>3, Zenon DEF RingsInv, SignalInv, Age, Rings!Fresh, Rings!Cold
<1>6. QuantizedInv'
  <2>1. Rings!DecisionsExact'
    BY <1>1, <1>2, <1>3, Zenon DEF RingsInv, QuantizedInv, Rings!DecisionsExact, Rings!QuantizedAt, Rings!Wrapped,
       Rings!DecisionStart, Rings!Fresh, Rings!Cold
  <2> QED BY <1>1, <1>2, <2>1 DEF RingsInv, QuantizedInv
<1>7. PackedInv' /\ WarmInv'
  BY <1>1, <1>2, <1>3 DEF RingsInv, PackedInv, WarmInv
<1> QED BY <1>4, <1>5, <1>6, <1>7 DEF RingsInv

(* The invariant of the decoder's histories, on every back end, for every  *)
(* geometry and any number of blocks and rebuilds: where the ring indices  *)
(* stand (appendQuantized, commitPackedOutput), and which sample every     *)
(* entry of the magnitudes and of both rings of decisions belongs to.      *)
THEOREM RingsInvariant == PathSpec => []RingsInv
<1>1. PathInit => RingsInv
  BY RingsInit DEF PathInit
<1>2. ASSUME RingsInv, [PathNext]_all PROVE RingsInv'
  <2>1. CASE RingsStep
    <3>1. Rings!Decode \/ \E from \in 0 .. DecodedBlocks : Rings!Rebuild(from)
      BY <2>1 DEF RingsStep, Rings!Next
    <3> QED BY <1>2, <3>1, DecodeInv, RebuildInv
  <2>2. CASE UNCHANGED historyVars
    BY <1>2, <2>2, RingsKept
  <2> QED BY <1>2, <2>1, <2>2 DEF PathNext, all, DispatchStep, CheckStep, OutputStep, DatabaseStep
<1> QED BY <1>1, <1>2, PTL DEF PathSpec

(* Whatever the packet, block and overlap lengths, the decisions searched, *)
(* the packets sliced and the magnitudes the parsers read are those of the *)
(* last samples in order, none of them mixed with samples from before a    *)
(* reset, on the float, power16 and packed back ends, and a rebuilt        *)
(* decoder publishes nothing before its window is warm (Decode, slice,     *)
(* SignalWindow, packQuantizedRing, rebuildDutyDecoder).                   *)
THEOREM HistoryExactThm == PathSpec => []HistoryExact
<1>1. RingsInv => HistoryExact
  BY RingsExact DEF HistoryExact
<1> QED BY <1>1, RingsInvariant, PTL
-----------------------------------------------------------------------------
(* The loop over the messages of a block.                                  *)

LEMMA MaxIsNewest ==
  ASSUME NEW k \in Nat, NEW s \in SUBSET (1 .. k + 1), k + 1 \in s
  PROVE  Output!Max(s) = k + 1
<1>1. \A y \in s : k + 1 >= y
  OBVIOUS
<1>2. \A x \in s : (\A y \in s : x >= y) => x = k + 1
  OBVIOUS
<1> QED BY <1>1, <1>2 DEF Output!Max

\* g[s] is the state of the loop after the messages with indices in s.
MessageRun(g, n, base, msgs) ==
  g = [s \in SUBSET (1 .. n) |->
         IF s = {} THEN base
         ELSE Output!HandleMessage(g[s \ {Output!Max(s)}], msgs[Output!Max(s)])]

LEMMA MessageRunExists ==
  ASSUME NEW base, NEW msgs, NEW n \in Nat
  PROVE  \E g : MessageRun(g, n, base, msgs)
<1> DEFINE S == {k \in Nat : \E g : MessageRun(g, k, base, msgs)}
<1>1. 0 \in S
  <2> DEFINE g == [s \in SUBSET (1 .. 0) |-> base]
  <2>1. \A s \in SUBSET (1 .. 0) : s = {}
    OBVIOUS
  <2>2. g = [s \in SUBSET (1 .. 0) |->
               IF s = {} THEN base
               ELSE Output!HandleMessage(g[s \ {Output!Max(s)}], msgs[Output!Max(s)])]
    BY <2>1
  <2> QED BY <2>2 DEF MessageRun
<1>2. ASSUME NEW k \in Nat, k \in S PROVE k + 1 \in S
  <2>1. PICK g : MessageRun(g, k, base, msgs)
    BY <1>2
  <2> DEFINE
        h == [s \in SUBSET (1 .. k + 1) |->
                IF k + 1 \in s THEN Output!HandleMessage(g[s \ {k + 1}], msgs[k + 1]) ELSE g[s]]
        f == [s \in SUBSET (1 .. k + 1) |->
                IF s = {} THEN base
                ELSE Output!HandleMessage(h[s \ {Output!Max(s)}], msgs[Output!Max(s)])]
  <2>2. ASSUME NEW s \in SUBSET (1 .. k + 1)
        PROVE  h[s] = IF s = {} THEN base
                      ELSE Output!HandleMessage(h[s \ {Output!Max(s)}], msgs[Output!Max(s)])
    <3>1. CASE k + 1 \in s
      <4>1. Output!Max(s) = k + 1
        BY <3>1, MaxIsNewest
      <4>2. s \ {k + 1} \in SUBSET (1 .. k + 1) /\ k + 1 \notin s \ {k + 1}
        OBVIOUS
      <4>3. h[s \ {k + 1}] = g[s \ {k + 1}]
        BY <4>2
      <4>4. h[s] = Output!HandleMessage(g[s \ {k + 1}], msgs[k + 1])
        BY <3>1
      <4> QED BY <3>1, <4>1, <4>3, <4>4
    <3>2. CASE k + 1 \notin s
      <4>1. s \in SUBSET (1 .. k)
        BY <3>2
      <4>2. h[s] = g[s]
        BY <3>2
      <4>3. g[s] = IF s = {} THEN base
                   ELSE Output!HandleMessage(g[s \ {Output!Max(s)}], msgs[Output!Max(s)])
        BY <2>1, <4>1 DEF MessageRun
      <4>4. h[s \ {Output!Max(s)}] = g[s \ {Output!Max(s)}]
        BY <3>2
      <4> QED BY <4>2, <4>3, <4>4
    <3> QED BY <3>1, <3>2
  <2>3. \A s \in SUBSET (1 .. k + 1) : h[s] = f[s]
    BY <2>2
  <2>4. h = [s \in SUBSET (1 .. k + 1) |-> h[s]] /\ f = [s \in SUBSET (1 .. k + 1) |-> f[s]]
    OBVIOUS
  <2>5. h = f
    <3> HIDE DEF h, f
    <3> QED BY <2>3, <2>4
  <2>6. MessageRun(h, k + 1, base, msgs)
    <3> HIDE DEF h
    <3> QED BY <2>5 DEF MessageRun
  <2> QED BY <2>6
<1> HIDE DEF S
<1>3. n \in S
  BY <1>1, <1>2, SetInduction
<1> QED BY <1>3 DEF S

\* The state of the loop before the first message.
Loop == [ids |-> ids, last |-> last, next |-> {}, log |-> log, found |-> FALSE,
         done |-> FALSE, length |-> Output!Window(sampleLength)]

LEMMA HandledRun ==
  ASSUME NEW n \in Nat, NEW msgs, DOMAIN msgs = 1 .. n
  PROVE  \E g : /\ g[1 .. 0] = Loop /\ Output!Handled(msgs) = g[1 .. n]
                /\ \A k \in 0 .. n - 1 :
                     g[1 .. k + 1] = Output!HandleMessage(g[1 .. k], msgs[k + 1])
<1> DEFINE
      Body(g, s) == IF s = {} THEN Loop
                    ELSE Output!HandleMessage(g[s \ {Output!Max(s)}], msgs[Output!Max(s)])
      g == CHOOSE f : f = [s \in SUBSET DOMAIN msgs |-> Body(f, s)]
<1>1. Output!Handled(msgs) = g[DOMAIN msgs]
  BY Zenon DEF Output!Handled, Loop, Output!FoldLeft, Output!MapThenFoldSet
<1>2. PICK h : MessageRun(h, n, Loop, msgs)
  BY MessageRunExists
<1>3. h = [s \in SUBSET DOMAIN msgs |-> Body(h, s)]
  BY <1>2, Zenon DEF MessageRun
<1> HIDE DEF Body
<1>4. g = [s \in SUBSET DOMAIN msgs |-> Body(g, s)]
  BY <1>3, Zenon
<1> HIDE DEF g
<1>5. g[1 .. 0] = Loop
  <2>1. 1 .. 0 = {} /\ {} \in SUBSET DOMAIN msgs
    OBVIOUS
  <2>2. g[{}] = Body(g, {})
    BY <1>4, <2>1, Zenon
  <2> QED BY <2>1, <2>2 DEF Body
<1>6. ASSUME NEW k \in 0 .. n - 1
      PROVE  g[1 .. k + 1] = Output!HandleMessage(g[1 .. k], msgs[k + 1])
  <2>1. /\ 1 .. k + 1 \in SUBSET (1 .. k + 1) /\ k + 1 \in 1 .. k + 1 /\ k \in Nat
        /\ 1 .. k + 1 \in SUBSET DOMAIN msgs /\ 1 .. k + 1 # {}
    <3>1. k \in Nat /\ k + 1 \in 1 .. k + 1 /\ 1 .. k + 1 \subseteq 1 .. n
      OBVIOUS
    <3> QED BY <3>1, Zenon
  <2>2. (1 .. k + 1) \ {k + 1} = 1 .. k
    OBVIOUS
  <2>3. Output!Max(1 .. k + 1) = k + 1
    BY <2>1, MaxIsNewest
  <2>4. g[1 .. k + 1] = Body(g, 1 .. k + 1)
    BY <1>4, <2>1, Zenon
  <2> QED BY <2>1, <2>2, <2>3, <2>4 DEF Body
<1> QED BY <1>1, <1>5, <1>6

-----------------------------------------------------------------------------
(* What is printed.                                                        *)

\* A sequence, whatever its elements.
IsSequence(s) == s \in Seq({s[i] : i \in DOMAIN s})

LEMMA Appended ==
  ASSUME NEW s, NEW x, IsSequence(s)
  PROVE  /\ IsSequence(Append(s, x)) /\ Len(s) \in Nat /\ DOMAIN s = 1 .. Len(s)
         /\ Len(Append(s, x)) = Len(s) + 1 /\ DOMAIN Append(s, x) = 1 .. Len(s) + 1
         /\ \A i \in 1 .. Len(s) : Append(s, x)[i] = s[i]
         /\ Append(s, x)[Len(s) + 1] = x
         /\ \A i \in 1 .. Len(s) + 1 : SubSeq(Append(s, x), 1, i - 1) = SubSeq(s, 1, i - 1)
<1> DEFINE E == {s[i] : i \in DOMAIN s} \cup {x}
<1>1. s \in Seq(E)
  <2>1. s \in Seq({s[i] : i \in DOMAIN s}) /\ {s[i] : i \in DOMAIN s} \subseteq E
    BY DEF IsSequence
  <2> HIDE DEF E
  <2> QED BY <2>1
<1> HIDE DEF E
<1>2. x \in E
  BY DEF E
<1>3. /\ Append(s, x) \in Seq(E) /\ Len(s) \in Nat /\ DOMAIN s = 1 .. Len(s)
      /\ Len(Append(s, x)) = Len(s) + 1 /\ DOMAIN Append(s, x) = 1 .. Len(s) + 1
      /\ \A i \in 1 .. Len(s) : Append(s, x)[i] = s[i]
      /\ Append(s, x)[Len(s) + 1] = x
  BY <1>1, <1>2
<1> DEFINE t == Append(s, x)
<1> HIDE DEF t
<1>4. t \in Seq(E) => t \in Seq({t[i] : i \in DOMAIN t})
  OBVIOUS
<1>5. ASSUME NEW i \in 1 .. Len(s) + 1 PROVE SubSeq(t, 1, i - 1) = SubSeq(s, 1, i - 1)
  BY <1>1, <1>3, <1>5 DEF t
<1> QED BY <1>3, <1>4, <1>5 DEF IsSequence, t

OutputKind ==
  /\ flags \in CommandLines /\ ids \subseteq flags.filter
  /\ last \in [Meters -> Sums \cup {Output!NoSum}] /\ prev \subseteq Output!Messages
  /\ position \in Nat /\ sampleLength \in 0 .. position
  /\ sampleLength = position \/ sampleLength > 2 * LookBack
  /\ ended \in BOOLEAN /\ failed \in BOOLEAN /\ (failed => ended)
  /\ IsSequence(log) /\ IsSequence(dump)

\* -single with -filterid: a meter that is still in the filter has printed
\* nothing, one that is not exactly one message.
Printed(l, left) ==
  flags.single /\ flags.filter # {} =>
    \A m \in flags.filter :
      /\ m \in left => \A i \in DOMAIN l : l[i].msg.meter # m
      /\ m \notin left => \E i \in DOMAIN l : \A j \in DOMAIN l : l[j].msg.meter = m <=> j = i

\* What the next block can tell of the messages of this one.
LogInv ==
  \A i \in DOMAIN log :
    /\ log[i].msg \in Output!Messages /\ log[i].at \in 0 .. position
    /\ ~ended /\ log[i].at = position => log[i].msg \in prev

SingleInv ==
  /\ Printed(log, ids)
  /\ flags.single /\ ended /\ ~failed => ids = {}
  /\ flags.single /\ flags.samples /\ ~ended => IF flags.filter = {} THEN log = <<>> ELSE ids # {}
  /\ flags.single /\ ~flags.samples /\ ended => failed

\* The entry of the log names the bytes of the sample file that hold its
\* packet.
CoveredBy(e, d) ==
  \E j \in DOMAIN d :
    LET before == Output!FoldLeft(LAMBDA n, q : n + q.to - q.from, 0, SubSeq(d, 1, j - 1))
    IN /\ e.offset = before /\ e.length = d[j].to - d[j].from /\ d[j].to = e.at
       /\ d[j].from = 0 \/ e.length >= 2 * LookBack

SampleInv == flags.samples /\ ~failed => \A i \in DOMAIN log : CoveredBy(log[i], dump)

OutputInv ==
  OutputKind /\ LogInv /\ SingleInv /\ Output!SpanningOnce /\ SampleInv

\* The state of the loop after some of the messages: the log has grown by
\* messages of this block that the block before did not have.
LoopInv(st) ==
  /\ DOMAIN st = {"ids", "last", "next", "log", "found", "done", "length"}
  /\ st.ids \subseteq ids /\ st.last \in [Meters -> Sums \cup {Output!NoSum}]
  /\ st.next \subseteq Output!Messages /\ st.found \in BOOLEAN /\ st.done \in BOOLEAN
  /\ st.length = Output!Window(sampleLength)
  /\ IsSequence(st.log) /\ Len(st.log) \in Nat /\ Len(st.log) >= Len(log)
  /\ st.found <=> Len(st.log) > Len(log)
  /\ ~st.found => st.ids = ids /\ st.log = log
  /\ \A i \in 1 .. Len(log) : st.log[i] = log[i]
  /\ \A i \in Len(log) + 1 .. Len(st.log) :
       /\ st.log[i].offset = Output!Written /\ st.log[i].length = Output!Window(sampleLength)
       /\ st.log[i].at = position + OutputBytes
       /\ st.log[i].msg \in st.next /\ st.log[i].msg \notin prev
  /\ Printed(st.log, st.ids)

LEMMA FlagTypes ==
  ASSUME flags \in CommandLines
  PROVE  /\ flags.filter \subseteq Meters /\ flags.unique \in BOOLEAN /\ flags.single \in BOOLEAN
         /\ flags.samples \in BOOLEAN /\ Air[flags] \subseteq Output!Messages
         /\ OutputBytes \in Nat \ {0} /\ LookBack \in Nat /\ OutputBlocks[flags] \in Nat
BY PathAssumption DEF PathAssumption, Output!OutputAssumption

LEMMA LoopStep ==
  ASSUME OutputKind, NEW st, LoopInv(st), NEW msg \in Output!Messages
  PROVE  LoopInv(Output!HandleMessage(st, msg))
<1> DEFINE
      LastSums == IF flags.unique THEN [st.last EXCEPT ![msg.meter] = msg.sum] ELSE st.last
      Passed == st.next \cup {msg}
      e == [msg |-> msg, offset |-> Output!Written, length |-> st.length, at |-> position + OutputBytes]
      p == [st EXCEPT !.last = LastSums, !.next = Passed]
      r == [p EXCEPT !.log = Append(st.log, e), !.found = TRUE,
                     !.done = flags.single /\ st.ids = {}, !.ids = Output!Consume(st, msg)]
<1>0. /\ msg.meter \in Meters /\ msg.sum \in Sums
      /\ flags.filter \subseteq Meters /\ flags.single \in BOOLEAN /\ position + OutputBytes \in Nat
  BY FlagTypes DEF OutputKind, Output!Messages
<1>1. LastSums \in [Meters -> Sums \cup {Output!NoSum}] /\ Passed \subseteq Output!Messages
  BY <1>0 DEF LoopInv
<1> HIDE DEF LastSums, Passed
<1>2. /\ p.ids = st.ids /\ p.last = LastSums /\ p.next = Passed /\ p.log = st.log
      /\ p.found = st.found /\ p.done = st.done /\ p.length = st.length
      /\ DOMAIN p = DOMAIN st
  BY DEF LoopInv
<1>3. LoopInv(p)
  <2>2. st.next \subseteq Passed
    BY DEF Passed
  <2> HIDE DEF p
  <2> QED BY <1>1, <1>2, <2>2 DEF LoopInv
<1>4. ASSUME Output!IdMatch(st, msg), msg \notin prev PROVE LoopInv(r)
  <2> DEFINE C == Output!Consume(st, msg)
             D == (flags.single /\ st.ids = {})
             l == Append(st.log, e)
  <2>1. IsSequence(st.log)
    BY DEF LoopInv
  <2>2. /\ IsSequence(l) /\ Len(st.log) \in Nat /\ DOMAIN st.log = 1 .. Len(st.log)
        /\ Len(l) = Len(st.log) + 1 /\ DOMAIN l = 1 .. Len(st.log) + 1
        /\ \A i \in 1 .. Len(st.log) : l[i] = st.log[i]
        /\ l[Len(st.log) + 1] = e
    BY <2>1, Appended
  <2>3. e.msg = msg /\ e.offset = Output!Written /\ e.length = Output!Window(sampleLength)
        /\ e.at = position + OutputBytes
    BY DEF LoopInv
  <2> HIDE DEF e, l
  <2>4. C \subseteq st.ids /\ (flags.single => C = st.ids \ {msg.meter})
    BY DEF Output!Consume
  <2> HIDE DEF C
  <2>6. /\ r.ids = C /\ r.last = LastSums /\ r.next = Passed /\ r.log = l
        /\ r.found = TRUE /\ r.done = D /\ r.length = st.length /\ DOMAIN r = DOMAIN st
    <3> HIDE DEF p, D
    <3>1. DOMAIN p = {"ids", "last", "next", "log", "found", "done", "length"}
      BY <1>2 DEF LoopInv
    <3>2. r = [p EXCEPT !.log = l, !.found = TRUE, !.done = D, !.ids = C]
      BY Zenon DEF l, D, C
    <3> HIDE DEF r
    <3> QED BY <1>2, <3>1, <3>2
  <2>7. Printed(l, C)
    <3> SUFFICES ASSUME flags.single, flags.filter # {}, NEW m \in flags.filter
                 PROVE  /\ m \in C => \A i \in DOMAIN l : l[i].msg.meter # m
                        /\ m \notin C => \E i \in DOMAIN l : \A j \in DOMAIN l : l[j].msg.meter = m <=> j = i
      BY DEF Printed
    <3>1. msg.meter \in st.ids
      BY <1>4 DEF Output!IdMatch
    <3>2. /\ m \in st.ids => \A i \in DOMAIN st.log : st.log[i].msg.meter # m
          /\ m \notin st.ids => \E i \in DOMAIN st.log : \A j \in DOMAIN st.log : st.log[j].msg.meter = m <=> j = i
      BY DEF LoopInv, Printed
    <3>3. CASE m = msg.meter
      <4>1. m \notin C /\ \A i \in 1 .. Len(st.log) : l[i].msg.meter # m
        BY <2>2, <2>4, <3>1, <3>2, <3>3
      <4>2. \A j \in DOMAIN l : l[j].msg.meter = m <=> j = Len(st.log) + 1
        BY <2>2, <2>3, <3>3, <4>1
      <4>3. Len(st.log) + 1 \in DOMAIN l
        BY <2>2
      <4> QED BY <4>1, <4>2, <4>3
    <3>4. CASE m # msg.meter
      <4>1. m \in C <=> m \in st.ids
        BY <2>4, <3>4
      <4>2. l[Len(st.log) + 1].msg.meter # m
        BY <2>2, <2>3, <3>4
      <4>3. CASE m \in st.ids
        BY <2>2, <3>2, <4>1, <4>2, <4>3
      <4>4. CASE m \notin st.ids
        <5>1. PICK i \in DOMAIN st.log : \A j \in DOMAIN st.log : st.log[j].msg.meter = m <=> j = i
          BY <3>2, <4>4
        <5>2. i \in 1 .. Len(st.log) /\ i # Len(st.log) + 1 /\ i \in DOMAIN l
          BY <2>2
        <5>3. ASSUME NEW j \in DOMAIN l PROVE l[j].msg.meter = m <=> j = i
          <6>1. CASE j = Len(st.log) + 1
            BY <4>2, <5>2, <6>1
          <6>2. CASE j # Len(st.log) + 1
            <7>1. j \in DOMAIN st.log /\ l[j] = st.log[j]
              BY <2>2, <6>2
            <7> QED BY <5>1, <7>1
          <6> QED BY <6>1, <6>2
        <5> QED BY <4>1, <4>4, <5>2, <5>3
      <4> QED BY <4>3, <4>4
    <3> QED BY <3>3, <3>4
  <2>8. Len(log) \in Nat
    BY Appended DEF OutputKind
  <2>9. \A i \in 1 .. Len(log) : l[i] = log[i]
    BY <2>2, <2>8 DEF LoopInv
  <2>10. \A i \in Len(log) + 1 .. Len(l) :
           /\ l[i].offset = Output!Written /\ l[i].length = Output!Window(sampleLength)
           /\ l[i].at = position + OutputBytes
           /\ l[i].msg \in Passed /\ l[i].msg \notin prev
    <3> TAKE i \in Len(log) + 1 .. Len(l)
    <3>1. CASE i = Len(st.log) + 1
      BY <1>4, <2>2, <2>3, <3>1 DEF Passed
    <3>2. CASE i # Len(st.log) + 1
      <4>1. i \in Len(log) + 1 .. Len(st.log) /\ l[i] = st.log[i]
        BY <2>2, <2>8, <3>2
      <4>2. st.next \subseteq Passed
        BY DEF Passed
      <4> QED BY <4>1, <4>2 DEF LoopInv
    <3> QED BY <3>1, <3>2
  <2>11. D \in BOOLEAN /\ Len(l) \in Nat /\ Len(l) > Len(log)
    BY <2>2, <2>8 DEF LoopInv
  <2> HIDE DEF r, D
  <2>12. r.ids \subseteq ids /\ r.length = Output!Window(sampleLength)
    BY <2>4, <2>6 DEF LoopInv
  <2>13. DOMAIN r = {"ids", "last", "next", "log", "found", "done", "length"}
    BY <2>6 DEF LoopInv
  <2>14. Printed(r.log, r.ids)
    BY <2>6, <2>7
  <2>15. r.found \in BOOLEAN /\ r.done \in BOOLEAN /\ r.found
         /\ (r.found <=> Len(r.log) > Len(log))
         /\ (~r.found => r.ids = ids /\ r.log = log)
    <3>1. r.found /\ r.found \in BOOLEAN /\ r.done \in BOOLEAN
      BY <2>6, <2>11, Zenon
    <3>2. Len(r.log) > Len(log)
      BY <2>6, <2>11
    <3> QED BY <3>1, <3>2
  <2>16. /\ r.last \in [Meters -> Sums \cup {Output!NoSum}] /\ r.next \subseteq Output!Messages
         /\ IsSequence(r.log) /\ Len(r.log) \in Nat /\ Len(r.log) >= Len(log)
    BY <1>1, <2>2, <2>6, <2>8, <2>11
  <2> QED BY <2>6, <2>9, <2>10, <2>12, <2>13, <2>14, <2>15, <2>16 DEF LoopInv
<1>5. Output!HandleMessage(st, msg) =
        IF st.done \/ ~Output!IdMatch(st, msg) \/ ~Output!Fresh(st, msg) THEN st
        ELSE IF Output!Seen(msg) THEN p ELSE r
  BY <1>2, Zenon DEF Output!HandleMessage, LastSums, Passed, e
<1> HIDE DEF p, r
<1> QED BY <1>3, <1>4, <1>5 DEF Output!Seen

LEMMA HandledInv ==
  ASSUME OutputKind, Printed(log, ids),
         NEW n \in Nat, NEW msgs, DOMAIN msgs = 1 .. n, \A i \in 1 .. n : msgs[i] \in Output!Messages
  PROVE  LoopInv(Output!Handled(msgs))
<1>1. PICK g : /\ g[1 .. 0] = Loop /\ Output!Handled(msgs) = g[1 .. n]
               /\ \A k \in 0 .. n - 1 : g[1 .. k + 1] = Output!HandleMessage(g[1 .. k], msgs[k + 1])
  BY HandledRun
<1> DEFINE S == {k \in Nat : k <= n => LoopInv(g[1 .. k])}
<1>2. 0 \in S
  <2>1. /\ Loop.ids = ids /\ Loop.last = last /\ Loop.next = {} /\ Loop.log = log
        /\ Loop.found = FALSE /\ Loop.done = FALSE /\ Loop.length = Output!Window(sampleLength)
        /\ DOMAIN Loop = {"ids", "last", "next", "log", "found", "done", "length"}
    BY DEF Loop
  <2>2. Len(log) \in Nat /\ IsSequence(log)
    BY Appended DEF OutputKind
  <2>3. LoopInv(Loop)
    <3>1. Printed(Loop.log, Loop.ids)
      BY <2>1
    <3>2. ~Loop.found /\ Loop.found \in BOOLEAN /\ Loop.done \in BOOLEAN
      BY <2>1, Zenon
    <3>3. ~(Len(Loop.log) > Len(log)) /\ \A i \in Len(log) + 1 .. Len(Loop.log) : FALSE
      BY <2>1, <2>2
    <3> QED BY <2>1, <2>2, <3>1, <3>2, <3>3 DEF LoopInv, OutputKind
  <2> QED BY <1>1, <2>3
<1>3. ASSUME NEW k \in Nat, k \in S PROVE k + 1 \in S
  <2> SUFFICES ASSUME k + 1 <= n PROVE LoopInv(g[1 .. k + 1])
    OBVIOUS
  <2>1. k \in 0 .. n - 1 /\ k + 1 \in 1 .. n /\ LoopInv(g[1 .. k])
    BY <1>3
  <2>2. g[1 .. k + 1] = Output!HandleMessage(g[1 .. k], msgs[k + 1]) /\ msgs[k + 1] \in Output!Messages
    BY <1>1, <2>1
  <2> QED BY <2>1, <2>2, LoopStep
<1> HIDE DEF S
<1>4. n \in S
  BY <1>2, <1>3, SetInduction
<1> QED BY <1>1, <1>4 DEF S

\* The messages a block may decode to.
LEMMA DecodesAre ==
  ASSUME flags \in CommandLines, NEW msgs \in Output!Decodes
  PROVE  \E n \in Nat : /\ DOMAIN msgs = 1 .. n /\ msgs \in Seq(Output!Messages)
                        /\ \A i \in 1 .. n : msgs[i] \in Output!Messages
<1>1. PICK n \in 0 .. 2 : msgs \in [1 .. n -> Air[flags]]
  BY DEF Output!Decodes
<1>2. Air[flags] \subseteq Output!Messages
  BY FlagTypes
<1>3. n \in Nat /\ DOMAIN msgs = 1 .. n /\ \A i \in 1 .. n : msgs[i] \in Output!Messages
  BY <1>1, <1>2
<1>4. msgs \in Seq(Output!Messages)
  BY <1>1, <1>3
<1> QED BY <1>3, <1>4

\* The part of a block's outcome that its log settles.
LEMMA LogNext ==
  ASSUME OutputInv, ~ended, NEW st, LoopInv(st),
         flags' = flags, position' = position + OutputBytes, log' = st.log
  PROVE  /\ \A i \in DOMAIN log' : log'[i].msg \in Output!Messages /\ log'[i].at \in 0 .. position'
         /\ \A i \in DOMAIN log' : log'[i].at = position' => log'[i].msg \in st.next
         /\ Output!SpanningOnce'
<1>1. /\ Len(log) \in Nat /\ DOMAIN log = 1 .. Len(log)
      /\ Len(st.log) \in Nat /\ DOMAIN st.log = 1 .. Len(st.log) /\ Len(st.log) >= Len(log)
  BY Appended DEF OutputInv, OutputKind, LoopInv
<1>2. position \in Nat /\ OutputBytes \in Nat \ {0}
  BY FlagTypes DEF OutputInv, OutputKind
<1>3. ASSUME NEW i \in DOMAIN log', i \in 1 .. Len(log)
      PROVE  /\ log'[i] = log[i] /\ log'[i].msg \in Output!Messages /\ log'[i].at \in 0 .. position
             /\ log'[i].at = position => log'[i].msg \in prev
  BY <1>1, <1>3 DEF OutputInv, LogInv, LoopInv
<1>4. ASSUME NEW i \in DOMAIN log', i \notin 1 .. Len(log)
      PROVE  /\ log'[i].msg \in Output!Messages /\ log'[i].at = position + OutputBytes
             /\ log'[i].msg \in st.next /\ log'[i].msg \notin prev
  <2>1. i \in Len(log) + 1 .. Len(st.log)
    BY <1>1, <1>4
  <2> QED BY <2>1 DEF LoopInv
<1>5. ASSUME NEW i \in DOMAIN log', NEW j \in DOMAIN log', i < j, log'[i].msg = log'[j].msg
      PROVE  log'[j].at - log'[i].at # OutputBytes
  <2>1. i \in Nat /\ j \in Nat
    BY <1>1
  <2>2. CASE j \in 1 .. Len(log)
    <3>1. i \in DOMAIN log /\ j \in DOMAIN log /\ log'[i] = log[i] /\ log'[j] = log[j]
      BY <1>1, <1>3, <1>5, <2>1, <2>2
    <3> QED BY <1>5, <3>1 DEF OutputInv, Output!SpanningOnce
  <2>3. CASE j \notin 1 .. Len(log) /\ i \in 1 .. Len(log)
    <3>1. log'[i].at # position
      BY <1>3, <1>4, <1>5, <2>3
    <3>2. log'[i].at \in 0 .. position /\ log'[j].at = position + OutputBytes
      BY <1>3, <1>4, <2>3
    <3> QED BY <1>2, <3>1, <3>2
  <2>4. CASE j \notin 1 .. Len(log) /\ i \notin 1 .. Len(log)
    BY <1>2, <1>4, <2>4
  <2> QED BY <2>2, <2>3, <2>4
<1>6. Output!SpanningOnce'
  BY <1>5 DEF Output!SpanningOnce
<1>7. ASSUME NEW i \in DOMAIN log'
      PROVE  /\ log'[i].msg \in Output!Messages /\ log'[i].at \in 0 .. position'
             /\ log'[i].at = position' => log'[i].msg \in st.next
  BY <1>2, <1>3, <1>4
<1> QED BY <1>6, <1>7

LEMMA SampleWindow ==
  ASSUME OutputKind, position' = position + OutputBytes, sampleLength' = Output!Window(sampleLength)
  PROVE  /\ position' \in Nat /\ sampleLength' \in 0 .. position'
         /\ sampleLength' = position' \/ sampleLength' > 2 * LookBack
<1>1. /\ position \in Nat /\ sampleLength \in 0 .. position
      /\ sampleLength = position \/ sampleLength > 2 * LookBack
      /\ OutputBytes \in Nat \ {0} /\ LookBack \in Nat
  BY FlagTypes DEF OutputKind
<1> QED BY <1>1 DEF Output!Window

(* A part of the file that holds a message stays when the file grows.      *)
LEMMA CoverGrows ==
  ASSUME NEW e, NEW d, NEW x, IsSequence(d), CoveredBy(e, d)
  PROVE  CoveredBy(e, Append(d, x))
<1>1. /\ DOMAIN d = 1 .. Len(d) /\ Len(d) \in Nat /\ DOMAIN Append(d, x) = 1 .. Len(d) + 1
      /\ \A i \in 1 .. Len(d) : Append(d, x)[i] = d[i]
      /\ \A i \in 1 .. Len(d) + 1 : SubSeq(Append(d, x), 1, i - 1) = SubSeq(d, 1, i - 1)
  BY Appended
<1> DEFINE Before(s) == Output!FoldLeft(LAMBDA n, q : n + q.to - q.from, 0, s)
<1>2. PICK j \in DOMAIN d :
        /\ e.offset = Before(SubSeq(d, 1, j - 1)) /\ e.length = d[j].to - d[j].from /\ d[j].to = e.at
        /\ d[j].from = 0 \/ e.length >= 2 * LookBack
  BY Zenon DEF CoveredBy
<1>3. j \in DOMAIN Append(d, x) /\ Append(d, x)[j] = d[j]
      /\ SubSeq(Append(d, x), 1, j - 1) = SubSeq(d, 1, j - 1)
  BY <1>1
<1> QED BY <1>2, <1>3, Zenon DEF CoveredBy

LEMMA CoveredNow ==
  ASSUME OutputKind, NEW e, NEW x, e.offset = Output!Written, e.length = x.to - x.from,
         x.to = e.at, x.from = 0 \/ e.length >= 2 * LookBack
  PROVE  CoveredBy(e, Append(dump, x))
<1>1. /\ Len(dump) \in Nat /\ DOMAIN Append(dump, x) = 1 .. Len(dump) + 1
      /\ Append(dump, x)[Len(dump) + 1] = x
      /\ SubSeq(Append(dump, x), 1, (Len(dump) + 1) - 1) = SubSeq(dump, 1, (Len(dump) + 1) - 1)
  BY Appended DEF OutputKind
<1>2. SubSeq(dump, 1, (Len(dump) + 1) - 1) = dump
  <2>1. dump \in Seq({dump[i] : i \in DOMAIN dump})
    BY DEF OutputKind, IsSequence
  <2> QED BY <2>1, <1>1
<1>3. e.offset = Output!FoldLeft(LAMBDA n, q : n + q.to - q.from, 0, dump)
  BY Zenon DEF Output!Written
<1>4. Len(dump) + 1 \in DOMAIN Append(dump, x)
  BY <1>1
<1>5. SubSeq(Append(dump, x), 1, (Len(dump) + 1) - 1) = dump
  BY <1>1, <1>2
<1> QED BY <1>1, <1>3, <1>4, <1>5, Zenon DEF CoveredBy

LEMMA CoverIs == SampleInv => Output!SamplesCoverPacket
BY Zenon DEF SampleInv, Output!SamplesCoverPacket, CoveredBy

LEMMA OutputFrame ==
  ASSUME OutputInv, ~ended, NEW st, LoopInv(st), flags' = flags, position' = position + OutputBytes,
         sampleLength' = Output!Window(sampleLength), log' = st.log, ids' = st.ids,
         last' \in [Meters -> Sums \cup {Output!NoSum}], prev' \subseteq Output!Messages,
         IsSequence(dump'), ended' \in BOOLEAN, failed' \in BOOLEAN, failed' => ended'
  PROVE  OutputKind' /\ Printed(log, ids)' /\ Output!SpanningOnce'
<1>1. /\ position' \in Nat /\ sampleLength' \in 0 .. position'
      /\ sampleLength' = position' \/ sampleLength' > 2 * LookBack
  BY SampleWindow DEF OutputInv
<1>2. flags' \in CommandLines /\ ids' \subseteq flags'.filter /\ IsSequence(log')
  BY DEF OutputInv, OutputKind, LoopInv
<1>3. Printed(log, ids)'
  BY DEF LoopInv, Printed
<1>4. Output!SpanningOnce'
  BY LogNext
<1> QED BY <1>1, <1>2, <1>3, <1>4 DEF OutputKind, IsSequence

LEMMA BlockInv ==
  ASSUME OutputInv, NEW msgs \in Output!Decodes, Output!ProcessBlock(msgs)
  PROVE  OutputInv'
<1> DEFINE st == Output!Handled(msgs)
           x == [from |-> position' - sampleLength', to |-> position']
<1>1. /\ ~ended /\ position' = position + OutputBytes /\ sampleLength' = Output!Window(sampleLength)
      /\ flags' = flags /\ failed' = failed
      /\ ids' = st.ids /\ last' = st.last /\ prev' = st.next /\ log' = st.log
      /\ dump' = IF st.found /\ flags.samples THEN Append(dump, x) ELSE dump
      /\ ended' = (st.found /\ flags.samples /\ flags.single /\ st.ids = {})
  BY Zenon DEF Output!ProcessBlock
<1>2. LoopInv(st)
  <2>1. flags \in CommandLines /\ OutputKind /\ Printed(log, ids)
    BY DEF OutputInv, OutputKind, SingleInv
  <2>2. PICK n \in Nat : DOMAIN msgs = 1 .. n /\ \A i \in 1 .. n : msgs[i] \in Output!Messages
    BY <2>1, DecodesAre
  <2> QED BY <2>1, <2>2, HandledInv
<1> HIDE DEF st
<1>3. ended' \in BOOLEAN /\ failed' \in BOOLEAN /\ ~failed'
  <2>1. ~failed /\ failed \in BOOLEAN
    BY <1>1 DEF OutputInv, OutputKind
  <2> QED BY <1>1, <2>1, Zenon
<1>4. IsSequence(dump')
  <2>1. IsSequence(dump) /\ IsSequence(Append(dump, x))
    BY Appended DEF OutputInv, OutputKind
  <2> QED BY <1>1, <2>1
<1>5. OutputKind' /\ Printed(log, ids)' /\ Output!SpanningOnce'
  <2>1. last' \in [Meters -> Sums \cup {Output!NoSum}] /\ prev' \subseteq Output!Messages
    BY <1>1, <1>2 DEF LoopInv
  <2> QED BY <1>1, <1>2, <1>3, <1>4, <2>1, OutputFrame
<1>6. LogInv'
  <2>1. /\ \A i \in DOMAIN log' : log'[i].msg \in Output!Messages /\ log'[i].at \in 0 .. position'
        /\ \A i \in DOMAIN log' : log'[i].at = position' => log'[i].msg \in st.next
    BY <1>1, <1>2, LogNext
  <2> QED BY <1>1, <2>1 DEF LogInv
<1>7. SingleInv'
  <2>1. flags.single' /\ ended' /\ ~failed' => ids' = {}
    BY <1>1, Zenon
  <2>2. ASSUME flags'.single, flags'.samples, ~ended'
        PROVE  IF flags'.filter = {} THEN log' = <<>> ELSE ids' # {}
    <3>1. CASE st.found
      <4>1. st.ids # {} /\ ids' # {}
        BY <1>1, <2>2, <3>1, Zenon
      <4>2. flags'.filter # {}
        BY <1>1, <1>2, <4>1 DEF LoopInv, OutputInv, OutputKind
      <4> QED BY <4>1, <4>2
    <3>2. CASE ~st.found
      BY <1>1, <1>2, <2>2, <3>2 DEF LoopInv, OutputInv, SingleInv
    <3> QED BY <3>1, <3>2
  <2>3. flags.single' /\ ~flags.samples' /\ ended' => failed'
    BY <1>1, Zenon
  <2> QED BY <1>5, <2>1, <2>2, <2>3 DEF SingleInv
<1>8. SampleInv'
  <2> SUFFICES ASSUME flags.samples, NEW i \in DOMAIN log' PROVE CoveredBy(log'[i], dump')
    BY <1>1 DEF SampleInv
  <2>1. /\ Len(log) \in Nat /\ DOMAIN log = 1 .. Len(log)
        /\ Len(st.log) \in Nat /\ DOMAIN st.log = 1 .. Len(st.log) /\ Len(st.log) >= Len(log)
    BY <1>2, Appended DEF OutputInv, OutputKind, LoopInv
  <2>2. CASE i \in 1 .. Len(log)
    <3>1. log'[i] = log[i] /\ CoveredBy(log[i], dump)
      BY <1>1, <1>2, <1>3, <2>1, <2>2 DEF LoopInv, OutputInv, SampleInv
    <3>2. CoveredBy(log[i], Append(dump, x))
      BY <3>1, CoverGrows DEF OutputInv, OutputKind
    <3> QED BY <1>1, <3>1, <3>2
  <2>3. CASE i \notin 1 .. Len(log)
    <3>1. i \in Len(log) + 1 .. Len(st.log)
      BY <1>1, <2>1, <2>3
    <3>2. /\ log'[i].offset = Output!Written /\ log'[i].length = sampleLength'
          /\ log'[i].at = position'
      BY <1>1, <1>2, <3>1 DEF LoopInv
    <3>3. st.found
      BY <1>2, <2>1, <3>1 DEF LoopInv
    <3>4. position' \in Nat /\ sampleLength' \in 0 .. position' /\ LookBack \in Nat
          /\ (sampleLength' = position' \/ sampleLength' > 2 * LookBack)
      BY <1>1, SampleWindow, FlagTypes DEF OutputInv, OutputKind
    <3>5. /\ log'[i].length = x.to - x.from /\ x.to = log'[i].at
          /\ x.from = 0 \/ log'[i].length >= 2 * LookBack
      BY <3>2, <3>4
    <3>6. CoveredBy(log'[i], Append(dump, x))
      BY <3>2, <3>5, CoveredNow DEF OutputInv
    <3> QED BY <1>1, <3>3, <3>6
  <2> QED BY <2>2, <2>3
<1> QED BY <1>5, <1>6, <1>7, <1>8 DEF OutputInv

LEMMA SubSequence ==
  ASSUME NEW msgs \in Seq(Output!Messages), NEW n \in Nat, DOMAIN msgs = 1 .. n, NEW k \in 0 .. n
  PROVE  /\ DOMAIN SubSeq(msgs, 1, k) = 1 .. k
         /\ \A i \in 1 .. k : SubSeq(msgs, 1, k)[i] \in Output!Messages
<1>1. Len(msgs) = n
  OBVIOUS
<1> QED BY <1>1

LEMMA EncodeFailsInv ==
  ASSUME OutputInv, NEW msgs \in Output!Decodes, NEW k \in DOMAIN msgs, Output!EncodeFails(msgs, k)
  PROVE  OutputInv'
<1> DEFINE before == Output!Handled(SubSeq(msgs, 1, k - 1))
           st == Output!Handled(SubSeq(msgs, 1, k))
<1>1. /\ ~ended /\ position' = position + OutputBytes /\ sampleLength' = Output!Window(sampleLength)
      /\ flags' = flags /\ failed' = TRUE /\ ended' = TRUE /\ prev' = prev /\ dump' = dump
      /\ ids' = before.ids /\ last' = st.last /\ log' = before.log
  BY Zenon DEF Output!EncodeFails
<1>2. LoopInv(before) /\ LoopInv(st)
  <2>1. flags \in CommandLines /\ OutputKind /\ Printed(log, ids)
    BY DEF OutputInv, OutputKind, SingleInv
  <2>2. PICK n \in Nat : DOMAIN msgs = 1 .. n /\ msgs \in Seq(Output!Messages)
    BY <2>1, DecodesAre
  <2>3. k \in 0 .. n /\ k - 1 \in 0 .. n /\ k \in Nat /\ k - 1 \in Nat
    BY <2>2
  <2>4. /\ DOMAIN SubSeq(msgs, 1, k) = 1 .. k
        /\ \A i \in 1 .. k : SubSeq(msgs, 1, k)[i] \in Output!Messages
    BY <2>2, <2>3, SubSequence
  <2>5. /\ DOMAIN SubSeq(msgs, 1, k - 1) = 1 .. (k - 1)
        /\ \A i \in 1 .. (k - 1) : SubSeq(msgs, 1, k - 1)[i] \in Output!Messages
    BY <2>2, <2>3, SubSequence
  <2>6. LoopInv(before)
    BY <2>1, <2>3, <2>5, HandledInv
  <2>7. LoopInv(st)
    BY <2>1, <2>3, <2>4, HandledInv
  <2> QED BY <2>6, <2>7
<1> HIDE DEF before, st
<1>3. ended' \in BOOLEAN /\ failed' \in BOOLEAN /\ (failed' => ended') /\ ended' /\ failed'
  BY <1>1, Zenon
<1>4. OutputKind' /\ Printed(log, ids)' /\ Output!SpanningOnce'
  <2>1. last' \in [Meters -> Sums \cup {Output!NoSum}] /\ prev' \subseteq Output!Messages
        /\ IsSequence(dump')
    BY <1>1, <1>2 DEF LoopInv, OutputInv, OutputKind
  <2> QED BY <1>1, <1>2, <1>3, <2>1, OutputFrame
<1>5. LogInv'
  <2>1. \A i \in DOMAIN log' : log'[i].msg \in Output!Messages /\ log'[i].at \in 0 .. position'
    BY <1>1, <1>2, LogNext
  <2> QED BY <1>3, <2>1 DEF LogInv
<1>6. SingleInv' /\ SampleInv'
  BY <1>3, <1>4 DEF SingleInv, SampleInv
<1> QED BY <1>4, <1>5, <1>6 DEF OutputInv

LEMMA DumpFailsInv ==
  ASSUME OutputInv, NEW msgs \in Output!Decodes, Output!DumpFails(msgs)
  PROVE  OutputInv'
<1> DEFINE st == Output!Handled(msgs)
<1>1. /\ ~ended /\ position' = position + OutputBytes /\ sampleLength' = Output!Window(sampleLength)
      /\ flags' = flags /\ failed' = TRUE /\ ended' = TRUE /\ dump' = dump
      /\ ids' = st.ids /\ last' = st.last /\ prev' = st.next /\ log' = st.log
  BY Zenon DEF Output!DumpFails
<1>2. LoopInv(st)
  <2>1. flags \in CommandLines /\ OutputKind /\ Printed(log, ids)
    BY DEF OutputInv, OutputKind, SingleInv
  <2>2. PICK n \in Nat : DOMAIN msgs = 1 .. n /\ \A i \in 1 .. n : msgs[i] \in Output!Messages
    BY <2>1, DecodesAre
  <2> QED BY <2>1, <2>2, HandledInv
<1> HIDE DEF st
<1>3. ended' \in BOOLEAN /\ failed' \in BOOLEAN /\ (failed' => ended') /\ ended' /\ failed'
  BY <1>1, Zenon
<1>4. OutputKind' /\ Printed(log, ids)' /\ Output!SpanningOnce'
  <2>1. last' \in [Meters -> Sums \cup {Output!NoSum}] /\ prev' \subseteq Output!Messages
        /\ IsSequence(dump')
    BY <1>1, <1>2 DEF LoopInv, OutputInv, OutputKind
  <2> QED BY <1>1, <1>2, <1>3, <2>1, OutputFrame
<1>5. LogInv'
  <2>1. \A i \in DOMAIN log' : log'[i].msg \in Output!Messages /\ log'[i].at \in 0 .. position'
    BY <1>1, <1>2, LogNext
  <2> QED BY <1>3, <2>1 DEF LogInv
<1>6. SingleInv' /\ SampleInv'
  BY <1>3, <1>4 DEF SingleInv, SampleInv
<1> QED BY <1>4, <1>5, <1>6 DEF OutputInv

LEMMA OutputInit == Output!Init => OutputInv
<1> SUFFICES ASSUME Output!Init PROVE OutputInv
  OBVIOUS
<1>1. /\ flags \in CommandLines /\ ids = flags.filter /\ last = [m \in Meters |-> Output!NoSum]
      /\ prev = {} /\ position = 0 /\ sampleLength = 0
      /\ log = <<>> /\ dump = <<>> /\ ended = FALSE /\ failed = FALSE
  BY DEF Output!Init
<1>2. DOMAIN log = {} /\ IsSequence(log) /\ IsSequence(dump)
  BY <1>1 DEF IsSequence
<1>3. OutputKind
  <2>1. ended \in BOOLEAN /\ failed \in BOOLEAN /\ ~failed
    BY <1>1, Zenon
  <2> QED BY <1>1, <1>2, <2>1 DEF OutputKind
<1>4. LogInv /\ Output!SpanningOnce /\ SampleInv
  BY <1>2, Zenon DEF LogInv, Output!SpanningOnce, SampleInv
<1>5. SingleInv
  BY <1>1, <1>2 DEF SingleInv, Printed
<1> QED BY <1>3, <1>4, <1>5 DEF OutputInv

LEMMA CountIs ==
  ASSUME OutputInv, flags.single, flags.filter # {}, NEW m \in flags.filter
  PROVE  Output!Count(m) = IF m \in ids THEN 0 ELSE 1
<1> DEFINE T == {i \in DOMAIN log : log[i].msg.meter = m}
<1>1. Output!Count(m) = Cardinality(T)
  BY Zenon DEF Output!Count, Output!Cardinality, Cardinality
<1>2. CASE m \in ids
  <2>1. T = {}
    BY <1>2 DEF OutputInv, SingleInv, Printed
  <2> QED BY <1>1, <1>2, <2>1, FS_EmptySet
<1>3. CASE m \notin ids
  <2>1. PICK i \in DOMAIN log : \A j \in DOMAIN log : log[j].msg.meter = m <=> j = i
    BY <1>3 DEF OutputInv, SingleInv, Printed
  <2>2. T = {i}
    BY <2>1
  <2> QED BY <1>1, <1>3, <2>2, FS_Singleton
<1> QED BY <1>2, <1>3

(* The invariant of the receiver's output, for every command line, any     *)
(* number of messages in a block and any number of blocks: what            *)
(* processDecodedMessages has printed, dumped and still waits for.         *)
THEOREM OutputInvariant == PathSpec => []OutputInv
<1>1. PathInit => OutputInv
  BY OutputInit DEF PathInit
<1>2. ASSUME OutputInv, [PathNext]_all PROVE OutputInv'
  <2>1. CASE OutputStep
    <3>1. PICK msgs \in Output!Decodes :
            \/ Output!ProcessBlock(msgs) \/ Output!DumpFails(msgs)
            \/ \E k \in DOMAIN msgs : Output!EncodeFails(msgs, k)
      BY <2>1 DEF OutputStep, Output!Next
    <3> QED BY <1>2, <3>1, BlockInv, DumpFailsInv, EncodeFailsInv
  <2>2. CASE UNCHANGED outputVars
    <3>1. UNCHANGED <<flags, ids, last, prev, position, sampleLength, log, dump, ended, failed>>
      BY <2>2 DEF outputVars
    <3>2. OutputKind' /\ LogInv' /\ SingleInv'
      BY <1>2, <3>1 DEF OutputInv, OutputKind, LogInv, SingleInv, Printed, IsSequence
    <3>3. Output!SpanningOnce' /\ SampleInv'
      BY <1>2, <3>1 DEF OutputInv, Output!SpanningOnce, SampleInv
    <3> QED BY <3>2, <3>3 DEF OutputInv
  <2> QED BY <1>2, <2>1, <2>2 DEF PathNext, all, RingsStep, DispatchStep, CheckStep, DatabaseStep
<1> QED BY <1>1, <1>2, PTL DEF PathSpec

(* Whatever the command line: no message is printed in two adjacent        *)
(* blocks; with -single no wanted meter is printed twice, and the run ends *)
(* by itself with the block that brings the last if it dumps samples, and  *)
(* never if it does not; every line names the part of the sample file that *)
(* holds its packet (processBlock, processDecodedMessages, FilterChain).   *)
THEOREM OutputExactThm == PathSpec => []OutputExact
<1>1. ASSUME OutputInv PROVE OutputExact
  <2>1. Output!TypeOK
    BY <1>1 DEF OutputInv, OutputKind, LogInv, Output!TypeOK
  <2>2. Output!SingleExact
    <3> SUFFICES ASSUME flags.single, flags.filter # {}
                 PROVE  /\ \A m \in flags.filter : Output!Count(m) <= 1
                        /\ ended /\ ~failed => \A m \in flags.filter : Output!Count(m) = 1
      BY DEF Output!SingleExact
    <3>1. \A m \in flags.filter : Output!Count(m) = IF m \in ids THEN 0 ELSE 1
      BY <1>1, CountIs
    <3>2. ended /\ ~failed => ids = {}
      BY <1>1 DEF OutputInv, SingleInv
    <3> QED BY <3>1, <3>2
  <2>3. Output!SamplesCoverPacket
    BY <1>1, CoverIs DEF OutputInv
  <2>4. Output!SingleStops
    <3>1. ASSUME flags.single, flags.samples, Output!Delivered, ~ended PROVE FALSE
      <4>1. log # <<>> /\ \A m \in flags.filter : Output!Count(m) >= 1
        BY <3>1 DEF Output!Delivered
      <4>2. flags.filter # {} /\ ids # {} /\ ids \subseteq flags.filter
        BY <1>1, <3>1, <4>1 DEF OutputInv, OutputKind, SingleInv
      <4>3. PICK m \in ids : m \in flags.filter
        BY <4>2
      <4>4. Output!Count(m) = 0
        BY <1>1, <3>1, <4>2, <4>3, CountIs
      <4> QED BY <4>1, <4>3, <4>4
    <3>2. flags.single /\ ~flags.samples /\ ended => failed
      BY <1>1 DEF OutputInv, SingleInv
    <3> QED BY <3>1, <3>2, Zenon DEF Output!SingleStops
  <2> QED BY <1>1, <2>1, <2>2, <2>3, <2>4 DEF OutputExact, Output!OutputExact, OutputInv
<1> QED BY <1>1, OutputInvariant, PTL
-----------------------------------------------------------------------------
(* The search of a block for a preamble.                                   *)

LEMMA DispatchSizes ==
  /\ ByteBits \in Nat \ {0} /\ SymbolBytes \in Nat \ {0} /\ SearchBytes \in Nat \ {0}
  /\ Preamble \in [Parsers -> Seq({0, 1})] /\ FixedIDM # FixedR900
  /\ HistoryOf \in [Parsers -> Nat]
  /\ SearchBytes * ByteBits \in Nat
<1>1. /\ ByteBits \in Nat \ {0} /\ SymbolBytes \in Nat \ {0} /\ SearchBytes \in Nat \ {0}
      /\ Preamble \in [Parsers -> Seq({0, 1})] /\ FixedIDM # FixedR900
      /\ HistoryOf \in [Parsers -> Nat]
  BY PathAssumption DEF PathAssumption, Dispatch!DispatchAssumption
<1> QED BY <1>1

\* A preamble begins at sample i.
Hit(w, preamble, i) == i % ByteBits \in Dispatch!Candidates(w, preamble, i \div ByteBits)

\* g[n] are the indices found among the first n samples.
SearchRun(g, m, w, preamble) ==
  g = [n \in 0 .. m |->
         IF n = 0 THEN <<>>
         ELSE IF Hit(w, preamble, n - 1) THEN Append(g[n - 1], n - 1) ELSE g[n - 1]]

LEMMA SearchRunExists ==
  ASSUME NEW w, NEW preamble, NEW m \in Nat
  PROVE  \E g : SearchRun(g, m, w, preamble)
<1> DEFINE S == {k \in Nat : \E g : SearchRun(g, k, w, preamble)}
<1>1. 0 \in S
  <2> DEFINE g == [n \in 0 .. 0 |-> <<>>]
  <2>1. \A n \in 0 .. 0 : n = 0
    OBVIOUS
  <2>2. g = [n \in 0 .. 0 |->
               IF n = 0 THEN <<>>
               ELSE IF Hit(w, preamble, n - 1) THEN Append(g[n - 1], n - 1) ELSE g[n - 1]]
    BY <2>1
  <2> QED BY <2>2 DEF SearchRun
<1>2. ASSUME NEW k \in Nat, k \in S PROVE k + 1 \in S
  <2>1. PICK g : SearchRun(g, k, w, preamble)
    BY <1>2
  <2> DEFINE
        h == [n \in 0 .. k + 1 |->
                IF n = k + 1 THEN IF Hit(w, preamble, k) THEN Append(g[k], k) ELSE g[k] ELSE g[n]]
        f == [n \in 0 .. k + 1 |->
                IF n = 0 THEN <<>>
                ELSE IF Hit(w, preamble, n - 1) THEN Append(h[n - 1], n - 1) ELSE h[n - 1]]
  <2>2. ASSUME NEW n \in 0 .. k + 1 PROVE h[n] = f[n]
    <3>1. CASE n = k + 1
      <4>1. n - 1 = k /\ k \in 0 .. k + 1 /\ k # k + 1 /\ n # 0
        BY <3>1
      <4>2. h[k] = g[k] /\ h[n] = IF Hit(w, preamble, k) THEN Append(g[k], k) ELSE g[k]
        BY <3>1, <4>1
      <4> HIDE DEF h
      <4> QED BY <4>1, <4>2
    <3>2. CASE n # k + 1
      <4>1. n \in 0 .. k
        BY <3>2
      <4>2. h[n] = g[n]
        BY <3>2
      <4>3. g[n] = IF n = 0 THEN <<>>
                   ELSE IF Hit(w, preamble, n - 1) THEN Append(g[n - 1], n - 1) ELSE g[n - 1]
        BY <2>1, <4>1 DEF SearchRun
      <4>4. n # 0 => n - 1 \in 0 .. k + 1 /\ n - 1 # k + 1
        BY <4>1
      <4>5. n # 0 => h[n - 1] = g[n - 1]
        BY <4>4
      <4> HIDE DEF h
      <4> QED BY <4>2, <4>3, <4>5
    <3> QED BY <3>1, <3>2
  <2>3. h = [n \in 0 .. k + 1 |-> h[n]] /\ f = [n \in 0 .. k + 1 |-> f[n]]
    OBVIOUS
  <2>4. h = f
    <3> HIDE DEF h, f
    <3> QED BY <2>2, <2>3
  <2>5. SearchRun(h, k + 1, w, preamble)
    <3> HIDE DEF h
    <3> QED BY <2>4 DEF SearchRun
  <2> QED BY <2>5
<1> HIDE DEF S
<1>3. m \in S
  BY <1>1, <1>2, SetInduction
<1> QED BY <1>3 DEF S

\* Exactly the samples at which the preamble begins, in ascending order.
Sorted(s, k, w, preamble) ==
  /\ s \in Seq(Nat) /\ \A i, j \in 1 .. Len(s) : i < j => s[i] < s[j]
  /\ \A i \in 1 .. Len(s) : s[i] \in 0 .. (k - 1) /\ Hit(w, preamble, s[i])
  /\ \A x \in 0 .. (k - 1) : Hit(w, preamble, x) => \E i \in 1 .. Len(s) : s[i] = x

LEMMA SortedStep ==
  ASSUME NEW k \in Nat, NEW s, NEW w, NEW preamble, Sorted(s, k, w, preamble)
  PROVE  Sorted(IF Hit(w, preamble, k) THEN Append(s, k) ELSE s, k + 1, w, preamble)
<1>1. CASE Hit(w, preamble, k)
  <2> DEFINE t == Append(s, k)
  <2>1. s \in Seq(Nat) /\ Len(s) \in Nat
    BY DEF Sorted
  <2>2. /\ t \in Seq(Nat) /\ Len(t) = Len(s) + 1 /\ t[Len(s) + 1] = k
        /\ \A i \in 1 .. Len(s) : t[i] = s[i]
    BY <2>1
  <2> HIDE DEF t
  <2>3. \A i \in 1 .. Len(s) : s[i] \in 0 .. (k - 1) /\ Hit(w, preamble, s[i])
    BY DEF Sorted
  <2>4. \A i, j \in 1 .. Len(t) : i < j => t[i] < t[j]
    <3> SUFFICES ASSUME NEW i \in 1 .. Len(t), NEW j \in 1 .. Len(t), i < j PROVE t[i] < t[j]
      OBVIOUS
    <3>0. i \in Int /\ j \in Int /\ 1 <= i /\ 1 <= j /\ i <= Len(s) + 1 /\ j <= Len(s) + 1
      BY <2>1, <2>2
    <3>1. i \in 1 .. Len(s)
      BY <2>1, <3>0
    <3>2. CASE j = Len(s) + 1
      BY <2>2, <2>3, <3>1, <3>2
    <3>3. CASE j # Len(s) + 1
      <4>1. j \in 1 .. Len(s)
        BY <2>1, <3>0, <3>3
      <4>2. s[i] < s[j]
        BY <3>1, <4>1 DEF Sorted
      <4> QED BY <2>2, <3>1, <4>1, <4>2
    <3> QED BY <3>2, <3>3
  <2>5. ASSUME NEW i \in 1 .. Len(t) PROVE t[i] \in 0 .. k /\ Hit(w, preamble, t[i])
    <3>1. CASE i = Len(s) + 1
      BY <1>1, <2>2, <3>1
    <3>2. CASE i # Len(s) + 1
      <4>1. i \in 1 .. Len(s)
        BY <2>1, <2>2, <3>2
      <4>2. s[i] \in 0 .. k
        BY <2>3, <4>1
      <4> QED BY <2>2, <2>3, <4>1, <4>2
    <3> QED BY <3>1, <3>2
  <2>6. ASSUME NEW x \in 0 .. k, Hit(w, preamble, x) PROVE \E i \in 1 .. Len(t) : t[i] = x
    <3>1. CASE x = k
      <4>1. Len(s) + 1 \in 1 .. Len(t)
        BY <2>1, <2>2
      <4> QED BY <2>2, <3>1, <4>1
    <3>2. CASE x # k
      <4>1. x \in 0 .. (k - 1)
        BY <3>2
      <4>2. PICK i \in 1 .. Len(s) : s[i] = x
        BY <2>6, <4>1 DEF Sorted
      <4>3. i \in 1 .. Len(t)
        BY <2>1, <2>2
      <4> QED BY <2>2, <4>2, <4>3
    <3> QED BY <3>1, <3>2
  <2>7. (k + 1) - 1 = k
    OBVIOUS
  <2>8. Sorted(t, k + 1, w, preamble)
    BY <2>2, <2>4, <2>5, <2>6, <2>7 DEF Sorted
  <2> QED BY <1>1, <2>8 DEF t
<1>2. CASE ~Hit(w, preamble, k)
  <2>1. (k + 1) - 1 = k
    OBVIOUS
  <2>2. \A i \in 1 .. Len(s) : s[i] \in 0 .. k /\ Hit(w, preamble, s[i])
    BY DEF Sorted
  <2>3. ASSUME NEW x \in 0 .. k, Hit(w, preamble, x) PROVE \E i \in 1 .. Len(s) : s[i] = x
    <3>1. x \in 0 .. (k - 1)
      <4>1. x # k
        BY <1>2, <2>3
      <4> QED BY <4>1
    <3> QED BY <2>3, <3>1 DEF Sorted
  <2>4. s \in Seq(Nat) /\ \A i, j \in 1 .. Len(s) : i < j => s[i] < s[j]
    BY DEF Sorted
  <2>5. Sorted(s, k + 1, w, preamble)
    BY <2>1, <2>2, <2>3, <2>4 DEF Sorted
  <2> QED BY <1>2, <2>5
<1> QED BY <1>1, <1>2

LEMMA SearchIs ==
  ASSUME NEW w, NEW preamble
  PROVE  Sorted(Dispatch!SearchPacked(w, preamble), SearchBytes * ByteBits, w, preamble)
<1> DEFINE
      m == SearchBytes * ByteBits
      Body(f, n) == IF n = 0 THEN <<>>
                    ELSE IF Hit(w, preamble, n - 1) THEN Append(f[n - 1], n - 1) ELSE f[n - 1]
      g == CHOOSE f : f = [n \in 0 .. m |-> Body(f, n)]
<1>0. m \in Nat
  BY DispatchSizes
<1>1. Dispatch!SearchPacked(w, preamble) = g[m]
  BY Zenon DEF Dispatch!SearchPacked, Hit
<1> HIDE DEF m
<1>2. PICK h : SearchRun(h, m, w, preamble)
  BY <1>0, SearchRunExists
<1>3. h = [n \in 0 .. m |-> Body(h, n)]
  BY <1>2, Zenon DEF SearchRun
<1> HIDE DEF Body
<1>4. g = [n \in 0 .. m |-> Body(g, n)]
  BY <1>3, Zenon
<1> HIDE DEF g
<1> DEFINE S == {k \in Nat : k <= m => Sorted(g[k], k, w, preamble)}
<1>5. 0 \in S
  <2>1. 0 \in 0 .. m
    BY <1>0
  <2>2. g[0] = <<>>
    BY <1>4, <2>1 DEF Body
  <2>3. Sorted(<<>>, 0, w, preamble)
    BY DEF Sorted
  <2> QED BY <2>2, <2>3
<1>6. ASSUME NEW k \in Nat, k \in S PROVE k + 1 \in S
  <2> SUFFICES ASSUME k + 1 <= m PROVE Sorted(g[k + 1], k + 1, w, preamble)
    OBVIOUS
  <2>1. k + 1 \in 0 .. m /\ k + 1 # 0 /\ (k + 1) - 1 = k /\ Sorted(g[k], k, w, preamble)
    BY <1>0, <1>6
  <2>2. g[k + 1] = IF Hit(w, preamble, k) THEN Append(g[k], k) ELSE g[k]
    BY <1>4, <2>1 DEF Body
  <2> QED BY <2>1, <2>2, SortedStep
<1> HIDE DEF S
<1>7. m \in S
  BY <1>0, <1>5, <1>6, SetInduction
<1>8. Sorted(g[m], m, w, preamble)
  BY <1>0, <1>7 DEF S
<1> QED BY <1>1, <1>8 DEF m

\* Samples a number of bytes apart share their phase.
LEMMA SamePhase ==
  ASSUME NEW i \in Nat, NEW x \in Nat, NEW d \in Nat \ {0}
  PROVE  (i + x * d) % d = i % d /\ (i + x * d) \div d = (i \div d) + x
<1> DEFINE j == i + x * d
           q == i \div d
           r == i % d
           s == j \div d
           t == j % d
<1>0. j \in Nat
  OBVIOUS
<1>1. q \in Nat /\ r \in 0 .. (d - 1) /\ i = d * q + r
  BY Divided
<1>2. s \in Nat /\ t \in 0 .. (d - 1) /\ j = d * s + t
  <2> HIDE DEF j
  <2> QED BY <1>0, Divided
<1>3. j = d * (q + x) + r
  <2>1. d * (q + x) = d * q + x * d /\ d * q \in Nat /\ x * d \in Nat
    <3> HIDE DEF q
    <3> QED BY <1>1
  <2> HIDE DEF q, r
  <2> QED BY <1>1, <2>1
<1> HIDE DEF j, q, r, s, t
<1>4. d * (q + x) \in Nat /\ d * s \in Nat /\ q + x \in Nat
  BY <1>1, <1>2
<1>5. CASE s < q + x
  <2>1. d * s + d <= d * (q + x)
    BY <1>4, <1>2, <1>5, ProductGrows
  <2> QED BY <1>1, <1>2, <1>3, <1>4, <2>1
<1>6. CASE q + x < s
  <2>1. d * (q + x) + d <= d * s
    BY <1>4, <1>2, <1>6, ProductGrows
  <2> QED BY <1>1, <1>2, <1>3, <1>4, <2>1
<1>7. CASE s = q + x
  <2>1. d * s = d * (q + x)
    BY <1>7
  <2>2. t = r
    BY <1>1, <1>2, <1>3, <1>4, <2>1
  <2> QED BY <1>7, <2>2 DEF s, t, q, r, j
<1> QED BY <1>2, <1>4, <1>5, <1>6, <1>7

\* Four symbols first, the others where these match: the same as all.
LEMMA CandidatesAre ==
  ASSUME NEW w, NEW preamble \in Seq({0, 1}), NEW q \in Nat, NEW b \in 0 .. (ByteBits - 1)
  PROVE  b \in Dispatch!Candidates(w, preamble, q) <=>
           \A k \in 1 .. Len(preamble) : b \in w[q + (k - 1) * SymbolBytes] <=> preamble[k] = 1
<1> DEFINE At(k) == b \in Dispatch!Matching(w[q + k * SymbolBytes], preamble[k + 1])
           n == Len(preamble)
<1>0. n \in Nat
  OBVIOUS
<1>1. b \in Dispatch!Phases
  BY DEF Dispatch!Phases
<1>2. b \in Dispatch!Candidates(w, preamble, q) <=> \A k \in 0 .. (n - 1) : At(k)
  <2> DEFINE first == {c \in Dispatch!Phases : \A k \in 0 .. 3 :
                         c \in Dispatch!Matching(w[q + k * SymbolBytes], preamble[k + 1])}
             rest == {c \in first : \A k \in 4 .. (n - 1) :
                         c \in Dispatch!Matching(w[q + k * SymbolBytes], preamble[k + 1])}
             short == {c \in Dispatch!Phases : \A k \in 0 .. (n - 1) :
                         c \in Dispatch!Matching(w[q + k * SymbolBytes], preamble[k + 1])}
  <2>1. Dispatch!Candidates(w, preamble, q) = IF n < 4 THEN short ELSE IF first = {} THEN {} ELSE rest
    BY Zenon DEF Dispatch!Candidates
  <2>2. b \in short <=> \A k \in 0 .. (n - 1) : At(k)
    BY <1>1
  <2>3. b \in first <=> \A k \in 0 .. 3 : At(k)
    BY <1>1
  <2>4. b \in rest <=> b \in first /\ \A k \in 4 .. (n - 1) : At(k)
    OBVIOUS
  <2> HIDE DEF At, first, rest, short
  <2>5. CASE n < 4
    BY <2>1, <2>2, <2>5
  <2>6. CASE ~(n < 4)
    <3>1. (\A k \in 0 .. 3 : At(k)) /\ (\A k \in 4 .. (n - 1) : At(k)) <=> \A k \in 0 .. (n - 1) : At(k)
      <4>1. \A k \in 0 .. (n - 1) : k \in 0 .. 3 \/ k \in 4 .. (n - 1)
        BY <1>0
      <4>2. \A k \in 0 .. 3 : k \in 0 .. (n - 1)
        BY <1>0, <2>6
      <4>3. \A k \in 4 .. (n - 1) : k \in 0 .. (n - 1)
        BY <1>0
      <4> QED BY <4>1, <4>2, <4>3, Zenon
    <3> QED BY <2>1, <2>3, <2>4, <2>6, <3>1
  <2> QED BY <2>5, <2>6
<1>3. \A k \in 0 .. (n - 1) : At(k) <=> (b \in w[q + k * SymbolBytes] <=> preamble[k + 1] = 1)
  <2> TAKE k \in 0 .. (n - 1)
  <2>1. preamble[k + 1] \in {0, 1}
    BY <1>0
  <2> QED BY <1>1, <2>1 DEF Dispatch!Matching
<1>4. \A k \in 1 .. n : k - 1 \in 0 .. (n - 1) /\ (k - 1) + 1 = k
  BY <1>0
<1>5. \A k \in 0 .. (n - 1) : k + 1 \in 1 .. n /\ (k + 1) - 1 = k
  BY <1>0
<1> DEFINE Fits(k) == b \in w[q + (k - 1) * SymbolBytes] <=> preamble[k] = 1
<1>6. \A k \in 1 .. n : At(k - 1) <=> Fits(k)
  <2> TAKE k \in 1 .. n
  <2> DEFINE j == k - 1
  <2>1. j \in 0 .. (n - 1) /\ j + 1 = k
    BY <1>4
  <2>2. At(j) <=> (b \in w[q + j * SymbolBytes] <=> preamble[j + 1] = 1)
    <3> HIDE DEF j, At
    <3> QED BY <1>3, <2>1
  <2>3. At(j) <=> (b \in w[q + j * SymbolBytes] <=> preamble[k] = 1)
    <3> HIDE DEF j, At
    <3> QED BY <2>1, <2>2
  <2> HIDE DEF At
  <2> QED BY <2>3
<1> HIDE DEF At, Fits
<1>7. (\A k \in 0 .. (n - 1) : At(k)) <=> \A k \in 1 .. n : Fits(k)
  BY <1>4, <1>5, <1>6
<1> QED BY <1>2, <1>7 DEF Fits

\* The decisions from sample i on are the preamble, by definition.
Begins(w, preamble, i) ==
  \A k \in DOMAIN preamble :
    (IF (i + (k - 1) * SymbolBytes * ByteBits) % ByteBits
          \in w[(i + (k - 1) * SymbolBytes * ByteBits) \div ByteBits] THEN 1 ELSE 0) = preamble[k]

LEMMA HitIs ==
  ASSUME NEW w, NEW preamble \in Seq({0, 1}), NEW i \in Nat
  PROVE  Hit(w, preamble, i) <=> Begins(w, preamble, i)
<1> DEFINE b == i % ByteBits
           q == i \div ByteBits
<1>1. q \in Nat /\ b \in 0 .. (ByteBits - 1)
  BY Divided, DispatchSizes
<1>2. DOMAIN preamble = 1 .. Len(preamble)
  OBVIOUS
<1>3. ASSUME NEW k \in 1 .. Len(preamble)
      PROVE  /\ (i + (k - 1) * SymbolBytes * ByteBits) % ByteBits = b
             /\ (i + (k - 1) * SymbolBytes * ByteBits) \div ByteBits = q + (k - 1) * SymbolBytes
             /\ preamble[k] \in {0, 1}
  <2>1. (k - 1) * SymbolBytes \in Nat
    BY DispatchSizes
  <2>2. preamble[k] \in {0, 1}
    OBVIOUS
  <2> QED BY <2>1, <2>2, SamePhase, DispatchSizes
<1>4. Hit(w, preamble, i) <=>
        \A k \in 1 .. Len(preamble) : b \in w[q + (k - 1) * SymbolBytes] <=> preamble[k] = 1
  <2> HIDE DEF b, q
  <2>1. b \in Dispatch!Candidates(w, preamble, q) <=>
           \A k \in 1 .. Len(preamble) : b \in w[q + (k - 1) * SymbolBytes] <=> preamble[k] = 1
    BY <1>1, CandidatesAre, ZenonT(30)
  <2>2. Hit(w, preamble, i) <=> b \in Dispatch!Candidates(w, preamble, q)
    BY DEF Hit, b, q
  <2> QED BY <2>1, <2>2
<1> HIDE DEF b, q
<1>5. \A k \in 1 .. Len(preamble) :
        (b \in w[q + (k - 1) * SymbolBytes] <=> preamble[k] = 1) <=>
        (IF (i + (k - 1) * SymbolBytes * ByteBits) % ByteBits
              \in w[(i + (k - 1) * SymbolBytes * ByteBits) \div ByteBits] THEN 1 ELSE 0) = preamble[k]
  <2> TAKE k \in 1 .. Len(preamble)
  <2> DEFINE j == (i + (k - 1) * SymbolBytes * ByteBits) % ByteBits
             v == (i + (k - 1) * SymbolBytes * ByteBits) \div ByteBits
             u == q + (k - 1) * SymbolBytes
  <2>1. j = b /\ v = u /\ preamble[k] \in {0, 1}
    BY <1>3
  <2> HIDE DEF j, v, u
  <2>2. (b \in w[u] <=> preamble[k] = 1) <=> (IF j \in w[v] THEN 1 ELSE 0) = preamble[k]
    BY <2>1
  <2> QED BY <2>2 DEF j, v, u
<1> QED BY <1>2, <1>4, <1>5 DEF Begins

-----------------------------------------------------------------------------
(* The parsers that are registered and their calls.                        *)

Registered == {registered[i] : i \in DOMAIN registered}

\* Every preamble has the list of its registered parsers, each once; the
\* lists of the two fixed preambles are those in the map.
ListsInv ==
  /\ IsFiniteSet(DOMAIN preambles) /\ DOMAIN preambles = {Preamble[p] : p \in Registered}
  /\ \A k \in DOMAIN preambles :
       /\ preambles[k] \in Seq(Parsers)
       /\ \A i, j \in DOMAIN preambles[k] : preambles[k][i] = preambles[k][j] => i = j
       /\ {preambles[k][i] : i \in DOMAIN preambles[k]} = {p \in Registered : Preamble[p] = k}
  /\ fixedIDM = IF FixedIDM \in DOMAIN preambles THEN preambles[FixedIDM] ELSE <<>>
  /\ fixedR900 = IF FixedR900 \in DOMAIN preambles THEN preambles[FixedR900] ELSE <<>>

RegisteredInv ==
  /\ registered \in Seq(Parsers) /\ \A i, j \in DOMAIN registered : registered[i] = registered[j] => i = j
  /\ compatible \in BOOLEAN /\ allocated \in BOOLEAN /\ active \in BOOLEAN
  /\ consumers \in Seq(Parsers)
  /\ {consumers[i] : i \in DOMAIN consumers} = {p \in Registered : Power16Of[p] = "consumer"}
  /\ attached \subseteq Registered
  /\ compatible => \A p \in Registered : Dispatch!Compatible(p)
  /\ overlap \in Nat /\ \A p \in Registered : HistoryOf[p] <= overlap

CallsInv ==
  /\ \A c \in calls : c.parser \in Registered
  /\ Dispatch!ServedOnce /\ Dispatch!BitsWhereNeeded /\ Dispatch!OneRepresentation

DispatchInv == ListsInv /\ RegisteredInv /\ CallsInv

LEMMA RangeIs ==
  /\ Dispatch!Range(registered) = Registered
  /\ \A s : Dispatch!Range(s) = {s[i] : i \in DOMAIN s}
  BY Zenon DEF Dispatch!Range, Registered

LEMMA LargerIs ==
  ASSUME NEW a \in Nat, NEW b \in Nat
  PROVE  /\ Dispatch!Max({a, b}) \in Nat /\ a <= Dispatch!Max({a, b}) /\ b <= Dispatch!Max({a, b})
<1> DEFINE m == IF a >= b THEN a ELSE b
<1>1. m \in {a, b} /\ \A y \in {a, b} : m >= y
  OBVIOUS
<1>2. \A x \in {a, b} : (\A y \in {a, b} : x >= y) => x = m
  OBVIOUS
<1>3. Dispatch!Max({a, b}) = m
  BY <1>1, <1>2 DEF Dispatch!Max
<1> QED BY <1>3

LEMMA DispatchInit == ASSUME Dispatch!Init PROVE DispatchInv
<1>1. /\ registered = <<>> /\ preambles = <<>> /\ fixedIDM = <<>> /\ fixedR900 = <<>>
      /\ overlap = 0 /\ compatible = TRUE /\ consumers = <<>>
      /\ allocated = FALSE /\ active = FALSE /\ attached = {} /\ calls = {}
  BY DEF Dispatch!Init
<1>2. Registered = {} /\ DOMAIN preambles = {}
  BY <1>1 DEF Registered
<1>3. ListsInv
  BY <1>1, <1>2, FS_EmptySet DEF ListsInv
<1>4. compatible \in BOOLEAN /\ allocated \in BOOLEAN /\ active \in BOOLEAN
  BY <1>1, Zenon
<1>5. registered \in Seq(Parsers) /\ consumers \in Seq(Parsers) /\ DOMAIN registered = {} /\ DOMAIN consumers = {}
  BY <1>1
<1>6. RegisteredInv
  BY <1>1, <1>2, <1>4, <1>5 DEF RegisteredInv
<1>7. CallsInv
  BY <1>1, Zenon DEF CallsInv, Dispatch!ServedOnce, Dispatch!BitsWhereNeeded, Dispatch!OneRepresentation
<1> QED BY <1>3, <1>6, <1>7 DEF DispatchInv

LEMMA Extended ==
  ASSUME NEW s \in Seq(Parsers), NEW p \in Parsers,
         \A i, j \in DOMAIN s : s[i] = s[j] => i = j, p \notin {s[i] : i \in DOMAIN s}
  PROVE  /\ Append(s, p) \in Seq(Parsers)
         /\ \A i, j \in DOMAIN Append(s, p) : Append(s, p)[i] = Append(s, p)[j] => i = j
         /\ {Append(s, p)[i] : i \in DOMAIN Append(s, p)} = {s[i] : i \in DOMAIN s} \cup {p}
<1> DEFINE t == Append(s, p)
<1>1. /\ t \in Seq(Parsers) /\ Len(t) = Len(s) + 1 /\ t[Len(s) + 1] = p /\ \A i \in 1 .. Len(s) : t[i] = s[i]
      /\ DOMAIN t = 1 .. Len(t) /\ DOMAIN s = 1 .. Len(s) /\ Len(s) \in Nat
  OBVIOUS
<1> HIDE DEF t
<1>2. \A i \in DOMAIN t : i \in DOMAIN s \/ i = Len(s) + 1
  BY <1>1
<1>3. \A i \in DOMAIN s : i \in DOMAIN t
  BY <1>1
<1>4. Len(s) + 1 \in DOMAIN t
  BY <1>1
<1>5. \A i \in DOMAIN s : t[i] = s[i]
  BY <1>1
<1>6. \A i, j \in DOMAIN t : t[i] = t[j] => i = j
  BY <1>1, <1>2, <1>5
<1>7. {t[i] : i \in DOMAIN t} = {s[i] : i \in DOMAIN s} \cup {p}
  BY <1>1, <1>2, <1>3, <1>4, <1>5
<1> QED BY <1>1, <1>6, <1>7 DEF t

\* RegisterProtocol.
LEMMA RegisterInv ==
  ASSUME DispatchInv, NEW p \in Parsers, Dispatch!RegisterProtocol(p)
  PROVE  DispatchInv'
<1> DEFINE key == Preamble[p]
           old == IF key \in DOMAIN preambles THEN preambles[key] ELSE <<>>
           list == old \o <<p>>
<1>1. /\ p \notin Dispatch!Range(registered)
      /\ registered' = Append(registered, p)
      /\ preambles' = [k \in DOMAIN preambles \cup {key} |-> IF k = key THEN list ELSE preambles[k]]
      /\ fixedIDM' = (IF key = FixedIDM THEN list ELSE fixedIDM)
      /\ fixedR900' = (IF key = FixedR900 THEN list ELSE fixedR900)
      /\ overlap' = Dispatch!Max({overlap, HistoryOf[p]})
      /\ compatible' = (compatible /\ Dispatch!Compatible(p))
      /\ consumers' = (IF Power16Of[p] = "consumer" THEN Append(consumers, p) ELSE consumers)
      /\ allocated' = FALSE /\ calls' = {} /\ active' = active /\ attached' = attached
  BY Zenon DEF Dispatch!RegisterProtocol, Dispatch!Cached
<1>2. ListsInv /\ RegisteredInv
  BY DEF DispatchInv
<1>3. p \notin Registered
  BY <1>1, RangeIs
<1>4. /\ registered' \in Seq(Parsers)
      /\ \A i, j \in DOMAIN registered' : registered'[i] = registered'[j] => i = j
      /\ Registered' = Registered \cup {p}
  <2>1. /\ registered \in Seq(Parsers) /\ \A i, j \in DOMAIN registered : registered[i] = registered[j] => i = j
        /\ p \notin {registered[i] : i \in DOMAIN registered}
    BY <1>2, <1>3 DEF RegisteredInv, Registered
  <2>2. /\ registered' \in Seq(Parsers)
        /\ \A i, j \in DOMAIN registered' : registered'[i] = registered'[j] => i = j
        /\ {registered'[i] : i \in DOMAIN registered'} = {registered[i] : i \in DOMAIN registered} \cup {p}
    <3>1. registered' = Append(registered, p)
      BY <1>1
    <3>2. /\ Append(registered, p) \in Seq(Parsers)
          /\ \A i, j \in DOMAIN Append(registered, p) :
               Append(registered, p)[i] = Append(registered, p)[j] => i = j
          /\ {Append(registered, p)[i] : i \in DOMAIN Append(registered, p)}
               = {registered[i] : i \in DOMAIN registered} \cup {p}
      BY <2>1, Extended
    <3> QED BY <3>1, <3>2, Zenon
  <2> QED BY <2>2 DEF Registered
<1>5. /\ old \in Seq(Parsers) /\ \A i, j \in DOMAIN old : old[i] = old[j] => i = j
      /\ {old[i] : i \in DOMAIN old} = {q \in Registered : Preamble[q] = key}
  <2>1. CASE key \in DOMAIN preambles
    <3>1. old = preambles[key]
      BY <2>1
    <3> HIDE DEF old, key
    <3> QED BY <1>2, <2>1, <3>1 DEF ListsInv
  <2>2. CASE key \notin DOMAIN preambles
    <3>1. old = <<>> /\ DOMAIN old = {} /\ old \in Seq(Parsers)
      BY <2>2
    <3>2. \A q \in Registered : Preamble[q] # key
      <4> HIDE DEF key
      <4> QED BY <1>2, <2>2 DEF ListsInv
    <3> HIDE DEF old, key
    <3> QED BY <3>1, <3>2
  <2> QED BY <2>1, <2>2
<1> HIDE DEF old
<1>6. /\ list \in Seq(Parsers) /\ \A i, j \in DOMAIN list : list[i] = list[j] => i = j
      /\ {list[i] : i \in DOMAIN list} = {q \in Registered : Preamble[q] = key} \cup {p}
  <2>1. p \notin {old[i] : i \in DOMAIN old}
    BY <1>3, <1>5
  <2> HIDE DEF key
  <2>2. /\ list \in Seq(Parsers) /\ \A i, j \in DOMAIN list : list[i] = list[j] => i = j
        /\ {list[i] : i \in DOMAIN list} = {old[i] : i \in DOMAIN old} \cup {p}
    <3>1. list = Append(old, p)
      BY <1>5
    <3>2. /\ Append(old, p) \in Seq(Parsers)
          /\ \A i, j \in DOMAIN Append(old, p) : Append(old, p)[i] = Append(old, p)[j] => i = j
          /\ {Append(old, p)[i] : i \in DOMAIN Append(old, p)} = {old[i] : i \in DOMAIN old} \cup {p}
      BY <1>5, <2>1, Extended
    <3> HIDE DEF list
    <3> QED BY <3>1, <3>2, Zenon
  <2> QED BY <1>5, <2>2
<1> HIDE DEF list
<1>7. DOMAIN preambles' = DOMAIN preambles \cup {key}
  BY <1>1
<1>8. \A k \in DOMAIN preambles' : preambles'[k] = IF k = key THEN list ELSE preambles[k]
  BY <1>1, <1>7
<1>9. ListsInv'
  <2>1. IsFiniteSet(DOMAIN preambles')
    <3>1. IsFiniteSet(DOMAIN preambles)
      BY <1>2 DEF ListsInv
    <3> HIDE DEF key
    <3> QED BY <1>7, <3>1, FS_AddElement
  <2>2. DOMAIN preambles' = {Preamble[q] : q \in Registered'}
    <3>1. DOMAIN preambles = {Preamble[q] : q \in Registered}
      BY <1>2 DEF ListsInv
    <3> QED BY <1>4, <1>7, <3>1
  <2>3. ASSUME NEW k \in DOMAIN preambles'
        PROVE  /\ preambles'[k] \in Seq(Parsers)
               /\ \A i, j \in DOMAIN preambles'[k] : preambles'[k][i] = preambles'[k][j] => i = j
               /\ {preambles'[k][i] : i \in DOMAIN preambles'[k]} = {q \in Registered' : Preamble[q] = k}
    <3>1. CASE k = key
      <4>1. preambles'[k] = list
        BY <1>8, <3>1
      <4>2. {q \in Registered' : Preamble[q] = k} = {q \in Registered : Preamble[q] = key} \cup {p}
        BY <1>4, <3>1
      <4> HIDE DEF key
      <4> QED BY <1>6, <4>1, <4>2
    <3>2. CASE k # key
      <4>1. k \in DOMAIN preambles /\ preambles'[k] = preambles[k]
        BY <1>7, <1>8, <3>2
      <4>2. {q \in Registered' : Preamble[q] = k} = {q \in Registered : Preamble[q] = k}
        BY <1>4, <3>2
      <4>3. /\ preambles[k] \in Seq(Parsers)
            /\ \A i, j \in DOMAIN preambles[k] : preambles[k][i] = preambles[k][j] => i = j
            /\ {preambles[k][i] : i \in DOMAIN preambles[k]} = {q \in Registered : Preamble[q] = k}
        BY <1>2, <4>1 DEF ListsInv
      <4> QED BY <4>1, <4>2, <4>3
    <3> QED BY <3>1, <3>2
  <2> HIDE DEF key
  <2>4. fixedIDM' = IF FixedIDM \in DOMAIN preambles' THEN preambles'[FixedIDM] ELSE <<>>
    BY <1>1, <1>2, <1>7, <1>8 DEF ListsInv
  <2>5. fixedR900' = IF FixedR900 \in DOMAIN preambles' THEN preambles'[FixedR900] ELSE <<>>
    BY <1>1, <1>2, <1>7, <1>8 DEF ListsInv
  <2> QED BY <2>1, <2>2, <2>3, <2>4, <2>5 DEF ListsInv
<1>10. RegisteredInv'
  <2>1. compatible' \in BOOLEAN /\ allocated' \in BOOLEAN /\ active' \in BOOLEAN
    <3>1. active \in BOOLEAN
      BY <1>2 DEF RegisteredInv
    <3> QED BY <1>1, <3>1, Zenon
  <2>2. compatible' => \A q \in Registered' : Dispatch!Compatible(q)
    <3> SUFFICES ASSUME compatible', NEW q \in Registered' PROVE Dispatch!Compatible(q)
      BY DEF Dispatch!Compatible
    <3>1. compatible /\ Dispatch!Compatible(p)
      BY <1>1
    <3>2. \A r \in Registered : Dispatch!Compatible(r)
      BY <1>2, <3>1 DEF RegisteredInv
    <3> QED BY <1>4, <3>1, <3>2
  <2>3. overlap' \in Nat /\ \A q \in Registered' : HistoryOf[q] <= overlap'
    <3>1. HistoryOf[p] \in Nat /\ overlap \in Nat
      BY <1>2, DispatchSizes DEF RegisteredInv
    <3>2. overlap' \in Nat /\ overlap <= overlap' /\ HistoryOf[p] <= overlap'
      BY <1>1, <3>1, LargerIs
    <3>3. \A q \in Registered : HistoryOf[q] <= overlap /\ HistoryOf[q] \in Nat
      <4>1. Registered \subseteq Parsers
        BY <1>2 DEF RegisteredInv, Registered
      <4> QED BY <1>2, <4>1, DispatchSizes DEF RegisteredInv
    <3> QED BY <1>4, <3>1, <3>2, <3>3
  <2>4. /\ consumers' \in Seq(Parsers)
        /\ {consumers'[i] : i \in DOMAIN consumers'} = {q \in Registered' : Power16Of[q] = "consumer"}
    <3>1. /\ consumers \in Seq(Parsers)
          /\ {consumers[i] : i \in DOMAIN consumers} = {q \in Registered : Power16Of[q] = "consumer"}
      BY <1>2 DEF RegisteredInv
    <3>2. CASE Power16Of[p] = "consumer"
      <4> DEFINE t == Append(consumers, p)
      <4>1. /\ t \in Seq(Parsers) /\ DOMAIN t = 1 .. Len(consumers) + 1 /\ t[Len(consumers) + 1] = p
            /\ \A i \in 1 .. Len(consumers) : t[i] = consumers[i]
            /\ DOMAIN consumers = 1 .. Len(consumers) /\ Len(consumers) \in Nat
        BY <3>1
      <4> HIDE DEF t
      <4>2. \A i \in DOMAIN t : i \in DOMAIN consumers \/ i = Len(consumers) + 1
        BY <4>1
      <4>3. (\A i \in DOMAIN consumers : i \in DOMAIN t /\ t[i] = consumers[i]) /\ Len(consumers) + 1 \in DOMAIN t
        BY <4>1
      <4>4. {t[i] : i \in DOMAIN t} = {consumers[i] : i \in DOMAIN consumers} \cup {p}
        BY <4>1, <4>2, <4>3
      <4>5. {q \in Registered' : Power16Of[q] = "consumer"} = {q \in Registered : Power16Of[q] = "consumer"} \cup {p}
        BY <1>4, <3>2
      <4>6. consumers' = t
        BY <1>1, <3>2 DEF t
      <4> QED BY <3>1, <4>1, <4>4, <4>5, <4>6
    <3>3. CASE Power16Of[p] # "consumer"
      <4>1. {q \in Registered' : Power16Of[q] = "consumer"} = {q \in Registered : Power16Of[q] = "consumer"}
        BY <1>4, <3>3
      <4>2. consumers' = consumers
        BY <1>1, <3>3
      <4> QED BY <3>1, <4>1, <4>2
    <3> QED BY <3>2, <3>3
  <2>5. attached' \subseteq Registered'
    BY <1>1, <1>2, <1>4 DEF RegisteredInv
  <2> QED BY <1>4, <2>1, <2>2, <2>3, <2>4, <2>5 DEF RegisteredInv, Dispatch!Compatible
<1>11. CallsInv'
  BY <1>1, Zenon DEF CallsInv, Dispatch!ServedOnce, Dispatch!BitsWhereNeeded, Dispatch!OneRepresentation
<1> QED BY <1>9, <1>10, <1>11 DEF DispatchInv

\* Allocate.
LEMMA AllocateInv ==
  ASSUME DispatchInv, NEW usable \in BOOLEAN, Dispatch!Allocate(usable)
  PROVE  DispatchInv'
<1> DEFINE chosen == usable /\ registered # <<>> /\ compatible
<1>1. /\ active' = chosen /\ attached' = (IF chosen THEN Dispatch!Range(consumers) ELSE {})
      /\ history' = (IF chosen THEN Dispatch!Max({overlap, SymbolBytes * ByteBits}) ELSE overlap)
      /\ calls' = {} /\ allocated' = TRUE
      /\ UNCHANGED <<registered, preambles, fixedIDM, fixedR900, overlap, compatible, consumers>>
  BY Zenon DEF Dispatch!Allocate, Dispatch!Attached
<1>2. ListsInv /\ RegisteredInv
  BY DEF DispatchInv
<1>3. Registered' = Registered
  BY <1>1 DEF Registered
<1>4. ListsInv'
  BY <1>1, <1>2, <1>3 DEF ListsInv
<1>5. Dispatch!Range(consumers) = {p \in Registered : Power16Of[p] = "consumer"}
  BY <1>2, RangeIs DEF RegisteredInv
<1>6. active' \in BOOLEAN /\ allocated' \in BOOLEAN
  BY <1>1, Zenon
<1>7. RegisteredInv'
  <2>1. attached' \subseteq Registered
    BY <1>1, <1>5
  <2> QED BY <1>1, <1>2, <1>3, <1>6, <2>1 DEF RegisteredInv, Dispatch!Compatible
<1>8. overlap \in Nat /\ overlap <= history' /\ history' \in Nat
  <2>1. overlap \in Nat /\ SymbolBytes * ByteBits \in Nat
    <3>1. SymbolBytes \in Nat /\ ByteBits \in Nat
      BY DispatchSizes
    <3> QED BY <1>2, <3>1 DEF RegisteredInv
  <2>2. /\ Dispatch!Max({overlap, SymbolBytes * ByteBits}) \in Nat
        /\ overlap <= Dispatch!Max({overlap, SymbolBytes * ByteBits})
    BY <2>1, LargerIs
  <2> QED BY <1>1, <2>1, <2>2
<1>9. ASSUME NEW p \in Registered
      PROVE  /\ p \in attached' <=> active' /\ Power16Of[p] = "consumer"
             /\ HistoryOf[p] > 0 => history' >= HistoryOf[p] /\ (active' => p \in attached')
  <2>1. p \in attached' <=> active' /\ Power16Of[p] = "consumer"
    BY <1>1, <1>5
  <2>2. p \in Parsers
    BY <1>2 DEF RegisteredInv, Registered
  <2>3. HistoryOf[p] \in Nat /\ HistoryOf[p] <= overlap
    BY <1>2, <2>2, DispatchSizes DEF RegisteredInv
  <2>4. active' /\ HistoryOf[p] > 0 => Power16Of[p] = "consumer"
    <3>1. active' => Dispatch!Compatible(p)
      BY <1>1, <1>2 DEF RegisteredInv
    <3> QED BY <3>1 DEF Dispatch!Compatible
  <2>5. HistoryOf[p] > 0 => history' >= HistoryOf[p]
    BY <1>8, <2>3
  <2> QED BY <2>1, <2>4, <2>5
<1>10. Dispatch!OneRepresentation'
  BY <1>3, <1>9, RangeIs DEF Dispatch!OneRepresentation, Dispatch!Range, Registered
<1>11. CallsInv'
  BY <1>1, <1>10, Zenon DEF CallsInv, Dispatch!ServedOnce, Dispatch!BitsWhereNeeded
<1> QED BY <1>4, <1>7, <1>11 DEF DispatchInv

\* Decode: the fixed preambles by the dual kernel or, like the others, one
\* by one; in either case every preamble in the map is served once.
LEMMA CallsAre ==
  ASSUME DispatchInv, NEW w, NEW dual \in BOOLEAN, Dispatch!Decode(w, dual)
  PROVE  LET both == dual /\ fixedIDM # <<>> /\ fixedR900 # <<>>
             by(k) == IF both /\ k \in {FixedIDM, FixedR900} THEN "dual" ELSE "loop"
         IN  calls' = UNION {Dispatch!ParseCandidates(by(k), Dispatch!SearchPacked(w, k), preambles[k]) :
                               k \in DOMAIN preambles}
<1> DEFINE
      both  == dual /\ fixedIDM # <<>> /\ fixedR900 # <<>>
      by(k) == IF both /\ k \in {FixedIDM, FixedR900} THEN "dual" ELSE "loop"
      Served(k) == Dispatch!ParseCandidates(by(k), Dispatch!SearchPacked(w, k), preambles[k])
      fixed == IF both
               THEN Dispatch!ParseCandidates("dual", Dispatch!SearchPacked(w, FixedIDM), fixedIDM)
                    \cup Dispatch!ParseCandidates("dual", Dispatch!SearchPacked(w, FixedR900), fixedR900)
               ELSE {}
      loop  == UNION {Dispatch!ParseCandidates("loop", Dispatch!SearchPacked(w, k), preambles[k]) :
                        k \in Dispatch!Loop(both)}
<1>1. calls' = IF both /\ Dispatch!Cardinality(DOMAIN preambles) = 2 THEN fixed ELSE fixed \cup loop
  BY Zenon DEF Dispatch!Decode
<1>2. /\ fixedIDM = IF FixedIDM \in DOMAIN preambles THEN preambles[FixedIDM] ELSE <<>>
      /\ fixedR900 = IF FixedR900 \in DOMAIN preambles THEN preambles[FixedR900] ELSE <<>>
      /\ IsFiniteSet(DOMAIN preambles)
  BY DEF DispatchInv, ListsInv
<1>3. CASE ~both
  <2>1. fixed = {} /\ Dispatch!Loop(both) = DOMAIN preambles
    BY <1>3 DEF Dispatch!Loop
  <2>2. \A k \in DOMAIN preambles : Served(k) = Dispatch!ParseCandidates("loop", Dispatch!SearchPacked(w, k), preambles[k])
    BY <1>3
  <2>3. loop = UNION {Served(k) : k \in DOMAIN preambles}
    <3> HIDE DEF both, Served
    <3> QED BY <2>1, <2>2
  <2> HIDE DEF fixed, loop, both
  <2>4. calls' = loop
    BY <1>1, <1>3, <2>1
  <2> QED BY <2>3, <2>4 DEF both
<1>4. CASE both
  <2>1. /\ FixedIDM \in DOMAIN preambles /\ fixedIDM = preambles[FixedIDM]
        /\ FixedR900 \in DOMAIN preambles /\ fixedR900 = preambles[FixedR900]
    BY <1>2, <1>4
  <2>2. Served(FixedIDM) = Dispatch!ParseCandidates("dual", Dispatch!SearchPacked(w, FixedIDM), fixedIDM)
    BY <1>4, <2>1
  <2>3. Served(FixedR900) = Dispatch!ParseCandidates("dual", Dispatch!SearchPacked(w, FixedR900), fixedR900)
    BY <1>4, <2>1
  <2>4. fixed = Served(FixedIDM) \cup Served(FixedR900)
    <3> HIDE DEF Served, both
    <3> QED BY <1>4, <2>2, <2>3
  <2>5. Dispatch!Loop(both) = DOMAIN preambles \ {FixedIDM, FixedR900}
    BY <1>4 DEF Dispatch!Loop
  <2>6. \A k \in DOMAIN preambles \ {FixedIDM, FixedR900} :
          Served(k) = Dispatch!ParseCandidates("loop", Dispatch!SearchPacked(w, k), preambles[k])
    OBVIOUS
  <2>7. loop = UNION {Served(k) : k \in DOMAIN preambles \ {FixedIDM, FixedR900}}
    <3> HIDE DEF Served, both
    <3> QED BY <2>5, <2>6
  <2> HIDE DEF Served, fixed, loop, both
  <2>8. fixed \cup loop = UNION {Served(k) : k \in DOMAIN preambles}
    BY <2>1, <2>4, <2>7
  <2>9. Dispatch!Cardinality(DOMAIN preambles) = 2 => DOMAIN preambles = {FixedIDM, FixedR900}
    <3>1. Dispatch!Cardinality(DOMAIN preambles) = Cardinality(DOMAIN preambles)
      BY DEF Dispatch!Cardinality, Cardinality
    <3>2. {FixedIDM, FixedR900} \subseteq DOMAIN preambles
      BY <2>1
    <3>3. Cardinality({FixedIDM, FixedR900}) = 2
      <4>1. IsFiniteSet({FixedIDM}) /\ Cardinality({FixedIDM}) = 1
        BY FS_Singleton
      <4>2. FixedR900 \notin {FixedIDM}
        BY DispatchSizes
      <4>3. Cardinality({FixedIDM} \cup {FixedR900}) = 1 + 1
        BY <4>1, <4>2, FS_AddElement
      <4>4. {FixedIDM} \cup {FixedR900} = {FixedIDM, FixedR900}
        OBVIOUS
      <4> QED BY <4>3, <4>4
    <3> QED BY <1>2, <3>1, <3>2, <3>3, FS_Subset
  <2>10. Dispatch!Cardinality(DOMAIN preambles) = 2 => fixed = UNION {Served(k) : k \in DOMAIN preambles}
    <3> SUFFICES ASSUME DOMAIN preambles = {FixedIDM, FixedR900}
                 PROVE  fixed = UNION {Served(k) : k \in DOMAIN preambles}
      BY <2>9
    <3> QED BY <2>4
  <2>11. calls' = UNION {Served(k) : k \in DOMAIN preambles}
    BY <1>1, <2>8, <2>10
  <2> QED BY <2>11 DEF Served, both
<1> QED BY <1>3, <1>4

LEMMA DispatchDecodeInv ==
  ASSUME DispatchInv, NEW w, NEW dual \in BOOLEAN, Dispatch!Decode(w, dual)
  PROVE  DispatchInv'
<1> DEFINE
      both  == dual /\ fixedIDM # <<>> /\ fixedR900 # <<>>
      by(k) == IF both /\ k \in {FixedIDM, FixedR900} THEN "dual" ELSE "loop"
      Call(k, i) == [by |-> by(k), slot |-> i, parser |-> preambles[k][i],
                     indices |-> Dispatch!SearchPacked(w, k),
                     form |-> IF Takes[preambles[k][i]] = "indices" THEN "indices"
                              ELSE IF Dispatch!IncludeBits(preambles[k]) THEN "bits" ELSE "bytes"]
<1>1. /\ window' = w /\ allocated
      /\ UNCHANGED <<registered, preambles, fixedIDM, fixedR900, overlap, compatible,
                     consumers, allocated, active, attached, history>>
  BY DEF Dispatch!Decode
<1>2. ListsInv /\ RegisteredInv /\ CallsInv
  BY DEF DispatchInv
<1>3. Registered' = Registered
  BY <1>1 DEF Registered
<1>4. ListsInv'
  BY <1>1, <1>2, <1>3 DEF ListsInv
<1>5. RegisteredInv'
  BY <1>1, <1>2, <1>3 DEF RegisteredInv, Dispatch!Compatible
<1>6. calls' = UNION {{Call(k, i) : i \in DOMAIN preambles[k]} : k \in DOMAIN preambles}
  <2>1. \A k : Dispatch!ParseCandidates(by(k), Dispatch!SearchPacked(w, k), preambles[k])
                 = {Call(k, i) : i \in DOMAIN preambles[k]}
    BY Zenon DEF Dispatch!ParseCandidates
  <2>2. calls' = UNION {Dispatch!ParseCandidates(by(k), Dispatch!SearchPacked(w, k), preambles[k]) :
                          k \in DOMAIN preambles}
    BY CallsAre
  <2> DEFINE Group(k) == Dispatch!ParseCandidates(by(k), Dispatch!SearchPacked(w, k), preambles[k])
             Made(k) == {Call(k, i) : i \in DOMAIN preambles[k]}
  <2>3. (\A k : Group(k) = Made(k)) /\ calls' = UNION {Group(k) : k \in DOMAIN preambles}
    BY <2>1, <2>2, Zenon
  <2> HIDE DEF Group, Made
  <2>4. calls' = UNION {Made(k) : k \in DOMAIN preambles}
    BY <2>3
  <2> QED BY <2>4, Zenon DEF Made
<1>7. \A k, i : /\ Call(k, i).parser = preambles[k][i] /\ Call(k, i).indices = Dispatch!SearchPacked(w, k)
                /\ Call(k, i).form = IF Takes[preambles[k][i]] = "indices" THEN "indices"
                                     ELSE IF Dispatch!IncludeBits(preambles[k]) THEN "bits" ELSE "bytes"
  OBVIOUS
<1> HIDE DEF Call
<1>8. \A c \in calls' : \E k \in DOMAIN preambles : \E i \in DOMAIN preambles[k] : c = Call(k, i)
  BY <1>6
<1>9. \A k \in DOMAIN preambles : \A i \in DOMAIN preambles[k] :
        Call(k, i) \in calls' /\ preambles[k][i] \in Registered /\ Preamble[preambles[k][i]] = k
  <2>1. \A k \in DOMAIN preambles :
          {preambles[k][i] : i \in DOMAIN preambles[k]} = {p \in Registered : Preamble[p] = k}
    BY <1>2 DEF ListsInv
  <2> QED BY <1>6, <2>1
<1>10. \A c \in calls' : c.parser \in Registered
  BY <1>7, <1>8, <1>9
<1>11. Dispatch!BitsWhereNeeded'
  <2> SUFFICES ASSUME NEW c \in calls', Takes[c.parser] = "bits" PROVE c.form = "bits"
    BY DEF Dispatch!BitsWhereNeeded
  <2>1. PICK k \in DOMAIN preambles : \E i \in DOMAIN preambles[k] : c = Call(k, i)
    BY <1>8
  <2>2. PICK i \in DOMAIN preambles[k] : c = Call(k, i)
    BY <2>1
  <2>3. Takes[preambles[k][i]] = "bits"
    BY <1>7, <2>2
  <2>4. Dispatch!IncludeBits(preambles[k])
    BY <2>3, Zenon DEF Dispatch!IncludeBits
  <2> QED BY <1>7, <2>2, <2>3, <2>4
<1>12. ASSUME NEW p \in Registered
       PROVE  \E c \in calls' :
                /\ {d \in calls' : d.parser = p} = {c}
                /\ Dispatch!Ascending(c.indices)
                /\ {c.indices[i] : i \in DOMAIN c.indices} = Dispatch!Occurrences(Preamble[p])'
  <2> DEFINE k == Preamble[p]
  <2>1. k \in DOMAIN preambles
    BY <1>2 DEF ListsInv
  <2>2. p \in {preambles[k][i] : i \in DOMAIN preambles[k]}
    <3>1. {preambles[k][i] : i \in DOMAIN preambles[k]} = {q \in Registered : Preamble[q] = k}
      BY <1>2, <2>1 DEF ListsInv
    <3> QED BY <3>1
  <2>3. PICK i \in DOMAIN preambles[k] : preambles[k][i] = p
    BY <2>2
  <2> DEFINE c == Call(k, i)
             s == Dispatch!SearchPacked(w, k)
  <2>4. c \in calls' /\ c.parser = p /\ c.indices = s
    <3> HIDE DEF k
    <3> QED BY <1>7, <1>9, <2>1, <2>3
  <2>5. ASSUME NEW d \in calls', d.parser = p PROVE d = c
    <3>1. PICK l \in DOMAIN preambles : \E j \in DOMAIN preambles[l] : d = Call(l, j)
      BY <1>8
    <3>2. PICK j \in DOMAIN preambles[l] : d = Call(l, j)
      BY <3>1
    <3>3. preambles[l][j] = p
      BY <1>7, <2>5, <3>2
    <3>4. l = k
      BY <1>9, <3>3
    <3>5. \A x, y \in DOMAIN preambles[k] : preambles[k][x] = preambles[k][y] => x = y
      BY <1>2, <2>1 DEF ListsInv
    <3>6. j = i
      <4> HIDE DEF k
      <4> QED BY <2>3, <3>3, <3>4, <3>5
    <3> QED BY <3>2, <3>4, <3>6
  <2>6. k \in Seq({0, 1})
    <3>1. p \in Parsers
      BY <1>2 DEF RegisteredInv, Registered
    <3> QED BY <3>1, DispatchSizes
  <2>7. Sorted(s, SearchBytes * ByteBits, w, k)
    BY SearchIs
  <2>8. Dispatch!Ascending(s)
    <3>1. DOMAIN s = 1 .. Len(s)
      <4> HIDE DEF s
      <4> QED BY <2>7 DEF Sorted
    <3> HIDE DEF s
    <3> QED BY <2>7, <3>1 DEF Sorted, Dispatch!Ascending
  <2>9. {s[j] : j \in DOMAIN s} = Dispatch!Occurrences(k)'
    <3> DEFINE n == SearchBytes * ByteBits
    <3>1. Dispatch!Occurrences(k)' = {x \in 0 .. (n - 1) : Begins(w, k, x)}
      <4> HIDE DEF k
      <4> QED BY <1>1, Zenon DEF Dispatch!Occurrences, Dispatch!Decision, Begins
    <3>2. n \in Nat
      BY DispatchSizes
    <3> HIDE DEF k, s, n
    <3>3. \A x \in 0 .. (n - 1) : Hit(w, k, x) <=> Begins(w, k, x)
      <4> TAKE x \in 0 .. (n - 1)
      <4>1. x \in Nat
        BY <3>2
      <4> QED BY <2>6, <4>1, HitIs
    <3>4. Dispatch!Occurrences(k)' = {x \in 0 .. (n - 1) : Hit(w, k, x)}
      BY <3>1, <3>3, Zenon
    <3>5. DOMAIN s = 1 .. Len(s)
      BY <2>7 DEF Sorted
    <3>6. /\ \A j \in DOMAIN s : s[j] \in 0 .. (n - 1) /\ Hit(w, k, s[j])
          /\ \A x \in 0 .. (n - 1) : Hit(w, k, x) => \E j \in DOMAIN s : s[j] = x
      BY <2>7, <3>5 DEF Sorted, n
    <3> QED BY <3>4, <3>6, Zenon
  <2>10. {d \in calls' : d.parser = p} = {c}
    <3> HIDE DEF c
    <3> QED BY <2>4, <2>5
  <2>11. c.indices = s /\ c \in calls'
    BY <2>4
  <2> HIDE DEF c, s
  <2> QED BY <2>8, <2>9, <2>10, <2>11
<1>13. Dispatch!ServedOnce'
  <2>1. Dispatch!Range(registered)' = Registered
    BY <1>3, RangeIs DEF Dispatch!Range, Registered
  <2>2. ASSUME NEW p \in Registered
        PROVE  \E c \in calls' :
                 /\ {d \in calls' : d.parser = p} = {c}
                 /\ Dispatch!Ascending(c.indices) /\ Dispatch!Range(c.indices) = Dispatch!Occurrences(Preamble[p])'
    BY <1>12, RangeIs
  <2> QED BY <2>1, <2>2, Zenon DEF Dispatch!ServedOnce, Dispatch!Ascending, Dispatch!Range
<1>14. Dispatch!OneRepresentation'
  BY <1>1, <1>2 DEF CallsInv, Dispatch!OneRepresentation, Dispatch!Range
<1>15. CallsInv'
  BY <1>3, <1>10, <1>11, <1>13, <1>14 DEF CallsInv
<1> QED BY <1>4, <1>5, <1>15 DEF DispatchInv

\* The lists of RegisterProtocol, the representation Allocate chooses and
\* the calls of decodeQuantized: an invariant of the decoder for every set
\* of parsers, preambles and windows.
THEOREM DispatchInvariant == PathSpec => []DispatchInv
<1>1. PathInit => DispatchInv
  BY DispatchInit DEF PathInit
<1>2. ASSUME DispatchInv, [PathNext]_all PROVE DispatchInv'
  <2>1. CASE DispatchStep
    <3>1. Dispatch!Next
      BY <2>1 DEF DispatchStep
    <3>2. \/ \E p \in Parsers : Dispatch!RegisterProtocol(p)
          \/ \E usable \in BOOLEAN : Dispatch!Allocate(usable)
          \/ \E dual \in BOOLEAN : \E w \in Dispatch!Windows : Dispatch!Decode(w, dual)
      BY <3>1, Zenon DEF Dispatch!Next
    <3> QED BY <1>2, <3>2, RegisterInv, AllocateInv, DispatchDecodeInv
  <2>2. CASE UNCHANGED dispatchVars
    <3>1. /\ registered' = registered /\ preambles' = preambles /\ fixedIDM' = fixedIDM /\ fixedR900' = fixedR900
          /\ overlap' = overlap /\ compatible' = compatible /\ consumers' = consumers
          /\ allocated' = allocated /\ active' = active /\ attached' = attached /\ history' = history
          /\ window' = window /\ calls' = calls
      BY <2>2 DEF dispatchVars
    <3>2. Registered' = Registered
      BY <3>1 DEF Registered
    <3>0. ListsInv /\ RegisteredInv /\ CallsInv
      BY <1>2 DEF DispatchInv
    <3>3. ListsInv'
      <4>1. ListsInv
        BY <3>0
      <4> QED BY <3>1, <3>2, <4>1 DEF ListsInv
    <3>4. RegisteredInv'
      BY <3>0, <3>1, <3>2 DEF RegisteredInv, Dispatch!Compatible
    <3>5. CallsInv'
      <4>1. Dispatch!ServedOnce'
        <5>1. Dispatch!ServedOnce
          BY <3>0 DEF CallsInv
        <5>2. \A q : Dispatch!Occurrences(q)' = Dispatch!Occurrences(q)
          BY <3>1 DEF Dispatch!Occurrences, Dispatch!Decision
        <5> QED BY <3>1, <5>1, <5>2, Zenon DEF Dispatch!ServedOnce, Dispatch!Ascending, Dispatch!Range
      <4>2. Dispatch!BitsWhereNeeded' /\ Dispatch!OneRepresentation'
        BY <3>0, <3>1, Zenon DEF CallsInv, Dispatch!BitsWhereNeeded, Dispatch!OneRepresentation,
           Dispatch!Range
      <4> QED BY <3>0, <3>1, <3>2, <4>1, <4>2 DEF CallsInv
    <3> QED BY <3>3, <3>4, <3>5 DEF DispatchInv
  <2> QED BY <1>2, <2>1, <2>2 DEF PathNext, all, RingsStep, CheckStep, OutputStep, DatabaseStep
<1> QED BY <1>1, <1>2, PTL DEF PathSpec

\* Whatever the order of registration, the preambles shared and the kernel
\* used, every parser is called exactly once per block with exactly the
\* positions of its preamble in ascending order, gets bits if it reads them,
\* and after Allocate sees one representation of the magnitudes
\* (RegisterProtocol, Allocate, decodeQuantized, searchPackedByteAligned).
THEOREM DispatchExactThm == PathSpec => []DispatchExact
<1>1. DispatchInv => DispatchExact
  <2> SUFFICES ASSUME DispatchInv PROVE DispatchExact
    OBVIOUS
  <2>1. RegisteredInv /\ CallsInv
    BY DEF DispatchInv
  <2>2. Dispatch!TypeOK
    <3>1. Registered \subseteq Parsers
      BY <2>1 DEF RegisteredInv, Registered
    <3>2. Dispatch!IsInjective(registered)
      BY <2>1 DEF RegisteredInv, Dispatch!IsInjective
    <3>3. Dispatch!Range(consumers) \subseteq Registered
      BY <2>1, RangeIs DEF RegisteredInv
    <3>4. {compatible, allocated, active} \subseteq BOOLEAN
      BY <2>1 DEF RegisteredInv
    <3> QED BY <2>1, <3>1, <3>2, <3>3, <3>4, RangeIs DEF Dispatch!TypeOK, RegisteredInv, CallsInv
  <2> QED BY <2>1, <2>2 DEF DispatchExact, Dispatch!DispatchExact, CallsInv
<1> QED BY <1>1, DispatchInvariant, PTL
=============================================================================
