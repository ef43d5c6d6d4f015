------------------------ MODULE SenderModelsProofs --------------------------
(***************************************************************************)
(* Proofs about SenderModels: the cached answer about the wake windows is  *)
(* the one the windows give, for every fit and whenever fits change;       *)
(* watchdogs checked only when due find what a check at every block would, *)
(* for every configuration of them; and what is learned of a cadence finds *)
(* the period and reaches what it was fitted to, for every set of          *)
(* intervals and every scale.                                              *)
(***************************************************************************)
EXTENDS SenderModels, FiniteSetTheorems, TLAPS

-----------------------------------------------------------------------------
(* The windows of a sender with fit f: one around every arrival f expects. *)
From(f, k)  == f.anchor + k * f.period - f.pre
Until(f, k) == f.anchor + k * f.period + f.post

Learned == \A s \in Pair : fit[s].learned

FitInv ==
  /\ fit \in [Pair -> [learned : BOOLEAN, period : Nat, pre : Nat, post : Nat, anchor : 0 .. MaxTime]]
  /\ \A s \in Pair : fit[s].learned => fit[s].period > 0
  /\ now \in 0 .. MaxTime
  /\ cache \in [valid : BOOLEAN, until : Nat, next : Int]
  /\ eligibility \in [dirty : BOOLEAN, cached : BOOLEAN]
  /\ eligible \in BOOLEAN /\ awake \in BOOLEAN /\ advanced \in BOOLEAN
  /\ ~eligibility.dirty => eligibility.cached = Learned
  /\ advanced => now >= Block

\* The cached end is that of a window that has begun; when there is none, no
\* window of any sender is open before the cached start of the next.
CacheInv ==
  cache.valid =>
    /\ Learned
    /\ cache.until > 0 => \E s \in Pair, k \in Int : cache.until = Until(fit[s], k) /\ From(fit[s], k) < now
    /\ cache.until = 0 => \A s \in Pair, k \in Int : Until(fit[s], k) <= now \/ From(fit[s], k) >= cache.next

WindowsInv == FitInv /\ CacheInv /\ Windows!ScheduleExact

-----------------------------------------------------------------------------
LEMMA Sizes ==
  /\ Block \in Nat \ {0} /\ MaxTime \in Nat
  /\ \A f \in Fits : /\ f.learned \in BOOLEAN /\ f.period \in Nat /\ f.pre \in Nat /\ f.post \in Nat
                     /\ f.learned => f.period > 0
<1>1. Windows!WindowAssumption
  BY ModelsAssumption
<1> QED BY <1>1, Zenon DEF Windows!WindowAssumption

LEMMA CeilIs ==
  ASSUME NEW a \in Int, NEW b \in Nat \ {0}
  PROVE  /\ Windows!Ceil(a, b) \in Int
         /\ Windows!Ceil(a, b) * b >= a /\ (Windows!Ceil(a, b) - 1) * b < a
<1> DEFINE x == -a
           q == x \div b
           r == x % b
<1>1. x \in Int /\ a = -x
  OBVIOUS
<1> HIDE DEF x
<1>2. q \in Int /\ r \in 0 .. (b - 1) /\ x = b * q + r
  BY <1>1
<1>3. Windows!Ceil(a, b) = -q
  BY DEF Windows!Ceil, x
<1> HIDE DEF q, r
<1>4. (-q) * b = -(b * q) /\ ((-q) - 1) * b = -(b * q) - b /\ b * q \in Int
  BY <1>2
<1> QED BY <1>1, <1>2, <1>3, <1>4

LEMMA StepsOrder ==
  ASSUME NEW d \in Nat, NEW p \in Int, NEW q \in Int, p <= q
  PROVE  p * d \in Int /\ q * d \in Int /\ p * d <= q * d
<1> DEFINE g == q - p
<1>1. g \in Nat /\ q = p + g
  OBVIOUS
<1> HIDE DEF g
<1>2. q * d = p * d + g * d /\ g * d \in Nat /\ p * d \in Int
  BY <1>1
<1> QED BY <1>2

(* A window that meets a block of the modelled time is among the counted.  *)
LEMMA CountedWindow ==
  ASSUME NEW f \in [learned : BOOLEAN, period : Nat, pre : Nat, post : Nat, anchor : 0 .. MaxTime],
         Windows!Apart(f), NEW t \in 0 .. MaxTime, t + Block <= MaxTime,
         NEW k \in Int, From(f, k) < t + Block, Until(f, k) > t
  PROVE  Windows!Meets(f, t, t + Block)
<1> DEFINE d == f.period
           m == MaxTime
           pre == f.pre
           post == f.post
           c == f.anchor
           x == k * d
<1>1. /\ d \in Nat /\ pre \in Nat /\ post \in Nat /\ c \in 0 .. m /\ m \in Nat /\ Block \in Nat \ {0}
      /\ pre + post + Block <= d /\ t \in 0 .. m /\ t + Block <= m
  BY Sizes DEF Windows!Apart
<1>2. c + x - pre < t + Block /\ c + x + post > t
  BY DEF From, Until
<1> HIDE DEF d, m, pre, post, c
<1>3. x \in Int
  BY <1>1
<1>4. k >= -(m + 1)
  <2> SUFFICES ASSUME k <= -(m + 2) PROVE FALSE
    BY <1>1
  <2>1. -(m + 2) \in Int /\ x <= (-(m + 2)) * d
    BY <1>1, StepsOrder
  <2>2. (-(m + 2)) * d = -(m * d) - 2 * d /\ m * d \in Nat
    BY <1>1
  <2>3. m * 1 <= m * d
    <3>1. 1 * m <= d * m /\ d * m = m * d
      BY <1>1, StepsOrder
    <3> QED BY <1>1, <3>1
  <2> HIDE DEF x
  <2> QED BY <1>1, <1>2, <1>3, <2>1, <2>2, <2>3
<1>5. k <= m + 1
  <2> SUFFICES ASSUME k >= m + 2 PROVE FALSE
    BY <1>1
  <2>1. (m + 2) * d <= x
    BY <1>1, StepsOrder
  <2>2. (m + 2) * d = m * d + 2 * d /\ m * d \in Nat
    BY <1>1
  <2>3. m * 1 <= m * d
    <3>1. 1 * m <= d * m /\ d * m = m * d
      BY <1>1, StepsOrder
    <3> QED BY <1>1, <3>1
  <2> HIDE DEF x
  <2> QED BY <1>1, <1>2, <1>3, <2>1, <2>2, <2>3
<1>6. k \in -(m + 1) .. m + 1
  BY <1>1, <1>4, <1>5
<1>7. f.anchor + k * f.period - f.pre < t + Block /\ f.anchor + k * f.period + f.post > t
  BY DEF From, Until
<1> QED BY <1>6, <1>7 DEF Windows!Meets, m

(* awakeWindow finds the window the block meets, and otherwise where the   *)
(* next one begins.                                                        *)
LEMMA AwakeWindowIs ==
  ASSUME NEW f \in [learned : BOOLEAN, period : Nat, pre : Nat, post : Nat, anchor : 0 .. MaxTime],
         f.period > 0, NEW t \in Int, NEW e \in Int, t < e
  PROVE  LET w == Windows!AwakeWindow(f, t, e)
         IN  /\ w \in [awake : BOOLEAN, until : Int, next : Int]
             /\ w.awake => \E k \in Int : /\ w.until = Until(f, k) /\ w.until > t
                                          /\ From(f, k) < e
             /\ ~w.awake => /\ \A k \in Int : Until(f, k) <= t \/ From(f, k) >= w.next
                            /\ f.pre + f.post + (e - t) <= f.period => w.next >= e
<1> DEFINE d == f.period
           pre == f.pre
           post == f.post
           c == f.anchor
           first == Windows!Ceil(t - post - c, d)
           center == c + first * d
           from == center - pre
           until == center + post
           w == Windows!AwakeWindow(f, t, e)
<1>1. d \in Nat \ {0} /\ pre \in Nat /\ post \in Nat /\ c \in Int
  BY Sizes
<1>2. w = IF from < e /\ until > t
          THEN [awake |-> TRUE, until |-> until, next |-> Windows!Infinity]
          ELSE [awake |-> FALSE, until |-> 0, next |-> IF until <= t THEN from + d ELSE from]
  BY DEF Windows!AwakeWindow
<1>3. \A k \in Int : From(f, k) = c + k * d - pre /\ Until(f, k) = c + k * d + post
  BY DEF From, Until
<1> HIDE DEF d, pre, post, c, first, w
<1>4. first \in Int /\ first * d >= t - post - c /\ (first - 1) * d < t - post - c
  <2>1. t - post - c \in Int
    BY <1>1
  <2> QED BY <1>1, <2>1, CeilIs DEF first
<1>5. (first - 1) * d = first * d - d /\ (first + 1) * d = first * d + d /\ first * d \in Int
  BY <1>1, <1>4
<1>6. Windows!Infinity \in Int
  BY Sizes DEF Windows!Infinity
<1>7. from \in Int /\ until \in Int /\ until >= t /\ until - d < t /\ until = from + pre + post
  BY <1>1, <1>4, <1>5
<1>8. From(f, first) = from /\ Until(f, first) = until
  BY <1>1, <1>3, <1>4, <1>5
<1>9. \A k \in Int : /\ k < first => Until(f, k) <= until - d
                     /\ k <= first => Until(f, k) <= until
                     /\ k >= first => From(f, k) >= from
                     /\ k > first => From(f, k) >= from + d
  <2> TAKE k \in Int
  <2>1. k * d \in Int /\ Until(f, k) = c + k * d + post /\ From(f, k) = c + k * d - pre
    BY <1>1, <1>3
  <2>2. k < first => k * d <= (first - 1) * d
    BY <1>1, <1>4, StepsOrder
  <2>3. k <= first => k * d <= first * d
    BY <1>1, <1>4, StepsOrder
  <2>4. k >= first => first * d <= k * d
    BY <1>1, <1>4, StepsOrder
  <2>5. k > first => (first + 1) * d <= k * d
    BY <1>1, <1>4, StepsOrder
  <2> QED BY <1>1, <1>5, <2>1, <2>2, <2>3, <2>4, <2>5
<1> HIDE DEF from, until
<1>10. CASE from < e /\ until > t
  <2>1. w = [awake |-> TRUE, until |-> until, next |-> Windows!Infinity]
    BY <1>2, <1>10
  <2>2. w \in [awake : BOOLEAN, until : Int, next : Int] /\ w.awake /\ w.until = until
    BY <1>6, <1>7, <2>1
  <2> QED BY <1>4, <1>8, <1>10, <2>2 DEF w
<1>11. CASE ~(from < e /\ until > t)
  <2> DEFINE nx == IF until <= t THEN from + d ELSE from
  <2>1. w = [awake |-> FALSE, until |-> 0, next |-> nx]
    BY <1>2, <1>11
  <2>2. nx \in Int
    BY <1>1, <1>7
  <2>3. w \in [awake : BOOLEAN, until : Int, next : Int] /\ ~w.awake /\ w.next = nx
    BY <2>1, <2>2
  <2>4. ASSUME NEW k \in Int PROVE Until(f, k) <= t \/ From(f, k) >= nx
    <3>1. Until(f, k) \in Int /\ From(f, k) \in Int
      BY <1>1, <1>3
    <3>2. CASE until <= t
      BY <1>4, <1>7, <1>9, <3>1, <3>2
    <3>3. CASE ~(until <= t)
      BY <1>1, <1>4, <1>7, <1>9, <3>1, <3>3
    <3> QED BY <3>2, <3>3
  <2>5. pre + post + (e - t) <= d => nx >= e
    BY <1>1, <1>7, <1>11
  <2> QED BY <2>3, <2>4, <2>5 DEF w, d, pre, post
<1> QED BY <1>10, <1>11


LEMMA Greatest ==
  ASSUME NEW a \in Int, NEW b \in Int, NEW c \in Int, NEW S \in SUBSET {a, b, c}, S # {}
  PROVE  /\ Windows!Max(S) \in S /\ \A y \in S : Windows!Max(S) >= y
         /\ Windows!Min(S) \in S /\ \A y \in S : Windows!Min(S) <= y
<1>1. \A y \in S : y = a \/ y = b \/ y = c
  OBVIOUS
<1>2. \E x \in S : \A y \in S : x >= y
  <2> SUFFICES ASSUME \A x \in S : \E y \in S : ~(x >= y) PROVE FALSE
    OBVIOUS
  <2>1. a \in S => (b \in S /\ b > a) \/ (c \in S /\ c > a)
    BY <1>1
  <2>2. b \in S => (a \in S /\ a > b) \/ (c \in S /\ c > b)
    BY <1>1
  <2>3. c \in S => (a \in S /\ a > c) \/ (b \in S /\ b > c)
    BY <1>1
  <2>4. a \in S \/ b \in S \/ c \in S
    BY <1>1
  <2> QED BY <2>1, <2>2, <2>3, <2>4
<1>3. \E x \in S : \A y \in S : x <= y
  <2> SUFFICES ASSUME \A x \in S : \E y \in S : ~(x <= y) PROVE FALSE
    OBVIOUS
  <2>1. a \in S => (b \in S /\ b < a) \/ (c \in S /\ c < a)
    BY <1>1
  <2>2. b \in S => (a \in S /\ a < b) \/ (c \in S /\ c < b)
    BY <1>1
  <2>3. c \in S => (a \in S /\ a < c) \/ (b \in S /\ b < c)
    BY <1>1
  <2>4. a \in S \/ b \in S \/ c \in S
    BY <1>1
  <2> QED BY <2>1, <2>2, <2>3, <2>4
<1> QED BY <1>2, <1>3, Zenon DEF Windows!Max, Windows!Min

(* The answer computed from all the senders' windows.                      *)
LEMMA ComputedIs ==
  ASSUME FitInv, Learned, NEW t \in Nat, NEW e \in Int, t < e
  PROVE  LET c == Windows!Computed(t, e)
         IN  /\ c \in [valid : BOOLEAN, until : Nat, next : Int] /\ c.valid
             /\ c.until > 0 => \E s \in Pair, k \in Int : /\ c.until = Until(fit[s], k) /\ c.until > t
                                                          /\ From(fit[s], k) < e
             /\ c.until = 0 => \A s \in Pair, k \in Int : Until(fit[s], k) <= t \/ From(fit[s], k) >= c.next
             /\ c.until = 0 => \A s \in Pair : fit[s].pre + fit[s].post + (e - t) <= fit[s].period =>
                                 \A k \in Int : Until(fit[s], k) <= t \/ From(fit[s], k) >= e
<1> DEFINE W(s) == Windows!AwakeWindow(fit[s], t, e)
           windows == {W(s) : s \in Pair}
           open == {w \in windows : w.awake}
           U == {0} \cup {w.until : w \in open}
           N == {Windows!Infinity} \cup {w.next : w \in windows \ open}
           c == Windows!Computed(t, e)
<1>1. c = [valid |-> TRUE, until |-> Windows!Max(U), next |-> Windows!Min(N)]
  BY DEF Windows!Computed
<1>2. \A s \in Pair :
        /\ W(s) \in [awake : BOOLEAN, until : Int, next : Int]
        /\ W(s).awake => \E k \in Int : /\ W(s).until = Until(fit[s], k) /\ W(s).until > t
                                        /\ From(fit[s], k) < e
        /\ ~W(s).awake => /\ \A k \in Int : Until(fit[s], k) <= t \/ From(fit[s], k) >= W(s).next
                          /\ fit[s].pre + fit[s].post + (e - t) <= fit[s].period => W(s).next >= e
  <2> TAKE s \in Pair
  <2>1. fit[s] \in [learned : BOOLEAN, period : Nat, pre : Nat, post : Nat, anchor : 0 .. MaxTime]
        /\ fit[s].period > 0
    BY DEF FitInv, Learned
  <2>2. t \in Int
    OBVIOUS
  <2> QED BY <2>1, <2>2, AwakeWindowIs
<1>3. Windows!Infinity \in Int
  BY Sizes DEF Windows!Infinity
<1> HIDE DEF W, c
<1> DEFINE a == W("learns")
           b == W("seeded")
<1>4. windows = {a, b} /\ a.until \in Int /\ b.until \in Int /\ a.next \in Int /\ b.next \in Int
  BY <1>2 DEF Pair
<1>5. U \in SUBSET {0, a.until, b.until} /\ U # {}
  BY <1>4
<1>6. N \in SUBSET {Windows!Infinity, a.next, b.next} /\ N # {}
  BY <1>4
<1>7. Windows!Max(U) \in U /\ \A y \in U : Windows!Max(U) >= y
  <2> HIDE DEF U, N, windows
  <2>1. 0 \in Int
    OBVIOUS
  <2> QED BY <1>4, <1>5, <2>1, Greatest, Zenon
<1>8. Windows!Min(N) \in N /\ \A y \in N : Windows!Min(N) <= y
  <2> HIDE DEF U, N, windows
  <2> QED BY <1>3, <1>4, <1>6, Greatest, Zenon
<1>9. \A s \in Pair : W(s) \in windows
  OBVIOUS
<1>10. \A x \in U : x \in Int
  BY <1>4, <1>5
<1>11. \A x \in N : x \in Int
  BY <1>3, <1>4, <1>6
<1>12. 0 \in U /\ \A s \in Pair : /\ W(s).awake => W(s).until \in U
                                  /\ ~W(s).awake => W(s).next \in N
  BY <1>9
<1>13. \A x \in U : x = 0 \/ \E s \in Pair : W(s).awake /\ x = W(s).until
  OBVIOUS
<1> HIDE DEF U, N
<1> DEFINE u == Windows!Max(U)
           n == Windows!Min(N)
<1>14. u \in Nat /\ n \in Int
  BY <1>7, <1>8, <1>10, <1>11, <1>12
<1>15. c.valid /\ c.until = u /\ c.next = n /\ c \in [valid : BOOLEAN, until : Nat, next : Int]
  BY <1>1, <1>14
<1>16. u > 0 => \E s \in Pair, k \in Int : u = Until(fit[s], k) /\ u > t /\ From(fit[s], k) < e
  BY <1>2, <1>7, <1>13, <1>14
<1>17. ASSUME u = 0, NEW s \in Pair PROVE ~W(s).awake /\ W(s).next >= n
  <2>1. ~W(s).awake
    <3> SUFFICES ASSUME W(s).awake PROVE FALSE
      OBVIOUS
    <3>1. W(s).until \in U /\ W(s).until > t /\ W(s).until \in Int
      BY <1>2, <1>12, <1>17
    <3>2. u >= W(s).until
      BY <1>7, <3>1
    <3> QED BY <1>17, <3>1, <3>2
  <2>2. W(s).next \in N
    BY <1>12, <2>1
  <2> QED BY <1>8, <2>1, <2>2
<1>18. ASSUME u = 0, NEW s \in Pair, NEW k \in Int
       PROVE  /\ Until(fit[s], k) <= t \/ From(fit[s], k) >= n
              /\ fit[s].pre + fit[s].post + (e - t) <= fit[s].period =>
                   Until(fit[s], k) <= t \/ From(fit[s], k) >= e
  <2> DEFINE x == W(s).next
             y == From(fit[s], k)
  <2>1. Until(fit[s], k) <= t \/ y >= x
    BY <1>2, <1>17, <1>18
  <2>2. x >= n /\ x \in Int /\ (fit[s].pre + fit[s].post + (e - t) <= fit[s].period => x >= e)
    BY <1>2, <1>17, <1>18
  <2>3. y \in Int
    <3>1. fit[s].period \in Int /\ fit[s].anchor \in Int /\ fit[s].pre \in Int
      BY Sizes, <1>18 DEF FitInv
    <3> QED BY <3>1 DEF From
  <2> HIDE DEF x, y
  <2>4. y >= x => y >= n
    BY <1>14, <2>2, <2>3
  <2>5. y >= x /\ x >= e => y >= e
    BY <2>2, <2>3
  <2> QED BY <2>1, <2>2, <2>4, <2>5, Zenon DEF y
<1> HIDE DEF u, n
<1> QED BY <1>15, <1>16, <1>18, Zenon DEF c


LEMMA WindowsInit == Windows!Init => WindowsInv
<1> SUFFICES ASSUME Windows!Init PROVE WindowsInv
  OBVIOUS
<1>0. /\ fit = [s \in Pair |-> Windows!Unlearned] /\ now = 0 /\ cache = Windows!Invalid
      /\ eligibility = [dirty |-> TRUE, cached |-> FALSE]
      /\ eligible = FALSE /\ awake = FALSE /\ advanced = FALSE
  BY DEF Windows!Init
<1>1. FitInv
  <2>1. /\ fit \in [Pair -> [learned : BOOLEAN, period : Nat, pre : Nat, post : Nat, anchor : 0 .. MaxTime]]
        /\ \A s \in Pair : fit[s].learned => fit[s].period > 0
    BY <1>0, Sizes DEF Windows!Unlearned
  <2>2. now \in 0 .. MaxTime /\ cache \in [valid : BOOLEAN, until : Nat, next : Int]
    BY <1>0, Sizes DEF Windows!Invalid
  <2>3. eligibility \in [dirty : BOOLEAN, cached : BOOLEAN] /\ eligibility.dirty
    BY <1>0
  <2> QED BY <1>0, <2>1, <2>2, <2>3 DEF FitInv
<1>2. CacheInv /\ Windows!ScheduleExact
  BY DEF Windows!Init, CacheInv, Windows!ScheduleExact, Windows!Invalid
<1> QED BY <1>1, <1>2 DEF WindowsInv

LEMMA AllLearnedIs ==
  ASSUME FitInv
  PROVE  Windows!AllLearned = Learned /\ Learned \in BOOLEAN
<1>1. eligibility.dirty \in BOOLEAN /\ (~eligibility.dirty => eligibility.cached = Learned)
  BY DEF FitInv
<1>2. Windows!AllLearned = IF eligibility.dirty THEN Learned ELSE eligibility.cached
  BY Zenon DEF Windows!AllLearned, Learned
<1>3. Learned \in BOOLEAN
  BY Zenon DEF Learned
<1> QED BY <1>1, <1>2, <1>3, Zenon

(* Meets, from the windows themselves.                                     *)
LEMMA MeetsIs ==
  ASSUME FitInv, NEW s \in Pair, NEW t \in 0 .. MaxTime, t + Block <= MaxTime
  PROVE  /\ Windows!Apart(fit[s]) => \A k \in Int : From(fit[s], k) < t + Block /\ Until(fit[s], k) > t =>
                                                     Windows!Meets(fit[s], t, t + Block)
         /\ Windows!Meets(fit[s], t, t + Block) =>
              \E k \in Int : From(fit[s], k) < t + Block /\ Until(fit[s], k) > t
<1>1. fit[s] \in [learned : BOOLEAN, period : Nat, pre : Nat, post : Nat, anchor : 0 .. MaxTime]
  BY DEF FitInv
<1>2. \A k \in -(MaxTime + 1) .. MaxTime + 1 : k \in Int
  BY Sizes
<1>3. Windows!Meets(fit[s], t, t + Block) =>
        \E k \in Int : From(fit[s], k) < t + Block /\ Until(fit[s], k) > t
  BY <1>2 DEF Windows!Meets, From, Until
<1> QED BY <1>1, <1>3, CountedWindow

LEMMA TimeIs ==
  ASSUME FitInv, NEW s \in Pair, NEW k \in Int
  PROVE  From(fit[s], k) \in Int /\ Until(fit[s], k) \in Int
<1>1. fit[s].period \in Int /\ fit[s].anchor \in Int /\ fit[s].pre \in Int /\ fit[s].post \in Int
  BY Sizes DEF FitInv
<1> QED BY <1>1 DEF From, Until

(* A block is decoded: the cache answers or the windows do.                *)
LEMMA AdvanceInv ==
  ASSUME WindowsInv, Windows!Advance
  PROVE  WindowsInv'
<1> USE DEF WindowsInv
<1> DEFINE e == now + Block
           known == Windows!Cached(now, e)
           fresh == Windows!Computed(now, e)
           Met == \E s \in Pair : Windows!Meets(fit[s], now, e)
           Room == \A s \in Pair : Windows!Apart(fit[s])
<1>1. /\ e <= MaxTime /\ now' = e /\ advanced' = TRUE /\ fit' = fit
      /\ eligible' = Learned /\ eligibility' = [dirty |-> FALSE, cached |-> Learned]
      /\ ~Learned => awake' = TRUE /\ cache' = cache
      /\ Learned /\ known # "unknown" => awake' = (known = "awake") /\ cache' = cache
      /\ Learned /\ known = "unknown" => awake' = (fresh.until > 0) /\ cache' = fresh
  BY AllLearnedIs DEF Windows!Advance
<1>2. now \in Nat /\ now \in 0 .. MaxTime /\ e \in Int /\ now < e /\ Block \in Nat \ {0} /\ MaxTime \in Nat
  BY Sizes DEF FitInv
<1>3. Learned' = Learned /\ Learned \in BOOLEAN
  BY <1>1, AllLearnedIs DEF Learned
<1>4. cache.valid \in BOOLEAN /\ cache.until \in Nat /\ cache.next \in Int
  BY DEF FitInv
<1>5. /\ known = "awake" => cache.valid /\ cache.until > now
      /\ known = "asleep" => cache.valid /\ cache.until = 0 /\ cache.next >= e
      /\ known \in {"awake", "asleep", "unknown"}
  BY <1>2, <1>4 DEF Windows!Cached
<1>6. Learned => /\ fresh \in [valid : BOOLEAN, until : Nat, next : Int] /\ fresh.valid
                 /\ fresh.until > 0 => \E s \in Pair, k \in Int :
                      fresh.until = Until(fit[s], k) /\ fresh.until > now /\ From(fit[s], k) < e
                 /\ fresh.until = 0 => \A s \in Pair, k \in Int :
                      Until(fit[s], k) <= now \/ From(fit[s], k) >= fresh.next
                 /\ fresh.until = 0 => \A s \in Pair :
                      fit[s].pre + fit[s].post + (e - now) <= fit[s].period =>
                        \A k \in Int : Until(fit[s], k) <= now \/ From(fit[s], k) >= e
  BY <1>2, ComputedIs
<1> HIDE DEF fresh, known
<1>7. FitInv'
  <2>1. cache' \in [valid : BOOLEAN, until : Nat, next : Int]
    BY <1>1, <1>3, <1>5, <1>6 DEF FitInv
  <2>2. awake' \in BOOLEAN /\ eligible' \in BOOLEAN
    <3>1. awake' = TRUE \/ awake' = (known = "awake") \/ awake' = (fresh.until > 0)
      BY <1>1, <1>3, Zenon
    <3>2. (known = "awake") \in BOOLEAN /\ (fresh.until > 0) \in BOOLEAN /\ TRUE \in BOOLEAN
      OBVIOUS
    <3>3. awake' \in BOOLEAN
      BY <3>1, <3>2, Zenon
    <3> QED BY <1>1, <1>3, <3>3, Zenon
  <2>3. eligibility' \in [dirty : BOOLEAN, cached : BOOLEAN] /\ (~eligibility'.dirty => eligibility'.cached = Learned')
    BY <1>1, <1>3
  <2>4. now' \in 0 .. MaxTime /\ now' >= Block /\ advanced' \in BOOLEAN
    BY <1>1, <1>2
  <2> QED BY <1>1, <2>1, <2>2, <2>3, <2>4 DEF FitInv
<1>8. CacheInv'
  <2> SUFFICES ASSUME cache'.valid
               PROVE  /\ Learned
                      /\ cache'.until > 0 => \E s \in Pair, k \in Int :
                           cache'.until = Until(fit[s], k) /\ From(fit[s], k) < e
                      /\ cache'.until = 0 => \A s \in Pair, k \in Int :
                           Until(fit[s], k) <= e \/ From(fit[s], k) >= cache'.next
    BY <1>1, <1>3 DEF CacheInv, From, Until
  <2>1. CASE cache' = cache
    <3>1. Learned
      BY <2>1 DEF CacheInv
    <3>2. \A s \in Pair, k \in Int : /\ From(fit[s], k) < now => From(fit[s], k) < e
                                     /\ Until(fit[s], k) <= now => Until(fit[s], k) <= e
      BY <1>2, TimeIs
    <3>3. /\ cache.until > 0 => \E s \in Pair, k \in Int : cache.until = Until(fit[s], k) /\ From(fit[s], k) < now
          /\ cache.until = 0 => \A s \in Pair, k \in Int : Until(fit[s], k) <= now \/ From(fit[s], k) >= cache.next
      BY <2>1 DEF CacheInv
    <3> QED BY <2>1, <3>1, <3>2, <3>3
  <2>2. CASE Learned /\ cache' = fresh
    <3>1. \A s \in Pair, k \in Int : Until(fit[s], k) <= now => Until(fit[s], k) <= e
      BY <1>2, TimeIs
    <3> QED BY <1>6, <2>2, <3>1
  <2> QED BY <1>1, <1>3, <1>5, <2>1, <2>2
<1>9. Windows!ScheduleExact'
  <2>1. ASSUME Learned, Room PROVE awake' <=> Met
    <3>1. \A s \in Pair : /\ \A k \in Int : From(fit[s], k) < e /\ Until(fit[s], k) > now =>
                                              Windows!Meets(fit[s], now, e)
                          /\ Windows!Meets(fit[s], now, e) =>
                               \E k \in Int : From(fit[s], k) < e /\ Until(fit[s], k) > now
      BY <1>1, <1>2, <2>1, MeetsIs
    <3>2. CASE known = "awake"
      <4>1. cache.valid /\ cache.until > now /\ cache.until > 0 /\ awake'
        BY <1>1, <1>2, <1>4, <1>5, <2>1, <3>2
      <4>2. PICK s \in Pair, k \in Int : cache.until = Until(fit[s], k) /\ From(fit[s], k) < now
        BY <4>1 DEF CacheInv
      <4>3. From(fit[s], k) < e
        BY <1>2, <4>2, TimeIs
      <4> QED BY <3>1, <4>1, <4>2, <4>3
    <3>3. CASE known = "asleep"
      <4>1. cache.valid /\ cache.until = 0 /\ cache.next >= e /\ ~awake'
        BY <1>1, <1>5, <2>1, <3>3
      <4>2. ASSUME NEW s \in Pair, NEW k \in Int PROVE ~(From(fit[s], k) < e /\ Until(fit[s], k) > now)
        <5>1. Until(fit[s], k) <= now \/ From(fit[s], k) >= cache.next
          BY <4>1 DEF CacheInv
        <5>2. From(fit[s], k) \in Int /\ Until(fit[s], k) \in Int
          BY TimeIs
        <5> QED BY <1>2, <1>4, <4>1, <5>1, <5>2
      <4> QED BY <3>1, <4>1, <4>2
    <3>4. CASE known = "unknown" /\ fresh.until > 0
      <4>1. awake'
        BY <1>1, <2>1, <3>4
      <4>2. PICK s \in Pair, k \in Int : Until(fit[s], k) > now /\ From(fit[s], k) < e
        BY <1>6, <2>1, <3>4
      <4> QED BY <3>1, <4>1, <4>2
    <3>5. CASE known = "unknown" /\ ~(fresh.until > 0)
      <4>1. ~awake' /\ fresh.until = 0
        <5>1. awake' = (fresh.until > 0)
          BY <1>1, <2>1, <3>5, Zenon
        <5>2. fresh.until \in Nat
          BY <1>6, <2>1
        <5>3. fresh.until = 0
          BY <3>5, <5>2
        <5> QED BY <3>5, <5>1, <5>3, Zenon
      <4>2. ASSUME NEW s \in Pair, NEW k \in Int PROVE ~(From(fit[s], k) < e /\ Until(fit[s], k) > now)
        <5>1. fit[s].pre + fit[s].post + (e - now) <= fit[s].period
          <6>1. fit[s].pre + fit[s].post + Block <= fit[s].period
            BY <2>1 DEF Windows!Apart
          <6>2. e - now = Block
            BY <1>2
          <6> QED BY <6>1, <6>2
        <5>2. Until(fit[s], k) <= now \/ From(fit[s], k) >= e
          BY <1>6, <2>1, <4>1, <5>1
        <5>3. From(fit[s], k) \in Int /\ Until(fit[s], k) \in Int
          BY TimeIs
        <5> QED BY <1>2, <5>2, <5>3
      <4> QED BY <3>1, <4>1, <4>2
    <3> QED BY <1>5, <3>2, <3>3, <3>4, <3>5
  <2>2. now' - Block = now
    BY <1>1, <1>2
  <2>3. awake' \in BOOLEAN /\ Met \in BOOLEAN
    BY <1>7 DEF FitInv
  <2>4. eligible' = \A s \in Pair : fit'[s].learned
    BY <1>1 DEF Learned
  <2>5. ASSUME Learned, Room PROVE awake' = \E s \in Pair : Windows!Meets(fit[s], now, e)
    BY <2>1, <2>3, <2>5, Zenon
  <2>6. ASSUME eligible', \A s \in Pair : Windows!Apart(fit[s])'
        PROVE  awake' = \E s \in Pair : Windows!Meets(fit[s], now, e)
    <3>1. Room
      BY <1>1, <2>6 DEF Windows!Apart
    <3> QED BY <1>1, <2>5, <2>6, <3>1, Zenon
  <2> HIDE DEF e, Met, Room
  <2>7. (\E s \in Pair : Windows!Meets(fit[s], now - Block, now))'
          <=> \E s \in Pair : Windows!Meets(fit[s], now, e)
    BY <1>1, <2>2 DEF Windows!Meets
  <2>8. ASSUME eligible', \A s \in Pair : Windows!Apart(fit[s])'
        PROVE  awake' = (\E s \in Pair : Windows!Meets(fit[s], now - Block, now))'
    BY <2>6, <2>7, <2>8, Zenon
  <2> QED BY <2>4, <2>8, Zenon DEF Windows!ScheduleExact
<1> QED BY <1>7, <1>8, <1>9

LEMMA RefitInv ==
  ASSUME WindowsInv, NEW s \in Pair, NEW f \in Fits, NEW at \in Int, at >= 0, Windows!Refit(s, f, at)
  PROVE  WindowsInv'
<1> USE DEF WindowsInv
<1> DEFINE g == [learned |-> f.learned, period |-> f.period, pre |-> f.pre, post |-> f.post, anchor |-> at]
<1>1. /\ fit' = [fit EXCEPT ![s] = g] /\ at <= now
      /\ cache' = Windows!Invalid /\ eligibility' = [eligibility EXCEPT !.dirty = TRUE]
      /\ advanced' = FALSE /\ now' = now /\ eligible' = eligible /\ awake' = awake
  BY DEF Windows!Refit
<1>2. g \in [learned : BOOLEAN, period : Nat, pre : Nat, post : Nat, anchor : 0 .. MaxTime]
      /\ (g.learned => g.period > 0)
  <2>1. at \in 0 .. MaxTime
    BY <1>1, Sizes DEF FitInv
  <2>2. f.learned \in BOOLEAN /\ f.period \in Nat /\ f.pre \in Nat /\ f.post \in Nat /\ (f.learned => f.period > 0)
    BY Sizes, Zenon
  <2> QED BY <2>1, <2>2
<1> HIDE DEF g
<1>3. eligibility' \in [dirty : BOOLEAN, cached : BOOLEAN] /\ eligibility'.dirty
  BY <1>1 DEF FitInv
<1>4. cache' \in [valid : BOOLEAN, until : Nat, next : Int] /\ ~cache'.valid
  BY <1>1 DEF Windows!Invalid
<1>5. /\ fit' \in [Pair -> [learned : BOOLEAN, period : Nat, pre : Nat, post : Nat, anchor : 0 .. MaxTime]]
      /\ \A x \in Pair : fit'[x].learned => fit'[x].period > 0
  BY <1>1, <1>2 DEF FitInv
<1>6. FitInv'
  BY <1>1, <1>3, <1>4, <1>5 DEF FitInv
<1> QED BY <1>1, <1>4, <1>6 DEF CacheInv, Windows!ScheduleExact

LEMMA DiscontinuityInv ==
  ASSUME WindowsInv, Windows!Discontinuity
  PROVE  WindowsInv'
<1> USE DEF WindowsInv
<1>1. /\ now' \in 0 .. MaxTime /\ fit' = [s \in Pair |-> Windows!Unlearned]
      /\ cache' = Windows!Invalid /\ eligibility' = [eligibility EXCEPT !.dirty = TRUE]
      /\ eligible' = FALSE /\ awake' = TRUE /\ advanced' = FALSE
  BY DEF Windows!Discontinuity
<1>2. eligibility' \in [dirty : BOOLEAN, cached : BOOLEAN] /\ eligibility'.dirty
  BY <1>1 DEF FitInv
<1>3. cache' \in [valid : BOOLEAN, until : Nat, next : Int] /\ ~cache'.valid
  BY <1>1 DEF Windows!Invalid
<1>4. /\ fit' \in [Pair -> [learned : BOOLEAN, period : Nat, pre : Nat, post : Nat, anchor : 0 .. MaxTime]]
      /\ \A x \in Pair : fit'[x].learned => fit'[x].period > 0
  BY <1>1, Sizes DEF Windows!Unlearned
<1>5. FitInv'
  BY <1>1, <1>2, <1>3, <1>4 DEF FitInv
<1> QED BY <1>1, <1>3, <1>5 DEF CacheInv, Windows!ScheduleExact

(* The invariant of the wake windows: the cached answer belongs to a       *)
(* window of the fits of the moment (candidate.awakeDuring,                *)
(* invalidateSchedule), for every fit, block length and number of blocks.  *)
THEOREM WindowsInvariant == Spec => []WindowsInv
<1>1. Init => WindowsInv
  BY WindowsInit DEF Init
<1>2. ASSUME WindowsInv, [Next]_vars PROVE WindowsInv'
  <2>1. CASE Windows!Next
    <3>1. CASE Windows!Advance
      BY <1>2, <3>1, AdvanceInv
    <3>2. CASE \E s \in Pair, f \in Fits, at \in {now, now - Block} : at >= 0 /\ Windows!Refit(s, f, at)
      <4>1. PICK s \in Pair, f \in Fits, at \in {now, now - Block} : at >= 0 /\ Windows!Refit(s, f, at)
        BY <3>2
      <4>2. at \in Int
        BY <1>2, Sizes DEF WindowsInv, FitInv
      <4> QED BY <1>2, <4>1, <4>2, RefitInv
    <3>3. CASE Windows!Discontinuity
      BY <1>2, <3>3, DiscontinuityInv
    <3> QED BY <2>1, <3>1, <3>2, <3>3 DEF Windows!Next
  <2>2. CASE UNCHANGED windowVars
    <3>1. UNCHANGED <<fit, now, cache, eligibility, eligible, awake, advanced>>
      BY <2>2 DEF windowVars
    <3> QED BY <1>2, <3>1 DEF WindowsInv, FitInv, CacheInv, Learned, From, Until, Windows!ScheduleExact,
               Windows!Meets, Windows!Apart
  <2> QED BY <1>2, <2>1, <2>2 DEF Next, vars
<1> QED BY <1>1, <1>2, PTL DEF Spec

(* The wake answer given for a block, cached or computed, is that of the   *)
(* fits of the moment, and no window of a sender begins and passes between *)
(* two computations (candidate.awakeDuring, nextWakeStart).                *)
THEOREM WindowsExactThm == Spec => []WindowsExact
<1>1. ASSUME WindowsInv PROVE WindowsExact
  <2> USE <1>1 DEF WindowsInv
  <2>1. Windows!TypeOK
    BY DEF FitInv, Windows!TypeOK
  <2>2. Windows!NoWindowSkipped
    <3> SUFFICES ASSUME cache.valid, cache.until = 0, NEW s \in Pair, NEW t \in now .. MaxTime,
                        t + Block <= cache.next, Windows!Meets(fit[s], t, t + Block)
                 PROVE  FALSE
      BY DEF Windows!NoWindowSkipped
    <3>1. PICK k \in -(MaxTime + 1) .. MaxTime + 1 :
            From(fit[s], k) < t + Block /\ Until(fit[s], k) > t
      BY DEF Windows!Meets, From, Until
    <3>2. k \in Int /\ t \in Int /\ t >= now /\ now \in Int /\ Block \in Int /\ cache.next \in Int
      BY Sizes DEF FitInv
    <3>3. Until(fit[s], k) <= now \/ From(fit[s], k) >= cache.next
      BY <3>2 DEF CacheInv
    <3>4. From(fit[s], k) \in Int /\ Until(fit[s], k) \in Int
      BY <3>2, TimeIs
    <3> QED BY <3>1, <3>2, <3>3, <3>4
  <2> QED BY <2>1, <2>2 DEF WindowsExact, Windows!WindowsExact
<1> QED BY <1>1, WindowsInvariant, PTL

-----------------------------------------------------------------------------
(* The watchdogs                                                           *)

LEMMA WatchdogSizes ==
  /\ Block \in Nat \ {0} /\ History \in Nat /\ MinIntervals \in Nat /\ 2 <= MinIntervals
  /\ Window \in Nat \ {0} /\ Quantile \in 1 .. 100 /\ Margin \in Nat
  /\ LongRun \in Nat /\ MaxFaults \in Nat
  /\ Seed \in [Pair -> [overdue : Nat, window : Nat, minimum : Nat]]
  /\ \A s \in Pair : Seed[s].minimum > 0 => Seed[s].window > 0
  BY ModelsAssumption DEF Watchdog!WatchdogAssumption

\* The operators the module takes from its library are the library's.
LEMMA SameCardinality == \A S : Watchdog!Cardinality(S) = Cardinality(S)
  BY DEF Watchdog!Cardinality, Cardinality

LEMMA CountTo ==
  ASSUME NEW n \in Nat
  PROVE  Cardinality(1 .. n) = n
  BY FS_Interval

LEMMA FirstOf ==
  ASSUME NEW T \in SUBSET Nat, T # {}
  PROVE  \E x \in T : \A y \in T : x <= y
<1>1. PICK x \in T : \A y \in T : ~(<<y, x>> \in OpToRel(<, Nat))
  BY NatLessThanWellFounded, WFMin
<1>2. \A y \in T : ~(y < x)
  BY <1>1 DEF OpToRel
<1> QED BY <1>2

LEMMA MinIs ==
  ASSUME NEW T \in SUBSET Nat, T # {}
  PROVE  Watchdog!Min(T) \in T /\ \A y \in T : Watchdog!Min(T) <= y
  BY FirstOf DEF Watchdog!Min

LEMMA MaxIs ==
  ASSUME NEW a \in Nat, NEW b \in Nat
  PROVE  Watchdog!Max({a, b}) = IF a >= b THEN a ELSE b
<1> DEFINE m == IF a >= b THEN a ELSE b
<1>1. m \in {a, b} /\ \A y \in {a, b} : m >= y
  OBVIOUS
<1>2. \A x \in {a, b} : (\A y \in {a, b} : x >= y) => x = m
  OBVIOUS
<1> QED BY <1>1, <1>2 DEF Watchdog!Max

(* Strictly increasing sequences of times.                                 *)
Rising(q) == \A i, j \in 1 .. Len(q) : i < j => q[i] < q[j]

\* The elements below a bound are a prefix; its length is their number.
LEMMA BelowIs ==
  ASSUME NEW q \in Seq(Nat), Rising(q), NEW b \in Int
  PROVE  LET c == Cardinality({i \in DOMAIN q : q[i] < b})
         IN  /\ c \in 0 .. Len(q)
             /\ \A i \in 1 .. Len(q) : q[i] < b <=> i <= c
<1> DEFINE T == {i \in 1 .. (Len(q) + 1) : i = Len(q) + 1 \/ ~(q[i] < b)}
<1>1. T \in SUBSET Nat /\ Len(q) + 1 \in T
  OBVIOUS
<1>2. PICK x \in T : \A y \in T : x <= y
  BY <1>1, FirstOf
<1>3. x \in 1 .. (Len(q) + 1)
  OBVIOUS
<1>4. \A i \in 1 .. Len(q) : q[i] < b <=> i < x
  <2> TAKE i \in 1 .. Len(q)
  <2>1. i < x => q[i] < b
    BY <1>2, <1>3
  <2>2. i = x => ~(q[i] < b)
    BY <1>2, <1>3
  <2>3. i > x => x \in 1 .. Len(q) /\ q[x] < q[i] /\ ~(q[x] < b) /\ q[x] \in Nat /\ q[i] \in Nat
    BY <1>2, <1>3 DEF Rising
  <2> QED BY <2>1, <2>2, <2>3, <1>3
<1>5. {i \in DOMAIN q : q[i] < b} = 1 .. (x - 1)
  BY <1>3, <1>4
<1>6. Cardinality(1 .. (x - 1)) = x - 1
  BY <1>3, CountTo
<1> DEFINE c == Cardinality({i \in DOMAIN q : q[i] < b})
<1>7. c = x - 1
  BY <1>5, <1>6, Zenon
<1> HIDE DEF c
<1>8. c \in 0 .. Len(q) /\ \A i \in 1 .. Len(q) : q[i] < b <=> i <= c
  BY <1>3, <1>4, <1>7
<1> QED BY <1>8, Zenon DEF c

\* The elements of a set that are not below a bound, counted in a sequence
\* that has all of them.
LEMMA AboveIs ==
  ASSUME NEW q \in Seq(Nat), Rising(q), NEW b \in Int, NEW A \in SUBSET Nat,
         \A i \in 1 .. Len(q) : q[i] \in A,
         \A t \in A : t < b \/ \E i \in 1 .. Len(q) : q[i] = t
  PROVE  Cardinality({t \in A : t >= b}) = Len(q) - Cardinality({i \in DOMAIN q : q[i] < b})
<1> DEFINE c == Cardinality({i \in DOMAIN q : q[i] < b})
           n == Len(q) - c
           S == {t \in A : t >= b}
           f == [i \in 1 .. n |-> q[c + i]]
<1>1. c \in 0 .. Len(q) /\ \A i \in 1 .. Len(q) : q[i] < b <=> i <= c
  BY BelowIs
<1> HIDE DEF c
<1>2. n \in Nat /\ \A i \in 1 .. n : c + i \in 1 .. Len(q) /\ q[c + i] \in S /\ q[c + i] \in Nat
  BY <1>1
<1>3. f \in [1 .. n -> S]
  BY <1>2
<1>4. \A i, j \in 1 .. n : f[i] = f[j] => i = j
  <2> TAKE i, j \in 1 .. n
  <2>1. i < j => q[c + i] < q[c + j]
    BY <1>1, <1>2 DEF Rising
  <2>2. j < i => q[c + j] < q[c + i]
    BY <1>1, <1>2 DEF Rising
  <2> QED BY <1>2, <2>1, <2>2
<1>5. \A t \in S : \E i \in 1 .. n : f[i] = t
  <2> TAKE t \in S
  <2>1. PICK k \in 1 .. Len(q) : q[k] = t
    OBVIOUS
  <2>2. ~(k <= c)
    BY <1>1, <2>1
  <2>3. k - c \in 1 .. n /\ f[k - c] = q[k]
    BY <1>1, <2>1, <2>2
  <2> QED BY <2>1, <2>3
<1>6. f \in Bijection(1 .. n, S)
  BY <1>3, <1>4, <1>5, Zenon DEF Bijection, Injection, Surjection, IsInjective
<1>7. Cardinality(S) = n
  BY <1>2, <1>6, FS_CountingElements, Zenon DEF ExistsBijection
<1> QED BY <1>7 DEF c


Sender ==
  [seen : BOOLEAN, lastSeen : Nat, observations : Seq(Nat), countStart : Nat, gaps : Seq(Nat),
   learned : BOOLEAN, learnedOverdue : Nat, learnedMinimum : Nat,
   obligationDue : Nat, obligationOpen : BOOLEAN, overdueOpen : BOOLEAN, countOpen : BOOLEAN,
   total : Nat, opened : Nat, closed : Nat, deficits : Nat]

\* What the watchdog of sender s is held to.
Span(s, r)    == Watchdog!EffectiveCountWindow(s, r)
Horizon(s, r) == Watchdog!EffectiveOverdue(s, r)
Least(s, r)   == Watchdog!EffectiveMinimumCount(s, r)

LEMMA EffectiveIs ==
  ASSUME NEW s \in Pair, NEW r \in Sender
  PROVE  /\ Span(s, r) \in Nat /\ Horizon(s, r) \in Nat /\ Least(s, r) \in Nat
         /\ Span(s, r) = IF Seed[s].window > 0 THEN Seed[s].window ELSE IF r.learned THEN Window ELSE 0
         /\ Horizon(s, r) = IF Seed[s].overdue >= r.learnedOverdue THEN Seed[s].overdue ELSE r.learnedOverdue
<1>1. Seed[s] \in [overdue : Nat, window : Nat, minimum : Nat]
  BY WatchdogSizes
<1>2. Seed[s].overdue \in Nat /\ Seed[s].window \in Nat /\ Seed[s].minimum \in Nat
  BY <1>1
<1>3. r.learnedOverdue \in Nat /\ r.learnedMinimum \in Nat
  BY DEF Sender
<1>4. Horizon(s, r) = IF Seed[s].overdue >= r.learnedOverdue THEN Seed[s].overdue ELSE r.learnedOverdue
  BY <1>2, <1>3, MaxIs DEF Horizon, Watchdog!EffectiveOverdue
<1>5. Span(s, r) \in Nat /\ Least(s, r) \in Nat
  BY <1>2, <1>3, WatchdogSizes DEF Span, Least, Watchdog!EffectiveCountWindow, Watchdog!EffectiveMinimumCount
<1>6. Span(s, r) = IF Seed[s].window > 0 THEN Seed[s].window ELSE IF r.learned THEN Window ELSE 0
  BY DEF Span, Watchdog!EffectiveCountWindow
<1> QED BY <1>2, <1>3, <1>4, <1>5, <1>6

\* They follow from what was learned.
LEMMA SameEffective ==
  ASSUME NEW s, NEW r, NEW q, q.learned = r.learned,
         q.learnedOverdue = r.learnedOverdue, q.learnedMinimum = r.learnedMinimum
  PROVE  Span(s, q) = Span(s, r) /\ Horizon(s, q) = Horizon(s, r) /\ Least(s, q) = Least(s, r)
  BY DEF Span, Horizon, Least, Watchdog!EffectiveCountWindow, Watchdog!EffectiveOverdue, Watchdog!EffectiveMinimumCount

(* The quantile of positive gaps is one of them.                           *)
LEMMA GreatestIn ==
  ASSUME NEW T \in SUBSET Nat, NEW t \in T, NEW n \in Nat, \A y \in T : y <= n
  PROVE  \E x \in T : \A y \in T : y <= x
<1> DEFINE U == {n - y : y \in T}
<1>1. U \in SUBSET Nat /\ U # {}
  <2>1. \A y \in T : n - y \in Nat
    OBVIOUS
  <2>2. n - t \in U
    OBVIOUS
  <2> QED BY <2>1, <2>2
<1>2. PICK u \in U : \A v \in U : u <= v
  BY <1>1, FirstOf
<1>3. PICK x \in T : u = n - x
  BY <1>2
<1>4. \A y \in T : n - x <= n - y
  BY <1>2, <1>3
<1> QED BY <1>4

\* A bound on the elements of a sequence, by the largest of each prefix.
LEMMA LargestElement ==
  ASSUME NEW q \in Seq(Nat), Len(q) > 0
  PROVE  \E i \in 1 .. Len(q) : \A j \in 1 .. Len(q) : q[j] <= q[i]
<1> DEFINE T == {k \in 1 .. Len(q) : \E i \in 1 .. k : \A j \in 1 .. k : q[j] <= q[i]}
<1>0. \A j \in 1 .. Len(q) : q[j] \in Nat
  OBVIOUS
<1>1. 1 \in T
  <2>1. 1 \in 1 .. Len(q) /\ 1 \in 1 .. 1 /\ \A j \in 1 .. 1 : j = 1
    OBVIOUS
  <2> QED BY <1>0, <2>1
<1>2. PICK k \in T : \A y \in T : y <= k
  <2>1. T \in SUBSET Nat /\ Len(q) \in Nat /\ \A y \in T : y <= Len(q)
    OBVIOUS
  <2> HIDE DEF T
  <2> QED BY <1>1, <2>1, GreatestIn
<1>3. PICK i \in 1 .. k : \A j \in 1 .. k : q[j] <= q[i]
  BY <1>2
<1>4. k = Len(q)
  <2> SUFFICES ASSUME k # Len(q) PROVE k + 1 \in T
    BY <1>2
  <2>1. k + 1 \in 1 .. Len(q) /\ i \in 1 .. (k + 1) /\ k + 1 \in 1 .. (k + 1)
    BY <1>2, <1>3
  <2>2. \A j \in 1 .. (k + 1) : j = k + 1 \/ j \in 1 .. k
    BY <1>2
  <2>3. CASE q[k + 1] <= q[i]
    <3>1. \A j \in 1 .. (k + 1) : q[j] <= q[i]
      BY <1>3, <2>2, <2>3
    <3> QED BY <2>1, <3>1
  <2>4. CASE ~(q[k + 1] <= q[i])
    <3>1. \A j \in 1 .. (k + 1) : q[j] <= q[k + 1]
      <4> TAKE j \in 1 .. (k + 1)
      <4>1. j \in 1 .. Len(q) /\ q[j] \in Nat /\ q[k + 1] \in Nat /\ q[i] \in Nat
        <5>1. k \in 1 .. Len(q)
          BY <1>2
        <5>2. j \in 1 .. Len(q) /\ i \in 1 .. Len(q)
          BY <2>1, <5>1
        <5> QED BY <1>0, <2>1, <5>2
      <4>2. j \in 1 .. k => q[j] <= q[i]
        BY <1>3
      <4> QED BY <2>2, <2>4, <4>1, <4>2
    <3> QED BY <2>1, <3>1
  <2> QED BY <2>3, <2>4
<1> QED BY <1>3, <1>4

LEMMA QuantileIs ==
  ASSUME NEW q \in Seq(Nat), Len(q) > 0, \A i \in 1 .. Len(q) : q[i] > 0
  PROVE  Watchdog!DurationQuantile(q) \in Nat /\ Watchdog!DurationQuantile(q) > 0
<1> DEFINE rank == Watchdog!Max({1, (Quantile * Len(q) + 99) \div 100})
           through(v) == Watchdog!Cardinality({i \in DOMAIN q : q[i] <= v})
           T == {v \in Watchdog!Range(q) : through(v) >= rank}
<1>1. PICK m \in 1 .. Len(q) : \A j \in 1 .. Len(q) : q[j] <= q[m]
  BY LargestElement
<1>2. rank \in Nat /\ rank <= Len(q)
  <2>1. (Quantile * Len(q) + 99) \div 100 \in Nat /\ (Quantile * Len(q) + 99) \div 100 <= Len(q)
    <3>1. Quantile * Len(q) \in Nat /\ Quantile * Len(q) <= 100 * Len(q)
      BY WatchdogSizes
    <3> HIDE DEF rank
    <3> QED BY <3>1
  <2>2. 1 \in Nat /\ Len(q) \in Nat
    OBVIOUS
  <2> DEFINE d == (Quantile * Len(q) + 99) \div 100
  <2>3. rank = IF 1 >= d THEN 1 ELSE d
    BY <2>1, <2>2, MaxIs
  <2> HIDE DEF d, rank
  <2> QED BY <2>1, <2>2, <2>3 DEF d
<1>3. through(q[m]) = Len(q)
  <2>1. {i \in DOMAIN q : q[i] <= q[m]} = 1 .. Len(q)
    BY <1>1
  <2>2. Cardinality(1 .. Len(q)) = Len(q)
    <3>1. Len(q) \in Nat
      OBVIOUS
    <3> QED BY <3>1, CountTo
  <2> QED BY <2>1, <2>2, SameCardinality, Zenon
<1> HIDE DEF rank, through
<1>4. q[m] \in T
  BY <1>2, <1>3 DEF Watchdog!Range
<1>5. T \in SUBSET Nat /\ \A v \in T : v > 0
  BY DEF Watchdog!Range
<1>6. Watchdog!Min(T) \in T
  BY <1>4, <1>5, MinIs
<1>7. Watchdog!DurationQuantile(q) = Watchdog!Min(T)
  BY Zenon DEF Watchdog!DurationQuantile, rank, through
<1> QED BY <1>5, <1>6, <1>7


\* What the operations on one sender leave alone.
SameLearning(r, q) ==
  q.learned = r.learned /\ q.learnedOverdue = r.learnedOverdue /\ q.learnedMinimum = r.learnedMinimum
SameObligation(r, q) ==
  /\ q.obligationDue = r.obligationDue /\ q.obligationOpen = r.obligationOpen
  /\ q.overdueOpen = r.overdueOpen /\ q.opened = r.opened
  /\ q.closed = r.closed /\ q.deficits = r.deficits
SameArrivals(r, q) ==
  q.seen = r.seen /\ q.lastSeen = r.lastSeen /\ q.total = r.total /\ q.gaps = r.gaps

LEMMA TailFrom ==
  ASSUME NEW q \in Seq(Nat), NEW c \in 0 .. Len(q)
  PROVE  LET t == SubSeq(q, c + 1, Len(q))
         IN  /\ t \in Seq(Nat) /\ Len(t) = Len(q) - c
             /\ \A i \in 1 .. (Len(q) - c) : t[i] = q[c + i]
  OBVIOUS

\* trim drops a prefix of what was observed more than two windows ago.
LEMMA TrimIs ==
  ASSUME NEW s \in Pair, NEW r \in Sender, Rising(r.observations),
         r.countStart <= Len(r.observations), NEW at \in Nat
  PROVE  LET t == Watchdog!Trim(s, r, at)
         IN  /\ t \in Sender /\ SameLearning(r, t) /\ SameObligation(r, t) /\ SameArrivals(r, t)
             /\ t.countOpen = r.countOpen
             /\ \E c \in 0 .. Len(r.observations) :
                  /\ Len(t.observations) = Len(r.observations) - c
                  /\ \A i \in 1 .. (Len(r.observations) - c) : t.observations[i] = r.observations[c + i]
                  /\ \A i \in 1 .. c : Span(s, r) > 0 /\ r.observations[i] < at - 2 * Span(s, r)
                  /\ t.countStart = IF r.countStart > c THEN r.countStart - c ELSE 0
<1> DEFINE q == r.observations
           w == Span(s, r)
           c == Cardinality({i \in DOMAIN q : q[i] < at - 2 * w})
           t == Watchdog!Trim(s, r, at)
<1>1. q \in Seq(Nat) /\ r.countStart \in Nat
  BY DEF Sender
<1>2. w \in Nat
  BY EffectiveIs
<1>3. CASE w = 0
  <2>1. t = r
    BY <1>3, Zenon DEF Watchdog!Trim, Span
  <2>2. Len(q) \in Nat /\ 0 \in 0 .. Len(q) /\ r.countStart = (IF r.countStart > 0 THEN r.countStart - 0 ELSE 0)
    BY <1>1
  <2>3. /\ Len(q) = Len(q) - 0 /\ (\A i \in 1 .. (Len(q) - 0) : q[i] = q[0 + i])
        /\ \A i \in 1 .. 0 : w > 0 /\ q[i] < at - 2 * w
    BY <2>2
  <2> QED BY <2>1, <2>2, <2>3 DEF SameLearning, SameObligation, SameArrivals
<1>4. CASE w # 0
  <2>0. at - 2 * w \in Int
    BY <1>2
  <2>1. c \in 0 .. Len(q) /\ \A i \in 1 .. Len(q) : q[i] < at - 2 * w <=> i <= c
    BY <1>1, <2>0, BelowIs
  <2> DEFINE m == Watchdog!Max({0, r.countStart - c})
  <2>2. t = [r EXCEPT !.observations = SubSeq(q, c + 1, Len(q)), !.countStart = m]
    <3>1. Watchdog!Cardinality({i \in DOMAIN q : q[i] < at - 2 * w}) = c
      BY SameCardinality, Zenon
    <3> HIDE DEF c
    <3> QED BY <1>4, <3>1 DEF Watchdog!Trim, Span
  <2> HIDE DEF c
  <2>3. m = IF r.countStart > c THEN r.countStart - c ELSE 0
    <3>1. \A x \in {0, r.countStart - c} : (\A y \in {0, r.countStart - c} : x >= y)
                                        <=> x = IF r.countStart > c THEN r.countStart - c ELSE 0
      BY <1>1, <2>1
    <3>2. (IF r.countStart > c THEN r.countStart - c ELSE 0) \in {0, r.countStart - c}
                \/ r.countStart - c < 0
      BY <1>1, <2>1
    <3> QED BY <1>1, <2>1, <3>1, <3>2 DEF Watchdog!Max
  <2>4. m \in Nat
    BY <1>1, <2>1, <2>3
  <2> HIDE DEF m
  <2> DEFINE u == SubSeq(q, c + 1, Len(q))
  <2>5. u \in Seq(Nat) /\ Len(u) = Len(q) - c /\ \A i \in 1 .. (Len(q) - c) : u[i] = q[c + i]
    BY <1>1, <2>1, TailFrom
  <2> HIDE DEF u
  <2>6. t = [r EXCEPT !.observations = u, !.countStart = m]
    BY <2>2 DEF u
  <2>7. /\ t \in Sender /\ t.observations = u /\ t.countStart = m /\ t.countOpen = r.countOpen
        /\ SameLearning(r, t) /\ SameObligation(r, t) /\ SameArrivals(r, t)
    BY <2>4, <2>5, <2>6 DEF Sender, SameLearning, SameObligation, SameArrivals
  <2>8. \A i \in 1 .. c : w > 0 /\ q[i] < at - 2 * w
    BY <1>2, <1>4, <2>1
  <2> HIDE DEF t
  <2>9. /\ Len(t.observations) = Len(q) - c
        /\ \A i \in 1 .. (Len(q) - c) : t.observations[i] = q[c + i]
        /\ t.countStart = IF r.countStart > c THEN r.countStart - c ELSE 0
    BY <2>3, <2>5, <2>7
  <2> HIDE DEF q, w
  <2>10. \E d \in 0 .. Len(q) :
           /\ Len(t.observations) = Len(q) - d
           /\ \A i \in 1 .. (Len(q) - d) : t.observations[i] = q[d + i]
           /\ \A i \in 1 .. d : w > 0 /\ q[i] < at - 2 * w
           /\ t.countStart = IF r.countStart > d THEN r.countStart - d ELSE 0
    BY <2>1, <2>8, <2>9
  <2> QED BY <2>7, <2>10, Zenon DEF t, q, w
<1> QED BY <1>3, <1>4

\* Once it has gaps enough the watchdog is learned, and stays so.
LEMMA LearnIs ==
  ASSUME NEW r \in Sender, \A i \in 1 .. Len(r.gaps) : r.gaps[i] > 0,
         r.learned => r.learnedOverdue > 0 /\ r.learnedMinimum > 0
  PROVE  LET q == Watchdog!LearnWatchdog(r)
         IN  /\ q \in Sender /\ SameObligation(r, q) /\ SameArrivals(r, q)
             /\ q.observations = r.observations /\ q.countStart = r.countStart /\ q.countOpen = r.countOpen
             /\ q.learned => q.learnedOverdue > 0 /\ q.learnedMinimum > 0
             /\ r.learned => q.learned
<1> DEFINE q == Watchdog!LearnWatchdog(r)
           g == Watchdog!DurationQuantile(r.gaps)
           l == (g * (100 + Margin)) \div 100
           m == Watchdog!Max({1, Window \div l})
<1>1. CASE Len(r.gaps) < MinIntervals
  <2>1. q = r
    BY <1>1, Zenon DEF Watchdog!LearnWatchdog
  <2> QED BY <2>1 DEF SameObligation, SameArrivals
<1>2. CASE ~(Len(r.gaps) < MinIntervals)
  <2>1. r.gaps \in Seq(Nat) /\ Len(r.gaps) > 0
    BY <1>2, WatchdogSizes DEF Sender
  <2>2. g \in Nat /\ g > 0
    BY <2>1, QuantileIs
  <2> HIDE DEF g
  <2>3. l \in Nat /\ l > 0
    <3>1. Margin \in Nat /\ g * Margin \in Nat /\ g * (100 + Margin) = 100 * g + g * Margin
      BY <2>2, WatchdogSizes
    <3> DEFINE x == g * (100 + Margin)
    <3>2. x \in Nat /\ x >= 100
      BY <2>2, <3>1
    <3> HIDE DEF x
    <3>3. x \div 100 \in Nat /\ x \div 100 > 0
      BY <3>2
    <3> QED BY <3>3 DEF x
  <2>4. q = [r EXCEPT !.learned = TRUE, !.learnedOverdue = l, !.learnedMinimum = m]
    BY <1>2, Zenon DEF Watchdog!LearnWatchdog, g
  <2> HIDE DEF l
  <2>5. m \in Nat /\ m > 0
    <3>1. Window \div l \in Nat
      BY <2>3, WatchdogSizes
    <3> DEFINE x == Window \div l
    <3>2. m = IF 1 >= x THEN 1 ELSE x
      BY <3>1, MaxIs
    <3> HIDE DEF x, m
    <3> QED BY <3>1, <3>2 DEF x
  <2> HIDE DEF m
  <2> QED BY <2>3, <2>4, <2>5 DEF Sender, SameObligation, SameArrivals
<1> QED BY <1>1, <1>2


(* Inductive invariant of the watchdogs, for the record r of sender s with *)
(* arrivals A since the last discontinuity, at block end e.                *)

\* The observations kept are the newest arrivals; what was trimmed or has
\* been passed by countStart is out of the window for good.
KeptInv(s, r, A, e) ==
  /\ Rising(r.observations) /\ r.countStart <= Len(r.observations)
  /\ \A i \in 1 .. Len(r.observations) : r.observations[i] \in A /\ r.observations[i] <= r.lastSeen
  /\ \A t \in A : \/ \E i \in 1 .. Len(r.observations) : r.observations[i] = t
                  \/ Span(s, r) > 0 /\ t < e - Span(s, r)
  /\ \A i \in 1 .. r.countStart : Span(s, r) > 0 /\ r.observations[i] < e - Span(s, r)

LearntInv(r) ==
  /\ Len(r.gaps) <= History /\ \A i \in 1 .. Len(r.gaps) : r.gaps[i] > 0
  /\ r.learned => r.learnedOverdue > 0 /\ r.learnedMinimum > 0

SeenInv(r, e) ==
  /\ r.lastSeen <= e /\ r.total >= Len(r.observations)
  /\ ~r.seen => r.lastSeen = 0 /\ r.observations = <<>>

\* A sender with a horizon has been found silent or owes an arrival.
OwesInv(s, r) ==
  r.seen /\ Horizon(s, r) > 0 =>
    r.overdueOpen \/ (r.obligationOpen /\ r.obligationDue = r.lastSeen + Horizon(s, r))

LedgerInv(r, d) ==
  r.opened = r.closed + r.deficits + d + (IF r.obligationOpen THEN 1 ELSE 0)

SenderInv(s, r, A, e, d) ==
  /\ r \in Sender /\ A \in SUBSET Nat /\ e \in Nat /\ d \in Nat
  /\ KeptInv(s, r, A, e) /\ LearntInv(r) /\ SeenInv(r, e) /\ OwesInv(s, r) /\ LedgerInv(r, d)

LEMMA NewestIs ==
  ASSUME NEW q \in Seq(Nat), NEW n \in Nat
  PROVE  LET t == Watchdog!Newest(q, n)
         IN  /\ t \in Seq(Nat) /\ Len(t) <= n
             /\ \A i \in 1 .. Len(t) : \E j \in 1 .. Len(q) : t[i] = q[j]
<1> DEFINE t == Watchdog!Newest(q, n)
<1>1. CASE Len(q) > n
  <2>1. t = SubSeq(q, Len(q) - n + 1, Len(q))
    BY <1>1 DEF Watchdog!Newest
  <2>2. Len(q) - n \in 0 .. Len(q) /\ Len(q) - (Len(q) - n) = n
    BY <1>1
  <2>3. t \in Seq(Nat) /\ Len(t) = n /\ \A i \in 1 .. n : t[i] = q[(Len(q) - n) + i]
    BY <2>1, <2>2, TailFrom
  <2>4. \A i \in 1 .. n : (Len(q) - n) + i \in 1 .. Len(q)
    BY <1>1
  <2> HIDE DEF t
  <2>5. Len(t) <= n /\ \A i \in 1 .. Len(t) : \E j \in 1 .. Len(q) : t[i] = q[j]
    <3>1. ASSUME NEW i \in 1 .. Len(t) PROVE \E j \in 1 .. Len(q) : t[i] = q[j]
      <4>1. i \in 1 .. n
        BY <2>3
      <4>2. (Len(q) - n) + i \in 1 .. Len(q)
        BY <2>4, <4>1
      <4> QED BY <2>3, <4>1, <4>2
    <3> QED BY <2>3, <3>1
  <2> QED BY <2>3, <2>5 DEF t
<1>2. CASE ~(Len(q) > n)
  <2>1. t = q
    BY <1>2 DEF Watchdog!Newest
  <2> QED BY <1>2, <2>1
<1> QED BY <1>1, <1>2

\* An arrival at a time after all the others.
LEMMA MeetIs ==
  ASSUME NEW s \in Pair, NEW r, NEW A, NEW e, NEW d, SenderInv(s, r, A, e, d),
         NEW at \in Nat, at <= e, r.seen => at > r.lastSeen
  PROVE  LET m == Watchdog!Meet(r, at)
         IN  /\ m \in Sender /\ KeptInv(s, m, A \cup {at}, e) /\ LearntInv(m) /\ SeenInv(m, e)
             /\ SameLearning(r, m) /\ m.gaps = r.gaps /\ m.seen /\ m.lastSeen = at
             /\ ~m.obligationOpen /\ ~m.overdueOpen /\ LedgerInv(m, d)
<1> DEFINE m == Watchdog!Meet(r, at)
           q == r.observations
           p == Append(q, at)
           k == IF r.obligationOpen THEN r.closed + 1 ELSE r.closed
<1>1. r \in Sender /\ q \in Seq(Nat) /\ r.lastSeen \in Nat /\ r.countStart \in Nat /\ r.total \in Nat
  BY DEF SenderInv, Sender
<1>2. m = [r EXCEPT !.lastSeen = at, !.seen = TRUE, !.total = r.total + 1, !.overdueOpen = FALSE,
                    !.closed = k, !.obligationOpen = FALSE, !.observations = p]
  BY DEF Watchdog!Meet
<1>3. p \in Seq(Nat) /\ Len(p) = Len(q) + 1 /\ p[Len(q) + 1] = at /\ \A i \in 1 .. Len(q) : p[i] = q[i]
  BY <1>1
<1>k. k \in Nat
  BY <1>1 DEF Sender
<1> HIDE DEF p, k
<1>4. /\ m \in Sender /\ m.observations = p /\ m.lastSeen = at /\ m.seen /\ m.total = r.total + 1
      /\ ~m.overdueOpen /\ ~m.obligationOpen /\ m.countStart = r.countStart /\ m.gaps = r.gaps
      /\ m.opened = r.opened /\ m.deficits = r.deficits
      /\ m.closed = k
      /\ SameLearning(r, m)
  <2>1. m \in Sender
    <3>1. r.total + 1 \in Nat /\ TRUE \in BOOLEAN /\ FALSE \in BOOLEAN
      BY <1>1
    <3> QED BY <1>1, <1>2, <1>3, <1>k, <3>1, ZenonT(30) DEF Sender
  <2>2. /\ m.observations = p /\ m.lastSeen = at /\ m.seen = TRUE /\ m.total = r.total + 1
        /\ m.overdueOpen = FALSE /\ m.obligationOpen = FALSE /\ m.countStart = r.countStart
        /\ m.gaps = r.gaps /\ m.opened = r.opened /\ m.deficits = r.deficits /\ m.closed = k
    BY <1>1, <1>2 DEF Sender
  <2>3. SameLearning(r, m)
    BY <1>1, <1>2 DEF Sender, SameLearning
  <2> QED BY <2>1, <2>2, <2>3, Zenon
<1>5. Span(s, m) = Span(s, r) /\ Span(s, r) \in Nat
  BY <1>1, <1>4, SameEffective, EffectiveIs DEF SameLearning
<1> HIDE DEF m
<1>6. \A i \in 1 .. Len(q) : q[i] \in A /\ q[i] < at /\ q[i] \in Nat
  <2>1. CASE r.seen
    BY <1>1, <2>1 DEF SenderInv, KeptInv
  <2>2. CASE ~r.seen
    BY <1>1, <2>2 DEF SenderInv, SeenInv
  <2> QED BY <2>1, <2>2
<1>i. Len(q) \in Nat /\ \A i \in 1 .. Len(p) : i = Len(q) + 1 \/ i \in 1 .. Len(q)
  BY <1>1, <1>3
<1>7. Rising(p)
  <2> SUFFICES ASSUME NEW i \in 1 .. Len(p), NEW j \in 1 .. Len(p), i < j PROVE p[i] < p[j]
    BY DEF Rising
  <2>1. i \in 1 .. Len(q)
    BY <1>i, <1>3
  <2>2. j \in 1 .. Len(q) => q[i] < q[j]
    BY <2>1 DEF SenderInv, KeptInv, Rising
  <2> QED BY <1>i, <1>3, <1>6, <2>1, <2>2
<1>8. \A i \in 1 .. Len(p) : p[i] \in A \cup {at} /\ p[i] <= at
  <2> TAKE i \in 1 .. Len(p)
  <2>1. CASE i = Len(q) + 1
    BY <1>3, <2>1
  <2>2. CASE i \in 1 .. Len(q)
    BY <1>3, <1>6, <2>2
  <2> QED BY <1>i, <2>1, <2>2
<1>9. \A t \in A \cup {at} : \/ \E i \in 1 .. Len(p) : p[i] = t
                             \/ Span(s, r) > 0 /\ t < e - Span(s, r)
  <2> TAKE t \in A \cup {at}
  <2>1. CASE t = at
    BY <1>1, <1>3, <2>1
  <2>2. CASE t \in A
    <3>1. \/ \E i \in 1 .. Len(q) : q[i] = t
          \/ Span(s, r) > 0 /\ t < e - Span(s, r)
      BY <2>2 DEF SenderInv, KeptInv
    <3>2. \A i \in 1 .. Len(q) : i \in 1 .. Len(p)
      BY <1>1, <1>3
    <3> QED BY <1>3, <3>1, <3>2
  <2> QED BY <2>1, <2>2
<1>10. /\ r.countStart <= Len(q)
       /\ \A i \in 1 .. r.countStart : Span(s, r) > 0 /\ q[i] < e - Span(s, r)
  BY DEF SenderInv, KeptInv
<1>11. \A i \in 1 .. r.countStart : Span(s, r) > 0 /\ p[i] < e - Span(s, r)
  <2>1. \A i \in 1 .. r.countStart : i \in 1 .. Len(q)
    BY <1>1, <1>i, <1>10
  <2> QED BY <1>3, <1>10, <2>1
<1>12. KeptInv(s, m, A \cup {at}, e)
  BY <1>1, <1>3, <1>4, <1>5, <1>7, <1>8, <1>9, <1>10, <1>11 DEF KeptInv
<1>13. LearntInv(m)
  BY <1>4 DEF SenderInv, LearntInv, SameLearning
<1>14. SeenInv(m, e)
  BY <1>1, <1>3, <1>4 DEF SenderInv, SeenInv
<1>15. LedgerInv(m, d)
  <2>1. r.opened \in Nat /\ r.closed \in Nat /\ r.deficits \in Nat /\ d \in Nat
    BY <1>1 DEF SenderInv, Sender
  <2>2. r.opened = r.closed + r.deficits + d + (IF r.obligationOpen THEN 1 ELSE 0)
    BY DEF SenderInv, LedgerInv
  <2> QED BY <1>4, <2>1, <2>2 DEF LedgerInv, k
<1> QED BY <1>4, <1>12, <1>13, <1>14, <1>15 DEF m


\* A sender that has just been heard and owes nothing yet.
HeardInv(s, r, A, e, d, at) ==
  /\ r \in Sender /\ KeptInv(s, r, A, e) /\ LearntInv(r) /\ SeenInv(r, e) /\ LedgerInv(r, d)
  /\ r.seen /\ r.lastSeen = at /\ ~r.obligationOpen /\ ~r.overdueOpen

LEMMA GapsIs ==
  ASSUME NEW s \in Pair, NEW m, NEW A, NEW e, NEW d, NEW at, HeardInv(s, m, A, e, d, at),
         NEW g \in Nat, g > 0
  PROVE  HeardInv(s, [m EXCEPT !.gaps = Watchdog!Newest(Append(m.gaps, g), History)], A, e, d, at)
<1> DEFINE p == Append(m.gaps, g)
           n == Watchdog!Newest(p, History)
           f == [m EXCEPT !.gaps = n]
<1>1. m \in Sender /\ m.gaps \in Seq(Nat)
  BY DEF HeardInv, Sender
<1>2. p \in Seq(Nat) /\ \A i \in 1 .. Len(p) : p[i] > 0
  <2>1. p \in Seq(Nat) /\ Len(p) = Len(m.gaps) + 1 /\ p[Len(m.gaps) + 1] = g
        /\ \A i \in 1 .. Len(m.gaps) : p[i] = m.gaps[i]
    BY <1>1
  <2>2. Len(m.gaps) \in Nat /\ \A i \in 1 .. Len(m.gaps) : m.gaps[i] > 0
    BY <1>1 DEF HeardInv, LearntInv
  <2> HIDE DEF p
  <2>3. \A i \in 1 .. Len(p) : i = Len(m.gaps) + 1 \/ i \in 1 .. Len(m.gaps)
    BY <2>1, <2>2
  <2> QED BY <2>1, <2>2, <2>3
<1> HIDE DEF p
<1>3. n \in Seq(Nat) /\ Len(n) <= History /\ \A i \in 1 .. Len(n) : \E j \in 1 .. Len(p) : n[i] = p[j]
  BY <1>2, NewestIs, WatchdogSizes
<1> HIDE DEF n
<1>4. \A i \in 1 .. Len(n) : n[i] > 0
  BY <1>2, <1>3
<1>5. /\ f \in Sender /\ f.gaps = n /\ SameLearning(m, f) /\ SameObligation(m, f)
      /\ f.seen = m.seen /\ f.lastSeen = m.lastSeen /\ f.total = m.total
      /\ f.observations = m.observations /\ f.countStart = m.countStart
  BY <1>1, <1>3 DEF Sender, SameLearning, SameObligation
<1> HIDE DEF f
<1>6. Span(s, f) = Span(s, m)
  BY <1>5, SameEffective DEF SameLearning
<1>7. KeptInv(s, f, A, e)
  BY <1>5, <1>6 DEF HeardInv, KeptInv
<1>8. LearntInv(f)
  BY <1>3, <1>4, <1>5 DEF HeardInv, LearntInv, SameLearning
<1>9. SeenInv(f, e)
  BY <1>5 DEF HeardInv, SeenInv
<1>10. LedgerInv(f, d)
  BY <1>5 DEF HeardInv, LedgerInv, SameObligation
<1>11. HeardInv(s, f, A, e, d, at)
  BY <1>5, <1>7, <1>8, <1>9, <1>10 DEF HeardInv, SameObligation
<1> QED BY <1>11 DEF f, n, p

\* A window once there stays as it is.
LEMMA SpanKept ==
  ASSUME NEW s \in Pair, NEW r \in Sender, NEW q \in Sender, r.learned => q.learned, Span(s, r) > 0
  PROVE  Span(s, q) = Span(s, r)
  BY EffectiveIs

LEMMA LearnsIs ==
  ASSUME NEW s \in Pair, NEW m, NEW A, NEW e, NEW d, NEW at, HeardInv(s, m, A, e, d, at)
  PROVE  HeardInv(s, Watchdog!LearnWatchdog(m), A, e, d, at)
<1> DEFINE f == Watchdog!LearnWatchdog(m)
<1>1. m \in Sender /\ (\A i \in 1 .. Len(m.gaps) : m.gaps[i] > 0)
      /\ (m.learned => m.learnedOverdue > 0 /\ m.learnedMinimum > 0)
  BY DEF HeardInv, LearntInv
<1>2. /\ f \in Sender /\ SameObligation(m, f) /\ SameArrivals(m, f)
      /\ f.observations = m.observations /\ f.countStart = m.countStart /\ f.countOpen = m.countOpen
      /\ f.learned => f.learnedOverdue > 0 /\ f.learnedMinimum > 0
      /\ m.learned => f.learned
  BY <1>1, LearnIs
<1> HIDE DEF f
<1>3. Span(s, m) > 0 => Span(s, f) = Span(s, m)
  BY <1>1, <1>2, SpanKept
<1>4. KeptInv(s, f, A, e)
  <2>1. Rising(f.observations) /\ f.countStart <= Len(f.observations)
        /\ \A i \in 1 .. Len(f.observations) : f.observations[i] \in A /\ f.observations[i] <= f.lastSeen
    BY <1>2 DEF HeardInv, KeptInv, SameArrivals
  <2>2. \A t \in A : \/ \E i \in 1 .. Len(f.observations) : f.observations[i] = t
                     \/ Span(s, f) > 0 /\ t < e - Span(s, f)
    BY <1>2, <1>3 DEF HeardInv, KeptInv
  <2>3. \A i \in 1 .. f.countStart : Span(s, f) > 0 /\ f.observations[i] < e - Span(s, f)
    BY <1>2, <1>3 DEF HeardInv, KeptInv
  <2> QED BY <2>1, <2>2, <2>3 DEF KeptInv
<1>5. LearntInv(f)
  BY <1>1, <1>2 DEF HeardInv, LearntInv, SameArrivals
<1>6. SeenInv(f, e)
  BY <1>2 DEF HeardInv, SeenInv, SameArrivals
<1>7. LedgerInv(f, d)
  BY <1>2 DEF HeardInv, LedgerInv, SameObligation
<1> QED BY <1>2, <1>4, <1>5, <1>6, <1>7 DEF HeardInv, SameObligation, SameArrivals, f

LEMMA TrimmedIs ==
  ASSUME NEW s \in Pair, NEW m, NEW A \in SUBSET Nat, NEW e \in Nat, NEW d, NEW at \in Nat, at <= e,
         HeardInv(s, m, A, e, d, at)
  PROVE  HeardInv(s, Watchdog!Trim(s, m, at), A, e, d, at)
<1> DEFINE f == Watchdog!Trim(s, m, at)
           q == m.observations
           w == Span(s, m)
<1>1. m \in Sender /\ Rising(q) /\ m.countStart <= Len(q) /\ q \in Seq(Nat) /\ m.countStart \in Nat
  BY DEF HeardInv, KeptInv, Sender
<1>2. /\ f \in Sender /\ SameLearning(m, f) /\ SameObligation(m, f) /\ SameArrivals(m, f)
      /\ \E c \in 0 .. Len(q) :
                  /\ Len(f.observations) = Len(q) - c
                  /\ \A i \in 1 .. (Len(q) - c) : f.observations[i] = q[c + i]
                  /\ \A i \in 1 .. c : w > 0 /\ q[i] < at - 2 * w
                  /\ f.countStart = IF m.countStart > c THEN m.countStart - c ELSE 0
  BY <1>1, TrimIs
<1> HIDE DEF f
<1>3. PICK c \in 0 .. Len(q) :
                  /\ Len(f.observations) = Len(q) - c
                  /\ \A i \in 1 .. (Len(q) - c) : f.observations[i] = q[c + i]
                  /\ \A i \in 1 .. c : w > 0 /\ q[i] < at - 2 * w
                  /\ f.countStart = IF m.countStart > c THEN m.countStart - c ELSE 0
  BY <1>2
<1>4. w \in Nat /\ Span(s, f) = w
  BY <1>1, <1>2, SameEffective, EffectiveIs DEF SameLearning
<1>5. \A i \in 1 .. Len(q) : q[i] \in Nat /\ q[i] \in A /\ q[i] <= m.lastSeen
  BY <1>1 DEF HeardInv, KeptInv
<1>6. \A t \in A : (\E i \in 1 .. Len(q) : q[i] = t) \/ (w > 0 /\ t < e - w)
  BY DEF HeardInv, KeptInv
<1>7. \A i \in 1 .. m.countStart : w > 0 /\ q[i] < e - w
  BY DEF HeardInv, KeptInv
<1> HIDE DEF w, q
<1>8. Len(q) \in Nat /\ \A i \in 1 .. (Len(q) - c) : c + i \in 1 .. Len(q)
  BY <1>1
<1>9. Rising(f.observations)
  <2> SUFFICES ASSUME NEW i \in 1 .. (Len(q) - c), NEW j \in 1 .. (Len(q) - c), i < j
               PROVE  f.observations[i] < f.observations[j]
    BY <1>3 DEF Rising
  <2>1. q[c + i] < q[c + j]
    BY <1>1, <1>8 DEF Rising
  <2> QED BY <1>3, <2>1
<1>10. \A i \in 1 .. Len(f.observations) : f.observations[i] \in A /\ f.observations[i] <= f.lastSeen
  BY <1>2, <1>3, <1>5, <1>8 DEF SameArrivals
<1>11. \A t \in A : (\E i \in 1 .. Len(f.observations) : f.observations[i] = t) \/ (w > 0 /\ t < e - w)
  <2> TAKE t \in A
  <2>1. CASE w > 0 /\ t < e - w
    BY <2>1
  <2>2. ASSUME NEW k \in 1 .. Len(q), q[k] = t
        PROVE  (\E i \in 1 .. Len(f.observations) : f.observations[i] = t) \/ (w > 0 /\ t < e - w)
    <3>1. CASE k <= c
      <4>1. w > 0 /\ t < at - 2 * w
        BY <1>3, <2>2, <3>1
      <4>2. t \in Nat
        OBVIOUS
      <4>3. t < e - w
        BY <1>4, <4>1, <4>2
      <4> QED BY <4>1, <4>3
    <3>2. CASE k > c
      <4>1. k - c \in 1 .. (Len(q) - c) /\ c + (k - c) = k
        BY <1>8, <3>2
      <4>2. f.observations[k - c] = t
        BY <1>3, <2>2, <4>1
      <4> QED BY <1>3, <4>1, <4>2
    <3> QED BY <3>1, <3>2
  <2> QED BY <1>6, <2>1, <2>2
<1>12. f.countStart <= Len(f.observations)
  BY <1>1, <1>3, <1>8 DEF q
<1>13. \A i \in 1 .. f.countStart : w > 0 /\ f.observations[i] < e - w
  <2> TAKE i \in 1 .. f.countStart
  <2>1. m.countStart > c /\ c + i \in 1 .. m.countStart
    BY <1>1, <1>3
  <2>2. i \in 1 .. (Len(q) - c)
    <3>1. c \in Nat /\ f.countStart \in Nat /\ f.countStart <= Len(q) - c
      BY <1>1, <1>3, <1>8, <1>12
    <3> QED BY <1>8, <3>1
  <2> QED BY <1>3, <1>7, <2>1, <2>2
<1>14. KeptInv(s, f, A, e)
  BY <1>4, <1>9, <1>10, <1>11, <1>12, <1>13 DEF KeptInv
<1>15. LearntInv(f)
  BY <1>2 DEF HeardInv, LearntInv, SameArrivals, SameLearning
<1>16. SeenInv(f, e)
  <2>1. m.total \in Nat /\ m.total >= Len(q) /\ m.lastSeen <= e /\ m.seen
    BY <1>1 DEF HeardInv, SeenInv, Sender, q
  <2> QED BY <1>2, <1>3, <1>8, <2>1 DEF SeenInv, SameArrivals
<1>17. LedgerInv(f, d)
  BY <1>2 DEF HeardInv, LedgerInv, SameObligation
<1> QED BY <1>2, <1>14, <1>15, <1>16, <1>17 DEF HeardInv, SameObligation, SameArrivals, f

LEMMA OpensIs ==
  ASSUME NEW s \in Pair, NEW m, NEW A \in SUBSET Nat, NEW e \in Nat, NEW d \in Nat, NEW at \in Nat,
         HeardInv(s, m, A, e, d, at)
  PROVE  SenderInv(s, Watchdog!OpenObligation(s, m, at), A, e, d)
<1> DEFINE f == Watchdog!OpenObligation(s, m, at)
           h == Horizon(s, m)
<1>1. m \in Sender /\ h \in Nat /\ m.opened \in Nat /\ m.closed \in Nat /\ m.deficits \in Nat
  BY EffectiveIs DEF HeardInv, Sender
<1>2. CASE h = 0
  <2>1. f = m
    BY <1>2 DEF Watchdog!OpenObligation, Horizon
  <2>2. OwesInv(s, m)
    BY <1>2 DEF OwesInv
  <2> QED BY <2>1, <2>2 DEF HeardInv, SenderInv
<1>3. CASE h # 0
  <2>1. f = [m EXCEPT !.obligationDue = at + h, !.obligationOpen = TRUE, !.opened = m.opened + 1]
    BY <1>3 DEF Watchdog!OpenObligation, Horizon
  <2>2. at + h \in Nat /\ m.opened + 1 \in Nat
    BY <1>1
  <2> HIDE DEF h
  <2>3. /\ f \in Sender /\ SameLearning(m, f) /\ SameArrivals(m, f)
        /\ f.observations = m.observations /\ f.countStart = m.countStart
        /\ f.obligationDue = at + h /\ f.obligationOpen = TRUE /\ f.opened = m.opened + 1
        /\ f.closed = m.closed /\ f.deficits = m.deficits
    BY <1>1, <2>1, <2>2 DEF Sender, SameLearning, SameArrivals
  <2> HIDE DEF f
  <2>4. Span(s, f) = Span(s, m) /\ Horizon(s, f) = h
    BY <2>3, SameEffective DEF SameLearning, h
  <2>5. KeptInv(s, f, A, e)
    BY <2>3, <2>4 DEF HeardInv, KeptInv, SameArrivals
  <2>6. LearntInv(f)
    BY <2>3 DEF HeardInv, LearntInv, SameLearning, SameArrivals
  <2>7. SeenInv(f, e)
    BY <2>3 DEF HeardInv, SeenInv, SameArrivals
  <2>8. OwesInv(s, f)
    BY <2>3, <2>4 DEF HeardInv, OwesInv, SameArrivals
  <2>9. LedgerInv(f, d)
    <3>1. m.opened = m.closed + m.deficits + d + 0
      BY DEF HeardInv, LedgerInv
    <3> QED BY <1>1, <2>3, <3>1 DEF LedgerInv
  <2> QED BY <2>3, <2>5, <2>6, <2>7, <2>8, <2>9 DEF SenderInv, f
<1> QED BY <1>2, <1>3

(* observe keeps the invariant of the sender it hears.                     *)
LEMMA ObservedIs ==
  ASSUME NEW s \in Pair, NEW r, NEW A, NEW e, NEW d, SenderInv(s, r, A, e, d),
         NEW at \in Nat, at <= e, r.seen => at > r.lastSeen, NEW anchored \in BOOLEAN,
         NEW f, f = IF r.seen /\ anchored
                    THEN Watchdog!LearnWatchdog([Watchdog!Meet(r, at) EXCEPT
                           !.gaps = Watchdog!Newest(Append(@, at - r.lastSeen), History)])
                    ELSE Watchdog!Meet(r, at)
  PROVE  SenderInv(s, Watchdog!OpenObligation(s, Watchdog!Trim(s, f, at), at), A \cup {at}, e, d)
<1> DEFINE m == Watchdog!Meet(r, at)
           B == A \cup {at}
<1>1. HeardInv(s, m, B, e, d, at)
  BY MeetIs DEF HeardInv
<1>2. B \in SUBSET Nat /\ e \in Nat /\ d \in Nat
  BY DEF SenderInv
<1> HIDE DEF m, B
<1>3. HeardInv(s, f, B, e, d, at)
  <2>1. CASE r.seen /\ anchored
    <3>1. r.lastSeen \in Nat /\ at - r.lastSeen \in Nat /\ at - r.lastSeen > 0
      BY <2>1 DEF SenderInv, Sender
    <3> DEFINE g == at - r.lastSeen
               h == [m EXCEPT !.gaps = Watchdog!Newest(Append(m.gaps, g), History)]
    <3>2. HeardInv(s, h, B, e, d, at)
      BY <1>1, <3>1, GapsIs
    <3>3. f = Watchdog!LearnWatchdog(h)
      BY <2>1 DEF m
    <3> HIDE DEF h
    <3> QED BY <3>2, <3>3, LearnsIs
  <2>2. CASE ~(r.seen /\ anchored)
    <3>1. f = m
      BY <2>2 DEF m
    <3> QED BY <1>1, <3>1
  <2> QED BY <2>1, <2>2
<1>4. HeardInv(s, Watchdog!Trim(s, f, at), B, e, d, at)
  BY <1>2, <1>3, TrimmedIs
<1> QED BY <1>2, <1>4, OpensIs DEF B


\* Fewer than m elements of a rising sequence are not below b.
Few(q, m, b) == Len(q) < m \/ q[Len(q) - m + 1] < b

LEMMA FewIs ==
  ASSUME NEW q \in Seq(Nat), Rising(q), NEW b \in Int, NEW m \in Nat, m > 0,
         NEW c, c = Cardinality({i \in DOMAIN q : q[i] < b})
  PROVE  c \in 0 .. Len(q) /\ (Len(q) - c < m <=> Few(q, m, b))
<1>1. c \in 0 .. Len(q) /\ \A i \in 1 .. Len(q) : q[i] < b <=> i <= c
  BY BelowIs, Zenon
<1>2. Len(q) \in Nat
  OBVIOUS
<1>3. CASE Len(q) < m
  BY <1>1, <1>2, <1>3 DEF Few
<1>4. CASE ~(Len(q) < m)
  <2>1. Len(q) - m + 1 \in 1 .. Len(q) /\ Len(q) - m + 1 = (Len(q) - m) + 1
    BY <1>2, <1>4
  <2>2. q[Len(q) - m + 1] < b <=> Len(q) - m + 1 <= c
    BY <1>1, <2>1
  <2> QED BY <1>1, <1>2, <1>4, <2>2 DEF Few
<1> QED BY <1>3, <1>4

\* While it is not dirty: what the last check found is what a check now would
\* find, and every change still to come is at the next check or after it.
DueInv(s, r, e, n) ==
  /\ r.seen /\ r.obligationOpen /\ Horizon(s, r) > 0 => n > 0 /\ n <= r.obligationDue
  /\ Watchdog!Counts(s, r) /\ e < Span(s, r) => n > 0 /\ n <= Span(s, r)
  /\ Watchdog!Counts(s, r) /\ e >= Span(s, r) =>
       /\ r.countOpen = Few(r.observations, Least(s, r), e - Span(s, r))
       /\ ~r.countOpen => n > 0 /\ n <= r.observations[Len(r.observations) - Least(s, r) + 1] + Span(s, r) + 1

LEMMA LaterIs ==
  ASSUME NEW s \in Pair, NEW r, NEW A, NEW e, NEW d, SenderInv(s, r, A, e, d), NEW x \in Nat, x >= e
  PROVE  SenderInv(s, r, A, x, d)
<1> DEFINE q == r.observations
<1>1. /\ r \in Sender /\ A \in SUBSET Nat /\ e \in Nat /\ Span(s, r) \in Nat /\ q \in Seq(Nat)
      /\ r.countStart \in Nat /\ r.countStart <= Len(q) /\ r.lastSeen \in Nat
  BY EffectiveIs DEF SenderInv, KeptInv, Sender
<1>2. \A t \in A : \/ \E i \in 1 .. Len(q) : q[i] = t
                   \/ Span(s, r) > 0 /\ t < x - Span(s, r)
  <2> TAKE t \in A
  <2>1. t \in Nat
    BY <1>1
  <2>2. (\E i \in 1 .. Len(q) : q[i] = t) \/ (Span(s, r) > 0 /\ t < e - Span(s, r))
    BY DEF SenderInv, KeptInv
  <2>3. t < e - Span(s, r) => t < x - Span(s, r)
    BY <1>1, <2>1
  <2> QED BY <2>2, <2>3
<1>3. \A i \in 1 .. r.countStart : Span(s, r) > 0 /\ q[i] < x - Span(s, r)
  <2> TAKE i \in 1 .. r.countStart
  <2>1. i \in 1 .. Len(q) /\ q[i] \in Nat
    BY <1>1
  <2>2. Span(s, r) > 0 /\ q[i] < e - Span(s, r)
    BY DEF SenderInv, KeptInv
  <2> QED BY <1>1, <2>1, <2>2
<1>4. KeptInv(s, r, A, x)
  BY <1>2, <1>3 DEF SenderInv, KeptInv
<1>5. SeenInv(r, x)
  BY <1>1 DEF SenderInv, SeenInv
<1> QED BY <1>1, <1>4, <1>5 DEF SenderInv

\* Nothing changes before the next check is due.
LEMMA NotDueIs ==
  ASSUME NEW s \in Pair, NEW r, NEW A, NEW e, NEW d, SenderInv(s, r, A, e, d),
         NEW n \in Nat, DueInv(s, r, e, n), NEW x \in Nat, x >= e, n > 0 => x < n
  PROVE  DueInv(s, r, x, n)
<1> DEFINE q == r.observations
           w == Span(s, r)
           m == Least(s, r)
           y == q[Len(q) - m + 1]
<1>1. /\ r \in Sender /\ e \in Nat /\ w \in Nat /\ m \in Nat /\ q \in Seq(Nat) /\ Len(q) \in Nat
      /\ r.countOpen \in BOOLEAN
  BY EffectiveIs DEF SenderInv, Sender
<1>2. Watchdog!Counts(s, r) => m > 0
  BY DEF Watchdog!Counts, Least
<1>3. m > 0 /\ ~(Len(q) < m) => y \in Nat
  <2> SUFFICES ASSUME m > 0, ~(Len(q) < m) PROVE y \in Nat
    OBVIOUS
  <2>1. Len(q) - m + 1 \in 1 .. Len(q)
    BY <1>1
  <2> QED BY <1>1, <2>1
<1>4. r.seen /\ r.obligationOpen /\ Horizon(s, r) > 0 => n > 0 /\ n <= r.obligationDue
  BY DEF DueInv
<1>5. Watchdog!Counts(s, r) /\ e < w => n > 0 /\ n <= w
  BY DEF DueInv
<1>6. Watchdog!Counts(s, r) /\ e >= w => /\ r.countOpen = Few(q, m, e - w)
                                         /\ ~r.countOpen => n > 0 /\ n <= y + w + 1
  BY DEF DueInv
<1> HIDE DEF q, w, m, y
<1>7. Watchdog!Counts(s, r) /\ x < w => n > 0 /\ n <= w
  BY <1>1, <1>5
<1>8. Watchdog!Counts(s, r) /\ x >= w => e >= w
  BY <1>1, <1>5
<1>9. Watchdog!Counts(s, r) /\ x >= w => /\ r.countOpen = Few(q, m, x - w)
                                         /\ ~r.countOpen => n > 0 /\ n <= y + w + 1
  <2> SUFFICES ASSUME Watchdog!Counts(s, r), x >= w PROVE r.countOpen = Few(q, m, x - w)
    BY <1>6, <1>8
  <2>1. CASE Len(q) < m
    <3>1. Few(q, m, e - w) /\ Few(q, m, x - w)
      BY <2>1 DEF Few
    <3> QED BY <1>6, <1>8, <3>1, Zenon
  <2>2. CASE ~(Len(q) < m) /\ y < e - w
    <3>1. y < x - w
      BY <1>1, <1>2, <1>3, <2>2
    <3>2. Few(q, m, e - w) /\ Few(q, m, x - w)
      BY <2>2, <3>1 DEF Few, y
    <3> QED BY <1>6, <1>8, <3>2, Zenon
  <2>3. CASE ~(Len(q) < m) /\ ~(y < e - w)
    <3>1. ~Few(q, m, e - w)
      BY <2>3 DEF Few, y
    <3>2. ~r.countOpen
      BY <1>6, <1>8, <3>1, Zenon
    <3>3. n > 0 /\ n <= y + w + 1
      BY <1>6, <1>8, <3>2
    <3>4. ~(y < x - w)
      BY <1>1, <1>2, <1>3, <2>3, <3>3
    <3>5. ~Few(q, m, x - w)
      BY <2>3, <3>4 DEF Few, y
    <3>6. Few(q, m, x - w) = FALSE /\ r.countOpen = FALSE
      BY <1>1, <3>2, <3>5 DEF Few
    <3> QED BY <3>6, Zenon
  <2> QED BY <2>1, <2>2, <2>3
<1> QED BY <1>4, <1>7, <1>9 DEF DueInv, q, w, m, y


(* A check of one sender finds what is late and what is missing.           *)
LEMMA CheckIs ==
  ASSUME NEW s \in Pair, NEW r, NEW A, NEW e, NEW d, SenderInv(s, r, A, e, d)
  PROVE  LET k == Watchdog!Check(s, r, e)
         IN  /\ SenderInv(s, k, A, e, d) /\ k.seen = r.seen
             /\ k.seen /\ k.obligationOpen /\ Horizon(s, k) > 0 => e < k.obligationDue
             /\ Watchdog!Counts(s, k) /\ e >= Span(s, k) =>
                  k.countOpen = Few(k.observations, Least(s, k), e - Span(s, k))
<1> DEFINE k == Watchdog!Check(s, r, e)
           q == r.observations
           w == Span(s, r)
           m == Least(s, r)
           h == Horizon(s, r)
           late == Watchdog!Overdue(s, r, e)
           counted == Watchdog!Counts(s, r) /\ e >= Watchdog!EffectiveCountWindow(s, r)
           from == Watchdog!CountFrom(s, r, e)
           few == Len(r.observations) - from < Watchdog!EffectiveMinimumCount(s, r)
           c == Cardinality({i \in DOMAIN q : q[i] < e - w})
           cs == IF counted THEN from ELSE r.countStart
           co == IF counted THEN few ELSE r.countOpen
           df == IF late THEN r.deficits + 1 ELSE r.deficits
<1>1. /\ r \in Sender /\ A \in SUBSET Nat /\ e \in Nat /\ d \in Nat
      /\ w \in Nat /\ m \in Nat /\ h \in Nat
      /\ q \in Seq(Nat) /\ Len(q) \in Nat /\ Rising(q) /\ r.countStart \in Nat /\ r.countStart <= Len(q)
      /\ r.deficits \in Nat /\ r.opened \in Nat /\ r.closed \in Nat /\ r.obligationDue \in Nat
      /\ r.lastSeen \in Nat
      /\ r.seen \in BOOLEAN /\ r.obligationOpen \in BOOLEAN /\ r.overdueOpen \in BOOLEAN
      /\ r.countOpen \in BOOLEAN
  BY EffectiveIs DEF SenderInv, KeptInv, Sender
<1>2. late <=> r.seen /\ r.obligationOpen /\ h > 0 /\ e >= r.obligationDue
  BY DEF Watchdog!Overdue, Horizon
<1>3. counted => w > 0 /\ m > 0 /\ e >= w /\ r.seen
  BY DEF Watchdog!Counts, Span, Least
<1>4. from = c
  <2>1. \A i \in DOMAIN q : i <= r.countStart => q[i] < e - w
    BY <1>1 DEF SenderInv, KeptInv
  <2>2. {i \in DOMAIN q : i <= r.countStart \/ q[i] < e - w} = {i \in DOMAIN q : q[i] < e - w}
    BY <2>1
  <2>3. from = Watchdog!Cardinality({i \in DOMAIN q : i <= r.countStart \/ q[i] < e - w})
    BY DEF Watchdog!CountFrom, Span
  <2> QED BY <2>2, <2>3, SameCardinality, Zenon
<1>5. c \in 0 .. Len(q) /\ \A i \in 1 .. Len(q) : q[i] < e - w <=> i <= c
  <2>1. e - w \in Int
    BY <1>1
  <2> QED BY <1>1, <2>1, BelowIs
<1>6. m > 0 => (Len(q) - c < m <=> Few(q, m, e - w))
  <2>1. e - w \in Int
    BY <1>1
  <2> QED BY <1>1, <2>1, FewIs, Zenon
<1>7. k = [r EXCEPT !.overdueOpen = r.overdueOpen \/ late, !.obligationOpen = r.obligationOpen /\ ~late,
                    !.deficits = df, !.countStart = cs, !.countOpen = co]
  BY Zenon DEF Watchdog!Check
<1>8. counted => (few <=> Few(q, m, e - w))
  BY <1>3, <1>4, <1>6 DEF Least
<1> HIDE DEF c, late, q, w, m, h
<1>9. cs \in Nat /\ cs <= Len(q) /\ (counted => cs = c) /\ (~counted => cs = r.countStart)
  BY <1>1, <1>4, <1>5
<1>10. co \in BOOLEAN /\ df \in Nat /\ (r.overdueOpen \/ late) \in BOOLEAN
       /\ (r.obligationOpen /\ ~late) \in BOOLEAN
  <2>1. df \in Nat
    BY <1>1
  <2>2. co \in BOOLEAN
    <3>1. few \in BOOLEAN
      OBVIOUS
    <3> HIDE DEF few, counted
    <3> QED BY <1>1, <3>1, Zenon
  <2> HIDE DEF df, co
  <2> QED BY <2>1, <2>2
<1>11. counted => co = Few(q, m, e - w)
  <2> SUFFICES ASSUME counted PROVE co = Few(q, m, e - w)
    OBVIOUS
  <2>1. co = few
    OBVIOUS
  <2>2. few <=> Few(q, m, e - w)
    BY <1>8
  <2> HIDE DEF few, co, counted
  <2>3. few \in BOOLEAN /\ Few(q, m, e - w) \in BOOLEAN
    BY DEF few, Few
  <2> QED BY <2>1, <2>2, <2>3
<1>12. (df = IF late THEN r.deficits + 1 ELSE r.deficits) /\ (counted <=> Watchdog!Counts(s, r) /\ e >= w)
  BY DEF w, Span
<1> HIDE DEF counted, from, few, cs, co, df
<1>13. /\ k \in Sender /\ k.overdueOpen = (r.overdueOpen \/ late)
       /\ k.obligationOpen = (r.obligationOpen /\ ~late) /\ k.deficits = df
       /\ k.countStart = cs /\ k.countOpen = co
       /\ SameLearning(r, k) /\ SameArrivals(r, k) /\ k.observations = q
       /\ k.obligationDue = r.obligationDue /\ k.opened = r.opened /\ k.closed = r.closed
  <2>1. k \in Sender
    BY <1>1, <1>7, <1>9, <1>10, ZenonT(30) DEF Sender
  <2>2. /\ k.overdueOpen = (r.overdueOpen \/ late)
        /\ k.obligationOpen = (r.obligationOpen /\ ~late)
        /\ k.countOpen = co
    BY <1>1, <1>7, ZenonT(30) DEF Sender
  <2>3. /\ k.deficits = df /\ k.countStart = cs /\ k.observations = q
        /\ k.obligationDue = r.obligationDue /\ k.opened = r.opened /\ k.closed = r.closed
    BY <1>1, <1>7 DEF Sender, q
  <2>4. SameLearning(r, k) /\ SameArrivals(r, k)
    BY <1>1, <1>7 DEF Sender, SameLearning, SameArrivals
  <2> QED BY <2>1, <2>2, <2>3, <2>4
<1> HIDE DEF k
<1>14. Span(s, k) = w /\ Horizon(s, k) = h /\ Least(s, k) = m
  BY <1>13, SameEffective DEF SameLearning, w, h, m
<1>15. KeptInv(s, k, A, e)
  <2>1. \A i \in 1 .. cs : w > 0 /\ q[i] < e - w
    <3>1. CASE counted
      BY <1>1, <1>3, <1>5, <1>9, <3>1 DEF w
    <3>2. CASE ~counted
      BY <1>9, <3>2 DEF SenderInv, KeptInv, q, w
    <3> QED BY <3>1, <3>2
  <2>2. \A i \in 1 .. Len(q) : q[i] \in A /\ q[i] <= r.lastSeen
    BY DEF SenderInv, KeptInv, q
  <2>3. \A t \in A : (\E i \in 1 .. Len(q) : q[i] = t) \/ (w > 0 /\ t < e - w)
    BY DEF SenderInv, KeptInv, q, w
  <2> QED BY <1>1, <1>9, <1>13, <1>14, <2>1, <2>2, <2>3 DEF KeptInv, SameArrivals
<1>16. LearntInv(k)
  BY <1>13 DEF SenderInv, LearntInv, SameLearning, SameArrivals
<1>17. SeenInv(k, e)
  BY <1>13 DEF SenderInv, SeenInv, SameArrivals, q
<1>18. OwesInv(s, k)
  <2>1. r.seen /\ h > 0 => r.overdueOpen \/ (r.obligationOpen /\ r.obligationDue = r.lastSeen + h)
    BY DEF SenderInv, OwesInv, h
  <2> QED BY <1>13, <1>14, <2>1 DEF OwesInv, SameArrivals
<1>19. LedgerInv(k, d)
  <2>1. r.opened = r.closed + r.deficits + d + (IF r.obligationOpen THEN 1 ELSE 0)
    BY DEF SenderInv, LedgerInv
  <2>2. CASE late
    <3>1. r.obligationOpen /\ ~k.obligationOpen /\ k.deficits = r.deficits + 1
      BY <1>2, <1>12, <1>13, <2>2
    <3> QED BY <1>1, <1>13, <2>1, <3>1 DEF LedgerInv
  <2>3. CASE ~late
    <3>1. (k.obligationOpen <=> r.obligationOpen) /\ k.deficits = r.deficits
      BY <1>12, <1>13, <2>3
    <3> QED BY <1>1, <1>13, <2>1, <3>1 DEF LedgerInv
  <2> QED BY <2>2, <2>3
<1>20. k.seen /\ k.obligationOpen /\ Horizon(s, k) > 0 => e < k.obligationDue
  <2> SUFFICES ASSUME k.seen, k.obligationOpen, Horizon(s, k) > 0 PROVE e < k.obligationDue
    OBVIOUS
  <2>1. r.seen /\ h > 0 /\ k.obligationDue = r.obligationDue
    BY <1>13, <1>14 DEF SameArrivals
  <2>2. r.obligationOpen /\ ~late
    BY <1>13
  <2> QED BY <1>1, <1>2, <2>1, <2>2
<1>21. Watchdog!Counts(s, k) <=> Watchdog!Counts(s, r)
  BY <1>13, <1>14 DEF Watchdog!Counts, SameArrivals, Span, Least, w, m
<1>22. Watchdog!Counts(s, k) /\ e >= w => k.countOpen = Few(q, m, e - w)
  BY <1>11, <1>12, <1>13, <1>21, Zenon
<1>23. Watchdog!Counts(s, k) /\ e >= Span(s, k) => k.countOpen = Few(k.observations, Least(s, k), e - Span(s, k))
  BY <1>13, <1>14, <1>22, Zenon
<1>24. SenderInv(s, k, A, e, d) /\ k.seen = r.seen
  BY <1>1, <1>13, <1>15, <1>16, <1>17, <1>18, <1>19 DEF SenderInv, SameArrivals
<1> QED BY <1>20, <1>23, <1>24, Zenon DEF k


\* A sender just checked asks for a check before anything about it changes.
LEMMA TimesIs ==
  ASSUME NEW s \in Pair, NEW k, NEW A, NEW e, NEW d, SenderInv(s, k, A, e, d),
         k.seen /\ k.obligationOpen /\ Horizon(s, k) > 0 => e < k.obligationDue,
         Watchdog!Counts(s, k) /\ e >= Span(s, k) =>
           k.countOpen = Few(k.observations, Least(s, k), e - Span(s, k))
  PROVE  LET T == Watchdog!CheckTimes(s, k, e)
         IN  /\ T \in SUBSET Nat /\ \A t \in T : t > e
             /\ \A n \in Nat : (\A t \in T : n <= t /\ n > 0) => DueInv(s, k, e, n)
<1> DEFINE T == Watchdog!CheckTimes(s, k, e)
           q == k.observations
           w == Span(s, k)
           m == Least(s, k)
           h == Horizon(s, k)
           y == q[Len(q) - m + 1]
           late == k.seen /\ k.obligationOpen /\ h > 0
           counts == Watchdog!Counts(s, k)
<1>1. /\ k \in Sender /\ e \in Nat /\ w \in Nat /\ m \in Nat /\ h \in Nat /\ k.obligationDue \in Nat
      /\ q \in Seq(Nat) /\ Len(q) \in Nat /\ k.countOpen \in BOOLEAN
  BY EffectiveIs DEF SenderInv, Sender
<1>2. T = {t \in (IF late THEN {k.obligationDue} ELSE {})
              \cup (IF counts /\ e < w THEN {w} ELSE {})
              \cup (IF counts /\ e >= w /\ ~k.countOpen THEN {y + w + 1} ELSE {}) : t > e}
  BY Zenon DEF Watchdog!CheckTimes, Span, Least, Horizon
<1>3. counts => m > 0
  BY DEF Watchdog!Counts, Least
<1>4. late => e < k.obligationDue
  OBVIOUS
<1>5. counts /\ e >= w => k.countOpen = Few(q, m, e - w)
  OBVIOUS
<1> HIDE DEF T, q, w, m, h, late, counts
<1>6. counts /\ e >= w /\ ~k.countOpen => y \in Nat /\ y + w + 1 > e /\ y + w + 1 \in Nat
  <2> SUFFICES ASSUME counts, e >= w, ~k.countOpen
               PROVE  y \in Nat /\ y + w + 1 > e /\ y + w + 1 \in Nat
    OBVIOUS
  <2>1. ~Few(q, m, e - w)
    BY <1>5, Zenon
  <2>2. ~(Len(q) < m) /\ ~(y < e - w)
    BY <2>1 DEF Few
  <2>3. Len(q) - m + 1 \in 1 .. Len(q)
    BY <1>1, <1>3, <2>2
  <2>4. y \in Nat
    BY <1>1, <2>3
  <2> HIDE DEF y
  <2> QED BY <1>1, <2>2, <2>4
<1> HIDE DEF y
<1>7. T \in SUBSET Nat /\ \A t \in T : t > e
  BY <1>1, <1>2, <1>6
<1>8. /\ late => k.obligationDue \in T
      /\ counts /\ e < w => w \in T
      /\ counts /\ e >= w /\ ~k.countOpen => y + w + 1 \in T
  BY <1>1, <1>2, <1>4, <1>6
<1>9. ASSUME NEW n \in Nat, \A t \in T : n <= t /\ n > 0
      PROVE  DueInv(s, k, e, n)
  <2>1. late => n > 0 /\ n <= k.obligationDue
    BY <1>8, <1>9
  <2>2. counts /\ e < w => n > 0 /\ n <= w
    BY <1>8, <1>9
  <2>3. counts /\ e >= w => /\ k.countOpen = Few(q, m, e - w)
                            /\ ~k.countOpen => n > 0 /\ n <= y + w + 1
    <3>1. counts /\ e >= w /\ ~k.countOpen => n > 0 /\ n <= y + w + 1
      BY <1>8, <1>9
    <3> QED BY <1>5, <3>1, Zenon
  <2> QED BY <2>1, <2>2, <2>3, Zenon DEF DueInv, q, w, m, h, y, late, counts
<1> QED BY <1>7, <1>9, Zenon DEF T

-----------------------------------------------------------------------------
WatchdogInv ==
  /\ lastEnd \in Nat /\ nextCheck \in Nat /\ dirty \in BOOLEAN /\ checked \in BOOLEAN
  /\ reanchorPending \in SUBSET Pair /\ faults \in Nat
  /\ sender \in [Pair -> Sender] /\ observed \in [Pair -> SUBSET Nat] /\ dropped \in [Pair -> Nat]
  /\ \A s \in Pair : SenderInv(s, sender[s], observed[s], lastEnd, dropped[s])
  /\ ~dirty => /\ nextCheck > 0 => lastEnd < nextCheck
               /\ \A s \in Pair : DueInv(s, sender[s], lastEnd, nextCheck)
  /\ checked => ~dirty \/ \A s \in Pair : ~sender[s].seen

\* A sender of which nothing is known, with its totals.
LEMMA FreshIs ==
  ASSUME NEW s \in Pair, NEW r \in Sender, NEW e \in Nat, NEW d \in Nat, LedgerInv(r, d),
         NEW x, x = IF r.obligationOpen THEN d + 1 ELSE d,
         NEW f, f = [Watchdog!Fresh EXCEPT !.total = r.total, !.opened = r.opened,
                                       !.closed = r.closed, !.deficits = r.deficits]
  PROVE  SenderInv(s, f, {}, e, x) /\ ~f.seen /\ x \in Nat
<1>1. r.total \in Nat /\ r.opened \in Nat /\ r.closed \in Nat /\ r.deficits \in Nat /\ r.obligationOpen \in BOOLEAN
  BY DEF Sender
<1> DEFINE F == Watchdog!Fresh
<1>2. /\ F \in Sender /\ F.seen = FALSE /\ F.lastSeen = 0 /\ F.observations = <<>> /\ F.countStart = 0
      /\ F.gaps = <<>> /\ F.learned = FALSE /\ F.obligationOpen = FALSE
  BY DEF Watchdog!Fresh, Sender
<1> HIDE DEF F
<1>f. f = [F EXCEPT !.total = r.total, !.opened = r.opened, !.closed = r.closed, !.deficits = r.deficits]
  BY DEF F
<1>3. /\ f.seen = FALSE /\ f.lastSeen = 0 /\ f.observations = <<>> /\ f.countStart = 0 /\ f.gaps = <<>>
      /\ f.learned = FALSE /\ f.obligationOpen = FALSE /\ f.total = r.total /\ f.opened = r.opened
      /\ f.closed = r.closed /\ f.deficits = r.deficits
  BY <1>1, <1>2, <1>f DEF Sender
<1>4. f \in Sender
  BY <1>1, <1>2, <1>f DEF Sender
<1>5. KeptInv(s, f, {}, e) /\ LearntInv(f) /\ SeenInv(f, e) /\ OwesInv(s, f)
  <2>1. Len(f.observations) = 0 /\ Len(f.gaps) = 0 /\ 1 .. 0 = {} /\ 0 <= History
    BY <1>3, WatchdogSizes
  <2>2. KeptInv(s, f, {}, e)
    BY <1>3, <2>1 DEF KeptInv, Rising
  <2>3. LearntInv(f)
    BY <1>3, <2>1 DEF LearntInv
  <2>4. SeenInv(f, e) /\ OwesInv(s, f)
    BY <1>1, <1>3, <2>1 DEF SeenInv, OwesInv
  <2> QED BY <2>2, <2>3, <2>4
<1>6. x \in Nat /\ LedgerInv(f, x)
  <2>1. r.opened = r.closed + r.deficits + d + (IF r.obligationOpen THEN 1 ELSE 0)
    BY DEF LedgerInv
  <2> QED BY <1>1, <1>3, <2>1 DEF LedgerInv
<1> QED BY <1>3, <1>4, <1>5, <1>6 DEF SenderInv

LEMMA WatchdogInit == Watchdog!Init => WatchdogInv
<1> SUFFICES ASSUME Watchdog!Init PROVE WatchdogInv
  OBVIOUS
<1> DEFINE r == Watchdog!Fresh
<1>1. r \in Sender /\ r.opened = 0 /\ r.closed = 0 /\ r.deficits = 0 /\ r.total = 0 /\ r.obligationOpen = FALSE
      /\ r.seen = FALSE
  BY DEF Watchdog!Fresh, Sender
<1>2. r = [r EXCEPT !.total = r.total, !.opened = r.opened, !.closed = r.closed, !.deficits = r.deficits]
  BY DEF Watchdog!Fresh
<1>3. LedgerInv(r, 0) /\ 0 = IF r.obligationOpen THEN 0 + 1 ELSE 0
  BY <1>1 DEF LedgerInv
<1>4. \A s \in Pair : SenderInv(s, r, {}, 0, 0)
  BY <1>1, <1>2, <1>3, FreshIs
<1> HIDE DEF r
<1>5. /\ sender = [s \in Pair |-> r] /\ observed = [s \in Pair |-> {}] /\ dropped = [s \in Pair |-> 0]
      /\ lastEnd = 0 /\ dirty = TRUE /\ nextCheck = 0 /\ reanchorPending = {} /\ checked = FALSE /\ faults = 0
  BY DEF Watchdog!Init, r
<1> QED BY <1>1, <1>4, <1>5 DEF WatchdogInv


LEMMA ObserveWatched ==
  ASSUME WatchdogInv, NEW s \in Pair, NEW at \in {lastEnd, lastEnd - Block}, Watchdog!Observe(s, at)
  PROVE  WatchdogInv'
<1> DEFINE r == sender[s]
           anchored == s \notin reanchorPending
           f == IF r.seen /\ anchored
                THEN Watchdog!LearnWatchdog([Watchdog!Meet(r, at) EXCEPT
                       !.gaps = Watchdog!Newest(Append(@, at - r.lastSeen), History)])
                ELSE Watchdog!Meet(r, at)
           n == Watchdog!OpenObligation(s, Watchdog!Trim(s, f, at), at)
<1>1. at \in Nat /\ at <= lastEnd /\ (r.seen => at > r.lastSeen)
  BY WatchdogSizes DEF WatchdogInv, Watchdog!Observe
<1>2. SenderInv(s, r, observed[s], lastEnd, dropped[s])
  BY DEF WatchdogInv
<1>3. anchored \in BOOLEAN
  OBVIOUS
<1>4. /\ sender' = [sender EXCEPT ![s] = n] /\ observed' = [observed EXCEPT ![s] = observed[s] \cup {at}]
      /\ lastEnd' = lastEnd /\ nextCheck' = nextCheck /\ dropped' = dropped /\ faults' = faults
      /\ dirty' = TRUE /\ checked' = FALSE /\ reanchorPending' = reanchorPending \ {s}
  BY DEF Watchdog!Observe
<1> HIDE DEF anchored, r
<1>5. SenderInv(s, n, observed[s] \cup {at}, lastEnd, dropped[s])
  BY <1>1, <1>2, <1>3, ObservedIs
<1> HIDE DEF f, n
<1>6. n \in Sender /\ observed[s] \cup {at} \in SUBSET Nat
  BY <1>5 DEF SenderInv
<1>7. /\ sender' \in [Pair -> Sender] /\ observed' \in [Pair -> SUBSET Nat]
      /\ sender'[s] = n /\ observed'[s] = observed[s] \cup {at}
      /\ \A x \in Pair : x # s => sender'[x] = sender[x] /\ observed'[x] = observed[x]
  BY <1>4, <1>6 DEF WatchdogInv
<1>8. \A x \in Pair : SenderInv(x, sender'[x], observed'[x], lastEnd', dropped'[x])
  <2> TAKE x \in Pair
  <2>1. CASE x = s
    BY <1>4, <1>5, <1>7, <2>1, Zenon
  <2>2. CASE x # s
    <3>1. SenderInv(x, sender[x], observed[x], lastEnd, dropped[x])
      BY DEF WatchdogInv
    <3> QED BY <1>4, <1>7, <2>2, <3>1, Zenon
  <2> QED BY <2>1, <2>2
<1> QED BY <1>4, <1>7, <1>8 DEF WatchdogInv

\* A full check at the end of the next block.
LEMMA ChecksWatched ==
  ASSUME WatchdogInv, NEW end \in Nat, end >= lastEnd, lastEnd' = end, checked' = TRUE,
         UNCHANGED <<reanchorPending, observed, dropped, faults>>,
         Watchdog!CheckWatchdogs(end)
  PROVE  WatchdogInv'
<1> DEFINE k(s) == Watchdog!Check(s, sender[s], end)
           T(s) == Watchdog!CheckTimes(s, k(s), end)
           U == UNION {T(s) : s \in Pair}
<1>1. sender' = [s \in Pair |-> k(s)] /\ dirty' = FALSE
  BY DEF Watchdog!CheckWatchdogs
<1>2. \A s \in Pair : sender'[s] = k(s)
  BY <1>1
<1>3. \A s \in Pair :
        /\ SenderInv(s, k(s), observed[s], end, dropped[s])
        /\ T(s) \in SUBSET Nat /\ (\A t \in T(s) : t > end)
        /\ \A n \in Nat : (\A t \in T(s) : n <= t /\ n > 0) => DueInv(s, k(s), end, n)
  <2> TAKE s \in Pair
  <2>1. SenderInv(s, sender[s], observed[s], lastEnd, dropped[s])
    BY DEF WatchdogInv
  <2>2. SenderInv(s, sender[s], observed[s], end, dropped[s])
    BY <2>1, LaterIs
  <2>3. /\ SenderInv(s, k(s), observed[s], end, dropped[s])
        /\ k(s).seen /\ k(s).obligationOpen /\ Horizon(s, k(s)) > 0 => end < k(s).obligationDue
        /\ Watchdog!Counts(s, k(s)) /\ end >= Span(s, k(s)) =>
             k(s).countOpen = Few(k(s).observations, Least(s, k(s)), end - Span(s, k(s)))
    BY <2>2, CheckIs
  <2> HIDE DEF k
  <2> QED BY <2>3, TimesIs, Zenon
<1>4. nextCheck' = IF U = {} THEN 0 ELSE Watchdog!Min(U)
  <2>1. {Watchdog!CheckTimes(s, [x \in Pair |-> Watchdog!Check(x, sender[x], end)][s], end) : s \in Pair}
          = {T(s) : s \in Pair}
    OBVIOUS
  <2> HIDE DEF T, k
  <2> QED BY <2>1, Zenon DEF Watchdog!CheckWatchdogs
<1> HIDE DEF k, T
<1>5. U \in SUBSET Nat /\ \A t \in U : t > end
  BY <1>3
<1>6. \A s \in Pair : T(s) \in SUBSET U
  OBVIOUS
<1> HIDE DEF U
<1>7. nextCheck' \in Nat /\ \A t \in U : nextCheck' <= t /\ nextCheck' > end
  BY <1>4, <1>5, MinIs
<1>8. nextCheck' > 0 => lastEnd' < nextCheck'
  <2>1. CASE U = {}
    BY <1>4, <2>1
  <2>2. CASE U # {}
    BY <1>7, <2>2
  <2> QED BY <2>1, <2>2
<1>9. \A s \in Pair : DueInv(s, sender'[s], lastEnd', nextCheck')
  <2> TAKE s \in Pair
  <2>1. \A t \in T(s) : nextCheck' <= t /\ nextCheck' > 0
    BY <1>6, <1>7
  <2> DEFINE n == nextCheck'
  <2>2. n \in Nat /\ \A t \in T(s) : n <= t /\ n > 0
    BY <1>7, <2>1
  <2> HIDE DEF n
  <2>3. DueInv(s, k(s), end, n)
    BY <1>3, <2>2
  <2> QED BY <1>2, <2>3, Zenon DEF n
<1>10. \A s \in Pair : SenderInv(s, sender'[s], observed'[s], lastEnd', dropped'[s])
  BY <1>2, <1>3
<1>11. sender' \in [Pair -> Sender]
  BY <1>1, <1>3 DEF SenderInv
<1> QED BY <1>1, <1>7, <1>8, <1>9, <1>10, <1>11 DEF WatchdogInv

LEMMA AdvanceWatched ==
  ASSUME WatchdogInv, Watchdog!Advance
  PROVE  WatchdogInv'
<1> DEFINE end == lastEnd + Block
<1>1. end \in Nat /\ end >= lastEnd
  BY WatchdogSizes DEF WatchdogInv
<1>2. lastEnd' = end /\ checked' = TRUE /\ UNCHANGED <<reanchorPending, observed, dropped, faults>>
  BY DEF Watchdog!Advance
<1>3. CASE dirty \/ (nextCheck > 0 /\ end >= nextCheck)
  <2>1. Watchdog!CheckWatchdogs(end)
    BY <1>3, Zenon DEF Watchdog!Advance
  <2> HIDE DEF end
  <2> QED BY <1>1, <1>2, <2>1, ChecksWatched
<1>4. CASE ~(dirty \/ (nextCheck > 0 /\ end >= nextCheck))
  <2>1. UNCHANGED <<sender, dirty, nextCheck>>
    BY <1>4, Zenon DEF Watchdog!Advance
  <2>2. ~dirty /\ (nextCheck > 0 => end < nextCheck) /\ nextCheck \in Nat
    BY <1>1, <1>4 DEF WatchdogInv
  <2> HIDE DEF end
  <2>3. ASSUME NEW s \in Pair
        PROVE  /\ SenderInv(s, sender[s], observed[s], end, dropped[s])
               /\ DueInv(s, sender[s], end, nextCheck)
    <3>1. SenderInv(s, sender[s], observed[s], lastEnd, dropped[s]) /\ DueInv(s, sender[s], lastEnd, nextCheck)
      BY <2>2 DEF WatchdogInv
    <3>2. SenderInv(s, sender[s], observed[s], end, dropped[s])
      BY <1>1, <3>1, LaterIs
    <3>3. DueInv(s, sender[s], end, nextCheck)
      BY <1>1, <2>2, <3>1, NotDueIs
    <3> QED BY <3>2, <3>3
  <2> QED BY <1>1, <1>2, <2>1, <2>2, <2>3 DEF WatchdogInv
<1> QED BY <1>3, <1>4

LEMMA DiscontinuityWatched ==
  ASSUME WatchdogInv, Watchdog!Discontinuity
  PROVE  WatchdogInv'
<1> DEFINE f(s) == [Watchdog!Fresh EXCEPT !.total = sender[s].total, !.opened = sender[s].opened,
                                      !.closed = sender[s].closed, !.deficits = sender[s].deficits]
           x(s) == IF sender[s].obligationOpen THEN dropped[s] + 1 ELSE dropped[s]
           e == lastEnd + 2 * Block
<1>1. e \in Nat
  BY WatchdogSizes DEF WatchdogInv
<1>2. /\ sender' = [s \in Pair |-> f(s)] /\ dropped' = [s \in Pair |-> x(s)]
      /\ observed' = [s \in Pair |-> {}] /\ lastEnd' = e /\ dirty' = TRUE /\ nextCheck' = 0
      /\ checked' = TRUE /\ faults' = faults + 1 /\ reanchorPending' = reanchorPending
  BY DEF Watchdog!Discontinuity
<1> HIDE DEF e
<1>3. ASSUME NEW s \in Pair PROVE SenderInv(s, f(s), {}, e, x(s)) /\ ~f(s).seen /\ x(s) \in Nat
  <2> DEFINE r == sender[s]
             y == dropped[s]
             g == f(s)
             d == x(s)
  <2>1. r \in Sender /\ y \in Nat /\ LedgerInv(r, y)
    BY DEF WatchdogInv, SenderInv
  <2>2. /\ d = IF r.obligationOpen THEN y + 1 ELSE y
        /\ g = [Watchdog!Fresh EXCEPT !.total = r.total, !.opened = r.opened,
                                  !.closed = r.closed, !.deficits = r.deficits]
    OBVIOUS
  <2> HIDE DEF r, y, g, d
  <2>3. SenderInv(s, g, {}, e, d) /\ ~g.seen /\ d \in Nat
    BY <1>1, <2>1, <2>2, FreshIs
  <2> QED BY <2>3 DEF g, d
<1> HIDE DEF f, x
<1>4. \A s \in Pair : f(s) \in Sender
  BY <1>3 DEF SenderInv
<1> QED BY <1>1, <1>2, <1>3, <1>4 DEF WatchdogInv

LEMMA ResumeWatched ==
  ASSUME WatchdogInv, Watchdog!Resume
  PROVE  WatchdogInv'
<1> DEFINE f(s) == [sender[s] EXCEPT !.countStart = 0]
<1>1. /\ sender' = [s \in Pair |-> f(s)] /\ dirty' = TRUE /\ nextCheck' = 0 /\ checked' = FALSE
      /\ faults' = faults + 1 /\ reanchorPending' = {s \in Pair : sender[s].seen}
      /\ lastEnd' = lastEnd /\ observed' = observed /\ dropped' = dropped
  BY DEF Watchdog!Resume
<1>2. ASSUME NEW s \in Pair PROVE SenderInv(s, f(s), observed[s], lastEnd, dropped[s])
  <2> DEFINE r == sender[s]
             g == f(s)
  <2>1. r \in Sender /\ SenderInv(s, r, observed[s], lastEnd, dropped[s]) /\ Len(r.observations) \in Nat
    BY DEF WatchdogInv, SenderInv, Sender
  <2>2. g = [r EXCEPT !.countStart = 0]
    OBVIOUS
  <2> HIDE DEF r, g
  <2>3. /\ g \in Sender /\ SameLearning(r, g) /\ SameObligation(r, g) /\ SameArrivals(r, g)
        /\ g.observations = r.observations /\ g.countStart = 0
    BY <2>1, <2>2 DEF Sender, SameLearning, SameObligation, SameArrivals
  <2>4. Span(s, g) = Span(s, r) /\ Horizon(s, g) = Horizon(s, r)
    BY <2>3, SameEffective DEF SameLearning
  <2>5. KeptInv(s, g, observed[s], lastEnd)
    <3>1. 1 .. 0 = {} /\ 0 <= Len(r.observations)
      BY <2>1
    <3> QED BY <2>1, <2>3, <2>4, <3>1 DEF SenderInv, KeptInv, SameArrivals
  <2>6. LearntInv(g) /\ SeenInv(g, lastEnd)
    BY <2>1, <2>3 DEF SenderInv, LearntInv, SeenInv, SameLearning, SameArrivals
  <2>7. OwesInv(s, g)
    BY <2>1, <2>3, <2>4 DEF SenderInv, OwesInv, SameObligation, SameArrivals
  <2>8. LedgerInv(g, dropped[s])
    BY <2>1, <2>3 DEF SenderInv, LedgerInv, SameObligation
  <2>9. SenderInv(s, g, observed[s], lastEnd, dropped[s])
    BY <2>1, <2>3, <2>5, <2>6, <2>7, <2>8 DEF SenderInv
  <2> QED BY <2>9 DEF g
<1> HIDE DEF f
<1>3. \A s \in Pair : f(s) \in Sender
  BY <1>2 DEF SenderInv
<1>4. \A s \in Pair : SenderInv(s, sender'[s], observed'[s], lastEnd', dropped'[s])
  BY <1>1, <1>2
<1>5. sender' \in [Pair -> Sender] /\ reanchorPending' \in SUBSET Pair
  BY <1>1, <1>3
<1>6. /\ dirty' = TRUE /\ dirty' \in BOOLEAN /\ checked' \in BOOLEAN /\ ~checked' /\ nextCheck' \in Nat
      /\ faults' \in Nat /\ lastEnd' \in Nat /\ observed' \in [Pair -> SUBSET Nat] /\ dropped' \in [Pair -> Nat]
  <2>1. faults' \in Nat /\ lastEnd' \in Nat /\ observed' \in [Pair -> SUBSET Nat] /\ dropped' \in [Pair -> Nat]
    BY DEF WatchdogInv, Watchdog!Resume
  <2>2. dirty' = TRUE /\ checked' = FALSE /\ nextCheck' = 0
    BY <1>1
  <2> QED BY <2>1, <2>2
<1> QED BY <1>4, <1>5, <1>6, Zenon DEF WatchdogInv


(* The watchdogs keep WatchdogInv over arrivals on time and late, blocks with   *)
(* and without a check, discontinuities and restarts.                      *)
THEOREM WatchdogInvariant == Spec => []WatchdogInv
<1>1. Init => WatchdogInv
  BY WatchdogInit DEF Init
<1>2. WatchdogInv /\ [Next]_vars => WatchdogInv'
  <2> SUFFICES ASSUME WatchdogInv, [Next]_vars PROVE WatchdogInv'
    OBVIOUS
  <2>1. CASE Watchdog!Next
    <3>1. ASSUME NEW s \in Pair, NEW at \in {lastEnd, lastEnd - Block}, Watchdog!Observe(s, at)
          PROVE  WatchdogInv'
      BY <3>1, ObserveWatched
    <3>2. CASE Watchdog!Advance
      BY <3>2, AdvanceWatched
    <3>3. CASE Watchdog!Discontinuity
      BY <3>3, DiscontinuityWatched
    <3>4. CASE Watchdog!Resume
      BY <3>4, ResumeWatched
    <3> QED BY <2>1, <3>1, <3>2, <3>3, <3>4 DEF Watchdog!Next
  <2>2. CASE UNCHANGED watchdogVars
    BY <2>2 DEF WatchdogInv, watchdogVars
  <2>3. Watchdog!Next \/ UNCHANGED watchdogVars
    BY DEF Next, vars, watchdogVars
  <2> QED BY <2>1, <2>2, <2>3
<1> QED BY <1>1, <1>2, PTL DEF Spec

\* The count of arrivals in the window, in the arrivals themselves.
LEMMA CountedIs ==
  ASSUME NEW s \in Pair, NEW r, NEW A, NEW e, NEW d, SenderInv(s, r, A, e, d),
         Watchdog!Counts(s, r)
  PROVE  (Cardinality({t \in A : t >= e - Span(s, r)}) < Least(s, r))
           <=> Few(r.observations, Least(s, r), e - Span(s, r))
<1> DEFINE q == r.observations
           w == Span(s, r)
           m == Least(s, r)
           b == e - w
           c == Cardinality({i \in DOMAIN q : q[i] < b})
<1>1. r \in Sender /\ q \in Seq(Nat) /\ w \in Nat /\ m \in Nat /\ e \in Nat /\ A \in SUBSET Nat /\ Rising(q)
  BY EffectiveIs DEF SenderInv, KeptInv, Sender
<1>2. m > 0
  BY DEF Watchdog!Counts, Least
<1>3. b \in Int
  BY <1>1
<1>4. (\A i \in 1 .. Len(q) : q[i] \in A) /\ \A t \in A : t < b \/ \E i \in 1 .. Len(q) : q[i] = t
  BY DEF SenderInv, KeptInv
<1> HIDE DEF q, w, m, b
<1>5. Cardinality({t \in A : t >= b}) = Len(q) - c
  BY <1>1, <1>3, <1>4, AboveIs
<1>6. Len(q) - c < m <=> Few(q, m, b)
  BY <1>1, <1>2, <1>3, FewIs, Zenon
<1> HIDE DEF c
<1>7. Cardinality({t \in A : t >= b}) < m <=> Few(q, m, b)
  BY <1>5, <1>6, Zenon
<1> QED BY <1>7, Zenon DEF q, w, m, b

(* Watchdogs checked only when dirty or due find every silence and every   *)
(* deficit of the rolling count at the block a check at each block would,  *)
(* every obligation is accounted for, and the state that is exported is    *)
(* accepted at the next start, for every configuration of the watchdogs.   *)
THEOREM WatchdogExactThm == Spec => []WatchdogExact
<1>1. WatchdogInv => WatchdogExact
  <2> SUFFICES ASSUME WatchdogInv PROVE WatchdogExact
    OBVIOUS
  <2>1. ASSUME NEW s \in Pair
        PROVE  /\ SenderInv(s, sender[s], observed[s], lastEnd, dropped[s])
               /\ sender[s] \in Sender /\ sender[s].observations \in Seq(Nat)
               /\ sender[s].lastSeen \in Nat /\ sender[s].opened \in Nat /\ sender[s].closed \in Nat
               /\ sender[s].deficits \in Nat /\ dropped[s] \in Nat /\ sender[s].countStart \in Nat
               /\ lastEnd \in Nat /\ sender[s].gaps \in Seq(Nat)
    BY DEF WatchdogInv, SenderInv, Sender
  <2>2. Watchdog!TypeOK
    <3>1. ASSUME NEW s \in Pair
          PROVE  /\ DOMAIN sender[s] = DOMAIN Watchdog!Fresh
                 /\ sender[s].countStart \in 0 .. Len(sender[s].observations)
                 /\ sender[s].learned => sender[s].learnedOverdue > 0 /\ sender[s].learnedMinimum > 0
      <4>1. sender[s].countStart \in 0 .. Len(sender[s].observations)
        BY <2>1 DEF SenderInv, KeptInv
      <4>2. sender[s].learned => sender[s].learnedOverdue > 0 /\ sender[s].learnedMinimum > 0
        BY <2>1 DEF SenderInv, LearntInv
      <4>3. DOMAIN sender[s] = DOMAIN Watchdog!Fresh
        BY <2>1 DEF Sender, Watchdog!Fresh
      <4> QED BY <4>1, <4>2, <4>3
    <3>2. {dirty, checked} \subseteq BOOLEAN /\ reanchorPending \subseteq Pair /\ lastEnd \in Nat /\ nextCheck \in Nat
      BY DEF WatchdogInv
    <3> QED BY <3>1, <3>2 DEF Watchdog!TypeOK
  <2>3. Watchdog!SilenceFound
    <3> SUFFICES ASSUME checked, NEW s \in Pair, sender[s].seen, Horizon(s, sender[s]) > 0,
                        lastEnd >= sender[s].lastSeen + Horizon(s, sender[s])
                 PROVE  sender[s].overdueOpen
      BY DEF Watchdog!SilenceFound, Horizon
    <3> DEFINE r == sender[s]
               h == Horizon(s, r)
    <3>1. ~dirty
      BY DEF WatchdogInv
    <3>2. r.overdueOpen \/ (r.obligationOpen /\ r.obligationDue = r.lastSeen + h)
      BY <2>1 DEF SenderInv, OwesInv
    <3>3. (nextCheck > 0 => lastEnd < nextCheck) /\ DueInv(s, r, lastEnd, nextCheck) /\ nextCheck \in Nat
      BY <3>1 DEF WatchdogInv
    <3>4. r.obligationOpen => nextCheck > 0 /\ nextCheck <= r.obligationDue
      BY <3>3 DEF DueInv
    <3>5. h \in Nat /\ r.lastSeen \in Nat /\ lastEnd \in Nat
      BY <2>1, EffectiveIs
    <3> HIDE DEF h, r
    <3>6. r.overdueOpen
      BY <3>2, <3>3, <3>4, <3>5 DEF h, r
    <3> QED BY <3>6 DEF r
  <2>4. Watchdog!CountExact
    <3> SUFFICES ASSUME checked, NEW s \in Pair, Watchdog!Counts(s, sender[s]), lastEnd >= Span(s, sender[s])
                 PROVE  sender[s].countOpen
                          = (Watchdog!Cardinality({t \in observed[s] : t >= lastEnd - Span(s, sender[s])})
                               < Least(s, sender[s]))
      BY DEF Watchdog!CountExact, Span, Least
    <3> DEFINE r == sender[s]
               few == Few(r.observations, Least(s, r), lastEnd - Span(s, r))
               n == Cardinality({t \in observed[s] : t >= lastEnd - Span(s, r)})
    <3>1. r.seen
      BY DEF Watchdog!Counts
    <3>2. ~dirty
      BY <3>1 DEF WatchdogInv
    <3>3. r.countOpen = few
      BY <3>2 DEF WatchdogInv, DueInv
    <3>4. (n < Least(s, r)) <=> few
      BY <2>1, CountedIs, Zenon
    <3>5. few \in BOOLEAN
      BY DEF Few
    <3>6. Watchdog!Cardinality({t \in observed[s] : t >= lastEnd - Span(s, r)}) = n
      BY SameCardinality, Zenon
    <3> HIDE DEF few, n
    <3>7. few = (n < Least(s, r))
      BY <3>4, <3>5
    <3> QED BY <3>3, <3>6, <3>7, Zenon
  <2>5. Watchdog!Ledger
    BY <2>1 DEF Watchdog!Ledger, SenderInv, LedgerInv
  <2>6. Watchdog!ExportAccepted
    <3> SUFFICES ASSUME NEW s \in Pair
                 PROVE  LET r == sender[s]
                        IN  /\ Watchdog!Increasing(r.observations)
                            /\ \A i \in DOMAIN r.observations : r.observations[i] \in 0 .. lastEnd
                            /\ r.seen => r.lastSeen <= lastEnd
                            /\ ~r.seen => r.lastSeen = 0
                            /\ r.total >= Len(r.observations)
                            /\ \A i \in DOMAIN r.gaps : r.gaps[i] > 0
                            /\ Len(r.gaps) <= History
                            /\ r.closed <= r.opened /\ r.deficits <= r.opened
      BY Zenon DEF Watchdog!ExportAccepted
    <3> DEFINE r == sender[s]
               q == r.observations
    <3>1. Watchdog!Increasing(q)
      <4>1. Rising(q) /\ q \in Seq(Nat)
        BY <2>1 DEF SenderInv, KeptInv
      <4>2. \A i \in 1 .. Len(q) - 1 : i \in 1 .. Len(q) /\ i + 1 \in 1 .. Len(q) /\ i < i + 1
        BY <4>1
      <4> HIDE DEF q
      <4> QED BY <4>1, <4>2 DEF Rising, Watchdog!Increasing
    <3>2. \A i \in DOMAIN q : q[i] \in 0 .. lastEnd
      <4>1. r.lastSeen <= lastEnd /\ \A i \in 1 .. Len(q) : q[i] <= r.lastSeen /\ q[i] \in Nat
        BY <2>1 DEF SenderInv, KeptInv, SeenInv
      <4>2. q \in Seq(Nat) /\ r.lastSeen \in Nat /\ lastEnd \in Nat
        BY <2>1
      <4> HIDE DEF q, r
      <4>3. DOMAIN q = 1 .. Len(q)
        BY <4>2
      <4> QED BY <4>1, <4>2, <4>3
    <3>3. r.lastSeen <= lastEnd /\ (~r.seen => r.lastSeen = 0) /\ r.total >= Len(q)
      BY <2>1 DEF SenderInv, SeenInv
    <3>4. (\A i \in DOMAIN r.gaps : r.gaps[i] > 0) /\ Len(r.gaps) <= History
      BY <2>1 DEF SenderInv, LearntInv
    <3>5. r.closed <= r.opened /\ r.deficits <= r.opened
      <4>1. r.opened = r.closed + r.deficits + dropped[s] + (IF r.obligationOpen THEN 1 ELSE 0)
        BY <2>1 DEF SenderInv, LedgerInv
      <4> QED BY <2>1, <4>1
    <3> QED BY <3>1, <3>2, <3>3, <3>4, <3>5
  <2> QED BY <2>2, <2>3, <2>4, <2>5, <2>6 DEF WatchdogExact, Watchdog!WatchdogExact
<1> QED BY <1>1, WatchdogInvariant, PTL
-----------------------------------------------------------------------------
(* The cadence                                                             *)

LEMMA CadenceSizes ==
  /\ Intervals \subseteq Nat \ {0} /\ Floor \in Nat \ {0} /\ JitterMargin \in Nat
  /\ WarmupIntervals \in Nat /\ MinHistoryLimit \in Nat /\ HistoryLimit \in Nat
  /\ 2 <= WarmupIntervals /\ WarmupIntervals <= MinHistoryLimit /\ MinHistoryLimit <= HistoryLimit
  /\ HistoryGrowAfter \in Nat \ {0} /\ Ladder \in Seq(Nat) /\ ChangePointScale \in Nat \ {0}
  /\ Step \in Nat /\ Step >= 2 /\ MaxWakeScale \in Nat /\ MaxWakeScale >= Step
  /\ JitterQuantile \in 1 .. 100 /\ Unit \in Nat \ {0}
  BY ModelsAssumption DEF ModelsAssumption, Model!CadenceAssumption

LEMMA Counted == \A S : Model!Cardinality(S) = Cardinality(S)
  BY DEF Model!Cardinality, Cardinality

LEMMA LeastIs ==
  ASSUME NEW T \in SUBSET Nat, T # {}
  PROVE  Model!Min(T) \in T /\ \A y \in T : Model!Min(T) <= y
  BY FirstOf DEF Model!Min

LEMMA LesserIs ==
  ASSUME NEW a \in Nat, NEW b \in Nat
  PROVE  Model!Min({a, b}) = IF a <= b THEN a ELSE b
<1> DEFINE m == IF a <= b THEN a ELSE b
<1>1. m \in {a, b} /\ \A y \in {a, b} : m <= y
  OBVIOUS
<1>2. \A x \in {a, b} : (\A y \in {a, b} : x <= y) => x = m
  OBVIOUS
<1> QED BY <1>1, <1>2 DEF Model!Min

LEMMA GreaterIs ==
  ASSUME NEW a \in Nat, NEW b \in Nat
  PROVE  Model!Max({a, b}) = IF a >= b THEN a ELSE b
<1> DEFINE m == IF a >= b THEN a ELSE b
<1>1. m \in {a, b} /\ \A y \in {a, b} : m >= y
  OBVIOUS
<1>2. \A x \in {a, b} : (\A y \in {a, b} : x >= y) => x = m
  OBVIOUS
<1> QED BY <1>1, <1>2 DEF Model!Max

LEMMA Divided ==
  ASSUME NEW a \in Nat, NEW d \in Nat \ {0}
  PROVE  /\ a \div d \in Nat /\ a % d \in 0 .. (d - 1)
         /\ a = d * (a \div d) + (a % d)
  OBVIOUS

LEMMA ProductOrder ==
  ASSUME NEW d \in Nat, NEW p \in Nat, NEW q \in Nat, p <= q
  PROVE  d * p \in Nat /\ d * q \in Nat /\ d * p <= d * q /\ d * q = q * d /\ d * p = p * d
<1> DEFINE g == q - p
<1>1. g \in Nat /\ q = p + g
  OBVIOUS
<1> HIDE DEF g
<1>2. d * q = d * p + d * g /\ d * g \in Nat /\ d * p \in Nat
  BY <1>1
<1> QED BY <1>2

\* A quotient is at least q if d * q fits, and only then.
LEMMA QuotientAtLeast ==
  ASSUME NEW a \in Nat, NEW d \in Nat \ {0}, NEW q \in Nat
  PROVE  d * q <= a <=> q <= a \div d
<1> DEFINE k == a \div d
           r == a % d
<1>1. k \in Nat /\ r \in 0 .. (d - 1) /\ a = d * k + r
  BY Divided
<1> HIDE DEF k, r
<1>2. ASSUME q <= k PROVE d * q <= a
  <2>1. d * q \in Nat /\ d * k \in Nat /\ d * q <= d * k
    BY <1>1, <1>2, ProductOrder
  <2> QED BY <1>1, <2>1
<1>3. ASSUME ~(q <= k) PROVE ~(d * q <= a)
  <2>1. k + 1 \in Nat /\ k + 1 <= q
    BY <1>1, <1>3
  <2>2. d * q \in Nat /\ d * (k + 1) \in Nat /\ d * (k + 1) <= d * q
    BY <2>1, ProductOrder
  <2>3. d * (k + 1) = d * k + d /\ d * k \in Nat
    BY <1>1
  <2> QED BY <1>1, <2>2, <2>3
<1> QED BY <1>2, <1>3 DEF k

(* Ranks and medians of collections of durations.                          *)
LEMMA Descent ==
  ASSUME NEW S, 0 \in S, \A k \in Nat : k \in S => k + 1 \in S
  PROVE  Nat \subseteq S
<1> SUFFICES ASSUME Nat \ S # {} PROVE FALSE
  OBVIOUS
<1>1. PICK x \in Nat \ S : \A y \in Nat \ S : x <= y
  BY FirstOf
<1>2. x # 0 /\ x - 1 \in Nat
  OBVIOUS
<1>3. x - 1 \in S
  BY <1>1, <1>2
<1>4. (x - 1) + 1 \in S
  BY <1>2, <1>3
<1> QED BY <1>2, <1>4

Durations(S) == S \in SUBSET (Nat \X Nat) /\ IsFiniteSet(S) /\ S # {}

LEMMA LongestIn ==
  ASSUME NEW S, Durations(S)
  PROVE  \E z \in S : \A y \in S : y[2] <= z[2]
<1> DEFINE A == {k \in Nat : \A T \in SUBSET S : Cardinality(T) = k + 1 =>
                               \E z \in T : \A y \in T : y[2] <= z[2]}
<1>0. \A x \in S : x[2] \in Nat
  BY DEF Durations
<1>1. 0 \in A
  <2> SUFFICES ASSUME NEW T \in SUBSET S, Cardinality(T) = 1
               PROVE  \E z \in T : \A y \in T : y[2] <= z[2]
    OBVIOUS
  <2>1. PICK x : T = {x}
    BY FS_Subset, FS_Singleton DEF Durations
  <2> QED BY <1>0, <2>1
<1>2. ASSUME NEW k \in Nat, k \in A PROVE k + 1 \in A
  <2> SUFFICES ASSUME NEW T \in SUBSET S, Cardinality(T) = (k + 1) + 1
               PROVE  \E z \in T : \A y \in T : y[2] <= z[2]
    OBVIOUS
  <2>1. IsFiniteSet(T) /\ T # {}
    BY FS_Subset, FS_EmptySet DEF Durations
  <2>2. PICK x \in T : TRUE
    BY <2>1
  <2>3. T \ {x} \in SUBSET S /\ Cardinality(T \ {x}) = k + 1
    BY <2>1, <2>2, FS_RemoveElement
  <2>4. PICK z \in T \ {x} : \A y \in T \ {x} : y[2] <= z[2]
    BY <1>2, <2>3
  <2>5. x[2] \in Nat /\ z[2] \in Nat /\ \A y \in T : y[2] \in Nat
    BY <1>0
  <2>6. CASE x[2] <= z[2]
    BY <2>4, <2>6
  <2>7. CASE ~(x[2] <= z[2])
    BY <2>4, <2>5, <2>7
  <2> QED BY <2>6, <2>7
<1> HIDE DEF A
<1>3. Cardinality(S) \in Nat /\ Cardinality(S) # 0
  BY FS_CardinalityType, FS_EmptySet DEF Durations
<1>4. Cardinality(S) - 1 \in Nat
  BY <1>3
<1>5. Cardinality(S) - 1 \in A
  BY <1>1, <1>2, <1>4, Descent
<1> QED BY <1>3, <1>5 DEF A

LEMMA RankedIs ==
  ASSUME NEW S, Durations(S), NEW n \in Nat, n <= Cardinality(S)
  PROVE  /\ \E x \in S : Model!Ranked(S, n) = x[2]
         /\ n = Cardinality(S) => \A y \in S : y[2] <= Model!Ranked(S, n)
         /\ \A m \in Nat : n <= m /\ m <= Cardinality(S) => Model!Ranked(S, n) <= Model!Ranked(S, m)
         /\ Cardinality({y \in S : y[2] <= Model!Ranked(S, n)}) >= n
<1> DEFINE Upto(x) == {y \in S : y[2] <= x[2]}
           T(m) == {x[2] : x \in {x \in S : Cardinality(Upto(x)) >= m}}
<1>0. \A x \in S : x[2] \in Nat
  BY DEF Durations
<1>1. \A m : Model!Ranked(S, m) = Model!Min(T(m))
  BY Counted, Zenon DEF Model!Ranked
<1>2. PICK z \in S : \A y \in S : y[2] <= z[2]
  BY LongestIn
<1>3. Upto(z) = S
  BY <1>2
<1>4. Cardinality(S) \in Nat /\ \A x \in S : Cardinality(Upto(x)) \in Nat /\ Cardinality(Upto(x)) <= Cardinality(S)
                                             /\ (Cardinality(S) = Cardinality(Upto(x)) => S = Upto(x))
  <2>1. \A x \in S : Upto(x) \in SUBSET S
    OBVIOUS
  <2> HIDE DEF Upto
  <2> QED BY <2>1, FS_CardinalityType, FS_Subset DEF Durations
<1>5. ASSUME NEW m \in Nat, m <= Cardinality(S)
      PROVE  T(m) \in SUBSET Nat /\ T(m) # {}
  <2>1. z[2] \in T(m)
    BY <1>3, <1>4, <1>5
  <2> QED BY <1>0, <2>1
<1>6. ASSUME NEW m \in Nat, m <= Cardinality(S)
      PROVE  /\ Model!Ranked(S, m) \in T(m) /\ \A y \in T(m) : Model!Ranked(S, m) <= y
  BY <1>1, <1>5, <1>6, LeastIs
<1>7. PICK x \in S : Model!Ranked(S, n) = x[2] /\ Cardinality(Upto(x)) >= n
  BY <1>6
<1>8. n = Cardinality(S) => \A y \in S : y[2] <= x[2]
  <2> SUFFICES ASSUME n = Cardinality(S) PROVE \A y \in S : y[2] <= x[2]
    OBVIOUS
  <2>1. Cardinality(S) = Cardinality(Upto(x))
    BY <1>4, <1>7
  <2>2. S = Upto(x)
    BY <1>4, <2>1
  <2> QED BY <2>2
<1>9. ASSUME NEW m \in Nat, n <= m, m <= Cardinality(S) PROVE Model!Ranked(S, n) <= Model!Ranked(S, m)
  <2>1. T(m) \subseteq T(n)
    <3> SUFFICES ASSUME NEW w \in T(m) PROVE w \in T(n)
      OBVIOUS
    <3> HIDE DEF Upto
    <3>1. PICK y \in S : w = y[2] /\ Cardinality(Upto(y)) >= m
      OBVIOUS
    <3>2. Cardinality(Upto(y)) >= n
      BY <1>4, <1>9, <3>1
    <3> QED BY <3>1, <3>2
  <2> QED BY <1>6, <1>9, <2>1
<1> QED BY <1>7, <1>8, <1>9

LEMMA MedianIs ==
  ASSUME NEW S, Durations(S)
  PROVE  Model!Median(S) \in Nat /\ \E x \in S, z \in S : x[2] <= Model!Median(S) /\ Model!Median(S) <= z[2]
<1> DEFINE c == Cardinality(S)
           h == c \div 2
<1>0. \A x \in S : x[2] \in Nat
  BY DEF Durations
<1>1. c \in Nat /\ c > 0
  BY FS_CardinalityType, FS_EmptySet DEF Durations
<1>2. Model!Median(S) = IF c % 2 = 0 THEN (Model!Ranked(S, h) + Model!Ranked(S, h + 1)) \div 2
                        ELSE Model!Ranked(S, h + 1)
  BY Counted, Zenon DEF Model!Median
<1> HIDE DEF c
<1>3. h \in Nat /\ h + 1 \in Nat /\ h + 1 <= c
  BY <1>1
<1> HIDE DEF h
<1>4. PICK a \in S : Model!Ranked(S, h) = a[2]
  <2>1. h \in Nat /\ h <= Cardinality(S)
    BY <1>1, <1>3 DEF c
  <2> QED BY <2>1, RankedIs
<1>5. PICK b \in S : Model!Ranked(S, h + 1) = b[2]
  BY <1>3, RankedIs DEF c
<1>6. a[2] <= b[2]
  <2>1. h <= c /\ h <= h + 1
    BY <1>1, <1>3
  <2> QED BY <1>3, <1>4, <1>5, <2>1, RankedIs DEF c
<1>7. a[2] \in Nat /\ b[2] \in Nat
  BY <1>0
<1>8. (a[2] + b[2]) \div 2 \in Nat /\ a[2] <= (a[2] + b[2]) \div 2 /\ (a[2] + b[2]) \div 2 <= b[2]
  BY <1>6, <1>7
<1> QED BY <1>2, <1>4, <1>5, <1>7, <1>8

(* robustPeriod                                                            *)
LEMMA MultipleIs ==
  ASSUME NEW a \in Nat, NEW b \in Nat \ {0}
  PROVE  LET j == (2 * a + b) \div (2 * b)
         IN  j \in Nat /\ Model!Multiple(a, b) = (IF j >= 1 THEN j ELSE 1)
<1> DEFINE j == (2 * a + b) \div (2 * b)
<1>1. 2 * a + b \in Nat /\ 2 * b \in Nat \ {0}
  OBVIOUS
<1>2. j \in Nat
  BY <1>1, Divided
<1>3. Model!Multiple(a, b) = Model!Max({1, j})
  BY DEF Model!Multiple
<1> HIDE DEF j
<1>4. Model!Max({1, j}) = IF 1 >= j THEN 1 ELSE j
  BY <1>2, GreaterIs
<1> QED BY <1>2, <1>3, <1>4 DEF j

LEMMA MultipleBounds ==
  ASSUME NEW a \in Nat \ {0}, NEW b \in Nat \ {0}
  PROVE  /\ Model!Multiple(a, b) \in Nat \ {0} /\ Model!Multiple(a, b) <= a
         /\ a \div Model!Multiple(a, b) \in Nat \ {0}
<1> DEFINE j == (2 * a + b) \div (2 * b)
           k == Model!Multiple(a, b)
<1>1. j \in Nat /\ k = IF j >= 1 THEN j ELSE 1
  BY MultipleIs
<1>2. j <= a
  <2>1. ~((2 * b) * (a + 1) <= 2 * a + b)
    <3>1. (2 * b) * (a + 1) = 2 * (a * b) + 2 * b /\ a * b \in Nat /\ a * 1 <= a * b
      <4>1. a * 1 <= a * b /\ a * b \in Nat
        BY ProductOrder
      <4> QED BY <4>1
    <3> QED BY <3>1
  <2>2. 2 * a + b \in Nat /\ 2 * b \in Nat \ {0} /\ a + 1 \in Nat
    OBVIOUS
  <2>3. ~(a + 1 <= j)
    BY <2>1, <2>2, QuotientAtLeast
  <2> QED BY <1>1, <2>3
<1> HIDE DEF j, k
<1>3. k \in Nat \ {0} /\ k <= a
  BY <1>1, <1>2
<1>4. k * 1 <= a /\ 1 \in Nat
  BY <1>3
<1>5. 1 <= a \div k /\ a \div k \in Nat
  BY <1>3, <1>4, QuotientAtLeast, Divided
<1> QED BY <1>3, <1>5 DEF k

LEMMA MultipleExact ==
  ASSUME NEW a \in Nat \ {0}, NEW b \in Nat \ {0}, NEW m \in Nat, a = b * m
  PROVE  a \div Model!Multiple(a, b) = b
<1> DEFINE j == (2 * a + b) \div (2 * b)
<1>1. j \in Nat /\ Model!Multiple(a, b) = IF j >= 1 THEN j ELSE 1
  BY MultipleIs
<1>2. 2 * a + b \in Nat /\ 2 * b \in Nat \ {0} /\ m + 1 \in Nat /\ b * m \in Nat
  OBVIOUS
<1>3. (2 * b) * m <= 2 * a + b /\ ~((2 * b) * (m + 1) <= 2 * a + b)
  <2>1. (2 * b) * m = 2 * (b * m) /\ (2 * b) * (m + 1) = 2 * (b * m) + 2 * b
    OBVIOUS
  <2> QED BY <1>2, <2>1
<1>4. m <= j /\ ~(m + 1 <= j)
  BY <1>2, <1>3, QuotientAtLeast
<1> HIDE DEF j
<1>5. j = m /\ m >= 1
  <2>1. m # 0
    OBVIOUS
  <2> QED BY <1>1, <1>4, <2>1
<1>6. Model!Multiple(a, b) = m
  BY <1>1, <1>5
<1>7. m * b <= a /\ ~(m * (b + 1) <= a) /\ m \in Nat \ {0} /\ b + 1 \in Nat
  <2>1. m * b = b * m /\ m * (b + 1) = b * m + m
    OBVIOUS
  <2> QED BY <1>2, <1>5, <2>1
<1>8. b <= a \div m /\ ~(b + 1 <= a \div m) /\ a \div m \in Nat
  BY <1>7, QuotientAtLeast, Divided
<1> QED BY <1>6, <1>8

LEMMA AbsIs == \A x \in Int : Model!Abs(x) \in Nat /\ (Model!Abs(x) = 0 <=> x = 0)
  BY DEF Model!Abs

\* Durations computed from those of a collection.
LEMMA Computed ==
  ASSUME NEW S, Durations(S), NEW f, \A x \in S : f[x] \in Nat
  PROVE  Durations({<<x[1], f[x]>> : x \in S})
<1> DEFINE T == {<<x[1], f[x]>> : x \in S}
           g == [x \in S |-> <<x[1], f[x]>>]
<1>1. \A x \in S : x[1] \in Nat
  BY DEF Durations
<1>2. T \in SUBSET (Nat \X Nat) /\ T # {}
  <2>1. \A x \in S : <<x[1], f[x]>> \in Nat \X Nat
    BY <1>1
  <2>2. PICK x : x \in S
    BY DEF Durations
  <2>3. <<x[1], f[x]>> \in T
    BY <2>2
  <2> QED BY <2>1, <2>3
<1>3. g \in Surjection(S, T)
  BY DEF Surjection
<1>4. IsFiniteSet(T)
  <2> HIDE DEF T, g
  <2> QED BY <1>3, FS_Surjection DEF Durations
<1> QED BY <1>2, <1>4 DEF Durations

LEMMA RefineIs ==
  ASSUME NEW S, Durations(S), \A x \in S : x[2] > 0, NEW p \in Nat \ {0}
  PROVE  /\ Model!Refine(S, p) \in Nat \ {0}
         /\ (\A x \in S : \E m \in Nat : x[2] = p * m) => Model!Refine(S, p) = p
<1> DEFINE
      f == [x \in S |-> x[2] \div Model!Multiple(x[2], p)]
      N == {<<x[1], x[2] \div Model!Multiple(x[2], p)>> : x \in S}
      c == Model!Median(N)
      d == [x \in N |-> Model!Abs(x[2] - c)]
      D == {<<x[1], Model!Abs(x[2] - c)>> : x \in N}
      mad == Model!Median(D)
      R == {x \in N : mad = 0 \/ Model!Abs(x[2] - c) <= 4 * mad}
<1>0. \A x \in S : x[2] \in Nat \ {0}
  BY DEF Durations
<1>1. \A x \in S : f[x] \in Nat \ {0}
  BY <1>0, MultipleBounds
<1>2. N = {<<x[1], f[x]>> : x \in S}
  OBVIOUS
<1>3. Durations(N)
  <2> HIDE DEF f, N
  <2> QED BY <1>1, <1>2, Computed
<1>4. \A x \in N : x[2] \in Nat \ {0}
  BY <1>1
<1>5. c \in Nat
  BY <1>3, MedianIs
<1>6. Durations(D)
  <2>1. \A x \in N : d[x] \in Nat
    <3> HIDE DEF N, c
    <3>1. \A x \in N : x[2] - c \in Int
      BY <1>4, <1>5
    <3> QED BY <3>1, AbsIs
  <2>2. D = {<<x[1], d[x]>> : x \in N}
    OBVIOUS
  <2> HIDE DEF N, D, d
  <2> QED BY <1>3, <2>1, <2>2, Computed
<1>7. mad \in Nat /\ \E y \in D : y[2] <= mad
  BY <1>6, MedianIs
<1>8. R # {}
  <2>1. PICK x \in N : Model!Abs(x[2] - c) <= mad
    <3>1. PICK y \in D : y[2] <= mad
      BY <1>7
    <3> HIDE DEF N, mad, c
    <3> QED BY <3>1
  <2>2. Model!Abs(x[2] - c) \in Nat
    <3> HIDE DEF N, c
    <3>1. x[2] - c \in Int
      BY <1>4, <1>5
    <3> QED BY <3>1, AbsIs
  <2>3. x \in R
    <3> HIDE DEF N, c, mad
    <3> QED BY <1>7, <2>1, <2>2
  <2> QED BY <2>3
<1>9. Durations(R) /\ R \subseteq N
  <2>1. R \subseteq N
    OBVIOUS
  <2> HIDE DEF R, N
  <2> QED BY <1>3, <1>8, <2>1, FS_Subset DEF Durations
<1>10. Model!Refine(S, p) = Model!Median(R)
  BY Zenon DEF Model!Refine
<1>11. PICK x \in R, z \in R : x[2] <= Model!Median(R) /\ Model!Median(R) <= z[2]
  <2> HIDE DEF R
  <2> QED BY <1>9, MedianIs
<1>12. Model!Median(R) \in Nat
  <2> HIDE DEF R
  <2> QED BY <1>9, MedianIs
<1>13. x[2] \in Nat \ {0} /\ x \in N /\ z \in N
  <2> HIDE DEF R, N
  <2> QED BY <1>4, <1>9, <1>11
<1>14. ASSUME \A y \in S : \E m \in Nat : y[2] = p * m
       PROVE  \A y \in N : y[2] = p
  <2> SUFFICES ASSUME NEW y \in S PROVE y[2] \div Model!Multiple(y[2], p) = p
    OBVIOUS
  <2>1. PICK m \in Nat : y[2] = p * m
    BY <1>14
  <2> QED BY <1>0, <2>1, MultipleExact
<1> HIDE DEF R, N
<1> QED BY <1>10, <1>11, <1>12, <1>13, <1>14

(* Rounding the period down to whole units.                                *)
LEMMA Cancelled ==
  ASSUME NEW d \in Nat \ {0}, NEW x \in Nat, NEW y \in Nat, d * x < d * (y + 1)
  PROVE  x <= y
<1> SUFFICES ASSUME y + 1 <= x PROVE FALSE
  OBVIOUS
<1>1. d * (y + 1) \in Nat /\ d * x \in Nat /\ d * (y + 1) <= d * x
  BY ProductOrder
<1> QED BY <1>1

\* The number of periods an interval spans does not shrink with the period.
LEMMA SpansMore ==
  ASSUME NEW v \in Nat \ {0}, NEW u \in Nat \ {0}, NEW f \in Nat \ {0}, NEW p \in Nat \ {0},
         u * p <= f
  PROVE  Model!Multiple(v * u, f) <= Model!Multiple(v, p)
<1> DEFINE w == v * u
           k == (2 * w + f) \div (2 * f)
           j == (2 * v + p) \div (2 * p)
<1>1. w \in Nat /\ 2 * w + f \in Nat /\ 2 * f \in Nat \ {0} /\ 2 * v + p \in Nat /\ 2 * p \in Nat \ {0}
  OBVIOUS
<1>2. k \in Nat /\ Model!Multiple(w, f) = IF k >= 1 THEN k ELSE 1
  BY <1>1, MultipleIs
<1>3. j \in Nat /\ Model!Multiple(v, p) = IF j >= 1 THEN j ELSE 1
  BY <1>1, MultipleIs
<1>4. (2 * f) * k <= 2 * w + f
  BY <1>1, <1>2, QuotientAtLeast
<1>5. k >= 1 => (2 * p) * k <= 2 * v + p
  <2> HIDE DEF k, j
  <2> SUFFICES ASSUME k >= 1 PROVE (2 * p) * k <= 2 * v + p
    OBVIOUS
  <2> DEFINE n == 2 * k - 1
  <2>1. n \in Nat
    BY <1>2
  <2>2. f * n <= 2 * w
    <3>1. f * n = (2 * f) * k - f /\ (2 * f) * k \in Nat
      BY <1>2
    <3> QED BY <1>1, <1>4, <3>1
  <2>3. (u * p) * n <= f * n
    <3>1. u * p \in Nat
      OBVIOUS
    <3> QED BY <2>1, <3>1, ProductOrder
  <2>4. u * (p * n) = (u * p) * n /\ p * n \in Nat /\ 2 * w = u * (2 * v) /\ f * n \in Nat /\ (u * p) * n \in Nat
    <3> HIDE DEF n
    <3> QED BY <2>1
  <2>5. u * (2 * v + 1) = u * (2 * v) + u /\ u * (2 * v) \in Nat
    OBVIOUS
  <2>6. u * (p * n) < u * (2 * v + 1)
    <3> HIDE DEF n, w
    <3> QED BY <1>1, <2>2, <2>3, <2>4, <2>5
  <2>7. p * n <= 2 * v
    <3> HIDE DEF n
    <3> QED BY <2>4, <2>6, Cancelled
  <2>8. p * n = (2 * p) * k - p /\ (2 * p) * k \in Nat
    BY <1>2
  <2> QED BY <2>7, <2>8
<1>6. k >= 1 => k <= j
  BY <1>1, <1>2, <1>5, QuotientAtLeast
<1> HIDE DEF k, j
<1> QED BY <1>2, <1>3, <1>6

\* A period cut to whole units errs by at most one unit per period spanned.
LEMMA CutPeriod ==
  ASSUME NEW v \in Nat \ {0}, NEW u \in Nat \ {0}, NEW f \in Nat \ {0}, NEW p \in Nat \ {0},
         p = f \div u
  PROVE  LET k == Model!Multiple(v * u, f)
             j == Model!Multiple(v, p)
         IN  /\ Model!Abs(v * u - k * f) \div u \in Nat
             /\ Model!Abs(v - j * p) <= (Model!Abs(v * u - k * f) \div u) + j
<1> DEFINE w == v * u
           k == Model!Multiple(w, f)
           j == Model!Multiple(v, p)
           e == f - u * p
           a == Model!Abs(w - k * f)
           r == a \div u
           x == v - k * p
           y == v - j * p
<1>1. w \in Nat \ {0}
  OBVIOUS
<1>2. k \in Nat \ {0} /\ j \in Nat \ {0}
  <2> HIDE DEF w
  <2> QED BY <1>1, MultipleBounds
<1>3. e \in 0 .. (u - 1) /\ u * p \in Nat /\ u * p <= f
  <2>1. f = u * p + (f % u) /\ f % u \in 0 .. (u - 1)
    BY Divided
  <2> QED BY <2>1
<1>4. k <= j
  BY <1>3, SpansMore
<1>5. k < j => 2 * (j * p) <= 2 * v + p /\ 2 * v + p < 2 * (j * p) + 2 * p
  <2> DEFINE i == (2 * v + p) \div (2 * p)
  <2>1. i \in Nat /\ j = IF i >= 1 THEN i ELSE 1
    BY MultipleIs
  <2>2. 2 * v + p \in Nat /\ 2 * p \in Nat \ {0} /\ i + 1 \in Nat
    BY <2>1
  <2>3. (2 * p) * i <= 2 * v + p /\ ~((2 * p) * (i + 1) <= 2 * v + p)
    <3>1. ~(i + 1 <= i) /\ i <= i
      BY <2>1
    <3> QED BY <2>1, <2>2, <3>1, QuotientAtLeast
  <2> HIDE DEF i, j, k
  <2>4. (2 * p) * i = 2 * (i * p) /\ (2 * p) * (i + 1) = 2 * (i * p) + 2 * p /\ i * p \in Nat
    BY <2>1
  <2>5. k < j => i = j
    BY <1>2, <2>1
  <2> QED BY <2>2, <2>3, <2>4, <2>5
<1>6. Model!Abs(y) <= Model!Abs(x) /\ Model!Abs(x) \in Nat /\ Model!Abs(y) \in Nat /\ x \in Int
  <2> HIDE DEF k, j
  <2>1. k * p \in Nat /\ j * p \in Nat
    BY <1>2
  <2>2. k < j => k * p + p <= j * p
    <3> SUFFICES ASSUME k < j PROVE k * p + p <= j * p
      OBVIOUS
    <3>1. p * (k + 1) <= p * j /\ p * j = j * p
      BY <1>2, ProductOrder
    <3>2. p * (k + 1) = k * p + p
      BY <1>2
    <3> QED BY <3>1, <3>2
  <2> QED BY <1>2, <1>4, <1>5, <2>1, <2>2 DEF Model!Abs
<1>7. a \in Nat /\ r \in Nat /\ a <= u * r + u /\ u * r \in Nat /\ a < u * r + u
  <2>1. a \in Nat
    <3> HIDE DEF w, k
    <3>1. w - k * f \in Int
      BY <1>1, <1>2
    <3> QED BY <3>1, AbsIs
  <2> HIDE DEF a
  <2>2. r \in Nat /\ a % u \in 0 .. (u - 1) /\ a = u * r + (a % u)
    BY <2>1, Divided
  <2> HIDE DEF r
  <2>3. u * r \in Nat
    BY <2>2
  <2> QED BY <2>1, <2>2, <2>3
<1>8. u * Model!Abs(x) <= a + k * u
  <2> HIDE DEF k
  <2>1. u * x = (w - k * f) + k * e
    BY <1>1, <1>2
  <2>2. k * e \in Nat /\ k * e <= k * u /\ k * u \in Nat
    <3> HIDE DEF e
    <3> QED BY <1>2, <1>3, ProductOrder
  <2>3. u * (-x) = -(u * x) /\ u * x \in Int
    BY <1>6
  <2>4. w - k * f \in Int
    BY <1>1, <1>2
  <2>5. u * Model!Abs(x) = IF x < 0 THEN -(u * x) ELSE u * x
    <3> HIDE DEF x
    <3> QED BY <2>3 DEF Model!Abs
  <2>6. a = IF w - k * f < 0 THEN -(w - k * f) ELSE w - k * f
    BY DEF Model!Abs
  <2> HIDE DEF x, a, w, e
  <2> QED BY <2>1, <2>2, <2>3, <2>4, <2>5, <2>6
<1>9. Model!Abs(x) <= r + k
  <2> HIDE DEF x, a, r, k, w
  <2>1. u * ((r + k) + 1) = (u * r + k * u) + u /\ k * u \in Nat /\ r + k \in Nat /\ u * Model!Abs(x) \in Nat
    BY <1>2, <1>6, <1>7
  <2>2. u * Model!Abs(x) < u * ((r + k) + 1)
    BY <1>7, <1>8, <2>1
  <2> QED BY <1>6, <2>1, <2>2, Cancelled
<1>10. Model!Abs(y) <= r + j /\ r \in Nat
  <2> HIDE DEF x, y, a, r, k, j, w
  <2> QED BY <1>2, <1>4, <1>6, <1>7, <1>9
<1> QED BY <1>10

(* robustPeriod over intervals.                                            *)
LEMMA InUnitsAre ==
  ASSUME NEW q \in Seq(Intervals), Len(q) > 0
  PROVE  /\ Durations(Model!InUnits(q)) /\ \A x \in Model!InUnits(q) : x[2] > 0
         /\ \A i \in 1 .. Len(q) : q[i] \in Nat \ {0} /\ <<i, q[i] * Unit>> \in Model!InUnits(q)
         /\ \A x \in Model!InUnits(q) : \E i \in 1 .. Len(q) : x = <<i, q[i] * Unit>>
         /\ Model!Min(Model!Range(q)) \in Nat \ {0}
         /\ \A i \in 1 .. Len(q) : Model!Min(Model!Range(q)) <= q[i]
         /\ \E i \in 1 .. Len(q) : Model!Min(Model!Range(q)) = q[i]
<1> DEFINE S == Model!InUnits(q)
           I == 1 .. Len(q)
           g == [i \in I |-> <<i, q[i] * Unit>>]
<1>0. Unit \in Nat \ {0} /\ Intervals \subseteq Nat \ {0}
  BY CadenceSizes
<1>1. DOMAIN q = I /\ \A i \in I : q[i] \in Nat \ {0} /\ q[i] * Unit \in Nat \ {0}
  <2>1. DOMAIN q = I /\ \A i \in I : q[i] \in Nat \ {0}
    <3>1. \A i \in I : q[i] \in Intervals
      OBVIOUS
    <3>2. DOMAIN q = I
      OBVIOUS
    <3> QED BY <1>0, <3>1, <3>2
  <2> QED BY <1>0, <2>1
<1>2. S = {<<i, q[i] * Unit>> : i \in I}
  BY <1>1, Zenon DEF Model!InUnits
<1>3. Durations(S)
  <2>1. g \in Surjection(I, S)
    <3> HIDE DEF I, S
    <3> QED BY <1>2 DEF Surjection
  <2>2. Len(q) \in Nat /\ IsFiniteSet(I)
    <3>1. Len(q) \in Int
      OBVIOUS
    <3> QED BY <3>1, FS_Interval
  <2>3. IsFiniteSet(S)
    <3> HIDE DEF I, S, g
    <3> QED BY <2>1, <2>2, FS_Surjection
  <2>4. 1 \in I
    BY <2>2
  <2>5. S \in SUBSET (Nat \X Nat)
    <3>1. \A i \in I : <<i, q[i] * Unit>> \in Nat \X Nat
      BY <1>1
    <3> HIDE DEF I, S
    <3> QED BY <1>2, <3>1
  <2>6. S # {}
    <3> HIDE DEF I, S
    <3> QED BY <1>2, <2>4
  <2> HIDE DEF S
  <2> QED BY <2>3, <2>5, <2>6 DEF Durations
<1>4. \A x \in S : x[2] > 0
  <2> HIDE DEF S, I
  <2>1. \A i \in I : q[i] * Unit > 0
    BY <1>1
  <2> HIDE DEF S
  <2> QED BY <1>2, <2>1
<1>5. Model!Range(q) = {q[i] : i \in I}
  BY <1>1, Zenon DEF Model!Range
<1>6. Model!Range(q) \in SUBSET Nat /\ Model!Range(q) # {}
  <2>1. 1 \in I
    OBVIOUS
  <2> HIDE DEF I
  <2> QED BY <1>1, <1>5, <2>1
<1>7. Model!Min(Model!Range(q)) \in Model!Range(q) /\ \A y \in Model!Range(q) : Model!Min(Model!Range(q)) <= y
  BY <1>6, LeastIs
<1> HIDE DEF S, I
<1> QED BY <1>1, <1>2, <1>3, <1>4, <1>5, <1>7 DEF S, I

\* The four iterations.
LEMMA Iterated ==
  ASSUME NEW S, Durations(S), \A x \in S : x[2] > 0, NEW p \in Nat \ {0}
  PROVE  LET fitted == Model!Refine(S, Model!Refine(S, Model!Refine(S, Model!Refine(S, p))))
         IN  /\ fitted \in Nat \ {0}
             /\ (\A x \in S : \E m \in Nat : x[2] = p * m) => fitted = p
<1> DEFINE a == Model!Refine(S, p)
           b == Model!Refine(S, a)
           c == Model!Refine(S, b)
           d == Model!Refine(S, c)
           Even(r) == \A x \in S : \E m \in Nat : x[2] = r * m
<1>1. a \in Nat \ {0} /\ (Even(p) => a = p)
  BY RefineIs
<1> HIDE DEF a
<1>2. b \in Nat \ {0} /\ (Even(a) => b = a)
  BY <1>1, RefineIs
<1> HIDE DEF b
<1>3. c \in Nat \ {0} /\ (Even(b) => c = b)
  BY <1>2, RefineIs
<1> HIDE DEF c
<1>4. d \in Nat \ {0} /\ (Even(c) => d = c)
  BY <1>3, RefineIs
<1> HIDE DEF d, Even
<1>5. Even(p) => d = p
  BY <1>1, <1>2, <1>3, <1>4
<1>6. d \in Nat \ {0}
  BY <1>4
<1> QED BY <1>5, <1>6 DEF a, b, c, d, Even

\* At least the share JitterQuantile of the durations is at most the quantile.
LEMMA EnvelopeQuantile ==
  ASSUME NEW S, Durations(S)
  PROVE  /\ Model!DurationQuantile(S) \in Nat
         /\ JitterQuantile * Cardinality(S) <= 100 * Cardinality({y \in S : y[2] <= Model!DurationQuantile(S)})
<1> DEFINE c == Cardinality(S)
           n == (JitterQuantile * c + 99) \div 100
           low == Cardinality({y \in S : y[2] <= Model!Ranked(S, n)})
<1>1. c \in Nat /\ c > 0
  BY FS_CardinalityType, FS_EmptySet DEF Durations
<1>2. JitterQuantile \in 1 .. 100
  BY CadenceSizes
<1>3. Model!DurationQuantile(S) = Model!Ranked(S, Model!Max({1, n}))
  BY Counted, Zenon DEF Model!DurationQuantile
<1> HIDE DEF c
<1>4. JitterQuantile * c \in Nat /\ JitterQuantile * c <= 100 * c /\ 1 * c <= JitterQuantile * c
  <2>1. c * JitterQuantile <= c * 100 /\ c * 1 <= c * JitterQuantile
    BY <1>1, <1>2, ProductOrder
  <2> QED BY <1>1, <1>2, <2>1
<1>5. n \in Nat /\ n >= 1 /\ n <= c /\ JitterQuantile * c <= 100 * n
  <2> DEFINE t == JitterQuantile * c
  <2>1. t \in Nat /\ t <= 100 * c /\ 1 * c <= t
    BY <1>1, <1>4
  <2> HIDE DEF t
  <2>2. (t + 99) \div 100 \in Nat /\ (t + 99) \div 100 >= 1 /\ (t + 99) \div 100 <= c
        /\ t <= 100 * ((t + 99) \div 100)
    BY <1>1, <2>1
  <2> QED BY <2>1, <2>2 DEF t
<1> HIDE DEF n
<1>6. Model!Max({1, n}) = n
  BY <1>5, GreaterIs
<1>7. Model!DurationQuantile(S) = Model!Ranked(S, n)
  BY <1>3, <1>6
<1>8. (\E x \in S : Model!Ranked(S, n) = x[2]) /\ low >= n
  BY <1>5, RankedIs DEF c
<1>9. \A x \in S : x[2] \in Nat
  BY DEF Durations
<1>10. low \in Nat
  <2> DEFINE T == {y \in S : y[2] <= Model!Ranked(S, n)}
  <2>1. T \in SUBSET S
    OBVIOUS
  <2> HIDE DEF T
  <2>2. IsFiniteSet(T)
    BY <2>1, FS_Subset DEF Durations
  <2> QED BY <2>2, FS_CardinalityType DEF T
<1> HIDE DEF low
<1>11. JitterQuantile * c <= 100 * low
  <2> DEFINE t == JitterQuantile * c
  <2>1. t \in Nat /\ t <= 100 * n
    BY <1>4, <1>5
  <2> HIDE DEF t
  <2>2. t <= 100 * low
    BY <1>5, <1>8, <1>10, <2>1
  <2> QED BY <2>2 DEF t
<1>12. Model!DurationQuantile(S) \in Nat
  BY <1>7, <1>8, <1>9
<1> QED BY <1>7, <1>11, <1>12 DEF c, low

\* A collection with one duration for each index.
LEMMA Indexed ==
  ASSUME NEW c \in Nat, NEW e, NEW d
  PROVE  LET T == {<<i, e[i]>> : i \in 1 .. c}
         IN  /\ Cardinality(T) = c
             /\ Cardinality({y \in T : y[2] <= d}) <= Cardinality({i \in 1 .. c : e[i] <= d})
<1> DEFINE T == {<<i, e[i]>> : i \in 1 .. c}
           g == [i \in 1 .. c |-> <<i, e[i]>>]
           I == {i \in 1 .. c : e[i] <= d}
           L == {y \in T : y[2] <= d}
           k == [i \in I |-> <<i, e[i]>>]
<1>1. IsFiniteSet(1 .. c) /\ Cardinality(1 .. c) = c
  BY FS_Interval
<1>2. Cardinality(T) = c
  <2>1. g \in Surjection(1 .. c, T) /\ g \in Injection(1 .. c, T)
    BY DEF Surjection, Injection, IsInjective
  <2> HIDE DEF T, g
  <2> QED BY <1>1, <2>1, FS_Surjection
<1>3. IsFiniteSet(I)
  <2>1. I \in SUBSET (1 .. c)
    OBVIOUS
  <2> HIDE DEF I
  <2> QED BY <1>1, <2>1, FS_Subset
<1>4. k \in Surjection(I, L)
  BY DEF Surjection
<1>5. Cardinality(L) <= Cardinality(I)
  <2> HIDE DEF I, L, k
  <2> QED BY <1>3, <1>4, FS_Surjection
<1> QED BY <1>2, <1>5

\* How far an interval is from a whole number of periods.
Off(v, p) == Model!Abs(v - Model!Multiple(v, p) * p)

LEMMA OffIs ==
  ASSUME NEW v \in Nat \ {0}, NEW p \in Nat \ {0}
  PROVE  Model!Multiple(v, p) \in Nat /\ Off(v, p) \in Nat
<1>1. Model!Multiple(v, p) \in Nat
  BY MultipleBounds
<1>2. v - Model!Multiple(v, p) * p \in Int
  BY <1>1
<1> QED BY <1>1, <1>2, AbsIs DEF Off

\* What the fit of a history yields: the shortest interval if the others are
\* multiples of it, and residuals that reach the share JitterQuantile of them.
LEMMA FitIs ==
  ASSUME NEW q \in Seq(Intervals), Len(q) > 0
  PROVE  LET fitted == Model!RobustPeriod(q)
             least == Model!Min(Model!Range(q))
         IN  /\ fitted.period \in Nat /\ Model!DurationQuantile(fitted.residuals) \in Nat
             /\ (\A i \in 1 .. Len(q) : q[i] % least = 0) => fitted.period = least
             /\ fitted.period > 0 =>
                  JitterQuantile * Len(q) <=
                    100 * Cardinality({i \in 1 .. Len(q) :
                            Off(q[i], fitted.period) <=
                              Model!DurationQuantile(fitted.residuals) + Model!Multiple(q[i], fitted.period)})
<1> DEFINE fitted == Model!RobustPeriod(q)
           least == Model!Min(Model!Range(q))
           S == Model!InUnits(q)
           base == least * Unit
           F == Model!Refine(S, Model!Refine(S, Model!Refine(S, Model!Refine(S, base))))
           R == {<<x[1], Model!Abs(x[2] - Model!Multiple(x[2], F) * F) \div Unit>> : x \in S}
           P == F \div Unit
<1>0. Unit \in Nat \ {0}
  BY CadenceSizes
<1>1. fitted = [period |-> P, residuals |-> R]
  BY Zenon DEF Model!RobustPeriod, Model!Fit
<1>2. /\ Durations(S) /\ \A x \in S : x[2] > 0
      /\ \A i \in 1 .. Len(q) : q[i] \in Nat \ {0} /\ <<i, q[i] * Unit>> \in S
      /\ \A x \in S : \E i \in 1 .. Len(q) : x = <<i, q[i] * Unit>>
      /\ least \in Nat \ {0} /\ \A i \in 1 .. Len(q) : least <= q[i]
  BY InUnitsAre
<1> HIDE DEF S, least
<1>3. base \in Nat \ {0}
  BY <1>0, <1>2
<1>4. F \in Nat \ {0} /\ ((\A x \in S : \E m \in Nat : x[2] = base * m) => F = base)
  <2> HIDE DEF base
  <2> QED BY <1>2, <1>3, Iterated
<1> HIDE DEF F
<1>5. P \in Nat
  BY <1>0, <1>4, Divided
<1>6. ASSUME \A i \in 1 .. Len(q) : q[i] % least = 0 PROVE P = least
  <2>1. ASSUME NEW x \in S PROVE \E m \in Nat : x[2] = base * m
    <3>1. PICK i \in 1 .. Len(q) : x = <<i, q[i] * Unit>>
      BY <1>2
    <3> DEFINE m == q[i] \div least
    <3>2. q[i] = least * m /\ m \in Nat
      <4>1. q[i] % least = 0 /\ q[i] \in Nat /\ least \in Nat \ {0}
        BY <1>2, <1>6
      <4>2. m \in Nat /\ q[i] = least * m + (q[i] % least) /\ least * m \in Nat
        <5>1. m \in Nat /\ q[i] = least * m + (q[i] % least)
          BY <4>1, Divided
        <5> HIDE DEF m
        <5> QED BY <4>1, <5>1
      <4> HIDE DEF m
      <4> QED BY <4>1, <4>2
    <3> HIDE DEF m
    <3>3. (least * m) * Unit = base * m
      BY <1>0, <1>2, <3>2
    <3>4. x[2] = base * m
      BY <3>1, <3>2, <3>3
    <3> QED BY <3>2, <3>4
  <2>2. F = base
    BY <1>4, <2>1
  <2>3. Unit * least <= F /\ ~(Unit * (least + 1) <= F)
    <3>1. Unit * (least + 1) = base + Unit /\ Unit * least = base
      BY <1>0, <1>2
    <3> HIDE DEF base
    <3> QED BY <1>0, <1>3, <2>2, <3>1
  <2>4. least <= P /\ ~(least + 1 <= P)
    <3>1. F \in Nat /\ least \in Nat /\ least + 1 \in Nat
      BY <1>2, <1>4
    <3> QED BY <1>0, <2>3, <3>1, QuotientAtLeast
  <2> QED BY <1>2, <1>5, <2>4
<1>7. \A x \in S : Model!Abs(x[2] - Model!Multiple(x[2], F) * F) \div Unit \in Nat
  <2> TAKE x \in S
  <2>1. x[2] \in Nat \ {0}
    BY <1>2 DEF Durations
  <2>2. Model!Multiple(x[2], F) \in Nat
    BY <1>4, <2>1, MultipleBounds
  <2>3. x[2] - Model!Multiple(x[2], F) * F \in Int
    BY <1>4, <2>1, <2>2
  <2>4. Model!Abs(x[2] - Model!Multiple(x[2], F) * F) \in Nat
    BY <2>3, AbsIs
  <2> QED BY <1>0, <2>4, Divided
<1>8. Durations(R)
  <2> DEFINE g == [x \in S |-> Model!Abs(x[2] - Model!Multiple(x[2], F) * F) \div Unit]
  <2>1. R = {<<x[1], g[x]>> : x \in S} /\ \A x \in S : g[x] \in Nat
    BY <1>7
  <2> HIDE DEF R, g
  <2> QED BY <1>2, <2>1, Computed
<1> DEFINE e == [i \in 1 .. Len(q) |-> Model!Abs(q[i] * Unit - Model!Multiple(q[i] * Unit, F) * F) \div Unit]
           D == Model!DurationQuantile(R)
           low == {i \in 1 .. Len(q) : e[i] <= D}
<1>9. R = {<<i, e[i]>> : i \in 1 .. Len(q)}
  <2>1. ASSUME NEW i \in 1 .. Len(q) PROVE <<i, e[i]>> \in R
    <3> DEFINE x == <<i, q[i] * Unit>>
    <3>1. x \in S /\ x[1] = i /\ x[2] = q[i] * Unit
      BY <1>2
    <3>2. <<x[1], Model!Abs(x[2] - Model!Multiple(x[2], F) * F) \div Unit>> \in R
      <4> HIDE DEF x
      <4> QED BY <3>1
    <3> HIDE DEF R, x
    <3> QED BY <3>1, <3>2
  <2>2. ASSUME NEW y \in R PROVE \E i \in 1 .. Len(q) : y = <<i, e[i]>>
    <3>1. PICK x \in S : y = <<x[1], Model!Abs(x[2] - Model!Multiple(x[2], F) * F) \div Unit>>
      BY <2>2
    <3>2. PICK i \in 1 .. Len(q) : x = <<i, q[i] * Unit>>
      BY <1>2
    <3>3. x[1] = i /\ x[2] = q[i] * Unit
      BY <3>2
    <3> HIDE DEF R
    <3> QED BY <3>1, <3>3
  <2> HIDE DEF R, e
  <2> QED BY <2>1, <2>2
<1>10. D \in Nat /\ JitterQuantile * Len(q) <= 100 * Cardinality(low) /\ Cardinality(low) \in Nat
  <2>0. Len(q) \in Nat
    OBVIOUS
  <2> DEFINE L == {y \in R : y[2] <= D}
  <2>1. D \in Nat /\ JitterQuantile * Cardinality(R) <= 100 * Cardinality(L)
    <3> HIDE DEF R
    <3> QED BY <1>8, EnvelopeQuantile
  <2>2. Cardinality(R) = Len(q) /\ Cardinality(L) <= Cardinality(low)
    <3> HIDE DEF R, D, e
    <3> QED BY <1>9, <2>0, Indexed
  <2>3. IsFiniteSet(low) /\ IsFiniteSet(L)
    <3>1. low \in SUBSET (1 .. Len(q)) /\ IsFiniteSet(1 .. Len(q))
      BY <2>0, FS_Interval
    <3>2. L \in SUBSET R /\ IsFiniteSet(R)
      BY <1>8 DEF Durations
    <3> HIDE DEF low, L, R
    <3> QED BY <3>1, <3>2, FS_Subset
  <2>4. Cardinality(low) \in Nat /\ Cardinality(L) \in Nat
    BY <2>3, FS_CardinalityType
  <2> DEFINE t == JitterQuantile * Len(q)
  <2>5. t \in Nat /\ t <= 100 * Cardinality(L)
    <3>1. JitterQuantile \in 1 .. 100
      BY CadenceSizes
    <3>2. t \in Nat
      BY <2>0, <3>1
    <3> QED BY <2>1, <2>2, <3>2
  <2> HIDE DEF low, L, t, D, R
  <2>6. t <= 100 * Cardinality(low)
    BY <2>2, <2>4, <2>5
  <2> QED BY <2>1, <2>4, <2>6 DEF t
<1>11. ASSUME P > 0
       PROVE  JitterQuantile * Len(q) <=
                100 * Cardinality({i \in 1 .. Len(q) : Off(q[i], P) <= D + Model!Multiple(q[i], P)})
  <2> DEFINE G == {i \in 1 .. Len(q) : Off(q[i], P) <= D + Model!Multiple(q[i], P)}
  <2>1. ASSUME NEW i \in low PROVE i \in G
    <3> DEFINE k == Model!Multiple(q[i], P)
    <3>1. i \in 1 .. Len(q) /\ e[i] <= D
      <4> HIDE DEF D, e
      <4> QED OBVIOUS
    <3>2. q[i] \in Nat \ {0} /\ P \in Nat \ {0}
      <4> HIDE DEF P, e, D
      <4>1. q[i] \in Nat \ {0}
        BY <1>2, <3>1
      <4> QED BY <1>5, <1>11, <4>1
    <3>3. e[i] \in Nat /\ Off(q[i], P) <= e[i] + k
      <4>1. e[i] = Model!Abs(q[i] * Unit - Model!Multiple(q[i] * Unit, F) * F) \div Unit
        BY <3>1
      <4>2. LET r == Model!Abs(q[i] * Unit - Model!Multiple(q[i] * Unit, F) * F) \div Unit
            IN  r \in Nat /\ Model!Abs(q[i] - k * P) <= r + k
        BY <1>0, <1>4, <3>2, CutPeriod
      <4> HIDE DEF e, P
      <4> QED BY <4>1, <4>2 DEF Off
    <3>4. k \in Nat /\ Off(q[i], P) \in Nat
      <4> HIDE DEF P
      <4> QED BY <3>2, OffIs
    <3> HIDE DEF k, D, e, P, R
    <3>5. Off(q[i], P) <= D + k
      BY <1>10, <3>1, <3>3, <3>4
    <3> QED BY <3>1, <3>5 DEF k
  <2>2. G \in SUBSET (1 .. Len(q)) /\ low \in SUBSET G
    <3>1. G \in SUBSET (1 .. Len(q))
      OBVIOUS
    <3> HIDE DEF low, G
    <3> QED BY <2>1, <3>1
  <2>3. IsFiniteSet(1 .. Len(q))
    BY FS_Interval
  <2> HIDE DEF G, low
  <2>4. IsFiniteSet(G) /\ Cardinality(low) <= Cardinality(G) /\ Cardinality(G) \in Nat
    <3>1. IsFiniteSet(G)
      BY <2>2, <2>3, FS_Subset
    <3> QED BY <2>2, <3>1, FS_Subset, FS_CardinalityType
  <2> DEFINE t == JitterQuantile * Len(q)
  <2>5. t \in Nat
    BY CadenceSizes
  <2>6. t <= 100 * Cardinality(low)
    BY <1>10
  <2> HIDE DEF t
  <2>7. t <= 100 * Cardinality(G)
    BY <1>10, <2>4, <2>5, <2>6
  <2> QED BY <2>7 DEF t, G
<1>12. fitted.period = P /\ fitted.residuals = R
  <2> HIDE DEF fitted, P, R
  <2> QED BY <1>1
<1> HIDE DEF fitted, P, R
<1> QED BY <1>5, <1>6, <1>10, <1>11, <1>12 DEF fitted, least, D

(* A fit under a scale: what EnvelopeScaled, PeriodFound and EnvelopeCovers *)
(* ask of the n newest intervals of h, with the reach measured in units of  *)
(* the scale so that widening and tightening keep it.                       *)
Reached(h, n, p, w, s) ==
  {i \in Len(h) - n + 1 .. Len(h) : Model!Multiple(h[i], p) > JitterMargin \/ Off(h[i], p) * s <= w}

Fitted(h, n, p, w, s) ==
  /\ Floor * s <= w
  /\ LET used == {h[i] : i \in Len(h) - n + 1 .. Len(h)}
     IN  (\A v \in used : v % Model!Min(used) = 0) => p = Model!Min(used)
  /\ JitterQuantile * n <= 100 * Cardinality(Reached(h, n, p, w, s))

LEMMA ReachedIs ==
  ASSUME NEW h \in Seq(Intervals), NEW n \in Nat, NEW p, NEW w, NEW s
  PROVE  IsFiniteSet(Reached(h, n, p, w, s)) /\ Cardinality(Reached(h, n, p, w, s)) \in Nat
<1>1. IsFiniteSet(Len(h) - n + 1 .. Len(h))
  <2>1. Len(h) \in Int /\ Len(h) - n + 1 \in Int
    OBVIOUS
  <2> QED BY <2>1, FS_Interval
<1>2. Reached(h, n, p, w, s) \in SUBSET (Len(h) - n + 1 .. Len(h))
  BY DEF Reached
<1>3. IsFiniteSet(Reached(h, n, p, w, s))
  BY <1>1, <1>2, FS_Subset
<1> QED BY <1>3, FS_CardinalityType

LEMMA NewestIntervals ==
  ASSUME NEW h \in Seq(Intervals), NEW n \in Nat
  PROVE  /\ Model!Newest(h, n) \in Seq(Intervals)
         /\ Len(Model!Newest(h, n)) = IF Len(h) > n THEN n ELSE Len(h)
         /\ \A i \in 1 .. Len(Model!Newest(h, n)) :
              Model!Newest(h, n)[i] = h[(Len(h) - Len(Model!Newest(h, n))) + i]
<1>1. CASE Len(h) > n
  <2> DEFINE q == SubSeq(h, Len(h) - n + 1, Len(h))
  <2>1. Model!Newest(h, n) = q
    BY <1>1 DEF Model!Newest
  <2>2. q \in Seq(Intervals) /\ Len(q) = n
    BY <1>1
  <2>3. \A i \in 1 .. n : q[i] = h[(Len(h) - n) + i]
    BY <1>1
  <2> HIDE DEF q
  <2> QED BY <1>1, <2>1, <2>2, <2>3
<1>2. CASE ~(Len(h) > n)
  BY <1>2 DEF Model!Newest
<1> QED BY <1>1, <1>2

LEMMA NewFit ==
  ASSUME NEW h \in Seq(Intervals), NEW n \in Nat \ {0}, n <= Len(h), NEW s \in Nat \ {0}
  PROVE  LET f == Model!RobustPeriod(Model!Newest(h, n))
         IN  /\ f.period \in Nat /\ Model!Envelope(f, s) \in Nat
             /\ f.period > 0 => Fitted(h, n, f.period, Model!Envelope(f, s), s)
<1> DEFINE q == Model!Newest(h, n)
           f == Model!RobustPeriod(q)
           d == Model!DurationQuantile(f.residuals)
           m == IF Floor >= d + JitterMargin THEN Floor ELSE d + JitterMargin
           used == {h[i] : i \in Len(h) - n + 1 .. Len(h)}
           least == Model!Min(Model!Range(q))
<1>0. Floor \in Nat \ {0} /\ JitterMargin \in Nat /\ Intervals \subseteq Nat \ {0}
  BY CadenceSizes
<1>1. q \in Seq(Intervals) /\ Len(q) = n /\ \A i \in 1 .. n : q[i] = h[(Len(h) - n) + i]
  <2>1. Len(h) \in Nat
    OBVIOUS
  <2> QED BY <2>1, NewestIntervals
<1> HIDE DEF q
<1>2. /\ f.period \in Nat /\ d \in Nat
      /\ (\A i \in 1 .. n : q[i] % least = 0) => f.period = least
      /\ f.period > 0 =>
           JitterQuantile * n <=
             100 * Cardinality({i \in 1 .. n : Off(q[i], f.period) <= d + Model!Multiple(q[i], f.period)})
  <2>1. Len(q) > 0
    BY <1>1
  <2> QED BY <1>1, <2>1, FitIs
<1>3. Model!Envelope(f, s) = m * s
  <2>1. Model!Max({Floor, d + JitterMargin}) = m
    <3> HIDE DEF d
    <3> QED BY <1>0, <1>2, GreaterIs
  <2> HIDE DEF f, d, m
  <2> QED BY <2>1 DEF Model!Envelope, d
<1> HIDE DEF f, d
<1>4. m \in Nat /\ Floor <= m /\ d + JitterMargin <= m
  BY <1>0, <1>2
<1> HIDE DEF m
<1>5. m * s \in Nat
  BY <1>4
<1>6. ASSUME f.period > 0 PROVE Fitted(h, n, f.period, m * s, s)
  <2>1. Floor * s <= m * s
    BY <1>0, <1>4, ProductOrder
  <2>2. Model!Range(q) = used
    <3>1. DOMAIN q = 1 .. n
      BY <1>1
    <3>2. Model!Range(q) = {q[i] : i \in 1 .. n}
      BY <3>1, Zenon DEF Model!Range
    <3>3. \A i \in Len(h) - n + 1 .. Len(h) : i - (Len(h) - n) \in 1 .. n /\ h[i] = q[i - (Len(h) - n)]
      <4> TAKE i \in Len(h) - n + 1 .. Len(h)
      <4>1. i - (Len(h) - n) \in 1 .. n /\ (Len(h) - n) + (i - (Len(h) - n)) = i
        OBVIOUS
      <4> QED BY <1>1, <4>1
    <3>4. \A i \in 1 .. n : (Len(h) - n) + i \in Len(h) - n + 1 .. Len(h)
      OBVIOUS
    <3>5. {q[i] : i \in 1 .. n} \subseteq used
      BY <1>1, <3>4
    <3>6. used \subseteq {q[i] : i \in 1 .. n}
      BY <3>3
    <3> QED BY <3>2, <3>5, <3>6
  <2>3. (\A v \in used : v % Model!Min(used) = 0) => f.period = Model!Min(used)
    <3> SUFFICES ASSUME \A v \in used : v % Model!Min(used) = 0 PROVE f.period = Model!Min(used)
      OBVIOUS
    <3>1. least = Model!Min(used)
      BY <2>2
    <3>2. \A i \in 1 .. n : q[i] \in used
      <4>1. \A i \in 1 .. n : (Len(h) - n) + i \in Len(h) - n + 1 .. Len(h)
        OBVIOUS
      <4> QED BY <1>1, <4>1
    <3> HIDE DEF used, least
    <3> QED BY <1>2, <3>1, <3>2
  <2>4. JitterQuantile * n <= 100 * Cardinality(Reached(h, n, f.period, m * s, s))
    <3> DEFINE G == {i \in 1 .. n : Off(q[i], f.period) <= d + Model!Multiple(q[i], f.period)}
               H == Reached(h, n, f.period, m * s, s)
               g == [i \in G |-> (Len(h) - n) + i]
    <3>1. ASSUME NEW i \in G PROVE (Len(h) - n) + i \in H
      <4> DEFINE v == h[(Len(h) - n) + i]
      <4>1. i \in 1 .. n /\ q[i] = v /\ (Len(h) - n) + i \in Len(h) - n + 1 .. Len(h)
        <5>1. i \in 1 .. n
          OBVIOUS
        <5> QED BY <1>1, <5>1
      <4>2. v \in Nat \ {0}
        <5>1. q[i] \in Intervals
          BY <1>1, <4>1
        <5> QED BY <1>0, <4>1, <5>1
      <4>3. Off(v, f.period) <= d + Model!Multiple(v, f.period)
        <5>1. Off(q[i], f.period) <= d + Model!Multiple(q[i], f.period)
          OBVIOUS
        <5> QED BY <4>1, <5>1
      <4> HIDE DEF v
      <4>4. f.period \in Nat \ {0}
        BY <1>2, <1>6
      <4>5. Model!Multiple(v, f.period) \in Nat /\ Off(v, f.period) \in Nat
        BY <4>2, <4>4, OffIs
      <4> DEFINE o == Off(v, f.period)
                 k == Model!Multiple(v, f.period)
      <4>6. k > JitterMargin \/ o <= m
        <5>1. k \in Nat /\ o \in Nat /\ o <= d + k
          BY <4>3, <4>5
        <5> HIDE DEF o, k
        <5> QED BY <1>0, <1>2, <1>4, <5>1
      <4>7. k > JitterMargin \/ o * s <= m * s
        <5>1. o \in Nat
          BY <4>5
        <5> HIDE DEF o, k
        <5>2. ASSUME o <= m PROVE o * s <= m * s
          <6>1. s * o <= s * m /\ s * o = o * s /\ s * m = m * s
            BY <1>4, <5>1, <5>2, ProductOrder
          <6> QED BY <6>1
        <5> QED BY <4>6, <5>2
      <4>8. Model!Multiple(h[(Len(h) - n) + i], f.period) > JitterMargin
              \/ Off(h[(Len(h) - n) + i], f.period) * s <= m * s
        BY <4>7, Zenon DEF v
      <4> QED BY <4>1, <4>8, Zenon DEF Reached
    <3>2. IsFiniteSet(H) /\ Cardinality(H) \in Nat
      BY ReachedIs
    <3>3. \A i \in G : i \in Nat
      OBVIOUS
    <3> HIDE DEF G, H
    <3>4. g \in Injection(G, H)
      <4>1. Len(h) - n \in Nat
        OBVIOUS
      <4>2. g \in [G -> H]
        BY <3>1
      <4>3. \A a, b \in G : g[a] = g[b] => a = b
        BY <3>3, <4>1
      <4> QED BY <4>2, <4>3, Zenon DEF Injection, IsInjective
    <3>5. IsFiniteSet(G) /\ Cardinality(G) <= Cardinality(H)
      <4> HIDE DEF g
      <4> QED BY <3>2, <3>4, FS_Injection
    <3>6. Cardinality(G) \in Nat
      BY <3>5, FS_CardinalityType
    <3> DEFINE t == JitterQuantile * n
    <3>7. t \in Nat
      BY CadenceSizes
    <3>8. t <= 100 * Cardinality(G)
      BY <1>2, <1>6 DEF G
    <3> HIDE DEF t
    <3>9. t <= 100 * Cardinality(H)
      BY <3>2, <3>5, <3>6, <3>7, <3>8
    <3> QED BY <3>9 DEF t, H
  <2> QED BY <2>1, <2>3, <2>4, Zenon DEF Fitted
<1> QED BY <1>2, <1>3, <1>5, <1>6 DEF f, q

\* Whatever keeps multiples of the scale inside the envelope keeps the fit.
LEMMA FittedStep ==
  ASSUME NEW h \in Seq(Intervals), NEW n \in 0 .. Len(h), NEW p \in Nat \ {0},
         NEW w \in Nat, NEW s \in Nat, NEW x \in Nat, NEW t \in Nat,
         Fitted(h, n, p, w, s),
         \A a \in Nat : a * s <= w => a * t <= x
  PROVE  Fitted(h, n, p, x, t)
<1>0. Floor \in Nat \ {0} /\ Intervals \subseteq Nat \ {0}
  BY CadenceSizes
<1>1. Floor * t <= x
  BY <1>0 DEF Fitted
<1>2. ASSUME NEW i \in Reached(h, n, p, w, s) PROVE i \in Reached(h, n, p, x, t)
  <2>1. i \in Len(h) - n + 1 .. Len(h) /\ i \in 1 .. Len(h)
    BY DEF Reached
  <2>2. h[i] \in Nat \ {0}
    <3>1. h[i] \in Intervals
      BY <2>1
    <3> QED BY <1>0, <3>1
  <2>3. Off(h[i], p) \in Nat
    BY <2>2, OffIs
  <2>4. Model!Multiple(h[i], p) > JitterMargin \/ Off(h[i], p) * s <= w
    BY Zenon DEF Reached
  <2>5. Model!Multiple(h[i], p) > JitterMargin \/ Off(h[i], p) * t <= x
    BY <2>3, <2>4
  <2> QED BY <2>1, <2>5, Zenon DEF Reached
<1>3. JitterQuantile * n <= 100 * Cardinality(Reached(h, n, p, x, t))
  <2> DEFINE G == Reached(h, n, p, w, s)
             H == Reached(h, n, p, x, t)
             r == JitterQuantile * n
  <2>0. n \in Nat
    OBVIOUS
  <2>1. G \in SUBSET H
    <3> HIDE DEF G, H
    <3> QED BY <1>2 DEF G, H
  <2>2. IsFiniteSet(H) /\ Cardinality(H) \in Nat /\ Cardinality(G) \in Nat
    BY <2>0, ReachedIs
  <2>3. r \in Nat /\ r <= 100 * Cardinality(G)
    <3>1. r \in Nat
      BY <2>0, CadenceSizes
    <3>2. r <= 100 * Cardinality(G)
      BY Zenon DEF Fitted
    <3> QED BY <3>1, <3>2
  <2> HIDE DEF G, H, r
  <2>4. Cardinality(G) <= Cardinality(H)
    BY <2>1, <2>2, FS_Subset
  <2>5. r <= 100 * Cardinality(H)
    BY <2>2, <2>3, <2>4
  <2> QED BY <2>5 DEF r, H
<1> QED BY <1>1, <1>3, Zenon DEF Fitted

LEMMA Widened ==
  ASSUME NEW w \in Nat, NEW s \in 1 .. MaxWakeScale
  PROVE  LET t == Model!Min({s * Step, MaxWakeScale})
         IN  /\ t \in 1 .. MaxWakeScale /\ w * Step \in Nat
             /\ \A a \in Nat : a * s <= w => a * t <= w * Step
<1> DEFINE t == Model!Min({s * Step, MaxWakeScale})
<1>0. Step \in Nat /\ Step >= 2 /\ MaxWakeScale \in Nat /\ MaxWakeScale >= Step
  BY CadenceSizes
<1>1. s \in Nat /\ s >= 1 /\ s * Step \in Nat /\ s * Step >= 1 /\ w * Step \in Nat
  <2>1. s \in Nat /\ Step * 1 <= Step * s
    BY <1>0, ProductOrder
  <2> QED BY <1>0, <2>1
<1>2. t = IF s * Step <= MaxWakeScale THEN s * Step ELSE MaxWakeScale
  BY <1>0, <1>1, LesserIs
<1> HIDE DEF t
<1>3. t \in 1 .. MaxWakeScale /\ t <= s * Step
  BY <1>0, <1>1, <1>2
<1>4. ASSUME NEW a \in Nat, a * s <= w PROVE a * t <= w * Step
  <2>1. a * t <= a * (s * Step) /\ a * t \in Nat
    BY <1>1, <1>3, ProductOrder
  <2>2. a * s \in Nat
    BY <1>1
  <2>3. Step * (a * s) <= Step * w /\ Step * w = w * Step
    BY <1>0, <1>4, <2>2, ProductOrder
  <2>4. a * (s * Step) = Step * (a * s) /\ a * (s * Step) \in Nat
    BY <1>0, <1>1
  <2> QED BY <1>1, <2>1, <2>3, <2>4
<1> QED BY <1>1, <1>3, <1>4 DEF t

LEMMA Tightened ==
  ASSUME NEW w \in Nat, NEW s \in 1 .. MaxWakeScale, s > 1
  PROVE  LET t == Model!Max({1, s \div Step})
         IN  /\ t \in 1 .. MaxWakeScale /\ (w * t) \div s \in Nat
             /\ \A a \in Nat : a * s <= w => a * t <= (w * t) \div s
<1> DEFINE t == Model!Max({1, s \div Step})
<1>0. Step \in Nat \ {0} /\ Step >= 2 /\ MaxWakeScale \in Nat /\ MaxWakeScale >= Step
  BY CadenceSizes
<1>1. s \in Nat \ {0} /\ s \div Step \in Nat /\ s \div Step <= s
  <2>1. s \in Nat \ {0} /\ s \div Step \in Nat
    BY <1>0, Divided
  <2>2. ~(Step * (s + 1) <= s)
    <3>1. Step * (s + 1) >= 1 * (s + 1)
      <4>1. (s + 1) * 1 <= (s + 1) * Step /\ (s + 1) * Step = Step * (s + 1)
        BY <1>0, <2>1, ProductOrder
      <4> QED BY <2>1, <4>1
    <3> QED BY <1>0, <2>1, <3>1
  <2>3. ~(s + 1 <= s \div Step)
    BY <1>0, <2>1, <2>2, QuotientAtLeast
  <2> QED BY <2>1, <2>3
<1>2. t = IF 1 >= s \div Step THEN 1 ELSE s \div Step
  BY <1>1, GreaterIs
<1> HIDE DEF t
<1>3. t \in 1 .. MaxWakeScale /\ t \in Nat
  BY <1>0, <1>1, <1>2
<1>4. w * t \in Nat
  BY <1>3
<1>5. (w * t) \div s \in Nat
  BY <1>1, <1>4, Divided
<1>6. ASSUME NEW a \in Nat, a * s <= w PROVE a * t <= (w * t) \div s
  <2>1. a * s \in Nat /\ a * t \in Nat
    BY <1>1, <1>3
  <2>2. t * (a * s) <= t * w
    BY <1>3, <1>6, <2>1, ProductOrder
  <2>3. t * (a * s) = s * (a * t) /\ t * w = w * t
    BY <1>1, <1>3
  <2> QED BY <1>1, <1>4, <2>1, <2>2, <2>3, QuotientAtLeast
<1> QED BY <1>3, <1>5, <1>6 DEF t

(* The state.                                                              *)
CadenceKind ==
  /\ seen \in BOOLEAN /\ learned \in BOOLEAN /\ reanchor \in BOOLEAN /\ wakeScale \in 1 .. MaxWakeScale
  /\ down \in BOOLEAN /\ (reanchor => down) /\ (seen /\ down => reanchor)
  /\ period \in Nat /\ wake \in Nat /\ stableIntervals \in Nat
  /\ history \in Seq(Intervals) /\ Len(history) <= HistoryLimit /\ real = history
  /\ effectiveHistory \in 0 .. Len(history)
  /\ effectiveHistory = 0 \/ effectiveHistory >= WarmupIntervals

CadenceFit ==
  learned => /\ seen /\ period > 0 /\ effectiveHistory >= WarmupIntervals
             /\ Fitted(history, effectiveHistory, period, wake, wakeScale)

CadenceInv == CadenceKind /\ CadenceFit

LEMMA CadenceStart == ASSUME Model!Init PROVE CadenceInv
<1>1. 0 \in Nat /\ 1 \in 1 .. MaxWakeScale /\ HistoryLimit \in Nat
  BY CadenceSizes
<1>2. history \in Seq(Intervals) /\ Len(history) = 0
  BY DEF Model!Init
<1>3. seen = FALSE /\ learned = FALSE /\ reanchor = FALSE /\ down = FALSE
  BY DEF Model!Init
<1>4. /\ seen \in BOOLEAN /\ learned \in BOOLEAN /\ reanchor \in BOOLEAN /\ down \in BOOLEAN
      /\ (reanchor => down) /\ (seen /\ down => reanchor)
  BY <1>3, Zenon
<1>5. effectiveHistory = 0 /\ wakeScale = 1 /\ period = 0 /\ wake = 0 /\ stableIntervals = 0 /\ real = history
  BY DEF Model!Init
<1>6. CadenceKind
  BY <1>1, <1>2, <1>4, <1>5 DEF CadenceKind
<1>7. CadenceFit
  BY <1>3 DEF CadenceFit
<1> QED BY <1>6, <1>7 DEF CadenceInv

LEMMA NextLimit ==
  ASSUME NEW u \in Nat, NEW m \in Nat, u < m
  PROVE  Model!NextHistoryLimit(u, m) \in u + 1 .. m
<1> DEFINE larger == {n \in Model!Range(Ladder) : n > u}
<1>1. Model!NextHistoryLimit(u, m) = IF larger = {} THEN m ELSE Model!Min({Model!Min(larger), m})
  BY Zenon DEF Model!NextHistoryLimit
<1>2. larger \in SUBSET Nat
  <2>1. \A i \in DOMAIN Ladder : Ladder[i] \in Nat
    <3>1. Ladder \in Seq(Nat)
      BY CadenceSizes
    <3> QED BY <3>1
  <2> QED BY <2>1 DEF Model!Range
<1>3. CASE larger = {}
  BY <1>1, <1>3
<1>4. CASE larger # {}
  <2> DEFINE l == Model!Min(larger)
  <2>1. l \in larger
    <3> HIDE DEF larger
    <3> QED BY <1>2, <1>4, LeastIs
  <2>2. l \in Nat /\ l > u
    BY <1>2, <2>1
  <2> HIDE DEF l
  <2>3. Model!Min({l, m}) = IF l <= m THEN l ELSE m
    BY <2>2, LesserIs
  <2> QED BY <1>1, <1>4, <2>2, <2>3 DEF l
<1> QED BY <1>3, <1>4

\* observe.
LEMMA LearnKeeps ==
  ASSUME CadenceInv, NEW delta \in Intervals, Model!Learn(delta), Model!Measure(delta), ~reanchor, reanchor' = FALSE
  PROVE  CadenceInv'
<1> DEFINE
      changed == seen /\ Model!ChangePoint(delta)
      h       == IF seen THEN Model!Newest(Append(history, delta), HistoryLimit) ELSE history
      stable  == IF changed THEN 0 ELSE IF seen /\ learned THEN stableIntervals + 1 ELSE stableIntervals
      used    == IF changed THEN Model!FallBack(history)
                 ELSE IF effectiveHistory = 0 THEN Model!Min({Len(h), MinHistoryLimit}) ELSE effectiveHistory
      most    == Model!Min({Len(h), HistoryLimit})
      next    == Model!NextHistoryLimit(used, most)
      grows   == stable >= HistoryGrowAfter /\ used < most /\ Model!CompatibleHistory(h, used, next, wake)
      size    == IF grows THEN next ELSE used
      f       == Model!RobustPeriod(Model!Newest(h, size))
      width   == Model!Envelope(f, wakeScale)
      wider   == Model!Min({wakeScale * Step, MaxWakeScale})
<1>1. /\ seen' = TRUE /\ history' = h
      /\ IF Len(h) < WarmupIntervals
         THEN /\ effectiveHistory' = (IF changed THEN used ELSE effectiveHistory)
              /\ stableIntervals' = stable
              /\ learned' = learned /\ period' = period /\ wake' = wake /\ wakeScale' = wakeScale
         ELSE /\ effectiveHistory' = size
              /\ stableIntervals' = (IF grows THEN 0 ELSE stable)
              /\ period' = f.period /\ learned' = (f.period > 0)
              /\ wake' = (IF changed /\ f.period > 0 THEN width * Step ELSE width)
              /\ wakeScale' = (IF changed THEN wider ELSE wakeScale)
  BY ZenonT(60) DEF Model!Learn
<1>2. /\ WarmupIntervals \in Nat /\ MinHistoryLimit \in Nat /\ HistoryLimit \in Nat /\ HistoryGrowAfter \in Nat
      /\ 2 <= WarmupIntervals /\ WarmupIntervals <= MinHistoryLimit /\ MinHistoryLimit <= HistoryLimit
      /\ Step \in Nat
  BY CadenceSizes
<1>3. CadenceKind /\ CadenceFit
  BY DEF CadenceInv
<1>4. changed => learned
  BY DEF Model!ChangePoint
<1>5. /\ h \in Seq(Intervals) /\ Len(h) <= HistoryLimit /\ Len(history) <= Len(h)
      /\ Len(history) + 1 <= HistoryLimit /\ seen => Len(h) = Len(history) + 1
      /\ Len(history) + 1 > HistoryLimit => Len(h) = HistoryLimit
      /\ Len(h) \in Nat /\ Len(history) \in Nat
  <2> DEFINE q == Append(history, delta)
  <2>0. Len(history) \in Nat /\ Len(history) <= HistoryLimit /\ history \in Seq(Intervals)
    BY <1>3 DEF CadenceKind
  <2>1. q \in Seq(Intervals) /\ Len(q) = Len(history) + 1
    BY <2>0
  <2> HIDE DEF q
  <2>2. /\ Model!Newest(q, HistoryLimit) \in Seq(Intervals)
        /\ Len(Model!Newest(q, HistoryLimit)) = IF Len(q) > HistoryLimit THEN HistoryLimit ELSE Len(q)
    BY <1>2, <2>1, NewestIntervals
  <2>3. CASE seen
    <3>1. h = Model!Newest(q, HistoryLimit)
      BY <2>3 DEF q
    <3> HIDE DEF h
    <3> QED BY <1>2, <2>0, <2>1, <2>2, <2>3, <3>1
  <2>4. CASE ~seen
    <3>1. h = history
      BY <2>4
    <3> HIDE DEF h
    <3> QED BY <1>2, <2>0, <2>4, <3>1
  <2> QED BY <2>3, <2>4
<1>6. real' = h /\ down' = FALSE /\ down' \in BOOLEAN /\ (reanchor' => down') /\ (seen' /\ down' => reanchor')
  <2>1. seen => ~down
    BY <1>3 DEF CadenceKind
  <2>2. real' = IF seen /\ ~down THEN Model!Newest(Append(real, delta), HistoryLimit) ELSE real
    BY DEF Model!Measure
  <2>3. real = history
    BY <1>3 DEF CadenceKind
  <2>4. real' = h
    BY <2>1, <2>2, <2>3
  <2>5. down' = FALSE
    BY DEF Model!Measure
  <2> QED BY <2>4, <2>5, Zenon
<1>7. stable \in Nat
  BY <1>3 DEF CadenceKind
<1>8. learned => Len(history) >= WarmupIntervals
  <2>1. effectiveHistory \in 0 .. Len(history) /\ (learned => effectiveHistory >= WarmupIntervals)
    BY <1>3 DEF CadenceKind, CadenceFit
  <2> QED BY <1>2, <1>5, <2>1
<1>9. CASE Len(h) < WarmupIntervals
  <2>1. ~learned /\ ~changed
    BY <1>2, <1>4, <1>5, <1>8, <1>9
  <2>2. /\ effectiveHistory' = effectiveHistory /\ stableIntervals' = stable /\ learned' = learned
        /\ period' = period /\ wake' = wake /\ wakeScale' = wakeScale
    <3> HIDE DEF changed, used, h, stable
    <3> QED BY <1>1, <1>9, <2>1
  <2>3. effectiveHistory \in 0 .. Len(h)
    <3>1. effectiveHistory \in 0 .. Len(history)
      BY <1>3 DEF CadenceKind
    <3> HIDE DEF h
    <3> QED BY <1>5, <3>1
  <2>4. CadenceKind'
    <3> HIDE DEF h, stable
    <3> QED BY <1>1, <1>3, <1>5, <1>6, <1>7, <2>2, <2>3 DEF CadenceKind
  <2>5. CadenceFit'
    BY <2>1, <2>2 DEF CadenceFit
  <2> QED BY <2>4, <2>5 DEF CadenceInv
<1>10. CASE ~(Len(h) < WarmupIntervals)
  <2> HIDE DEF h, stable
  <2>1. used \in Nat /\ WarmupIntervals <= used /\ used <= Len(h)
    <3>1. CASE changed
      <4>1. Model!FallBack(history) = IF MinHistoryLimit <= Len(history) + 1 THEN MinHistoryLimit ELSE Len(history) + 1
        <5>1. Len(history) + 1 \in Nat
          BY <1>5
        <5> QED BY <1>2, <5>1, LesserIs DEF Model!FallBack
      <4>2. used = Model!FallBack(history)
        BY <3>1
      <4>3. Len(history) >= WarmupIntervals /\ seen
        BY <1>4, <1>8, <3>1
      <4> HIDE DEF used, changed
      <4> QED BY <1>2, <1>5, <4>1, <4>2, <4>3
    <3>2. CASE ~changed /\ effectiveHistory = 0
      <4>1. used = Model!Min({Len(h), MinHistoryLimit})
        BY <3>2
      <4>2. used = IF Len(h) <= MinHistoryLimit THEN Len(h) ELSE MinHistoryLimit
        BY <1>2, <1>5, <4>1, LesserIs
      <4> HIDE DEF used
      <4> QED BY <1>2, <1>5, <1>10, <4>2
    <3>3. CASE ~changed /\ effectiveHistory # 0
      <4>1. used = effectiveHistory
        BY <3>3
      <4>2. effectiveHistory \in 0 .. Len(history) /\ effectiveHistory >= WarmupIntervals
        BY <1>3, <3>3 DEF CadenceKind
      <4> HIDE DEF used
      <4> QED BY <1>2, <1>5, <4>1, <4>2
    <3> QED BY <3>1, <3>2, <3>3
  <2> HIDE DEF used
  <2>2. most = Len(h)
    BY <1>2, <1>5, LesserIs
  <2> HIDE DEF most
  <2>3. size \in Nat /\ WarmupIntervals <= size /\ size <= Len(h)
    <3>1. CASE grows
      <4>1. size = next /\ used < most
        BY <3>1
      <4>2. next \in used + 1 .. most
        BY <1>5, <2>1, <2>2, <4>1, NextLimit
      <4> HIDE DEF size, next
      <4> QED BY <1>2, <1>5, <2>1, <2>2, <4>1, <4>2
    <3>2. CASE ~grows
      <4>1. size = used
        BY <3>2
      <4> QED BY <2>1, <4>1
    <3> QED BY <3>1, <3>2
  <2> HIDE DEF size, grows
  <2>4. wakeScale \in 1 .. MaxWakeScale /\ wakeScale \in Nat \ {0}
    BY <1>3 DEF CadenceKind
  <2>5. /\ f.period \in Nat /\ width \in Nat
        /\ f.period > 0 => Fitted(h, size, f.period, width, wakeScale)
    <3>1. size \in Nat \ {0}
      BY <1>2, <2>3
    <3> QED BY <1>5, <2>3, <2>4, <3>1, NewFit
  <2> HIDE DEF f, width
  <2>6. /\ wider \in 1 .. MaxWakeScale /\ width * Step \in Nat
        /\ \A a \in Nat : a * wakeScale <= width => a * wider <= width * Step
    BY <2>4, <2>5, Widened
  <2> HIDE DEF wider
  <2>7. f.period > 0 => Fitted(h, size, f.period, width * Step, wider)
    <3> SUFFICES ASSUME f.period > 0 PROVE Fitted(h, size, f.period, width * Step, wider)
      OBVIOUS
    <3>1. size \in 0 .. Len(h) /\ f.period \in Nat \ {0} /\ wakeScale \in Nat /\ wider \in Nat
      BY <1>5, <2>3, <2>4, <2>5, <2>6
    <3> DEFINE x == width * Step
    <3>2. x \in Nat /\ \A a \in Nat : a * wakeScale <= width => a * wider <= x
      BY <2>6
    <3> HIDE DEF x
    <3>3. Fitted(h, size, f.period, x, wider)
      BY <1>5, <2>5, <3>1, <3>2, FittedStep
    <3> QED BY <3>3 DEF x
  <2> HIDE DEF changed
  <2>8. /\ effectiveHistory' = size /\ stableIntervals' = (IF grows THEN 0 ELSE stable)
        /\ period' = f.period /\ learned' = (f.period > 0)
        /\ wake' = (IF changed /\ f.period > 0 THEN width * Step ELSE width)
        /\ wakeScale' = (IF changed THEN wider ELSE wakeScale)
    BY <1>1, <1>10
  <2>9. CadenceKind'
    <3>1. wake' \in Nat /\ wakeScale' \in 1 .. MaxWakeScale /\ stableIntervals' \in Nat /\ period' \in Nat
      BY <1>7, <2>4, <2>5, <2>6, <2>8
    <3>2. effectiveHistory' \in 0 .. Len(history') /\ effectiveHistory' >= WarmupIntervals
      BY <1>1, <1>2, <1>5, <2>3, <2>8
    <3>3. learned' \in BOOLEAN /\ seen' \in BOOLEAN /\ reanchor' \in BOOLEAN
      <4>1. seen' = TRUE /\ reanchor' = FALSE /\ learned' = (f.period > 0)
        BY <1>1, <2>8
      <4>2. (f.period > 0) \in BOOLEAN
        BY <2>5
      <4> QED BY <4>1, <4>2, Zenon
    <3>4. history' \in Seq(Intervals) /\ Len(history') <= HistoryLimit /\ real' = history'
      BY <1>1, <1>5, <1>6
    <3> QED BY <1>6, <3>1, <3>2, <3>3, <3>4 DEF CadenceKind
  <2>10. CadenceFit'
    <3> SUFFICES ASSUME learned'
                 PROVE  /\ seen' /\ period' > 0 /\ effectiveHistory' >= WarmupIntervals
                        /\ Fitted(history', effectiveHistory', period', wake', wakeScale')
      BY DEF CadenceFit, Fitted
    <3>1. f.period > 0
      BY <2>8
    <3>2. Fitted(h, size, f.period, wake', wakeScale')
      BY <2>5, <2>7, <2>8, <3>1
    <3> QED BY <1>1, <2>3, <2>8, <3>1, <3>2
  <2> QED BY <2>9, <2>10 DEF CadenceInv
<1> QED BY <1>9, <1>10

\* A step that touches the envelope only.
LEMMA RescaleKeeps ==
  ASSUME CadenceInv, wakeScale' \in 1 .. MaxWakeScale, wake' \in Nat,
         learned => \A a \in Nat : a * wakeScale <= wake => a * wakeScale' <= wake',
         UNCHANGED <<seen, history, learned, period, effectiveHistory, stableIntervals, reanchor, down, real>>
  PROVE  CadenceInv'
<1>1. /\ seen' = seen /\ history' = history /\ learned' = learned /\ period' = period /\ real' = real
      /\ effectiveHistory' = effectiveHistory /\ stableIntervals' = stableIntervals /\ reanchor' = reanchor
      /\ down' = down
  OBVIOUS
<1>2. CadenceKind'
  BY <1>1 DEF CadenceInv, CadenceKind
<1>3. CadenceFit'
  <2> SUFFICES ASSUME learned
               PROVE  /\ seen /\ period > 0 /\ effectiveHistory >= WarmupIntervals
                      /\ Fitted(history, effectiveHistory, period, wake', wakeScale')
    BY <1>1 DEF CadenceFit, Fitted
  <2>1. /\ history \in Seq(Intervals) /\ effectiveHistory \in 0 .. Len(history) /\ period \in Nat \ {0}
        /\ wake \in Nat /\ wakeScale \in Nat /\ wakeScale' \in Nat
        /\ Fitted(history, effectiveHistory, period, wake, wakeScale)
        /\ seen /\ effectiveHistory >= WarmupIntervals
    BY DEF CadenceInv, CadenceKind, CadenceFit
  <2>2. Fitted(history, effectiveHistory, period, wake', wakeScale')
    BY <2>1, FittedStep
  <2> QED BY <2>1, <2>2
<1> QED BY <1>2, <1>3 DEF CadenceInv

LEMMA WidenKeeps == ASSUME CadenceInv, Model!Widen PROVE CadenceInv'
<1>1. wake \in Nat /\ wakeScale \in 1 .. MaxWakeScale
  BY DEF CadenceInv, CadenceKind
<1>2. /\ wakeScale' = Model!Min({wakeScale * Step, MaxWakeScale})
      /\ wake' = IF learned THEN wake * Step ELSE wake
      /\ UNCHANGED <<seen, history, learned, period, effectiveHistory, stableIntervals, reanchor, down, real>>
  BY DEF Model!Widen
<1>3. /\ Model!Min({wakeScale * Step, MaxWakeScale}) \in 1 .. MaxWakeScale /\ wake * Step \in Nat
      /\ \A a \in Nat : a * wakeScale <= wake => a * Model!Min({wakeScale * Step, MaxWakeScale}) <= wake * Step
  BY <1>1, Widened
<1>4. /\ wakeScale' \in 1 .. MaxWakeScale /\ wake' \in Nat
      /\ learned => \A a \in Nat : a * wakeScale <= wake => a * wakeScale' <= wake'
  BY <1>1, <1>2, <1>3
<1> QED BY <1>2, <1>4, RescaleKeeps

LEMMA TightenKeeps == ASSUME CadenceInv, Model!Tighten PROVE CadenceInv'
<1>1. wake \in Nat /\ wakeScale \in 1 .. MaxWakeScale
  BY DEF CadenceInv, CadenceKind
<1>2. /\ wakeScale > 1 /\ wakeScale' = Model!Max({1, wakeScale \div Step})
      /\ wake' = IF learned THEN (wake * wakeScale') \div wakeScale ELSE wake
      /\ UNCHANGED <<seen, history, learned, period, effectiveHistory, stableIntervals, reanchor, down, real>>
  BY DEF Model!Tighten
<1> DEFINE t == Model!Max({1, wakeScale \div Step})
<1>3. /\ t \in 1 .. MaxWakeScale /\ (wake * t) \div wakeScale \in Nat
      /\ \A a \in Nat : a * wakeScale <= wake => a * t <= (wake * t) \div wakeScale
  BY <1>1, <1>2, Tightened
<1> HIDE DEF t
<1>4. wakeScale' = t
  BY <1>2 DEF t
<1>5. /\ wakeScale' \in 1 .. MaxWakeScale /\ wake' \in Nat
      /\ learned => \A a \in Nat : a * wakeScale <= wake => a * wakeScale' <= wake'
  BY <1>1, <1>2, <1>3, <1>4
<1> QED BY <1>2, <1>5, RescaleKeeps

LEMMA CadenceKeeps == ASSUME CadenceInv, [Next]_vars PROVE CadenceInv'
<1>1. CASE UNCHANGED cadenceVars
  <2>1. /\ seen' = seen /\ history' = history /\ learned' = learned /\ period' = period /\ wake' = wake
        /\ effectiveHistory' = effectiveHistory /\ stableIntervals' = stableIntervals
        /\ wakeScale' = wakeScale /\ reanchor' = reanchor /\ down' = down /\ real' = real
    BY <1>1 DEF cadenceVars
  <2>2. CadenceKind'
    BY <2>1 DEF CadenceInv, CadenceKind
  <2>3. CadenceFit'
    BY <2>1 DEF CadenceInv, CadenceFit, Fitted
  <2> QED BY <2>2, <2>3 DEF CadenceInv
<1>2. ASSUME NEW delta \in Intervals, Model!Observe(delta) PROVE CadenceInv'
  <2>1. CASE reanchor
    <3>1. /\ seen' = TRUE /\ reanchor' = FALSE
          /\ UNCHANGED <<history, learned, period, wake, effectiveHistory, stableIntervals, wakeScale>>
      BY <1>2, <2>1 DEF Model!Observe, Model!Reanchor
    <3>2. real' = real /\ down' = FALSE
      <4>1. down
        BY <2>1 DEF CadenceInv, CadenceKind
      <4> QED BY <1>2, <4>1 DEF Model!Observe, Model!Measure
    <3>3. seen' \in BOOLEAN /\ reanchor' \in BOOLEAN /\ down' \in BOOLEAN /\ ~reanchor' /\ ~down'
      BY <3>1, <3>2, Zenon
    <3>4. CadenceKind'
      BY <3>1, <3>2, <3>3 DEF CadenceInv, CadenceKind
    <3>5. CadenceFit'
      BY <3>1 DEF CadenceInv, CadenceFit, Fitted
    <3> QED BY <3>4, <3>5 DEF CadenceInv
  <2>2. CASE ~reanchor
    <3>1. Model!Learn(delta) /\ Model!Measure(delta) /\ reanchor' = FALSE
      BY <1>2, <2>2 DEF Model!Observe
    <3> QED BY <2>2, <3>1, LearnKeeps
  <2> QED BY <2>1, <2>2
<1>3. ASSUME Model!Discontinuity PROVE CadenceInv'
  <2>1. /\ seen' = FALSE /\ history' = <<>> /\ learned' = FALSE /\ period' = 0 /\ wake' = 0
        /\ effectiveHistory' = 0 /\ stableIntervals' = 0 /\ wakeScale' = 1 /\ real' = <<>> /\ reanchor' = reanchor
        /\ down' = down
    BY <1>3 DEF Model!Discontinuity
  <2>2. history' \in Seq(Intervals) /\ Len(history') = 0 /\ 1 \in 1 .. MaxWakeScale /\ HistoryLimit \in Nat
    BY <2>1, CadenceSizes
  <2>3. seen' \in BOOLEAN /\ learned' \in BOOLEAN
    BY <2>1, Zenon
  <2>4. /\ reanchor' \in BOOLEAN /\ down' \in BOOLEAN
        /\ (reanchor' => down') /\ (seen' /\ down' => reanchor')
    BY <2>1 DEF CadenceInv, CadenceKind
  <2>5. CadenceKind'
    BY <2>1, <2>2, <2>3, <2>4 DEF CadenceKind
  <2>6. CadenceFit'
    BY <2>1 DEF CadenceFit
  <2> QED BY <2>5, <2>6 DEF CadenceInv
<1>4. ASSUME Model!Resume PROVE CadenceInv'
  <2>1. /\ reanchor' = seen /\ down' = TRUE
        /\ UNCHANGED <<seen, history, learned, period, wake, effectiveHistory, stableIntervals, wakeScale, real>>
    BY <1>4 DEF Model!Resume
  <2>2. seen \in BOOLEAN
    BY DEF CadenceInv, CadenceKind
  <2>3. reanchor' \in BOOLEAN /\ down' \in BOOLEAN /\ down' /\ (seen' /\ down' => reanchor')
    <3>1. seen' = seen /\ reanchor' = seen /\ down' = TRUE
      BY <2>1
    <3> QED BY <2>2, <3>1, Zenon
  <2>4. CadenceKind'
    BY <2>1, <2>3 DEF CadenceInv, CadenceKind
  <2>5. CadenceFit'
    BY <2>1 DEF CadenceInv, CadenceFit, Fitted
  <2> QED BY <2>4, <2>5 DEF CadenceInv
<1>5. ASSUME Model!Next PROVE CadenceInv'
  BY <1>2, <1>3, <1>4, <1>5, WidenKeeps, TightenKeeps DEF Model!Next
<1>6. UNCHANGED cadenceVars \/ Model!Next
  BY DEF Next, vars
<1> QED BY <1>1, <1>5, <1>6

\* What is learned of a sender's cadence, with the reach of the envelope
\* measured in units of its scale, is an invariant of observe,
\* beginNewEpoch, tightenAfterRefresh, resetLearning and PrepareResume.
THEOREM CadenceInvariant == Spec => []CadenceInv
<1>1. Init => CadenceInv
  BY CadenceStart DEF Init
<1>2. CadenceInv /\ [Next]_vars => CadenceInv'
  BY CadenceKeeps
<1> QED BY <1>1, <1>2, PTL DEF Spec

\* No interval over a restart is ever learned from, and no interval measured
\* between two arrivals of one run is left out, for every set of intervals and
\* size of history: after PrepareResume the first arrival of a sender seen
\* before is taken for its phase only.
THEOREM HistoryRealThm == Spec => []HistoryReal
<1>1. CadenceInv => HistoryReal
  BY DEF CadenceInv, CadenceKind, HistoryReal, Model!HistoryReal
<1> QED BY <1>1, CadenceInvariant, PTL

\* A learned model rests on at least the warmup, finds the period through
\* missed arrivals, reaches the share of the intervals it was fitted to that
\* the quantile names, and is accepted by the next start, for every interval
\* set, history size, quantile, margin and scale.
THEOREM CadenceSoundThm == Spec => []CadenceSound
<1>1. CadenceInv => CadenceSound
  <2> SUFFICES ASSUME CadenceInv PROVE CadenceSound
    OBVIOUS
  <2>0. CadenceKind /\ CadenceFit /\ WarmupIntervals \in Nat
    BY CadenceSizes DEF CadenceInv
  <2>1. Model!TypeOK
    BY <2>0 DEF CadenceKind, Model!TypeOK
  <2>2. Model!ModelAccepted
    BY <2>0 DEF CadenceKind, CadenceFit, Model!ModelAccepted
  <2>3. Model!EnvelopeScaled
    <3>1. learned => Floor * wakeScale <= wake
      BY <2>0 DEF CadenceFit, Fitted
    <3> QED BY <2>0, <3>1, CadenceSizes DEF Model!EnvelopeScaled, CadenceKind
  <2>4. Model!PeriodFound
    BY <2>0, Zenon DEF CadenceFit, Fitted, Model!PeriodFound
  <2>5. Model!EnvelopeCovers
    <3> DEFINE reached == {i \in Len(history) - effectiveHistory + 1 .. Len(history) :
                             \/ Model!Multiple(history[i], period) > JitterMargin
                             \/ Model!Abs(history[i] - Model!Multiple(history[i], period) * period) <= wake}
               R == Reached(history, effectiveHistory, period, wake, wakeScale)
               t == JitterQuantile * effectiveHistory
    <3> SUFFICES ASSUME learned PROVE 100 * Cardinality(reached) >= t
      BY Counted, Zenon DEF Model!EnvelopeCovers
    <3>1. /\ history \in Seq(Intervals) /\ effectiveHistory \in 0 .. Len(history) /\ period \in Nat \ {0}
          /\ wake \in Nat /\ wakeScale \in Nat /\ wakeScale >= 1
          /\ Fitted(history, effectiveHistory, period, wake, wakeScale)
      BY <2>0 DEF CadenceKind, CadenceFit
    <3>2. ASSUME NEW i \in R PROVE i \in reached
      <4> DEFINE a == Off(history[i], period)
      <4>1. i \in Len(history) - effectiveHistory + 1 .. Len(history) /\ i \in 1 .. Len(history)
        BY <3>1 DEF Reached
      <4>2. Model!Multiple(history[i], period) > JitterMargin \/ a * wakeScale <= wake
        BY Zenon DEF Reached
      <4>3. a \in Nat
        <5>1. history[i] \in Intervals
          BY <3>1, <4>1
        <5>2. history[i] \in Nat \ {0}
          BY <5>1, CadenceSizes
        <5> QED BY <3>1, <5>2, OffIs
      <4> HIDE DEF a
      <4>4. a * 1 <= a * wakeScale /\ a * wakeScale \in Nat
        BY <3>1, <4>3, ProductOrder
      <4>5. a * wakeScale <= wake => a <= wake
        BY <3>1, <4>3, <4>4
      <4>6. Model!Multiple(history[i], period) > JitterMargin
              \/ Model!Abs(history[i] - Model!Multiple(history[i], period) * period) <= wake
        BY <4>2, <4>5, Zenon DEF a, Off
      <4> QED BY <4>1, <4>6, Zenon
    <3>3. IsFiniteSet(reached)
      <4>1. IsFiniteSet(Len(history) - effectiveHistory + 1 .. Len(history))
        <5>1. Len(history) \in Int /\ Len(history) - effectiveHistory + 1 \in Int
          BY <3>1
        <5> QED BY <5>1, FS_Interval
      <4>2. reached \in SUBSET (Len(history) - effectiveHistory + 1 .. Len(history))
        OBVIOUS
      <4> HIDE DEF reached
      <4> QED BY <4>1, <4>2, FS_Subset
    <3>4. Cardinality(R) \in Nat
      <4>1. effectiveHistory \in Nat
        BY <3>1
      <4> QED BY <3>1, <4>1, ReachedIs
    <3>5. t \in Nat /\ t <= 100 * Cardinality(R)
      <4>1. t \in Nat
        BY <3>1, CadenceSizes
      <4>2. t <= 100 * Cardinality(R)
        BY <3>1, Zenon DEF Fitted
      <4> QED BY <4>1, <4>2
    <3> HIDE DEF R, reached, t
    <3>6. R \in SUBSET reached
      BY <3>2
    <3>7. Cardinality(R) <= Cardinality(reached) /\ Cardinality(reached) \in Nat
      BY <3>3, <3>6, FS_Subset, FS_CardinalityType
    <3> QED BY <3>4, <3>5, <3>7
  <2> QED BY <2>1, <2>2, <2>3, <2>4, <2>5 DEF CadenceSound, Model!CadenceSound
<1> QED BY <1>1, CadenceInvariant, PTL
=============================================================================
