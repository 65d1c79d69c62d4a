--------------------------- MODULE RateLimiterProofs ---------------------------
(***************************************************************************)
(* What TLAPS proves about the counters of RateLimiter, for any limit and  *)
(* any length of the window: the invariant of one counter, that each of    *)
(* the operations keeps it, and how many requests it lets through.         *)
(***************************************************************************)
EXTENDS RateLimiter, FiniteSetTheorems, TLAPS

\* Let through since the counter with t ticks left was made.  Without a counter
\* everything that is remembered counts as one window.
InWindow(e, t) == e.age + t <= Period + 1

\* A counter n with t ticks left, its limit and what it let through: what is of
\* one window has places of its own, no place of the current window is missing,
\* and nothing has been let through in this tick while there is no counter.
WindowInv(requests, n, t, limit) ==
  /\ n \in 0..limit + 1 /\ t \in 0..Period
  /\ t = 0 <=> n = 0
  /\ requests \subseteq [age : 1..Period, place : 1..limit]
  /\ \A e, f \in requests :
       e.place = f.place /\ (InWindow(e, t) <=> InWindow(f, t)) => e = f
  /\ n > 0 => \A e \in requests : InWindow(e, t) => e.place <= n
  /\ n = 0 => \A e \in requests : e.age # 1
  /\ \A i \in 1..limit : i <= n => \E e \in requests : e.place = i /\ InWindow(e, t)

LimiterInv ==
  /\ count \in [Keys -> Nat]
  /\ ttl \in [Keys -> 0..Period]
  /\ recent \in [Keys -> SUBSET [age : Nat, place : Nat]]
  /\ pass \in [Passes -> [state : {"none", "old"}]
                         \union [state : {"fresh"}, key : Keys]]
  /\ \A k \in Keys : WindowInv(recent[k], count[k], ttl[k], LimitOf[k])

-------------------------------------------------------------------------------
\* One counter.

\* There is none.
LEMMA NoWindow ==
  ASSUME NEW limit \in Nat
  PROVE  WindowInv({}, 0, 0, limit)
BY RateLimiterAssumption DEF WindowInv

\* A request is counted, and let through if the counter is below its limit.
LEMMA CountedWindow ==
  ASSUME NEW requests, NEW n, NEW t, NEW limit \in Nat \ {0},
         WindowInv(requests, n, t, limit)
  PROVE  WindowInv(IF n < limit THEN requests \union {[age |-> 1, place |-> n + 1]}
                   ELSE requests,
                   IF n < limit + 1 THEN n + 1 ELSE n,
                   IF n = 0 THEN Period ELSE t, limit)
<1> DEFINE new == [age |-> 1, place |-> n + 1]
           n1 == IF n < limit + 1 THEN n + 1 ELSE n
           t1 == IF n = 0 THEN Period ELSE t
<1>p. Period \in Nat \ {0} BY RateLimiterAssumption
<1>n. /\ n \in Nat /\ n <= limit + 1 /\ t \in Nat /\ t <= Period
      /\ t = 0 <=> n = 0
  BY <1>p DEF WindowInv
<1>r. \A e \in requests : /\ e.age \in Nat /\ 1 <= e.age /\ e.age <= Period
                          /\ e.place \in Nat /\ 1 <= e.place /\ e.place <= limit
  BY <1>p DEF WindowInv
<1>m. n1 \in 1..limit + 1 /\ t1 \in 1..Period /\ n1 >= n BY <1>p, <1>n
\* What the new counter reaches back to: only the window of the old one, if any.
<1>w. \A e \in requests :
        InWindow(e, t1) <=> (n # 0 /\ InWindow(e, t))
  <2>1. CASE n = 0
    <3>1. \A e \in requests : e.age # 1 BY <2>1 DEF WindowInv
    <3> QED BY <1>p, <1>r, <2>1, <3>1 DEF InWindow
  <2>2. CASE n # 0 BY <2>2 DEF InWindow
  <2> QED BY <2>1, <2>2
<1>u. \A e, f \in requests :
        e.place = f.place /\ (InWindow(e, t1) <=> InWindow(f, t1)) => e = f
  <2>1. CASE n = 0
    <3>1. \A e \in requests : InWindow(e, t) BY <1>p, <1>n, <1>r, <2>1 DEF InWindow
    <3> QED BY <3>1 DEF WindowInv
  <2>2. CASE n # 0 BY <1>w, <2>2 DEF WindowInv
  <2> QED BY <2>1, <2>2
<1>1. CASE n < limit
  <2> DEFINE rs == requests \union {new}
  <2>1. n1 = n + 1 BY <1>1, <1>n
  <2>2. new \in [age : 1..Period, place : 1..limit] BY <1>1, <1>n, <1>p
  <2>3. rs \subseteq [age : 1..Period, place : 1..limit] BY <2>2 DEF WindowInv
  <2>4. InWindow(new, t1) BY <1>p, <1>m DEF InWindow
  <2>5. \A e \in requests : InWindow(e, t1) => e.place <= n
    BY <1>w, <1>n DEF WindowInv
  <2>6. \A e \in requests : InWindow(e, t1) => e.place # new.place
    BY <2>5, <1>n, <1>r
  <2>7. \A e, f \in rs :
          e.place = f.place /\ (InWindow(e, t1) <=> InWindow(f, t1)) => e = f
    BY <1>u, <2>4, <2>6
  <2>8. \A e \in rs : InWindow(e, t1) => e.place <= n1
    BY <1>n, <1>r, <2>1, <2>5
  <2>9. ASSUME NEW i \in 1..limit, i <= n1
        PROVE  \E e \in rs : e.place = i /\ InWindow(e, t1)
    <3>1. CASE i = n + 1 BY <2>4, <3>1
    <3>2. CASE i # n + 1
      <4>1. i <= n /\ n # 0 BY <1>n, <2>1, <2>9, <3>2
      <4>2. PICK e \in requests : e.place = i /\ InWindow(e, t)
        BY <4>1 DEF WindowInv
      <4> QED BY <1>w, <4>1, <4>2
    <3> QED BY <3>1, <3>2
  <2>10. WindowInv(rs, n1, t1, limit)
    <3> HIDE DEF new, rs, n1, t1
    <3>1. n1 # 0 /\ t1 # 0 /\ n1 \in 0..limit + 1 /\ t1 \in 0..Period BY <1>m, <1>p
    <3> QED BY <2>3, <2>7, <2>8, <2>9, <3>1 DEF WindowInv
  <2> QED BY <1>1, <2>10
<1>2. CASE ~(n < limit)
  <2>1. n # 0 /\ t1 = t BY <1>2, <1>n
  <2>2. \A e \in requests : InWindow(e, t1) => e.place <= n1
    BY <1>m, <1>n, <1>r, <2>1 DEF WindowInv
  <2>3. ASSUME NEW i \in 1..limit, i <= n1
        PROVE  \E e \in requests : e.place = i /\ InWindow(e, t1)
    <3>1. i <= n BY <1>2, <1>n
    <3> QED BY <2>1, <3>1 DEF WindowInv
  <2>4. WindowInv(requests, n1, t1, limit)
    <3>1. requests \subseteq [age : 1..Period, place : 1..limit] BY DEF WindowInv
    <3> HIDE DEF n1, t1
    <3>2. n1 # 0 /\ t1 # 0 /\ n1 \in 0..limit + 1 /\ t1 \in 0..Period BY <1>m, <1>p
    <3> QED BY <1>u, <2>2, <2>3, <3>1, <3>2 DEF WindowInv
  <2> QED BY <1>2, <2>4
<1> QED BY <1>1, <1>2

\* A tick passes: everything is a tick older, the oldest is forgotten, and so is
\* the counter if it was its last.
LEMMA AgedWindow ==
  ASSUME NEW requests, NEW n, NEW t, NEW limit \in Nat \ {0},
         WindowInv(requests, n, t, limit)
  PROVE  WindowInv(Aged(requests), IF t = 1 THEN 0 ELSE n,
                   IF t > 0 THEN t - 1 ELSE 0, limit)
<1> DEFINE n1 == IF t = 1 THEN 0 ELSE n
           t1 == IF t > 0 THEN t - 1 ELSE 0
<1>p. Period \in Nat \ {0} BY RateLimiterAssumption
<1>n. /\ n \in Nat /\ n <= limit + 1 /\ t \in Nat /\ t <= Period
      /\ t = 0 <=> n = 0
  BY <1>p DEF WindowInv
<1>t. requests \subseteq [age : 1..Period, place : 1..limit] BY DEF WindowInv
<1>m. /\ n1 \in 0..limit + 1 /\ t1 \in 0..Period
      /\ t1 = 0 <=> n1 = 0
  BY <1>p, <1>n
\* Every request remembered is an earlier one, a tick younger.
<1>a. \A e \in Aged(requests) : \E f \in requests :
        e = [f EXCEPT !.age = f.age + 1] /\ f.age < Period
  BY DEF Aged
<1>b. \A f \in requests : f.age < Period => [f EXCEPT !.age = f.age + 1] \in Aged(requests)
  BY DEF Aged
<1>c. \A f \in requests : f.age < Period =>
        /\ [f EXCEPT !.age = f.age + 1].age = f.age + 1
        /\ [f EXCEPT !.age = f.age + 1].place = f.place
        /\ [f EXCEPT !.age = f.age + 1] \in [age : 2..Period, place : 1..limit]
  BY <1>p, <1>t
<1>1. Aged(requests) \subseteq [age : 2..Period, place : 1..limit]
  BY <1>a, <1>c
<1>r. \A e \in requests : /\ e.age \in Nat /\ 1 <= e.age /\ e.age <= Period
                          /\ e.place \in Nat /\ 1 <= e.place /\ e.place <= limit
  BY <1>p, <1>t
\* It is of the same window as before.
<1>w. \A f \in requests : f.age < Period =>
        (InWindow([f EXCEPT !.age = f.age + 1], t1) <=> InWindow(f, t))
  <2> SUFFICES ASSUME NEW f \in requests, f.age < Period
               PROVE  InWindow([f EXCEPT !.age = f.age + 1], t1) <=> InWindow(f, t)
    OBVIOUS
  <2>1. [f EXCEPT !.age = f.age + 1].age = f.age + 1 BY <1>c
  <2>2. f.age \in Nat BY <1>r
  <2>3. CASE t = 0 BY <1>p, <2>1, <2>2, <2>3 DEF InWindow
  <2>4. CASE t # 0
    <3>1. t1 = t - 1 BY <1>n, <2>4
    <3> HIDE DEF t1
    <3> QED BY <1>p, <1>n, <2>1, <2>2, <3>1 DEF InWindow
  <2> QED BY <2>3, <2>4
<1>2. ASSUME NEW e \in Aged(requests), NEW f \in Aged(requests),
             e.place = f.place, InWindow(e, t1) <=> InWindow(f, t1)
      PROVE  e = f
  <2>1. PICK d \in requests : e = [d EXCEPT !.age = d.age + 1] /\ d.age < Period
    BY <1>a
  <2>2. PICK g \in requests : f = [g EXCEPT !.age = g.age + 1] /\ g.age < Period
    BY <1>a
  <2>3. d.place = g.place BY <1>2, <1>c, <2>1, <2>2
  <2>4. InWindow(d, t) <=> InWindow(g, t) BY <1>2, <1>w, <2>1, <2>2
  <2>5. d = g BY <2>3, <2>4 DEF WindowInv
  <2> QED BY <2>1, <2>2, <2>5
<1>3. ASSUME n1 > 0, NEW e \in Aged(requests), InWindow(e, t1)
      PROVE  e.place <= n1
  <2>1. n1 = n /\ n > 0 BY <1>3, <1>n
  <2>2. PICK d \in requests : e = [d EXCEPT !.age = d.age + 1] /\ d.age < Period
    BY <1>a
  <2>3. e.place = d.place /\ InWindow(d, t) BY <1>3, <1>c, <1>w, <2>2
  <2>4. d.place <= n BY <2>1, <2>3 DEF WindowInv
  <2> QED BY <2>1, <2>3, <2>4
<1>4. \A e \in Aged(requests) : e.age # 1 BY <1>1, <1>p
<1>5. ASSUME NEW i \in 1..limit, i <= n1
      PROVE  \E e \in Aged(requests) : e.place = i /\ InWindow(e, t1)
  <2>1. n1 = n /\ t # 1 /\ t # 0 BY <1>5, <1>n
  <2>2. PICK d \in requests : d.place = i /\ InWindow(d, t)
    BY <1>5, <2>1 DEF WindowInv
  <2>3. d.age < Period BY <1>p, <1>n, <1>r, <2>1, <2>2 DEF InWindow
  <2> QED BY <1>b, <1>c, <1>w, <2>2, <2>3
<1>6. Aged(requests) \subseteq [age : 1..Period, place : 1..limit] BY <1>1, <1>p
<1>7. WindowInv(Aged(requests), n1, t1, limit)
  <2> HIDE DEF n1, t1
  <2> QED BY <1>m, <1>2, <1>3, <1>4, <1>5, <1>6 DEF WindowInv
<1> QED BY <1>7

\* Each of two windows lets through no two requests at the same place, and more
\* than two do not meet in a window's length.
LEMMA WindowBound ==
  ASSUME NEW requests, NEW n, NEW t, NEW limit \in Nat \ {0},
         WindowInv(requests, n, t, limit)
  PROVE  Cardinality(requests) <= 2 * limit
<1> DEFINE Places == (1..2) \X (1..limit)
           place == [e \in requests |-> <<IF InWindow(e, t) THEN 1 ELSE 2, e.place>>]
<1>1. IsFiniteSet(1..2) /\ Cardinality(1..2) = 2
  <2>1. 1 \in Int /\ 2 \in Int /\ ~(1 > 2) /\ 2 - 1 + 1 = 2 OBVIOUS
  <2>2. Cardinality(1..2) = IF 1 > 2 THEN 0 ELSE 2 - 1 + 1 BY <2>1, FS_Interval
  <2>3. IsFiniteSet(1..2) BY <2>1, FS_Interval
  <2> QED BY <2>2, <2>3
<1>2. IsFiniteSet(1..limit) /\ Cardinality(1..limit) = limit
  BY FS_Interval
<1>3. IsFiniteSet(Places) /\ Cardinality(Places) = 2 * limit
  <2> DEFINE A == 1..2
             B == 1..limit
  <2>1. /\ IsFiniteSet(A) /\ Cardinality(A) = 2
        /\ IsFiniteSet(B) /\ Cardinality(B) = limit
    BY <1>1, <1>2
  <2> HIDE DEF A, B
  <2>2. IsFiniteSet(A \X B) /\ Cardinality(A \X B) = Cardinality(A) * Cardinality(B)
    BY <2>1, FS_Product
  <2>3. IsFiniteSet(A \X B) /\ Cardinality(A \X B) = 2 * limit BY <2>1, <2>2
  <2> QED BY <2>3 DEF A, B
<1>4. requests \subseteq [age : 1..Period, place : 1..limit] BY DEF WindowInv
<1>5. place \in [requests -> Places] BY <1>4
<1>6. \A e, f \in requests : place[e] = place[f] => e = f BY DEF WindowInv
<1>7. place \in Injection(requests, Places)
  <2> HIDE DEF Places, place
  <2> QED BY <1>5, <1>6 DEF Injection, IsInjective
<1> QED BY <1>3, <1>7, FS_Injection

\* Whoever is refused finds every place of the window taken.
LEMMA WindowFull ==
  ASSUME NEW requests, NEW n, NEW t, NEW limit \in Nat \ {0},
         WindowInv(requests, n, t, limit), ~(n < limit)
  PROVE  Cardinality(requests) >= limit
<1> DEFINE holder == [i \in 1..limit |-> CHOOSE e \in requests : e.place = i]
<1>1. n \in Nat BY DEF WindowInv
<1>2. \A i \in 1..limit : \E e \in requests : e.place = i BY <1>1 DEF WindowInv
<1>3. \A i \in 1..limit : holder[i] \in requests /\ holder[i].place = i BY <1>2
<1>4. holder \in Injection(1..limit, requests)
  <2>1. holder \in [1..limit -> requests] BY <1>3
  <2>2. \A i, j \in 1..limit : holder[i] = holder[j] => i = j BY <1>3
  <2> HIDE DEF holder
  <2> QED BY <2>1, <2>2 DEF Injection, IsInjective
<1>5. IsFiniteSet(requests)
  <2>1. IsFiniteSet(1..Period) /\ IsFiniteSet(1..limit)
    BY FS_Interval, RateLimiterAssumption
  <2>2. IsFiniteSet((1..Period) \X (1..limit)) BY <2>1, FS_Product
  <2> DEFINE pair == [e \in requests |-> <<e.age, e.place>>]
  <2>3. requests \subseteq [age : 1..Period, place : 1..limit] BY DEF WindowInv
  <2>4. pair \in [requests -> (1..Period) \X (1..limit)] BY <2>3
  <2>5. \A e, f \in requests : pair[e] = pair[f] => e = f BY <2>3
  <2>6. pair \in Injection(requests, (1..Period) \X (1..limit))
    <3> HIDE DEF pair
    <3> QED BY <2>4, <2>5 DEF Injection, IsInjective
  <2> QED BY <2>2, <2>6, FS_Injection
<1>6. Cardinality(1..limit) = limit BY FS_Interval
<1>7. Cardinality(1..limit) <= Cardinality(requests) BY <1>4, <1>5, FS_Injection
<1>8. Cardinality(requests) \in Nat BY <1>5, FS_CardinalityType
<1> QED BY <1>6, <1>7, <1>8
===============================================================================
