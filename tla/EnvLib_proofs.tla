---------------------------- MODULE EnvLib_proofs ---------------------------
(***************************************************************************)
(* Three parts.  First, what the macros of include/queue.h do to a         *)
(* well-formed queue.                                                      *)
(*                                                                         *)
(* Second, the table of environments under any program: whatever system    *)
(* calls are made, in whatever order and with whatever arguments, slots    *)
(* and ASIDs have one owner, ids name their environments and only a parent *)
(* stops another environment.  None of this needs the scheduler's queue to *)
(* be well formed, which under such programs it is not.                    *)
(*                                                                         *)
(* Third, the scheduler's queue: it is right for every number of           *)
(* environments, ASIDs and priorities, as long as the user library is what *)
(* makes the system calls and mkenvid's counter has not run through all    *)
(* its values.  The invariant IInv is proved inductive, one lemma per kind *)
(* of action; schedule, which most handlers end in, has its own lemma.     *)
(***************************************************************************)
EXTENDS EnvLib, FiniteSetTheorems, WellFoundedInduction, TLAPS

-----------------------------------------------------------------------------
(* The macros of include/queue.h on a well-formed queue: what each does to *)
(* the sequence of elements the links represent.                           *)

(* TAILQ_INIT gives a well-formed empty queue. *)
LEMMA InitRepresents ==
    ASSUME NEW S, QHead \notin S, Null \notin S
    PROVE  /\ TAILQ_INIT(S) \in Tailqs(S)
           /\ Represents(TAILQ_INIT(S), <<>>)
BY DEF TAILQ_INIT, Tailqs, Represents, Injective, Before

(* TAILQ_FIRST of a well-formed queue is its first element, or null. *)
LEMMA FirstRepresents ==
    ASSUME NEW S, NEW q \in Tailqs(S), NEW s \in Seq(S), Represents(q, s)
    PROVE  /\ s = <<>> => TAILQ_FIRST(q) = Null
           /\ s # <<>> => TAILQ_FIRST(q) = s[1]
<1>1. CASE s = <<>>
  BY <1>1 DEF Represents, TAILQ_FIRST, Before
<1>2. CASE s # <<>>
  <2>1. Len(s) \in Nat \ {0}
    BY <1>2
  <2>2. q.next[Before(s, 1 - 1)] = s[1]
    BY <2>1 DEF Represents
  <2> QED BY <2>2, <1>2 DEF TAILQ_FIRST, Before
<1> QED BY <1>1, <1>2

(* TAILQ_INSERT_TAIL of a new element appends it. *)
LEMMA InsertTailRepresents ==
    ASSUME NEW S, QHead \notin S, Null \notin S,
           NEW q \in Tailqs(S), NEW s \in Seq(S), Represents(q, s),
           NEW e \in S, e \notin Elements(s)
    PROVE  /\ TAILQ_INSERT_TAIL(q, e) \in Tailqs(S)
           /\ Represents(TAILQ_INSERT_TAIL(q, e), Append(s, e))
<1> DEFINE r == TAILQ_INSERT_TAIL(q, e)
           t == Append(s, e)
           n == Len(s)
<1>1. /\ n \in Nat /\ t \in Seq(S) /\ Len(t) = n + 1 /\ t[n + 1] = e
      /\ \A i \in 1..n : t[i] = s[i] /\ s[i] \in S /\ s[i] # e
  BY DEF Elements
<1>2. q.last = Before(s, n) /\ q.last \in S \cup {QHead} /\ q.last # e
  BY <1>1 DEF Represents, Before, Tailqs
<1>3. r \in Tailqs(S)
  BY <1>2 DEF Tailqs, TAILQ_INSERT_TAIL
<1>4. /\ r.last = e /\ r.prev[e] = q.last /\ r.next[q.last] = e /\ r.next[e] = Null
      /\ \A a \in S \cup {QHead} : a # e /\ a # q.last => r.next[a] = q.next[a]
      /\ \A a \in S : a # e => r.prev[a] = q.prev[a]
  BY <1>2 DEF Tailqs, TAILQ_INSERT_TAIL
<1>5. Injective(t)
  <2>1. \A i, j \in 1..n : s[i] = s[j] => i = j
    BY DEF Represents, Injective
  <2>2. \A i \in 1..Len(t) : i \in 1..n \/ i = n + 1
    BY <1>1
  <2> HIDE DEF t, n, r
  <2>3. \A i, j \in 1..Len(t) : t[i] = t[j] => i = j
    BY <1>1, <2>1, <2>2
  <2> QED BY <2>3 DEF Injective
<1>6. \A i \in 0..n : Before(t, i) = Before(s, i) /\ Before(s, i) \in S \cup {QHead}
                      /\ Before(s, i) # e
  BY <1>1 DEF Before
<1>7. ASSUME NEW i \in 1..Len(t)
      PROVE  r.next[Before(t, i - 1)] = t[i] /\ r.prev[t[i]] = Before(t, i - 1)
  <2>1. CASE i = n + 1
    BY <2>1, <1>1, <1>2, <1>4, <1>6
  <2>2. CASE i \in 1..n
    <3>1. Before(s, i - 1) # Before(s, n)
      BY <1>1, <2>2 DEF Before, Represents, Injective
    <3>2. q.next[Before(s, i - 1)] = s[i] /\ q.prev[s[i]] = Before(s, i - 1)
      BY <2>2 DEF Represents
    <3>3. i - 1 \in 0..n
      BY <2>2, <1>1
    <3> QED BY <3>1, <3>2, <3>3, <1>1, <1>2, <1>4, <1>6, <2>2
  <2> QED BY <2>1, <2>2, <1>1
<1>8. r.next[Before(t, Len(t))] = Null /\ r.last = Before(t, Len(t))
  BY <1>1, <1>4 DEF Before
<1> QED BY <1>3, <1>5, <1>7, <1>8 DEF Represents

(* TAILQ_INSERT_HEAD of a new element puts it first. *)
LEMMA InsertHeadRepresents ==
    ASSUME NEW S, QHead \notin S, Null \notin S,
           NEW q \in Tailqs(S), NEW s \in Seq(S), Represents(q, s),
           NEW e \in S, e \notin Elements(s)
    PROVE  /\ TAILQ_INSERT_HEAD(q, e) \in Tailqs(S)
           /\ Represents(TAILQ_INSERT_HEAD(q, e), <<e>> \o s)
<1> DEFINE r == TAILQ_INSERT_HEAD(q, e)
           t == <<e>> \o s
           n == Len(s)
           f == TAILQ_FIRST(q)
<1>1. /\ n \in Nat /\ t \in Seq(S) /\ Len(t) = n + 1 /\ t[1] = e
      /\ \A i \in 1..n : t[i + 1] = s[i] /\ s[i] \in S /\ s[i] # e
  BY DEF Elements
<1>2. /\ n = 0 => f = Null /\ q.last = QHead
      /\ n # 0 => f = s[1] /\ f # e /\ f \in S /\ q.last = s[n]
  BY <1>1, FirstRepresents DEF Represents, Before
<1>3. r \in Tailqs(S)
  BY <1>1, <1>2 DEF Tailqs, TAILQ_INSERT_HEAD, TAILQ_FIRST
<1>4. /\ r.next[QHead] = e /\ r.next[e] = f /\ r.prev[e] = QHead
      /\ n # 0 => r.prev[f] = e /\ r.last = q.last
      /\ n = 0 => r.last = e
      /\ \A a \in S : a # e => r.next[a] = q.next[a]
      /\ \A a \in S : a # e /\ a # f => r.prev[a] = q.prev[a]
  BY <1>1, <1>2 DEF Tailqs, TAILQ_INSERT_HEAD
<1>5. Injective(t)
  <2> SUFFICES ASSUME NEW i \in 1..n + 1, NEW j \in 1..n + 1, t[i] = t[j]
               PROVE  i = j
    BY <1>1 DEF Injective
  <2>1. \A k \in 1..n + 1 : k = 1 \/ (k - 1 \in 1..n /\ t[k] = s[k - 1])
    BY <1>1
  <2> QED BY <2>1, <1>1 DEF Injective, Represents
<1>6. ASSUME NEW i \in 1..Len(t)
      PROVE  r.next[Before(t, i - 1)] = t[i] /\ r.prev[t[i]] = Before(t, i - 1)
  <2>1. CASE i = 1
    BY <2>1, <1>1, <1>4 DEF Before
  <2>2. CASE i = 2
    BY <2>2, <1>1, <1>2, <1>4 DEF Before
  <2>3. CASE i \in 3..n + 1
    <3>1. /\ t[i] = s[i - 1] /\ t[i - 1] = s[i - 2]
          /\ s[i - 1] # s[1] /\ i - 1 \in 1..n /\ i - 2 \in 1..n
      BY <2>3, <1>1 DEF Represents, Injective
    <3>2. q.next[s[i - 2]] = s[i - 1] /\ q.prev[s[i - 1]] = s[i - 2]
      BY <3>1, <2>3, <1>1 DEF Represents, Before
    <3> QED BY <3>1, <3>2, <1>1, <1>2, <1>4, <2>3 DEF Before
  <2> QED BY <2>1, <2>2, <2>3, <1>1
<1>7. r.next[Before(t, Len(t))] = Null /\ r.last = Before(t, Len(t))
  <2>1. CASE n = 0
    BY <2>1, <1>1, <1>2, <1>4 DEF Before
  <2>2. CASE n # 0
    <3>1. q.next[s[n]] = Null /\ t[n + 1] = s[n] /\ s[n] # e /\ s[n] \in S
      BY <2>2, <1>1 DEF Represents, Before
    <3> QED BY <3>1, <2>2, <1>1, <1>2, <1>4 DEF Before
  <2> QED BY <2>1, <2>2
<1> QED BY <1>3, <1>5, <1>6, <1>7 DEF Represents

(* TAILQ_REMOVE of the first element leaves the others, and doing it again *)
(* at once changes nothing: the removed element's stale links still agree  *)
(* with the queue.  sys_ipc_recv followed by schedule does exactly that.   *)
LEMMA RemoveFirstRepresents ==
    ASSUME NEW S, QHead \notin S, Null \notin S,
           NEW q \in Tailqs(S), NEW s \in Seq(S), Represents(q, s), s # <<>>
    PROVE  /\ TAILQ_REMOVE(q, s[1]) \in Tailqs(S)
           /\ Represents(TAILQ_REMOVE(q, s[1]), Tail(s))
           /\ TAILQ_REMOVE(TAILQ_REMOVE(q, s[1]), s[1]) = TAILQ_REMOVE(q, s[1])
<1> DEFINE e == s[1]
           r == TAILQ_REMOVE(q, e)
           t == Tail(s)
           n == Len(s)
           f == q.next[e]
<1>1. /\ n \in Nat \ {0} /\ t \in Seq(S) /\ Len(t) = n - 1
      /\ \A i \in 1..n - 1 : t[i] = s[i + 1]
      /\ \A i \in 1..n : s[i] \in S
  OBVIOUS
<1>2. /\ q.prev[e] = QHead /\ e \in S
      /\ n = 1 => f = Null /\ q.last = e
      /\ n # 1 => f = s[2] /\ f # e /\ f \in S
  <2>1. q.prev[e] = QHead /\ e \in S
    BY <1>1 DEF Represents, Before
  <2>2. n = 1 => f = Null /\ q.last = e
    BY <1>1 DEF Represents, Before
  <2>3. n # 1 => f = s[2] /\ f # e /\ f \in S
    BY <1>1 DEF Represents, Before, Injective
  <2> QED BY <2>1, <2>2, <2>3
<1>3. r \in Tailqs(S)
  BY <1>1, <1>2 DEF Tailqs, TAILQ_REMOVE
<1>4. /\ r.next[QHead] = f /\ r.next[e] = f /\ r.prev[e] = QHead
      /\ n # 1 => r.prev[f] = QHead /\ r.last = q.last
      /\ n = 1 => r.last = QHead
      /\ \A a \in S : r.next[a] = q.next[a]
      /\ \A a \in S : a # f => r.prev[a] = q.prev[a]
  BY <1>1, <1>2 DEF Tailqs, TAILQ_REMOVE
<1>5. Injective(t)
  BY <1>1 DEF Injective, Represents
<1>6. ASSUME NEW i \in 1..Len(t)
      PROVE  r.next[Before(t, i - 1)] = t[i] /\ r.prev[t[i]] = Before(t, i - 1)
  <2>1. CASE i = 1
    BY <2>1, <1>1, <1>2, <1>4 DEF Before
  <2>2. CASE i # 1
    <3>1. /\ t[i] = s[i + 1] /\ t[i - 1] = s[i] /\ s[i + 1] # s[2]
          /\ i \in 1..n /\ i + 1 \in 1..n
      BY <2>2, <1>1 DEF Represents, Injective
    <3>2. q.next[s[i]] = s[i + 1] /\ q.prev[s[i + 1]] = s[i]
      BY <3>1, <2>2, <1>1 DEF Represents, Before
    <3> QED BY <3>1, <3>2, <1>1, <1>2, <1>4, <2>2 DEF Before
  <2> QED BY <2>1, <2>2
<1>7. r.next[Before(t, Len(t))] = Null /\ r.last = Before(t, Len(t))
  <2>1. CASE n = 1
    BY <2>1, <1>1, <1>2, <1>4 DEF Before
  <2>2. CASE n # 1
    <3>1. q.next[s[n]] = Null /\ q.last = s[n] /\ t[n - 1] = s[n] /\ s[n] \in S
      BY <2>2, <1>1 DEF Represents, Before
    <3> QED BY <3>1, <2>2, <1>1, <1>4 DEF Before
  <2> QED BY <2>1, <2>2
<1>8. TAILQ_REMOVE(r, e) = r
  <2>1. [r.next EXCEPT ![QHead] = f] = r.next
    BY <1>3, <1>4 DEF Tailqs
  <2>2. f # Null => [r.prev EXCEPT ![f] = QHead] = r.prev
    BY <1>1, <1>2, <1>3, <1>4 DEF Tailqs
  <2>3. f = Null => r.last = QHead
    BY <1>1, <1>2, <1>4
  <2> QED BY <2>1, <2>2, <2>3, <1>3, <1>4 DEF TAILQ_REMOVE, Tailqs
<1> QED BY <1>3, <1>5, <1>6, <1>7, <1>8 DEF Represents

(* The links determine the order: of two sequences that a queue represents *)
(* one is a prefix of the other, and the null link ends both.              *)
LEMMA SamePrefix ==
    ASSUME NEW S, Null \notin S, NEW q, NEW s \in Seq(S), NEW t \in Seq(S),
           Represents(q, s), Represents(q, t)
    PROVE  Len(s) <= Len(t) /\ \A i \in 1..Len(s) : s[i] = t[i]
<1> DEFINE Good(i) == i <= Len(t) /\ (i >= 1 => s[i] = t[i])
           Bad == {i \in 0..Len(s) : ~Good(i)}
           R == OpToRel(<, Nat)
<1>0. Len(s) \in Nat /\ Len(t) \in Nat
  OBVIOUS
<1>1. Bad = {}
  <2> SUFFICES ASSUME Bad # {} PROVE FALSE
    OBVIOUS
  <2>1. Bad \subseteq Nat
    BY <1>0
  <2>2. PICK m \in Bad : \A j \in Bad : ~(<<j, m>> \in R)
    <3> HIDE DEF Bad
    <3> QED BY <2>1, NatLessThanWellFounded, WFMin
  <2>3. \A j \in Bad : ~(j < m)
    <3> HIDE DEF Bad
    <3> QED BY <2>1, <2>2 DEF OpToRel
  <2>4. m \in 0..Len(s) /\ ~Good(m) /\ m # 0
    <3>1. m \in 0..Len(s) /\ ~Good(m)
      BY <2>2
    <3>2. Good(0)
      BY <1>0
    <3> HIDE DEF Good
    <3> QED BY <3>1, <3>2
  <2>5. m - 1 \in 0..Len(s) /\ m \in 1..Len(s) /\ m - 1 < m
    BY <1>0, <2>4
  <2>6. m - 1 \notin Bad
    BY <2>3, <2>5
  <2>7. m - 1 <= Len(t) /\ (m - 1 >= 1 => s[m - 1] = t[m - 1])
    BY <2>5, <2>6
  <2>8. Before(s, m - 1) = Before(t, m - 1)
    BY <2>5, <2>7 DEF Before
  <2>9. q.next[Before(t, m - 1)] = s[m] /\ s[m] \in S
    BY <2>5, <2>8 DEF Represents
  <2>10. m - 1 # Len(t)
    BY <2>9 DEF Represents
  <2>11. m \in 1..Len(t)
    BY <1>0, <2>5, <2>7, <2>10
  <2>12. t[m] = s[m]
    BY <2>9, <2>11 DEF Represents
  <2>13. Good(m)
    BY <1>0, <2>11, <2>12
  <2> QED BY <2>4, <2>13
<1>2. \A i \in 0..Len(s) : i <= Len(t) /\ (i >= 1 => s[i] = t[i])
  BY <1>1
<1> QED BY <1>0, <1>2

LEMMA OneOrder ==
    ASSUME NEW S, Null \notin S, NEW q, NEW s \in Seq(S), NEW t \in Seq(S),
           Represents(q, s), Represents(q, t)
    PROVE  s = t
<1>1. Len(s) <= Len(t) /\ Len(t) <= Len(s) /\ \A i \in 1..Len(s) : s[i] = t[i]
  BY SamePrefix
<1>2. Len(s) = Len(t) /\ Len(s) \in Nat /\ Len(t) \in Nat
  BY <1>1
<1> QED BY <1>1, <1>2

-----------------------------------------------------------------------------

(* mkenvid's counter does not wrap in the behaviours we speak about: fewer *)
(* than 2^21 environments are created.                                     *)
NoWrap == MaxGen < GenMod

-----------------------------------------------------------------------------
(* Sequences of environments. *)

LEMMA EnvFinite == IsFiniteSet(Env) /\ Cardinality(Env) \in Nat
<1>1. 0 \in Int /\ NENV - 1 \in Int
  BY SizeAssumption
<1>2. IsFiniteSet(0..NENV - 1)
  BY <1>1, FS_Interval
<1> QED BY <1>2, FS_CardinalityType DEF Env

(* A sequence without repetitions is no longer than its set of elements. *)
LEMMA OrderIsShort ==
    ASSUME NEW s \in Seq(Env), Injective(s)
    PROVE  s \in SeqsUpTo(Env, Cardinality(Env))
<1>1. /\ IsFiniteSet(Env) /\ IsFiniteSet(1..Len(s))
      /\ Cardinality(1..Len(s)) = Len(s)
      /\ Cardinality(Env) \in Nat
  <2>1. Len(s) \in Nat /\ 1 \in Int /\ Len(s) \in Int
    OBVIOUS
  <2>2. /\ IsFiniteSet(1..Len(s))
        /\ Cardinality(1..Len(s)) = IF 1 > Len(s) THEN 0 ELSE Len(s) - 1 + 1
    BY <2>1, FS_Interval
  <2> QED BY <2>1, <2>2, EnvFinite
<1>2. s \in [1..Len(s) -> Env] /\ Len(s) \in Nat
  OBVIOUS
<1>3. ~(Cardinality(Env) < Cardinality(1..Len(s)))
  <2> SUFFICES ASSUME Cardinality(Env) < Cardinality(1..Len(s)) PROVE FALSE
    OBVIOUS
  <2>1. \E x, y \in 1..Len(s) : x # y /\ s[x] = s[y]
    BY <1>1, <1>2, FS_PigeonHole
  <2> QED BY <2>1 DEF Injective
<1>4. Len(s) \in 0..Cardinality(Env)
  BY <1>1, <1>2, <1>3
<1> QED BY <1>2, <1>4 DEF SeqsUpTo

LEMMA OrderIsSeq ==
    ASSUME NEW s \in SeqsUpTo(Env, Cardinality(Env))
    PROVE  s \in Seq(Env)
<1>2. PICK m \in 0..Cardinality(Env) : s \in [1..m -> Env]
  BY DEF SeqsUpTo
<1>3. m \in Nat
  BY EnvFinite
<1> QED BY <1>2, <1>3

(* What appending, prepending and dropping do to the set of elements. *)
LEMMA ElementsOfAppend ==
    ASSUME NEW s \in Seq(Env), NEW e \in Env
    PROVE  Elements(Append(s, e)) = Elements(s) \cup {e}
<1>1. /\ Len(Append(s, e)) = Len(s) + 1 /\ Append(s, e)[Len(s) + 1] = e
      /\ \A i \in 1..Len(s) : Append(s, e)[i] = s[i]
      /\ Len(s) \in Nat
  OBVIOUS
<1>2. \A i \in 1..Len(s) + 1 : i \in 1..Len(s) \/ i = Len(s) + 1
  BY <1>1
<1>3. \A i \in 1..Len(s) : i \in 1..Len(s) + 1
  BY <1>1
<1>4. Len(s) + 1 \in 1..Len(s) + 1
  BY <1>1
<1> QED BY <1>1, <1>2, <1>3, <1>4 DEF Elements

LEMMA ElementsOfPrepend ==
    ASSUME NEW s \in Seq(Env), NEW e \in Env
    PROVE  Elements(<<e>> \o s) = Elements(s) \cup {e}
<1> DEFINE t == <<e>> \o s
<1>1. /\ Len(t) = Len(s) + 1 /\ t[1] = e
      /\ \A i \in 1..Len(s) : t[i + 1] = s[i]
      /\ Len(s) \in Nat
  OBVIOUS
<1>2. \A i \in 1..Len(t) : i = 1 \/ (i - 1 \in 1..Len(s) /\ t[i] = s[i - 1])
  BY <1>1
<1>3. \A i \in 1..Len(s) : i + 1 \in 1..Len(t)
  BY <1>1
<1>4. 1 \in 1..Len(t)
  BY <1>1
<1>5. ASSUME NEW x \in Elements(t) PROVE x \in Elements(s) \cup {e}
  BY <1>1, <1>2, <1>5 DEF Elements
<1>6. ASSUME NEW x \in Elements(s) PROVE x \in Elements(t)
  BY <1>1, <1>3, <1>6 DEF Elements
<1>7. e \in Elements(t)
  BY <1>1, <1>4 DEF Elements
<1> QED BY <1>5, <1>6, <1>7

LEMMA InjectiveTail ==
    ASSUME NEW s \in Seq(Env), s # <<>>, Injective(s)
    PROVE  Injective(Tail(s))
<1>1. /\ Len(Tail(s)) = Len(s) - 1 /\ Len(s) \in Nat \ {0}
      /\ \A i \in 1..Len(Tail(s)) : Tail(s)[i] = s[i + 1] /\ i + 1 \in 1..Len(s)
  OBVIOUS
<1> SUFFICES ASSUME NEW i \in 1..Len(Tail(s)), NEW j \in 1..Len(Tail(s)),
                    Tail(s)[i] = Tail(s)[j]
             PROVE  i = j
  BY DEF Injective
<1>2. i + 1 = j + 1
  BY <1>1 DEF Injective
<1> QED BY <1>1, <1>2

LEMMA InjectivePrepend ==
    ASSUME NEW s \in Seq(Env), NEW e \in Env, Injective(s), e \notin Elements(s)
    PROVE  Injective(<<e>> \o s)
<1> DEFINE t == <<e>> \o s
<1>1. /\ Len(t) = Len(s) + 1 /\ t[1] = e /\ Len(s) \in Nat
      /\ \A i \in 1..Len(t) : i = 1 \/ (i - 1 \in 1..Len(s) /\ t[i] = s[i - 1])
  OBVIOUS
<1>2. \A i \in 1..Len(s) : s[i] # e
  BY DEF Elements
<1> SUFFICES ASSUME NEW i \in 1..Len(t), NEW j \in 1..Len(t), t[i] = t[j]
             PROVE  i = j
  BY DEF Injective
<1>3. i = 1 <=> j = 1
  BY <1>1, <1>2
<1>4. i # 1 => i - 1 = j - 1
  BY <1>1, <1>3 DEF Injective
<1> QED BY <1>1, <1>3, <1>4

LEMMA ElementsOfTail ==
    ASSUME NEW s \in Seq(Env), s # <<>>, Injective(s)
    PROVE  /\ Tail(s) \in Seq(Env)
           /\ s[1] \in Elements(s)
           /\ Elements(Tail(s)) = Elements(s) \ {s[1]}
<1> DEFINE t == Tail(s)
<1>1. /\ Len(t) = Len(s) - 1 /\ Len(s) \in Nat \ {0} /\ t \in Seq(Env)
      /\ \A i \in 1..Len(t) : t[i] = s[i + 1]
  OBVIOUS
<1>2. \A i \in 1..Len(t) : i + 1 \in 1..Len(s) /\ s[i + 1] # s[1]
  BY <1>1 DEF Injective
<1>3. \A i \in 1..Len(s) : i = 1 \/ (i - 1 \in 1..Len(t) /\ t[i - 1] = s[i])
  BY <1>1
<1>4. ASSUME NEW x \in Elements(t) PROVE x \in Elements(s) \ {s[1]}
  BY <1>1, <1>2, <1>4 DEF Elements
<1>5. ASSUME NEW x \in Elements(s) \ {s[1]} PROVE x \in Elements(t)
  BY <1>3, <1>5 DEF Elements
<1>6. s[1] \in Elements(s)
  BY <1>1 DEF Elements
<1> QED BY <1>1, <1>4, <1>5, <1>6

-----------------------------------------------------------------------------
(* Identifiers and ASIDs. *)

(* asid_alloc returns a free ASID when there is one. *)
LEMMA AsidIsFree ==
    ASSUME FreeAsids # {}
    PROVE  asid_alloc \in FreeAsids
<1> DEFINE R == OpToRel(<, Nat)
<1>1. FreeAsids \subseteq Nat
  BY SizeAssumption DEF FreeAsids
<1>2. \E x \in FreeAsids : \A y \in FreeAsids : ~(<<y, x>> \in R)
  BY <1>1, NatLessThanWellFounded, WFMin
<1>3. PICK x \in FreeAsids : \A y \in FreeAsids : ~(<<y, x>> \in R)
  BY <1>2
<1>4. ASSUME NEW y \in FreeAsids PROVE x <= y
  <2>1. ~(y < x)
    BY <1>1, <1>3, <1>4 DEF OpToRel
  <2> QED BY <2>1, <1>1
<1>5. \E a \in FreeAsids : \A b \in FreeAsids : a <= b
  BY <1>4
<1> QED BY <1>5 DEF asid_alloc

(* Before the counter wraps an id is never 0 and never 1, and names its    *)
(* slot.                                                                   *)
LEMMA NewId ==
    ASSUME NoWrap, NEW e \in Env, gen \in Nat, gen < MaxGen
    PROVE  /\ mkenvid(e) \in Id
           /\ mkenvid(e)[1] >= 1
           /\ ENVX(mkenvid(e)) = e
           /\ mkenvid(e) # Zero
<1>1. gen + 1 \in 0..GenMod - 1 /\ (gen + 1) % GenMod = gen + 1
  BY SizeAssumption DEF NoWrap
<1> QED BY <1>1 DEF mkenvid, Id, ENVX, Zero

-----------------------------------------------------------------------------
(* The links of a queue that may be out of order: tqh_last may have become *)
(* null, when an element that was never in the queue was taken out.        *)
LooseTailqs ==
    [ next : [Env \cup {QHead} -> Env \cup {Null}],
      prev : [Env -> Env \cup {QHead, Null}],
      last : Env \cup {QHead, Null} ]

(* The macros keep the links inside of envs[], on any queue. *)
LEMMA LooseQueues ==
    ASSUME NEW q \in LooseTailqs, NEW e \in Env
    PROVE  /\ TAILQ_FIRST(q) \in Env \cup {Null}
           /\ TAILQ_INSERT_HEAD(q, e) \in LooseTailqs
           /\ TAILQ_INSERT_TAIL(q, e) \in LooseTailqs
           /\ TAILQ_REMOVE(q, e) \in LooseTailqs
<1>1. TAILQ_FIRST(q) \in Env \cup {Null}
  BY DEF LooseTailqs, TAILQ_FIRST
<1>2. TAILQ_INSERT_HEAD(q, e) \in LooseTailqs
  <2>1. q.next \in [Env \cup {QHead} -> Env \cup {Null}] /\ q.prev \in [Env -> Env \cup {QHead, Null}]
        /\ q.last \in Env \cup {QHead, Null}
    BY DEF LooseTailqs
  <2>2. [q.next EXCEPT ![e] = TAILQ_FIRST(q), ![QHead] = e] \in [Env \cup {QHead} -> Env \cup {Null}]
    BY <1>1, <2>1
  <2>3. /\ [q.prev EXCEPT ![e] = QHead] \in [Env -> Env \cup {QHead, Null}]
        /\ [q.prev EXCEPT ![TAILQ_FIRST(q)] = e, ![e] = QHead] \in [Env -> Env \cup {QHead, Null}]
    BY <1>1, <2>1
  <2> QED BY <2>1, <2>2, <2>3 DEF LooseTailqs, TAILQ_INSERT_HEAD
<1>3. TAILQ_INSERT_TAIL(q, e) \in LooseTailqs
  BY DEF LooseTailqs, TAILQ_INSERT_TAIL
<1>4. TAILQ_REMOVE(q, e) \in LooseTailqs
  BY DEF LooseTailqs, TAILQ_REMOVE
<1> QED BY <1>1, <1>2, <1>3, <1>4

(* schedule runs nobody but a runnable environment: env_run's assert.      *)
LEMMA ScheduleRuns ==
    ASSUME NEW q \in LooseTailqs, NEW e \in Env \cup {Null}, NEW yld, NEW status,
           schedule(yld, q, e, status)
    PROVE  /\ env_sched_list' \in LooseTailqs
           /\ curenv' \in Env \cup {Null}
           /\ curenv' # Null /\ ~halted' =>
                curenv' \in Env /\ status[curenv'] = "ENV_RUNNABLE"
<1> DEFINE pick == \/ yld
                   \/ count - 1 = 0
                   \/ e = Null
                   \/ status[e] # "ENV_RUNNABLE"
           r    == IF pick /\ e # Null THEN Requeue(q, e, status) ELSE q
           next == IF pick THEN TAILQ_FIRST(r) ELSE e
<1>1. env_sched_list' = r /\ env_run(next, status, e)
  BY DEF schedule
<1>2. e # Null => Requeue(q, e, status) \in LooseTailqs
  BY LooseQueues DEF Requeue
<1> HIDE DEF pick
<1>3. r \in LooseTailqs
  BY <1>2
<1> HIDE DEF r
<1>4. next \in Env \cup {Null}
  <2>1. TAILQ_FIRST(r) \in Env \cup {Null}
    BY <1>3 DEF LooseTailqs, TAILQ_FIRST
  <2> QED BY <2>1
<1> HIDE DEF next
<1>5. /\ curenv' \in Env \cup {Null}
      /\ curenv' # Null /\ ~halted' => curenv' \in Env /\ status[curenv'] = "ENV_RUNNABLE"
  BY <1>1, <1>4 DEF env_run
<1> QED BY <1>1, <1>3, <1>5

-----------------------------------------------------------------------------
(* The invariant: the types that need no well-formed queue, the table, and *)
(* that who makes a system call is live.                                   *)
AnyTypes ==
    /\ env_status \in [Env -> Status]
    /\ env_id \in [Env -> Id]
    /\ env_parent_id \in [Env -> Id]
    /\ env_asid \in [Env -> 0..NASID - 1]
    /\ env_free_list \in Seq(Env)
    /\ env_sched_list \in LooseTailqs
    /\ asid_bitmap \subseteq 0..NASID - 1
    /\ gen \in Nat
    /\ curenv \in Env \cup {Null}

CallerIsLive == curenv # Null /\ ~halted => curenv \in Live

AllocInv == AnyTypes /\ SlotsAndAsids /\ CallerIsLive

(* The ids of live environments and of parents: no parent is the literal 1 *)
(* of sys_env_destroy, no id is the 0 that names the caller.               *)
Ids ==
    /\ \A e \in Live : env_id[e][1] >= 1 /\ ENVX(env_id[e]) = e
    /\ \A e \in Env : env_parent_id[e] = Zero \/ env_parent_id[e][1] >= 1

(* What stands between two states is what the two invariants need: the     *)
(* table and who runs.                                                     *)
LEMMA KeepsTable ==
    ASSUME AllocInv, UNCHANGED allocVars,
           env_status' \in [Env -> Status], Live' = Live,
           env_sched_list' \in LooseTailqs, curenv' \in Env \cup {Null},
           curenv' # Null /\ ~halted' => curenv' \in Live
    PROVE  AllocInv' /\ (Ids => Ids')
<1>1. UNCHANGED <<env_id, env_parent_id, env_asid, env_free_list, asid_bitmap, gen>>
  BY DEF allocVars
<1>2. AnyTypes'
  BY <1>1 DEF AllocInv, AnyTypes
<1>3. SlotsAndAsids' /\ (Ids => Ids')
  BY <1>1 DEF AllocInv, SlotsAndAsids, Ids
<1>4. CallerIsLive'
  BY DEF CallerIsLive
<1> QED BY <1>2, <1>3, <1>4 DEF AllocInv

(* mkenvid gives ids of the right form, even when its counter wraps. *)
LEMMA MadeId ==
    ASSUME gen \in Nat, NEW e \in Env
    PROVE  mkenvid(e) \in Id
<1>1. (gen + 1) % GenMod \in 0..GenMod - 1
  BY SizeAssumption
<1> QED BY <1>1 DEF mkenvid, Id

(* env_alloc gives a free slot and a free ASID away. *)
LEMMA AllocKeeps ==
    ASSUME AllocInv, NEW e \in Env, NEW parent \in Id, env_alloc(e, parent),
           NEW st \in Status \ {"ENV_FREE"}, env_status' = [env_status EXCEPT ![e] = st],
           env_sched_list' \in LooseTailqs, curenv' = curenv, halted' = halted
    PROVE  /\ AllocInv'
           /\ NoWrap /\ Ids /\ (parent = Zero \/ parent[1] >= 1) => Ids'
           /\ e \notin Live
<1> DEFINE a == asid_alloc
<1>0. AnyTypes /\ SlotsAndAsids
  BY DEF AllocInv
<1>1. /\ env_free_list # <<>> /\ e = env_free_list[1] /\ env_free_list' = Tail(env_free_list)
      /\ env_free_list \in Seq(Env)
  BY <1>0 DEF env_alloc, AnyTypes
<1>2. /\ Tail(env_free_list) \in Seq(Env) /\ e \in Elements(env_free_list)
      /\ Elements(Tail(env_free_list)) = Elements(env_free_list) \ {e}
      /\ Injective(Tail(env_free_list))
  BY <1>0, <1>1, ElementsOfTail, InjectiveTail DEF SlotsAndAsids
<1>3. e \notin Live /\ Live' = Live \cup {e}
  <2>1. e \notin Live
    BY <1>0, <1>2 DEF SlotsAndAsids
  <2>2. Live' = Live \cup {e}
    BY <1>0 DEF AnyTypes, Live
  <2> QED BY <2>1, <2>2
<1>4. a \in 0..NASID - 1 /\ a \notin asid_bitmap
  BY AsidIsFree DEF env_alloc, FreeAsids
<1> HIDE DEF a
<1>5. /\ env_asid' = [env_asid EXCEPT ![e] = a] /\ asid_bitmap' = asid_bitmap \cup {a}
      /\ env_id' = [env_id EXCEPT ![e] = mkenvid(e)] /\ gen' = gen + 1 /\ gen < MaxGen
      /\ env_parent_id' = [env_parent_id EXCEPT ![e] = parent]
  BY DEF env_alloc, a
<1>6. AnyTypes'
  <2>1. mkenvid(e) \in Id /\ gen' \in Nat
    BY <1>0, <1>5, MadeId DEF AnyTypes
  <2>2. /\ env_status' \in [Env -> Status] /\ env_id' \in [Env -> Id]
        /\ env_parent_id' \in [Env -> Id] /\ env_asid' \in [Env -> 0..NASID - 1]
        /\ asid_bitmap' \subseteq 0..NASID - 1
    BY <1>0, <1>4, <1>5, <2>1 DEF AnyTypes
  <2> QED BY <1>0, <1>1, <1>2, <2>1, <2>2 DEF AnyTypes
<1>7. SlotsAndAsids'
  <2>0. Elements(env_free_list) = Env \ Live
    BY <1>0 DEF SlotsAndAsids
  <2>1. Injective(env_free_list') /\ Elements(env_free_list') = Env \ Live'
    BY <1>1, <1>2, <1>3, <2>0
  <2>2. env_asid'[e] = a /\ \A x \in Live : x # e /\ env_asid'[x] = env_asid[x]
    BY <1>0, <1>3, <1>5 DEF AnyTypes, Live
  <2>3. \A x \in Live : env_asid[x] # a /\ env_asid[x] # 0
    BY <1>0, <1>4 DEF SlotsAndAsids
  <2>4. a # 0
    BY <1>0, <1>4 DEF SlotsAndAsids
  <2>5. asid_bitmap' = {0} \cup {env_asid'[x] : x \in Live'}
    BY <1>0, <1>3, <1>5, <2>2 DEF SlotsAndAsids
  <2>6. \A x, y \in Live' : env_asid'[x] = env_asid'[y] => x = y
    BY <1>0, <1>3, <2>2, <2>3 DEF SlotsAndAsids
  <2>7. \A x \in Live' : env_asid'[x] # 0
    BY <1>3, <2>2, <2>3, <2>4
  <2> QED BY <2>1, <2>5, <2>6, <2>7 DEF SlotsAndAsids
<1>8. CallerIsLive'
  BY <1>3 DEF AllocInv, CallerIsLive
<1>9. ASSUME NoWrap, Ids, parent = Zero \/ parent[1] >= 1 PROVE Ids'
  <2>1. mkenvid(e)[1] >= 1 /\ ENVX(mkenvid(e)) = e
    BY <1>0, <1>5, <1>9, NewId DEF AnyTypes
  <2>2. \A x \in Live' : env_id'[x][1] >= 1 /\ ENVX(env_id'[x]) = x
    BY <1>0, <1>3, <1>5, <1>9, <2>1 DEF AnyTypes, Ids, Live
  <2>3. \A x \in Env : env_parent_id'[x] = Zero \/ env_parent_id'[x][1] >= 1
    BY <1>0, <1>5, <1>9 DEF AnyTypes, Ids
  <2> QED BY <2>2, <2>3 DEF Ids
<1> QED BY <1>3, <1>6, <1>7, <1>8, <1>9 DEF AllocInv

(* A failed env_alloc may rename a free slot. *)
LEMMA AllocFailKeeps ==
    ASSUME AllocInv, env_alloc_fails,
           UNCHANGED <<env_parent_id, env_asid, env_free_list, asid_bitmap, env_status>>,
           UNCHANGED <<env_sched_list, curenv, halted>>
    PROVE  AllocInv' /\ (Ids => Ids')
<1>0. AnyTypes /\ SlotsAndAsids
  BY DEF AllocInv
<1>1. /\ gen' \in Nat /\ env_id' \in [Env -> Id]
      /\ \A x \in Live : env_id'[x] = env_id[x]
  <2>1. CASE env_free_list = <<>> /\ UNCHANGED <<env_id, gen>>
    BY <1>0, <2>1 DEF AnyTypes
  <2>2. CASE /\ env_free_list # <<>> /\ gen' = gen + 1
             /\ env_id' = [env_id EXCEPT ![Head(env_free_list)] = mkenvid(Head(env_free_list))]
    <3>1. PICK e \in Env : e = Head(env_free_list) /\ e = env_free_list[1]
      BY <1>0, <2>2 DEF AnyTypes
    <3>2. e \notin Live
      <4>1. e \in Elements(env_free_list)
        BY <1>0, <2>2, <3>1, ElementsOfTail DEF AnyTypes, SlotsAndAsids
      <4> QED BY <1>0, <4>1 DEF SlotsAndAsids
    <3>3. mkenvid(e) \in Id
      BY <1>0, MadeId DEF AnyTypes
    <3> QED BY <1>0, <2>2, <3>1, <3>2, <3>3 DEF AnyTypes, Live
  <2> QED BY <2>1, <2>2 DEF env_alloc_fails
<1>2. Live' = Live
  BY DEF Live
<1>3. AnyTypes' /\ SlotsAndAsids' /\ CallerIsLive'
  BY <1>0, <1>1, <1>2 DEF AllocInv, AnyTypes, SlotsAndAsids, CallerIsLive
<1>4. Ids => Ids'
  BY <1>1, <1>2 DEF Ids
<1> QED BY <1>3, <1>4 DEF AllocInv

(* env_free gives the slot and the ASID back. *)
LEMMA DestroyKeeps ==
    ASSUME AllocInv, NEW e \in Live, env_destroy(e)
    PROVE  AllocInv' /\ (Ids => Ids')
<1> DEFINE status == [env_status EXCEPT ![e] = "ENV_FREE"]
           q      == TAILQ_REMOVE(env_sched_list, e)
<1>0. AnyTypes /\ SlotsAndAsids /\ e \in Env
  BY DEF AllocInv, Live
<1>1. /\ env_status' = status /\ asid_bitmap' = asid_bitmap \ {env_asid[e]}
      /\ env_free_list' = <<e>> \o env_free_list
      /\ UNCHANGED <<env_id, env_parent_id, env_asid, gen>>
  BY DEF env_destroy
<1>2. status \in [Env -> Status] /\ q \in LooseTailqs
  BY <1>0, LooseQueues DEF AnyTypes, Status
<1>3. Live' = Live \ {e}
  BY <1>0, <1>1 DEF AnyTypes, Live
<1>4. /\ env_sched_list' \in LooseTailqs /\ curenv' \in Env \cup {Null}
      /\ curenv' # Null /\ ~halted' => curenv' \in Live'
  <2>1. CASE e = curenv
    <3>1. schedule(TRUE, q, Null, status)
      BY <2>1 DEF env_destroy
    <3> HIDE DEF q, status
    <3>2. /\ env_sched_list' \in LooseTailqs /\ curenv' \in Env \cup {Null}
          /\ curenv' # Null /\ ~halted' => curenv' \in Env /\ status[curenv'] = "ENV_RUNNABLE"
      BY <1>2, <3>1, ScheduleRuns
    <3> QED BY <1>1, <3>2 DEF Live
  <2>2. CASE e # curenv
    <3>1. env_sched_list' = q /\ curenv' = curenv /\ halted' = halted
      BY <2>2 DEF env_destroy
    <3> QED BY <1>0, <1>2, <1>3, <2>2, <3>1 DEF AllocInv, AnyTypes, CallerIsLive
  <2> QED BY <2>1, <2>2
<1>5. AnyTypes'
  <2>1. env_free_list' \in Seq(Env)
    BY <1>0, <1>1 DEF AnyTypes
  <2> QED BY <1>0, <1>1, <1>2, <1>4, <2>1 DEF AnyTypes
<1>6. SlotsAndAsids'
  <2>1. e \notin Elements(env_free_list)
    BY <1>0 DEF SlotsAndAsids
  <2>2. Injective(<<e>> \o env_free_list)
        /\ Elements(<<e>> \o env_free_list) = Elements(env_free_list) \cup {e}
    BY <1>0, <2>1, InjectivePrepend, ElementsOfPrepend DEF AnyTypes, SlotsAndAsids
  <2>a. Elements(env_free_list) = Env \ Live
    BY <1>0 DEF SlotsAndAsids
  <2>3. Injective(env_free_list') /\ Elements(env_free_list') = Env \ Live'
    BY <1>0, <1>1, <1>3, <2>2, <2>a
  <2>4. asid_bitmap' = {0} \cup {env_asid[x] : x \in Live'}
    BY <1>0, <1>1, <1>3 DEF SlotsAndAsids
  <2> QED BY <1>0, <1>1, <1>3, <2>3, <2>4 DEF SlotsAndAsids
<1>7. Ids => Ids'
  BY <1>1, <1>3 DEF Ids
<1> QED BY <1>4, <1>5, <1>6, <1>7 DEF AllocInv, CallerIsLive

-----------------------------------------------------------------------------
(* Whom a system call finds is live. *)
LEMMA FindsLive ==
    ASSUME AllocInv, InSyscall, NEW id \in Id, NEW perm, NEW e \in envid2env(id, perm)
    PROVE  e \in Live
<1>1. curenv \in Live
  BY DEF AllocInv, CallerIsLive, InSyscall
<1>2. CASE id = Zero
  BY <1>1, <1>2 DEF envid2env
<1>3. CASE id # Zero
  BY <1>3 DEF envid2env, Id, ENVX, Live
<1> QED BY <1>2, <1>3

(* One step of any program. *)
LEMMA StepKeeps ==
    ASSUME AllocInv, Next
    PROVE  AllocInv' /\ (NoWrap /\ Ids => Ids')
<1>0. AnyTypes
  BY DEF AllocInv
<1>a. InSyscall => curenv \in Live /\ curenv \in Env
  BY DEF AllocInv, CallerIsLive, InSyscall, Live
<1>r. ASSUME NEW yld, ~halted, schedule(yld, env_sched_list, curenv, env_status),
             UNCHANGED <<allocVars, env_status>>
      PROVE  AllocInv' /\ (NoWrap /\ Ids => Ids')
  <2>1. /\ env_sched_list' \in LooseTailqs /\ curenv' \in Env \cup {Null}
        /\ curenv' # Null /\ ~halted' => curenv' \in Env /\ env_status[curenv'] = "ENV_RUNNABLE"
    BY <1>0, <1>r, ScheduleRuns DEF AnyTypes
  <2>2. Live' = Live /\ (curenv' # Null /\ ~halted' => curenv' \in Live)
    BY <1>r, <2>1 DEF Live
  <2>3. env_status' \in [Env -> Status]
    BY <1>0, <1>r DEF AnyTypes
  <2> QED BY <1>r, <2>1, <2>2, <2>3, KeepsTable
<1>q. ASSUME UNCHANGED <<allocVars, cpuVars>>, env_status' \in [Env -> Status], Live' = Live
      PROVE  AllocInv' /\ (NoWrap /\ Ids => Ids')
  <2>1. UNCHANGED <<env_sched_list, curenv, halted>>
    BY <1>q DEF cpuVars
  <2> QED BY <1>0, <1>q, <2>1, KeepsTable DEF AllocInv, AnyTypes, CallerIsLive
<1>1. CASE handle_interrupt
  BY <1>1, <1>r DEF handle_interrupt
<1>2. ASSUME NEW p \in Pri, env_create(p) PROVE AllocInv' /\ (NoWrap /\ Ids => Ids')
  <2>1. PICK e \in Env :
          /\ env_alloc(e, Zero)
          /\ env_status' = [env_status EXCEPT ![e] = "ENV_RUNNABLE"]
          /\ env_sched_list' = TAILQ_INSERT_HEAD(env_sched_list, e)
    BY <1>2 DEF env_create
  <2>2. env_sched_list' \in LooseTailqs /\ curenv' = curenv /\ halted' = halted
    BY <1>0, <1>2, <2>1, LooseQueues DEF env_create, AnyTypes
  <2>3. Zero \in Id /\ "ENV_RUNNABLE" \in Status \ {"ENV_FREE"}
    BY SizeAssumption DEF Zero, Id, Env, Status
  <2> QED BY <2>1, <2>2, <2>3, AllocKeeps
<1>3. CASE sys_yield
  BY <1>3, <1>r DEF sys_yield, InSyscall
<1>4. ASSUME NEW id \in Id, sys_env_destroy(id) PROVE AllocInv' /\ (NoWrap /\ Ids => Ids')
  <2>1. CASE \E e \in envid2env(id, One) : env_destroy(e)
    <3>1. PICK e \in envid2env(id, One) : env_destroy(e)
      BY <2>1
    <3>2. e \in Live
      BY <1>4, FindsLive DEF sys_env_destroy
    <3> QED BY <3>1, <3>2, DestroyKeeps
  <2>2. CASE Return("E_BAD_ENV") /\ UNCHANGED <<allocVars, env_status>>
    BY <1>0, <1>q, <2>2 DEF Return, AnyTypes, Live
  <2> QED BY <1>4, <2>1, <2>2 DEF sys_env_destroy
<1>5. CASE sys_exofork
  <2>1. ASSUME NEW e \in Env, env_alloc(e, env_id[curenv]), Return("OK"),
               env_status' = [env_status EXCEPT ![e] = "ENV_NOT_RUNNABLE"]
        PROVE  AllocInv' /\ (NoWrap /\ Ids => Ids')
    <3>1. curenv \in Live /\ env_id[curenv] \in Id
      BY <1>0, <1>a, <1>5 DEF sys_exofork, AnyTypes
    <3>2. env_sched_list' \in LooseTailqs /\ curenv' = curenv /\ halted' = halted
      BY <1>0, <2>1 DEF Return, cpuVars, AnyTypes
    <3>3. "ENV_NOT_RUNNABLE" \in Status \ {"ENV_FREE"}
      BY DEF Status
    <3>4. Ids => env_id[curenv][1] >= 1
      BY <3>1 DEF Ids
    <3> QED BY <2>1, <3>1, <3>2, <3>3, <3>4, AllocKeeps
  <2>2. CASE /\ env_alloc_fails /\ Return("E_NO_FREE_ENV")
             /\ UNCHANGED <<env_parent_id, env_asid, env_pri, env_free_list, asid_bitmap, env_status>>
    BY <2>2, AllocFailKeeps DEF Return, cpuVars
  <2> QED BY <1>5, <2>1, <2>2 DEF sys_exofork
<1>6. ASSUME NEW id \in Id, NEW status \in Status, sys_set_env_status(id, status)
      PROVE  AllocInv' /\ (NoWrap /\ Ids => Ids')
  <2>1. ASSUME NEW e \in envid2env(id, env_id[curenv]),
               status \in {"ENV_RUNNABLE", "ENV_NOT_RUNNABLE"},
               \/ env_sched_list' = TAILQ_REMOVE(env_sched_list, e)
               \/ env_sched_list' = TAILQ_INSERT_TAIL(env_sched_list, e)
               \/ env_sched_list' = env_sched_list,
               env_status' = [env_status EXCEPT ![e] = status],
               UNCHANGED <<curenv, count, halted>>
        PROVE  AllocInv' /\ (NoWrap /\ Ids => Ids')
    <3>1. e \in Live /\ e \in Env
      BY <1>6, FindsLive DEF sys_set_env_status, Live
    <3>2. env_sched_list' \in LooseTailqs
      BY <1>0, <2>1, <3>1, LooseQueues DEF AnyTypes
    <3>3. env_status' \in [Env -> Status] /\ Live' = Live
      BY <1>0, <2>1, <3>1 DEF AnyTypes, Live, Status
    <3>4. UNCHANGED allocVars
      BY <1>6 DEF sys_set_env_status
    <3> QED BY <1>0, <2>1, <3>2, <3>3, <3>4, KeepsTable DEF AllocInv, AnyTypes, CallerIsLive
  <2>2. ASSUME NEW v, Return(v), UNCHANGED env_status PROVE AllocInv' /\ (NoWrap /\ Ids => Ids')
    <3>1. UNCHANGED allocVars
      BY <1>6 DEF sys_set_env_status
    <3> QED BY <1>0, <1>q, <2>2, <3>1 DEF Return, AnyTypes, Live
  <2> QED BY <1>6, <2>1, <2>2 DEF sys_set_env_status
<1>7. ASSUME NEW legal \in BOOLEAN, sys_ipc_recv(legal) PROVE AllocInv' /\ (NoWrap /\ Ids => Ids')
  <2> DEFINE status == [env_status EXCEPT ![curenv] = "ENV_NOT_RUNNABLE"]
             q == TAILQ_REMOVE(env_sched_list, curenv)
  <2>0. UNCHANGED allocVars /\ curenv \in Env /\ curenv \in Live
    BY <1>7, <1>a DEF sys_ipc_recv
  <2>1. CASE env_status' = status /\ schedule(TRUE, q, curenv, status)
    <3>1. q \in LooseTailqs
      BY <1>0, <2>0, LooseQueues DEF AnyTypes
    <3>2. status \in [Env -> Status]
      BY <1>0, <2>0 DEF AnyTypes, Status
    <3>3. Live' = Live
      BY <1>0, <2>0, <2>1 DEF AnyTypes, Live
    <3> HIDE DEF q, status
    <3>4. /\ env_sched_list' \in LooseTailqs /\ curenv' \in Env \cup {Null}
          /\ curenv' # Null /\ ~halted' => curenv' \in Env /\ status[curenv'] = "ENV_RUNNABLE"
      BY <1>0, <2>0, <2>1, <3>1, ScheduleRuns
    <3>5. curenv' # Null /\ ~halted' => curenv' \in Live
      BY <2>1, <3>3, <3>4 DEF Live
    <3> QED BY <2>0, <2>1, <3>2, <3>3, <3>4, <3>5, KeepsTable
  <2>2. CASE Return("E_INVAL") /\ UNCHANGED <<env_ipc_recving, env_status>>
    BY <1>0, <1>q, <2>0, <2>2 DEF Return, AnyTypes, Live
  <2> QED BY <1>7, <2>1, <2>2 DEF sys_ipc_recv
<1>8. ASSUME NEW id \in Id, NEW page \in Pages, sys_ipc_try_send(id, page)
      PROVE  AllocInv' /\ (NoWrap /\ Ids => Ids')
  <2>0. UNCHANGED allocVars /\ InSyscall
    BY <1>8 DEF sys_ipc_try_send
  <2>1. ASSUME NEW e \in envid2env(id, Zero),
               env_status' = [env_status EXCEPT ![e] = "ENV_RUNNABLE"],
               env_sched_list' = TAILQ_INSERT_TAIL(env_sched_list, e),
               UNCHANGED <<curenv, count, halted>>
        PROVE  AllocInv' /\ (NoWrap /\ Ids => Ids')
    <3>1. e \in Live /\ e \in Env
      BY <2>0, FindsLive DEF Live
    <3>2. env_sched_list' \in LooseTailqs
      BY <1>0, <2>1, <3>1, LooseQueues DEF AnyTypes
    <3>3. env_status' \in [Env -> Status] /\ Live' = Live
      BY <1>0, <2>1, <3>1 DEF AnyTypes, Live, Status
    <3> QED BY <1>0, <2>0, <2>1, <3>2, <3>3, KeepsTable DEF AllocInv, AnyTypes, CallerIsLive
  <2>2. ASSUME NEW v, Return(v), UNCHANGED <<ipcVars, env_status>> PROVE AllocInv' /\ (NoWrap /\ Ids => Ids')
    BY <1>0, <1>q, <2>0, <2>2 DEF Return, AnyTypes, Live
  <2> QED BY <1>8, <2>1, <2>2 DEF sys_ipc_try_send
<1> QED BY <1>1, <1>2, <1>3, <1>4, <1>5, <1>6, <1>7, <1>8 DEF Next

(* After env_init. *)
LEMMA InitKeeps == Init => AllocInv /\ Ids
<1> SUFFICES ASSUME Init PROVE AllocInv /\ Ids
  OBVIOUS
<1> USE DEF Init
<1>1. Zero \in Id /\ 0 \in 0..NASID - 1
  BY SizeAssumption DEF Zero, Id, Env
<1>2. Live = {}
  BY DEF Live
<1>3. AnyTypes
  <2>1. env_free_list \in Seq(Env)
    BY SizeAssumption DEF Env
  <2>2. env_sched_list \in LooseTailqs
    BY DEF LooseTailqs, TAILQ_INIT
  <2> QED BY <1>1, <2>1, <2>2 DEF AnyTypes, Status
<1>4. Injective(env_free_list) /\ Elements(env_free_list) = Env
  <2>1. Len(env_free_list) = NENV
    BY SizeAssumption
  <2>2. \A i \in 1..NENV : env_free_list[i] = i - 1 /\ i - 1 \in Env
    BY SizeAssumption DEF Env
  <2>3. \A e \in Env : e + 1 \in 1..NENV /\ env_free_list[e + 1] = e
    BY SizeAssumption DEF Env
  <2>4. Injective(env_free_list)
    <3> SUFFICES ASSUME NEW i \in 1..NENV, NEW j \in 1..NENV,
                        env_free_list[i] = env_free_list[j]
                 PROVE  i = j
      BY <2>1 DEF Injective
    <3>1. i - 1 = j - 1
      BY <2>2
    <3> QED BY <3>1, SizeAssumption
  <2> QED BY <2>1, <2>2, <2>3, <2>4 DEF Elements
<1>5. SlotsAndAsids /\ CallerIsLive /\ Ids
  BY <1>2, <1>4 DEF SlotsAndAsids, CallerIsLive, Ids
<1> QED BY <1>3, <1>5 DEF AllocInv

LEMMA NextKeeps == AllocInv /\ [Next]_vars => AllocInv' /\ (NoWrap /\ Ids => Ids')
<1>1. ASSUME AllocInv, UNCHANGED vars PROVE AllocInv' /\ (Ids => Ids')
  <2>1. UNCHANGED <<allocVars, env_status, env_sched_list, curenv, halted>>
    BY <1>1 DEF vars, cpuVars
  <2>2. Live' = Live
    BY <2>1 DEF Live
  <2> QED BY <1>1, <2>1, <2>2, KeepsTable DEF AllocInv, AnyTypes, CallerIsLive
<1> QED BY <1>1, StepKeeps

(* env_alloc and env_free (kern/env.c) under any program, for any number   *)
(* of slots and ASIDs, even past the wrap of mkenvid's counter: the free   *)
(* list holds each free slot once and the bitmap the ASIDs of the live     *)
(* environments, each of which has its own.                                *)
THEOREM TableCorrect == Spec => []SlotsAndAsids
<1>1. AllocInv => SlotsAndAsids
  BY DEF AllocInv
<1> QED BY <1>1, InitKeeps, NextKeeps, PTL DEF Spec

(* Both invariants, as long as the counter does not wrap. *)
LEMMA TableAndIds == NoWrap => (Spec => [](AllocInv /\ Ids))
<1> SUFFICES ASSUME NoWrap PROVE Spec => [](AllocInv /\ Ids)
  OBVIOUS
<1>1. AllocInv /\ Ids /\ [Next]_vars => (AllocInv /\ Ids)'
  BY NextKeeps
<1> QED BY <1>1, InitKeeps, PTL DEF Spec

(* mkenvid and envid2env (kern/env.c) under any program that creates fewer *)
(* than 2^21 environments: an id names its environment and no other, and   *)
(* is not the 0 that names the caller.                                     *)
THEOREM IdsCorrect == NoWrap => (Spec => []IdNamesEnv)
<1>1. AllocInv /\ Ids => IdNamesEnv
  <2> SUFFICES ASSUME AllocInv, Ids, NEW e \in Live PROVE envid2env(env_id[e], Zero) = {e}
    BY DEF IdNamesEnv
  <2>1. env_id[e][1] >= 1 /\ ENVX(env_id[e]) = e /\ env_status[e] # "ENV_FREE"
    BY DEF Ids, Live
  <2>2. env_id[e] # Zero
    BY <2>1 DEF Zero
  <2> QED BY <2>1, <2>2 DEF envid2env
<1> QED BY <1>1, TableAndIds, PTL

(* What makes a runnable environment stop. *)
LEMMA StopsByParent ==
    ASSUME AllocInv, Ids, Next, NEW e \in Runnable \ Runnable'
    PROVE  e = curenv \/ env_parent_id[e] = env_id[curenv]
<1>0. AnyTypes /\ e \in Env /\ env_status[e] = "ENV_RUNNABLE" /\ env_status'[e] # "ENV_RUNNABLE"
  BY DEF AllocInv, Runnable
<1>1. InSyscall => curenv \in Live /\ env_id[curenv] # Zero
  BY DEF AllocInv, CallerIsLive, InSyscall, Ids, Zero
<1>2. ASSUME NEW id \in Id, sys_env_destroy(id)
      PROVE  e = curenv \/ env_parent_id[e] = env_id[curenv]
  <2>1. PICK f \in envid2env(id, One) : env_destroy(f)
    BY <1>0, <1>2 DEF sys_env_destroy
  <2>2. f \in Live /\ f \in Env
    BY <1>2, FindsLive DEF sys_env_destroy, Live
  <2>3. e = f
    BY <1>0, <2>1, <2>2 DEF env_destroy, AnyTypes
  <2>4. f = curenv \/ env_parent_id[f] = One
    BY DEF envid2env, One, Zero
  <2>5. env_parent_id[f] # One
    BY <2>2 DEF Ids, One, Zero
  <2> QED BY <2>3, <2>4, <2>5
<1>3. ASSUME NEW id \in Id, NEW status \in Status, sys_set_env_status(id, status)
      PROVE  e = curenv \/ env_parent_id[e] = env_id[curenv]
  <2>1. PICK f \in envid2env(id, env_id[curenv]) : env_status' = [env_status EXCEPT ![f] = status]
    BY <1>0, <1>3 DEF sys_set_env_status
  <2>2. f = e
    BY <1>0, <2>1 DEF AnyTypes
  <2>3. env_id[curenv] # Zero
    BY <1>1, <1>3 DEF sys_set_env_status
  <2> QED BY <2>1, <2>2, <2>3 DEF envid2env
<1>4. ASSUME NEW legal \in BOOLEAN, sys_ipc_recv(legal) PROVE e = curenv
  BY <1>0, <1>4 DEF sys_ipc_recv, AnyTypes
<1>5. ASSUME NEW p \in Pri, env_create(p) PROVE FALSE
  BY <1>0, <1>5 DEF env_create, AnyTypes
<1>6. CASE sys_exofork
  <2>1. CASE UNCHANGED env_status
    BY <1>0, <2>1
  <2>2. ASSUME NEW f \in Env, env_alloc(f, env_id[curenv]), Return("OK"),
               env_status' = [env_status EXCEPT ![f] = "ENV_NOT_RUNNABLE"]
        PROVE  FALSE
    <3>1. /\ env_id[curenv] \in Id /\ "ENV_NOT_RUNNABLE" \in Status \ {"ENV_FREE"}
          /\ env_sched_list' \in LooseTailqs /\ curenv' = curenv /\ halted' = halted
      BY <1>0, <1>1, <1>6, <2>2 DEF sys_exofork, Live, AnyTypes, Status, Return, cpuVars
    <3>2. f \notin Live
      BY <2>2, <3>1, AllocKeeps
    <3> QED BY <1>0, <2>2, <3>2 DEF AnyTypes, Live
  <2> QED BY <1>6, <2>1, <2>2 DEF sys_exofork
<1>7. ASSUME NEW id \in Id, NEW page \in Pages, sys_ipc_try_send(id, page) PROVE FALSE
  BY <1>0, <1>7 DEF sys_ipc_try_send, AnyTypes
<1>8. CASE handle_interrupt \/ sys_yield
  BY <1>0, <1>8 DEF handle_interrupt, sys_yield
<1> QED BY <1>2, <1>3, <1>4, <1>5, <1>6, <1>7, <1>8 DEF Next

(* kern/env.c:80 under any program that creates fewer than 2^21            *)
(* environments: nobody but itself and its parent stops or frees a         *)
(* runnable environment.  The literal 1 that sys_env_destroy passes for    *)
(* checkperm is then the id of nobody.                                     *)
THEOREM ParentCorrect == NoWrap => (Spec => OnlyParentStops)
<1> SUFFICES ASSUME NoWrap PROVE Spec => OnlyParentStops
  OBVIOUS
<1>1. AllocInv /\ Ids /\ [Next]_vars => [StoppedByParent]_vars
  BY StopsByParent DEF StoppedByParent
<1>2. Spec => [](AllocInv /\ Ids)
  BY TableAndIds
<1> QED BY <1>1, <1>2, PTL DEF Spec, OnlyParentStops

-----------------------------------------------------------------------------
(* schedule, called on a well-formed queue q of the environments that are  *)
(* runnable according to status, in the order s, with curenv = e being     *)
(* nobody, the first of the queue, or one that has just been taken out.    *)
Ready(q, s, e, status) ==
    /\ q \in Tailqs(Env) /\ Represents(q, s)
    /\ e \in Env \cup {Null} /\ status \in [Env -> Status]
    /\ env_pri \in [Env -> Nat] /\ count \in Int /\ halted = FALSE
    /\ Elements(s) = { x \in Env : status[x] = "ENV_RUNNABLE" }
    /\ \A x \in Elements(s) : env_pri[x] >= 1
    /\ \/ e = Null
       \/ s # <<>> /\ e = s[1] /\ count \in 1..env_pri[e]
       \/ e # Null /\ status[e] # "ENV_RUNNABLE" /\ TAILQ_REMOVE(q, e) = q

(* The queue after schedule, in the order t: its first element has the CPU *)
(* with slices left, unless it is empty.                                   *)
Scheduled(t) ==
    /\ env_sched_list' \in Tailqs(Env) /\ Represents(env_sched_list', t)
    /\ curenv' \in Env \cup {Null} /\ count' \in Int /\ halted' \in BOOLEAN
    /\ halted' => t = <<>>
    /\ ~halted' => /\ t # <<>>
                   /\ curenv' = t[1]
                   /\ count' \in 1..env_pri[t[1]]

(* The queue stays well formed and keeps its elements. *)
LEMMA ScheduleKeepsOrder ==
    ASSUME NEW q, NEW s \in Seq(Env), NEW e, NEW status, NEW yld \in BOOLEAN,
           Ready(q, s, e, status),
           schedule(yld, q, e, status)
    PROVE  \E t \in Seq(Env) : Scheduled(t) /\ Elements(t) = Elements(s)
<1> USE DEF Ready, Scheduled
<1> DEFINE pick == \/ yld
                   \/ count - 1 = 0
                   \/ e = Null
                   \/ status[e] # "ENV_RUNNABLE"
           r    == IF pick /\ e # Null THEN Requeue(q, e, status) ELSE q
           next == IF pick THEN TAILQ_FIRST(r) ELSE e
<1>0. QHead \notin Env /\ Null \notin Env
  BY PtrAssumption
<1>1. /\ env_sched_list' = r
      /\ count' = IF pick /\ next # Null THEN env_pri[next] ELSE count - 1
      /\ env_run(next, status, e)
  BY DEF schedule
<1> HIDE DEF pick, r, next
<1>2. CASE pick
  <2>1. \E t \in Seq(Env) : r \in Tailqs(Env) /\ Represents(r, t)
                            /\ Elements(t) = Elements(s)
    <3>1. CASE e = Null
      <4>1. r = q
        BY <3>1 DEF r
      <4> QED BY <4>1
    <3>2. CASE e # Null /\ status[e] # "ENV_RUNNABLE" /\ TAILQ_REMOVE(q, e) = q
      <4>1. r = q
        BY <3>2, <1>2 DEF Requeue, r
      <4> QED BY <4>1
    <3>3. CASE s # <<>> /\ e = s[1]
      <4>1. Injective(s)
        BY DEF Represents
      <4>2. /\ Tail(s) \in Seq(Env) /\ e \in Elements(s)
            /\ Elements(Tail(s)) = Elements(s) \ {e}
        BY <3>3, <4>1, ElementsOfTail
      <4>3. e \in Env /\ status[e] = "ENV_RUNNABLE" /\ e # Null
        BY <4>2, <1>0
      <4>4. /\ TAILQ_REMOVE(q, e) \in Tailqs(Env)
            /\ Represents(TAILQ_REMOVE(q, e), Tail(s))
        BY <3>3, <1>0, RemoveFirstRepresents
      <4>5. /\ TAILQ_INSERT_TAIL(TAILQ_REMOVE(q, e), e) \in Tailqs(Env)
            /\ Represents(TAILQ_INSERT_TAIL(TAILQ_REMOVE(q, e), e), Append(Tail(s), e))
        BY <4>2, <4>3, <4>4, <1>0, InsertTailRepresents
      <4>6. Elements(Append(Tail(s), e)) = Elements(s) /\ Append(Tail(s), e) \in Seq(Env)
        <5>1. Elements(Append(Tail(s), e)) = Elements(Tail(s)) \cup {e}
          BY <4>2, <4>3, ElementsOfAppend
        <5>2. Append(Tail(s), e) \in Seq(Env)
          BY <4>2, <4>3
        <5> QED BY <5>1, <5>2, <4>2
      <4>7. r = TAILQ_INSERT_TAIL(TAILQ_REMOVE(q, e), e)
        BY <4>3, <1>2 DEF Requeue, r
      <4> QED BY <4>5, <4>6, <4>7
    <3> QED BY <3>1, <3>2, <3>3
  <2>2. PICK t \in Seq(Env) : r \in Tailqs(Env) /\ Represents(r, t)
                              /\ Elements(t) = Elements(s)
    BY <2>1
  <2>3. /\ next = TAILQ_FIRST(r)
        /\ t = <<>> => next = Null
        /\ t # <<>> => next = t[1] /\ next \in Env /\ next \in Elements(s)
    <3>1. next = TAILQ_FIRST(r)
      BY <1>2 DEF next
    <3>2. t # <<>> => t[1] \in Env /\ t[1] \in Elements(t)
      BY DEF Elements
    <3> QED BY <3>1, <3>2, <2>2, FirstRepresents
  <2>4. CASE t = <<>>
    <3>1. curenv' = e /\ halted' = TRUE /\ count' = count - 1
      BY <2>3, <2>4, <1>1 DEF env_run
    <3>2. count' \in Int
      BY <3>1
    <3> QED BY <3>1, <3>2, <2>2, <2>4, <1>1, Zenon
  <2>5. CASE t # <<>>
    <3>1. next \in Env /\ next # Null /\ status[next] = "ENV_RUNNABLE"
          /\ env_pri[next] \in Nat /\ env_pri[next] >= 1
      BY <2>3, <2>5, <1>0
    <3>2. curenv' = next /\ halted' = FALSE /\ count' = env_pri[next]
      BY <3>1, <1>1, <1>2 DEF env_run
    <3>3. count' \in 1..env_pri[t[1]] /\ count' \in Int
      BY <3>1, <3>2, <2>3, <2>5
    <3>4. curenv' = t[1] /\ curenv' \in Env
      BY <3>1, <3>2, <2>3, <2>5
    <3> QED BY <3>2, <3>3, <3>4, <2>2, <2>5, <1>1, Zenon
  <2> QED BY <2>4, <2>5
<1>3. CASE ~pick
  <2>1. s # <<>> /\ e = s[1] /\ count \in 1..env_pri[e] /\ e \in Env /\ e # Null
    BY <1>3, <1>0 DEF pick
  <2>2. r = q /\ next = e /\ status[e] = "ENV_RUNNABLE" /\ count - 1 # 0
    BY <1>3 DEF pick, r, next
  <2>3. curenv' = e /\ halted' = FALSE /\ count' = count - 1
    BY <2>1, <2>2, <1>1, <1>3 DEF env_run
  <2>4. count' \in 1..env_pri[s[1]] /\ count' \in Int
    BY <2>1, <2>2, <2>3
  <2> QED BY <2>1, <2>2, <2>3, <2>4, <1>1, Zenon
<1> QED BY <1>2, <1>3

-----------------------------------------------------------------------------
(* The invariant, action by action. *)

LEMMA OrderWitness == IInv => \E s \in Seq(Env) : Order(s)
BY OrderIsSeq DEF IInv

LEMMA OrderPrimed ==
    ASSUME NEW t \in Seq(Env), Order(t)'
    PROVE  (\E s \in SeqsUpTo(Env, Cardinality(Env)) : Order(s))'
<1>1. Injective(t)
  BY DEF Order, Represents
<1>2. t \in SeqsUpTo(Env, Cardinality(Env))
  BY <1>1, OrderIsShort
<1> QED BY <1>2

LEMMA InitInv == NoWrap /\ LibInit => IInv
<1> SUFFICES ASSUME NoWrap, LibInit PROVE IInv
  OBVIOUS
<1> USE DEF LibInit, Init
<1>1. Zero \in Id /\ 0 \in 0..NASID - 1
  BY SizeAssumption DEF Zero, Id, Env
<1>2. env_sched_list \in Tailqs(Env) /\ Represents(env_sched_list, <<>>)
  BY PtrAssumption, InitRepresents
<1>3. LibTypeOK
  <2>1. env_free_list \in Seq(Env)
    BY SizeAssumption DEF Env
  <2>2. /\ env_status \in [Env -> Status] /\ env_pri \in [Env -> Nat]
        /\ retval \in RetVals /\ gen \in Nat /\ count \in Int
        /\ curenv \in Env \cup {Null} /\ asid_bitmap \subseteq 0..NASID - 1
    BY <1>1 DEF Status, RetVals
  <2>4. env_ipc_recving \in [Env -> BOOLEAN] /\ halted \in BOOLEAN
    BY Zenon
  <2>3. /\ env_id \in [Env -> Id] /\ env_parent_id \in [Env -> Id]
        /\ env_asid \in [Env -> 0..NASID - 1]
        /\ env_ipc_from \in [Env -> Id] /\ child \in [Env -> Id]
    BY <1>1
  <2> QED BY <1>2, <2>1, <2>2, <2>3, <2>4 DEF LibTypeOK, TypeOK
<1>4. Live = {} /\ Runnable = {}
  BY DEF Live, Runnable
<1>5. Named
  BY <1>4, SizeAssumption DEF Named
<1>6. FreeSlots
  <2>1. Len(env_free_list) = NENV
    BY SizeAssumption
  <2>2. \A i \in 1..NENV : env_free_list[i] = i - 1 /\ i - 1 \in Env
    BY SizeAssumption DEF Env
  <2>3. \A e \in Env : e + 1 \in 1..NENV /\ env_free_list[e + 1] = e
    BY SizeAssumption DEF Env
  <2>4. Injective(env_free_list)
    <3> SUFFICES ASSUME NEW i \in 1..NENV, NEW j \in 1..NENV,
                        env_free_list[i] = env_free_list[j]
                 PROVE  i = j
      BY <2>1 DEF Injective
    <3>1. i - 1 = j - 1
      BY <2>2
    <3> QED BY <3>1, SizeAssumption
  <2>5. Elements(env_free_list) = Env
    BY <2>1, <2>2, <2>3 DEF Elements
  <2> QED BY <2>4, <2>5, <1>4 DEF FreeSlots
<1>7. Waiting /\ Built /\ Slices
  BY <1>4 DEF Waiting, Built, Slices
<1>8. Order(<<>>)
  <2>1. Elements(<<>>) = {}
    BY DEF Elements
  <2> QED BY <1>2, <1>4, <2>1 DEF Order
<1>9. <<>> \in SeqsUpTo(Env, Cardinality(Env))
  <2>1. <<>> \in Seq(Env) /\ Injective(<<>>)
    BY DEF Injective
  <2> QED BY <2>1, OrderIsShort
<1> QED BY <1>3, <1>5, <1>6, <1>7, <1>8, <1>9 DEF IInv

(* What IInv says in the form the lemmas about actions use. *)
LEMMA RunningFacts ==
    ASSUME IInv, ~halted
    PROVE  /\ halted = FALSE
           /\ curenv # Null => /\ curenv \in Env
                               /\ env_status[curenv] = "ENV_RUNNABLE"
                               /\ env_ipc_recving[curenv] = FALSE
                               /\ count \in 1..env_pri[curenv]
           /\ \A e \in Runnable : env_pri[e] \in Nat /\ env_pri[e] >= 1
<1>1. halted = FALSE
  BY Zenon DEF IInv, LibTypeOK, TypeOK
<1>2. ASSUME curenv # Null
      PROVE  /\ curenv \in Env
             /\ env_status[curenv] = "ENV_RUNNABLE"
             /\ env_ipc_recving[curenv] = FALSE
             /\ count \in 1..env_pri[curenv]
  <2>1. PICK s \in Seq(Env) : Order(s)
    BY OrderWitness
  <2>2. s # <<>> /\ curenv = s[1] /\ curenv \in Env
    BY <2>1, <1>2 DEF Order, IInv, LibTypeOK, TypeOK
  <2>3. curenv \in Elements(s)
    BY <2>2 DEF Elements
  <2>4. env_status[curenv] = "ENV_RUNNABLE"
    BY <2>1, <2>3 DEF Order, Runnable
  <2>5. ~env_ipc_recving[curenv]
    BY <2>2, <2>4 DEF IInv, Waiting
  <2>6. env_ipc_recving[curenv] = FALSE
    BY <2>2, <2>5, Zenon DEF IInv, LibTypeOK, TypeOK
  <2> QED BY <1>2, <2>2, <2>4, <2>6 DEF IInv, Slices
<1>3. \A e \in Runnable : env_pri[e] \in Nat /\ env_pri[e] >= 1
  BY DEF Runnable, Live, IInv, LibTypeOK, TypeOK, Slices
<1> QED BY <1>1, <1>2, <1>3

(* The state in which a timer interrupt or a yield calls schedule. *)
LEMMA ReadyNow ==
    ASSUME IInv, ~halted, NEW s \in Seq(Env), Order(s)
    PROVE  Ready(env_sched_list, s, curenv, env_status)
<1>1. /\ env_sched_list \in Tailqs(Env) /\ curenv \in Env \cup {Null}
      /\ env_status \in [Env -> Status] /\ env_pri \in [Env -> Nat] /\ count \in Int
  BY DEF IInv, LibTypeOK, TypeOK
<1>2. /\ Represents(env_sched_list, s)
      /\ Elements(s) = { x \in Env : env_status[x] = "ENV_RUNNABLE" }
      /\ \A x \in Elements(s) : env_pri[x] >= 1
      /\ curenv = Null \/ (s # <<>> /\ curenv = s[1] /\ count \in 1..env_pri[curenv])
  BY RunningFacts DEF Order, Runnable
<1> QED BY <1>1, <1>2, RunningFacts DEF Ready

(* A timer interrupt or a yield. *)
LEMMA RescheduleInv ==
    ASSUME IInv, ~halted, NEW yld \in BOOLEAN,
           schedule(yld, env_sched_list, curenv, env_status),
           UNCHANGED <<allocVars, ipcVars, env_status, child>>,
           retval' = "none"
    PROVE  IInv'
<1>1. PICK s \in Seq(Env) : Order(s)
  BY OrderWitness
<1>2. Ready(env_sched_list, s, curenv, env_status)
  BY <1>1, ReadyNow
<1>3. Elements(s) = { x \in Env : env_status[x] = "ENV_RUNNABLE" }
  BY <1>1 DEF Order, Runnable
<1>4. PICK t \in Seq(Env) : Scheduled(t) /\ Elements(t) = Elements(s)
  BY <1>2, ScheduleKeepsOrder
<1>5. LibTypeOK'
  BY <1>4 DEF Scheduled, IInv, LibTypeOK, TypeOK, allocVars, ipcVars, RetVals
<1>6. Named' /\ FreeSlots' /\ Waiting' /\ Built'
  BY DEF IInv, Named, FreeSlots, Waiting, Built, Live, allocVars, ipcVars
<1>7. Slices'
  BY <1>4 DEF Scheduled, IInv, Slices, Live, allocVars
<1>8. Order(t)'
  BY <1>3, <1>4 DEF Scheduled, Order, Runnable
<1> QED BY <1>5, <1>6, <1>7, <1>8, OrderPrimed DEF IInv

-----------------------------------------------------------------------------
(* env_alloc. *)

(* A successful env_alloc takes a free slot. *)
LEMMA AllocFacts ==
    ASSUME NoWrap, IInv, NEW e \in Env, NEW parent \in Id,
           parent = Zero \/ parent[1] >= 1,
           env_alloc(e, parent)
    PROVE  /\ env_status[e] = "ENV_FREE"
           /\ env_id' = [env_id EXCEPT ![e] = mkenvid(e)]
           /\ env_id' \in [Env -> Id]
           /\ mkenvid(e) \in Id /\ mkenvid(e)[1] >= 1
           /\ ENVX(mkenvid(e)) = e /\ mkenvid(e) # Zero
           /\ env_parent_id' = [env_parent_id EXCEPT ![e] = parent]
           /\ env_parent_id' \in [Env -> Id]
           /\ env_asid' \in [Env -> 0..NASID - 1]
           /\ asid_bitmap' \subseteq 0..NASID - 1
           /\ gen' \in Nat /\ gen' <= MaxGen
           /\ env_free_list' \in Seq(Env)
           /\ Injective(env_free_list')
           /\ Elements(env_free_list') = Elements(env_free_list) \ {e}
           /\ e = Head(env_free_list)
<1> USE DEF env_alloc
<1>1. TypeOK /\ FreeSlots
  BY DEF IInv, LibTypeOK
<1>2. /\ gen \in Nat /\ gen < MaxGen /\ env_free_list \in Seq(Env)
      /\ env_id \in [Env -> Id] /\ env_parent_id \in [Env -> Id]
      /\ env_asid \in [Env -> 0..NASID - 1] /\ asid_bitmap \subseteq 0..NASID - 1
  BY <1>1 DEF TypeOK
<1>3. /\ mkenvid(e) \in Id /\ mkenvid(e)[1] >= 1
      /\ ENVX(mkenvid(e)) = e /\ mkenvid(e) # Zero
  BY <1>2, NewId
<1>4. asid_alloc \in 0..NASID - 1
  BY AsidIsFree DEF FreeAsids
<1>5. /\ env_free_list # <<>> /\ e = env_free_list[1]
      /\ env_free_list' = Tail(env_free_list) /\ e = Head(env_free_list)
  BY <1>2
<1>6. /\ Tail(env_free_list) \in Seq(Env)
      /\ e \in Elements(env_free_list)
      /\ Elements(Tail(env_free_list)) = Elements(env_free_list) \ {e}
  BY <1>1, <1>2, <1>5, ElementsOfTail DEF FreeSlots
<1>7. Injective(Tail(env_free_list))
  BY <1>1, <1>2, <1>5, InjectiveTail DEF FreeSlots
<1>8. env_status[e] = "ENV_FREE"
  BY <1>1, <1>6 DEF FreeSlots, Live
<1>9. gen' \in Nat /\ gen' <= MaxGen
  BY <1>2, SizeAssumption
<1>10. env_id' = [env_id EXCEPT ![e] = mkenvid(e)] /\ env_id' \in [Env -> Id]
  BY <1>2, <1>3
<1>11. /\ env_parent_id' = [env_parent_id EXCEPT ![e] = parent]
       /\ env_parent_id' \in [Env -> Id]
  BY <1>2
<1>12. env_asid' \in [Env -> 0..NASID - 1] /\ asid_bitmap' \subseteq 0..NASID - 1
  BY <1>2, <1>4
<1> QED BY <1>3, <1>5, <1>6, <1>7, <1>8, <1>9, <1>10, <1>11, <1>12

(* An environment that is born is neither waiting nor a child under        *)
(* construction.                                                           *)
LEMMA FreeFacts ==
    ASSUME IInv, NEW e \in Env, env_status[e] = "ENV_FREE"
    PROVE  /\ env_ipc_recving[e] = FALSE
           /\ \A p \in Env : child[p] # Zero => ENVX(child[p]) # e
           /\ e \notin Runnable
           /\ curenv # e \/ halted
<1>1. ~env_ipc_recving[e]
  BY DEF IInv, Waiting
<1>2. env_ipc_recving[e] = FALSE
  BY <1>1, Zenon DEF IInv, LibTypeOK, TypeOK
<1>3. \A p \in Env : child[p] # Zero => ENVX(child[p]) # e
  BY DEF IInv, Built
<1>4. curenv # e \/ halted
  BY RunningFacts, PtrAssumption
<1> QED BY <1>2, <1>3, <1>4 DEF Runnable

LEMMA CreateInv ==
    ASSUME NoWrap, IInv, NEW p \in Pri, env_create(p), UNCHANGED child
    PROVE  IInv'
<1>0. LibTypeOK /\ Named /\ FreeSlots /\ Waiting /\ Built /\ Slices
  BY DEF IInv
<1>1. PICK e \in Env :
         /\ env_alloc(e, Zero)
         /\ env_pri' = [env_pri EXCEPT ![e] = p]
         /\ env_status' = [env_status EXCEPT ![e] = "ENV_RUNNABLE"]
         /\ env_sched_list' = TAILQ_INSERT_HEAD(env_sched_list, e)
  BY DEF env_create
<1>2. ~halted /\ curenv = Null /\ UNCHANGED <<ipcVars, curenv, count, halted, retval>>
  BY DEF env_create
<1>3. Zero \in Id /\ p \in Nat /\ p >= 1
  BY SizeAssumption, PriAssumption DEF Zero, Id, Env
<1>a. env_alloc(e, Zero)
  BY <1>1
<1>4. /\ env_status[e] = "ENV_FREE"
      /\ env_id' = [env_id EXCEPT ![e] = mkenvid(e)]
      /\ env_id' \in [Env -> Id]
      /\ mkenvid(e)[1] >= 1
      /\ env_parent_id' = [env_parent_id EXCEPT ![e] = Zero]
      /\ env_parent_id' \in [Env -> Id]
      /\ env_asid' \in [Env -> 0..NASID - 1]
      /\ asid_bitmap' \subseteq 0..NASID - 1
      /\ gen' \in Nat /\ gen' <= MaxGen
      /\ env_free_list' \in Seq(Env)
      /\ Injective(env_free_list')
      /\ Elements(env_free_list') = Elements(env_free_list) \ {e}
  BY <1>a, <1>3, AllocFacts
<1>5. /\ env_ipc_recving[e] = FALSE
      /\ \A r \in Env : child[r] # Zero => ENVX(child[r]) # e
      /\ e \notin Runnable
  BY <1>4, FreeFacts
<1>6. Live' = Live \cup {e} /\ Runnable' = Runnable \cup {e}
  BY <1>0, <1>1 DEF Live, Runnable, LibTypeOK, TypeOK
<1>7. PICK s \in Seq(Env) : Order(s)
  BY OrderWitness
<1>8. /\ env_sched_list' \in Tailqs(Env) /\ Represents(env_sched_list', <<e>> \o s)
  BY <1>0, <1>1, <1>5, <1>7, PtrAssumption, InsertHeadRepresents
     DEF LibTypeOK, TypeOK, Order
<1>9. LibTypeOK'
  BY <1>0, <1>1, <1>2, <1>3, <1>4, <1>8 DEF LibTypeOK, TypeOK, ipcVars, Status
<1>10. Named'
  <2>1. \A x \in Live' : env_id'[x][1] >= 1
    BY <1>0, <1>4, <1>6 DEF Named, LibTypeOK, TypeOK, Live
  <2>2. \A x \in Env : env_parent_id'[x] = Zero \/ env_parent_id'[x][1] >= 1
    BY <1>0, <1>4 DEF Named, LibTypeOK, TypeOK
  <2> QED BY <1>4, <2>1, <2>2 DEF Named
<1>11. FreeSlots'
  BY <1>0, <1>4, <1>6 DEF FreeSlots
<1>12. Waiting'
  BY <1>0, <1>1, <1>2, <1>5 DEF Waiting, LibTypeOK, TypeOK, ipcVars
<1>13. Built'
  <2>1. \A r \in Env : child[r] \in Id /\ ENVX(child[r]) \in Env
    BY <1>0 DEF LibTypeOK, Id, ENVX
  <2> QED BY <1>0, <1>1, <1>2, <1>4, <1>5, <2>1 DEF Built, LibTypeOK, TypeOK, ipcVars
<1>14. Slices'
  BY <1>0, <1>1, <1>2, <1>3, <1>6 DEF Slices, LibTypeOK, TypeOK, Live
<1>15. Order(<<e>> \o s)'
  <2>1. Elements(<<e>> \o s) = Runnable'
    BY <1>6, <1>7, ElementsOfPrepend DEF Order
  <2> QED BY <1>2, <1>8, <2>1 DEF Order
<1>16. <<e>> \o s \in Seq(Env)
  OBVIOUS
<1>17. (\E x \in SeqsUpTo(Env, Cardinality(Env)) : Order(x))'
  BY <1>15, <1>16, OrderPrimed
<1> QED BY <1>9, <1>10, <1>11, <1>12, <1>13, <1>14, <1>17 DEF IInv

(* fork's exofork: the child is not runnable and in no queue. *)
LEMMA ExoforkInv ==
    ASSUME NoWrap, IInv, fork_exofork
    PROVE  IInv'
<1>0. LibTypeOK /\ Named /\ FreeSlots /\ Waiting /\ Built /\ Slices
  BY DEF IInv
<1>1. /\ ~halted /\ curenv # Null /\ child[curenv] = Zero
      /\ UNCHANGED <<cpuVars, ipcVars>>
  BY DEF fork_exofork, Idle, sys_exofork, InSyscall, Return
<1>2. /\ curenv \in Env /\ env_status[curenv] = "ENV_RUNNABLE"
      /\ env_id[curenv] \in Id /\ env_id[curenv][1] >= 1
      /\ env_pri[curenv] \in Nat /\ env_pri[curenv] >= 1
  <2>1. curenv \in Env /\ env_status[curenv] = "ENV_RUNNABLE"
    BY <1>1, RunningFacts
  <2>2. curenv \in Live /\ curenv \in Runnable
    BY <2>1 DEF Live, Runnable
  <2> QED BY <1>0, <2>1, <2>2 DEF Named, Slices, LibTypeOK, TypeOK
<1>3. PICK s \in Seq(Env) : Order(s)
  BY OrderWitness
<1>4. \A r \in Env : child[r] \in Id /\ ENVX(child[r]) \in Env
  BY <1>0 DEF LibTypeOK, Id, ENVX
<1>5. CASE \E e \in Env :
             /\ env_alloc(e, env_id[curenv])
             /\ env_status' = [env_status EXCEPT ![e] = "ENV_NOT_RUNNABLE"]
             /\ env_pri' = [env_pri EXCEPT ![e] = env_pri[curenv]]
             /\ Return("OK")
  <2>1. PICK e \in Env :
             /\ env_alloc(e, env_id[curenv])
             /\ env_status' = [env_status EXCEPT ![e] = "ENV_NOT_RUNNABLE"]
             /\ env_pri' = [env_pri EXCEPT ![e] = env_pri[curenv]]
             /\ Return("OK")
    BY <1>5
  <2>2. /\ env_status[e] = "ENV_FREE"
        /\ env_id' = [env_id EXCEPT ![e] = mkenvid(e)]
        /\ env_id' \in [Env -> Id]
        /\ mkenvid(e) \in Id /\ mkenvid(e)[1] >= 1
        /\ ENVX(mkenvid(e)) = e /\ mkenvid(e) # Zero
        /\ env_parent_id' = [env_parent_id EXCEPT ![e] = env_id[curenv]]
        /\ env_parent_id' \in [Env -> Id]
        /\ env_asid' \in [Env -> 0..NASID - 1]
        /\ asid_bitmap' \subseteq 0..NASID - 1
        /\ gen' \in Nat /\ gen' <= MaxGen
        /\ env_free_list' \in Seq(Env)
        /\ Injective(env_free_list')
        /\ Elements(env_free_list') = Elements(env_free_list) \ {e}
        /\ e = Head(env_free_list)
    BY <1>2, <2>1, AllocFacts
  <2>3. /\ env_ipc_recving[e] = FALSE
        /\ \A r \in Env : child[r] # Zero => ENVX(child[r]) # e
        /\ e \notin Runnable /\ e # curenv
    BY <1>1, <2>2, FreeFacts
  <2>4. /\ retval' = "OK"
        /\ child' = [child EXCEPT ![curenv] = mkenvid(e), ![e] = Zero]
        /\ child' \in [Env -> Id]
    <3>1. retval' = "OK"
      BY <2>1 DEF Return
    <3>2. env_id'[e] = mkenvid(e)
      BY <1>0, <2>2 DEF LibTypeOK, TypeOK
    <3>3. child' = [child EXCEPT ![curenv] = mkenvid(e), ![e] = Zero]
      BY <2>2, <3>1, <3>2 DEF fork_exofork
    <3>4. Zero \in Id
      BY <1>1, <1>2, <1>4
    <3> QED BY <1>0, <2>2, <3>1, <3>3, <3>4 DEF LibTypeOK
  <2>5. Live' = Live \cup {e} /\ Runnable' = Runnable
    <3>1. /\ \A x \in Env : x # e => env_status'[x] = env_status[x]
          /\ env_status'[e] = "ENV_NOT_RUNNABLE"
      BY <1>0, <2>1 DEF LibTypeOK, TypeOK
    <3> QED BY <2>2, <3>1 DEF Live, Runnable
  <2>6. LibTypeOK'
    BY <1>0, <1>1, <1>2, <2>1, <2>2, <2>4
       DEF LibTypeOK, TypeOK, ipcVars, cpuVars, Status, RetVals
  <2>7. Named'
    <3>1. \A x \in Live' : env_id'[x][1] >= 1
      BY <1>0, <2>2, <2>5 DEF Named, LibTypeOK, TypeOK, Live
    <3>2. \A x \in Env : env_parent_id'[x] = Zero \/ env_parent_id'[x][1] >= 1
      BY <1>0, <1>2, <2>2 DEF Named, LibTypeOK, TypeOK
    <3> QED BY <2>2, <3>1, <3>2 DEF Named
  <2>8. FreeSlots'
    BY <1>0, <2>2, <2>5 DEF FreeSlots
  <2>9. Waiting'
    BY <1>0, <1>1, <2>1, <2>3 DEF Waiting, LibTypeOK, TypeOK, ipcVars
  <2>10. Built'
    <3>1. /\ child'[curenv] = mkenvid(e) /\ child'[e] = Zero
          /\ \A r \in Env : r # curenv /\ r # e => child'[r] = child[r]
      BY <1>0, <1>2, <2>3, <2>4 DEF LibTypeOK
    <3>2. /\ env_status'[e] = "ENV_NOT_RUNNABLE" /\ env_id'[e] = mkenvid(e)
          /\ ~env_ipc_recving'[e]
      BY <1>0, <1>1, <2>1, <2>2, <2>3 DEF LibTypeOK, TypeOK, ipcVars
    <3>3. \A x \in Env : x # e => /\ env_status'[x] = env_status[x]
                                 /\ env_id'[x] = env_id[x]
                                 /\ env_ipc_recving'[x] = env_ipc_recving[x]
      BY <1>0, <1>1, <2>1, <2>2 DEF LibTypeOK, TypeOK, ipcVars
    <3>4. ASSUME NEW r \in Env, child'[r] # Zero
          PROVE  /\ env_status'[ENVX(child'[r])] = "ENV_NOT_RUNNABLE"
                 /\ ~env_ipc_recving'[ENVX(child'[r])]
                 /\ env_id'[ENVX(child'[r])] = child'[r]
      <4>1. CASE r = curenv
        BY <2>2, <3>1, <3>2, <4>1
      <4>2. CASE r # curenv
        <5>1. /\ child'[r] = child[r] /\ ENVX(child[r]) \in Env
              /\ ENVX(child[r]) # e /\ child[r] # Zero
          BY <1>4, <2>3, <3>1, <3>4, <4>2
        <5> QED BY <1>0, <3>3, <3>4, <5>1 DEF Built
      <4> QED BY <4>1, <4>2
    <3>5. ASSUME NEW x \in Env, NEW y \in Env, child'[x] # Zero, child'[x] = child'[y]
          PROVE  x = y
      <4>1. x # e /\ y # e
        BY <3>1, <3>5
      <4>2. ASSUME NEW r \in Env, r # curenv, child'[r] # Zero
            PROVE  child'[r] # mkenvid(e)
        BY <2>2, <2>3, <3>1, <4>2
      <4>3. x = curenv <=> y = curenv
        BY <3>1, <3>5, <4>2
      <4> QED BY <1>0, <3>1, <3>5, <4>1, <4>3 DEF Built
    <3> QED BY <3>4, <3>5 DEF Built
  <2>11. Slices'
    <3>1. \A x \in Env : x # e => env_pri'[x] = env_pri[x]
      BY <1>0, <2>1 DEF LibTypeOK, TypeOK
    <3>2. env_pri'[e] = env_pri[curenv]
      BY <1>0, <2>1 DEF LibTypeOK, TypeOK
    <3>3. \A x \in Live' : env_pri'[x] >= 1
      BY <1>0, <1>2, <2>5, <3>1, <3>2 DEF Slices, Live
    <3> QED BY <1>0, <1>1, <1>2, <2>3, <3>1, <3>3 DEF Slices, cpuVars
  <2>12. Order(s)'
    BY <1>1, <1>3, <2>5 DEF Order, cpuVars
  <2>13. (\E x \in SeqsUpTo(Env, Cardinality(Env)) : Order(x))'
    BY <2>12, OrderPrimed
  <2> QED BY <2>6, <2>7, <2>8, <2>9, <2>10, <2>11, <2>13 DEF IInv
<1>6. CASE /\ env_alloc_fails
           /\ Return("E_NO_FREE_ENV")
           /\ UNCHANGED <<env_parent_id, env_asid, env_pri, env_free_list,
                          asid_bitmap, env_status>>
  <2>1. /\ retval' = "E_NO_FREE_ENV" /\ UNCHANGED child
        /\ UNCHANGED <<env_parent_id, env_asid, env_pri, env_free_list,
                       asid_bitmap, env_status>>
    BY <1>6 DEF Return, fork_exofork
  <2>2. /\ env_id' \in [Env -> Id] /\ gen' \in Nat /\ gen' <= MaxGen
        /\ \A x \in Live : env_id'[x] = env_id[x]
    <3>1. CASE UNCHANGED <<env_id, gen>>
      BY <1>0, <3>1 DEF LibTypeOK, TypeOK, Named
    <3>2. CASE /\ env_free_list # <<>> /\ gen < MaxGen
               /\ env_id' = [env_id EXCEPT ![Head(env_free_list)] =
                                 mkenvid(Head(env_free_list))]
               /\ gen' = gen + 1
      <4>1. /\ Head(env_free_list) \in Env /\ gen \in Nat
            /\ Head(env_free_list) \in Elements(env_free_list)
        BY <1>0, <3>2 DEF LibTypeOK, TypeOK, Elements
      <4>2. Head(env_free_list) \notin Live
        BY <1>0, <4>1 DEF FreeSlots
      <4>3. mkenvid(Head(env_free_list)) \in Id
        BY <3>2, <4>1, NewId
      <4>4. env_id' \in [Env -> Id] /\ \A x \in Live : env_id'[x] = env_id[x]
        BY <1>0, <3>2, <4>2, <4>3 DEF LibTypeOK, TypeOK, Live
      <4>5. gen' \in Nat /\ gen' <= MaxGen
        BY <3>2, <4>1, SizeAssumption
      <4> QED BY <4>4, <4>5
    <3> QED BY <1>6, <3>1, <3>2 DEF env_alloc_fails
  <2>3. Live' = Live /\ Runnable' = Runnable
    BY <2>1 DEF Live, Runnable
  <2>4. LibTypeOK'
    BY <1>0, <1>1, <2>1, <2>2 DEF LibTypeOK, TypeOK, ipcVars, cpuVars, RetVals
  <2>5. Named'
    BY <1>0, <2>1, <2>2, <2>3 DEF Named
  <2>6. FreeSlots' /\ Waiting' /\ Slices'
    BY <1>0, <1>1, <2>1, <2>3 DEF FreeSlots, Waiting, Slices, ipcVars, cpuVars
  <2>7. Built'
    <3>1. \A r \in Env : child[r] # Zero => ENVX(child[r]) \in Live
      BY <1>0, <1>4 DEF Built, Live
    <3> QED BY <1>0, <1>1, <2>1, <2>2, <3>1 DEF Built, ipcVars
  <2>8. Order(s)'
    BY <1>1, <1>3, <2>3 DEF Order, cpuVars
  <2>9. (\E x \in SeqsUpTo(Env, Cardinality(Env)) : Order(x))'
    BY <2>8, OrderPrimed
  <2> QED BY <2>4, <2>5, <2>6, <2>7, <2>9 DEF IInv
<1> QED BY <1>5, <1>6 DEF fork_exofork, sys_exofork

-----------------------------------------------------------------------------
(* Steps that change nothing but a return value, or forget a child. *)
LEMMA QuietInv ==
    ASSUME IInv,
           UNCHANGED <<allocVars, ipcVars, cpuVars, env_status>>,
           retval' \in RetVals,
           child' \in [Env -> Id],
           \A r \in Env : child'[r] = Zero \/ child'[r] = child[r]
    PROVE  IInv'
<1>0. LibTypeOK /\ Named /\ FreeSlots /\ Waiting /\ Built /\ Slices
  BY DEF IInv
<1>1. LibTypeOK'
  BY <1>0 DEF LibTypeOK, TypeOK, allocVars, ipcVars, cpuVars
<1>2. Named' /\ FreeSlots' /\ Waiting' /\ Slices'
  BY <1>0 DEF Named, FreeSlots, Waiting, Slices, Live, allocVars, ipcVars, cpuVars
<1>3. Built'
  BY <1>0 DEF Built, allocVars, ipcVars
<1>4. PICK s \in Seq(Env) : Order(s)
  BY OrderWitness
<1>5. Order(s)'
  BY <1>4 DEF Order, Runnable, cpuVars
<1>6. (\E x \in SeqsUpTo(Env, Cardinality(Env)) : Order(x))'
  BY <1>5, OrderPrimed
<1> QED BY <1>1, <1>2, <1>3, <1>6 DEF IInv

(* Steps that wake an environment: it goes to the end of the queue. *)
LEMMA WakeInv ==
    ASSUME IInv, ~halted, curenv # Null,
           NEW e \in Env, env_status[e] = "ENV_NOT_RUNNABLE",
           env_status' = [env_status EXCEPT ![e] = "ENV_RUNNABLE"],
           env_sched_list' = TAILQ_INSERT_TAIL(env_sched_list, e),
           env_ipc_recving' = [env_ipc_recving EXCEPT ![e] = FALSE],
           env_ipc_from' \in [Env -> Id],
           retval' \in RetVals,
           UNCHANGED <<allocVars, curenv, count, halted>>,
           child' \in [Env -> Id],
           \A r \in Env : child'[r] = Zero \/ child'[r] = child[r],
           \A r \in Env : child'[r] # Zero => ENVX(child'[r]) # e
    PROVE  IInv'
<1>0. LibTypeOK /\ Named /\ FreeSlots /\ Waiting /\ Built /\ Slices
  BY DEF IInv
<1>1. Live' = Live /\ Runnable' = Runnable \cup {e} /\ e \notin Runnable
  BY <1>0 DEF Live, Runnable, LibTypeOK, TypeOK
<1>2. PICK s \in Seq(Env) : Order(s)
  BY OrderWitness
<1>3. env_sched_list' \in Tailqs(Env) /\ Represents(env_sched_list', Append(s, e))
  BY <1>0, <1>1, <1>2, PtrAssumption, InsertTailRepresents
     DEF LibTypeOK, TypeOK, Order
<1>4. LibTypeOK'
  <2>1. env_ipc_recving' \in [Env -> BOOLEAN]
    BY <1>0, Zenon DEF LibTypeOK, TypeOK
  <2> QED BY <1>0, <1>3, <2>1 DEF LibTypeOK, TypeOK, allocVars, Status
<1>5. Named' /\ FreeSlots' /\ Slices'
  BY <1>0, <1>1 DEF Named, FreeSlots, Slices, allocVars
<1>6. Waiting'
  BY <1>0 DEF Waiting, LibTypeOK, TypeOK
<1>7. Built'
  <2>1. \A r \in Env : ENVX(child'[r]) \in Env
    BY DEF Id, ENVX
  <2>2. \A x \in Env : x # e => /\ env_status'[x] = env_status[x]
                               /\ env_id'[x] = env_id[x]
                               /\ env_ipc_recving'[x] = env_ipc_recving[x]
    BY <1>0 DEF LibTypeOK, TypeOK, allocVars
  <2> QED BY <1>0, <2>1, <2>2 DEF Built
<1>8. Order(Append(s, e))' /\ Append(s, e) \in Seq(Env)
  <2>1. Elements(Append(s, e)) = Runnable'
    BY <1>1, <1>2, ElementsOfAppend DEF Order
  <2>2. s # <<>> /\ curenv = s[1]
    BY <1>2 DEF Order
  <2>3. Append(s, e) # <<>> /\ Append(s, e)[1] = s[1] /\ Append(s, e) \in Seq(Env)
    BY <2>2
  <2> QED BY <1>3, <2>1, <2>2, <2>3 DEF Order
<1>9. (\E x \in SeqsUpTo(Env, Cardinality(Env)) : Order(x))'
  BY <1>8, OrderPrimed
<1> QED BY <1>4, <1>5, <1>6, <1>7, <1>9 DEF IInv

(* Steps in which the running environment leaves the queue: schedule finds *)
(* curenv = c to be nobody (env_destroy), or the one that left (ipc_recv), *)
(* whose second removal does nothing.                                      *)
LEMMA ReadyWithout ==
    ASSUME IInv, ~halted, curenv # Null,
           NEW s \in Seq(Env), Order(s),
           NEW st \in Status, st # "ENV_RUNNABLE",
           NEW status, status = [env_status EXCEPT ![curenv] = st],
           NEW c \in {curenv, Null},
           NEW q, q = TAILQ_REMOVE(env_sched_list, curenv)
    PROVE  /\ Tail(s) \in Seq(Env) /\ Elements(Tail(s)) = Runnable \ {curenv}
           /\ Ready(q, Tail(s), c, status)
           /\ c = Null \/ (status[c] # "ENV_RUNNABLE" /\ TAILQ_REMOVE(q, c) = q)
<1>0. LibTypeOK /\ Slices
  BY DEF IInv
<1>2. /\ s # <<>> /\ curenv = s[1] /\ Represents(env_sched_list, s)
      /\ Injective(s) /\ Elements(s) = Runnable /\ curenv \in Env
  BY RunningFacts DEF Order, Represents
<1>3. /\ q \in Tailqs(Env) /\ Represents(q, Tail(s)) /\ TAILQ_REMOVE(q, curenv) = q
  BY <1>0, <1>2, PtrAssumption, RemoveFirstRepresents DEF LibTypeOK, TypeOK
<1>4. Tail(s) \in Seq(Env) /\ Elements(Tail(s)) = Runnable \ {curenv}
  BY <1>2, ElementsOfTail
<1>5. status \in [Env -> Status] /\ status[curenv] # "ENV_RUNNABLE"
  BY <1>0, <1>2 DEF LibTypeOK, TypeOK
<1>6. Elements(Tail(s)) = { x \in Env : status[x] = "ENV_RUNNABLE" }
  BY <1>0, <1>2, <1>4, <1>5 DEF Runnable, LibTypeOK, TypeOK
<1>7. \A x \in Elements(Tail(s)) : env_pri[x] >= 1
  BY <1>4, RunningFacts
<1>8. /\ env_pri \in [Env -> Nat] /\ count \in Int /\ halted = FALSE
      /\ c \in Env \cup {Null}
  BY <1>0, <1>2, RunningFacts DEF LibTypeOK, TypeOK
<1>9. c = Null \/ (c # Null /\ status[c] # "ENV_RUNNABLE" /\ TAILQ_REMOVE(q, c) = q)
  BY <1>3, <1>5
<1> QED BY <1>3, <1>4, <1>5, <1>6, <1>7, <1>8, <1>9 DEF Ready

LEMMA StopOrder ==
    ASSUME IInv, ~halted, curenv # Null,
           NEW st \in Status, st # "ENV_RUNNABLE",
           NEW status, status = [env_status EXCEPT ![curenv] = st],
           NEW c \in {curenv, Null},
           schedule(TRUE, TAILQ_REMOVE(env_sched_list, curenv), c, status)
    PROVE  \E t \in Seq(Env) : Scheduled(t) /\ Elements(t) = Runnable \ {curenv}
<1>1. PICK s \in Seq(Env) : Order(s)
  BY OrderWitness
<1> DEFINE q == TAILQ_REMOVE(env_sched_list, curenv)
<1>2. /\ Tail(s) \in Seq(Env) /\ Elements(Tail(s)) = Runnable \ {curenv}
      /\ Ready(q, Tail(s), c, status)
  BY <1>1, ReadyWithout
<1>3. schedule(TRUE, q, c, status) /\ TRUE \in BOOLEAN
  OBVIOUS
<1> HIDE DEF q
<1> QED BY <1>2, <1>3, ScheduleKeepsOrder

(* fork's and spawn's last call. *)
LEMMA StartInv ==
    ASSUME IInv, fork_start
    PROVE  IInv'
<1>0. LibTypeOK /\ Built
  BY DEF IInv
<1>1. /\ ~halted /\ curenv # Null /\ child[curenv] # Zero
      /\ UNCHANGED <<allocVars, ipcVars>>
      /\ child' = [child EXCEPT ![curenv] = Zero]
  BY DEF fork_start, sys_set_env_status, InSyscall
<1>2. curenv \in Env
  BY <1>1, RunningFacts
<1>3. /\ child' \in [Env -> Id]
      /\ \A r \in Env : child'[r] = Zero \/ child'[r] = child[r]
  <2>1. Zero \in Id
    BY SizeAssumption DEF Zero, Id, Env
  <2> QED BY <1>0, <1>1, <1>2, <2>1 DEF LibTypeOK
<1> DEFINE e == ENVX(child[curenv])
<1>4. /\ e \in Env /\ env_status[e] = "ENV_NOT_RUNNABLE"
      /\ ~env_ipc_recving[e] /\ env_id[e] = child[curenv]
  <2>1. e \in Env
    BY <1>0, <1>2 DEF LibTypeOK, Id, ENVX
  <2> QED BY <1>0, <1>1, <1>2, <2>1 DEF Built
<1>5. \A r \in Env : child'[r] # Zero => ENVX(child'[r]) # e
  <2> SUFFICES ASSUME NEW r \in Env, child'[r] # Zero, ENVX(child'[r]) = e
               PROVE  FALSE
    OBVIOUS
  <2>1. r # curenv /\ child'[r] = child[r]
    BY <1>0, <1>1, <1>2 DEF LibTypeOK
  <2>2. child[r] = child[curenv]
    BY <1>0, <1>4, <2>1 DEF Built
  <2> QED BY <1>0, <1>1, <1>2, <2>1, <2>2 DEF Built
<1>6. CASE \E x \in envid2env(child[curenv], env_id[curenv]) :
             /\ env_sched_list' =
                  IF env_status[x] = "ENV_RUNNABLE" /\ "ENV_RUNNABLE" # "ENV_RUNNABLE"
                  THEN TAILQ_REMOVE(env_sched_list, x)
                  ELSE IF env_status[x] # "ENV_RUNNABLE" /\ "ENV_RUNNABLE" = "ENV_RUNNABLE"
                  THEN TAILQ_INSERT_TAIL(env_sched_list, x)
                  ELSE env_sched_list
             /\ env_status' = [env_status EXCEPT ![x] = "ENV_RUNNABLE"]
             /\ retval' = "OK"
             /\ UNCHANGED <<curenv, count, halted>>
  <2>1. \A x \in envid2env(child[curenv], env_id[curenv]) : x = e
    BY <1>1 DEF envid2env
  <2> HIDE DEF e
  <2>2. /\ env_sched_list' = TAILQ_INSERT_TAIL(env_sched_list, e)
        /\ env_status' = [env_status EXCEPT ![e] = "ENV_RUNNABLE"]
        /\ retval' = "OK"
        /\ UNCHANGED <<curenv, count, halted>>
    BY <1>4, <1>6, <2>1
  <2>3. env_ipc_recving' = [env_ipc_recving EXCEPT ![e] = FALSE]
    <3>1. env_ipc_recving[e] = FALSE /\ env_ipc_recving \in [Env -> BOOLEAN]
      BY <1>0, <1>4, Zenon DEF LibTypeOK, TypeOK
    <3>2. env_ipc_recving' = env_ipc_recving
      BY <1>1 DEF ipcVars
    <3> QED BY <3>1, <3>2
  <2>4. retval' \in RetVals /\ env_ipc_from' \in [Env -> Id]
    BY <1>0, <1>1, <2>2 DEF RetVals, LibTypeOK, TypeOK, ipcVars
  <2> QED BY <1>1, <1>3, <1>4, <1>5, <2>2, <2>3, <2>4, WakeInv
<1>7. CASE Return("E_BAD_ENV") /\ UNCHANGED env_status
  <2>1. /\ UNCHANGED <<allocVars, ipcVars, cpuVars, env_status>>
        /\ retval' \in RetVals
    BY <1>1, <1>7 DEF Return, RetVals
  <2> QED BY <1>3, <2>1, QuietInv
<1> QED BY <1>6, <1>7 DEF fork_start, sys_set_env_status

(* spawn's error path: the child is not found, because the literal 1 that  *)
(* sys_env_destroy passes is no env_parent_id.                             *)
LEMMA SpawnFindsNobody ==
    ASSUME IInv, ~halted, curenv # Null, child[curenv] # Zero
    PROVE  envid2env(child[curenv], One) = {}
<1>0. LibTypeOK /\ Built /\ Named
  BY DEF IInv
<1>1. curenv \in Env /\ env_status[curenv] = "ENV_RUNNABLE"
  BY RunningFacts
<1> DEFINE e == ENVX(child[curenv])
<1>2. e \in Env /\ env_status[e] = "ENV_NOT_RUNNABLE"
  <2>1. e \in Env
    BY <1>0, <1>1 DEF LibTypeOK, Id, ENVX
  <2> QED BY <1>0, <1>1, <2>1 DEF Built
<1>3. e # curenv /\ env_parent_id[e] # One /\ One # Zero
  BY <1>0, <1>1, <1>2 DEF Named, One, Zero
<1> QED BY <1>3 DEF envid2env

LEMMA SpawnErrInv ==
    ASSUME IInv, spawn_err
    PROVE  IInv'
<1>0. LibTypeOK
  BY DEF IInv
<1>1. /\ ~halted /\ curenv # Null /\ child[curenv] # Zero
      /\ UNCHANGED ipcVars
      /\ child' = [child EXCEPT ![curenv] = Zero]
  BY DEF spawn_err, sys_env_destroy, InSyscall
<1>2. curenv \in Env
  BY <1>1, RunningFacts
<1>3. /\ child' \in [Env -> Id]
      /\ \A r \in Env : child'[r] = Zero \/ child'[r] = child[r]
  <2>1. Zero \in Id
    BY SizeAssumption DEF Zero, Id, Env
  <2> QED BY <1>0, <1>1, <1>2, <2>1 DEF LibTypeOK
<1>4. envid2env(child[curenv], One) = {}
  BY <1>1, SpawnFindsNobody
<1>5. /\ UNCHANGED <<allocVars, ipcVars, cpuVars, env_status>>
      /\ retval' \in RetVals
  BY <1>1, <1>4 DEF spawn_err, sys_env_destroy, Return, RetVals
<1> QED BY <1>3, <1>5, QuietInv

LEMMA ExitInv ==
    ASSUME IInv, exit
    PROVE  IInv'
<1>0. LibTypeOK /\ Named /\ FreeSlots /\ Waiting /\ Built /\ Slices
  BY DEF IInv
<1>1. /\ ~halted /\ curenv # Null /\ UNCHANGED ipcVars
      /\ child' = [child EXCEPT ![curenv] = Zero]
  BY DEF exit, sys_env_destroy, InSyscall
<1>2. /\ curenv \in Env /\ env_status[curenv] = "ENV_RUNNABLE"
      /\ env_ipc_recving[curenv] = FALSE
  BY <1>1, RunningFacts
<1>3. env_destroy(curenv)
  BY DEF exit, sys_env_destroy, envid2env
<1> DEFINE status == [env_status EXCEPT ![curenv] = "ENV_FREE"]
<1>4. /\ env_status' = status
      /\ asid_bitmap' = asid_bitmap \ {env_asid[curenv]}
      /\ env_free_list' = <<curenv>> \o env_free_list
      /\ schedule(TRUE, TAILQ_REMOVE(env_sched_list, curenv), Null, status)
      /\ retval' = "none"
      /\ UNCHANGED <<env_id, env_parent_id, env_asid, env_pri, gen>>
  BY <1>3 DEF env_destroy
<1>5. PICK t \in Seq(Env) : Scheduled(t) /\ Elements(t) = Runnable \ {curenv}
  <2>1. "ENV_FREE" \in Status /\ Null \in {curenv, Null}
    BY DEF Status
  <2> QED BY <1>1, <1>4, <2>1, StopOrder
<1>6. /\ \A x \in Env : x # curenv => env_status'[x] = env_status[x]
      /\ env_status'[curenv] = "ENV_FREE" /\ env_status' \in [Env -> Status]
  BY <1>0, <1>2, <1>4 DEF LibTypeOK, TypeOK, Status
<1>7. /\ Live' = Live \ {curenv} /\ Runnable' = Runnable \ {curenv}
      /\ curenv \in Live
  BY <1>2, <1>6 DEF Live, Runnable
<1>8. /\ child' \in [Env -> Id]
      /\ \A r \in Env : child'[r] = Zero \/ (child'[r] = child[r] /\ r # curenv)
  <2>1. Zero \in Id
    BY SizeAssumption DEF Zero, Id, Env
  <2> QED BY <1>0, <1>1, <1>2, <2>1 DEF LibTypeOK
<1>9. /\ env_free_list' \in Seq(Env)
      /\ Elements(env_free_list') = Elements(env_free_list) \cup {curenv}
      /\ Injective(env_free_list')
  <2>1. env_free_list \in Seq(Env) /\ Injective(env_free_list)
        /\ curenv \notin Elements(env_free_list)
    BY <1>0, <1>7 DEF LibTypeOK, TypeOK, FreeSlots
  <2>2. Elements(<<curenv>> \o env_free_list) = Elements(env_free_list) \cup {curenv}
    BY <1>2, <2>1, ElementsOfPrepend
  <2>3. Injective(<<curenv>> \o env_free_list)
    BY <1>2, <2>1, InjectivePrepend
  <2> QED BY <1>2, <1>4, <2>1, <2>2, <2>3
<1>10. LibTypeOK'
  BY <1>0, <1>1, <1>4, <1>5, <1>6, <1>8, <1>9
     DEF LibTypeOK, TypeOK, Scheduled, ipcVars, RetVals
<1>11. Named'
  BY <1>0, <1>4, <1>7 DEF Named
<1>12. FreeSlots'
  BY <1>0, <1>2, <1>7, <1>9 DEF FreeSlots, Live
<1>13. Waiting'
  BY <1>0, <1>1, <1>2, <1>6 DEF Waiting, ipcVars
<1>14. Built'
  <2>1. \A r \in Env : child'[r] # Zero => ENVX(child'[r]) \in Env \ {curenv}
    BY <1>0, <1>2, <1>8 DEF Built, Id, ENVX
  <2> QED BY <1>0, <1>1, <1>4, <1>6, <1>8, <2>1 DEF Built, ipcVars
<1>15. Slices'
  BY <1>0, <1>4, <1>5, <1>7 DEF Slices, Scheduled
<1>16. Order(t)'
  BY <1>5, <1>7 DEF Order, Scheduled
<1>17. (\E x \in SeqsUpTo(Env, Cardinality(Env)) : Order(x))'
  BY <1>16, OrderPrimed
<1> QED BY <1>10, <1>11, <1>12, <1>13, <1>14, <1>15, <1>17 DEF IInv

LEMMA RecvInv ==
    ASSUME IInv, ipc_recv
    PROVE  IInv'
<1>0. LibTypeOK /\ Named /\ FreeSlots /\ Waiting /\ Built /\ Slices
  BY DEF IInv
<1> DEFINE status == [env_status EXCEPT ![curenv] = "ENV_NOT_RUNNABLE"]
<1>1. /\ ~halted /\ curenv # Null
      /\ env_ipc_recving' = [env_ipc_recving EXCEPT ![curenv] = TRUE]
      /\ env_status' = status
      /\ schedule(TRUE, TAILQ_REMOVE(env_sched_list, curenv), curenv, status)
      /\ retval' = "none"
      /\ UNCHANGED <<allocVars, env_ipc_from, child>>
  BY DEF ipc_recv, sys_ipc_recv, InSyscall
<1>2. curenv \in Env /\ env_status[curenv] = "ENV_RUNNABLE"
  BY <1>1, RunningFacts
<1>3. PICK t \in Seq(Env) : Scheduled(t) /\ Elements(t) = Runnable \ {curenv}
  <2>1. "ENV_NOT_RUNNABLE" \in Status /\ curenv \in {curenv, Null}
    BY DEF Status
  <2> QED BY <1>1, <2>1, StopOrder
<1>4. /\ \A x \in Env : x # curenv => env_status'[x] = env_status[x]
      /\ env_status'[curenv] = "ENV_NOT_RUNNABLE" /\ env_status' \in [Env -> Status]
  BY <1>0, <1>1, <1>2 DEF LibTypeOK, TypeOK, Status
<1>5. Live' = Live /\ Runnable' = Runnable \ {curenv}
  BY <1>2, <1>4 DEF Live, Runnable
<1>6. env_ipc_recving' \in [Env -> BOOLEAN]
      /\ \A x \in Env : x # curenv => env_ipc_recving'[x] = env_ipc_recving[x]
  BY <1>0, <1>1, Zenon DEF LibTypeOK, TypeOK
<1>7. LibTypeOK'
  BY <1>0, <1>1, <1>3, <1>4, <1>6 DEF LibTypeOK, TypeOK, Scheduled, allocVars, RetVals
<1>8. Named' /\ FreeSlots'
  BY <1>0, <1>1, <1>5 DEF Named, FreeSlots, allocVars
<1>9. Waiting'
  BY <1>0, <1>4, <1>6 DEF Waiting
<1>10. Built'
  <2>1. \A r \in Env : child[r] # Zero => ENVX(child[r]) \in Env \ {curenv}
    BY <1>0, <1>2 DEF Built, LibTypeOK, Id, ENVX
  <2> QED BY <1>0, <1>1, <1>4, <1>6, <2>1 DEF Built, allocVars
<1>11. Slices'
  BY <1>0, <1>1, <1>3, <1>5 DEF Slices, Scheduled, allocVars
<1>12. Order(t)'
  BY <1>3, <1>5 DEF Order, Scheduled
<1>13. (\E x \in SeqsUpTo(Env, Cardinality(Env)) : Order(x))'
  BY <1>12, OrderPrimed
<1> QED BY <1>7, <1>8, <1>9, <1>10, <1>11, <1>13 DEF IInv

LEMMA SendInv ==
    ASSUME IInv, NEW id \in Id, NEW page \in LibPages, ipc_send(id, page)
    PROVE  IInv'
<1>0. LibTypeOK /\ Built /\ Waiting
  BY DEF IInv
<1>1. /\ ~halted /\ curenv # Null /\ UNCHANGED <<allocVars, child>>
  BY DEF ipc_send, sys_ipc_try_send, InSyscall
<1>2. curenv \in Env /\ env_ipc_recving[curenv] = FALSE /\ env_id[curenv] \in Id
  BY <1>0, <1>1, RunningFacts DEF LibTypeOK, TypeOK
<1>3. child' \in [Env -> Id] /\ \A r \in Env : child'[r] = Zero \/ child'[r] = child[r]
  BY <1>0, <1>1 DEF LibTypeOK
<1>4. CASE \E e \in envid2env(id, Zero) :
            /\ page # "illegal"
            /\ env_ipc_recving[e]
            /\ env_ipc_recving' = [env_ipc_recving EXCEPT ![e] = FALSE]
            /\ env_ipc_from' = [env_ipc_from EXCEPT ![e] = env_id[curenv]]
            /\ env_status' = [env_status EXCEPT ![e] = "ENV_RUNNABLE"]
            /\ env_sched_list' = TAILQ_INSERT_TAIL(env_sched_list, e)
            /\ retval' = SendResult(page)
            /\ UNCHANGED <<curenv, count, halted>>
  <2>1. PICK e \in envid2env(id, Zero) :
            /\ env_ipc_recving[e]
            /\ env_ipc_recving' = [env_ipc_recving EXCEPT ![e] = FALSE]
            /\ env_ipc_from' = [env_ipc_from EXCEPT ![e] = env_id[curenv]]
            /\ env_status' = [env_status EXCEPT ![e] = "ENV_RUNNABLE"]
            /\ env_sched_list' = TAILQ_INSERT_TAIL(env_sched_list, e)
            /\ retval' = SendResult(page)
            /\ UNCHANGED <<curenv, count, halted>>
    BY <1>4
  <2>2. e \in Env
    BY <1>2 DEF envid2env, Id, ENVX
  <2>3. env_status[e] = "ENV_NOT_RUNNABLE"
    BY <1>0, <2>1, <2>2 DEF Waiting
  <2>4. \A r \in Env : child'[r] # Zero => ENVX(child'[r]) # e
    BY <1>0, <1>1, <2>1 DEF Built
  <2>5. retval' \in RetVals
    <3>1. page \in {"none", "mapped", "nomem"}
      BY DEF LibPages
    <3> QED BY <2>1, <3>1 DEF SendResult, RetVals
  <2>6. env_ipc_from' \in [Env -> Id]
    BY <1>0, <1>2, <2>1 DEF LibTypeOK, TypeOK
  <2> QED BY <1>1, <1>3, <2>1, <2>2, <2>3, <2>4, <2>5, <2>6, WakeInv
<1>5. CASE \E r \in RetVals : Return(r) /\ UNCHANGED <<ipcVars, env_status>>
  <2>1. /\ UNCHANGED <<allocVars, ipcVars, cpuVars, env_status>>
        /\ retval' \in RetVals
    BY <1>1, <1>5 DEF Return
  <2> QED BY <1>3, <2>1, QuietInv
<1>6. {"E_INVAL", "E_IPC_NOT_RECV", "E_BAD_ENV"} \subseteq RetVals
  BY DEF RetVals
<1> QED BY <1>4, <1>5, <1>6 DEF ipc_send, sys_ipc_try_send

-----------------------------------------------------------------------------
(* Every step of the library's programs keeps the invariant. *)
LEMMA NextInv == NoWrap /\ IInv /\ [LibNext]_libVars => IInv'
<1> SUFFICES ASSUME NoWrap, IInv, [LibNext]_libVars PROVE IInv'
  OBVIOUS
<1>1. ASSUME NEW p \in Pri, env_create(p), UNCHANGED child PROVE IInv'
  BY <1>1, CreateInv
<1>2. CASE tick
  <2>1. /\ ~halted /\ schedule(FALSE, env_sched_list, curenv, env_status)
        /\ retval' = "none" /\ UNCHANGED <<allocVars, ipcVars, env_status, child>>
        /\ FALSE \in BOOLEAN
    BY <1>2 DEF tick, handle_interrupt
  <2> QED BY <2>1, RescheduleInv
<1>3. CASE yield
  <2>1. /\ ~halted /\ schedule(TRUE, env_sched_list, curenv, env_status)
        /\ retval' = "none" /\ UNCHANGED <<allocVars, ipcVars, env_status, child>>
        /\ TRUE \in BOOLEAN
    BY <1>3 DEF yield, sys_yield, InSyscall
  <2> QED BY <2>1, RescheduleInv
<1>4. CASE fork_exofork
  BY <1>4, ExoforkInv
<1>5. CASE fork_start
  BY <1>5, StartInv
<1>6. CASE spawn_err
  BY <1>6, SpawnErrInv
<1>7. CASE exit
  BY <1>7, ExitInv
<1>8. CASE ipc_recv
  BY <1>8, RecvInv
<1>9. ASSUME NEW id \in Id, NEW page \in LibPages, ipc_send(id, page) PROVE IInv'
  BY <1>9, SendInv
<1>10. CASE UNCHANGED libVars
  <2>1. /\ UNCHANGED <<allocVars, ipcVars, cpuVars, env_status>>
        /\ UNCHANGED <<retval, child>>
    BY <1>10 DEF libVars, vars
  <2>2. retval' \in RetVals /\ child' \in [Env -> Id]
    BY <2>1 DEF IInv, LibTypeOK, TypeOK
  <2>3. \A r \in Env : child'[r] = Zero \/ child'[r] = child[r]
    BY <2>1
  <2> QED BY <2>1, <2>2, <2>3, QuietInv
<1> QED BY <1>1, <1>2, <1>3, <1>4, <1>5, <1>6, <1>7, <1>8, <1>9, <1>10 DEF LibNext

(* The inductive invariant holds throughout. *)
THEOREM InvariantHolds == NoWrap => (LibSpec => []IInv)
<1> SUFFICES ASSUME NoWrap PROVE LibSpec => []IInv
  OBVIOUS
<1>1. LibInit => IInv
  BY InitInv
<1>2. IInv /\ [LibNext]_libVars => IInv'
  BY NextInv
<1> QED BY <1>1, <1>2, PTL DEF LibSpec

(* Every variable keeps its type: in particular no ASID past the bitmap is *)
(* handed out (asid_alloc) and every queue link stays inside envs[].       *)
THEOREM TypeCorrect == NoWrap => (LibSpec => []LibTypeOK)
<1>1. IInv => LibTypeOK
  BY DEF IInv
<1> QED BY <1>1, InvariantHolds, PTL

(* kern/env.c:18 for every program built on the user library: link by      *)
(* link, env_sched_list is a queue of the runnable environments, each once.*)
THEOREM SchedListCorrect == NoWrap => (LibSpec => []SchedListIsRunnable)
<1>1. IInv => SchedListIsRunnable
  BY DEF IInv, Order, SchedListIsRunnable
<1> QED BY <1>1, InvariantHolds, PTL

(* env_run's assert never fails in the running system, and the environment *)
(* on the CPU is the first of the queue, with slices left.                 *)
THEOREM RunningCorrect == NoWrap => (LibSpec => []RunningIsFirst)
<1>1. IInv => RunningIsFirst
  <2> SUFFICES ASSUME IInv, curenv # Null, ~halted
               PROVE  /\ curenv = TAILQ_FIRST(env_sched_list)
                      /\ env_status[curenv] = "ENV_RUNNABLE"
                      /\ count \in 1..env_pri[curenv]
                      /\ ~env_ipc_recving[curenv]
    BY DEF RunningIsFirst
  <2>1. PICK s \in Seq(Env) : Order(s)
    BY OrderWitness
  <2>2. env_sched_list \in Tailqs(Env) /\ Represents(env_sched_list, s)
    BY <2>1 DEF Order, IInv, LibTypeOK, TypeOK
  <2>3. curenv = TAILQ_FIRST(env_sched_list)
    BY <2>1, <2>2, FirstRepresents DEF Order
  <2> QED BY <2>3, RunningFacts
<1> QED BY <1>1, InvariantHolds, PTL

(* schedule panics ("no runnable envs") only when no environment can run.  *)
THEOREM PanicCorrect == NoWrap => (LibSpec => []PanicOnlyWhenIdle)
<1>1. IInv => PanicOnlyWhenIdle
  <2> SUFFICES ASSUME IInv, halted PROVE Runnable = {}
    BY DEF PanicOnlyWhenIdle
  <2>1. PICK s \in Seq(Env) : Order(s)
    BY OrderWitness
  <2>2. s = <<>> /\ Elements(s) = Runnable
    BY <2>1 DEF Order
  <2> QED BY <2>2 DEF Elements
<1> QED BY <1>1, InvariantHolds, PTL

-----------------------------------------------------------------------------
(* A step in which the caller gives the CPU away. *)
LEMMA StepGivesWay ==
    ASSUME IInv, yield \/ ipc_recv \/ exit
    PROVE  halted' \/ curenv' # curenv \/ (yield /\ Runnable = {curenv})
<1>0. LibTypeOK
  BY DEF IInv
<1>1. ~halted /\ curenv # Null
  BY DEF yield, ipc_recv, exit, sys_yield, sys_ipc_recv, sys_env_destroy, InSyscall
<1>2. curenv \in Env /\ env_status[curenv] = "ENV_RUNNABLE"
  BY <1>1, RunningFacts
<1>3. ASSUME NEW t \in Seq(Env), Scheduled(t), Elements(t) = Runnable \ {curenv}
      PROVE  halted' \/ curenv' # curenv
  <2>1. t # <<>> => t[1] \in Elements(t)
    BY DEF Elements
  <2> QED BY <1>3, <2>1 DEF Scheduled
<1>4. CASE ipc_recv
  <2> DEFINE status == [env_status EXCEPT ![curenv] = "ENV_NOT_RUNNABLE"]
  <2>1. /\ schedule(TRUE, TAILQ_REMOVE(env_sched_list, curenv), curenv, status)
        /\ "ENV_NOT_RUNNABLE" \in Status /\ curenv \in {curenv, Null}
    BY <1>4 DEF ipc_recv, sys_ipc_recv, Status
  <2>2. \E t \in Seq(Env) : Scheduled(t) /\ Elements(t) = Runnable \ {curenv}
    BY <1>1, <2>1, StopOrder
  <2> QED BY <1>3, <2>2
<1>5. CASE exit
  <2> DEFINE status == [env_status EXCEPT ![curenv] = "ENV_FREE"]
  <2>1. env_destroy(curenv)
    BY <1>5 DEF exit, sys_env_destroy, envid2env
  <2>2. /\ schedule(TRUE, TAILQ_REMOVE(env_sched_list, curenv), Null, status)
        /\ "ENV_FREE" \in Status /\ Null \in {curenv, Null}
    BY <2>1 DEF env_destroy, Status
  <2>3. \E t \in Seq(Env) : Scheduled(t) /\ Elements(t) = Runnable \ {curenv}
    BY <1>1, <2>2, StopOrder
  <2> QED BY <1>3, <2>3
<1>6. CASE yield
  <2>1. PICK s \in Seq(Env) : Order(s)
    BY OrderWitness
  <2>2. /\ s # <<>> /\ curenv = s[1] /\ Represents(env_sched_list, s)
        /\ Injective(s) /\ Elements(s) = Runnable
        /\ env_sched_list \in Tailqs(Env)
    BY <1>0, <1>1, <2>1 DEF Order, Represents, LibTypeOK, TypeOK
  <2>3. /\ Tail(s) \in Seq(Env) /\ Elements(Tail(s)) = Runnable \ {curenv}
        /\ curenv \in Runnable
    BY <2>2, ElementsOfTail
  <2> DEFINE q == TAILQ_REMOVE(env_sched_list, curenv)
             r == TAILQ_INSERT_TAIL(q, curenv)
             u == Append(Tail(s), curenv)
  <2>4. q \in Tailqs(Env) /\ Represents(q, Tail(s))
    BY <2>2, PtrAssumption, RemoveFirstRepresents
  <2>5. r \in Tailqs(Env) /\ Represents(r, u) /\ u \in Seq(Env)
    <3> HIDE DEF q
    <3>1. curenv \notin Elements(Tail(s)) /\ u \in Seq(Env)
      BY <1>2, <2>3
    <3> QED BY <1>2, <2>3, <2>4, <3>1, PtrAssumption, InsertTailRepresents
  <2>6. TAILQ_FIRST(r) = u[1] /\ u # <<>>
    <3>1. u # <<>>
      BY <2>3
    <3> QED BY <2>5, <3>1, FirstRepresents
  <2>7. curenv' = TAILQ_FIRST(r) \/ halted'
    <3>1. schedule(TRUE, env_sched_list, curenv, env_status)
      BY <1>6 DEF yield, sys_yield
    <3>2. Requeue(env_sched_list, curenv, env_status) = r
      BY <1>2 DEF Requeue
    <3> HIDE DEF r
    <3>3. env_run(TAILQ_FIRST(r), env_status, curenv)
      BY <1>1, <3>1, <3>2 DEF schedule
    <3> QED BY <3>3 DEF env_run
  <2>8. CASE Tail(s) = <<>>
    <3>1. Elements(Tail(s)) = {}
      BY <2>8 DEF Elements
    <3> QED BY <1>6, <2>3, <3>1
  <2>9. CASE Tail(s) # <<>>
    <3>1. u[1] = Tail(s)[1] /\ Tail(s)[1] \in Elements(Tail(s))
      BY <2>3, <2>9 DEF Elements
    <3> QED BY <2>3, <2>6, <2>7, <3>1
  <2> QED BY <2>8, <2>9
<1> QED BY <1>4, <1>5, <1>6

(* kern/sched.c:9 for every program: after a yield the caller is scheduled *)
(* again only if it is the only runnable environment, and after ipc_recv   *)
(* or exit not at all.                                                     *)
THEOREM YieldCorrect == NoWrap => (LibSpec => YieldGivesWay)
<1> SUFFICES ASSUME NoWrap PROVE LibSpec => YieldGivesWay
  OBVIOUS
<1>1. IInv /\ [LibNext]_libVars =>
        [yield \/ ipc_recv \/ exit =>
           \/ halted'
           \/ curenv' # curenv
           \/ yield /\ Runnable = {curenv}]_libVars
  BY StepGivesWay
<1>2. LibSpec => []IInv
  BY InvariantHolds
<1> QED BY <1>1, <1>2, PTL DEF LibSpec, YieldGivesWay

-----------------------------------------------------------------------------
(* What holds under any program holds under those built on the library.    *)
LEMMA LibIsProgram == NoWrap => (LibSpec => Spec)
<1> SUFFICES ASSUME NoWrap PROVE LibSpec => Spec
  OBVIOUS
<1>1. LibInit => Init
  BY DEF LibInit
<1>2. IInv /\ [LibNext]_libVars => [Next]_vars
  <2> SUFFICES ASSUME IInv, LibNext PROVE Next
    BY DEF libVars
  <2>0. Zero \in Id
    BY SizeAssumption DEF Zero, Id, Env
  <2>1. /\ \A p \in Env : child[p] \in Id
        /\ curenv \in Env \cup {Null} /\ Zero \in Id
    BY <2>0 DEF IInv, LibTypeOK, TypeOK
  <2>2. {"ENV_RUNNABLE"} \subseteq Status /\ LibPages \subseteq Pages /\ TRUE \in BOOLEAN
    BY DEF Status, LibPages, Pages
  <2>3. fork_start \/ spawn_err => child[curenv] \in Id
    BY <2>1 DEF fork_start, spawn_err
  <2> QED BY <2>1, <2>2, <2>3
          DEF LibNext, Next, tick, yield, fork_exofork, fork_start, spawn_err, exit, ipc_recv,
              ipc_send
<1>3. LibSpec => []IInv
  BY InvariantHolds
<1> QED BY <1>1, <1>2, <1>3, PTL DEF LibSpec, Spec

(* Somebody will wake e or start it. *)
Cared(e) ==
    \/ env_ipc_recving[e]
    \/ \E p \in Live : child[p] = env_id[e] /\ env_parent_id[e] = env_id[p]

(* Ids tell the live environments apart. *)
LEMMA IdsDiffer ==
    ASSUME Ids, NEW e \in Live, NEW f \in Live
    PROVE  env_id[e] # Zero /\ (env_id[e] = env_id[f] => e = f)
BY DEF Ids, Zero

(* A step that leaves the table alone and stops nobody. *)
LEMMA KeepsCare ==
    ASSUME NobodyLost, UNCHANGED <<env_id, env_parent_id, env_ipc_recving, env_status, child>>
    PROVE  NobodyLost'
BY DEF NobodyLost, Live, Runnable

(* The first and the last call of fork. *)
LEMMA ForkLosesNobody ==
    ASSUME NoWrap, IInv, AllocInv, Ids, NobodyLost, fork_exofork \/ fork_start
    PROVE  NobodyLost'
<1>0. /\ curenv \in Env /\ curenv \in Live /\ curenv # Null /\ InSyscall /\ AnyTypes
      /\ env_id \in [Env -> Id] /\ env_parent_id \in [Env -> Id] /\ child \in [Env -> Id]
      /\ env_status \in [Env -> Status]
  <2>1. InSyscall
    BY DEF fork_exofork, fork_start, sys_exofork, sys_set_env_status
  <2> QED BY <2>1 DEF AllocInv, AnyTypes, CallerIsLive, InSyscall, Live, IInv, LibTypeOK, TypeOK
<1>1. \A x \in Live \ Runnable : Cared(x)
  BY DEF NobodyLost, Cared
<1>2. CASE fork_exofork
  <2>0. child[curenv] = Zero /\ UNCHANGED ipcVars
    BY <1>2 DEF fork_exofork, Idle, sys_exofork
  <2>1. ASSUME NEW e \in Env, env_alloc(e, env_id[curenv]), Return("OK"),
               env_status' = [env_status EXCEPT ![e] = "ENV_NOT_RUNNABLE"]
        PROVE  NobodyLost'
    <3>1. e \notin Live
      <4>1. /\ "ENV_NOT_RUNNABLE" \in Status \ {"ENV_FREE"} /\ env_id[curenv] \in Id
            /\ env_sched_list' \in LooseTailqs /\ curenv' = curenv /\ halted' = halted
        BY <1>0, <2>1 DEF Status, AnyTypes, Return, cpuVars
      <4> QED BY <2>1, <4>1, AllocKeeps
    <3>2. /\ env_id' = [env_id EXCEPT ![e] = mkenvid(e)]
          /\ env_parent_id' = [env_parent_id EXCEPT ![e] = env_id[curenv]]
          /\ e = Head(env_free_list)
      BY <2>1 DEF env_alloc
    <3>3. child' = [child EXCEPT ![curenv] = env_id'[e], ![e] = Zero]
      BY <1>2, <2>1, <3>2 DEF fork_exofork, Return
    <3>4. Live' = Live \cup {e} /\ Runnable' = Runnable
      BY <1>0, <2>1, <3>1 DEF Live, Runnable
    <3>5. ASSUME NEW x \in Live' \ Runnable' PROVE Cared(x)'
      <4>1. CASE x = e
        <5>1. child'[curenv] = env_id'[e]
          BY <1>0, <3>1, <3>3
        <5>2. env_parent_id'[e] = env_id'[curenv]
          BY <1>0, <3>1, <3>2
        <5> QED BY <1>0, <3>4, <4>1, <5>1, <5>2 DEF Cared
      <4>2. CASE x # e
        <5>1. x \in Live \ Runnable /\ x \in Env /\ env_id'[x] = env_id[x] /\ env_parent_id'[x] = env_parent_id[x]
          BY <1>0, <3>2, <3>4, <4>2 DEF Live
        <5>2. CASE env_ipc_recving[x]
          BY <2>0, <5>2 DEF Cared, ipcVars
        <5>3. CASE ~env_ipc_recving[x]
          <6>1. PICK p \in Live : child[p] = env_id[x] /\ env_parent_id[x] = env_id[p]
            BY <1>1, <5>1, <5>3 DEF Cared
          <6>2. p # curenv /\ p # e /\ p \in Env
            BY <2>0, <3>1, <5>1, <6>1, IdsDiffer DEF Live
          <6>3. child'[p] = child[p] /\ env_id'[p] = env_id[p] /\ p \in Live'
            BY <1>0, <3>2, <3>3, <3>4, <6>2
          <6> QED BY <5>1, <6>1, <6>3 DEF Cared
        <5> QED BY <5>2, <5>3
      <4> QED BY <4>1, <4>2
    <3> QED BY <3>5 DEF NobodyLost, Cared
  <2>2. CASE /\ env_alloc_fails /\ Return("E_NO_FREE_ENV")
             /\ UNCHANGED <<env_parent_id, env_asid, env_pri, env_free_list, asid_bitmap, env_status>>
    <3>1. UNCHANGED <<child, env_ipc_recving, env_parent_id, env_status>>
      BY <1>2, <2>0, <2>2 DEF fork_exofork, Return, ipcVars
    <3>2. \A x \in Live : env_id'[x] = env_id[x]
      <4>1. CASE env_free_list = <<>> /\ UNCHANGED env_id
        BY <4>1
      <4>2. CASE /\ env_free_list # <<>>
                 /\ env_id' = [env_id EXCEPT ![Head(env_free_list)] = mkenvid(Head(env_free_list))]
        <5>1. Head(env_free_list) \in Elements(env_free_list)
          BY <1>0, <4>2, ElementsOfTail DEF AnyTypes, AllocInv, SlotsAndAsids
        <5>2. Head(env_free_list) \notin Live
          BY <5>1 DEF AllocInv, SlotsAndAsids
        <5> QED BY <1>0, <4>2, <5>2 DEF Live
      <4> QED BY <2>2, <4>1, <4>2 DEF env_alloc_fails
    <3>3. Live' = Live /\ Runnable' = Runnable
      BY <3>1 DEF Live, Runnable
    <3> QED BY <3>1, <3>2, <3>3 DEF NobodyLost
  <2> QED BY <1>2, <2>1, <2>2 DEF fork_exofork, sys_exofork
<1>3. CASE fork_start
  <2> DEFINE e == ENVX(child[curenv])
  <2>0. /\ child[curenv] # Zero /\ child' = [child EXCEPT ![curenv] = Zero]
        /\ UNCHANGED <<allocVars, ipcVars>>
    BY <1>3 DEF fork_start, sys_set_env_status
  <2>1. /\ e \in Env /\ env_status[e] = "ENV_NOT_RUNNABLE" /\ ~env_ipc_recving[e]
        /\ env_id[e] = child[curenv]
    BY <1>0, <2>0 DEF IInv, Built, Id, ENVX
  <2>2. e \in Live \ Runnable
    BY <2>1 DEF Live, Runnable
  <2>3. env_parent_id[e] = env_id[curenv]
    <3>1. PICK p \in Live : child[p] = env_id[e] /\ env_parent_id[e] = env_id[p]
      BY <1>1, <2>1, <2>2 DEF Cared
    <3>2. p = curenv
      BY <1>0, <2>0, <2>1, <3>1 DEF IInv, Built, Live
    <3> QED BY <3>1, <3>2
  <2>4. envid2env(child[curenv], env_id[curenv]) = {e}
    BY <1>0, <2>0, <2>1, <2>3 DEF envid2env
  <2>5. env_status' = [env_status EXCEPT ![e] = "ENV_RUNNABLE"]
    BY <1>3, <2>4 DEF fork_start, sys_set_env_status
  <2> HIDE DEF e
  <2>6. Live' = Live /\ Runnable' = Runnable \cup {e}
    BY <1>0, <2>1, <2>5 DEF Live, Runnable
  <2>7. ASSUME NEW x \in Live' \ Runnable' PROVE Cared(x)'
    <3>1. x \in Live \ Runnable /\ x # e /\ x \in Env
      BY <2>6 DEF Live
    <3>2. UNCHANGED <<env_id, env_parent_id, env_ipc_recving>>
      BY <2>0 DEF allocVars, ipcVars
    <3>3. CASE env_ipc_recving[x]
      BY <3>2, <3>3 DEF Cared
    <3>4. CASE ~env_ipc_recving[x]
      <4>1. PICK p \in Live : child[p] = env_id[x] /\ env_parent_id[x] = env_id[p]
        BY <1>1, <3>1, <3>4 DEF Cared
      <4>2. p # curenv /\ p \in Env
        BY <2>1, <2>2, <3>1, <4>1, IdsDiffer DEF Live
      <4>3. child'[p] = child[p] /\ p \in Live'
        BY <1>0, <2>0, <2>6, <4>2
      <4> QED BY <3>2, <4>1, <4>3 DEF Cared
    <3> QED BY <3>3, <3>4
  <2> QED BY <2>7 DEF NobodyLost, Cared
<1> QED BY <1>2, <1>3

(* Every other step. *)
LEMMA OthersLoseNobody ==
    ASSUME NoWrap, ~MayFail, IInv, AllocInv, Ids, NobodyLost,
           \/ \E p \in Pri : env_create(p) /\ UNCHANGED child
           \/ tick \/ yield \/ exit \/ ipc_recv
           \/ \E id \in Id, page \in LibPages : ipc_send(id, page)
           \/ UNCHANGED libVars
    PROVE  NobodyLost'
<1>0. /\ AnyTypes /\ LibTypeOK
      /\ env_id \in [Env -> Id] /\ env_parent_id \in [Env -> Id] /\ child \in [Env -> Id]
      /\ env_status \in [Env -> Status]
  BY DEF AllocInv, AnyTypes, IInv, LibTypeOK, TypeOK
<1>a. InSyscall => curenv \in Live /\ curenv \in Env
  BY DEF AllocInv, CallerIsLive, InSyscall, Live
<1>c. \A x \in Live \ Runnable : Cared(x)
  BY DEF NobodyLost, Cared
<1>1. ASSUME NEW p \in Pri, env_create(p), UNCHANGED child PROVE NobodyLost'
  <2>1. PICK e \in Env :
          /\ env_alloc(e, Zero)
          /\ env_status' = [env_status EXCEPT ![e] = "ENV_RUNNABLE"]
          /\ env_sched_list' = TAILQ_INSERT_HEAD(env_sched_list, e)
    BY <1>1 DEF env_create
  <2>2. e \notin Live
    <3>1. Zero \in Id /\ "ENV_RUNNABLE" \in Status \ {"ENV_FREE"}
      BY SizeAssumption DEF Zero, Id, Env, Status
    <3>2. env_sched_list' \in LooseTailqs /\ curenv' = curenv /\ halted' = halted
      BY <1>0, <1>1, <2>1, LooseQueues DEF AnyTypes, env_create
    <3> QED BY <2>1, <3>1, <3>2, AllocKeeps
  <2>3. /\ Live' = Live \cup {e} /\ Runnable' = Runnable \cup {e}
        /\ \A x \in Live : env_id'[x] = env_id[x] /\ env_parent_id'[x] = env_parent_id[x]
    BY <1>0, <2>1, <2>2 DEF Live, Runnable, env_alloc
  <2>4. UNCHANGED <<env_ipc_recving, child>>
    BY <1>1 DEF env_create, ipcVars
  <2> QED BY <2>3, <2>4 DEF NobodyLost
<1>2. CASE tick \/ yield \/ UNCHANGED libVars
  <2>1. UNCHANGED <<env_id, env_parent_id, env_ipc_recving, env_status, child>>
    BY <1>2 DEF tick, yield, handle_interrupt, sys_yield, allocVars, ipcVars, libVars, vars
  <2> QED BY <2>1, KeepsCare
<1>3. CASE exit
  <2>1. /\ InSyscall /\ child[curenv] = Zero /\ child' = [child EXCEPT ![curenv] = Zero]
        /\ UNCHANGED ipcVars /\ env_destroy(curenv)
    BY <1>3 DEF exit, Idle, sys_env_destroy, envid2env
  <2>2. /\ env_status' = [env_status EXCEPT ![curenv] = "ENV_FREE"]
        /\ UNCHANGED <<env_id, env_parent_id, env_ipc_recving>>
    BY <2>1 DEF env_destroy, ipcVars
  <2>3. Live' = Live \ {curenv} /\ Runnable' = Runnable \ {curenv}
    BY <1>0, <1>a, <2>1, <2>2 DEF Live, Runnable
  <2>4. ASSUME NEW x \in Live' \ Runnable' PROVE Cared(x)'
    <3>1. x \in Live \ Runnable
      BY <2>3
    <3>2. CASE env_ipc_recving[x]
      BY <2>2, <3>2 DEF Cared
    <3>3. CASE ~env_ipc_recving[x]
      <4>1. PICK p \in Live : child[p] = env_id[x] /\ env_parent_id[x] = env_id[p]
        BY <1>c, <3>1, <3>3 DEF Cared
      <4>2. p # curenv /\ p \in Env
        BY <2>1, <3>1, <4>1, IdsDiffer DEF Live
      <4>3. child'[p] = child[p] /\ p \in Live'
        BY <1>0, <2>1, <2>3, <4>2
      <4> QED BY <2>2, <4>1, <4>3 DEF Cared
    <3> QED BY <3>2, <3>3
  <2> QED BY <2>4 DEF NobodyLost, Cared
<1>4. CASE ipc_recv
  <2>1. /\ InSyscall /\ UNCHANGED <<allocVars, child>>
        /\ env_ipc_recving' = [env_ipc_recving EXCEPT ![curenv] = TRUE]
        /\ env_status' = [env_status EXCEPT ![curenv] = "ENV_NOT_RUNNABLE"]
    BY <1>4 DEF ipc_recv, sys_ipc_recv
  <2>2. Live' = Live /\ Runnable' = Runnable \ {curenv}
    BY <1>0, <1>a, <2>1 DEF Live, Runnable
  <2>3. env_ipc_recving \in [Env -> BOOLEAN]
    BY <1>0 DEF LibTypeOK, TypeOK
  <2>4. env_ipc_recving'[curenv] /\ \A x \in Env \ {curenv} : env_ipc_recving'[x] = env_ipc_recving[x]
    BY <1>a, <2>1, <2>3
  <2>5. ASSUME NEW x \in Live' \ Runnable' PROVE Cared(x)'
    <3>1. CASE x = curenv
      BY <2>4, <3>1 DEF Cared
    <3>2. CASE x # curenv
      <4>1. x \in Live \ Runnable /\ x \in Env
        BY <2>2, <3>2 DEF Live
      <4>2. Cared(x) /\ env_ipc_recving'[x] = env_ipc_recving[x]
        BY <1>c, <2>4, <3>2, <4>1
      <4>3. UNCHANGED <<env_id, env_parent_id, child>>
        BY <2>1 DEF allocVars
      <4> QED BY <2>2, <4>2, <4>3 DEF Cared
    <3> QED BY <3>1, <3>2
  <2> QED BY <2>5 DEF NobodyLost, Cared
<1>5. ASSUME NEW id \in Id, NEW page \in LibPages, ipc_send(id, page) PROVE NobodyLost'
  <2>0. InSyscall /\ UNCHANGED <<allocVars, child>>
    BY <1>5 DEF ipc_send, sys_ipc_try_send
  <2>1. ASSUME NEW e \in envid2env(id, Zero),
               env_ipc_recving' = [env_ipc_recving EXCEPT ![e] = FALSE],
               env_status' = [env_status EXCEPT ![e] = "ENV_RUNNABLE"]
        PROVE  NobodyLost'
    <3>1. e \in Live /\ e \in Env
      BY <2>0, FindsLive DEF Live
    <3>2. Live' = Live /\ Runnable' = Runnable \cup {e}
      BY <1>0, <2>1, <3>1 DEF Live, Runnable
    <3>3. \A x \in Env \ {e} : env_ipc_recving'[x] = env_ipc_recving[x]
      BY <1>0, <2>1 DEF LibTypeOK, TypeOK
    <3>4. ASSUME NEW x \in Live' \ Runnable' PROVE Cared(x)'
      <4>1. x \in Live \ Runnable /\ x \in Env /\ x # e
        BY <3>2 DEF Live
      <4>2. Cared(x) /\ env_ipc_recving'[x] = env_ipc_recving[x]
        BY <1>c, <3>3, <4>1
      <4>3. UNCHANGED <<env_id, env_parent_id, child>>
        BY <2>0 DEF allocVars
      <4> QED BY <3>2, <4>2, <4>3 DEF Cared
    <3> QED BY <3>4 DEF NobodyLost, Cared
  <2>2. CASE UNCHANGED <<ipcVars, env_status>>
    <3>1. UNCHANGED <<env_id, env_parent_id, env_ipc_recving, env_status, child>>
      BY <2>0, <2>2 DEF allocVars, ipcVars
    <3> QED BY <3>1, KeepsCare
  <2> QED BY <1>5, <2>1, <2>2 DEF ipc_send, sys_ipc_try_send
<1> QED BY <1>1, <1>2, <1>3, <1>4, <1>5

(* fork and spawn (user/lib) over kern/syscall_all.c: if the system calls  *)
(* inside of fork and spawn do not fail, then for any number of            *)
(* environments whoever is live and not runnable waits for a message or    *)
(* has a live parent that will start it.                                   *)
THEOREM LostCorrect == NoWrap /\ ~MayFail => (LibSpec => []NobodyLost)
<1> SUFFICES ASSUME NoWrap, ~MayFail PROVE LibSpec => []NobodyLost
  OBVIOUS
<1>1. LibInit => NobodyLost
  BY DEF LibInit, Init, NobodyLost, Live
<1>2. IInv /\ AllocInv /\ Ids /\ NobodyLost /\ [LibNext]_libVars => NobodyLost'
  BY ForkLosesNobody, OthersLoseNobody DEF LibNext, spawn_err
<1>3. LibSpec => []IInv
  BY InvariantHolds
<1>4. LibSpec => Spec
  BY LibIsProgram
<1>5. Spec => [](AllocInv /\ Ids)
  BY TableAndIds
<1> QED BY <1>1, <1>2, <1>3, <1>4, <1>5, PTL DEF LibSpec

-----------------------------------------------------------------------------
(* The safety half of ImplementsRoundRobin: each step is one of SchedAbs.  *)

(* The links of a queue determine what Contents finds in it. *)
LEMMA ContentsIs ==
    ASSUME NEW q, NEW s \in Seq(Env), Represents(q, s)
    PROVE  Contents(q) = s
<1>1. Injective(s)
  BY DEF Represents
<1>2. s \in SeqsUpTo(Env, Cardinality(Env))
  BY <1>1, OrderIsShort
<1>3. \A t \in SeqsUpTo(Env, Cardinality(Env)) : Represents(q, t) => t = s
  <2> SUFFICES ASSUME NEW t \in SeqsUpTo(Env, Cardinality(Env)), Represents(q, t)
               PROVE  t = s
    OBVIOUS
  <2>1. t \in Seq(Env)
    BY OrderIsSeq
  <2> QED BY <2>1, PtrAssumption, OneOrder
<1> QED BY <1>2, <1>3 DEF Contents

(* The turn of the first of t begins, or the machine stops. *)
Turned(t) ==
    /\ Represents(env_sched_list', t)
    /\ t = <<>> => halted'
    /\ t # <<>> => ~halted' /\ curenv' = t[1] /\ count' = env_pri[t[1]]

(* schedule picks the first of the queue it leaves. *)
LEMMA PickFirst ==
    ASSUME NEW r \in Tailqs(Env), NEW t \in Seq(Env), Represents(r, t), NEW e, NEW status,
           Elements(t) = { x \in Env : status[x] = "ENV_RUNNABLE" },
           ~halted,
           env_sched_list' = r,
           count' = IF TAILQ_FIRST(r) # Null THEN env_pri[TAILQ_FIRST(r)] ELSE count - 1,
           env_run(TAILQ_FIRST(r), status, e)
    PROVE  Turned(t)
<1>1. CASE t = <<>>
  <2>1. TAILQ_FIRST(r) = Null
    BY <1>1, FirstRepresents
  <2> QED BY <1>1, <2>1 DEF Turned, env_run
<1>2. CASE t # <<>>
  <2>1. TAILQ_FIRST(r) = t[1]
    BY <1>2, FirstRepresents
  <2>2. t[1] \in Env /\ t[1] \in Elements(t)
    BY <1>2 DEF Elements
  <2>3. t[1] # Null /\ status[t[1]] = "ENV_RUNNABLE"
    BY <2>2, PtrAssumption
  <2>4. count' = env_pri[t[1]] /\ curenv' = t[1] /\ halted' = halted
    BY <2>1, <2>3 DEF env_run
  <2> QED BY <1>2, <2>4 DEF Turned
<1> QED BY <1>1, <1>2

(* The environment that ran has left the queue: the next one's turn. *)
LEMMA TurnOfNext ==
    ASSUME NEW q, NEW s \in Seq(Env), NEW e, NEW status, NEW yld \in BOOLEAN,
           Ready(q, s, e, status), e = Null \/ (status[e] # "ENV_RUNNABLE" /\ TAILQ_REMOVE(q, e) = q),
           schedule(yld, q, e, status)
    PROVE  Turned(s)
<1>1. q \in Tailqs(Env) /\ Represents(q, s) /\ ~halted
      /\ Elements(s) = { x \in Env : status[x] = "ENV_RUNNABLE" }
  BY DEF Ready
<1>2. Requeue(q, e, status) = q \/ e = Null
  BY DEF Requeue
<1>3. /\ env_sched_list' = q
      /\ count' = IF TAILQ_FIRST(q) # Null THEN env_pri[TAILQ_FIRST(q)] ELSE count - 1
      /\ env_run(TAILQ_FIRST(q), status, e)
  BY <1>2 DEF schedule
<1> QED BY <1>1, <1>3, PickFirst

(* The turn of the running environment ends: it goes to the end. *)
LEMMA TurnEnds ==
    ASSUME NEW q, NEW s \in Seq(Env), NEW e, NEW status, NEW yld \in BOOLEAN,
           Ready(q, s, e, status), s # <<>>, e = s[1], yld \/ count = 1,
           schedule(yld, q, e, status)
    PROVE  Turned(Append(Tail(s), Head(s)))
<1> DEFINE r == TAILQ_INSERT_TAIL(TAILQ_REMOVE(q, e), e)
           t == Append(Tail(s), e)
<1>1. /\ q \in Tailqs(Env) /\ Represents(q, s) /\ ~halted /\ Injective(s)
      /\ Elements(s) = { x \in Env : status[x] = "ENV_RUNNABLE" } /\ count \in Int
  BY DEF Ready, Represents
<1>2. /\ Tail(s) \in Seq(Env) /\ e \in Elements(s)
      /\ Elements(Tail(s)) = Elements(s) \ {e}
  BY <1>1, ElementsOfTail
<1>3. e \in Env /\ status[e] = "ENV_RUNNABLE" /\ e # Null
  BY <1>1, <1>2, PtrAssumption
<1>4. /\ TAILQ_REMOVE(q, e) \in Tailqs(Env)
      /\ Represents(TAILQ_REMOVE(q, e), Tail(s))
  BY <1>1, PtrAssumption, RemoveFirstRepresents
<1>5. r \in Tailqs(Env) /\ Represents(r, t)
  BY <1>2, <1>3, <1>4, PtrAssumption, InsertTailRepresents
<1>6. Elements(t) = Elements(s) /\ t \in Seq(Env)
  <2>1. Elements(t) = Elements(Tail(s)) \cup {e}
    BY <1>2, <1>3, ElementsOfAppend
  <2>2. t \in Seq(Env)
    BY <1>2, <1>3
  <2> QED BY <1>2, <2>1, <2>2
<1>7. /\ env_sched_list' = r
      /\ count' = IF TAILQ_FIRST(r) # Null THEN env_pri[TAILQ_FIRST(r)] ELSE count - 1
      /\ env_run(TAILQ_FIRST(r), status, e)
  <2>1. Requeue(q, e, status) = r
    BY <1>3 DEF Requeue
  <2> HIDE DEF r
  <2>2. yld \/ count - 1 = 0
    BY <1>1
  <2> QED BY <1>3, <2>1, <2>2 DEF schedule
<1>8. t = Append(Tail(s), Head(s))
  OBVIOUS
<1> HIDE DEF r, t
<1>9. Turned(t)
  BY <1>1, <1>5, <1>6, <1>7, PickFirst
<1> QED BY <1>8, <1>9

(* It goes on: one slice less. *)
LEMMA TurnGoesOn ==
    ASSUME NEW q, NEW s \in Seq(Env), NEW e, NEW status,
           Ready(q, s, e, status), s # <<>>, e = s[1], count # 1,
           schedule(FALSE, q, e, status)
    PROVE  env_sched_list' = q /\ curenv' = e /\ halted' = halted /\ count' = count - 1
<1>1. e \in Env /\ e \in Elements(s) /\ count \in Int
  BY DEF Ready, Elements
<1>2. e # Null /\ status[e] = "ENV_RUNNABLE" /\ count - 1 # 0
  BY <1>1, PtrAssumption DEF Ready
<1> QED BY <1>2 DEF schedule, env_run

-----------------------------------------------------------------------------
(* What the refinement mapping makes of a state. *)
LEMMA Mapped ==
    ASSUME IInv, NEW s \in Seq(Env), Order(s)
    PROVE  /\ Contents(env_sched_list) = s
           /\ Abs!In(s) = Runnable
           /\ curenv # Null /\ ~halted => s # <<>> /\ Head(s) = curenv
<1>1. Contents(env_sched_list) = s
  BY ContentsIs DEF Order
<1>2. Abs!In(s) = Elements(s)
  BY DEF Abs!In, Elements
<1> QED BY <1>1, <1>2 DEF Order

LEMMA TurnIsAbs ==
    ASSUME NEW t \in Seq(Env), Turned(t), UNCHANGED env_pri
    PROVE  Abs!Turn(t)
<1>1. Contents(env_sched_list') = t
  BY ContentsIs DEF Turned
<1>2. CASE t = <<>>
  BY <1>1, <1>2 DEF Abs!Turn, Turned
<1>3. CASE t # <<>>
  <2>1. t[1] \in Env /\ t[1] # Null /\ Head(t) = t[1]
    BY <1>3, PtrAssumption
  <2> QED BY <1>1, <1>3, <2>1 DEF Abs!Turn, Turned
<1> QED BY <1>2, <1>3

(* A step of a system call that leaves the queue and the priorities alone. *)
LEMMA QuietIsAbs ==
    ASSUME UNCHANGED <<env_sched_list, curenv, count, halted, env_pri>>
    PROVE  UNCHANGED Abs!vars
BY DEF Abs!vars

(* One that puts e, which was not runnable, at the end of the queue. *)
LEMMA JoinIsAbs ==
    ASSUME IInv, ~halted, curenv # Null, NEW e \in Env, env_status[e] # "ENV_RUNNABLE",
           env_sched_list' = TAILQ_INSERT_TAIL(env_sched_list, e),
           UNCHANGED <<curenv, count, halted, env_pri>>
    PROVE  Abs!Join(e)
<1>1. PICK s \in Seq(Env) : Order(s)
  BY OrderWitness
<1>2. e \notin Runnable /\ Elements(s) = Runnable /\ Represents(env_sched_list, s)
      /\ env_sched_list \in Tailqs(Env)
  BY <1>1 DEF Order, Runnable, IInv, LibTypeOK, TypeOK
<1>3. Represents(env_sched_list', Append(s, e)) /\ Append(s, e) \in Seq(Env)
  BY <1>2, PtrAssumption, InsertTailRepresents
<1>4. Contents(env_sched_list') = Append(s, e)
  BY <1>3, ContentsIs
<1> QED BY <1>1, <1>2, <1>4, Mapped DEF Abs!Join

LEMMA TickIsAbs ==
    ASSUME IInv, tick
    PROVE  Abs!Start \/ Abs!Tick
<1>1. /\ ~halted /\ schedule(FALSE, env_sched_list, curenv, env_status)
      /\ UNCHANGED env_pri
  BY DEF tick, handle_interrupt, allocVars
<1>2. PICK s \in Seq(Env) : Order(s)
  BY OrderWitness
<1>3. Ready(env_sched_list, s, curenv, env_status)
  BY <1>1, <1>2, ReadyNow
<1>4. Contents(env_sched_list) = s
  BY <1>2, Mapped
<1>5. CASE curenv = Null
  <2>1. Turned(s)
    BY <1>1, <1>3, <1>5, TurnOfNext
  <2>2. Abs!Turn(s)
    BY <1>1, <2>1, TurnIsAbs
  <2> QED BY <1>1, <1>4, <1>5, <2>2 DEF Abs!Start
<1>6. CASE curenv # Null
  <2>1. s # <<>> /\ curenv = s[1] /\ Head(s) = curenv /\ count \in Int /\ count >= 1
    <3>1. s # <<>> /\ curenv = s[1] /\ Head(s) = curenv
      BY <1>1, <1>2, <1>6 DEF Order
    <3>2. curenv \in Env /\ count \in 1..env_pri[curenv]
      BY <1>1, <1>6, RunningFacts
    <3>3. env_pri[curenv] \in Nat
      BY <3>2 DEF IInv, LibTypeOK, TypeOK
    <3> QED BY <3>1, <3>2, <3>3
  <2>2. CASE count = 1
    <3>1. Turned(Append(Tail(s), Head(s)))
      BY <1>1, <1>3, <2>1, <2>2, TurnEnds
    <3>2. Append(Tail(s), Head(s)) \in Seq(Env)
      BY <2>1
    <3>3. Abs!Turn(Append(Tail(s), Head(s)))
      BY <1>1, <3>1, <3>2, TurnIsAbs
    <3> QED BY <1>1, <1>4, <1>6, <2>2, <3>3 DEF Abs!Tick
  <2>3. CASE count # 1
    <3>1. /\ env_sched_list' = env_sched_list /\ curenv' = curenv /\ halted' = halted
          /\ count' = count - 1
      BY <1>1, <1>3, <2>1, <2>3, TurnGoesOn
    <3>2. count > 1
      BY <2>1, <2>3
    <3> QED BY <1>1, <1>6, <3>1, <3>2 DEF Abs!Tick
  <2> QED BY <2>2, <2>3
<1> QED BY <1>5, <1>6

LEMMA YieldIsAbs ==
    ASSUME IInv, yield
    PROVE  Abs!Yield
<1>1. /\ ~halted /\ curenv # Null /\ schedule(TRUE, env_sched_list, curenv, env_status)
      /\ UNCHANGED env_pri
  BY DEF yield, sys_yield, InSyscall, allocVars
<1>2. PICK s \in Seq(Env) : Order(s)
  BY OrderWitness
<1>3. Ready(env_sched_list, s, curenv, env_status)
  BY <1>1, <1>2, ReadyNow
<1>4. Contents(env_sched_list) = s /\ s # <<>> /\ curenv = s[1]
  BY <1>1, <1>2, Mapped DEF Order
<1>5. Turned(Append(Tail(s), Head(s))) /\ Append(Tail(s), Head(s)) \in Seq(Env)
  <2>1. Append(Tail(s), Head(s)) \in Seq(Env) /\ TRUE \in BOOLEAN
    BY <1>4
  <2> QED BY <1>1, <1>3, <1>4, <2>1, TurnEnds
<1>6. Abs!Turn(Append(Tail(s), Head(s)))
  BY <1>1, <1>5, TurnIsAbs
<1> QED BY <1>1, <1>4, <1>6 DEF Abs!Yield

(* exit and ipc_recv. *)
LEMMA LeaveIsAbs ==
    ASSUME IInv, exit \/ ipc_recv
    PROVE  Abs!Leave
<1>0. LibTypeOK
  BY DEF IInv
<1>1. PICK st \in Status, c \in {curenv, Null} :
        /\ st # "ENV_RUNNABLE"
        /\ schedule(TRUE, TAILQ_REMOVE(env_sched_list, curenv), c,
                    [env_status EXCEPT ![curenv] = st])
  <2>0. {"ENV_FREE", "ENV_NOT_RUNNABLE"} \subseteq Status
    BY DEF Status
  <2>1. CASE exit
    <3>1. env_destroy(curenv)
      BY <2>1 DEF exit, sys_env_destroy, envid2env
    <3>2. schedule(TRUE, TAILQ_REMOVE(env_sched_list, curenv), Null,
                   [env_status EXCEPT ![curenv] = "ENV_FREE"])
      BY <3>1 DEF env_destroy
    <3> QED BY <2>0, <3>2
  <2>2. CASE ipc_recv
    <3>1. schedule(TRUE, TAILQ_REMOVE(env_sched_list, curenv), curenv,
                   [env_status EXCEPT ![curenv] = "ENV_NOT_RUNNABLE"])
      BY <2>2 DEF ipc_recv, sys_ipc_recv
    <3> QED BY <2>0, <3>1
  <2> QED BY <2>1, <2>2
<1>2. ~halted /\ curenv # Null /\ UNCHANGED env_pri
  <2>1. exit => env_destroy(curenv)
    BY DEF exit, sys_env_destroy, envid2env
  <2> QED BY <2>1 DEF exit, sys_env_destroy, env_destroy, ipc_recv, sys_ipc_recv, InSyscall, allocVars
<1> DEFINE q == TAILQ_REMOVE(env_sched_list, curenv)
           status == [env_status EXCEPT ![curenv] = st]
<1>3. PICK s \in Seq(Env) : Order(s)
  BY OrderWitness
<1>4. Ready(q, Tail(s), c, status) /\ Tail(s) \in Seq(Env)
      /\ (c = Null \/ (status[c] # "ENV_RUNNABLE" /\ TAILQ_REMOVE(q, c) = q))
  BY <1>1, <1>2, <1>3, ReadyWithout
<1>5. schedule(TRUE, q, c, status) /\ TRUE \in BOOLEAN
  BY <1>1
<1> HIDE DEF q, status
<1>6. Turned(Tail(s))
  BY <1>4, <1>5, TurnOfNext
<1>7. Abs!Turn(Tail(s))
  BY <1>2, <1>4, <1>6, TurnIsAbs
<1>8. Contents(env_sched_list) = s
  BY <1>3, Mapped
<1> QED BY <1>2, <1>7, <1>8 DEF Abs!Leave

LEMMA CreateIsAbs ==
    ASSUME NoWrap, IInv, NEW p \in Pri, env_create(p)
    PROVE  \E e \in Env : Abs!Create(e, p)
<1>1. PICK e \in Env :
         /\ env_alloc(e, Zero)
         /\ env_pri' = [env_pri EXCEPT ![e] = p]
         /\ env_sched_list' = TAILQ_INSERT_HEAD(env_sched_list, e)
  BY DEF env_create
<1>2. ~halted /\ curenv = Null /\ UNCHANGED <<curenv, count, halted>>
  BY DEF env_create
<1>3. Zero \in Id
  BY SizeAssumption DEF Zero, Id, Env
<1>a. env_alloc(e, Zero)
  BY <1>1
<1>4. env_status[e] = "ENV_FREE"
  BY <1>a, <1>3, AllocFacts
<1>5. e \notin Runnable
  BY <1>4 DEF Runnable
<1>6. PICK s \in Seq(Env) : Order(s)
  BY OrderWitness
<1>7. Represents(env_sched_list', <<e>> \o s) /\ <<e>> \o s \in Seq(Env)
  BY <1>1, <1>5, <1>6, PtrAssumption, InsertHeadRepresents
     DEF IInv, LibTypeOK, TypeOK, Order
<1>8. Contents(env_sched_list') = <<e>> \o s
  BY <1>7, ContentsIs
<1>9. Abs!Create(e, p)
  BY <1>1, <1>2, <1>5, <1>6, <1>8, Mapped DEF Abs!Create
<1> QED BY <1>9

LEMMA ExoforkIsAbs ==
    ASSUME NoWrap, IInv, fork_exofork
    PROVE  (\E e \in Env : Abs!Inherit(e)) \/ UNCHANGED Abs!vars
<1>1. ~halted /\ curenv # Null /\ UNCHANGED cpuVars
  BY DEF fork_exofork, sys_exofork, InSyscall, Return
<1>2. ASSUME NEW e \in Env, env_alloc(e, env_id[curenv]),
             env_pri' = [env_pri EXCEPT ![e] = env_pri[curenv]]
      PROVE  Abs!Inherit(e)
  <2>1. curenv \in Env /\ env_status[curenv] = "ENV_RUNNABLE"
    BY <1>1, RunningFacts
  <2>2. env_id[curenv] \in Id /\ env_id[curenv][1] >= 1
    BY <2>1 DEF IInv, LibTypeOK, TypeOK, Named, Live
  <2>3. env_status[e] = "ENV_FREE"
    BY <1>2, <2>2, AllocFacts
  <2>4. e \notin Runnable
    BY <2>3 DEF Runnable
  <2>5. PICK s \in Seq(Env) : Order(s)
    BY OrderWitness
  <2> QED BY <1>1, <1>2, <2>4, <2>5, Mapped DEF Abs!Inherit, cpuVars
<1>3. CASE UNCHANGED env_pri
  BY <1>1, <1>3, QuietIsAbs DEF cpuVars
<1> QED BY <1>2, <1>3 DEF fork_exofork, sys_exofork

LEMMA StartIsAbs ==
    ASSUME IInv, fork_start
    PROVE  (\E e \in Env : Abs!Join(e)) \/ UNCHANGED Abs!vars
<1>1. ~halted /\ curenv # Null /\ child[curenv] # Zero /\ UNCHANGED env_pri
  BY DEF fork_start, sys_set_env_status, InSyscall, allocVars
<1>2. curenv \in Env
  BY <1>1, RunningFacts
<1> DEFINE e == ENVX(child[curenv])
<1>3. e \in Env /\ env_status[e] = "ENV_NOT_RUNNABLE"
  BY <1>1, <1>2 DEF IInv, LibTypeOK, Id, ENVX, Built
<1>4. \A x \in envid2env(child[curenv], env_id[curenv]) : x = e
  BY <1>1 DEF envid2env
<1> HIDE DEF e
<1>5. CASE /\ env_sched_list' = TAILQ_INSERT_TAIL(env_sched_list, e)
           /\ UNCHANGED <<curenv, count, halted>>
  BY <1>1, <1>3, <1>5, JoinIsAbs
<1>6. CASE UNCHANGED cpuVars
  BY <1>1, <1>6, QuietIsAbs DEF cpuVars
<1> QED BY <1>3, <1>4, <1>5, <1>6 DEF fork_start, sys_set_env_status, Return

LEMMA SpawnErrIsAbs ==
    ASSUME IInv, spawn_err
    PROVE  UNCHANGED Abs!vars
<1>1. ~halted /\ curenv # Null /\ child[curenv] # Zero
  BY DEF spawn_err, sys_env_destroy, InSyscall
<1>2. envid2env(child[curenv], One) = {}
  BY <1>1, SpawnFindsNobody
<1>3. UNCHANGED <<allocVars, cpuVars>>
  BY <1>2 DEF spawn_err, sys_env_destroy, Return
<1> QED BY <1>3, QuietIsAbs DEF allocVars, cpuVars

LEMMA SendIsAbs ==
    ASSUME IInv, NEW id \in Id, NEW page \in LibPages, ipc_send(id, page)
    PROVE  (\E e \in Env : Abs!Join(e)) \/ UNCHANGED Abs!vars
<1>1. ~halted /\ curenv # Null /\ UNCHANGED env_pri
  BY DEF ipc_send, sys_ipc_try_send, InSyscall, allocVars
<1>2. curenv \in Env
  BY <1>1, RunningFacts
<1>3. ASSUME NEW e \in envid2env(id, Zero), env_ipc_recving[e],
             env_sched_list' = TAILQ_INSERT_TAIL(env_sched_list, e),
             UNCHANGED <<curenv, count, halted>>
      PROVE  \E x \in Env : Abs!Join(x)
  <2>1. e \in Env
    BY <1>2 DEF envid2env, Id, ENVX
  <2>2. env_status[e] # "ENV_RUNNABLE"
    BY <1>3, <2>1 DEF IInv, Waiting
  <2> QED BY <1>1, <1>3, <2>1, <2>2, JoinIsAbs
<1>4. CASE UNCHANGED cpuVars
  BY <1>1, <1>4, QuietIsAbs DEF cpuVars
<1> QED BY <1>3, <1>4 DEF ipc_send, sys_ipc_try_send, Return

(* kern/sched.c:5, "a round-robin scheduling to select a runnable env":    *)
(* for any number of environments and any programs built on the user       *)
(* library, the kernel starts as the round robin of SchedAbs does and each *)
(* of its steps is one of SchedAbs or changes nothing SchedAbs sees.  (Its *)
(* fairness is TLC's: ImplementsRoundRobin.)                               *)
THEOREM RoundRobinCorrect == NoWrap => (LibSpec => Abs!SafeSpec)
<1> SUFFICES ASSUME NoWrap PROVE LibSpec => Abs!SafeSpec
  OBVIOUS
<1>1. LibInit => Abs!Init
  <2> SUFFICES ASSUME LibInit PROVE Abs!Init
    OBVIOUS
  <2>1. Represents(env_sched_list, <<>>) /\ <<>> \in Seq(Env)
    BY PtrAssumption, InitRepresents DEF LibInit, Init
  <2>2. Contents(env_sched_list) = <<>>
    BY <2>1, ContentsIs
  <2> QED BY <2>2 DEF Abs!Init, LibInit, Init
<1>2. IInv /\ [LibNext]_libVars => [Abs!Next]_(Abs!vars)
  <2> SUFFICES ASSUME IInv, [LibNext]_libVars PROVE Abs!Next \/ UNCHANGED Abs!vars
    OBVIOUS
  <2>1. ASSUME NEW p \in Pri, env_create(p) PROVE Abs!Next
    BY <2>1, CreateIsAbs DEF Abs!Next
  <2>2. CASE tick
    BY <2>2, TickIsAbs DEF Abs!Next
  <2>3. CASE yield
    BY <2>3, YieldIsAbs DEF Abs!Next
  <2>4. CASE fork_exofork
    BY <2>4, ExoforkIsAbs DEF Abs!Next
  <2>5. CASE fork_start
    BY <2>5, StartIsAbs DEF Abs!Next
  <2>6. CASE spawn_err
    BY <2>6, SpawnErrIsAbs
  <2>7. CASE exit \/ ipc_recv
    BY <2>7, LeaveIsAbs DEF Abs!Next
  <2>8. ASSUME NEW id \in Id, NEW page \in LibPages, ipc_send(id, page)
        PROVE  Abs!Next \/ UNCHANGED Abs!vars
    BY <2>8, SendIsAbs DEF Abs!Next
  <2>9. CASE UNCHANGED libVars
    BY <2>9, QuietIsAbs DEF libVars, vars, cpuVars, allocVars
  <2> QED BY <2>1, <2>2, <2>3, <2>4, <2>5, <2>6, <2>7, <2>8, <2>9 DEF LibNext
<1>3. LibSpec => []IInv
  BY InvariantHolds
<1> QED BY <1>1, <1>2, <1>3, PTL DEF LibSpec, Abs!SafeSpec
=============================================================================
