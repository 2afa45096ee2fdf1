------------------------------- MODULE Tailq -------------------------------
(***************************************************************************)
(* The tail queue of include/queue.h, at the level of its pointers.        *)
(*                                                                         *)
(* A TAILQ stores, in the head, a pointer to the first element and the     *)
(* ADDRESS of the last 'tqe_next' field; every element stores a pointer to *)
(* the next element and the ADDRESS of the previous 'tqe_next' field.  An  *)
(* address of a 'next' field is named here by the record that holds it:    *)
(* the element e for &e->tqe_next, and QHead for &head->tqh_first.  Hence   *)
(*     q.next[QHead] is tqh_first      q.last    is tqh_last                *)
(*     q.next[e]    is e->tqe_next    q.prev[e] is e->tqe_prev             *)
(* and "*addr" is q.next[addr].  The links of an element that has left the *)
(* queue keep their old values, as they do in the code.                    *)
(***************************************************************************)
EXTENDS Integers, Sequences

CONSTANTS QHead,  \* stands for the address &head->tqh_first
          Null    \* the null pointer

ASSUME QHeadNotNull == QHead # Null

(* The queues, well formed or not, over a set S of elements. *)
Tailqs(S) ==
    [ next : [S \cup {QHead} -> S \cup {Null}],
      prev : [S -> S \cup {QHead, Null}],
      last : S \cup {QHead} ]

TAILQ_INIT(S) ==
    [ next |-> [a \in S \cup {QHead} |-> Null],
      prev |-> [a \in S |-> Null],           \* static storage is zero
      last |-> QHead ]

TAILQ_FIRST(q) == q.next[QHead]

TAILQ_INSERT_HEAD(q, e) ==
    LET f == TAILQ_FIRST(q)
    IN  [ next |-> [q.next EXCEPT ![e] = f, ![QHead] = e],
          prev |-> IF f # Null THEN [q.prev EXCEPT ![f] = e, ![e] = QHead]
                               ELSE [q.prev EXCEPT ![e] = QHead],
          last |-> IF f # Null THEN q.last ELSE e ]

TAILQ_INSERT_TAIL(q, e) ==
    [ next |-> [q.next EXCEPT ![e] = Null, ![q.last] = e],
      prev |-> [q.prev EXCEPT ![e] = q.last],
      last |-> e ]

(* Mutant: tqh_last is not moved back when the last element leaves. *)
TAILQ_REMOVE_StaleLast(q, e) ==
    LET n == q.next[e]
        p == q.prev[e]
    IN  [ next |-> [q.next EXCEPT ![p] = n],
          prev |-> IF n # Null THEN [q.prev EXCEPT ![n] = p] ELSE q.prev,
          last |-> q.last ]

TAILQ_REMOVE(q, e) ==
    LET n == q.next[e]
        p == q.prev[e]
    IN  [ next |-> [q.next EXCEPT ![p] = n],
          prev |-> IF n # Null THEN [q.prev EXCEPT ![n] = p] ELSE q.prev,
          last |-> IF n # Null THEN q.last ELSE p ]

-----------------------------------------------------------------------------
(* What a queue is supposed to hold. *)

Injective(s) == \A i, j \in 1..Len(s) : s[i] = s[j] => i = j

Elements(s) == { s[i] : i \in 1..Len(s) }

(* The record whose 'next' field leads to position i + 1 of s. *)
Before(s, i) == IF i = 0 THEN QHead ELSE s[i]

(* q is a well-formed queue that holds the elements of s, in that order.   *)
Represents(q, s) ==
    /\ Injective(s)
    /\ \A i \in 1..Len(s) : /\ q.next[Before(s, i - 1)] = s[i]
                            /\ q.prev[s[i]] = Before(s, i - 1)
    /\ q.next[Before(s, Len(s))] = Null
    /\ q.last = Before(s, Len(s))

(* The sequences of at most n members of S. *)
SeqsUpTo(S, n) == UNION { [1..m -> S] : m \in 0..n }
=============================================================================
