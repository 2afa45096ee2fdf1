------------------------------- MODULE Copies -------------------------------
(***************************************************************************)
(* What fork and spawn promise: every process has a memory of its own, but *)
(* for the pages marked PTE_LIBRARY, which all of them share.  fork copies *)
(* the parent's memory to a child that does not run yet, a page at a time  *)
(* because the parent's stack changes meanwhile; a program is loaded as    *)
(* its file describes it.  Module Cow implements this with shared pages.   *)
(***************************************************************************)
EXTENDS Naturals

CONSTANTS Env, Root, Addr, Pages, Lib, Stack, PAGE_SIZE, Val

VARIABLES live,    \* the processes that run
          view,    \* [Env -> [Addr -> byte]]: what each would read
          image    \* [Addr -> byte]: the program, which never changes

Zero == [a \in Addr |-> 0]
PageOf(a) == a \div PAGE_SIZE

Init == live = {} /\ view = [e \in Env |-> Zero]

Store(e, a, v) ==
    /\ e \in live /\ UNCHANGED live
    /\ view'[e][a] = v
    /\ view' = [f \in Env |-> IF f = e \/ a \in Lib THEN [view[f] EXCEPT ![a] = v] ELSE view[f]]

\* A fresh process: the program, and the shared pages as they are.
Load(e) ==
    /\ e \notin live
    /\ live' = live \cup {e}
    /\ view' = [view EXCEPT ![e] = [a \in Addr |-> IF a \in Lib THEN @[a] ELSE image[a]]]

CopyPage(e, c, i) ==
    /\ e \in live /\ c \notin live /\ UNCHANGED live
    /\ view' = [view EXCEPT ![c] = [a \in Addr |-> IF PageOf(a) = i THEN view[e][a] ELSE @[a]]]

\* The child runs when it has all of the parent's memory; of the stack it has
\* what was there when it was copied.
Start(e, c) ==
    /\ e \in live /\ c \notin live
    /\ live' = live \cup {c}
    /\ \A a \in Addr \ Stack : view[c][a] = view[e][a]
    /\ UNCHANGED view

Exit(e) ==
    /\ e \in live /\ live' = live \ {e}
    /\ view' = [view EXCEPT ![e] = [a \in Addr |-> IF a \in Lib THEN @[a] ELSE 0]]

Next ==
    /\ \/ \E e \in Env, a \in Addr, v \in Val : Store(e, a, v)
       \/ \E e, c \in Env : Start(e, c) \/ \E i \in Pages : CopyPage(e, c, i)
       \/ \E e \in Env : Load(e) \/ Exit(e)
    /\ UNCHANGED image

vars == <<live, view, image>>
Spec == Init /\ [][Next]_vars
=============================================================================
