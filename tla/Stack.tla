------------------------------- MODULE Stack -------------------------------
(***************************************************************************)
(* stack.c: a linked list of strings on the heap.  The functions take no   *)
(* lock, so every access to the list that another thread could get between *)
(* is a step.  The string of an entry lives and dies with the entry, but   *)
(* for the failure of its own malloc.                                      *)
(***************************************************************************)
EXTENDS Naturals, Sequences, FiniteSets

CONSTANTS
  Threads,    \* the callers
  Nodes,      \* addresses malloc gives to entries
  Values,     \* strings
  NULL

ASSUME StackAssumption ==
  /\ IsFiniteSet(Nodes)
  /\ NULL \notin Nodes \cup Values

VARIABLES
  exists,                          \* *theStack # NULL
  head, stackSize, next, data,     \* struct stack_t, struct stack_entry
  allocated,                       \* entries malloc gave and free did not take
  pc, entry,                       \* per thread: next step, local entry or tmp
  loop                             \* per thread: pop called by "pop", "clear" or "destroy"

list == <<head, stackSize, next, data>>
vars == <<exists, head, stackSize, next, data, allocated, pc, entry, loop>>

Init ==
  /\ exists = FALSE
  /\ head = NULL /\ stackSize = 0
  /\ next = [n \in Nodes |-> NULL] /\ data = [n \in Nodes |-> NULL]
  /\ allocated = {}
  /\ pc = [t \in Threads |-> "idle"]
  /\ entry = [t \in Threads |-> NULL]
  /\ loop = [t \in Threads |-> "pop"]

Goto(t, from, to) == pc[t] = from /\ pc' = [pc EXCEPT ![t] = to]

\* malloc of the stack itself; a failed malloc leaves no stack.
newStack(t) ==
  /\ ~exists /\ pc[t] = "idle"
  /\ exists' = TRUE
  /\ head' = NULL /\ stackSize' = 0
  /\ UNCHANGED <<next, data, allocated, pc, entry, loop>>

-----------------------------------------------------------------------------
\* push: without memory for the entry nothing happens; without memory for the
\* copy of the string, the entry gets a null pointer for it.
Push(t) ==
  /\ exists
  /\ Goto(t, "idle", "copy")
  /\ \E n \in Nodes \ allocated :
       entry' = [entry EXCEPT ![t] = n] /\ allocated' = allocated \cup {n}
  /\ UNCHANGED <<exists, list, loop>>

CopyString(t) ==
  /\ Goto(t, "copy", "link")
  /\ \E v \in Values \cup {NULL} : data' = [data EXCEPT ![entry[t]] = v]
  /\ UNCHANGED <<exists, head, stackSize, next, allocated, entry, loop>>

\* Faulty variant: the old head is not linked.
LinkNothing(t) ==
  /\ Goto(t, "link", "publish")
  /\ next' = [next EXCEPT ![entry[t]] = NULL]
  /\ UNCHANGED <<exists, head, stackSize, data, allocated, entry, loop>>

LinkNext(t) ==
  /\ Goto(t, "link", "publish")
  /\ next' = [next EXCEPT ![entry[t]] = head]
  /\ UNCHANGED <<exists, head, stackSize, data, allocated, entry, loop>>

PublishHead(t) ==
  /\ Goto(t, "publish", "increment")
  /\ head' = entry[t]
  /\ UNCHANGED <<exists, stackSize, next, data, allocated, entry, loop>>

IncrementSize(t) ==
  /\ Goto(t, "increment", "idle")
  /\ stackSize' = stackSize + 1
  /\ UNCHANGED <<exists, head, next, data, allocated, entry, loop>>

-----------------------------------------------------------------------------
\* pop, alone or in the loop of clear_stack, which destroy_stack calls.
StartPop(t, caller) ==
  /\ exists
  /\ Goto(t, "idle", "test")
  /\ loop' = [loop EXCEPT ![t] = caller]
  /\ UNCHANGED <<exists, list, allocated, entry>>

\* destroy_stack hands the null pointer to clear_stack, which reads its head.
DestroyNothing(t) ==
  /\ ~exists
  /\ Goto(t, "idle", "fault")
  /\ UNCHANGED <<exists, list, allocated, entry, loop>>

\* Faulty variant: the size goes down even when there was nothing to pop.
EmptyDecrements(t) ==
  /\ head = NULL
  /\ Goto(t, "test", IF loop[t] = "destroy" THEN "free" ELSE "idle")
  /\ stackSize' = stackSize - 1
  /\ UNCHANGED <<exists, head, next, data, allocated, entry, loop>>

Empty(t) ==
  /\ head = NULL
  /\ Goto(t, "test", IF loop[t] = "destroy" THEN "free" ELSE "idle")
  /\ UNCHANGED <<exists, list, allocated, entry, loop>>

SaveHead(t) ==
  /\ head # NULL
  /\ Goto(t, "test", "unlink")
  /\ entry' = [entry EXCEPT ![t] = head]
  /\ UNCHANGED <<exists, list, allocated, loop>>

\* Faulty variant: head is not moved on.
UnlinkForgotten(t) ==
  /\ Goto(t, "unlink", "release")
  /\ UNCHANGED <<exists, list, allocated, entry, loop>>

Unlink(t) ==
  /\ Goto(t, "unlink", IF head = NULL THEN "fault" ELSE "release")
  /\ head' = IF head = NULL THEN head ELSE next[head]
  /\ UNCHANGED <<exists, stackSize, next, data, allocated, entry, loop>>

\* Faulty variant: the entry is not freed.
ReleaseForgotten(t) ==
  /\ Goto(t, "release", "decrement")
  /\ UNCHANGED <<exists, list, allocated, entry, loop>>

Release(t) ==
  /\ Goto(t, "release", "decrement")
  /\ allocated' = allocated \ {entry[t]}
  /\ UNCHANGED <<exists, list, entry, loop>>

DecrementSize(t) ==
  /\ Goto(t, "decrement", IF loop[t] = "pop" THEN "idle" ELSE "test")
  /\ stackSize' = stackSize - 1
  /\ UNCHANGED <<exists, head, next, data, allocated, entry, loop>>

FreeStack(t) ==
  /\ Goto(t, "free", "idle")
  /\ exists' = FALSE
  /\ UNCHANGED <<list, allocated, entry, loop>>

Next ==
  \E t \in Threads :
    \/ newStack(t)
    \/ Push(t) \/ CopyString(t) \/ LinkNext(t) \/ PublishHead(t) \/ IncrementSize(t)
    \/ \E caller \in {"pop", "clear", "destroy"} : StartPop(t, caller)
    \/ DestroyNothing(t)
    \/ Empty(t) \/ SaveHead(t) \/ Unlink(t) \/ Release(t) \/ DecrementSize(t)
    \/ FreeStack(t)

Spec == Init /\ [][Next]_vars

-----------------------------------------------------------------------------
\* The entries from head on, as far as there can be distinct ones.
Reach == LET at[k \in Nat] == IF k = 0 THEN head
                              ELSE IF at[k - 1] = NULL THEN NULL ELSE next[at[k - 1]]
         IN  [k \in 0 .. Cardinality(Nodes) |-> at[k]]
Chain == {Reach[k] : k \in DOMAIN Reach} \ {NULL}
Depth == Cardinality({k \in DOMAIN Reach : Reach[k] # NULL})
Contents == [i \in 1 .. Depth |-> data[Reach[i - 1]]]
Quiet == \A t \in Threads : pc[t] = "idle"

\* Every variable has its type.
TypeOK ==
  /\ exists \in BOOLEAN
  /\ head \in Nodes \cup {NULL} /\ stackSize \in Nat
  /\ next \in [Nodes -> Nodes \cup {NULL}] /\ data \in [Nodes -> Values \cup {NULL}]
  /\ allocated \subseteq Nodes
  /\ pc \in [Threads -> {"idle", "copy", "link", "publish", "increment", "test",
                         "unlink", "release", "decrement", "free", "fault"}]
  /\ entry \in [Threads -> Nodes \cup {NULL}]
  /\ loop \in [Threads -> {"pop", "clear", "destroy"}]

\* The list never runs through memory that was freed, and never in a circle,
\* even half way through an operation.
NoDangling == Reach[Cardinality(Nodes)] = NULL /\ Chain \subseteq allocated

\* Between operations the list is all there is: stackSize counts its entries,
\* no entry malloc gave is out of reach, and a destroyed stack left nothing.
NothingLeaks ==
  Quiet => /\ exists => stackSize = Depth /\ allocated = Chain
           /\ ~exists => allocated = {}

\* The code implements the stack of StringStack, but for one step: push takes
\* effect when head points to the entry, pop when head moves on.  The step is
\* that of stack.c:80, which links an entry without its string when only the
\* second malloc of push fails; stack.c:71 says that such a push is ignored.
Abstract == INSTANCE StringStack WITH contents <- IF exists THEN Contents ELSE <<>>
HalfPush == Contents' = <<NULL>> \o Contents
ImplementsStack ==
  /\ Abstract!Init
  /\ [][~HalfPush => Abstract!Next]_<<exists, IF exists THEN Contents ELSE <<>>>>
=============================================================================
