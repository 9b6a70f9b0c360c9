------------------------------- MODULE Tailqs -------------------------------
(***************************************************************************)
(* The tail queues of libraries (common/eal_common_tailqs.c): a table in   *)
(* shared memory that the primary process fills and the others search, and *)
(* in each process the elements that constructors register before          *)
(* rte_eal_tailqs_init and plug-ins after it.                              *)
(***************************************************************************)
EXTENDS Integers, Sequences, FiniteSets

CONSTANTS
  Primary, Secondaries,   \* the processes
  Names,                  \* the names libraries register
  LongNames,              \* those of 31 characters, which snprintf cuts ...
  Cut,                    \* ... to these of 30, other libraries' names perhaps
  NoName,                 \* the name of a slot that is not in use
  MaxTailq                \* RTE_MAX_TAILQ
ASSUME TailqsAssumption ==
  /\ Primary \notin Secondaries /\ LongNames \subseteq Names /\ MaxTailq \in Nat \ {0}
  /\ NoName \notin Names /\ \A n \in LongNames : Cut[n] \notin LongNames \cup {NoName}

TqProcs == Secondaries \cup {Primary}
NoHead == -1
Slots == 0 .. MaxTailq - 1

VARIABLES
  tailq_head,  \* the names in the shared table
  elems,       \* rte_tailq_elem_head of each process: a sequence of names
  head,        \* t->head of each process's elements: a slot or NoHead
  tq_count,    \* rte_tailqs_count
  todo,        \* the elements that rte_eal_tailqs_init has still to update
  ready        \* "early", "up" or "failed"

tq_vars == <<tailq_head, elems, head, tq_count, todo, ready>>

TqInit ==
  /\ tailq_head = [i \in Slots |-> NoName]
  /\ elems = [p \in TqProcs |-> <<>>]
  /\ head = [p \in TqProcs |-> [n \in Names |-> NoHead]]
  /\ tq_count = [p \in TqProcs |-> -1]
  /\ todo = [p \in TqProcs |-> <<>>]
  /\ ready = [p \in TqProcs |-> "early"]

Registered(p) == {elems[p][i] : i \in DOMAIN elems[p]}

(* snprintf into sizeof(head->name) - 1 bytes leaves 30 characters, of     *)
(* which lookup compares 31: it does not find a longer name.               *)
Stored(n) == IF n \in LongNames THEN Cut[n] ELSE n

(* rte_eal_tailq_lookup                                                    *)
Lookup(n) ==
  LET S == {i \in Slots : tailq_head[i] = n}
  IN IF S = {} THEN NoHead ELSE CHOOSE i \in S : \A j \in S : i <= j

CanCreate(p, n) == Lookup(n) = NoHead /\ tq_count[p] + 1 < MaxTailq

(* rte_eal_tailq_update: the slot the element gets.                        *)
Updated(p, n) ==
  IF p = Primary
    THEN IF CanCreate(p, n) THEN tq_count[p] ELSE NoHead
    ELSE Lookup(n)

(* ... and rte_eal_tailq_create, which fills it.                           *)
Update(p, n) ==
  /\ head' = [head EXCEPT ![p][n] = Updated(p, n)]
  /\ IF p = Primary /\ CanCreate(p, n)
       THEN /\ tailq_head' = [tailq_head EXCEPT ![tq_count[p]] = Stored(n)]
            /\ tq_count' = [tq_count EXCEPT ![p] = @ + 1]
       ELSE UNCHANGED <<tailq_head, tq_count>>

(* rte_eal_tailq_register before start-up: of two elements of one name the *)
(* second is refused.                                                      *)
RegisterEarly(p, n) ==
  /\ ready[p] = "early"
  /\ n \notin Registered(p)
  /\ elems' = [elems EXCEPT ![p] = Append(@, n)]
  /\ UNCHANGED <<tailq_head, head, tq_count, todo, ready>>

(* Mutant: an element that could not be set up stays in the list.          *)
RegisterLateKept(p, n) ==
  /\ ready[p] = "up"
  /\ n \notin Registered(p)
  /\ Update(p, n)
  /\ elems' = [elems EXCEPT ![p] = Append(@, n)]
  /\ UNCHANGED <<todo, ready>>

(* ... and after it: an element that cannot be set up leaves the list.     *)
RegisterLate(p, n) ==
  /\ ready[p] = "up"
  /\ n \notin Registered(p)
  /\ Update(p, n)
  /\ elems' = IF Updated(p, n) = NoHead THEN elems ELSE [elems EXCEPT ![p] = Append(@, n)]
  /\ UNCHANGED <<todo, ready>>

(* rte_eal_tailqs_init                                                     *)
TailqsInit(p) ==
  /\ ready[p] = "early"
  /\ tq_count' = [tq_count EXCEPT ![p] = 0]
  /\ todo' = [todo EXCEPT ![p] = elems[p]]
  /\ ready' = [ready EXCEPT ![p] = IF elems[p] = <<>> THEN "up" ELSE "init"]
  /\ UNCHANGED <<tailq_head, elems, head>>

InitElement(p) ==
  LET n == Head(todo[p])
      rest == Tail(todo[p])
      ok == Updated(p, n) # NoHead
  IN /\ ready[p] = "init"
     /\ Update(p, n)
     /\ todo' = [todo EXCEPT ![p] = IF ok THEN rest ELSE <<>>]
     /\ ready' = [ready EXCEPT ![p] = CASE ~ok -> "failed"
                                        [] ok /\ rest = <<>> -> "up"
                                        [] OTHER -> "init"]
     /\ UNCHANGED elems

TqNext ==
  \E p \in TqProcs :
    TailqsInit(p) \/ InitElement(p) \/ \E n \in Names : RegisterEarly(p, n) \/ RegisterLate(p, n)

TqSpec == TqInit /\ [][TqNext]_tq_vars

-----------------------------------------------------------------------------
(* The list that process q uses as k is the one of the primary's n, which  *)
(* was cut to that name.                                                   *)
SharedByCut(p, n, q, k) == p = Primary /\ q # Primary /\ n \in LongNames /\ k = Cut[n]

(* All processes that use a name use one list, whoever registers it first  *)
(* and when; and a list is used under one name only, or by the primary     *)
(* under a name of 31 characters and by others under what is left of it.   *)
OneListPerName ==
  \A p, q \in TqProcs : \A n, k \in Names :
    head[p][n] # NoHead /\ head[q][k] # NoHead =>
      /\ n = k => head[p][n] = head[q][k]
      /\ head[p][n] = head[q][k] => n = k \/ SharedByCut(p, n, q, k) \/ SharedByCut(q, k, p, n)

(* The primary's count is the number of slots in use, and one slot is      *)
(* always left: no name is written behind the table.                       *)
CountIsUsed ==
  tq_count[Primary] >= 0 =>
    /\ tq_count[Primary] < MaxTailq
    /\ {i \in Slots : tailq_head[i] # NoName} = 0 .. tq_count[Primary] - 1

(* In a process that is up, every element in the list has a head, so that  *)
(* RTE_TAILQ_CAST never dereferences a null pointer; a name that was       *)
(* refused may be registered again.                                        *)
ListedIsUsable ==
  \A p \in TqProcs : ready[p] = "up" => \A n \in Registered(p) : head[p][n] # NoHead

(* What the registration of tailqs does: one list for each name in all     *)
(* processes and one name for each list, but for names that are cut; a     *)
(* table that is never overrun; and no null head in the list of a process  *)
(* that is up (eal_common_tailqs.c).                                       *)
TailqsSound == OneListPerName /\ CountIsUsed /\ ListedIsUsable
=============================================================================
