---------------------------- MODULE IntrusiveLists ----------------------------
(***************************************************************************)
(* metl::intrusive_list and metl::intrusive_forward_list                   *)
(* (intrusive_list.hpp, intrusive_forward_list.hpp, detail/dlist_link.hpp, *)
(* detail/slist_link.hpp).  Elements carry their own links; a list is a    *)
(* head that is a link too.  A list is named by its head.  The program     *)
(* passes any link as a position: METL_HARDEN stops it when the link is of *)
(* another list or of none.                                                *)
(***************************************************************************)
EXTENDS Integers, Sequences, SequencesExt, FiniteSets

CONSTANTS Lists, Nodes, Null

VARIABLES
  doubly,     \* an intrusive_list, or an intrusive_forward_list
  links,      \* [next, prev, owner : links -> links or Null, size_ : lists -> Nat]
  alive,      \* the elements that exist
  order,      \* what each list holds, as its documentation says
  agreed,     \* the last call returned what its documentation says
  halted      \* METL_HARDEN has stopped the program

vars == <<doubly, links, alive, order, agreed, halted>>

All == Lists \cup Nodes

Init ==
  /\ doubly \in BOOLEAN
  /\ links = [next  |-> [x \in All |-> IF doubly /\ x \in Lists THEN x ELSE Null],
              prev  |-> [x \in All |-> IF doubly /\ x \in Lists THEN x ELSE Null],
              owner |-> [x \in All |-> IF x \in Lists THEN x ELSE Null],
              size_ |-> [l \in Lists |-> 0]]
  /\ alive = Nodes /\ order = [l \in Lists |-> <<>>]
  /\ agreed = TRUE /\ halted = FALSE

-----------------------------------------------------------------------------
\* Stores are in the code's order: a neighbour may be the head, or the same link.
dlist_link_before(h, pos, node) ==
  LET p == h.prev[pos]
  IN  [h EXCEPT !.next = [[@ EXCEPT ![node] = pos] EXCEPT ![p] = node],
                !.prev = [[@ EXCEPT ![node] = p] EXCEPT ![pos] = node]]

\* Fault: only one neighbour is told.
dlist_unlink_OneWay(h, node) ==
  [h EXCEPT !.next = [[@ EXCEPT ![h.prev[node]] = h.next[node]] EXCEPT ![node] = Null],
            !.prev[node] = Null]

dlist_unlink(h, node) ==
  [h EXCEPT !.next = [[@ EXCEPT ![h.prev[node]] = h.next[node]] EXCEPT ![node] = Null],
            !.prev = [[@ EXCEPT ![h.next[node]] = h.prev[node]] EXCEPT ![node] = Null]]

slist_link_after(h, pos, node) ==
  [h EXCEPT !.next = [[@ EXCEPT ![node] = h.next[pos]] EXCEPT ![pos] = node]]

slist_unlink_after(h, pos) ==
  [h EXCEPT !.next = [[@ EXCEPT ![pos] = h.next[h.next[pos]]] EXCEPT ![h.next[pos]] = Null]]

\* The walk from the head; at most every link is passed.
slist_previous(h, head, node) ==
  LET walk[k \in 0 .. Cardinality(All)] ==
        IF k = 0 THEN head
        ELSE IF h.next[walk[k - 1]] = node THEN walk[k - 1] ELSE h.next[walk[k - 1]]
  IN  walk[Cardinality(All)]

Owned(h, l, node) == [h EXCEPT !.owner[node] = l, !.size_[l] = @ + 1]
Disowned(h, l, node) == [h EXCEPT !.owner[node] = Null, !.size_[l] = @ - 1]

unlink(h, l, node) == Disowned(dlist_unlink(h, node), l, node)
unlink_after(h, l, pos) == Disowned(slist_unlink_after(h, pos), l, h.next[pos])

in_this_list(l, pos) == pos # Null /\ links.owner[pos] = l

-----------------------------------------------------------------------------
\* A call whose checks pass, and what it should leave and return.
Call(checks, after, promised, returned) ==
  /\ ~halted
  /\ IF checks
     THEN links' = after /\ order' = promised /\ agreed' = returned /\ UNCHANGED halted
     ELSE halted' = TRUE /\ UNCHANGED <<links, order, agreed>>
  /\ UNCHANGED <<doubly, alive>>

Position(l, pos) == IF pos = l THEN Len(order[l]) + 1
                    ELSE CHOOSE i \in 1 .. Len(order[l]) : order[l][i] = pos
Without(l, node) == SelectSeq(order[l], LAMBDA x : x # node)
\* The link at index i of what a list holds, or what stands for its end.
AtIndex(s, i, end) == IF i <= Len(s) THEN s[i] ELSE end

insert(l, pos, node) ==
  /\ doubly /\ node \in alive
  /\ LET checks == links.owner[node] = Null /\ in_this_list(l, pos)
     IN  Call(checks,
              Owned(dlist_link_before(links, pos, node), l, node),
              [order EXCEPT ![l] = InsertAt(@, Position(l, pos), node)], TRUE)

push_back(l, node) == insert(l, l, node)

\* The iterator returned is to the element after the one unlinked.
erase(l, pos) ==
  /\ doubly
  /\ LET checks == in_this_list(l, pos) /\ pos # l
     IN  Call(checks, unlink(links, l, pos), [order EXCEPT ![l] = Without(l, pos)],
              links.next[pos] = AtIndex(order[l], Position(l, pos) + 1, l))

pop_back(l) == erase(l, links.prev[l])

erase_value(l, node) ==
  /\ node \in alive
  /\ Call(links.owner[node] = l,
          IF doubly THEN unlink(links, l, node)
          ELSE unlink_after(links, l, slist_previous(links, l, node)),
          [order EXCEPT ![l] = Without(l, node)], TRUE)

\* Where the element stands in what the list holds after it has moved.
Moved(l, pos, other, node) ==
  LET gone == [order EXCEPT ![other] = Without(other, node)]
      at == IF pos = l THEN Len(gone[l]) + 1
            ELSE CHOOSE i \in 1 .. Len(gone[l]) : gone[l][i] = pos
  IN  IF pos = node THEN order ELSE [gone EXCEPT ![l] = InsertAt(@, at, node)]

splice(l, pos, other, node) ==
  /\ doubly
  /\ LET checks == in_this_list(l, pos) /\ in_this_list(other, node) /\ node # other
         moved == dlist_link_before(dlist_unlink(links, node), pos, node)
     IN  Call(checks,
              CASE pos = node \/ pos = links.next[node] -> links
                [] other = l -> moved
                [] OTHER -> [moved EXCEPT !.owner[node] = l, !.size_[other] = @ - 1, !.size_[l] = @ + 1],
              Moved(l, pos, other, node), TRUE)

insert_after(l, pos, node) ==
  /\ ~doubly /\ node \in alive
  /\ LET checks == links.owner[node] = Null /\ in_this_list(l, pos)
     IN  Call(checks,
              Owned(slist_link_after(links, pos, node), l, node),
              [order EXCEPT ![l] = InsertAt(@, IF pos = l THEN 1 ELSE Position(l, pos) + 1, node)],
              TRUE)

erase_after(l, pos) ==
  /\ ~doubly
  /\ LET checks == in_this_list(l, pos) /\ links.next[pos] # Null
         i == IF pos = l THEN 1 ELSE Position(l, pos) + 1
     IN  Call(checks, unlink_after(links, l, pos),
              [order EXCEPT ![l] = Without(l, order[l][i])],
              links.next[links.next[pos]] = AtIndex(order[l], i + 1, Null))

\* Of either list.
push_front(l, node) == IF doubly THEN insert(l, links.next[l], node) ELSE insert_after(l, l, node)
pop_front(l) == IF doubly THEN erase(l, links.next[l]) ELSE erase_after(l, l)

\* clear and the list's destructor unlink the first element while there is one.
clear(l) ==
  LET end == IF doubly THEN l ELSE Null
      step(h) == IF doubly THEN unlink(h, l, h.next[l]) ELSE unlink_after(h, l, l)
      loop[k \in 0 .. links.size_[l]] ==
        IF k = 0 \/ loop[k - 1].next[l] = end
        THEN IF k = 0 THEN links ELSE loop[k - 1] ELSE step(loop[k - 1])
  IN  Call(TRUE, loop[links.size_[l]], [order EXCEPT ![l] = <<>>], TRUE)

\* An element destroyed while it is linked stops the program.
hook_destructor(node) ==
  /\ ~halted /\ node \in alive
  /\ IF links.owner[node] = Null
     THEN alive' = alive \ {node} /\ UNCHANGED halted
     ELSE halted' = TRUE /\ UNCHANGED alive
  /\ UNCHANGED <<doubly, links, order, agreed>>

\* Built afresh or copied from an element that may be linked: in no list.
hook_constructor(node) ==
  /\ ~halted /\ node \notin alive
  /\ alive' = alive \cup {node}
  /\ links' = [links EXCEPT !.next[node] = Null, !.prev[node] = Null, !.owner[node] = Null]
  /\ UNCHANGED <<doubly, order, agreed, halted>>

Stopped == halted /\ UNCHANGED vars

Next ==
  \/ \E l \in Lists :
       \/ clear(l) \/ pop_front(l) \/ pop_back(l)
       \/ \E node \in Nodes : push_front(l, node) \/ push_back(l, node) \/ erase_value(l, node)
       \/ \E pos \in Lists \cup alive :
            \/ erase(l, pos) \/ erase_after(l, pos)
            \/ \E node \in Nodes : insert(l, pos, node) \/ insert_after(l, pos, node)
            \/ \E other \in Lists, it \in Lists \cup alive : splice(l, pos, other, it)
  \/ \E node \in Nodes : hook_destructor(node) \/ hook_constructor(node)
  \/ Stopped

Spec == Init /\ [][Next]_vars

-----------------------------------------------------------------------------
TypeOK ==
  /\ doubly \in BOOLEAN /\ alive \subseteq Nodes
  /\ agreed \in BOOLEAN /\ halted \in BOOLEAN
  /\ \A x \in All : {links.next[x], links.prev[x], links.owner[x]} \subseteq All \cup {Null}

(***************************************************************************)
(* Each list, walked by its links from begin() to end(), and an            *)
(* intrusive_list also from end() back to begin(), holds exactly what its  *)
(* calls should have left, and size() counts it; an element is in one list *)
(* at most, the one its hook records, and in none once destroyed; and an   *)
(* erase returned the position after what it unlinked                      *)
(* (intrusive_list.hpp:100-107, 280, 297-302; detail/dlist_link.hpp:12-15; *)
(* intrusive_forward_list.hpp:36-41, 254).                                 *)
(***************************************************************************)
ListsExact ==
  /\ agreed
  /\ \A l \in Lists :
       LET s == order[l]
           n == Len(s)
           end == IF doubly THEN l ELSE Null
       IN  /\ links.size_[l] = n
           /\ links.next[l] = AtIndex(s, 1, end)
           /\ \A i \in 1 .. n :
                /\ s[i] \in alive /\ links.owner[s[i]] = l
                /\ links.next[s[i]] = AtIndex(s, i + 1, end)
                /\ doubly => links.prev[s[i]] = IF i = 1 THEN l ELSE s[i - 1]
           /\ doubly => links.prev[l] = IF n = 0 THEN l ELSE s[n]
  /\ \A x \in Nodes : links.owner[x] = Null <=> \A l \in Lists : x \notin ToSet(order[l])

=============================================================================
