----------------------------- MODULE LinkedList -----------------------------
(***************************************************************************)
(* The intrusive list of libpc (list.h), which holds the buckets of the    *)
(* hash table: a ring of nodes through a sentinel that is a member of the  *)
(* list object.  A node links itself in before the sentinel and its        *)
(* destructor links it out.                                                *)
(***************************************************************************)
EXTENDS Integers, SequencesExt, TLC

CONSTANTS Values,     \* what the list holds
          MaxNodes    \* bound: nodes in use at a time

LinkedListAssumption == MaxNodes \in Nat

list_ == 0      \* the sentinel

VARIABLES
    next_, prev_,   \* address -> address, for the sentinel and the nodes
    value_,         \* node -> value
    copy,           \* what the range constructor made of the list, or <<>>
    pushed          \* history: the nodes pushed and not erased, in order

vars == <<next_, prev_, value_, copy, pushed>>

Nodes == DOMAIN next_ \ {list_}
Free == CHOOSE a \in 1 .. MaxNodes + 1 : a \notin Nodes

----------------------------------------------------------------------------
\* The nodes an iterator visits from begin() until end()
RECURSIVE nodes_from(_)
nodes_from(a) == IF a = list_ THEN <<>> ELSE <<a>> \o nodes_from(next_[a])

begin == next_[list_]
empty == next_[list_] = list_

\* The node at which find stops, or the sentinel, which is end()
find(v) ==
    LET hits == SelectSeq(nodes_from(begin), LAMBDA a : value_[a] = v)
    IN IF hits = <<>> THEN list_ ELSE Head(hits)

Init ==
    /\ next_ = (list_ :> list_)
    /\ prev_ = (list_ :> list_)
    /\ value_ = <<>>
    /\ copy = <<>>
    /\ pushed = <<>>

\* new NodeT(t), linked in between the last node and the sentinel
push_back(t) ==
    LET n == Free
        last == prev_[list_]
    IN /\ Cardinality(Nodes) < MaxNodes
       /\ next_' = [(next_ @@ (n :> list_)) EXCEPT ![last] = n]
       /\ prev_' = [(prev_ @@ (n :> last)) EXCEPT ![list_] = n]
       /\ value_' = value_ @@ (n :> t)
       /\ pushed' = Append(pushed, n)
       /\ UNCHANGED copy

\* unlink: what the pointers are without the node a
unlinked(a) ==
    LET next == next_[a]
        prev == prev_[a]
        rest == DOMAIN next_ \ {a}
    IN [next |-> [b \in rest |-> IF b = prev THEN next ELSE next_[b]],
        prev |-> [b \in rest |-> IF b = next THEN prev ELSE prev_[b]]]

erase(a) ==
    /\ next_' = unlinked(a).next
    /\ prev_' = unlinked(a).prev
    /\ value_' = [b \in Nodes \ {a} |-> value_[b]]
    /\ pushed' = SelectSeq(pushed, LAMBDA b : b # a)
    /\ UNCHANGED copy

\* List(begin, end) pushes the values of a range
copy_range ==
    /\ copy' = [i \in 1 .. Len(nodes_from(begin)) |-> value_[nodes_from(begin)[i]]]
    /\ UNCHANGED <<next_, prev_, value_, pushed>>

\* One turn of the loop of clear, which ~List runs until the list is empty
clear_step == ~empty /\ erase(begin)

Next ==
    \/ \E v \in Values : push_back(v)
    \/ \E v \in Values : find(v) # list_ /\ erase(find(v))
    \/ clear_step
    \/ copy_range

Spec == Init /\ [][Next]_vars

----------------------------------------------------------------------------
(* Properties *)

\* The two directions of the ring agree at every node, the sentinel too, after
\* any sequence of pushes and erases.
RingClosed ==
    \A a \in DOMAIN next_ : next_[a] \in DOMAIN prev_ /\ prev_[a] \in DOMAIN next_
                            /\ prev_[next_[a]] = a /\ next_[prev_[a]] = a

\* An iteration visits every node that was pushed and not erased, once, in
\* the order of the pushes: an erase in the middle loses none of the others.
InOrder == nodes_from(begin) = pushed

\* find stops at the oldest node with the value.
FindsOldest ==
    \A v \in Values :
        LET S == {i \in 1 .. Len(pushed) : value_[pushed[i]] = v}
        IN find(v) = IF S = {} THEN list_ ELSE pushed[Min(S)]
=============================================================================
