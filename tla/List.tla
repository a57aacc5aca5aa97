-------------------------------- MODULE List --------------------------------
(***************************************************************************)
(* The doubly linked lists of lib/list.c: nodes linked between the head    *)
(* and the tail of a list.  This is the part of it that the open inodes    *)
(* use; Inode is its user.  Other modules take a list for the sequence of  *)
(* its nodes.                                                              *)
(***************************************************************************)
EXTENDS Integers, Sequences, FiniteSets, SequencesExt

CONSTANTS
  Nodes,       \* the nodes that are linked into the list
  head, tail,  \* the two nodes that are always there
  NULL

ASSUME ListAssumption ==
  /\ IsFiniteSet(Nodes) /\ head # tail /\ NULL \notin Nodes \cup {head, tail}
  /\ head \notin Nodes /\ tail \notin Nodes

VARIABLES next, prev   \* the links of every node

listVars == <<next, prev>>

Links == Nodes \cup {head, tail}

\* list_init; the links of the other nodes are not initialised.
list_init ==
  /\ next = [x \in Links |-> IF x = head THEN tail ELSE NULL]
  /\ prev = [x \in Links |-> IF x = tail THEN head ELSE NULL]

-----------------------------------------------------------------------------
\* Mutant: the back link of target is not changed.
list_insert_before_NoPrev(target, node) ==
  /\ next' = [next EXCEPT ![prev[target]] = node, ![node] = target]
  /\ prev' = [prev EXCEPT ![node] = prev[target]]

list_insert_before(target, node) ==
  /\ next' = [next EXCEPT ![prev[target]] = node, ![node] = target]
  /\ prev' = [prev EXCEPT ![node] = prev[target], ![target] = node]

list_push_front(node) == list_insert_before(next[head], node)

\* The node keeps its own links.
list_remove(node) ==
  /\ next' = [next EXCEPT ![prev[node]] = next[node]]
  /\ prev' = [prev EXCEPT ![next[node]] = prev[node]]

-----------------------------------------------------------------------------
\* The nodes that a loop from one end to the other passes, in at most as
\* many steps as there are links; <<NULL>> for a loop that does not get there.
Walk(link, from, to) ==
  LET node[k \in 0 .. Cardinality(Links)] ==
        IF k = 0 THEN link[from]
        ELSE IF node[k - 1] \in {to, NULL} THEN node[k - 1]
        ELSE link[node[k - 1]]
      end == {k \in 0 .. Cardinality(Links) : node[k] = to}
  IN  IF end = {} THEN <<NULL>>
      ELSE [k \in 1 .. CHOOSE n \in end : \A m \in end : n <= m |-> node[k - 1]]

\* The order in which list_traversal and the loops like it see the nodes.
list_traversal == Walk(next, head, tail)
=============================================================================
