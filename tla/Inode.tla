------------------------------- MODULE Inode -------------------------------
(***************************************************************************)
(* The open inodes of the mounted partition (fs/inode.c) and the directory *)
(* handles on them (open_root, open_dir and close_dir of fs/dir.c).        *)
(*                                                                         *)
(* Every open inode has one copy in kernel memory, in the linked list      *)
(* open_inodes (List, whose nodes are the places for copies), with the     *)
(* number of its users. inode_open runs with interrupts on and waits for   *)
(* the disk; its actions are the steps between which another thread can    *)
(* run. inode_close runs with interrupts off.                              *)
(***************************************************************************)
EXTENDS List

CONSTANTS
  Threads,   \* the threads that use the file system
  Nos,       \* the inode numbers
  RootNo,    \* sb->root_inode_no
  Dirs,      \* bound: the places malloc has for a dir_t
  Root       \* the dir_t root, a global variable

\* Bound: the places kmalloc has for an inode_t.  i_node is its first field.
Copies == Nodes

ASSUME InodeAssumption ==
  RootNo \in Nos /\ Root \notin Dirs /\ Copies # {}

VARIABLES
  no, open_cnt,  \* the fields of every copy
  allocated,     \* the copies that are not free memory
  inode,         \* the inode field of every dir_t, NULL for a free one
  pc, arg, res   \* inode_open of each thread: place, number, copy

vars == <<listVars, no, open_cnt, allocated, inode, pc, arg, res>>

\* The copies in the list, from head to tail.
open_inodes == list_traversal

-----------------------------------------------------------------------------
\* After mount_part: the list is empty, and open_root is still to come.
Init ==
  /\ list_init
  /\ no = [c \in Copies |-> RootNo]
  /\ open_cnt = [c \in Copies |-> 0]
  /\ allocated = {}
  /\ inode = [d \in Dirs \cup {Root} |-> NULL]
  /\ pc = [t \in Threads |-> "idle"]
  /\ arg = [t \in Threads |-> RootNo] /\ res = [t \in Threads |-> NULL]

\* The first copy in the list with the number n.
find_in_list(n) ==
  LET found == {k \in DOMAIN open_inodes : no[open_inodes[k]] = n}
  IN  IF found = {} THEN NULL
      ELSE open_inodes[CHOOSE k \in found : \A j \in found : k <= j]

\* inode_open looks in the list first.
inode_open(t, n) ==
  /\ arg' = [arg EXCEPT ![t] = n]
  /\ res' = [res EXCEPT ![t] = find_in_list(n)]
  /\ pc' = [pc EXCEPT ![t] = IF find_in_list(n) = NULL
                             THEN "read" ELSE "hit"]
  /\ UNCHANGED <<listVars, no, open_cnt, allocated, inode>>

\* fs_init calls open_root once, before any thread uses the file system.
open_root(t) ==
  /\ inode[Root] = NULL /\ \A u \in Threads : pc[u] = "idle"
  /\ inode_open(t, RootNo)

open_dir(t, n) ==
  /\ inode[Root] # NULL /\ pc[t] = "idle"
  /\ \E d \in Dirs : inode[d] = NULL
  /\ inode_open(t, n)

\* The return to open_root or open_dir: root or a new handle has the inode.
Handle(t, c) ==
  /\ \E d \in IF inode[Root] = NULL THEN {Root} ELSE Dirs :
       inode[d] = NULL /\ inode' = [inode EXCEPT ![d] = c]
  /\ res' = [res EXCEPT ![t] = NULL]
  /\ pc' = [pc EXCEPT ![t] = "idle"]

\* Mutant: the user of an inode that is open already is not counted.
inode_hit_NoCount(t) ==
  /\ pc[t] = "hit" /\ Handle(t, res[t])
  /\ UNCHANGED <<listVars, no, open_cnt, allocated, arg>>

\* It is in memory: ++res->open_cnt and return.
inode_hit(t) ==
  /\ pc[t] = "hit" /\ Handle(t, res[t])
  /\ open_cnt' = [open_cnt EXCEPT ![res[t]] = @ + 1]
  /\ UNCHANGED <<listVars, no, allocated, arg>>

\* It is not: memory for it, then it is read from the disk.  An inode there
\* has its number; the fields that are only used in memory are clear.
inode_read(t) ==
  /\ pc[t] = "read"
  /\ \E c \in Copies \ allocated :
       /\ allocated' = allocated \cup {c}
       /\ no' = [no EXCEPT ![c] = arg[t]]
       /\ open_cnt' = [open_cnt EXCEPT ![c] = 0]
       /\ next' = [next EXCEPT ![c] = NULL]
       /\ prev' = [prev EXCEPT ![c] = NULL]
       /\ res' = [res EXCEPT ![t] = c]
  /\ pc' = [pc EXCEPT ![t] = "push"]
  /\ UNCHANGED <<inode, arg>>

\* list_push_front; the count is set afterwards.
inode_push(t) ==
  /\ pc[t] = "push"
  /\ list_push_front(res[t])
  /\ pc' = [pc EXCEPT ![t] = "count"]
  /\ UNCHANGED <<no, open_cnt, allocated, inode, arg, res>>

inode_count(t) ==
  /\ pc[t] = "count" /\ Handle(t, res[t])
  /\ open_cnt' = [open_cnt EXCEPT ![res[t]] = 1]
  /\ UNCHANGED <<listVars, no, allocated, arg>>

\* The last user takes it out of the list and frees it.
inode_close(c) ==
  /\ open_cnt' = [open_cnt EXCEPT ![c] = @ - 1]
  /\ \/ /\ open_cnt[c] = 1
        /\ list_remove(c)
        /\ allocated' = allocated \ {c}
     \/ /\ open_cnt[c] # 1
        /\ UNCHANGED <<listVars, allocated>>

\* Mutant: the root directory is closed like any other.
close_dir_Root(t, d) ==
  /\ pc[t] = "idle" /\ inode[d] # NULL
  /\ inode_close(inode[d])
  /\ inode' = [inode EXCEPT ![d] = IF d = Root THEN @ ELSE NULL]
  /\ UNCHANGED <<no, pc, arg, res>>

\* close_dir: the root directory stays open.
close_dir(t, d) ==
  /\ pc[t] = "idle" /\ inode[d] # NULL
  /\ d # Root
  /\ inode_close(inode[d])
  /\ inode' = [inode EXCEPT ![d] = NULL]
  /\ UNCHANGED <<no, pc, arg, res>>

Next ==
  \E t \in Threads :
    \/ open_root(t)
    \/ \E n \in Nos : open_dir(t, n)
    \/ inode_hit(t) \/ inode_read(t) \/ inode_push(t) \/ inode_count(t)
    \/ \E d \in Dirs \cup {Root} : close_dir(t, d)

Spec == Init /\ [][Next]_vars

-----------------------------------------------------------------------------
(* Properties.                                                             *)

Users(c) == {d \in DOMAIN inode : inode[d] = c}

(***************************************************************************)
(* Between calls the count of an inode in the list is the number of its    *)
(* handles, so that it goes to zero with the last one.                     *)
(***************************************************************************)
CountsTheUsers ==
  (\A t \in Threads : pc[t] = "idle") =>
    \A c \in ToSet(open_inodes) : open_cnt[c] = Cardinality(Users(c))

(***************************************************************************)
(* No handle and no link of the list leads to freed memory, with the       *)
(* handle on the root directory one that lasts; and no memory is lost:     *)
(* between calls every copy is in the list.                                *)
(***************************************************************************)
InodesAccounted ==
  /\ ToSet(open_inodes) \subseteq allocated
  /\ \A d \in DOMAIN inode : inode[d] # NULL => inode[d] \in allocated
  /\ (\A t \in Threads : pc[t] = "idle") => allocated = ToSet(open_inodes)

(***************************************************************************)
(* The list is linked in both directions, always: the loop from its tail   *)
(* passes the copies of the loop from its head, in the opposite order,     *)
(* although memory that was in the list is freed and used again.           *)
(***************************************************************************)
LinkedBothWays ==
  /\ open_inodes # <<NULL>>
  /\ Walk(prev, tail, head) = Reverse(open_inodes)
=============================================================================
