------------------------------ MODULE MCFormat ------------------------------
(* Disks of a hundred sectors for Format.                                  *)
EXTENDS Format

None == Entry(UNUSED, 0, 0)

-----------------------------------------------------------------------------
(* Every arrangement of a first table and of up to three more, for the     *)
(* scan; the partitions have no sectors, so that fs_init passes them over. *)

EmptyPrims ==
  {p \in [1 .. Entries -> {UNUSED, DATA, EXTENDED}] :
     Cardinality({n \in 1 .. Entries : p[n] = EXTENDED}) <= 1}

Chains == {<<3>>, <<20>>, <<3, 7>>, <<4, 8>>, <<20, 25>>, <<3, 7, 11>>,
           <<3, 7, 12>>, <<3, 8, 12>>, <<20, 25, 30>>}

EmptyDisks ==
  {[prim   |-> [n \in 1 .. Entries |->
                  IF p[n] = EXTENDED THEN Entry(EXTENDED, c[1], 0)
                  ELSE IF p[n] = DATA THEN Entry(DATA, 60 + n, 0) ELSE None],
    tables |-> c,
    logic  |-> [k \in 1 .. Len(c) |->
                  IF k \in used THEN Entry(DATA, 2, 0) ELSE None]] :
     p \in EmptyPrims, c \in Chains, used \in SUBSET (1 .. 3)}

-----------------------------------------------------------------------------
(* Partitions that are long enough for twice the address of the inode      *)
(* array, where build_fs puts the root directory, to be inside.            *)

First  == Entry(DATA, 1, 15)
Second == Entry(DATA, 16, 34)
Third  == Entry(DATA, 50, 72)

NoChain(prim) == [prim |-> prim, tables |-> <<>>, logic |-> <<>>]

\* The second, the third or both are logical, two sectors behind a table.
Logical(e) == Entry(DATA, 2, e.sec_cnt - 2)

RoomyDisks ==
  {NoChain(<<First, None, None, None>>),
   NoChain(<<First, Second, None, Third>>),
   [prim   |-> <<First, Second, Entry(EXTENDED, 50, 0), None>>,
    tables |-> <<50>>, logic |-> <<Logical(Third)>>],
   [prim   |-> <<First, Entry(EXTENDED, 16, 0), Third, None>>,
    tables |-> <<16>>, logic |-> <<Logical(Second)>>],
   [prim   |-> <<Entry(EXTENDED, 16, 0), First, None, None>>,
    tables |-> <<16, 50>>,
    logic  |-> <<Logical(Second), Logical(Third)>>]}

MCLayouts == EmptyDisks \cup RoomyDisks
=============================================================================
