---------------------------- MODULE MCCreateTask ----------------------------
(* Small instances of CreateTask: many layouts with one plain CSpace, and  *)
(* many CSpaces with one plain layout.                                     *)
EXTENDS CreateTask

CONSTANTS ep, ntfn, bep, gone

(* A 5-bit word whose last 8 bytes are the kernel's, pages of 4 and 8       *)
(* bytes, two levels of tables that span 16 and 8 bytes.                    *)
MCSpanBits == <<4, 3>>

Configs(sizes, entries, pages, reserved) ==
    [page_size : sizes, entry : entries, pages : [1..4 -> pages], reserved : reserved]

UpTo(S, n) == UNION {[1..k -> S] : k \in 0..n}

(* Every way the task's own pages can clash, with at most one reserved page; *)
(* then one good set of pages with every pair of reserved pages; then bad    *)
(* page sizes.                                                               *)
MCConfig ==
    Configs({4}, {0, 2, 4, 16, 20}, {0, 4, 8, 16, 20, 28, 6}, UpTo({4, 24}, 1))
      \cup [page_size : {4, 8}, entry : {0, 4, 8}, pages : {<<0, 8, 16, 20>>, <<8, 16, 4, 0>>,
                                                           <<0, 8, 16, 24>>},
            reserved : UpTo({0, 2, 4, 12, 24, 28}, 2)]
      \cup Configs({0, 6}, {0, 4}, {0, 12, 24}, {<<>>})

PlainLayout == [page_size |-> 4, entry |-> 0, pages |-> <<0, 8, 16, 20>>, reserved |-> <<>>]

(* An endpoint, a notification, a badged endpoint the kernel will not badge *)
(* again, and an empty root slot.                                           *)
MCRootCap ==
    [ s \in {ep, ntfn, bep, gone} |->
        IF s = gone THEN NoCap
        ELSE [ object |-> s, rights |-> {"read", "write", "grant"},
               badge |-> IF s = bep THEN 7 ELSE 0 ] ]

Grant(d, source, rights, badge) ==
    [destination |-> d, source |-> source, rights |-> rights, badge |-> badge]

Destination == 0..4

MCGrant ==
    UNION { { Grant(d, ep, {"write", "grant"}, 1), Grant(d, ntfn, {"write"}, 0),
              Grant(d, bep, {"write"}, 2), Grant(d, bep, {"write"}, 0),
              Grant(d, gone, {"write"}, 0), Grant(d, Null, {"write"}, 0) } : d \in Destination }

MCRoute ==
    { Grant(d, s, {"write", "grant"}, 1) : d \in Destination, s \in {ep, bep, gone, Null} }

(* CNodes of 1 to 16 slots: the first and the last size no task may have,  *)
(* 8 slots too many for the tracker.                                       *)
MCSpace == [size : 0..4, grants : UpTo(MCGrant, 2), route : UpTo(MCRoute, 1)]

PlainSpace ==
    [size |-> 2, grants |-> <<Grant(1, ntfn, {"write"}, 0)>>,
     route |-> <<Grant(2, ep, {"write", "grant"}, 1)>>]

MCTaskConfig ==
    [layout : MCConfig, space : {PlainSpace}]
      \cup [layout : {PlainLayout}, space : MCSpace]

=============================================================================
