-------------------------------- MODULE Heap --------------------------------
(***************************************************************************)
(* What malloc, calloc, realloc and free promise the program that calls    *)
(* them: every block it holds is apart from the others, and nothing but    *)
(* its own writes changes what is in it.                                   *)
(***************************************************************************)
EXTENDS Integers

VARIABLE
    blocks  \* for the address of every block it holds, the bytes of it

Held == DOMAIN blocks

\* a block of no bytes is somewhere, too: no other block has its address
Area(b, p) == {p} \cup {p + i : i \in DOMAIN b[p]}

\* block q of the next state is apart from all those that stay
FreshApart(q, kept) ==
    \A p \in kept : Area(blocks', p) \cap Area(blocks', q) = {}

Keeps(kept) == \A p \in kept : blocks'[p] = blocks[p]

Init == blocks = << >>

\* malloc, calloc, and realloc of NULL
Malloc(q) ==
    /\ q \notin Held
    /\ DOMAIN blocks' = Held \cup {q}
    /\ Keeps(Held)
    /\ FreshApart(q, Held)

Free(p) ==
    /\ p \in Held
    /\ DOMAIN blocks' = Held \ {p}
    /\ Keeps(Held \ {p})

\* in place or not, what fits of the old block is in the new one
Realloc(p, q) ==
    /\ p \in Held
    /\ q \notin Held \ {p}
    /\ DOMAIN blocks' = (Held \ {p}) \cup {q}
    /\ Keeps(Held \ {p})
    /\ FreshApart(q, Held \ {p})
    /\ \A i \in DOMAIN blocks[p] \cap DOMAIN blocks'[q] :
          blocks'[q][i] = blocks[p][i]

\* the program writes to one of its blocks
Write(p) ==
    /\ p \in Held
    /\ DOMAIN blocks' = Held
    /\ Keeps(Held \ {p})
    /\ DOMAIN blocks'[p] = DOMAIN blocks[p]

Next ==
    \/ \E q \in DOMAIN blocks' : Malloc(q)
    \/ \E p \in Held : Free(p) \/ Write(p)
    \/ \E p \in Held : \E q \in DOMAIN blocks' : Realloc(p, q)

Spec == Init /\ [][Next]_blocks
=============================================================================
