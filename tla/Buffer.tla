------------------------------- MODULE Buffer -------------------------------
(***************************************************************************)
(* The two growing buffers. One is that of rymga_loader.c, with b_reserve, *)
(* b_put and b_free: the session request is built in one, the gateway's    *)
(* reply is received in another, block by block as receive_memory gets     *)
(* them. The other is that of rymga_loader_windows.c, with reserve and     *)
(* append_char: the command line of the host. The growth loop is one step  *)
(* per iteration.                                                          *)
(***************************************************************************)
EXTENDS Naturals

CONSTANTS
    Limit,  \* the buffer's limit: REQUEST_MAX or MANIFEST_MAX, 32767 on Windows
    First,  \* the first capacity: 256, 128 on Windows
    Blocks  \* lengths of what is put

ASSUME BufferAssumption ==
    Limit \in Nat /\ First \in Nat \ {0} /\ First <= Limit /\ Blocks \subseteq Nat

VARIABLES
    wide,       \* the buffer is that of the Windows launcher
    pc,         \* "ready", "grow" and "copy" in b_put, "refused" after it failed, "free"
    length, capacity,
    add,        \* the length of the block being put
    next        \* the capacity the loop has reached

vars == <<wide, pc, length, capacity, add, next>>

Init == wide \in BOOLEAN /\ pc = "ready" /\ length = 0 /\ capacity = 0 /\ add = 0 /\ next = 0

\* Mutant: the capacity is compared with the block alone.
PutIgnoresLength(n) ==
    /\ pc = "ready" /\ add' = n
    /\ IF n > Limit - length
         THEN pc' = "refused" /\ UNCHANGED next
         ELSE IF ~wide /\ n <= capacity
           THEN pc' = "copy" /\ UNCHANGED next
           ELSE pc' = "grow" /\ next' = IF capacity = 0 THEN First ELSE capacity
    /\ UNCHANGED <<wide, length, capacity>>

\* b_reserve up to its loop, or reserve, which always calls realloc
Put(n) ==
    /\ pc = "ready" /\ add' = n
    /\ IF n > Limit - length
         THEN pc' = "refused" /\ UNCHANGED next
         ELSE IF ~wide /\ length + n <= capacity
           THEN pc' = "copy" /\ UNCHANGED next
           ELSE pc' = "grow" /\ next' = IF capacity = 0 THEN First ELSE capacity
    /\ UNCHANGED <<wide, length, capacity>>

\* Mutant: the loop stops at the limit without having reached it.
DoubleNever ==
    /\ pc = "grow" /\ next < length + add
    /\ next' = IF next > Limit \div 2 THEN next ELSE next * 2
    /\ UNCHANGED <<wide, pc, length, capacity, add>>

Double ==
    /\ pc = "grow" /\ next < length + add
    /\ next' = IF ~wide /\ next > Limit \div 2 THEN Limit ELSE next * 2
    /\ UNCHANGED <<wide, pc, length, capacity, add>>

\* realloc gives the new capacity, or fails.
Realloc ==
    /\ pc = "grow" /\ next >= length + add
    /\ \/ pc' = "copy" /\ capacity' = next
       \/ pc' = "refused" /\ UNCHANGED capacity
    /\ UNCHANGED <<wide, length, add, next>>

\* memcpy, or the store of one unit
Copy ==
    /\ pc = "copy" /\ pc' = "ready" /\ length' = length + add
    /\ UNCHANGED <<wide, capacity, add, next>>

\* b_free, or free, whether or not the last put was refused
Free ==
    /\ pc \in {"ready", "refused"} /\ pc' = "free"
    /\ length' = 0 /\ capacity' = 0 /\ add' = 0 /\ next' = 0 /\ UNCHANGED wide

Next ==
    \/ (\E n \in Blocks : Put(n)) \/ Double \/ Realloc \/ Copy \/ Free
    \/ pc = "free" /\ UNCHANGED vars

\* The loop is sequential code.
Spec == Init /\ [][Next]_vars /\ WF_vars(Double)
-----------------------------------------------------------------------------
(* Properties *)

\* The variables have their types.
TypeOK ==
    /\ wide \in BOOLEAN /\ pc \in {"ready", "grow", "copy", "refused", "free"}
    /\ length \in Nat /\ capacity \in Nat /\ add \in Nat /\ next \in Nat

\* What is allocated at most: reserve doubles past the limit, but not twice.
Most == IF wide THEN 2 * Limit ELSE Limit

\* memcpy writes within the allocation whatever sizes arrive in whatever order, and
\* the limit that bounds what a peer can make the buffer hold bounds the allocation.
CopyFits == /\ pc = "copy" => length + add <= capacity
            /\ length <= capacity /\ length <= Limit /\ capacity <= Most

\* The growth loops of b_reserve and reserve end: also where the limit is no power of
\* two times the first capacity.
GrowthEnds == pc = "grow" /\ next < length + add ~> next >= length + add

\* What makes CopyFits inductive: the loop stays between the capacity and the largest
\* allocation, and what it is to make room for is within the limit.
IInv ==
    /\ TypeOK /\ CopyFits
    /\ pc = "grow" => next > 0 /\ next >= capacity /\ next <= Most
    /\ pc \in {"grow", "copy"} => length + add <= Limit
=============================================================================
