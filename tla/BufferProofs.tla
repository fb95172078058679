---------------------------- MODULE BufferProofs ----------------------------
(***************************************************************************)
(* CopyFits of Buffer for every limit, first capacity and block size.      *)
(***************************************************************************)
EXTENDS Buffer, TLAPS

\* A capacity that is at most half the limit can be doubled: the test of the
\* growth loop in b_reserve.
LEMMA HalfFits ==
    ASSUME NEW n \in Nat, n <= Limit \div 2
    PROVE  n * 2 <= Limit
  BY BufferAssumption, SMT

\* The growth loops stay within the largest allocation, so that IInv is inductive.
LEMMA Inductive == IInv /\ [Next]_vars => IInv'
  <1> SUFFICES ASSUME IInv, [Next]_vars PROVE IInv'
    OBVIOUS
  <1> USE BufferAssumption DEF IInv, TypeOK, CopyFits, Most
  <1>1. ASSUME NEW n \in Blocks, Put(n) PROVE IInv'
    BY <1>1 DEF Put
  <1>2. CASE Double
    <2>1. CASE ~wide /\ next > Limit \div 2
      BY <1>2, <2>1 DEF Double
    <2>2. CASE ~wide /\ ~(next > Limit \div 2)
      <3>1. next <= Limit \div 2
        BY <2>2
      <3>2. next * 2 <= Limit
        BY <3>1, HalfFits
      <3>3. next' = next * 2 /\ next * 2 \in Nat
        BY <1>2, <2>2 DEF Double
      <3> QED
        BY <1>2, <2>2, <3>2, <3>3 DEF Double
    <2>3. CASE wide
      <3>1. next < Limit
        BY <1>2 DEF Double
      <3>2. next' = next * 2 /\ next * 2 \in Nat
        BY <1>2, <2>3 DEF Double
      <3> QED
        BY <1>2, <2>3, <3>1, <3>2 DEF Double
    <2> QED
      BY <2>1, <2>2, <2>3
  <1>3. CASE Realloc
    BY <1>3 DEF Realloc
  <1>4. CASE Copy
    BY <1>4 DEF Copy
  <1>5. CASE Free
    BY <1>5 DEF Free
  <1>6. CASE UNCHANGED vars
    BY <1>6 DEF vars
  <1> QED
    BY <1>1, <1>2, <1>3, <1>4, <1>5, <1>6 DEF Next

\* The growth loops of b_reserve and reserve never leave the bounds that IInv states.
THEOREM LoopBounded == Spec => []IInv
  <1>1. Init => IInv
    BY BufferAssumption DEF Init, IInv, TypeOK, CopyFits, Most
  <1> QED
    BY <1>1, Inductive, PTL DEF Spec

\* Whatever sizes receive_memory, encode_request and append_quoted put, and whatever
\* the limit, the write stays within the allocation and the allocation within bounds.
THEOREM CopySafe == Spec => []CopyFits
  <1>1. IInv => CopyFits
    BY DEF IInv
  <1> QED
    BY <1>1, LoopBounded, PTL
=============================================================================
