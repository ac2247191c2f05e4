------------------------- MODULE TaskBacklogProofs --------------------------
(***************************************************************************)
(* One task backlog, for blocks of any size and any number of waiters: the *)
(* list of blocks is the queue of waiters that WaiterQueue promises, and   *)
(* every waiter is answered once.  Then the circular array from which the  *)
(* pool takes the tasks so scheduled (TaskBuffer).                         *)
(***************************************************************************)
EXTENDS TaskBacklog, FiniteSetTheorems, SequenceTheorems, TLAPS

-----------------------------------------------------------------------------
(* The inductive invariant *)

\* The loops' variables are at the entry that is answered next.
AtPlace ==
  IF block <= Len(blocks)
  THEN i < Len(blocks[block]) /\ Len(answered) = (block - 1) * BlockSize + i
  ELSE i = 0 /\ Len(answered) = Accepted

\* Before the answers begin there are none, and the loops go through the list.
Scheduled ==
  /\ phase = "filling" => answered = << >> /\ refs = 0
  /\ phase = "scheduling" => block \in 1..(Len(blocks) + 1) /\ AtPlace

\* The loop remembers that it has continued the chain.
Remembers ==
  phase # "filling" /\ ~task_chain_continued =>
    \A n \in 1..Len(answered) : answered[n].answer # "next"

BacklogInv == TypeOK /\ Scheduled /\ Remembers /\ OneContinuation

-----------------------------------------------------------------------------
(* Arithmetic *)

\* Quotient and remainder.
LEMMA DivModFacts ==
  ASSUME NEW n \in Nat, NEW b \in Nat \ {0}
  PROVE  /\ n \div b \in Nat /\ n % b \in 0..(b - 1)
         /\ n = (n \div b) * b + (n % b)
<1>1. n \div b \in Int /\ n % b \in 0..(b - 1) /\ n = b * (n \div b) + (n % b)
  OBVIOUS
<1>2. n \div b >= 0
  BY <1>1
<1> QED
  BY <1>1, <1>2

\* Multiples grow with their factor.
LEMMA Multiples ==
  ASSUME NEW x \in Int, NEW y \in Int, NEW b \in Nat
  PROVE  /\ x * b \in Int /\ y * b \in Int
         /\ x >= 0 => x * b \in Nat
         /\ (x + 1) * b = x * b + b
         /\ (x - 1) * b = x * b - b
         /\ x < y => x * b + b <= y * b
         /\ x <= y => x * b <= y * b
OBVIOUS

\* Quotient and remainder are unique.
LEMMA DivModUnique ==
  ASSUME NEW q \in Nat, NEW b \in Nat \ {0}, NEW r \in 0..(b - 1)
  PROVE  /\ q * b + r \in Nat
         /\ (q * b + r) \div b = q /\ (q * b + r) % b = r
<1> DEFINE n == q * b + r
<1>1. n \in Nat
  OBVIOUS
<1>2. /\ n \div b \in Nat /\ n % b \in 0..(b - 1)
      /\ n = (n \div b) * b + (n % b)
  BY <1>1, DivModFacts
<1> HIDE DEF n
<1>3. PICK p \in Nat : p = n \div b
  BY <1>2
<1>4. PICK s \in 0..(b - 1) : s = n % b
  BY <1>2
<1>5. n = p * b + s /\ n = q * b + r
  BY <1>2, <1>3, <1>4 DEF n
<1>6. p = q
  <2>1. ~ (p < q)
    BY <1>5, Multiples
  <2>2. ~ (q < p)
    BY <1>5, Multiples
  <2> QED
    BY <2>1, <2>2
<1>7. s = r
  BY <1>5, <1>6
<1> QED
  BY <1>1, <1>3, <1>4, <1>6, <1>7 DEF n

-----------------------------------------------------------------------------
(* The list of blocks *)

\* The size of the list.
LEMMA AcceptedCount ==
  ASSUME TypeOK
  PROVE  /\ Len(blocks) \in Nat /\ BlockSize \in Nat \ {0}
         /\ Accepted \in Nat
         /\ \A k \in 1..Len(blocks) :
              /\ blocks[k] \in Seq(Entries) /\ Len(blocks[k]) \in 1..BlockSize
              /\ k < Len(blocks) => Len(blocks[k]) = BlockSize
         /\ Len(blocks) = 0 => Accepted = 0
         /\ Len(blocks) > 0 =>
              Accepted = (Len(blocks) - 1) * BlockSize + Len(blocks[Len(blocks)])
<1>1. blocks \in Seq(Seq(Entries)) /\ BlockSize \in Nat \ {0}
  BY BacklogAssumption DEF TypeOK
<1>2. Len(blocks) \in Nat /\ (Len(blocks) = 0 <=> blocks = << >>)
  BY <1>1
<1>3. \A k \in 1..Len(blocks) :
        /\ blocks[k] \in Seq(Entries) /\ Len(blocks[k]) \in 1..BlockSize
        /\ k < Len(blocks) => Len(blocks[k]) = BlockSize
  <2>1. \A k \in 1..Len(blocks) : blocks[k] \in Seq(Entries)
    BY <1>1
  <2>2. \A k \in 1..Len(blocks) :
          IF k < Len(blocks) THEN Len(blocks[k]) = BlockSize
                             ELSE Len(blocks[k]) \in 1..BlockSize
    BY Zenon DEF TypeOK, Packed
  <2> QED
    BY <1>1, <2>1, <2>2
<1>4. /\ Len(blocks) = 0 => Accepted = 0
      /\ Len(blocks) > 0 =>
           Accepted = (Len(blocks) - 1) * BlockSize + Len(blocks[Len(blocks)])
  BY <1>2 DEF Accepted
<1>5. ASSUME Len(blocks) > 0
      PROVE  Accepted \in Nat
  <2>1. Len(blocks) \in 1..Len(blocks)
    BY <1>2, <1>5
  <2>2. PICK m \in Nat : m = Len(blocks[Len(blocks)])
    BY <1>3, <2>1
  <2>3. Len(blocks) - 1 \in Int /\ Len(blocks) - 1 >= 0
    BY <1>2, <1>5
  <2>4. PICK p \in Nat : p = (Len(blocks) - 1) * BlockSize
    BY <1>1, <2>3, Multiples
  <2>5. Accepted = p + m
    BY <1>4, <1>5, <2>2, <2>4, Zenon
  <2> QED
    BY <2>2, <2>4, <2>5
<1>6. Len(blocks) = 0 \/ Len(blocks) > 0
  BY <1>2
<1>7. Accepted \in Nat
  <2>1. ASSUME Len(blocks) = 0 PROVE Accepted \in Nat
    <3>1. Accepted = 0
      BY <1>4, <2>1, Zenon
    <3> QED
      BY <3>1
  <2> QED
    BY <1>5, <1>6, <2>1, Zenon
<1> QED
  BY <1>1, <1>2, <1>3, <1>4, <1>7, Zenon

\* An entry in a block is the waiter of its number.
LEMMA NumberOf ==
  ASSUME TypeOK, NEW k \in 1..Len(blocks), NEW j \in 1..Len(blocks[k])
  PROVE  /\ (k - 1) * BlockSize + j \in 1..Accepted
         /\ Waiting[(k - 1) * BlockSize + j] = blocks[k][j]
<1>1. PICK L \in Nat : L = Len(blocks)
  BY AcceptedCount
<1>2. PICK b \in Nat \ {0} : b = BlockSize
  BY AcceptedCount
<1>3. L \in 1..L /\ L > 0 /\ k \in 1..L
  BY <1>1
<1>12. PICK m \in 1..b : m = Len(blocks[L])
  BY <1>1, <1>2, <1>3, AcceptedCount, Zenon
<1>13. Accepted = (L - 1) * b + m
  BY <1>1, <1>2, <1>3, <1>12, AcceptedCount, Zenon
<1>14. Len(blocks[k]) \in 1..b /\ (k = L => Len(blocks[k]) = m)
  BY <1>1, <1>2, <1>3, <1>12, AcceptedCount, Zenon
<1>4. /\ k \in 1..L /\ j \in 1..b /\ L > 0 /\ (k < L \/ (k = L /\ j <= m))
      /\ Accepted = (L - 1) * b + m /\ m >= 1
  <2>1. j \in 1..b /\ (k < L \/ (k = L /\ j <= m))
    BY <1>3, <1>14
  <2> QED
    BY <1>3, <1>12, <1>13, <2>1
<1>5. PICK n : n = (k - 1) * b + j
  OBVIOUS
<1>6. (k - 1) * b \in Nat /\ n \in Int /\ 1 <= n /\ n - 1 = (k - 1) * b + (j - 1)
  BY <1>4, <1>5, Multiples
<1>7. n <= Accepted
  <2>1. CASE k = L
    BY <1>4, <1>5, <2>1, Multiples
  <2>2. CASE k < L
    <3>1. (k - 1) * b + b <= (L - 1) * b
      BY <1>4, <2>2, Multiples
    <3> QED
      BY <1>4, <1>5, <3>1, Multiples
  <2> QED
    BY <1>4, <2>1, <2>2
<1>8. (n - 1) \div b = k - 1 /\ (n - 1) % b = j - 1
  <2>1. k - 1 \in Nat /\ j - 1 \in 0..(b - 1)
    BY <1>4
  <2>2. ((k - 1) * b + (j - 1)) \div b = k - 1 /\ ((k - 1) * b + (j - 1)) % b = j - 1
    BY <2>1, DivModUnique, Zenon
  <2> QED
    BY <1>6, <2>2, Zenon
<1>9. n \in 1..Accepted
  BY <1>4, <1>6, <1>7, AcceptedCount
<1>10. Waiting[n] = blocks[((n - 1) \div b) + 1][((n - 1) % b) + 1]
  BY <1>2, <1>9, Zenon DEF Waiting
<1>11. ((n - 1) \div b) + 1 = k /\ ((n - 1) % b) + 1 = j
  BY <1>4, <1>8
<1> QED
  BY <1>2, <1>5, <1>9, <1>10, <1>11, Zenon

\* Every number is that of an entry in a block.
LEMMA PlaceOf ==
  ASSUME TypeOK, NEW n \in 1..Accepted
  PROVE  \E k \in 1..Len(blocks) : \E j \in 1..Len(blocks[k]) :
           /\ k = ((n - 1) \div BlockSize) + 1 /\ j = ((n - 1) % BlockSize) + 1
           /\ n = (k - 1) * BlockSize + j
<1>1. PICK L \in Nat : L = Len(blocks)
  BY AcceptedCount
<1>2. PICK b \in Nat \ {0} : b = BlockSize
  BY AcceptedCount
<1>3. L > 0 /\ n \in Nat /\ n - 1 \in Nat
  BY <1>1, AcceptedCount
<1>4. PICK m \in 1..b : m = Len(blocks[L])
  BY <1>1, <1>2, <1>3, AcceptedCount
<1>14. Accepted = (L - 1) * b + m
  BY <1>1, <1>2, <1>3, <1>4, AcceptedCount, Zenon
<1>15. PICK p \in Int : p = (L - 1) * b
  BY Multiples
<1>5. Accepted = p + m /\ n <= p + m
  <2>1. n <= Accepted
    BY AcceptedCount
  <2> QED
    BY <1>14, <1>15, <2>1, Zenon
<1>6. PICK q \in Nat : q = (n - 1) \div b
  BY <1>3, DivModFacts
<1>7. PICK r \in 0..(b - 1) : r = (n - 1) % b
  BY <1>3, DivModFacts
<1>16. PICK t \in Int : t = q * b
  BY Multiples
<1>8. n - 1 = t + r
  BY <1>3, <1>6, <1>7, <1>16, DivModFacts, Zenon
<1>9. q <= L - 1
  <2> SUFFICES ASSUME L - 1 < q PROVE FALSE
    BY <1>1
  <2>1. L - 1 \in Int /\ q \in Int /\ b \in Nat
    OBVIOUS
  <2>2. p + b <= t
    BY <1>15, <1>16, <2>1, Multiples, Zenon
  <2> QED
    BY <1>3, <1>4, <1>5, <1>8, <2>2
<1>10. q = L - 1 => r + 1 <= m
  <2>1. q = L - 1 => t = p
    BY <1>15, <1>16, Zenon
  <2> QED
    BY <1>3, <1>4, <1>5, <1>8, <2>1
<1>11. q + 1 \in 1..L /\ (q + 1) - 1 = q
  BY <1>9
<1>12. r + 1 \in 1..Len(blocks[q + 1])
  <2>1. CASE q = L - 1
    <3>1. q + 1 = L /\ r + 1 \in 1..m
      BY <1>10, <2>1
    <3> QED
      BY <1>4, <3>1, Zenon
  <2>2. CASE q < L - 1
    <3>1. Len(blocks[q + 1]) = b
      BY <1>1, <1>2, <1>11, <2>2, AcceptedCount
    <3> QED
      BY <3>1
  <2> QED
    BY <1>9, <2>1, <2>2
<1>13. n = q * b + (r + 1)
  BY <1>3, <1>8, <1>16
<1> QED
  BY <1>1, <1>2, <1>6, <1>7, <1>11, <1>12, <1>13, Zenon

\* The queue of the accepted waiters.
LEMMA WaitingSeq ==
  ASSUME TypeOK
  PROVE  /\ Waiting \in Seq(Entries) /\ Len(Waiting) = Accepted
         /\ \A n \in 1..Accepted :
              Waiting[n] = blocks[((n - 1) \div BlockSize) + 1][((n - 1) % BlockSize) + 1]
<1>1. Accepted \in Nat
  BY AcceptedCount
<1>2. ASSUME NEW n \in 1..Accepted
      PROVE  blocks[((n - 1) \div BlockSize) + 1][((n - 1) % BlockSize) + 1] \in Entries
  <2>1. PICK k \in 1..Len(blocks) : \E j \in 1..Len(blocks[k]) :
          k = ((n - 1) \div BlockSize) + 1 /\ j = ((n - 1) % BlockSize) + 1
    BY PlaceOf, Zenon
  <2>2. PICK j \in 1..Len(blocks[k]) :
          k = ((n - 1) \div BlockSize) + 1 /\ j = ((n - 1) % BlockSize) + 1
    BY <2>1
  <2>3. blocks[k] \in Seq(Entries)
    BY AcceptedCount
  <2>4. blocks[k][j] \in Entries
    BY <2>3
  <2> QED
    BY <2>2, <2>4, Zenon
<1>3. Waiting \in [1..Accepted -> Entries]
  BY <1>2, Zenon DEF Waiting
<1>4. Waiting \in Seq(Entries) /\ Len(Waiting) = Accepted
  BY <1>1, <1>3
<1> QED
  BY <1>4, Zenon DEF Waiting

\* What tc_task_backlog_push does to the blocks.
LEMMA Linked ==
  ASSUME TypeOK, NEW e \in Entries, blocks' = Extended(e)
  PROVE  /\ blocks' \in Seq(Seq(Entries)) /\ Packed'
         /\ \A k \in 1..Len(blocks) : \A j \in 1..Len(blocks[k]) : blocks'[k][j] = blocks[k][j]
         /\ Accepted' = Accepted + 1
         /\ \E k, j \in Nat :
              /\ j \in 0..(BlockSize - 1) /\ Accepted = k * BlockSize + j
              /\ blocks'[k + 1][j + 1] = e
<1>1. PICK L \in Nat : L = Len(blocks)
  BY AcceptedCount
<1>2. PICK b \in Nat \ {0} : b = BlockSize
  BY AcceptedCount
<1>3. /\ blocks \in Seq(Seq(Entries))
      /\ \A k \in 1..L :
           /\ blocks[k] \in Seq(Entries) /\ Len(blocks[k]) \in 1..b
           /\ k < L => Len(blocks[k]) = b
      /\ L = 0 <=> blocks = << >>
  <2>1. blocks \in Seq(Seq(Entries))
    BY DEF TypeOK
  <2>2. L = 0 <=> blocks = << >>
    BY <1>1, <2>1
  <2> QED
    BY <1>1, <1>2, <2>1, <2>2, AcceptedCount, Zenon
<1>4. CASE NeedsBlock
  <2>1. blocks' = Append(blocks, << e >>)
    BY <1>4 DEF Extended
  <2>2. << e >> \in Seq(Entries) /\ Len(<< e >>) = 1 /\ << e >>[1] = e
    OBVIOUS
  <2>3. /\ blocks' \in Seq(Seq(Entries)) /\ Len(blocks') = L + 1
        /\ \A k \in 1..L : blocks'[k] = blocks[k]
        /\ blocks'[L + 1] = << e >>
    BY <1>1, <1>3, <2>1, <2>2
  <2>4. L > 0 => Len(blocks[L]) = b
    BY <1>1, <1>2, <1>3, <1>4 DEF NeedsBlock
  <2>5. PICK p \in Nat : p = L * b
    BY Multiples
  <2>6. Accepted = p
    <3>1. CASE L = 0
      BY <1>1, <2>5, <3>1, AcceptedCount
    <3>2. CASE L > 0
      <4>1. Accepted = (L - 1) * b + b
        BY <1>1, <1>2, <2>4, <3>2, AcceptedCount, Zenon
      <4> QED
        BY <2>5, <4>1, Multiples
    <3> QED
      BY <3>1, <3>2
  <2>7. Accepted' = p + 1
    <3>1. blocks' # << >>
      BY <2>3
    <3>2. Accepted' = (Len(blocks') - 1) * BlockSize + Len(blocks'[Len(blocks')])
      BY <3>1, Zenon DEF Accepted
    <3>3. Accepted' = ((L + 1) - 1) * b + 1
      BY <1>2, <2>2, <2>3, <3>2, Zenon
    <3> QED
      BY <2>5, <3>3
  <2>8. Packed'
    <3>1. ASSUME NEW k \in 1..(L + 1)
          PROVE  IF k < L + 1 THEN Len(blocks'[k]) = b ELSE Len(blocks'[k]) \in 1..b
      <4>1. CASE k = L + 1
        <5>1. ~ (k < L + 1) /\ 1 \in 1..b
          BY <4>1
        <5>2. Len(blocks'[k]) = 1
          BY <2>2, <2>3, <4>1, Zenon
        <5> QED
          BY <5>1, <5>2, Zenon
      <4>2. CASE k # L + 1
        <5>1. k \in 1..L /\ k < L + 1 /\ (k < L \/ k = L)
          BY <4>2
        <5>2. Len(blocks[k]) = b
          BY <1>3, <2>4, <5>1
        <5> QED
          BY <2>3, <5>1, <5>2, Zenon
      <4> QED
        BY <4>1, <4>2
    <3> QED
      BY <1>2, <2>3, <3>1, Zenon DEF Packed
  <2>9. blocks'[L + 1][0 + 1] = e /\ 0 \in 0..(b - 1) /\ Accepted = L * b + 0 /\ 0 \in Nat
    BY <2>2, <2>3, <2>5, <2>6
  <2>10. Accepted' = Accepted + 1
    BY <2>6, <2>7
  <2> QED
    BY <1>1, <1>2, <2>3, <2>8, <2>9, <2>10, Zenon
<1>5. CASE ~NeedsBlock
  <2>1. blocks' = [blocks EXCEPT ![L] = Append(blocks[L], e)]
    BY <1>1, <1>5 DEF Extended
  <2>2. L > 0 /\ L \in 1..L /\ Len(blocks[L]) \in 1..b /\ Len(blocks[L]) # b
    BY <1>1, <1>2, <1>3, <1>5 DEF NeedsBlock
  <2>3. PICK m \in 1..(b - 1) : m = Len(blocks[L])
    BY <2>2
  <2>4. PICK last : last = Append(blocks[L], e)
    OBVIOUS
  <2>5. /\ last \in Seq(Entries) /\ Len(last) = m + 1 /\ last[m + 1] = e
        /\ \A j \in 1..m : last[j] = blocks[L][j]
    BY <1>3, <2>2, <2>3, <2>4
  <2>6. /\ blocks' \in Seq(Seq(Entries)) /\ Len(blocks') = L
        /\ \A k \in 1..L : k # L => blocks'[k] = blocks[k]
        /\ blocks'[L] = last
    BY <1>1, <1>3, <2>1, <2>2, <2>4, <2>5
  <2>7. PICK p \in Nat : p = (L - 1) * b
    BY <2>2, Multiples
  <2>8. Accepted = p + m
    BY <1>1, <1>2, <2>2, <2>3, <2>7, AcceptedCount, Zenon
  <2>9. Accepted' = p + (m + 1)
    <3>1. blocks' # << >>
      BY <2>2, <2>6
    <3>2. Accepted' = (Len(blocks') - 1) * BlockSize + Len(blocks'[Len(blocks')])
      BY <3>1, Zenon DEF Accepted
    <3> QED
      BY <1>2, <2>5, <2>6, <2>7, <3>2, Zenon
  <2>10. Packed'
    <3>1. ASSUME NEW k \in 1..L
          PROVE  IF k < L THEN Len(blocks'[k]) = b ELSE Len(blocks'[k]) \in 1..b
      <4>1. CASE k = L
        BY <2>3, <2>5, <2>6, <4>1
      <4>2. CASE k # L
        <5>1. k < L
          BY <4>2
        <5> QED
          BY <1>3, <2>6, <4>2, <5>1, Zenon
      <4> QED
        BY <4>1, <4>2
    <3> QED
      BY <1>2, <2>6, <3>1, Zenon DEF Packed
  <2>11. \A k \in 1..L : \A j \in 1..Len(blocks[k]) : blocks'[k][j] = blocks[k][j]
    BY <2>3, <2>5, <2>6, Zenon
  <2>12. /\ Accepted' = Accepted + 1 /\ m \in 0..(b - 1) /\ L - 1 \in Nat /\ m \in Nat
         /\ Accepted = (L - 1) * b + m /\ (L - 1) + 1 = L
    BY <2>2, <2>7, <2>8, <2>9
  <2> QED
    BY <1>1, <1>2, <2>5, <2>6, <2>10, <2>11, <2>12, Zenon
<1> QED
  BY <1>4, <1>5

\* The list of blocks with one entry more is the queue with one waiter more.
LEMMA PushedLast ==
  ASSUME TypeOK, NEW e \in Entries, blocks' = Extended(e)
  PROVE  Waiting' = Append(Waiting, e)
<1>1. PICK w \in Seq(Entries) : w = Waiting
  BY WaitingSeq
<1>2. PICK a \in Nat : a = Accepted
  BY AcceptedCount
<1>3. PICK b \in Nat \ {0} : b = BlockSize
  BY AcceptedCount
<1>4. Len(w) = a /\ Accepted' = a + 1
  BY <1>1, <1>2, WaitingSeq, Linked, Zenon
<1>5. /\ Append(w, e) \in Seq(Entries) /\ Len(Append(w, e)) = a + 1 /\ Append(w, e)[a + 1] = e
      /\ \A n \in 1..a : Append(w, e)[n] = w[n]
  BY <1>4
<1>6. ASSUME NEW n \in 1..(a + 1)
      PROVE  blocks'[((n - 1) \div b) + 1][((n - 1) % b) + 1] = Append(w, e)[n]
  <2>1. CASE n \in 1..a
    <3>1. PICK k \in 1..Len(blocks) : \E j \in 1..Len(blocks[k]) :
            k = ((n - 1) \div b) + 1 /\ j = ((n - 1) % b) + 1
      BY <1>2, <1>3, <2>1, PlaceOf, Zenon
    <3>2. PICK j \in 1..Len(blocks[k]) : k = ((n - 1) \div b) + 1 /\ j = ((n - 1) % b) + 1
      BY <3>1
    <3>3. blocks'[k][j] = blocks[k][j]
      BY Linked, Zenon
    <3>4. w[n] = blocks[k][j]
      BY <1>1, <1>2, <1>3, <2>1, <3>2, WaitingSeq, Zenon
    <3> QED
      BY <1>5, <2>1, <3>2, <3>3, <3>4, Zenon
  <2>2. CASE n = a + 1
    <3>1. PICK k, j \in Nat :
            j \in 0..(b - 1) /\ a = k * b + j /\ blocks'[k + 1][j + 1] = e
      BY <1>2, <1>3, Linked, Zenon
    <3>2. n - 1 = a
      BY <2>2
    <3>3. (k * b + j) \div b = k /\ (k * b + j) % b = j
      BY <3>1, DivModUnique, Zenon
    <3>4. (n - 1) \div b = k /\ (n - 1) % b = j
      BY <3>1, <3>2, <3>3, Zenon
    <3> QED
      BY <1>5, <2>2, <3>1, <3>4, Zenon
  <2>3. n \in 1..a \/ n = a + 1
    OBVIOUS
  <2> QED
    BY <2>1, <2>2, <2>3, Zenon
<1>7. PICK v : v = Waiting'
  OBVIOUS
<1>8. v = [n \in 1..(a + 1) |-> blocks'[((n - 1) \div b) + 1][((n - 1) % b) + 1]]
  BY <1>3, <1>4, <1>7, Zenon DEF Waiting
<1>9. v = [n \in DOMAIN v |-> v[n]] /\ DOMAIN v = 1..(a + 1)
  BY <1>8, Zenon
<1>10. v = Append(w, e)
  <2>1. \A n \in 1..(a + 1) : v[n] = Append(w, e)[n]
    BY <1>6, <1>8, Zenon
  <2> QED
    BY <1>5, <1>9, <2>1
<1> QED
  BY <1>1, <1>7, <1>10, Zenon

-----------------------------------------------------------------------------
(* The answers *)

\* The entry at the loops' variables is the oldest that has no answer.
LEMMA OldestFirst ==
  ASSUME TypeOK, Scheduled, AtEntry
  PROVE  /\ block \in 1..Len(blocks) /\ i + 1 \in 1..Len(blocks[block]) /\ i \in Nat
         /\ Len(answered) = (block - 1) * BlockSize + i
         /\ Entry \in Entries
         /\ Len(answered) \in Nat /\ Len(answered) + 1 \in 1..Accepted
         /\ Entry = Waiting[Len(answered) + 1]
<1>1. /\ block \in 1..(Len(blocks) + 1) /\ block <= Len(blocks)
      /\ i < Len(blocks[block]) /\ Len(answered) = (block - 1) * BlockSize + i
  BY Zenon DEF AtEntry, Scheduled, AtPlace
<1>2. i \in Nat /\ answered \in Seq([waiter : Entries, answer : Outcomes])
  BY DEF TypeOK
<1>3. block \in 1..Len(blocks)
  BY <1>1, AcceptedCount
<1>4. PICK l \in Nat : l = Len(blocks[block])
  BY <1>3, AcceptedCount
<1>5. blocks[block] \in Seq(Entries) /\ i + 1 \in 1..Len(blocks[block])
  <2>1. i + 1 \in 1..l
    BY <1>1, <1>2, <1>4
  <2> QED
    BY <1>3, <1>4, <2>1, AcceptedCount, Zenon
<1>6. Entry \in Entries
  BY <1>5 DEF Entry
<1>7. Len(answered) \in Nat
  BY <1>2
<1>8. PICK p \in Int : p = (block - 1) * BlockSize
  BY <1>3, AcceptedCount, Multiples
<1>9. p + (i + 1) = Len(answered) + 1
  BY <1>1, <1>2, <1>8
<1>10. p + (i + 1) \in 1..Accepted /\ Waiting[p + (i + 1)] = Entry
  BY <1>3, <1>5, <1>8, NumberOf, Zenon DEF Entry
<1> QED
  BY <1>1, <1>2, <1>3, <1>5, <1>6, <1>7, <1>9, <1>10, Zenon

\* The loops' increments take them to the next entry, or past the last.
LEMMA NextPlace ==
  ASSUME TypeOK, Scheduled, AtEntry, Advance, Len(answered') = Len(answered) + 1,
         UNCHANGED << blocks, phase >>
  PROVE  Scheduled' /\ block' \in Nat /\ i' \in Nat
<1>1. PICK L \in Nat : L = Len(blocks)
  BY AcceptedCount
<1>2. PICK b \in Nat \ {0} : b = BlockSize
  BY AcceptedCount
<1>3. PICK k \in 1..L : k = block
  BY <1>1, OldestFirst
<1>4. PICK l \in 1..b : l = Len(blocks[k])
  BY <1>1, <1>2, AcceptedCount
<1>5. PICK p \in Int : p = (k - 1) * b
  BY Multiples
<1>6. /\ i \in Nat /\ i + 1 \in 1..l /\ Len(answered) = p + i
      /\ phase = "scheduling" /\ phase' = "scheduling" /\ blocks' = blocks
  BY <1>2, <1>3, <1>4, <1>5, OldestFirst, Zenon DEF AtEntry
<1>7. Len(answered') = p + i + 1
  BY <1>6
<1>8. Accepted' = Accepted
  BY <1>6, Zenon DEF Accepted
<1>9. CASE i + 1 < l
  <2>1. i' = i + 1 /\ block' = k
    BY <1>3, <1>4, <1>9, Zenon DEF Advance
  <2>2. i' < Len(blocks'[block']) /\ Len(answered') = (block' - 1) * BlockSize + i'
    <3>1. Len(answered') = p + (i + 1)
      BY <1>6, <1>7
    <3> QED
      BY <1>2, <1>4, <1>5, <1>6, <1>9, <2>1, <3>1, Zenon
  <2>3. block' <= Len(blocks') /\ block' \in 1..(Len(blocks') + 1) /\ block' \in Nat /\ i' \in Nat
    BY <1>1, <1>6, <2>1
  <2> QED
    BY <1>6, <2>2, <2>3, Zenon DEF Scheduled, AtPlace
<1>10. CASE i + 1 = l
  <2>1. ~ (i + 1 < l)
    BY <1>6, <1>10
  <2>2. i' = 0 /\ block' = k + 1
    BY <1>3, <1>4, <2>1, Zenon DEF Advance
  <2>3. block' \in 1..(Len(blocks') + 1) /\ block' \in Nat /\ i' \in Nat
    BY <1>1, <1>6, <2>2
  <2>4. CASE k = L
    <3>1. ~ (block' <= Len(blocks'))
      BY <1>1, <1>6, <2>2, <2>4
    <3>2. Accepted = p + l
      <4>1. Len(blocks) > 0
        BY <1>1, <2>4
      <4> QED
        BY <1>1, <1>2, <1>4, <1>5, <2>4, <4>1, AcceptedCount, Zenon
    <3>3. Len(answered') = Accepted'
      BY <1>6, <1>7, <1>8, <1>10, <3>2
    <3> QED
      BY <1>6, <2>2, <2>3, <3>1, <3>3, Zenon DEF Scheduled, AtPlace
  <2>5. CASE k < L
    <3>1. l = b /\ k + 1 \in 1..L /\ block' <= Len(blocks')
      BY <1>1, <1>2, <1>4, <1>6, <2>2, <2>5, AcceptedCount
    <3>2. PICK q \in Int : q = ((k + 1) - 1) * b
      BY Multiples
    <3>3. q = p + b
      BY <1>5, <3>2, Multiples
    <3>4. Len(answered') = q + 0
      BY <1>6, <1>7, <1>10, <3>1, <3>3
    <3>5. 0 < Len(blocks[k + 1])
      BY <1>1, <3>1, AcceptedCount
    <3>6. i' < Len(blocks'[block']) /\ Len(answered') = (block' - 1) * BlockSize + i'
      BY <1>2, <1>6, <2>2, <3>2, <3>4, <3>5, Zenon
    <3> QED
      BY <1>6, <2>3, <3>1, <3>6, Zenon DEF Scheduled, AtPlace
  <2> QED
    BY <2>4, <2>5
<1> QED
  BY <1>6, <1>9, <1>10

\* An answer: the entry's handler is added to the answers, and the loops go on.
LEMMA AnswerStep ==
  ASSUME BacklogInv, AtEntry, NEW o \in Outcomes, Answered(o), Advance,
         UNCHANGED << blocks, phase, result >>, refs' \in Int,
         task_chain_continued' \in BOOLEAN,
         o = "next" => ~task_chain_continued /\ task_chain_continued',
         o # "next" => (task_chain_continued => task_chain_continued')
  PROVE  BacklogInv' /\ Queue!Answer(o)
<1>1. PICK s \in Seq([waiter : Entries, answer : Outcomes]) : s = answered
  BY Zenon DEF BacklogInv, TypeOK
<1>2. PICK e \in Entries : e = Entry /\ e = Waiting[Len(s) + 1]
  BY <1>1, OldestFirst, Zenon DEF BacklogInv
<1>3. PICK r \in [waiter : Entries, answer : Outcomes] :
        r = [waiter |-> e, answer |-> o] /\ r.answer = o
  <2>1. /\ [waiter |-> e, answer |-> o] \in [waiter : Entries, answer : Outcomes]
        /\ [waiter |-> e, answer |-> o].answer = o
    BY SMT
  <2> QED
    BY <2>1, Zenon
<1>4. answered' = Append(s, r)
  BY <1>1, <1>2, <1>3, Zenon DEF Answered
<1>5. /\ Append(s, r) \in Seq([waiter : Entries, answer : Outcomes])
      /\ Len(s) \in Nat /\ Len(Append(s, r)) = Len(s) + 1
      /\ \A n \in 1..Len(s) : Append(s, r)[n] = s[n]
      /\ Append(s, r)[Len(s) + 1] = r
  OBVIOUS
<1>6. Scheduled' /\ block' \in Nat /\ i' \in Nat
  <2>1. Len(answered') = Len(answered) + 1
    BY <1>1, <1>4, <1>5, Zenon
  <2> QED
    BY <2>1, NextPlace, Zenon DEF BacklogInv
<1>7. TypeOK'
  <2>1. /\ blocks' = blocks /\ phase' = phase /\ result' = result
        /\ task_chain_continued' \in BOOLEAN
    BY Zenon
  <2>2. Packed'
    BY <2>1, Zenon DEF BacklogInv, TypeOK, Packed
  <2> QED
    BY <1>4, <1>5, <1>6, <2>1, <2>2, Zenon DEF BacklogInv, TypeOK
<1>8. phase # "filling" /\ phase' = phase
  BY DEF AtEntry
<1>9. \A n \in 1..(Len(s) + 1) : n \in 1..Len(s) \/ n = Len(s) + 1
  BY <1>5
<1>10. Remembers'
  <2>1. SUFFICES ASSUME ~task_chain_continued', NEW n \in 1..(Len(s) + 1)
                 PROVE  Append(s, r)[n].answer # "next"
    BY <1>4, <1>5, Zenon DEF Remembers
  <2>2. o # "next" /\ ~task_chain_continued
    BY <2>1, Zenon
  <2>3. CASE n \in 1..Len(s)
    BY <1>1, <1>5, <1>8, <2>2, <2>3, Zenon DEF BacklogInv, Remembers
  <2>4. CASE n = Len(s) + 1
    BY <1>3, <1>5, <2>2, <2>4, Zenon
  <2> QED
    BY <1>9, <2>3, <2>4, Zenon
<1>11. OneContinuation'
  <2>1. SUFFICES ASSUME NEW m \in 1..(Len(s) + 1), NEW n \in 1..(Len(s) + 1),
                        Append(s, r)[m].answer = "next", Append(s, r)[n].answer = "next"
                 PROVE  m = n
    BY <1>4, <1>5, Zenon DEF OneContinuation
  <2>2. CASE o = "next"
    <3>1. \A k \in 1..Len(s) : Append(s, r)[k].answer # "next"
      BY <1>1, <1>5, <1>8, <2>2, Zenon DEF BacklogInv, Remembers
    <3> QED
      BY <1>9, <2>1, <3>1, Zenon
  <2>3. CASE o # "next"
    <3>1. m \in 1..Len(s) /\ n \in 1..Len(s)
      BY <1>3, <1>5, <1>9, <2>1, <2>3, Zenon
    <3>2. s[m].answer = "next" /\ s[n].answer = "next"
      BY <1>5, <2>1, <3>1, Zenon
    <3> QED
      BY <1>1, <3>1, <3>2, Zenon DEF BacklogInv, OneContinuation
  <2> QED
    BY <2>2, <2>3
<1>12. Queue!Answer(o)
  <2>1. Waiting' = Waiting
    BY Zenon DEF Waiting, Accepted
  <2>2. Len(s) < Len(Waiting)
    <3>1. PICK a \in Nat : a = Accepted /\ a = Len(Waiting)
      BY AcceptedCount, WaitingSeq, Zenon DEF BacklogInv
    <3>2. Len(s) + 1 \in 1..a
      BY <1>1, <3>1, OldestFirst, Zenon DEF BacklogInv
    <3> QED
      BY <1>5, <3>1, <3>2
  <2>3. (phase \notin {"filling"}) /\ (phase \notin {"filling"})' = (phase \notin {"filling"})
    BY <1>8, Zenon
  <2>4. answered' = Append(answered, [waiter |-> Waiting[Len(answered) + 1], answer |-> o])
    BY <1>1, <1>2, <1>3, <1>4, Zenon
  <2> QED
    BY <1>1, <2>1, <2>2, <2>3, <2>4, Zenon DEF Queue!Answer
<1> QED
  BY <1>6, <1>7, <1>10, <1>11, <1>12, Zenon DEF BacklogInv

-----------------------------------------------------------------------------
(* The references on the result *)

\* The answers that hold a reference.
Holding(s) == {n \in 1..Len(s) : s[n].answer # "failed"}

\* One more answer adds one reference, or none when it is a failure.
LEMMA HoldingAppend ==
  ASSUME NEW s \in Seq([waiter : Entries, answer : Outcomes]),
         NEW r \in [waiter : Entries, answer : Outcomes]
  PROVE  /\ Cardinality(Holding(s)) \in Nat
         /\ Cardinality(Holding(Append(s, r))) =
              IF r.answer = "failed" THEN Cardinality(Holding(s))
                                     ELSE Cardinality(Holding(s)) + 1
<1>1. PICK l \in Nat : l = Len(s)
  OBVIOUS
<1>2. /\ Len(Append(s, r)) = l + 1
      /\ \A n \in 1..l : Append(s, r)[n] = s[n]
      /\ Append(s, r)[l + 1] = r
  BY <1>1
<1>3. IsFiniteSet(1..l)
  BY FS_Interval
<1>4. Holding(s) \in SUBSET (1..l)
  BY <1>1, Zenon DEF Holding
<1>5. IsFiniteSet(Holding(s)) /\ Cardinality(Holding(s)) \in Nat
  BY <1>3, <1>4, FS_Subset, FS_CardinalityType, Zenon
<1>6. l + 1 \notin 1..l /\ l + 1 \in 1..(l + 1)
      /\ \A n : n \in 1..(l + 1) <=> (n \in 1..l \/ n = l + 1)
  OBVIOUS
<1>7. CASE r.answer = "failed"
  <2>1. Holding(Append(s, r)) = Holding(s)
    BY <1>1, <1>2, <1>6, <1>7, Zenon DEF Holding
  <2> QED
    BY <1>5, <1>7, <2>1, Zenon
<1>8. CASE r.answer # "failed"
  <2>1. Holding(Append(s, r)) = Holding(s) \cup {l + 1}
    BY <1>1, <1>2, <1>6, <1>8, Zenon DEF Holding
  <2>2. l + 1 \notin Holding(s)
    BY <1>4, <1>6, Zenon
  <2> QED
    BY <1>5, <1>8, <2>1, <2>2, FS_AddElement, Zenon
<1> QED
  BY <1>7, <1>8

\* An answer counts the reference that it takes.
LEMMA AnswerCounts ==
  ASSUME TypeOK, Scheduled, RefsExact, AtEntry, NEW o \in Outcomes, Answered(o),
         refs' = IF o = "failed" THEN refs ELSE refs + 1
  PROVE  RefsExact'
<1>1. PICK s \in Seq([waiter : Entries, answer : Outcomes]) : s = answered
  BY Zenon DEF TypeOK
<1>2. PICK r \in [waiter : Entries, answer : Outcomes] :
        r = [waiter |-> Entry, answer |-> o] /\ r.answer = o
  <2>1. PICK e \in Entries : e = Entry
    BY OldestFirst, Zenon
  <2>2. /\ [waiter |-> e, answer |-> o] \in [waiter : Entries, answer : Outcomes]
        /\ [waiter |-> e, answer |-> o].answer = o
    BY SMT
  <2> QED
    BY <2>1, <2>2, Zenon
<1>3. answered' = Append(s, r) /\ refs = Cardinality(Holding(s))
  BY <1>1, <1>2, Zenon DEF Answered, RefsExact, Holding
<1>4. refs' = Cardinality(Holding(Append(s, r)))
  BY <1>2, <1>3, HoldingAppend, Zenon
<1> QED
  BY <1>3, <1>4, Zenon DEF RefsExact, Holding

-----------------------------------------------------------------------------
(* The steps *)

\* What a step shows: the invariants are kept, and it is a step of the queue.
Shown == BacklogInv' /\ RefsExact' /\ [Queue!Next]_(Queue!vars)

\* tc_task_backlog_push adds the youngest waiter.
LEMMA PushStep ==
  ASSUME BacklogInv, RefsExact, NEW e \in Entries, tc_task_backlog_push(e)
  PROVE  Shown
<1>1. /\ phase = "filling" /\ blocks' = Extended(e)
      /\ phase' = phase /\ result' = result /\ block' = block /\ i' = i
      /\ task_chain_continued' = task_chain_continued
      /\ answered' = answered /\ refs' = refs
  BY Zenon DEF tc_task_backlog_push
<1>2. blocks' \in Seq(Seq(Entries)) /\ Packed'
  BY <1>1, Linked, Zenon DEF BacklogInv
<1>3. TypeOK'
  BY <1>1, <1>2, Zenon DEF BacklogInv, TypeOK
<1>4. Scheduled' /\ Remembers' /\ OneContinuation' /\ RefsExact'
  BY <1>1, Zenon DEF BacklogInv, Scheduled, Remembers, OneContinuation, RefsExact
<1>5. Queue!Accept(e)
  <2>1. Waiting' = Append(Waiting, e)
    BY <1>1, PushedLast, Zenon DEF BacklogInv
  <2> QED
    BY <1>1, <2>1, Zenon DEF Queue!Accept
<1> QED
  BY <1>3, <1>4, <1>5, Zenon DEF Shown, BacklogInv, Queue!Next

\* The answers begin: the loops are at the first entry, if there is one.
LEMMA BeginStep ==
  ASSUME BacklogInv, RefsExact, NEW r \in BOOLEAN, BeginSchedule(r)
  PROVE  Shown
<1>1. /\ phase = "filling" /\ phase' = "scheduling" /\ phase' # "filling"
      /\ result' = r /\ block' = 1 /\ i' = 0 /\ task_chain_continued' = FALSE
      /\ blocks' = blocks /\ answered' = answered /\ refs' = refs
  BY DEF BeginSchedule
<1>2. answered = << >>
  BY <1>1, Zenon DEF BacklogInv, Scheduled
<1>3. TypeOK'
  <2>1. Packed'
    BY <1>1, Zenon DEF BacklogInv, TypeOK, Packed
  <2>2. block' \in Nat /\ i' \in Nat /\ task_chain_continued' \in BOOLEAN
        /\ phase' \in {"filling", "scheduling", "done", "finalized"}
    BY <1>1
  <2> QED
    BY <1>1, <2>1, <2>2, Zenon DEF BacklogInv, TypeOK
<1>4. Len(answered') = 0 /\ 1..Len(answered') = {}
  BY <1>1, <1>2
<1>5. Scheduled'
  <2>1. PICK L \in Nat : L = Len(blocks)
    BY AcceptedCount DEF BacklogInv
  <2>2. block' \in 1..(Len(blocks') + 1)
    BY <1>1, <2>1
  <2>3. CASE L = 0
    <3>1. ~ (block' <= Len(blocks')) /\ Accepted' = Accepted /\ Accepted = 0
      BY <1>1, <2>1, <2>3, AcceptedCount DEF BacklogInv, Accepted
    <3> QED
      BY <1>1, <1>4, <2>2, <3>1, Zenon DEF Scheduled, AtPlace
  <2>4. CASE L > 0
    <3>1. 1 \in 1..Len(blocks) /\ block' <= Len(blocks')
      BY <1>1, <2>1, <2>4
    <3>2. Len(blocks[1]) \in 1..BlockSize /\ BlockSize \in Nat \ {0}
      BY <3>1, AcceptedCount, Zenon DEF BacklogInv
    <3>3. 0 < Len(blocks[1]) /\ 0 = (1 - 1) * BlockSize + 0
      BY <3>2
    <3>4. i' < Len(blocks'[block']) /\ Len(answered') = (block' - 1) * BlockSize + i'
      BY <1>1, <1>4, <3>3, Zenon
    <3> QED
      BY <1>1, <2>2, <3>1, <3>4, Zenon DEF Scheduled, AtPlace
  <2> QED
    BY <2>3, <2>4
<1>6. Remembers' /\ OneContinuation'
  BY <1>4, Zenon DEF Remembers, OneContinuation
<1>7. RefsExact'
  BY <1>1, Zenon DEF RefsExact
<1>8. Queue!Close
  <2>1. Waiting' = Waiting
    BY <1>1, Zenon DEF Waiting, Accepted
  <2>2. ~(phase \notin {"filling"}) /\ (phase \notin {"filling"})' = TRUE
    BY <1>1, Zenon
  <2> QED
    BY <1>1, <2>1, <2>2, Zenon DEF Queue!Close
<1> QED
  BY <1>3, <1>5, <1>6, <1>7, <1>8, Zenon DEF Shown, BacklogInv, Queue!Next

\* Each branch of the loop's body answers one entry.
LEMMA LoopStep ==
  ASSUME BacklogInv, RefsExact, FailEntry \/ ContinueWith \/ ScheduleNew \/ Refused
  PROVE  Shown
<1>1. SUFFICES ASSUME NEW o \in Outcomes,
                      AtEntry, Answered(o), Advance,
                      UNCHANGED << blocks, phase, result >>,
                      task_chain_continued' \in BOOLEAN,
                      o = "next" => ~task_chain_continued /\ task_chain_continued',
                      o # "next" => (task_chain_continued => task_chain_continued'),
                      refs' = IF o = "failed" THEN refs ELSE refs + 1
               PROVE  Shown
  <2>0. /\ refs \in Int /\ task_chain_continued \in BOOLEAN
        /\ "failed" \in Outcomes /\ "next" \in Outcomes /\ "new" \in Outcomes
    BY DEF BacklogInv, TypeOK, Outcomes
  <2>1. CASE FailEntry
    BY <2>0, <2>1, <1>1, Zenon DEF FailEntry
  <2>2. CASE ContinueWith
    <3>1. "next" # "failed" /\ (task_chain_continued' = TRUE => task_chain_continued')
      BY SMT
    <3> QED
      BY <2>0, <2>2, <3>1, <1>1, Zenon DEF ContinueWith, Continues
  <2>3. CASE ScheduleNew
    <3>1. "new" # "failed" /\ "new" # "next"
      BY SMT
    <3> QED
      BY <2>0, <2>3, <3>1, <1>1, Zenon DEF ScheduleNew
  <2>4. CASE Refused
    <3>1. refs' = refs
      BY <2>0, <2>4 DEF Refused
    <3> QED
      BY <2>0, <2>4, <3>1, <1>1, Zenon DEF Refused
  <2> QED
    BY <2>1, <2>2, <2>3, <2>4, Zenon
<1>2. refs' \in Int
  BY <1>1 DEF BacklogInv, TypeOK
<1>3. BacklogInv' /\ Queue!Answer(o)
  BY <1>1, <1>2, AnswerStep, Zenon
<1>4. RefsExact'
  BY <1>1, AnswerCounts, Zenon DEF BacklogInv
<1> QED
  BY <1>3, <1>4, Zenon DEF Shown, Queue!Next

\* Ending the loops and freeing the blocks leave list and answers alone; a
\* list that is freed without an answer is closed by that.
LEMMA EndStep ==
  ASSUME BacklogInv, RefsExact,
         EndSchedule \/ tc_task_backlog_finalize \/ UNCHANGED vars
  PROVE  Shown
<1>1. /\ blocks' = blocks /\ result' = result /\ block' = block /\ i' = i
      /\ task_chain_continued' = task_chain_continued
      /\ answered' = answered /\ refs' = refs
  BY Zenon DEF EndSchedule, tc_task_backlog_finalize, vars
<1>2. \/ phase' = phase
      \/ phase # "filling" /\ phase' \in {"done", "finalized"}
      \/ phase = "filling" /\ phase' = "finalized"
  BY DEF EndSchedule, tc_task_backlog_finalize, vars
<1>3. phase' \in {"filling", "scheduling", "done", "finalized"}
  BY <1>2 DEF BacklogInv, TypeOK
<1>4. TypeOK'
  <2>1. Packed'
    BY <1>1, Zenon DEF BacklogInv, TypeOK, Packed
  <2> QED
    BY <1>1, <1>3, <2>1, Zenon DEF BacklogInv, TypeOK
<1>5. OneContinuation' /\ RefsExact' /\ Waiting' = Waiting
  BY <1>1, Zenon DEF BacklogInv, OneContinuation, RefsExact, Waiting, Accepted
<1>6. CASE phase' = phase
  <2>1. Scheduled' /\ Remembers'
    BY <1>1, <1>6, Zenon DEF BacklogInv, Scheduled, AtPlace, Accepted, Remembers
  <2>2. UNCHANGED Queue!vars
    BY <1>1, <1>5, <1>6, Zenon DEF Queue!vars
  <2> QED
    BY <1>4, <1>5, <2>1, <2>2, Zenon DEF Shown, BacklogInv
<1>7. CASE phase # "filling" /\ phase' \in {"done", "finalized"}
  <2>1. phase' # "filling" /\ phase' # "scheduling"
    BY <1>7
  <2>2. Scheduled' /\ Remembers'
    BY <1>1, <1>7, <2>1, Zenon DEF BacklogInv, Scheduled, Remembers
  <2>3. (phase \notin {"filling"})' = (phase \notin {"filling"})
    BY <1>7, <2>1, Zenon
  <2>4. UNCHANGED Queue!vars
    BY <1>1, <1>5, <2>3, Zenon DEF Queue!vars
  <2> QED
    BY <1>4, <1>5, <2>2, <2>4, Zenon DEF Shown, BacklogInv
<1>8. CASE phase = "filling" /\ phase' = "finalized"
  <2>1. phase' # "filling" /\ phase' # "scheduling"
    BY <1>8
  <2>2. answered' = << >>
    BY <1>1, <1>8, Zenon DEF BacklogInv, Scheduled
  <2>3. 1..Len(answered') = {}
    BY <2>2
  <2>4. Scheduled' /\ Remembers'
    BY <2>1, <2>3, Zenon DEF Scheduled, Remembers
  <2>5. ~(phase \notin {"filling"}) /\ (phase \notin {"filling"})' = TRUE
    BY <1>8, <2>1, Zenon
  <2>6. Queue!Close
    BY <1>1, <1>5, <2>5, Zenon DEF Queue!Close
  <2> QED
    BY <1>4, <1>5, <2>4, <2>6, Zenon DEF Shown, BacklogInv, Queue!Next
<1> QED
  BY <1>2, <1>6, <1>7, <1>8, Zenon

\* Initially the backlog is empty.
LEMMA BacklogInit ==
  ASSUME Init
  PROVE  BacklogInv /\ RefsExact /\ Queue!Init
<1>1. 1..0 = {} /\ Len(<< >>) = 0
  OBVIOUS
<1>2. TypeOK
  <2>1. /\ blocks = << >> /\ phase = "filling" /\ result = FALSE /\ block = 0 /\ i = 0
        /\ task_chain_continued = FALSE /\ answered = << >> /\ refs = 0
    BY Zenon DEF Init
  <2>2. /\ blocks \in Seq(Seq(Entries)) /\ block \in Nat /\ i \in Nat /\ refs \in Int
        /\ answered \in Seq([waiter : Entries, answer : Outcomes])
        /\ phase \in {"filling", "scheduling", "done", "finalized"}
    BY <2>1
  <2>3. result \in BOOLEAN /\ task_chain_continued \in BOOLEAN
    BY <2>1
  <2>4. Packed
    BY <1>1, <2>1, Zenon DEF Packed
  <2> QED
    BY <2>2, <2>3, <2>4, Zenon DEF TypeOK
<1>3. phase = "filling" /\ answered = << >> /\ refs = 0 /\ blocks = << >>
      /\ phase # "scheduling"
  BY DEF Init
<1>4. Scheduled /\ Remembers /\ OneContinuation
  BY <1>1, <1>3, Zenon DEF Scheduled, Remembers, OneContinuation
<1>5. {n \in 1..Len(answered) : answered[n].answer # "failed"} = {}
  BY <1>1, <1>3, Zenon
<1>6. RefsExact
  BY <1>3, <1>5, FS_EmptySet, Zenon DEF RefsExact
<1>7. Accepted = 0
  BY <1>3, Zenon DEF Accepted
<1>8. Waiting = << >>
  BY <1>1, <1>2, <1>7, WaitingSeq
<1>9. Queue!Init
  BY <1>3, <1>8, Zenon DEF Queue!Init
<1> QED
  BY <1>2, <1>4, <1>6, <1>9, Zenon DEF BacklogInv

\* Every step.
LEMMA BacklogStep ==
  ASSUME BacklogInv, RefsExact, [Next]_vars
  PROVE  BacklogInv' /\ RefsExact' /\ [Queue!Next]_(Queue!vars)
BY PushStep, BeginStep, LoopStep, EndStep, Zenon DEF Shown, Next, PushRefused

-----------------------------------------------------------------------------
(* The theorems *)

\* The inductive invariant and the count of the references hold throughout.
THEOREM BacklogInvariant == Spec => [](BacklogInv /\ RefsExact)
<1>1. Init => BacklogInv /\ RefsExact
  BY BacklogInit
<1>2. (BacklogInv /\ RefsExact) /\ [Next]_vars => (BacklogInv /\ RefsExact)'
  BY BacklogStep
<1> QED
  BY <1>1, <1>2, PTL DEF Spec

\* The variables of a backlog keep their types, and of its blocks only the
\* last is ever less than full.
THEOREM BacklogTypes == Spec => []TypeOK
<1>1. BacklogInv => TypeOK
  BY DEF BacklogInv
<1> QED
  BY <1>1, BacklogInvariant, PTL

\* One pass of tc_task_schedule_backlog schedules at most one continuation of
\* the task that runs it.
THEOREM OneContinuationOnly == Spec => []OneContinuation
<1>1. BacklogInv => OneContinuation
  BY DEF BacklogInv
<1> QED
  BY <1>1, BacklogInvariant, PTL

\* The references on the result are those of the tasks scheduled with it: the
\* release after a refusal undoes the aquire before it.
THEOREM ReferencesAreExact == Spec => []RefsExact
BY BacklogInvariant, PTL

\* For blocks of every size, the list of blocks implements the queue of
\* waiters: each is accepted once and answered once, oldest first.
THEOREM BacklogIsAQueue == Spec => Implements
<1>1. Init => Queue!Init
  BY BacklogInit
<1>2. (BacklogInv /\ RefsExact) /\ [Next]_vars => [Queue!Next]_(Queue!vars)
  BY BacklogStep
<1> QED
  BY <1>1, <1>2, BacklogInvariant, PTL DEF Spec, Implements, Queue!Spec

-----------------------------------------------------------------------------
(***************************************************************************)
(* TaskBuffer, for every capacity, every reserve and every set of tasks    *)
(***************************************************************************)

CONSTANTS Values, NULL, Capacity, Reserved

VARIABLES head_index, tail_index, buffer, accepted, taken

Buffer == INSTANCE TaskBuffer

-----------------------------------------------------------------------------
(* Index arithmetic without the modulus *)

\* A number below twice the capacity is reduced by at most one turn.
LEMMA ModOnce ==
  ASSUME Buffer!BufferConstants, NEW a \in Nat, a < 2 * Capacity
  PROVE  a % Capacity = IF a < Capacity THEN a ELSE a - Capacity
<1> DEFINE c == Capacity
<1>c. c \in Nat \ {0}
  BY DEF Buffer!BufferConstants
<1> HIDE DEF c
<1>1. CASE a < c
  <2>1. a % c = a
    BY <1>c, <1>1
  <2> QED
    BY <2>1, <1>1 DEF c
<1>2. CASE c <= a /\ a < 2 * c
  <2>1. a % c = a - c
    BY <1>c, <1>2
  <2> QED
    BY <1>c, <2>1, <1>2 DEF c
<1> QED
  BY <1>c, <1>1, <1>2 DEF c

\* Moving an index to the next slot.
LEMMA NextSlot ==
  ASSUME Buffer!BufferConstants, NEW a \in Buffer!Slots
  PROVE  /\ (a + 1) % Capacity = IF a = Capacity - 1 THEN 0 ELSE a + 1
         /\ (a + 1) % Capacity \in Buffer!Slots
<1>c. Capacity \in Nat \ {0}
  BY DEF Buffer!BufferConstants
<1> DEFINE b == a + 1
<1>1. b \in Nat /\ b < 2 * Capacity
  BY <1>c DEF Buffer!Slots
<1>2. b % Capacity = IF b < Capacity THEN b ELSE b - Capacity
  <2> HIDE DEF b
  <2> QED
    BY <1>1, ModOnce
<1> QED
  BY <1>c, <1>2 DEF Buffer!Slots

\* The slot of the k-th task.
SlotOf(t, k) == IF t + k - 1 < Capacity THEN t + k - 1 ELSE t + k - 1 - Capacity

\* SlotOf is the slot that Contents reads.
LEMMA SlotOfValue ==
  ASSUME Buffer!BufferConstants, NEW t \in Buffer!Slots, NEW k \in 1..(Capacity - 1)
  PROVE  (t + k - 1) % Capacity = SlotOf(t, k) /\ SlotOf(t, k) \in Buffer!Slots
<1>c. Capacity \in Nat \ {0}
  BY DEF Buffer!BufferConstants
<1> DEFINE b == t + k - 1
<1>1. b \in Nat /\ b < 2 * Capacity
  BY <1>c DEF Buffer!Slots
<1>2. b % Capacity = IF b < Capacity THEN b ELSE b - Capacity
  <2> HIDE DEF b
  <2> QED
    BY <1>1, ModOnce
<1> QED
  BY <1>c, <1>2 DEF SlotOf, Buffer!Slots

\* How many slots are used between two indices.
UsedOf(h, t) == IF t <= h THEN h - t ELSE h + Capacity - t

\* UsedOf is the count the code computes.
LEMMA UsedValue ==
  ASSUME Buffer!BufferConstants, NEW h \in Buffer!Slots, NEW t \in Buffer!Slots
  PROVE  /\ (h + Capacity - t) % Capacity = UsedOf(h, t)
         /\ UsedOf(h, t) \in 0..(Capacity - 1)
<1>c. Capacity \in Nat \ {0}
  BY DEF Buffer!BufferConstants
<1> DEFINE b == h + Capacity - t
<1>1. b \in Nat /\ b < 2 * Capacity
  BY <1>c DEF Buffer!Slots
<1>2. b % Capacity = IF b < Capacity THEN b ELSE b - Capacity
  <2> HIDE DEF b
  <2> QED
    BY <1>1, ModOnce
<1> QED
  BY <1>c, <1>2 DEF UsedOf, Buffer!Slots

-----------------------------------------------------------------------------
(* Type correctness *)

\* Init and every step keep the indices in the array.
LEMMA TypeStep ==
  ASSUME Buffer!BufferConstants
  PROVE  (Buffer!Init => Buffer!TypeOK) /\ (Buffer!TypeOK /\ [Buffer!Next]_Buffer!vars => Buffer!TypeOK')
<1>c. Capacity \in Nat \ {0}
  BY DEF Buffer!BufferConstants
<1>1. Buffer!Init => Buffer!TypeOK
  <2> SUFFICES ASSUME Buffer!Init
               PROVE  Buffer!TypeOK
    OBVIOUS
  <2>1. head_index \in Buffer!Slots /\ tail_index \in Buffer!Slots
    BY <1>c DEF Buffer!Init, Buffer!Slots
  <2>2. accepted \in BOOLEAN
    BY DEF Buffer!Init
  <2> QED
    BY <2>1, <2>2 DEF Buffer!Init, Buffer!TypeOK
<1>2. ASSUME Buffer!TypeOK, NEW v \in Values, NEW is_yield \in BOOLEAN,
             Buffer!task_buffer_enqueue(v, is_yield)
      PROVE  Buffer!TypeOK'
  <2>1. accepted' \in BOOLEAN
    BY <1>2 DEF Buffer!task_buffer_enqueue
  <2>2. head_index' \in Buffer!Slots /\ buffer' \in [Buffer!Slots -> Values \cup {NULL}]
    BY <1>2, NextSlot DEF Buffer!task_buffer_enqueue, Buffer!TypeOK
  <2> QED
    BY <1>2, <2>1, <2>2 DEF Buffer!task_buffer_enqueue, Buffer!TypeOK
<1>3. ASSUME Buffer!TypeOK, Buffer!task_buffer_dequeue
      PROVE  Buffer!TypeOK'
  <2>1. tail_index' \in Buffer!Slots /\ taken' \in Values \cup {NULL}
    BY <1>3, NextSlot DEF Buffer!task_buffer_dequeue, Buffer!TypeOK
  <2> QED
    BY <1>3, <2>1 DEF Buffer!task_buffer_dequeue, Buffer!TypeOK
<1>4. ASSUME Buffer!TypeOK, UNCHANGED Buffer!vars
      PROVE  Buffer!TypeOK'
  BY <1>4 DEF Buffer!TypeOK, Buffer!vars
<1> QED
  BY <1>1, <1>2, <1>3, <1>4 DEF Buffer!Next

\* No sequence of enqueues and dequeues takes an index out of the array.
THEOREM BufferTypes ==
  ASSUME Buffer!BufferConstants
  PROVE  Buffer!Spec => []Buffer!TypeOK
  BY TypeStep, PTL DEF Buffer!Spec

-----------------------------------------------------------------------------
(* The queue that the array holds *)

\* Contents is the sequence of the used slots.
LEMMA ContentsShape ==
  ASSUME Buffer!BufferConstants, Buffer!TypeOK
  PROVE  /\ Buffer!Used = UsedOf(head_index, tail_index)
         /\ Buffer!Used \in 0..(Capacity - 1)
         /\ Buffer!Contents \in Seq(Values \cup {NULL})
         /\ Len(Buffer!Contents) = Buffer!Used
         /\ \A k \in 1..Buffer!Used : Buffer!Contents[k] = buffer[SlotOf(tail_index, k)]
<1>c. Capacity \in Nat \ {0}
  BY DEF Buffer!BufferConstants
<1>1. Buffer!Used = UsedOf(head_index, tail_index) /\ Buffer!Used \in 0..(Capacity - 1)
  BY UsedValue DEF Buffer!TypeOK, Buffer!Used
<1> HIDE DEF Buffer!Used
<1>2. \A k \in 1..Buffer!Used : /\ (tail_index + k - 1) % Capacity = SlotOf(tail_index, k)
                         /\ SlotOf(tail_index, k) \in Buffer!Slots
  BY <1>c, <1>1, SlotOfValue DEF Buffer!TypeOK
<1>3. \A k \in 1..Buffer!Used : Buffer!Contents[k] = buffer[SlotOf(tail_index, k)]
  BY <1>2 DEF Buffer!Contents
<1>4. Buffer!Contents \in [1..Buffer!Used -> Values \cup {NULL}]
  BY <1>2 DEF Buffer!Contents, Buffer!TypeOK
<1>5. Buffer!Contents \in Seq(Values \cup {NULL}) /\ Len(Buffer!Contents) = Buffer!Used
  BY <1>1, <1>4
<1> QED
  BY <1>1, <1>3, <1>5

\* The code refuses exactly when the queue does.
LEMMA RefusedMeans ==
  ASSUME Buffer!BufferConstants, Buffer!TypeOK, NEW is_yield \in BOOLEAN
  PROVE  Buffer!Refused(is_yield) <=> ~Buffer!Queue!Accepts(is_yield)
<1>c. Capacity \in Nat \ {0} /\ Reserved \in Nat
  BY DEF Buffer!BufferConstants
<1>h. head_index \in Buffer!Slots /\ tail_index \in Buffer!Slots
  BY DEF Buffer!TypeOK
<1> DEFINE u == Buffer!Used
           next == (head_index + 1) % Capacity
<1>1. u = UsedOf(head_index, tail_index) /\ u \in 0..(Capacity - 1)
      /\ Len(Buffer!Contents) = u
  BY ContentsShape
<1>2. next = IF head_index = Capacity - 1 THEN 0 ELSE head_index + 1
  BY <1>h, NextSlot
<1>5. Buffer!task_buffer_remaining_capacity = (Capacity - 1) - u
  BY DEF Buffer!task_buffer_remaining_capacity
<1> HIDE DEF u, next
<1>3. next = tail_index <=> u = Capacity - 1
  BY <1>c, <1>h, <1>1, <1>2 DEF UsedOf, Buffer!Slots
<1>4. (Capacity - 1) - u <= Reserved <=> ~(u < (Capacity - 1) - Reserved)
  BY <1>c, <1>1
<1>6. u = Capacity - 1 <=> ~(u < Capacity - 1)
  BY <1>c, <1>1
<1>7. Buffer!Refused(is_yield) <=>
        (~is_yield /\ ~(u < (Capacity - 1) - Reserved)) \/ ~(u < Capacity - 1)
  BY <1>3, <1>4, <1>5, <1>6 DEF Buffer!Refused, next
<1>8. Buffer!Queue!Accepts(is_yield) <=>
        u < Capacity - 1 /\ (is_yield \/ u < (Capacity - 1) - Reserved)
  BY <1>1 DEF Buffer!Queue!Accepts
<1> QED
  BY <1>7, <1>8

\* An accepted enqueue appends to the contents.
LEMMA EnqueueAppends ==
  ASSUME Buffer!BufferConstants, Buffer!TypeOK, Buffer!TypeOK', NEW v \in Values, NEW is_yield \in BOOLEAN,
         Buffer!task_buffer_enqueue(v, is_yield), ~Buffer!Refused(is_yield)
  PROVE  Buffer!Contents' = Append(Buffer!Contents, v)
<1>c. Capacity \in Nat \ {0}
  BY DEF Buffer!BufferConstants
<1>t. /\ head_index \in Buffer!Slots /\ tail_index \in Buffer!Slots /\ head_index' \in Buffer!Slots
      /\ tail_index' = tail_index /\ buffer \in [Buffer!Slots -> Values \cup {NULL}]
  BY DEF Buffer!TypeOK, Buffer!task_buffer_enqueue
<1>h. /\ head_index' = (head_index + 1) % Capacity
      /\ head_index' # tail_index
      /\ buffer' = [buffer EXCEPT ![head_index] = v]
  BY DEF Buffer!task_buffer_enqueue, Buffer!Refused
<1>n. head_index' = IF head_index = Capacity - 1 THEN 0 ELSE head_index + 1
  BY <1>h, <1>t, NextSlot
<1>1. /\ Buffer!Used = UsedOf(head_index, tail_index) /\ Buffer!Used \in 0..(Capacity - 1)
      /\ Buffer!Contents \in Seq(Values \cup {NULL}) /\ Len(Buffer!Contents) = Buffer!Used
      /\ \A k \in 1..Buffer!Used : Buffer!Contents[k] = buffer[SlotOf(tail_index, k)]
  BY ContentsShape
<1>2. /\ Buffer!Used' = UsedOf(head_index', tail_index) /\ Buffer!Used' \in 0..(Capacity - 1)
      /\ Buffer!Contents' \in Seq(Values \cup {NULL}) /\ Len(Buffer!Contents') = Buffer!Used'
      /\ \A k \in 1..Buffer!Used' : Buffer!Contents'[k] = buffer'[SlotOf(tail_index, k)]
  <2>1. (/\ Buffer!Used = UsedOf(head_index, tail_index) /\ Buffer!Used \in 0..(Capacity - 1)
         /\ Buffer!Contents \in Seq(Values \cup {NULL}) /\ Len(Buffer!Contents) = Buffer!Used
         /\ \A k \in 1..Buffer!Used : Buffer!Contents[k] = buffer[SlotOf(tail_index, k)])'
    BY ContentsShape, PTL
  <2> QED
    BY <2>1, <1>t
<1>3. Buffer!Used' = Buffer!Used + 1
  BY <1>c, <1>t, <1>h, <1>n, <1>1, <1>2 DEF UsedOf, Buffer!Slots
<1>4. SlotOf(tail_index, Buffer!Used + 1) = head_index
  BY <1>c, <1>t, <1>1, <1>2, <1>3 DEF UsedOf, SlotOf, Buffer!Slots
<1>5. \A k \in 1..Buffer!Used : SlotOf(tail_index, k) # head_index
  BY <1>c, <1>t, <1>1, <1>2, <1>3 DEF UsedOf, SlotOf, Buffer!Slots
<1>6. \A k \in 1..Buffer!Used : SlotOf(tail_index, k) \in Buffer!Slots
  BY <1>c, <1>t, <1>1, SlotOfValue
<1>7. \A k \in 1..Buffer!Used : Buffer!Contents'[k] = Buffer!Contents[k]
  BY <1>1, <1>2, <1>3, <1>h, <1>t, <1>5, <1>6
<1>8. Buffer!Contents'[Buffer!Used + 1] = v
  BY <1>1, <1>2, <1>3, <1>4, <1>h, <1>t
<1>9. /\ Append(Buffer!Contents, v) \in Seq(Values \cup {NULL})
      /\ Len(Append(Buffer!Contents, v)) = Buffer!Used + 1
      /\ \A k \in 1..Buffer!Used : Append(Buffer!Contents, v)[k] = Buffer!Contents[k]
      /\ Append(Buffer!Contents, v)[Buffer!Used + 1] = v
  BY <1>1
<1> HIDE DEF Buffer!Used, Buffer!Contents
<1>10. \A k \in 1..(Buffer!Used + 1) : Buffer!Contents'[k] = Append(Buffer!Contents, v)[k]
  BY <1>1, <1>7, <1>8, <1>9
<1> QED
  BY <1>2, <1>3, <1>9, <1>10, SeqEqual

\* A dequeue from a non-empty buffer returns the oldest task and drops it.
LEMMA DequeueTakesOldest ==
  ASSUME Buffer!BufferConstants, Buffer!TypeOK, Buffer!TypeOK', Buffer!task_buffer_dequeue, ~Buffer!task_buffer_is_empty
  PROVE  /\ Buffer!Contents # << >>
         /\ taken' = Head(Buffer!Contents)
         /\ Buffer!Contents' = Tail(Buffer!Contents)
<1>c. Capacity \in Nat \ {0}
  BY DEF Buffer!BufferConstants
<1>t. /\ head_index \in Buffer!Slots /\ tail_index \in Buffer!Slots /\ tail_index' \in Buffer!Slots
      /\ head_index' = head_index /\ buffer' = buffer
      /\ head_index # tail_index
      /\ taken' = buffer[tail_index]
      /\ tail_index' = (tail_index + 1) % Capacity
  BY DEF Buffer!TypeOK, Buffer!task_buffer_dequeue, Buffer!task_buffer_is_empty
<1>n. tail_index' = IF tail_index = Capacity - 1 THEN 0 ELSE tail_index + 1
  BY <1>t, NextSlot
<1>1. /\ Buffer!Used = UsedOf(head_index, tail_index) /\ Buffer!Used \in 0..(Capacity - 1)
      /\ Buffer!Contents \in Seq(Values \cup {NULL}) /\ Len(Buffer!Contents) = Buffer!Used
      /\ \A k \in 1..Buffer!Used : Buffer!Contents[k] = buffer[SlotOf(tail_index, k)]
  BY ContentsShape
<1>2. /\ Buffer!Used' = UsedOf(head_index, tail_index') /\ Buffer!Used' \in 0..(Capacity - 1)
      /\ Buffer!Contents' \in Seq(Values \cup {NULL}) /\ Len(Buffer!Contents') = Buffer!Used'
      /\ \A k \in 1..Buffer!Used' : Buffer!Contents'[k] = buffer[SlotOf(tail_index', k)]
  <2>1. (/\ Buffer!Used = UsedOf(head_index, tail_index) /\ Buffer!Used \in 0..(Capacity - 1)
         /\ Buffer!Contents \in Seq(Values \cup {NULL}) /\ Len(Buffer!Contents) = Buffer!Used
         /\ \A k \in 1..Buffer!Used : Buffer!Contents[k] = buffer[SlotOf(tail_index, k)])'
    BY ContentsShape, PTL
  <2> QED
    BY <2>1, <1>t
<1>3. Buffer!Used' = Buffer!Used - 1 /\ Buffer!Used > 0
  BY <1>c, <1>t, <1>n, <1>1, <1>2 DEF UsedOf, Buffer!Slots
<1>4. SlotOf(tail_index, 1) = tail_index
  BY <1>c, <1>t DEF SlotOf, Buffer!Slots
<1>5. \A k \in 1..(Buffer!Used - 1) : SlotOf(tail_index', k) = SlotOf(tail_index, k + 1)
  <2>1. tail_index \in Buffer!Slots /\ Buffer!Used \in 0..(Capacity - 1)
    BY <1>t, <1>1
  <2> HIDE DEF Buffer!Used
  <2> QED
    BY <1>c, <1>n, <2>1 DEF SlotOf, Buffer!Slots
<1>6. Buffer!Contents # << >> /\ Head(Buffer!Contents) = Buffer!Contents[1]
  BY <1>1, <1>3
<1>7. Buffer!Contents[1] = buffer[tail_index]
  BY <1>1, <1>3, <1>4
<1>8. /\ Tail(Buffer!Contents) \in Seq(Values \cup {NULL})
      /\ Len(Tail(Buffer!Contents)) = Buffer!Used - 1
      /\ \A k \in 1..(Buffer!Used - 1) : Tail(Buffer!Contents)[k] = Buffer!Contents[k + 1]
  BY <1>1, <1>3
<1> HIDE DEF Buffer!Used, Buffer!Contents
<1>9. \A k \in 1..(Buffer!Used - 1) : Buffer!Contents'[k] = Tail(Buffer!Contents)[k]
  BY <1>1, <1>2, <1>3, <1>5, <1>8
<1>10. Buffer!Contents' = Tail(Buffer!Contents)
  BY <1>2, <1>3, <1>8, <1>9, SeqEqual
<1> QED
  BY <1>t, <1>6, <1>7, <1>10

\* An empty buffer holds the empty sequence.
LEMMA EmptyContents ==
  ASSUME Buffer!BufferConstants, Buffer!TypeOK, Buffer!task_buffer_is_empty
  PROVE  Buffer!Contents = << >>
<1>1. Buffer!Used = UsedOf(head_index, tail_index) /\ Buffer!Contents \in Seq(Values \cup {NULL})
      /\ Len(Buffer!Contents) = Buffer!Used
  BY ContentsShape
<1>2. Buffer!Used = 0
  BY <1>1 DEF UsedOf, Buffer!task_buffer_is_empty, Buffer!TypeOK, Buffer!Slots
<1> QED
  BY <1>1, <1>2

-----------------------------------------------------------------------------
(* The refinement *)

\* The initial array maps to the empty queue.
LEMMA InitRefines ==
  ASSUME Buffer!BufferConstants
  PROVE  Buffer!Init => Buffer!Queue!Init
<1> SUFFICES ASSUME Buffer!Init
             PROVE  Buffer!Queue!Init
  OBVIOUS
<1>1. Buffer!TypeOK
  BY TypeStep
<1>2. Buffer!Contents = << >>
  BY <1>1, EmptyContents DEF Buffer!Init, Buffer!task_buffer_is_empty
<1> QED
  BY <1>2 DEF Buffer!Init, Buffer!Queue!Init

\* Every step of the array is a step of the queue.
LEMMA StepRefines ==
  ASSUME Buffer!BufferConstants
  PROVE  Buffer!TypeOK /\ Buffer!TypeOK' /\ [Buffer!Next]_Buffer!vars => [Buffer!Queue!Next]_(Buffer!Queue!vars)
<1> SUFFICES ASSUME Buffer!TypeOK, Buffer!TypeOK', [Buffer!Next]_Buffer!vars
             PROVE  [Buffer!Queue!Next]_(Buffer!Queue!vars)
  OBVIOUS
<1>1. ASSUME NEW v \in Values, NEW is_yield \in BOOLEAN,
             Buffer!task_buffer_enqueue(v, is_yield)
      PROVE  Buffer!Queue!Enqueue(v, is_yield)
  <2>1. accepted' = ~Buffer!Refused(is_yield) /\ taken' = taken
    BY <1>1 DEF Buffer!task_buffer_enqueue
  <2>2. Buffer!Refused(is_yield) <=> ~Buffer!Queue!Accepts(is_yield)
    BY RefusedMeans
  <2>3. Buffer!Refused(is_yield) => Buffer!Contents' = Buffer!Contents
    BY <1>1 DEF Buffer!task_buffer_enqueue, Buffer!Contents, Buffer!Used
  <2>4. ~Buffer!Refused(is_yield) => Buffer!Contents' = Append(Buffer!Contents, v)
    BY <1>1, EnqueueAppends
  <2>5. accepted' = Buffer!Queue!Accepts(is_yield)
    BY <2>1, <2>2 DEF Buffer!Refused, Buffer!Queue!Accepts
  <2>6. Buffer!Contents' = IF Buffer!Queue!Accepts(is_yield) THEN Append(Buffer!Contents, v) ELSE Buffer!Contents
    BY <2>2, <2>3, <2>4
  <2> QED
    BY <2>1, <2>5, <2>6 DEF Buffer!Queue!Enqueue
<1>2. ASSUME Buffer!task_buffer_dequeue
      PROVE  Buffer!Queue!Dequeue
  <2>1. CASE Buffer!task_buffer_is_empty
    <3>1. Buffer!Contents = << >>
      BY <2>1, EmptyContents
    <3>2. Buffer!Contents' = Buffer!Contents /\ taken' = NULL /\ accepted' = accepted
      BY <1>2, <2>1 DEF Buffer!task_buffer_dequeue, Buffer!Contents, Buffer!Used
    <3> QED
      BY <3>1, <3>2 DEF Buffer!Queue!Dequeue
  <2>2. CASE ~Buffer!task_buffer_is_empty
    <3>1. /\ Buffer!Contents # << >> /\ taken' = Head(Buffer!Contents)
          /\ Buffer!Contents' = Tail(Buffer!Contents)
      BY <1>2, <2>2, DequeueTakesOldest
    <3>2. accepted' = accepted
      BY <1>2 DEF Buffer!task_buffer_dequeue
    <3> QED
      BY <3>1, <3>2 DEF Buffer!Queue!Dequeue
  <2> QED
    BY <2>1, <2>2
<1>3. ASSUME UNCHANGED Buffer!vars
      PROVE  UNCHANGED Buffer!Queue!vars
  BY <1>3 DEF Buffer!vars, Buffer!Queue!vars, Buffer!Contents, Buffer!Used
<1> QED
  BY <1>1, <1>2, <1>3 DEF Buffer!Next, Buffer!Queue!Next

\* The circular array of a task buffer implements the bounded queue.
THEOREM BufferImplementsQueue ==
  ASSUME Buffer!BufferConstants
  PROVE  Buffer!Spec => Buffer!Implements
<1>1. Buffer!Spec => []Buffer!TypeOK
  BY BufferTypes
<1>2. []Buffer!TypeOK /\ [][Buffer!Next]_Buffer!vars => [][Buffer!Queue!Next]_(Buffer!Queue!vars)
  BY StepRefines, PTL
<1> QED
  BY <1>1, <1>2, InitRefines, PTL DEF Buffer!Spec, Buffer!Implements, Buffer!Queue!Spec
=============================================================================
