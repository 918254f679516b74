------------------------------ MODULE BitVector ------------------------------
(***************************************************************************)
(* The bit vector with rank and select tables of primd-dwm bitvec.rs.  Its *)
(* packed words are the set of the positions that are set; the two block   *)
(* sizes, 64 and 512 in the code, are parameters.  Positions count from 0, *)
(* the j of select from 1; an Option is a set with at most one member.     *)
(***************************************************************************)
EXTENDS Integers, FiniteSets

CONSTANTS
  SubblockBits,      \* SUBBLOCK_BITS: bits of a word
  SubblocksPerBlock  \* SUBBLOCKS_PER_BLOCK

ASSUME BlockSizes ==
  /\ SubblockBits \in Nat \ {0}
  /\ SubblocksPerBlock \in Nat \ {0}

BlockBits     == SubblockBits * SubblocksPerBlock
DivCeil(n, d) == (n + d - 1) \div d
Lower(a, b)   == IF a <= b THEN a ELSE b
Least(S)      == CHOOSE n \in S : \A m \in S : n <= m

\* Popcount of the positions from..upto-1.
Pop(words, from, upto) == Cardinality({i \in words : from <= i /\ i < upto})

\* The bits of word w that lie below the logical length.
PopWord(words, len, w) == Pop(words, w * SubblockBits, Lower((w + 1) * SubblockBits, len))

-----------------------------------------------------------------------------
(* build_index: per word the ones before it in its block, per block the    *)
(* ones before it; one block entry more holds the total.                   *)

\* Mutant: the count starts over at the second word of a block.
SubblockRanksLate(words, len) ==
  LET ranks[w \in 0..(DivCeil(len, SubblockBits) - 1)] ==
        IF w % SubblocksPerBlock <= 1
        THEN 0
        ELSE ranks[w - 1] + PopWord(words, len, w - 1)
  IN  ranks

SubblockRanks(words, len) ==
  LET ranks[w \in 0..(DivCeil(len, SubblockBits) - 1)] ==
        IF w % SubblocksPerBlock = 0
        THEN 0
        ELSE ranks[w - 1] + PopWord(words, len, w - 1)
  IN  ranks

BlockRanks(words, len) ==
  LET ranks[b \in 0..DivCeil(len, BlockBits)] ==
        IF b = 0
        THEN 0
        ELSE ranks[b - 1] + Pop(words, (b - 1) * BlockBits, Lower(b * BlockBits, len))
  IN  ranks

New(words, len) ==
  [words         |-> words,
   len           |-> len,
   blockRanks    |-> BlockRanks(words, len),
   subblockRanks |-> SubblockRanks(words, len)]

Get(v, i) == i < v.len /\ i \in v.words

Ones(v)  == v.blockRanks[DivCeil(v.len, BlockBits)]
Zeros(v) == v.len - Ones(v)

-----------------------------------------------------------------------------
(* rank *)

Rank1(v, i) ==
  LET pos  == Lower(i, v.len)
      word == pos \div SubblockBits
  IN  IF v.len = 0
      THEN 0
      ELSE v.blockRanks[pos \div BlockBits]
           + (IF word \in DOMAIN v.subblockRanks
              THEN v.subblockRanks[word] + Pop(v.words, word * SubblockBits, pos)
              ELSE 0)

Rank0(v, i) == Lower(i, v.len) - Rank1(v, i)

-----------------------------------------------------------------------------
(* select: the block by the block ranks, then word by word within it.      *)

\* The j-th member of a set of positions, from 1.
SelectBit(bits, j) == {p \in bits : Cardinality({b \in bits : b <= p}) = j}

\* remaining - popcount, word by word, until one holds the bit looked for.
InBlock(bits, block, j) ==
  LET through(w) == Pop(bits, block * BlockBits, (w + 1) * SubblockBits)
      inBlock == (block * SubblocksPerBlock)..((block + 1) * SubblocksPerBlock - 1)
      enough  == {w \in inBlock : through(w) >= j}
      word    == Least(enough)
      inWord  == {b \in bits : b \div SubblockBits = word}
  IN  IF enough = {} THEN {}
      ELSE SelectBit(inWord, j - Pop(bits, block * BlockBits, word * SubblockBits))

Select1(v, j) ==
  LET last  == DivCeil(v.len, BlockBits)
      block == Least({b \in 0..last : b = last \/ v.blockRanks[b + 1] >= j})
  IN  IF j = 0 \/ j > Ones(v) THEN {}
      ELSE InBlock(v.words, block, j - v.blockRanks[block])

\* Positions past the length are no zeros.
Select0(v, j) ==
  LET last == DivCeil(v.len, BlockBits)
      zerosBefore(b) == Lower(b * BlockBits, v.len) - v.blockRanks[b]
      block == Least({b \in 0..last : b = last \/ zerosBefore(b + 1) >= j})
  IN  IF j = 0 \/ j > Zeros(v) THEN {}
      ELSE InBlock((0..(v.len - 1)) \ v.words, block, j - zerosBefore(block))

-----------------------------------------------------------------------------
(* What the tables are for. *)

\* Below the length rank counts, and the total is the count of all.  At the
\* length itself it need not: see the README on rank_1.
RanksCount(v) ==
  /\ \A i \in 0..v.len : i < v.len => Rank1(v, i) = Pop(v.words, 0, i)
  /\ Ones(v) = Pop(v.words, 0, v.len)

\* select_1 and select_0 are the inverses of the counts.
SelectsInvert(v) ==
  LET ones  == {i \in v.words : i < v.len}
      zeros == {i \in 0..v.len : i < v.len} \ v.words
  IN  \A j \in 0..(v.len + 1) :
        /\ Select1(v, j) = SelectBit(ones, j)
        /\ Select0(v, j) = SelectBit(zeros, j)

=============================================================================
