---------------------------- MODULE DrillsProofs ----------------------------
(***************************************************************************)
(* The drills, for any programs, any number of them side by side on one    *)
(* node and any calls that err.                                            *)
(*                                                                         *)
(* None of the three properties is inductive: what a drill may conclude    *)
(* rests on what the others can do to the node between two of its calls.   *)
(* DrillInv says what they cannot do.  NodeOK: the blocks are a tree, one  *)
(* line until something is undone, no chain has a transaction twice, and a *)
(* transaction's id says what it carries.  LocalInv: what the wallet paid  *)
(* for is in a block or waits for one, also after a reorganisation; what a *)
(* coinbase paid for is as long as nothing is undone; what was walked is   *)
(* the program from its end; and the block that was noted buries the entry.*)
(* A call of another drill only lets the node grow (Grows), which leaves   *)
(* LocalInv as it was (OthersStay), so that each step is looked at alone.  *)
(* BadInv adds what FailHasCause needs: blocks declared invalid are off    *)
(* the chain, and what a drill invalidated stays so until another drill's  *)
(* ReconsiderBlock.                                                        *)
(***************************************************************************)
EXTENDS Drills, WalkProofs, FiniteSetTheorems

Program(s) == Plan[s].program
Entries ==
    {NoTx} \cup UNION {{Entry(s, i, Link(s, i)) : i \in 1 .. Len(Program(s))} :
                          s \in Stream}
Tx == [id : Drill \X Nat, spends : (Drill \X Nat) \cup {NoTx}, coins : Nat,
       entry : Entries]
Block == [chain : SUBSET Nat, txs : SUBSET Tx]
NodeSort == [blocks : Seq(Block), tip : Nat,
             bad : SUBSET Nat, pool : SUBSET Tx, undone : BOOLEAN]

Numbers(nd) == 1 .. Len(nd.blocks)
All(nd) == (UNION {nd.blocks[i].txs : i \in Numbers(nd)}) \cup nd.pool

\* A block is the last of its chain, with the chains of the blocks before it.
TreeOK(nd) ==
    /\ nd.tip \in 0 .. Len(nd.blocks)
    /\ \A b \in Numbers(nd) :
          /\ b \in nd.blocks[b].chain /\ nd.blocks[b].chain \subseteq 1 .. b
          /\ \A c \in nd.blocks[b].chain :
                nd.blocks[c].chain \subseteq nd.blocks[b].chain
\* Until a block is taken off, all are in one line.
LineOK(nd) ==
    ~nd.undone => /\ nd.tip = Len(nd.blocks)
                  /\ \A b \in Numbers(nd) : nd.blocks[b].chain = 1 .. b
\* No chain has a transaction twice.
OnceOK(nd) ==
    /\ \A b \in Chain(nd, nd.tip) : nd.pool \cap nd.blocks[b].txs = {}
    /\ \A c \in Numbers(nd) : \A b \in nd.blocks[c].chain :
          b # c => nd.blocks[b].txs \cap nd.blocks[c].txs = {}
\* An id names one transaction, and that of a stream its entry.
IsEntry(t) ==
    (t.id[1] \in Stream /\ t.id[2] # 0) =>
        /\ t.id[2] \in 1 .. Len(Program(t.id[1]))
        /\ t.entry = Entry(t.id[1], t.id[2], Link(t.id[1], t.id[2]))
IdsOK(nd) ==
    \A t \in All(nd) : IsEntry(t) /\ \A u \in All(nd) : t.id = u.id => t = u
NodeOK(nd) ==
    nd \in NodeSort /\ TreeOK(nd) /\ LineOK(nd) /\ OnceOK(nd) /\ IdsOK(nd)

\* What every call leaves of the node as it was.
Grows(nd, nn) ==
    /\ Len(nd.blocks) <= Len(nn.blocks)
    /\ \A b \in Numbers(nd) : nn.blocks[b] = nd.blocks[b]
    /\ nd.undone => nn.undone
    /\ \A t \in Known(nd) : t.coins = Wallet \/ ~nn.undone => t \in Known(nn)

-----------------------------------------------------------------------------
LEMMA SeqOfFunction ==
    ASSUME NEW S, NEW n \in Nat, NEW f \in [1 .. n -> S]
    PROVE  f \in Seq(S) /\ Len(f) = n /\ DOMAIN f = 1 .. n
  OBVIOUS

LEMMA Shifted ==
    ASSUME NEW len \in Nat, NEW n \in Nat, NEW b \in (len + 1) .. (len + n)
    PROVE  \E k \in 1 .. n : k = b - len /\ len + 1 + k - 1 = b
<1>1. b - len \in 1 .. n /\ len + 1 + (b - len) - 1 = b
  OBVIOUS
<1> QED
  BY <1>1

LEMMA SortFacts ==
    ASSUME NEW nd, nd \in NodeSort, TreeOK(nd)
    PROVE  /\ nd.blocks \in Seq(Block) /\ Len(nd.blocks) \in Nat
           /\ DOMAIN nd.blocks = Numbers(nd)
           /\ \A b \in Numbers(nd) : nd.blocks[b] \in Block
           /\ nd.tip \in 0 .. Len(nd.blocks) /\ nd.pool \subseteq Tx
           /\ nd.bad \subseteq Nat /\ nd.undone \in BOOLEAN
           /\ \A b \in 0 .. Len(nd.blocks) : Chain(nd, b) \subseteq Numbers(nd)
           /\ \A b \in 0 .. Len(nd.blocks) : Chain(nd, b) \subseteq 1 .. b
           /\ \A b \in Numbers(nd) : Chain(nd, b) = nd.blocks[b].chain
           /\ Chain(nd, 0) = {}
<1>1. nd.blocks \in Seq(Block) /\ Len(nd.blocks) \in Nat /\ nd.tip \in 0 .. Len(nd.blocks)
  BY DEF NodeSort, TreeOK
<1>2. DOMAIN nd.blocks = Numbers(nd) /\ \A b \in Numbers(nd) : nd.blocks[b] \in Block
  BY <1>1 DEF Numbers
<1>3. \A b \in Numbers(nd) : Chain(nd, b) = nd.blocks[b].chain
  BY <1>1 DEF Numbers, Chain
<1>4. Chain(nd, 0) = {}
  BY DEF Chain
<1>5. \A b \in 0 .. Len(nd.blocks) : Chain(nd, b) \subseteq 1 .. b
  BY <1>1, <1>3, <1>4 DEF TreeOK, Numbers
<1>6. \A b \in 0 .. Len(nd.blocks) : Chain(nd, b) \subseteq Numbers(nd)
  BY <1>1, <1>5 DEF Numbers
<1> QED
  BY <1>1, <1>2, <1>3, <1>4, <1>5, <1>6 DEF NodeSort

LEMMA Heights ==
    ASSUME NEW nd, nd \in NodeSort, TreeOK(nd), NEW b \in 0 .. Len(nd.blocks)
    PROVE  /\ Height(nd, b) \in 0 .. b
           /\ LineOK(nd) /\ ~nd.undone => Chain(nd, b) = 1 .. b /\ Height(nd, b) = b
           /\ \A c \in 0 .. Len(nd.blocks) :
                 Chain(nd, c) \subseteq Chain(nd, b) => Height(nd, c) <= Height(nd, b)
<1>1. /\ Len(nd.blocks) \in Nat
      /\ \A c \in 0 .. Len(nd.blocks) : Chain(nd, c) \subseteq 1 .. c
      /\ \A c \in Numbers(nd) : Chain(nd, c) = nd.blocks[c].chain
      /\ Chain(nd, 0) = {}
  BY SortFacts
<1>2. b \in Nat
  BY <1>1
<1>3. IsFiniteSet(1 .. b) /\ Cardinality(1 .. b) = b
  BY <1>2, FS_Interval
<1>4. Chain(nd, b) \in SUBSET (1 .. b)
  BY <1>1
<1>5. IsFiniteSet(Chain(nd, b)) /\ Cardinality(Chain(nd, b)) <= b
  BY <1>3, <1>4, FS_Subset
<1>6. Cardinality(Chain(nd, b)) \in Nat
  BY <1>5, FS_CardinalityType
<1>7. ASSUME NEW c \in 0 .. Len(nd.blocks), Chain(nd, c) \subseteq Chain(nd, b)
      PROVE  Height(nd, c) <= Height(nd, b)
  BY <1>5, <1>7, FS_Subset DEF Height
<1>8. ASSUME LineOK(nd), ~nd.undone PROVE Chain(nd, b) = 1 .. b
  <2>1. CASE b = 0
    BY <1>1, <2>1
  <2>2. CASE b # 0
    <3>1. b \in Numbers(nd)
      BY <1>1, <2>2 DEF Numbers
    <3> QED
      BY <1>1, <1>8, <3>1 DEF LineOK
  <2> QED
    BY <2>1, <2>2
<1> QED
  BY <1>2, <1>3, <1>5, <1>6, <1>7, <1>8 DEF Height

-----------------------------------------------------------------------------
(* Generated blocks.                                                       *)

LEMMA GeneratedShape ==
    ASSUME NEW nd, nd \in NodeSort, TreeOK(nd), NEW n \in Nat \ {0},
           NEW nn, nn = Generated(nd, n)
    PROVE  /\ nn \in NodeSort /\ Len(nn.blocks) = Len(nd.blocks) + n
           /\ nn.tip = Len(nn.blocks) /\ nn.pool = {} /\ nn.bad = nd.bad
           /\ nn.undone = nd.undone
           /\ \A b \in Numbers(nd) : nn.blocks[b] = nd.blocks[b]
           /\ \A b \in Numbers(nn) \ Numbers(nd) :
                 /\ nn.blocks[b].chain =
                       Chain(nd, nd.tip) \cup (Len(nd.blocks) + 1 .. b)
                 /\ nn.blocks[b].txs =
                       IF b = Len(nd.blocks) + 1 THEN nd.pool ELSE {}
<1> DEFINE first == Len(nd.blocks) + 1
           block(i) == [chain |-> Chain(nd, nd.tip) \cup (first .. i),
                        txs |-> IF i = first THEN nd.pool ELSE {}]
           more == [k \in 1 .. n |-> block(first + k - 1)]
<1>0. n \in Nat /\ n >= 1
  OBVIOUS
<1>1. /\ nd.blocks \in Seq(Block) /\ Len(nd.blocks) \in Nat /\ nd.pool \subseteq Tx
      /\ Chain(nd, nd.tip) \subseteq Nat
  <2>1. Chain(nd, nd.tip) \subseteq Numbers(nd)
    BY SortFacts
  <2> QED
    BY <2>1, SortFacts DEF Numbers
<1>2. \A i \in Nat : block(i) \in Block
  BY <1>1 DEF Block
<1> HIDE DEF block
<1>3. more \in Seq(Block) /\ Len(more) = n /\ \A k \in 1 .. n : more[k] = block(first + k - 1)
  <2>1. \A k \in 1 .. n : first + k - 1 \in Nat
    BY <1>1
  <2>2. more \in [1 .. n -> Block]
    BY <1>2, <2>1
  <2>3. n \in Nat
    OBVIOUS
  <2>4. more \in Seq(Block) /\ Len(more) = n
    BY <2>2, <2>3, SeqOfFunction
  <2> QED
    BY <2>4
<1>4. nn = [nd EXCEPT !.blocks = @ \o more, !.tip = first + n - 1, !.pool = {}]
  BY DEF Generated, block
<1> HIDE DEF more
<1>5. /\ nd.blocks \o more \in Seq(Block)
      /\ Len(nd.blocks \o more) = Len(nd.blocks) + n
      /\ \A b \in Numbers(nd) : (nd.blocks \o more)[b] = nd.blocks[b]
      /\ \A b \in (Len(nd.blocks) + 1) .. (Len(nd.blocks) + n) :
            (nd.blocks \o more)[b] = more[b - Len(nd.blocks)]
  BY SMTT(20), <1>1, <1>3 DEF Numbers
<1>6. /\ nn \in NodeSort /\ nn.blocks = nd.blocks \o more
      /\ nn.tip = Len(nd.blocks) + n /\ nn.pool = {} /\ nn.bad = nd.bad
      /\ nn.undone = nd.undone
  <2>1. first + n - 1 = Len(nd.blocks) + n /\ Len(nd.blocks) + n \in Nat
    BY <1>0, <1>1
  <2> HIDE DEF first
  <2> QED
    BY ZenonT(30), <1>4, <1>5, <2>1 DEF NodeSort
<1>7. ASSUME NEW b \in Numbers(nn) \ Numbers(nd)
      PROVE  nn.blocks[b] = block(b)
  <2>1. b \in (Len(nd.blocks) + 1) .. (Len(nd.blocks) + n)
    BY <1>1, <1>5, <1>6 DEF Numbers
  <2>2. PICK k \in 1 .. n : k = b - Len(nd.blocks) /\ Len(nd.blocks) + 1 + k - 1 = b
    <3> HIDE DEF first
    <3> QED
      BY ZenonT(30), <1>0, <1>1, <2>1, Shifted
  <2>3. more[k] = block(b)
    BY <1>3, <2>2
  <2> QED
    BY <1>5, <1>6, <2>1, <2>2, <2>3
<1>8. \A b : /\ block(b).chain = Chain(nd, nd.tip) \cup (Len(nd.blocks) + 1 .. b)
            /\ block(b).txs = IF b = Len(nd.blocks) + 1 THEN nd.pool ELSE {}
  BY DEF block
<1>9. nn.tip = Len(nn.blocks)
  BY <1>5, <1>6
<1> HIDE DEF first
<1> QED
  BY <1>5, <1>6, <1>7, <1>8, <1>9

LEMMA GeneratedTree ==
    ASSUME NEW nd, nd \in NodeSort, TreeOK(nd), NEW n \in Nat \ {0},
           NEW nn, nn = Generated(nd, n)
    PROVE  /\ TreeOK(nn)
           /\ \A b \in 0 .. Len(nd.blocks) : Chain(nn, b) = Chain(nd, b)
           /\ \A b \in Numbers(nd) : b \in Numbers(nn)
           /\ \A b \in Numbers(nn) \ Numbers(nd) :
                 Chain(nn, b) = Chain(nd, nd.tip) \cup (Len(nd.blocks) + 1 .. b)
<1>1. /\ nn \in NodeSort /\ Len(nn.blocks) = Len(nd.blocks) + n
      /\ nn.tip = Len(nn.blocks)
      /\ \A b \in Numbers(nd) : nn.blocks[b] = nd.blocks[b]
      /\ \A b \in Numbers(nn) \ Numbers(nd) :
            nn.blocks[b].chain = Chain(nd, nd.tip) \cup (Len(nd.blocks) + 1 .. b)
  BY GeneratedShape
<1>2. /\ Len(nd.blocks) \in Nat /\ nd.tip \in 0 .. Len(nd.blocks)
      /\ \A b \in 0 .. Len(nd.blocks) : Chain(nd, b) \subseteq 1 .. b
      /\ \A b \in 0 .. Len(nd.blocks) : Chain(nd, b) \subseteq Numbers(nd)
      /\ \A b \in Numbers(nd) : Chain(nd, b) = nd.blocks[b].chain
      /\ Chain(nd, 0) = {}
  BY SortFacts
<1>3. PICK len \in Nat : len = Len(nd.blocks)
  BY <1>2
<1>4. n \in Nat /\ n >= 1 /\ Numbers(nd) = 1 .. len /\ Numbers(nn) = 1 .. len + n
  BY <1>1, <1>3 DEF Numbers
<1>5. \A b \in Numbers(nd) : b \in Numbers(nn)
  BY <1>4
<1>6. \A b \in 0 .. Len(nd.blocks) : Chain(nn, b) = Chain(nd, b)
  BY SMTT(20), <1>1, <1>2, <1>3, <1>4 DEF Chain
<1>7. \A b \in Numbers(nn) \ Numbers(nd) : Chain(nn, b) = nn.blocks[b].chain
  BY <1>1, <1>3, <1>4 DEF Chain
<1>8. ASSUME NEW b \in Numbers(nn)
      PROVE  /\ b \in nn.blocks[b].chain /\ nn.blocks[b].chain \subseteq 1 .. b
             /\ \A c \in nn.blocks[b].chain :
                   nn.blocks[c].chain \subseteq nn.blocks[b].chain
  <2>1. CASE b \in Numbers(nd)
    <3>1. nn.blocks[b] = nd.blocks[b] /\ nd.blocks[b].chain \subseteq Numbers(nd)
      BY <1>1, <1>2, <1>3, <1>4, <2>1
    <3>2. \A c \in nd.blocks[b].chain : nn.blocks[c] = nd.blocks[c]
      BY <1>1, <3>1
    <3> QED
      BY <2>1, <3>1, <3>2 DEF TreeOK
  <2>2. CASE b \notin Numbers(nd)
    <3>1. nn.blocks[b].chain = Chain(nd, nd.tip) \cup (len + 1 .. b)
      BY <1>1, <1>3, <2>2
    <3>2. b \in len + 1 .. len + n
      BY <1>3, <1>4, <2>2
    <3>3. Chain(nd, nd.tip) \subseteq 1 .. len
      BY <1>2, <1>3, <1>4
    <3>4. b \in nn.blocks[b].chain /\ nn.blocks[b].chain \subseteq 1 .. b
      BY <3>1, <3>2, <3>3
    <3>5. ASSUME NEW c \in nn.blocks[b].chain
          PROVE  nn.blocks[c].chain \subseteq nn.blocks[b].chain
      <4>1. CASE c \in Chain(nd, nd.tip)
        <5>1. c \in Numbers(nd) /\ nn.blocks[c] = nd.blocks[c]
          BY <1>1, <1>2, <4>1
        <5>2. nd.tip \in Numbers(nd) /\ c \in nd.blocks[nd.tip].chain
          BY <1>2, <1>3, <1>4, <4>1
        <5>3. nd.blocks[c].chain \subseteq Chain(nd, nd.tip)
          BY <1>2, <5>2 DEF TreeOK
        <5> QED
          BY <3>1, <5>1, <5>3
      <4>2. CASE c \in len + 1 .. b
        <5>1. c \in Numbers(nn) \ Numbers(nd)
          BY <1>4, <3>2, <4>2
        <5>2. nn.blocks[c].chain = Chain(nd, nd.tip) \cup (len + 1 .. c)
          BY <1>1, <1>3, <5>1
        <5>3. len + 1 .. c \subseteq len + 1 .. b
          BY <3>2, <4>2
        <5> QED
          BY <3>1, <5>2, <5>3
      <4> QED
        BY <3>1, <4>1, <4>2
    <3> QED
      BY <3>4, <3>5
  <2> QED
    BY <2>1, <2>2
<1>9. nn.tip \in 0 .. Len(nn.blocks)
  BY <1>1, <1>3, <1>4
<1> QED
  BY <1>1, <1>5, <1>6, <1>7, <1>8, <1>9 DEF TreeOK
LEMMA Members ==
    ASSUME NEW nd, NEW t
    PROVE  /\ t \in All(nd) <=> \/ \E i \in Numbers(nd) : t \in nd.blocks[i].txs
                                \/ t \in nd.pool
           /\ \A b : t \in Mined(nd, b) <=>
                        \E i \in Chain(nd, b) : t \in nd.blocks[i].txs
           /\ t \in Known(nd) <=> t \in Mined(nd, nd.tip) \/ t \in nd.pool
<1>1. t \in All(nd) <=> \/ \E i \in Numbers(nd) : t \in nd.blocks[i].txs
                        \/ t \in nd.pool
  BY DEF All
<1>2. ASSUME NEW b
      PROVE  t \in Mined(nd, b) <=> \E i \in Chain(nd, b) : t \in nd.blocks[i].txs
  BY DEF Mined
<1>3. t \in Known(nd) <=> t \in Mined(nd, nd.tip) \/ t \in nd.pool
  BY DEF Known
<1> QED
  BY <1>1, <1>2, <1>3

LEMMA InAll ==
    ASSUME NEW nd, nd \in NodeSort, TreeOK(nd)
    PROVE  /\ \A b \in 0 .. Len(nd.blocks) : Mined(nd, b) \subseteq All(nd)
           /\ Known(nd) \subseteq All(nd)
           /\ All(nd) \subseteq Tx
<1>1. /\ \A b \in 0 .. Len(nd.blocks) : Chain(nd, b) \subseteq Numbers(nd)
      /\ nd.tip \in 0 .. Len(nd.blocks) /\ nd.pool \subseteq Tx
      /\ \A b \in Numbers(nd) : nd.blocks[b] \in Block
  BY SortFacts
<1>2. \A b \in 0 .. Len(nd.blocks) : Mined(nd, b) \subseteq All(nd)
  BY <1>1 DEF Mined, All
<1>3. Known(nd) \subseteq All(nd)
  BY <1>1, <1>2, Members
<1>4. ASSUME NEW t \in All(nd) PROVE t \in Tx
  BY <1>1, <1>4, Members DEF Block
<1> QED
  BY <1>2, <1>3, <1>4

LEMMA GeneratedMoves ==
    ASSUME NEW nd, nd \in NodeSort, TreeOK(nd), NEW n \in Nat \ {0},
           NEW nn, nn = Generated(nd, n)
    PROVE  /\ Mined(nn, nn.tip) = Mined(nd, nd.tip) \cup nd.pool
           /\ Known(nn) = Known(nd) /\ All(nn) = All(nd)
           /\ Len(nd.blocks) + 1 \in Numbers(nn) \ Numbers(nd)
           /\ nn.blocks[Len(nd.blocks) + 1].txs = nd.pool
           /\ \A b \in 0 .. Len(nd.blocks) : Mined(nn, b) = Mined(nd, b)
<1>1. /\ nn \in NodeSort /\ Len(nn.blocks) = Len(nd.blocks) + n
      /\ nn.tip = Len(nn.blocks) /\ nn.pool = {}
      /\ \A b \in Numbers(nd) : nn.blocks[b] = nd.blocks[b]
      /\ \A b \in Numbers(nn) \ Numbers(nd) :
            nn.blocks[b].txs = IF b = Len(nd.blocks) + 1 THEN nd.pool ELSE {}
  BY GeneratedShape
<1>2. /\ Len(nd.blocks) \in Nat /\ nd.tip \in 0 .. Len(nd.blocks)
      /\ \A b \in 0 .. Len(nd.blocks) : Chain(nd, b) \subseteq Numbers(nd)
  BY SortFacts
<1>3. /\ \A b \in 0 .. Len(nd.blocks) : Chain(nn, b) = Chain(nd, b)
      /\ \A b \in Numbers(nd) : b \in Numbers(nn)
      /\ \A b \in Numbers(nn) \ Numbers(nd) :
            Chain(nn, b) = Chain(nd, nd.tip) \cup (Len(nd.blocks) + 1 .. b)
  BY GeneratedTree
<1>4. PICK len \in Nat : len = Len(nd.blocks)
  BY <1>2
<1>5. n \in Nat /\ n >= 1 /\ Numbers(nd) = 1 .. len /\ Numbers(nn) = 1 .. len + n
  BY <1>1, <1>4 DEF Numbers
<1>6. len + 1 \in Numbers(nn) \ Numbers(nd) /\ nn.tip \in Numbers(nn) \ Numbers(nd)
  BY <1>1, <1>4, <1>5
<1>7. nn.blocks[len + 1].txs = nd.pool
  BY <1>1, <1>4, <1>6
<1>8. \A b \in 0 .. Len(nd.blocks) : Mined(nn, b) = Mined(nd, b)
  BY <1>1, <1>2, <1>3 DEF Mined
<1>9. Mined(nn, nn.tip) = Mined(nd, nd.tip) \cup nd.pool
  <2>1. Chain(nn, nn.tip) = Chain(nd, nd.tip) \cup (len + 1 .. nn.tip)
    BY <1>3, <1>4, <1>6
  <2>2. len + 1 \in len + 1 .. nn.tip
    BY <1>1, <1>4, <1>5
  <2>3. len + 1 .. nn.tip \subseteq Numbers(nn) \ Numbers(nd)
    BY <1>1, <1>4, <1>5
  <2>4. \A b \in Chain(nd, nd.tip) : nn.blocks[b] = nd.blocks[b]
    BY <1>1, <1>2
  <2>5. \A b \in len + 1 .. nn.tip :
           nn.blocks[b].txs = IF b = len + 1 THEN nd.pool ELSE {}
    BY <1>1, <1>4, <2>3
  <2>6. ASSUME NEW t PROVE t \in Mined(nn, nn.tip) <=> t \in Mined(nd, nd.tip) \cup nd.pool
    BY <2>1, <2>2, <2>4, <2>5, <1>7 DEF Mined
  <2> QED
    BY <2>6
<1>10. Known(nn) = Known(nd)
  BY <1>1, <1>9 DEF Known
<1>11. All(nn) = All(nd)
  <2>1. ASSUME NEW t \in All(nn) PROVE t \in All(nd)
    <3>1. PICK b \in Numbers(nn) : t \in nn.blocks[b].txs
      BY <1>1, <2>1, Members
    <3> QED
      BY <1>1, <3>1, Members
  <2>2. ASSUME NEW t \in All(nd) PROVE t \in All(nn)
    <3>1. CASE t \in nd.pool
      BY <1>6, <1>7, <3>1, Members
    <3>2. ASSUME NEW b \in Numbers(nd), t \in nd.blocks[b].txs
          PROVE  t \in All(nn)
      BY <1>1, <1>3, <3>2, Members
    <3> QED
      BY <2>2, <3>1, <3>2, Members
  <2> QED
    BY <2>1, <2>2
<1> QED
  BY <1>4, <1>6, <1>7, <1>8, <1>9, <1>10, <1>11

\* A generated block keeps the node in order and takes nothing away.
LEMMA GeneratedOK ==
    ASSUME NEW nd, NodeOK(nd), NEW n \in Nat \ {0}, NEW nn, nn = Generated(nd, n)
    PROVE  NodeOK(nn) /\ Grows(nd, nn) /\ All(nn) = All(nd) /\ Known(nn) = Known(nd)
<1>0. nd \in NodeSort /\ TreeOK(nd) /\ LineOK(nd) /\ OnceOK(nd) /\ IdsOK(nd)
  BY DEF NodeOK
<1>1. /\ nn \in NodeSort /\ Len(nn.blocks) = Len(nd.blocks) + n
      /\ nn.tip = Len(nn.blocks) /\ nn.pool = {} /\ nn.undone = nd.undone
      /\ \A b \in Numbers(nd) : nn.blocks[b] = nd.blocks[b]
      /\ \A b \in Numbers(nn) \ Numbers(nd) :
            /\ nn.blocks[b].chain = Chain(nd, nd.tip) \cup (Len(nd.blocks) + 1 .. b)
            /\ nn.blocks[b].txs = IF b = Len(nd.blocks) + 1 THEN nd.pool ELSE {}
  BY <1>0, GeneratedShape
<1>2. /\ Len(nd.blocks) \in Nat /\ nd.tip \in 0 .. Len(nd.blocks)
      /\ \A b \in 0 .. Len(nd.blocks) : Chain(nd, b) \subseteq Numbers(nd)
      /\ \A b \in Numbers(nd) : Chain(nd, b) = nd.blocks[b].chain
      /\ Chain(nd, 0) = {}
  BY <1>0, SortFacts
<1>3. /\ TreeOK(nn)
      /\ \A b \in Numbers(nd) : b \in Numbers(nn)
      /\ \A b \in Numbers(nn) \ Numbers(nd) :
            Chain(nn, b) = Chain(nd, nd.tip) \cup (Len(nd.blocks) + 1 .. b)
  BY <1>0, GeneratedTree
<1>4. /\ Known(nn) = Known(nd) /\ All(nn) = All(nd)
  BY <1>0, GeneratedMoves
<1>5. PICK len \in Nat : len = Len(nd.blocks)
  BY <1>2
<1>6. n \in Nat /\ n >= 1 /\ Numbers(nd) = 1 .. len /\ Numbers(nn) = 1 .. len + n
  BY <1>1, <1>5 DEF Numbers
<1>7. LineOK(nn)
  <2>1. SUFFICES ASSUME ~nn.undone, NEW b \in Numbers(nn)
                 PROVE  nn.blocks[b].chain = 1 .. b
    BY <1>1 DEF LineOK
  <2>2. nd.tip = len /\ \A c \in Numbers(nd) : nd.blocks[c].chain = 1 .. c
    BY <1>0, <1>1, <1>5, <2>1 DEF LineOK
  <2>3. CASE b \in Numbers(nd)
    BY <1>1, <2>2, <2>3
  <2>4. CASE b \notin Numbers(nd)
    <3>1. Chain(nd, nd.tip) = 1 .. len
      <4>1. CASE len = 0
        BY <1>2, <2>2, <4>1
      <4>2. CASE len # 0
        BY <1>2, <1>6, <2>2, <4>2
      <4> QED
        BY <4>1, <4>2
    <3>2. nn.blocks[b].chain = 1 .. len \cup (len + 1 .. b)
      BY <1>1, <1>5, <2>4, <3>1
    <3>3. b \in Nat /\ b > len
      BY <1>6, <2>4
    <3> QED
      BY <3>2, <3>3
  <2> QED
    BY <2>3, <2>4
<1>8. OnceOK(nn)
  <2>1. ASSUME NEW c \in Numbers(nn), NEW b \in nn.blocks[c].chain, b # c
        PROVE  nn.blocks[b].txs \cap nn.blocks[c].txs = {}
    <3>1. CASE c \in Numbers(nd)
      <4>1. nn.blocks[c] = nd.blocks[c] /\ b \in nd.blocks[c].chain /\ b \in Numbers(nd)
        BY <1>1, <1>2, <1>5, <1>6, <2>1, <3>1
      <4> QED
        BY <1>0, <1>1, <2>1, <3>1, <4>1 DEF OnceOK
    <3>2. CASE c \in Numbers(nn) \ Numbers(nd)
      <4>1. CASE c # len + 1
        BY <1>1, <1>5, <3>2, <4>1
      <4>2. CASE c = len + 1
        <5>1. b \in Chain(nd, nd.tip)
          <6>1. b \in Chain(nd, nd.tip) \cup (len + 1 .. c)
            BY <1>1, <1>5, <2>1, <3>2
          <6> QED
            BY <2>1, <4>2, <6>1
        <5>2. nn.blocks[b] = nd.blocks[b] /\ nn.blocks[c].txs = nd.pool
          BY <1>1, <1>2, <1>5, <3>2, <4>2, <5>1
        <5> QED
          BY <1>0, <5>1, <5>2 DEF OnceOK
      <4> QED
        BY <4>1, <4>2
    <3> QED
      BY <3>1, <3>2
  <2> QED
    BY <1>1, <2>1 DEF OnceOK
<1>9. IdsOK(nn)
  BY <1>0, <1>4 DEF IdsOK
<1>10. Grows(nd, nn)
  BY <1>1, <1>4, <1>5, <1>6 DEF Grows
<1> QED
  BY <1>1, <1>3, <1>4, <1>7, <1>8, <1>9, <1>10 DEF NodeOK

-----------------------------------------------------------------------------
(* A transaction sent, and the blocks declared invalid or valid again.      *)

LEMMA SentOK ==
    ASSUME NEW nd, NodeOK(nd), NEW tx \in Tx, IsEntry(tx),
           \A t \in All(nd) : t.id # tx.id, NEW nn \in Sent(nd, tx)
    PROVE  /\ NodeOK(nn) /\ Grows(nd, nn)
           /\ nn.blocks = nd.blocks /\ nn.tip = nd.tip /\ nn.undone = nd.undone
           /\ All(nn) = All(nd) \cup {tx} /\ Known(nn) = Known(nd) \cup {tx}
<1>0. nd \in NodeSort /\ TreeOK(nd) /\ LineOK(nd) /\ OnceOK(nd) /\ IdsOK(nd)
  BY DEF NodeOK
<1>1. nn = [nd EXCEPT !.pool = @ \cup {tx}]
  BY DEF Sent
<1>2. /\ nn \in NodeSort /\ nn.blocks = nd.blocks /\ nn.tip = nd.tip
      /\ nn.undone = nd.undone /\ nn.pool = nd.pool \cup {tx}
  BY <1>0, <1>1 DEF NodeSort
<1>3. /\ \A b : Chain(nn, b) = Chain(nd, b)
      /\ Numbers(nn) = Numbers(nd)
  BY <1>2 DEF Chain, Numbers
<1>4. /\ All(nn) = All(nd) \cup {tx} /\ Known(nn) = Known(nd) \cup {tx}
  <2>1. ASSUME NEW t
        PROVE  /\ t \in All(nn) <=> t \in All(nd) \cup {tx}
               /\ \A b : t \in Mined(nn, b) <=> t \in Mined(nd, b)
    <3>1. t \in All(nn) <=> \/ \E i \in Numbers(nd) : t \in nd.blocks[i].txs
                           \/ t \in nd.pool \/ t = tx
      BY <1>2, <1>3 DEF All
    <3>2. t \in All(nd) <=> \/ \E i \in Numbers(nd) : t \in nd.blocks[i].txs
                           \/ t \in nd.pool
      BY DEF All
    <3>3. \A b : Mined(nn, b) = Mined(nd, b)
      BY <1>2, <1>3 DEF Mined
    <3> QED
      BY <3>1, <3>2, <3>3
  <2>2. \A t : t \in Known(nn) <=> t \in Known(nd) \cup {tx}
    BY <1>2, <2>1, Members
  <2> QED
    BY <2>1, <2>2
<1>5. TreeOK(nn) /\ LineOK(nn)
  BY <1>0, <1>2, <1>3 DEF TreeOK, LineOK
<1>6. OnceOK(nn)
  <2>1. \A b \in 0 .. Len(nd.blocks) : Chain(nd, b) \subseteq Numbers(nd)
    BY <1>0, SortFacts
  <2>2. nd.tip \in 0 .. Len(nd.blocks)
    BY <1>0 DEF TreeOK
  <2>3. \A b \in Chain(nd, nd.tip) : tx \notin nd.blocks[b].txs
    BY <2>1, <2>2 DEF All
  <2> QED
    BY <1>0, <1>2, <1>3, <2>3 DEF OnceOK
<1>7. IdsOK(nn)
  BY <1>0, <1>4 DEF IdsOK
<1>8. Grows(nd, nn)
  <2>1. Len(nd.blocks) \in Nat
    BY <1>0, SortFacts
  <2> QED
    BY <1>2, <1>4, <2>1 DEF Grows
<1> QED
  BY <1>2, <1>4, <1>5, <1>6, <1>7, <1>8 DEF NodeOK

\* What a reorganisation leaves: the blocks, and the wallet's transactions.
LEMMA SettledOK ==
    ASSUME NEW nd, NodeOK(nd), NEW bad \in SUBSET Nat, NEW nn \in Settled(nd, bad)
    PROVE  /\ NodeOK(nn) /\ Grows(nd, nn) /\ nn.blocks = nd.blocks
           /\ All(nn) \subseteq All(nd)
<1>0. nd \in NodeSort /\ TreeOK(nd) /\ LineOK(nd) /\ OnceOK(nd) /\ IdsOK(nd)
  BY DEF NodeOK
<1>1. /\ Len(nd.blocks) \in Nat /\ nd.tip \in 0 .. Len(nd.blocks)
      /\ nd.pool \subseteq Tx /\ nd.undone \in BOOLEAN
  BY <1>0, SortFacts
<1>2. CASE nn = [nd EXCEPT !.bad = bad]
  <2>1. /\ nn \in NodeSort /\ nn.blocks = nd.blocks /\ nn.tip = nd.tip
        /\ nn.undone = nd.undone /\ nn.pool = nd.pool
    BY <1>0, <1>2 DEF NodeSort
  <2>2. (\A b : Chain(nn, b) = Chain(nd, b)) /\ Numbers(nn) = Numbers(nd)
    BY <2>1 DEF Chain, Numbers
  <2>3. All(nn) = All(nd) /\ Known(nn) = Known(nd)
    BY <2>1, <2>2 DEF All, Known, Mined
  <2>4. TreeOK(nn) /\ LineOK(nn) /\ OnceOK(nn) /\ IdsOK(nn)
    BY <1>0, <2>1, <2>2, <2>3 DEF TreeOK, LineOK, OnceOK, IdsOK
  <2>5. Grows(nd, nn)
    BY <1>1, <2>1, <2>3 DEF Grows
  <2> QED
    BY <2>1, <2>3, <2>4, <2>5 DEF NodeOK
<1>3. ASSUME NEW b \in 0 .. Len(nd.blocks), nn = Switched(nd, bad, b)
      PROVE  /\ NodeOK(nn) /\ Grows(nd, nn) /\ nn.blocks = nd.blocks
             /\ All(nn) \subseteq All(nd)
  <2>1. PICK pool : pool = {t \in Known(nd) \ Mined(nd, b) : Spendable(nd, t, b)}
    OBVIOUS
  <2>2. nn = [nd EXCEPT !.tip = b, !.bad = bad, !.pool = pool, !.undone = TRUE]
    BY <1>3, <2>1 DEF Switched
  <2>3. Known(nd) \subseteq All(nd) /\ All(nd) \subseteq Tx
    BY <1>0, InAll
  <2>4. b \in Nat /\ pool \subseteq Tx
    BY <1>1, <2>1, <2>3
  <2>5. /\ nn \in NodeSort /\ nn.blocks = nd.blocks /\ nn.tip = b
        /\ nn.undone = TRUE /\ nn.pool = pool
    BY <1>0, <2>2, <2>4 DEF NodeSort
  <2>6. (\A c : Chain(nn, c) = Chain(nd, c)) /\ Numbers(nn) = Numbers(nd)
    BY <2>5 DEF Chain, Numbers
  <2>7. All(nn) \subseteq All(nd)
    <3>1. pool \subseteq All(nd)
      BY <2>1, <2>3
    <3>2. \A t : t \in All(nn) => t \in All(nd)
      BY <2>5, <2>6, <3>1, Members
    <3> QED
      BY <3>2
  <2>8. TreeOK(nn) /\ LineOK(nn)
    BY <1>0, <2>5, <2>6 DEF TreeOK, LineOK
  <2>9. OnceOK(nn)
    BY <1>0, <2>1, <2>5, <2>6 DEF OnceOK, Mined
  <2>10. IdsOK(nn)
    BY <1>0, <2>7 DEF IdsOK
  <2>11. Known(nn) = Mined(nd, b) \cup pool
    BY <2>5, <2>6 DEF Known, Mined
  <2>12. Grows(nd, nn)
    <3>1. ASSUME NEW t \in Known(nd), t.coins = Wallet PROVE t \in Known(nn)
      BY <2>1, <2>11, <3>1 DEF Spendable
    <3> QED
      BY <1>1, <2>5, <3>1 DEF Grows
  <2> QED
    BY <2>5, <2>7, <2>8, <2>9, <2>10, <2>12 DEF NodeOK
<1> QED
  BY <1>2, <1>3 DEF Settled
\* Some chain is the longest valid one: there is always an answer.
LEMMA SettledSome ==
    ASSUME NEW nd, nd \in NodeSort, TreeOK(nd), NEW bad
    PROVE  Settled(nd, bad) # {}
<1> DEFINE valid == {b \in 0 .. Len(nd.blocks) : Chain(nd, b) \cap bad = {}}
           best == {b \in valid : \A c \in valid : Height(nd, c) <= Height(nd, b)}
<1>1. Len(nd.blocks) \in Nat /\ Chain(nd, 0) = {}
  BY SortFacts
<1>2. 0 \in valid
  BY <1>1
<1>3. \A b \in valid : Height(nd, b) \in Nat /\ Height(nd, b) <= Len(nd.blocks)
  <2>1. ASSUME NEW b \in valid
        PROVE  Height(nd, b) \in Nat /\ Height(nd, b) <= Len(nd.blocks)
    <3>1. Height(nd, b) \in 0 .. b
      BY Heights
    <3> QED
      BY <1>1, <3>1
  <2> QED
    BY <2>1
<1> HIDE DEF valid
<1>4. PICK X : X = {Height(nd, b) : b \in valid}
  OBVIOUS
<1>5. X # {} /\ X \subseteq 0 .. Len(nd.blocks)
  BY <1>1, <1>2, <1>3, <1>4
<1>6. PICK x \in X : \A y \in X : y <= x
  BY <1>1, <1>5, GreatestBelow
<1>7. best # {}
  BY <1>4, <1>6
<1> QED
  BY <1>7 DEF Settled, valid

\* A block that is found at its height is in the active chain.
LEMMA FoundInChain ==
    ASSUME NEW nd, NEW b, b # 0, BlockAt(nd, Height(nd, b)) = b
    PROVE  b \in Chain(nd, nd.tip)
<1> DEFINE at == {c \in Chain(nd, nd.tip) : Height(nd, c) = Height(nd, b)}
<1>1. at # {}
  BY DEF BlockAt
<1>2. b = CHOOSE c \in at : TRUE
  BY <1>1 DEF BlockAt
<1> HIDE DEF at
<1>3. b \in at
  BY <1>1, <1>2
<1> QED
  BY <1>3 DEF at

\* In one line every block is in the active chain, at its number.
LEMMA InLine ==
    ASSUME NEW nd, NodeOK(nd), ~nd.undone, NEW b \in Numbers(nd)
    PROVE  /\ b \in Chain(nd, nd.tip) /\ Chain(nd, nd.tip) = Numbers(nd)
           /\ Height(nd, b) = b /\ Height(nd, nd.tip) = Len(nd.blocks)
           /\ Chain(nd, b) = 1 .. b
           /\ BlockAt(nd, Height(nd, b)) = b
<1>0. nd \in NodeSort /\ TreeOK(nd) /\ LineOK(nd)
  BY DEF NodeOK
<1>1. Len(nd.blocks) \in Nat /\ nd.tip = Len(nd.blocks)
  BY <1>0, SortFacts DEF LineOK
<1>2. \A c \in 0 .. Len(nd.blocks) : Chain(nd, c) = 1 .. c /\ Height(nd, c) = c
  BY <1>0, Heights
<1>3. /\ Chain(nd, nd.tip) = Numbers(nd) /\ Height(nd, nd.tip) = Len(nd.blocks)
      /\ b \in 0 .. Len(nd.blocks)
  BY <1>1, <1>2 DEF Numbers
<1>4. {c \in Chain(nd, nd.tip) : Height(nd, c) = b} = {b}
  BY <1>1, <1>2, <1>3 DEF Numbers
<1>5. BlockAt(nd, b) = b
  BY <1>4 DEF BlockAt
<1> QED
  BY <1>2, <1>3, <1>5
-----------------------------------------------------------------------------
(* The invariant: what a drill may rely on while others use the node.      *)

Steps == {"idle", "fund", "confirm", "open", "send", "mine", "discover", "walk",
          "compare", "anchor", "bury", "check", "reorg", "recheck", "restore",
          "poll", "PASS", "FAIL"}
Local == [step : Steps, coins : Nat, sent : Nat,
          cursor : (Drill \X Nat) \cup {NoTx}, walk : Seq(Entries),
          block : Nat, tip : Nat, polls : Nat]

\* The number of the last transaction the drill has sent.
LastSent(p, d) == IF p \in Stream THEN d.sent
              ELSE IF d.step \in {"confirm", "send"} THEN 0 ELSE 1
Out == {"idle", "fund", "FAIL"}
Waits(nd, id) == \E t \in Known(nd) : t.id = id
Keeps(nd, id) == \E t \in Known(nd) : t.id = id /\ t.coins = Wallet

\* What the drill sends next nobody has seen.
FreshInv(nd, p, d) ==
    d.step # "FAIL" =>
        \A t \in All(nd) :
            t.id[1] = p => d.step # "fund" /\ t.id[2] <= LastSent(p, d)
\* What was paid for by the wallet is never lost.
WalletInv(nd, p, d) ==
    ~Coinbase(p) =>
        /\ d.coins = Wallet
        /\ d.step \notin Out => \A i \in 0 .. LastSent(p, d) : Keeps(nd, Txid(p, i))
\* What a coinbase paid for is safe as long as nothing is taken off.
CoinbaseInv(nd, p, d) ==
    (Coinbase(p) /\ d.step \notin Out) =>
        /\ d.coins \in Numbers(nd)
        /\ ~nd.undone =>
              /\ \A i \in 1 .. d.sent : Waits(nd, Txid(p, i))
              /\ d.step # "confirm" => d.coins + Maturity <= Len(nd.blocks)
SentInv(p, d) ==
    /\ d.step = "open" => Coinbase(p)
    /\ p \in Stream =>
        /\ d.step \in {"idle", "fund", "confirm", "open"} => d.sent = 0
        /\ d.step = "send" => d.sent < Len(Program(p))
        /\ d.step \in {"mine", "discover"} => d.sent \in 1 .. Len(Program(p))
        /\ d.step \in {"walk", "compare"} => d.sent = Len(Program(p))
\* What was walked is the program from its end.
WalkInv(p, d) ==
    p \in Stream =>
        /\ d.step \notin {"walk", "compare", "FAIL", "PASS"} => d.walk = <<>>
        /\ d.step \in {"walk", "compare"} =>
              \A j \in 1 .. Len(d.walk) :
                  d.walk[j] = Entry(p, d.sent + 1 - j, Link(p, d.sent + 1 - j))
        /\ d.step = "walk" => /\ Len(d.walk) < d.sent
                              /\ d.cursor = Txid(p, d.sent - Len(d.walk))
        /\ d.step = "compare" => Len(d.walk) = d.sent
\* The block that was noted buries the entry.
AnchorInv(nd, p, d) ==
    (p \in Hardening
        /\ d.step \in {"bury", "check", "reorg", "recheck", "restore", "poll"}) =>
        /\ d.block \in Numbers(nd)
        /\ \E t \in Mined(nd, d.block) : t.id = Txid(p, 1)
        /\ d.step = "bury" => d.tip = Height(nd, d.block)
        /\ d.step \in {"bury", "check"} /\ ~nd.undone => d.tip <= Len(nd.blocks)
        /\ d.step = "check" => d.tip - Height(nd, d.block) + 1 >= ConfDepth
        /\ d.step \in {"recheck", "restore", "poll"} => nd.undone
LocalInv(nd, p, d) ==
    /\ d \in Local
    /\ FreshInv(nd, p, d) /\ WalletInv(nd, p, d) /\ CoinbaseInv(nd, p, d)
    /\ SentInv(p, d) /\ WalkInv(p, d) /\ AnchorInv(nd, p, d)
DrillInv ==
    /\ NodeOK(node) /\ drill \in [Drill -> Local] /\ errors \in Nat
    /\ \A p \in Drill : LocalInv(node, p, drill[p])

-----------------------------------------------------------------------------
\* The calls of the others leave a drill what it relies on.
LEMMA OthersStay ==
    ASSUME NEW nd, NodeOK(nd), NEW nn, NodeOK(nn), Grows(nd, nn),
           NEW q, NEW d, LocalInv(nd, q, d),
           \A t \in All(nn) \ All(nd) : t.id[1] # q
    PROVE  LocalInv(nn, q, d)
<1>0. /\ nd \in NodeSort /\ TreeOK(nd) /\ nn \in NodeSort /\ TreeOK(nn)
  BY DEF NodeOK
<1>1. /\ Len(nd.blocks) \in Nat /\ Len(nn.blocks) \in Nat
      /\ \A b \in 0 .. Len(nd.blocks) : Chain(nd, b) \subseteq Numbers(nd)
      /\ \A b \in Numbers(nd) : Chain(nd, b) = nd.blocks[b].chain
      /\ \A b \in Numbers(nn) : Chain(nn, b) = nn.blocks[b].chain
  BY <1>0, SortFacts
<1>2. /\ Len(nd.blocks) <= Len(nn.blocks)
      /\ \A b \in Numbers(nd) : nn.blocks[b] = nd.blocks[b]
      /\ nd.undone => nn.undone
      /\ \A t \in Known(nd) : t.coins = Wallet \/ ~nn.undone => t \in Known(nn)
  BY DEF Grows
<1>3. \A b \in Numbers(nd) : /\ b \in Numbers(nn) /\ b \in 0 .. Len(nd.blocks)
                             /\ Chain(nn, b) = Chain(nd, b)
                             /\ Height(nn, b) = Height(nd, b)
  BY <1>1, <1>2 DEF Numbers, Height
<1>4. \A b \in Numbers(nd) : Mined(nn, b) = Mined(nd, b)
  <2>1. SUFFICES ASSUME NEW b \in Numbers(nd), NEW t
                 PROVE  t \in Mined(nn, b) <=> t \in Mined(nd, b)
    OBVIOUS
  <2>2. \A i \in Chain(nd, b) : nn.blocks[i] = nd.blocks[i]
    BY <1>1, <1>2, <1>3
  <2>3. /\ t \in Mined(nn, b) <=> \E i \in Chain(nn, b) : t \in nn.blocks[i].txs
        /\ t \in Mined(nd, b) <=> \E i \in Chain(nd, b) : t \in nd.blocks[i].txs
    BY Members
  <2> QED
    BY <1>3, <2>2, <2>3
<1>5. d \in Local /\ SentInv(q, d) /\ WalkInv(q, d)
  BY DEF LocalInv
<1>6. FreshInv(nn, q, d)
  <2>1. FreshInv(nd, q, d)
    BY DEF LocalInv
  <2> QED
    BY <2>1 DEF FreshInv
<1>7. WalletInv(nn, q, d)
  <2>1. WalletInv(nd, q, d)
    BY DEF LocalInv
  <2> QED
    BY <1>2, <2>1 DEF WalletInv, Keeps
<1>8. CoinbaseInv(nn, q, d)
  <2>1. CoinbaseInv(nd, q, d)
    BY DEF LocalInv
  <2>2. ASSUME Coinbase(q), d.step \notin Out
        PROVE  d.coins \in Numbers(nn) /\ d.coins \in Nat
    BY <1>1, <1>3, <2>1, <2>2 DEF CoinbaseInv, Numbers
  <2>3. ASSUME Coinbase(q), d.step \notin Out, ~nn.undone, NEW i \in 1 .. d.sent
        PROVE  Waits(nn, Txid(q, i))
    <3>1. PICK t \in Known(nd) : t.id = Txid(q, i)
      BY <1>2, <2>1, <2>3 DEF CoinbaseInv, Waits
    <3> QED
      BY <1>2, <2>3, <3>1 DEF Waits
  <2>4. ASSUME Coinbase(q), d.step \notin Out, ~nn.undone, d.step # "confirm"
        PROVE  d.coins + Maturity <= Len(nn.blocks)
    BY <1>1, <1>2, <2>1, <2>2, <2>4, NodeAssumption DEF CoinbaseInv
  <2> QED
    BY <2>2, <2>3, <2>4 DEF CoinbaseInv
<1>9. AnchorInv(nn, q, d)
  <2>1. AnchorInv(nd, q, d)
    BY DEF LocalInv
  <2>2. SUFFICES ASSUME q \in Hardening,
                        d.step \in {"bury", "check", "reorg", "recheck", "restore", "poll"}
                 PROVE  /\ d.block \in Numbers(nn)
                        /\ \E t \in Mined(nn, d.block) : t.id = Txid(q, 1)
                        /\ d.step = "bury" => d.tip = Height(nn, d.block)
                        /\ d.step \in {"bury", "check"} /\ ~nn.undone => d.tip <= Len(nn.blocks)
                        /\ d.step = "check" => d.tip - Height(nn, d.block) + 1 >= ConfDepth
                        /\ d.step \in {"recheck", "restore", "poll"} => nn.undone
    BY DEF AnchorInv
  <2>3. /\ d.block \in Numbers(nd)
        /\ \E t \in Mined(nd, d.block) : t.id = Txid(q, 1)
        /\ d.step = "bury" => d.tip = Height(nd, d.block)
        /\ d.step \in {"bury", "check"} /\ ~nd.undone => d.tip <= Len(nd.blocks)
        /\ d.step = "check" => d.tip - Height(nd, d.block) + 1 >= ConfDepth
        /\ d.step \in {"recheck", "restore", "poll"} => nd.undone
    BY <2>1, <2>2 DEF AnchorInv
  <2>4. d.tip \in Nat
    BY <1>5 DEF Local
  <2>5. d.step \in {"bury", "check"} /\ ~nn.undone => d.tip <= Len(nn.blocks)
    BY <1>1, <1>2, <2>3, <2>4
  <2> QED
    BY <1>2, <1>3, <1>4, <2>3, <2>5
<1> QED
  BY <1>5, <1>6, <1>7, <1>8, <1>9 DEF LocalInv

\* A drill that failed relies on nothing.
LEMMA FailedRelies ==
    ASSUME NEW nd, NEW p, NEW d, LocalInv(nd, p, d), NEW nn
    PROVE  LocalInv(nn, p, [d EXCEPT !.step = "FAIL"])
<1>1. PICK e : e = [d EXCEPT !.step = "FAIL"]
  OBVIOUS
<1>2. d \in Local /\ WalletInv(nd, p, d)
  BY DEF LocalInv
<1>3. e \in Local /\ e.step = "FAIL" /\ e.coins = d.coins
  <2>1. "FAIL" \in Steps
    BY DEF Steps
  <2>2. e.step = "FAIL" /\ e.coins = d.coins
    BY <1>1, <1>2 DEF Local
  <2>3. e \in Local
    BY <1>1, <1>2, <2>1 DEF Local
  <2> QED
    BY <2>2, <2>3
<1>4. FreshInv(nn, p, e) /\ WalletInv(nn, p, e) /\ CoinbaseInv(nn, p, e)
  BY <1>2, <1>3 DEF FreshInv, WalletInv, CoinbaseInv, Out
<1>5. SentInv(p, e) /\ WalkInv(p, e) /\ AnchorInv(nn, p, e)
  BY <1>3 DEF SentInv, WalkInv, AnchorInv
<1> QED
  BY <1>1, <1>3, <1>4, <1>5 DEF LocalInv

\* What a call must do for the invariant: to the node, and to the caller.
Safe(nd, p, nn) ==
    NodeOK(nn) /\ Grows(nd, nn) /\ \A t \in All(nn) \ All(nd) : t.id[1] = p

LEMMA StepKeeps ==
    ASSUME DrillInv, NEW p \in Drill, NEW nn, Safe(node, p, nn),
           NEW d, LocalInv(nn, p, d),
           node' = nn, drill' = [drill EXCEPT ![p] = d], errors' \in Nat
    PROVE  DrillInv'
<1>1. \A q \in Drill : LocalInv(nn, q, drill'[q])
  <2>1. SUFFICES ASSUME NEW q \in Drill, q # p PROVE LocalInv(nn, q, drill[q])
    BY DEF DrillInv
  <2>2. NodeOK(node) /\ LocalInv(node, q, drill[q])
    BY DEF DrillInv
  <2>3. \A t \in All(nn) \ All(node) : t.id[1] # q
    BY <2>1 DEF Safe
  <2>4. PICK nd, e : nd = node /\ e = drill[q]
    OBVIOUS
  <2> QED
    BY <2>2, <2>3, <2>4, OthersStay DEF Safe
<1>2. drill' \in [Drill -> Local]
  BY DEF DrillInv, LocalInv
<1> QED
  BY <1>1, <1>2 DEF DrillInv, Safe
LEMMA SafeSame ==
    ASSUME NEW nd, NodeOK(nd), NEW p
    PROVE  Safe(nd, p, nd)
<1>1. nd \in NodeSort /\ TreeOK(nd)
  BY DEF NodeOK
<1>2. Len(nd.blocks) \in Nat
  BY <1>1, SortFacts
<1> QED
  BY <1>2 DEF Safe, Grows

LEMMA SafeGenerated ==
    ASSUME NEW nd, NodeOK(nd), NEW n \in Nat \ {0}, NEW nn, nn = Generated(nd, n),
           NEW p, NEW d, LocalInv(nd, p, d)
    PROVE  Safe(nd, p, nn) /\ LocalInv(nn, p, d)
<1>1. NodeOK(nn) /\ Grows(nd, nn) /\ All(nn) = All(nd)
  BY GeneratedOK
<1>2. LocalInv(nn, p, d)
  BY <1>1, OthersStay
<1> QED
  BY <1>1, <1>2 DEF Safe

LEMMA SafeSettled ==
    ASSUME NEW nd, NodeOK(nd), NEW bad \in SUBSET Nat, NEW nn \in Settled(nd, bad),
           NEW p, NEW d, LocalInv(nd, p, d)
    PROVE  Safe(nd, p, nn) /\ LocalInv(nn, p, d)
<1>1. NodeOK(nn) /\ Grows(nd, nn) /\ All(nn) \subseteq All(nd)
  BY SettledOK
<1>2. LocalInv(nn, p, d)
  BY <1>1, OthersStay
<1> QED
  BY <1>1, <1>2 DEF Safe

\* A call that is answered, one that errs, and either.
LEMMA AnsweredKeeps ==
    ASSUME DrillInv, NEW p \in Drill, NEW after, NEW d,
           \A nn \in after : Safe(node, p, nn) /\ LocalInv(nn, p, d),
           Answered(p, after, d)
    PROVE  DrillInv'
<1>1. PICK nn \in after : node' = nn
  BY DEF Answered
<1>2. drill' = [drill EXCEPT ![p] = d] /\ errors' \in Nat
  BY DEF Answered, DrillInv
<1> QED
  BY <1>1, <1>2, StepKeeps

LEMMA ErrsKeeps ==
    ASSUME DrillInv, NEW p \in Drill, NEW after, NEW d, LocalInv(node, p, d),
           \A nn \in after : Safe(node, p, nn) /\ LocalInv(nn, p, d),
           Errs(p, after, d)
    PROVE  DrillInv'
<1>1. PICK nn : node' = nn /\ (nn \in after \/ nn = node)
  BY DEF Errs
<1>2. drill' = [drill EXCEPT ![p] = d] /\ errors' \in Nat
  BY DEF Errs, DrillInv
<1>3. Safe(node, p, node)
  <2>1. PICK nd : nd = node
    OBVIOUS
  <2> QED
    BY <2>1, SafeSame DEF DrillInv
<1> QED
  BY <1>1, <1>2, <1>3, StepKeeps

LEMMA RefusedKeeps ==
    ASSUME DrillInv, NEW p \in Drill, Refused(p)
    PROVE  DrillInv'
<1>1. PICK nd, d : nd = node /\ d = drill[p]
  OBVIOUS
<1>2. NodeOK(nd) /\ LocalInv(nd, p, d)
  BY <1>1 DEF DrillInv
<1>3. Safe(nd, p, nd) /\ LocalInv(nd, p, [d EXCEPT !.step = "FAIL"])
  BY <1>2, SafeSame, FailedRelies
<1> QED
  BY <1>1, <1>3, AnsweredKeeps DEF Refused, Goes

LEMMA CallKeeps ==
    ASSUME DrillInv, NEW p \in Drill, NEW after, NEW d,
           \A nn \in after : Safe(node, p, nn) /\ LocalInv(nn, p, d),
           Call(p, after, d)
    PROVE  DrillInv'
<1>1. CASE Answered(p, after, d)
  BY <1>1, AnsweredKeeps
<1>2. CASE Errs(p, after, Goes(p, "FAIL"))
  <2>1. PICK nd, e : nd = node /\ e = drill[p]
    OBVIOUS
  <2>2. LocalInv(nd, p, e)
    BY <2>1 DEF DrillInv
  <2>3. \A nn : LocalInv(nn, p, [e EXCEPT !.step = "FAIL"])
    BY <2>2, FailedRelies
  <2> QED
    BY <1>2, <2>1, <2>3, ErrsKeeps DEF Goes
<1>3. CASE Refused(p)
  BY <1>3, RefusedKeeps
<1> QED
  BY <1>1, <1>2, <1>3 DEF Call
-----------------------------------------------------------------------------
(* The steps that fund a drill.                                            *)

LEMMA TwoKinds == \A p \in Drill : p \in Stream <=> p \notin Hardening
  BY DrillAssumption DEF Drill

LEMMA Programs ==
    ASSUME NEW s \in Stream
    PROVE  /\ Len(Program(s)) \in Nat \ {0} /\ DOMAIN Program(s) = 1 .. Len(Program(s))
           /\ \A i \in 1 .. Len(Program(s)) :
                 /\ Program(s)[i].op # "delete"
                 /\ Entry(s, i, Link(s, i)) \in Entries
<1>1. Program(s) \in Seq(Range(Program(s))) /\ Program(s) # <<>>
  BY PlanAssumption DEF Program
<1>2. Len(Program(s)) \in Nat \ {0} /\ DOMAIN Program(s) = 1 .. Len(Program(s))
  BY <1>1
<1>3. \A i \in 1 .. Len(Program(s)) : Program(s)[i].op # "delete"
  BY <1>2, PlanAssumption DEF Program
<1>4. \A i \in 1 .. Len(Program(s)) : Entry(s, i, Link(s, i)) \in Entries
  BY DEF Entries
<1> QED
  BY <1>2, <1>3, <1>4

LEMMA SendToAddressKeeps ==
    ASSUME DrillInv, NEW p \in Drill, SendToAddress(p)
    PROVE  DrillInv'
<1>1. PICK nd, e : nd = node /\ e = drill[p]
  OBVIOUS
<1>2. NodeOK(nd) /\ LocalInv(nd, p, e) /\ e \in Local /\ e.step = "fund" /\ ~Coinbase(p)
  BY <1>1 DEF DrillInv, LocalInv, SendToAddress, At
<1>3. PICK tx, d : /\ tx = [id |-> Txid(p, 0), spends |-> NoTx, coins |-> Wallet,
                            entry |-> NoTx]
                   /\ d = [e EXCEPT !.step = "confirm"]
  OBVIOUS
<1>4. Call(p, Sent(nd, tx), d)
  BY <1>1, <1>3 DEF SendToAddress, Goes
<1>5. tx \in Tx /\ IsEntry(tx) /\ tx.id = Txid(p, 0) /\ tx.coins = Wallet
      /\ tx.id[1] = p /\ tx.id[2] = 0
  BY <1>3 DEF Tx, IsEntry, Txid, Wallet, Entries
<1>6. \A t \in All(nd) : t.id[1] # p
  BY <1>2 DEF LocalInv, FreshInv
<1>7. d \in Local /\ d.step = "confirm" /\ d.coins = e.coins /\ d.sent = e.sent
      /\ d.walk = e.walk
  BY <1>2, <1>3 DEF Local, Steps
<1>8. LastSent(p, d) = 0
  BY <1>2, <1>7 DEF LocalInv, SentInv, LastSent
<1>9. ASSUME NEW nn \in Sent(nd, tx) PROVE Safe(nd, p, nn) /\ LocalInv(nn, p, d)
  <2>1. /\ NodeOK(nn) /\ Grows(nd, nn) /\ All(nn) = All(nd) \cup {tx}
        /\ Known(nn) = Known(nd) \cup {tx}
    <3>1. \A t \in All(nd) : t.id # tx.id
      BY <1>5, <1>6
    <3> QED
      BY <1>2, <1>5, <3>1, SentOK
  <2>2. Safe(nd, p, nn)
    BY <1>5, <2>1 DEF Safe
  <2>3. FreshInv(nn, p, d)
    BY <1>5, <1>6, <1>7, <1>8, <2>1 DEF FreshInv
  <2>4. WalletInv(nn, p, d)
    <3>1. Keeps(nn, Txid(p, 0))
      BY <1>5, <2>1 DEF Keeps
    <3>2. d.coins = Wallet
      BY <1>2, <1>7 DEF LocalInv, WalletInv
    <3> QED
      BY <1>8, <3>1, <3>2 DEF WalletInv
  <2>5. SentInv(p, d) /\ WalkInv(p, d)
    BY <1>2, <1>7 DEF LocalInv, SentInv, WalkInv
  <2>6. CoinbaseInv(nn, p, d) /\ AnchorInv(nn, p, d)
    BY <1>2, <1>7 DEF CoinbaseInv, AnchorInv
  <2> QED
    BY <1>7, <2>2, <2>3, <2>4, <2>5, <2>6 DEF LocalInv
<1> QED
  BY <1>1, <1>4, <1>9, CallKeeps

LEMMA GenerateToAddressKeeps ==
    ASSUME DrillInv, NEW p \in Drill, GenerateToAddress(p)
    PROVE  DrillInv'
<1>1. PICK nd, e : nd = node /\ e = drill[p]
  OBVIOUS
<1>2. NodeOK(nd) /\ LocalInv(nd, p, e) /\ e \in Local /\ e.step = "fund" /\ Coinbase(p)
  BY <1>1 DEF DrillInv, LocalInv, GenerateToAddress, At
<1>3. PICK nn, d : nn = Generated(nd, 1) /\ d = [e EXCEPT !.step = "confirm", !.coins = nn.tip]
  OBVIOUS
<1>4. Call(p, {nn}, d)
  <2>1. [Goes(p, "confirm") EXCEPT !.coins = nn.tip] = d
    BY <1>1, <1>2, <1>3 DEF Goes, Local
  <2> QED
    BY <1>1, <1>3, <2>1 DEF GenerateToAddress
<1>5. Safe(nd, p, nn) /\ LocalInv(nn, p, e) /\ NodeOK(nn)
  BY <1>2, <1>3, SafeGenerated DEF Safe
<1>6. nn.tip \in Numbers(nn) /\ nn.tip \in Nat
  <2>1. /\ nd \in NodeSort /\ TreeOK(nd) /\ 1 \in Nat \ {0}
    BY <1>2 DEF NodeOK
  <2>2. Len(nn.blocks) = Len(nd.blocks) + 1 /\ nn.tip = Len(nn.blocks)
    BY <1>3, <2>1, GeneratedShape
  <2>3. Len(nd.blocks) \in Nat
    BY <2>1, SortFacts
  <2> QED
    BY <2>2, <2>3 DEF Numbers
<1>7. d \in Local /\ d.step = "confirm" /\ d.coins = nn.tip /\ d.sent = e.sent
      /\ d.walk = e.walk
  BY <1>2, <1>3, <1>6 DEF Local, Steps
<1>8. p \in Stream /\ p \notin Hardening
  BY <1>2, TwoKinds DEF Coinbase
<1>9. FreshInv(nn, p, d)
  BY <1>2, <1>5, <1>7 DEF LocalInv, FreshInv
<1>10. SentInv(p, d) /\ WalkInv(p, d) /\ d.sent = 0
  BY <1>2, <1>7, <1>8 DEF LocalInv, SentInv, WalkInv
<1>11. CoinbaseInv(nn, p, d)
  BY <1>6, <1>7, <1>10 DEF CoinbaseInv
<1>12. WalletInv(nn, p, d) /\ AnchorInv(nn, p, d)
  BY <1>2, <1>8 DEF WalletInv, AnchorInv
<1>13. LocalInv(nn, p, d)
  BY <1>7, <1>9, <1>10, <1>11, <1>12 DEF LocalInv
<1> QED
  BY <1>1, <1>4, <1>5, <1>13, CallKeeps

LEMMA ConfirmKeeps ==
    ASSUME DrillInv, NEW p \in Drill, Confirm(p)
    PROVE  DrillInv'
<1>1. PICK nd, e : nd = node /\ e = drill[p]
  OBVIOUS
<1>2. NodeOK(nd) /\ LocalInv(nd, p, e) /\ e \in Local /\ e.step = "confirm"
  BY <1>1 DEF DrillInv, LocalInv, Confirm, At
<1>3. CASE Coinbase(p)
  <2>1. PICK nn, d : nn = Generated(nd, Maturity) /\ d = [e EXCEPT !.step = "open"]
    OBVIOUS
  <2>2. Call(p, {nn}, d)
    BY <1>1, <1>3, <2>1 DEF Confirm, Goes
  <2>3. Safe(nd, p, nn) /\ LocalInv(nn, p, e)
    BY <1>2, <2>1, NodeAssumption, SafeGenerated
  <2>4. Len(nn.blocks) = Len(nd.blocks) + Maturity /\ Len(nd.blocks) \in Nat
    BY <1>2, <2>1, NodeAssumption, GeneratedShape, SortFacts DEF NodeOK
  <2>5. d \in Local /\ d.step = "open" /\ d.coins = e.coins /\ d.sent = e.sent
        /\ d.walk = e.walk
    BY <1>2, <2>1 DEF Local, Steps
  <2>6. p \in Stream /\ p \notin Hardening
    BY <1>3, TwoKinds DEF Coinbase
  <2>7. FreshInv(nn, p, d)
    BY <1>2, <2>3, <2>5, <2>6 DEF LocalInv, FreshInv, LastSent
  <2>8. SentInv(p, d) /\ WalkInv(p, d) /\ d.sent = 0
    BY <1>2, <1>3, <2>5, <2>6 DEF LocalInv, SentInv, WalkInv
  <2>9. CoinbaseInv(nn, p, d)
    <3>1. e.coins \in Numbers(nd) /\ e.coins \in Numbers(nn)
      BY <1>2, <1>3, <2>3 DEF LocalInv, CoinbaseInv, Out
    <3>2. e.coins + Maturity <= Len(nn.blocks)
      BY <2>4, <3>1, NodeAssumption DEF Numbers
    <3> QED
      BY <2>5, <2>8, <3>1, <3>2 DEF CoinbaseInv
  <2>10. WalletInv(nn, p, d) /\ AnchorInv(nn, p, d)
    BY <1>3, <2>6 DEF WalletInv, AnchorInv
  <2>11. LocalInv(nn, p, d)
    BY <2>5, <2>7, <2>8, <2>9, <2>10 DEF LocalInv
  <2> QED
    BY <1>1, <2>2, <2>3, <2>11, CallKeeps
<1>4. CASE ~Coinbase(p)
  <2>1. PICK nn, d : nn = Generated(nd, 1) /\ d = [e EXCEPT !.step = "send"]
    OBVIOUS
  <2>2. Call(p, {nn}, d)
    BY <1>1, <1>4, <2>1 DEF Confirm, Goes
  <2>3. Safe(nd, p, nn) /\ LocalInv(nn, p, e)
    BY <1>2, <2>1, SafeGenerated
  <2>4. d \in Local /\ d.step = "send" /\ d.coins = e.coins /\ d.sent = e.sent
        /\ d.walk = e.walk
    BY <1>2, <2>1 DEF Local, Steps
  <2>5. LastSent(p, d) = LastSent(p, e)
    BY <1>2, <2>4 DEF LastSent
  <2>6. FreshInv(nn, p, d)
    BY <1>2, <2>3, <2>4, <2>5 DEF LocalInv, FreshInv
  <2>7. SentInv(p, d) /\ WalkInv(p, d)
    BY <1>2, <2>4, Programs DEF LocalInv, SentInv, WalkInv
  <2>8. WalletInv(nn, p, d)
    BY <1>2, <1>4, <2>3, <2>4, <2>5 DEF LocalInv, WalletInv, Out
  <2>9. CoinbaseInv(nn, p, d) /\ AnchorInv(nn, p, d)
    BY <1>4, <2>4 DEF CoinbaseInv, AnchorInv
  <2>10. LocalInv(nn, p, d)
    BY <2>4, <2>6, <2>7, <2>8, <2>9 DEF LocalInv
  <2> QED
    BY <1>1, <2>2, <2>3, <2>10, CallKeeps
<1> QED
  BY <1>3, <1>4

LEMMA OpenCoinbaseKeeps ==
    ASSUME DrillInv, NEW p \in Drill, OpenCoinbase(p)
    PROVE  DrillInv'
<1>1. PICK nd, e : nd = node /\ e = drill[p]
  OBVIOUS
<1>2. NodeOK(nd) /\ LocalInv(nd, p, e) /\ e \in Local /\ e.step = "open"
  BY <1>1 DEF DrillInv, LocalInv, OpenCoinbase, At
<1>3. CASE Refused(p)
  BY <1>3, RefusedKeeps
<1>4. PICK d : d = [e EXCEPT !.step = "send"]
  OBVIOUS
<1>5. d \in Local /\ d.step = "send" /\ d.coins = e.coins /\ d.sent = e.sent
      /\ d.walk = e.walk
  BY <1>2, <1>4 DEF Local, Steps
<1>6. LocalInv(nd, p, d)
  <2>1. FreshInv(nd, p, d)
    <3>1. p \in Stream
      BY <1>2 DEF LocalInv, SentInv, Coinbase
    <3>2. LastSent(p, d) = LastSent(p, e)
      BY <1>5, <3>1 DEF LastSent
    <3> QED
      BY <1>2, <1>5, <3>2 DEF LocalInv, FreshInv
  <2>2. SentInv(p, d) /\ WalkInv(p, d)
    BY <1>2, <1>5, Programs DEF LocalInv, SentInv, WalkInv
  <2>3. CoinbaseInv(nd, p, d)
    BY <1>2, <1>5 DEF LocalInv, CoinbaseInv, Out
  <2>4. WalletInv(nd, p, d) /\ AnchorInv(nd, p, d)
    BY <1>2, <1>5 DEF LocalInv, WalletInv, AnchorInv, LastSent, Out
  <2> QED
    BY <1>5, <2>1, <2>2, <2>3, <2>4 DEF LocalInv
<1>7. Safe(nd, p, nd)
  BY <1>2, SafeSame
<1>8. PICK after : after = IF node.blocks[drill[p].coins].txs = {} THEN {node} ELSE {}
  OBVIOUS
<1>9. CASE Call(p, after, d)
  BY <1>1, <1>6, <1>7, <1>8, <1>9, CallKeeps
<1> QED
  BY <1>1, <1>3, <1>4, <1>8, <1>9 DEF OpenCoinbase, Goes
-----------------------------------------------------------------------------
(* The steps of a stream drill.                                            *)

LEMMA SendEntryKeeps ==
    ASSUME DrillInv, NEW s \in Stream, SendEntry(s)
    PROVE  DrillInv'
<1>1. PICK nd, e : nd = node /\ e = drill[s]
  OBVIOUS
<1>2. /\ s \in Drill /\ NodeOK(nd) /\ LocalInv(nd, s, e) /\ e \in Local
      /\ e.step = "send" /\ s \notin Hardening
  BY <1>1, TwoKinds DEF DrillInv, LocalInv, SendEntry, At, Drill
<1>3. PICK i : i = e.sent + 1
  OBVIOUS
<1>4. /\ e.sent \in Nat /\ i \in 1 .. Len(Program(s)) /\ i \in Nat /\ i - 1 = e.sent
      /\ e.coins \in Nat
  BY <1>2, <1>3, Programs DEF LocalInv, SentInv, Local
<1>5. PICK tx, d : /\ tx = [id |-> Txid(s, i),
                            spends |-> IF i = 1 /\ Coinbase(s) THEN NoTx ELSE Txid(s, i - 1),
                            coins |-> e.coins, entry |-> Entry(s, i, Link(s, i))]
                   /\ d = [e EXCEPT !.step = "mine", !.sent = i]
  OBVIOUS
<1>6. Call(s, Sent(nd, tx), d)
  <2>1. [Goes(s, "mine") EXCEPT !.sent = i] = d
    BY <1>1, <1>2, <1>5 DEF Goes, Local
  <2> QED
    BY <1>1, <1>3, <1>5, <2>1 DEF SendEntry
<1>7. /\ tx \in Tx /\ tx.id = Txid(s, i) /\ tx.coins = e.coins
      /\ tx.id[1] = s /\ tx.id[2] = i
      /\ tx.entry = Entry(s, i, Link(s, i))
  <2>1. Entry(s, i, Link(s, i)) \in Entries
    BY <1>4, Programs
  <2>2. Txid(s, i) \in Drill \X Nat /\ Txid(s, i - 1) \in Drill \X Nat
    BY <1>2, <1>4 DEF Txid
  <2> QED
    BY <1>4, <1>5, <2>1, <2>2 DEF Tx, Txid
<1>8. IsEntry(tx)
  BY <1>4, <1>7 DEF IsEntry
<1>9. \A t \in All(nd) : t.id[1] = s => t.id[2] <= e.sent
  BY <1>2 DEF LocalInv, FreshInv, LastSent
<1>10. \A t \in All(nd) : t.id # tx.id
  BY <1>4, <1>7, <1>9
<1>11. /\ d \in Local /\ d.step = "mine" /\ d.coins = e.coins /\ d.sent = i
       /\ d.walk = e.walk
  BY <1>2, <1>4, <1>5 DEF Local, Steps
<1>12. LastSent(s, d) = i /\ LastSent(s, e) = e.sent
  BY <1>11 DEF LastSent
<1>13. ASSUME NEW nn \in Sent(nd, tx) PROVE Safe(nd, s, nn) /\ LocalInv(nn, s, d)
  <2>1. /\ NodeOK(nn) /\ Grows(nd, nn) /\ All(nn) = All(nd) \cup {tx}
        /\ Known(nn) = Known(nd) \cup {tx} /\ nn.undone = nd.undone
        /\ nn.blocks = nd.blocks
    BY <1>2, <1>7, <1>8, <1>10, SentOK
  <2>2. Safe(nd, s, nn)
    BY <1>7, <2>1 DEF Safe
  <2>3. FreshInv(nn, s, d)
    <3>1. \A t \in All(nd) : t.id[1] = s => t.id[2] <= i
      <4>1. SUFFICES ASSUME NEW t \in All(nd), t.id[1] = s PROVE t.id[2] <= i
        OBVIOUS
      <4>2. t \in Tx
        BY <1>2, InAll DEF NodeOK
      <4>3. t.id[2] \in Nat /\ t.id[2] <= e.sent
        BY <1>9, <4>1, <4>2 DEF Tx
      <4> QED
        BY <1>4, <4>3
    <3> QED
      BY <1>4, <1>7, <1>11, <1>12, <2>1, <3>1 DEF FreshInv
  <2>4. WalletInv(nn, s, d)
    <3>1. SUFFICES ASSUME ~Coinbase(s)
                   PROVE  d.coins = Wallet /\ \A j \in 0 .. i : Keeps(nn, Txid(s, j))
      BY <1>12 DEF WalletInv
    <3>2. e.coins = Wallet /\ \A j \in 0 .. e.sent : Keeps(nd, Txid(s, j))
      BY <1>2, <1>12, <3>1 DEF LocalInv, WalletInv, Out
    <3>3. Keeps(nn, Txid(s, i))
      BY <1>7, <2>1, <3>2 DEF Keeps
    <3>4. \A j \in 0 .. e.sent : Keeps(nn, Txid(s, j))
      BY <2>1, <3>2 DEF Keeps
    <3>5. \A j \in 0 .. i : j \in 0 .. e.sent \/ j = i
      BY <1>4
    <3> QED
      BY <1>11, <3>2, <3>3, <3>4, <3>5
  <2>5. CoinbaseInv(nn, s, d)
    <3>1. SUFFICES ASSUME Coinbase(s)
                   PROVE  /\ e.coins \in Numbers(nn)
                          /\ ~nn.undone =>
                                /\ \A j \in 1 .. i : Waits(nn, Txid(s, j))
                                /\ e.coins + Maturity <= Len(nn.blocks)
      BY <1>11 DEF CoinbaseInv
    <3>2. /\ e.coins \in Numbers(nd)
          /\ ~nd.undone =>
                /\ \A j \in 1 .. e.sent : Waits(nd, Txid(s, j))
                /\ e.coins + Maturity <= Len(nd.blocks)
      BY <1>2, <3>1 DEF LocalInv, CoinbaseInv, Out
    <3>3. Waits(nn, Txid(s, i))
      BY <1>7, <2>1 DEF Waits
    <3>4. \A j \in 1 .. e.sent : Waits(nd, Txid(s, j)) => Waits(nn, Txid(s, j))
      BY <2>1 DEF Waits
    <3>5. \A j \in 1 .. i : j \in 1 .. e.sent \/ j = i
      BY <1>4
    <3> QED
      BY <2>1, <3>2, <3>3, <3>4, <3>5 DEF Numbers
  <2>6. SentInv(s, d) /\ WalkInv(s, d) /\ AnchorInv(nn, s, d)
    BY <1>2, <1>4, <1>11 DEF LocalInv, SentInv, WalkInv, AnchorInv
  <2> QED
    BY <1>11, <2>2, <2>3, <2>4, <2>5, <2>6 DEF LocalInv
<1> QED
  BY <1>1, <1>2, <1>6, <1>13, CallKeeps

\* A drill whose entry is in the chain sends the next or starts to walk.
LEMMA AfterEntryRelies ==
    ASSUME NEW nd, NEW s \in Stream, NEW e, LocalInv(nd, s, e),
           e.step \in {"mine", "discover"}, NEW d,
           d = IF e.sent < Len(Program(s)) THEN [e EXCEPT !.step = "send"]
               ELSE [e EXCEPT !.step = "walk", !.cursor = Txid(s, e.sent)]
    PROVE  LocalInv(nd, s, d)
<1>1. e \in Local /\ e.sent \in 1 .. Len(Program(s)) /\ s \notin Hardening /\ s \in Drill
      /\ Len(Program(s)) \in Nat /\ e.walk = <<>>
  BY TwoKinds, Programs DEF LocalInv, SentInv, WalkInv, Drill
<1>2. Txid(s, e.sent) \in Drill \X Nat
  BY <1>1 DEF Txid
<1>3. /\ d \in Local /\ d.coins = e.coins /\ d.sent = e.sent /\ d.walk = e.walk
      /\ IF e.sent < Len(Program(s)) THEN d.step = "send"
         ELSE d.step = "walk" /\ d.cursor = Txid(s, e.sent)
  BY <1>1, <1>2 DEF Local, Steps
<1>4. d.step \in {"send", "walk"} /\ LastSent(s, d) = LastSent(s, e)
  BY <1>3 DEF LastSent
<1>5. FreshInv(nd, s, d)
  BY <1>4 DEF LocalInv, FreshInv
<1>6. WalletInv(nd, s, d) /\ CoinbaseInv(nd, s, d) /\ AnchorInv(nd, s, d)
  BY <1>1, <1>3, <1>4 DEF LocalInv, WalletInv, CoinbaseInv, AnchorInv, Out
<1>7. SentInv(s, d)
  BY <1>1, <1>3 DEF SentInv
<1>8. WalkInv(s, d)
  <2>1. Len(d.walk) = 0 /\ d.walk = <<>>
    BY <1>1, <1>3
  <2> QED
    BY <1>1, <1>3, <2>1 DEF WalkInv
<1> QED
  BY <1>3, <1>5, <1>6, <1>7, <1>8 DEF LocalInv

LEMMA AfterEntryIs ==
    ASSUME NEW s \in Stream, drill[s] \in Local
    PROVE  AfterEntry(s) =
               IF drill[s].sent < Len(Program(s)) THEN [drill[s] EXCEPT !.step = "send"]
               ELSE [drill[s] EXCEPT !.step = "walk", !.cursor = Txid(s, drill[s].sent)]
<1>1. [Goes(s, "walk") EXCEPT !.cursor = Txid(s, drill[s].sent)] =
         [drill[s] EXCEPT !.step = "walk", !.cursor = Txid(s, drill[s].sent)]
  BY DEF Goes, Local
<1> QED
  BY <1>1 DEF AfterEntry, Goes, Program

LEMMA MineEntryKeeps ==
    ASSUME DrillInv, NEW s \in Stream, MineEntry(s)
    PROVE  DrillInv'
<1>1. PICK nd, e, nn : nd = node /\ e = drill[s] /\ nn = Generated(nd, 1)
  OBVIOUS
<1>2. /\ s \in Drill /\ NodeOK(nd) /\ LocalInv(nd, s, e) /\ e \in Local
      /\ e.step = "mine" /\ s \notin Hardening
  BY <1>1, TwoKinds DEF DrillInv, LocalInv, MineEntry, At, Drill
<1>3. Safe(nd, s, nn) /\ LocalInv(nn, s, e)
  BY <1>1, <1>2, SafeGenerated
<1>4. CASE Coinbase(s)
  <2>1. PICK d : d = [e EXCEPT !.step = "discover"]
    OBVIOUS
  <2>2. Call(s, {nn}, d)
    BY <1>1, <1>4, <2>1 DEF MineEntry, Goes
  <2>3. d \in Local /\ d.coins = e.coins /\ d.sent = e.sent /\ d.walk = e.walk
        /\ d.step = "discover" /\ LastSent(s, d) = LastSent(s, e)
    BY <1>2, <2>1 DEF Local, Steps, LastSent
  <2>4. LocalInv(nn, s, d)
    <3>1. FreshInv(nn, s, d) /\ WalletInv(nn, s, d) /\ CoinbaseInv(nn, s, d)
      BY <1>2, <1>3, <1>4, <2>3 DEF LocalInv, FreshInv, WalletInv, CoinbaseInv, Out
    <3>2. SentInv(s, d) /\ WalkInv(s, d) /\ AnchorInv(nn, s, d)
      BY <1>2, <1>3, <2>3 DEF LocalInv, SentInv, WalkInv, AnchorInv
    <3> QED
      BY <2>3, <3>1, <3>2 DEF LocalInv
  <2> QED
    BY <1>1, <1>2, <1>3, <2>2, <2>4, CallKeeps
<1>5. CASE ~Coinbase(s)
  <2>1. PICK d : d = AfterEntry(s)
    OBVIOUS
  <2>2. Call(s, {nn}, d)
    BY <1>1, <1>5, <2>1 DEF MineEntry
  <2>3. LocalInv(nn, s, d)
    BY <1>1, <1>2, <1>3, <2>1, AfterEntryIs, AfterEntryRelies
  <2> QED
    BY <1>1, <1>2, <1>3, <2>2, <2>3, CallKeeps
<1> QED
  BY <1>4, <1>5

LEMMA DiscoverKeeps ==
    ASSUME DrillInv, NEW s \in Stream, Discover(s)
    PROVE  DrillInv'
<1>1. PICK nd, e, d : nd = node /\ e = drill[s] /\ d = AfterEntry(s)
  OBVIOUS
<1>2. /\ s \in Drill /\ NodeOK(nd) /\ LocalInv(nd, s, e) /\ e \in Local
      /\ e.step = "discover"
  BY <1>1 DEF DrillInv, LocalInv, Discover, At, Drill
<1>3. Safe(nd, s, nd) /\ LocalInv(nd, s, d)
  BY <1>1, <1>2, SafeSame, AfterEntryIs, AfterEntryRelies
<1>4. CASE Call(s, {nd}, d)
  BY <1>1, <1>2, <1>3, <1>4, CallKeeps
<1>5. CASE Refused(s)
  BY <1>2, <1>5, RefusedKeeps
<1> QED
  BY <1>1, <1>4, <1>5 DEF Discover, Missing

LEMMA EverythingIsAll ==
    ASSUME NodeOK(node)
    PROVE  Everything = All(node)
<1>1. DOMAIN node.blocks = Numbers(node)
  BY SortFacts DEF NodeOK
<1>2. Range(node.blocks) = {node.blocks[i] : i \in Numbers(node)}
  BY <1>1 DEF Range
<1>3. ASSUME NEW t PROVE t \in Everything <=> t \in All(node)
  BY <1>2, Members DEF Everything
<1> QED
  BY <1>3

\* One entry back.
LEMMA WalkRelies ==
    ASSUME NEW nd, NodeOK(nd), NEW s \in Stream, NEW e, LocalInv(nd, s, e),
           e.step = "walk", NEW t \in All(nd), t.id = e.cursor, NEW d,
           d = [e EXCEPT !.walk = Append(@, t.entry), !.cursor = t.entry.prev,
                         !.step = IF t.entry.prev = NoTx THEN "compare" ELSE "walk"]
    PROVE  LocalInv(nd, s, d)
<1>1. /\ e \in Local /\ e.walk \in Seq(Entries) /\ Len(e.walk) \in Nat
      /\ s \notin Hardening /\ s \in Drill
      /\ e.sent = Len(Program(s)) /\ e.sent \in Nat /\ Len(e.walk) < e.sent
      /\ e.cursor = Txid(s, e.sent - Len(e.walk))
  <2>1. e \in Local /\ SentInv(s, e) /\ WalkInv(s, e)
    BY DEF LocalInv
  <2>2. e.walk \in Seq(Entries) /\ e.sent \in Nat
    BY <2>1 DEF Local
  <2> QED
    BY <2>1, <2>2, TwoKinds DEF SentInv, WalkInv, Drill
<1>2. PICK i : i = e.sent - Len(e.walk)
  OBVIOUS
<1>3. i \in 1 .. Len(Program(s)) /\ i \in Nat /\ i # 0
  BY <1>1, <1>2
<1>4. t.id[1] = s /\ t.id[2] = i /\ IsEntry(t)
  BY <1>1, <1>2 DEF Txid, NodeOK, IdsOK
<1>5. t.entry = Entry(s, i, Link(s, i))
  BY <1>3, <1>4 DEF IsEntry
<1>6. t.entry \in Entries /\ t.entry.prev = Link(s, i)
  BY <1>3, <1>5, Programs DEF Entry
<1>7. /\ (Link(s, i) = NoTx) <=> (i = 1)
      /\ i # 1 => Link(s, i) = Txid(s, i - 1)
      /\ Link(s, i) \in (Drill \X Nat) \cup {NoTx}
  BY <1>1, <1>3 DEF Link, Txid, NoTx
<1>8. /\ d \in Local /\ d.coins = e.coins /\ d.sent = e.sent
      /\ d.walk = Append(e.walk, t.entry) /\ d.cursor = Link(s, i)
      /\ d.step = IF i = 1 THEN "compare" ELSE "walk"
  <2>1. Append(e.walk, t.entry) \in Seq(Entries)
    BY <1>1, <1>6
  <2> QED
    BY <1>1, <1>6, <1>7, <2>1 DEF Local, Steps
<1>9. d.step \in {"compare", "walk"} /\ LastSent(s, d) = LastSent(s, e)
  BY <1>8 DEF LastSent
<1>10. FreshInv(nd, s, d)
  BY <1>9 DEF LocalInv, FreshInv
<1>11. WalletInv(nd, s, d) /\ CoinbaseInv(nd, s, d) /\ AnchorInv(nd, s, d)
  BY <1>1, <1>8, <1>9 DEF LocalInv, WalletInv, CoinbaseInv, AnchorInv, Out
<1>12. SentInv(s, d)
  BY <1>1, <1>8, <1>9 DEF SentInv
<1>13. WalkInv(s, d)
  <2>1. Len(d.walk) = Len(e.walk) + 1
    BY <1>1, <1>6, <1>8
  <2>2. ASSUME NEW j \in 1 .. Len(d.walk)
        PROVE  d.walk[j] = Entry(s, d.sent + 1 - j, Link(s, d.sent + 1 - j))
    <3>1. CASE j = Len(e.walk) + 1
      <4>1. d.walk[j] = t.entry /\ d.sent + 1 - j = i
        BY <1>1, <1>2, <1>6, <1>8, <3>1
      <4> QED
        BY <1>5, <4>1
    <3>2. CASE j # Len(e.walk) + 1
      <4>1. j \in 1 .. Len(e.walk) /\ d.walk[j] = e.walk[j]
        BY <1>1, <1>6, <1>8, <2>1, <3>2
      <4> QED
        BY <1>8, <4>1 DEF LocalInv, WalkInv
    <3> QED
      BY <3>1, <3>2
  <2>3. d.step = "walk" => /\ Len(d.walk) < d.sent
                           /\ d.cursor = Txid(s, d.sent - Len(d.walk))
    <3>1. SUFFICES ASSUME i # 1
                   PROVE  Len(d.walk) < d.sent /\ d.sent - Len(d.walk) = i - 1
      BY <1>7, <1>8
    <3> QED
      BY SMTT(20), <1>1, <1>2, <1>3, <1>8, <2>1, <3>1
  <2>4. d.step = "compare" => Len(d.walk) = d.sent
    BY <1>1, <1>2, <1>8, <2>1
  <2> QED
    BY <1>9, <2>2, <2>3, <2>4 DEF WalkInv
<1> QED
  BY <1>8, <1>10, <1>11, <1>12, <1>13 DEF LocalInv

LEMMA WalkKeeps ==
    ASSUME DrillInv, NEW s \in Stream, Walk(s)
    PROVE  DrillInv'
<1>1. PICK nd, e : nd = node /\ e = drill[s]
  OBVIOUS
<1>2. /\ s \in Drill /\ NodeOK(nd) /\ LocalInv(nd, s, e) /\ e.step = "walk"
      /\ Safe(nd, s, nd)
  BY <1>1, SafeSame DEF DrillInv, Walk, At, Drill
<1>3. CASE Refused(s)
  BY <1>2, <1>3, RefusedKeeps
<1>4. ASSUME NEW t \in Everything, t.id = e.cursor, NEW d,
             d = [e EXCEPT !.walk = Append(@, t.entry), !.cursor = t.entry.prev,
                           !.step = IF t.entry.prev = NoTx THEN "compare" ELSE "walk"],
             Call(s, {nd}, d)
      PROVE  DrillInv'
  <2>1. t \in All(nd)
    BY <1>1, <1>2, <1>4, EverythingIsAll
  <2>2. LocalInv(nd, s, d)
    BY <1>2, <1>4, <2>1, WalkRelies
  <2> QED
    BY <1>1, <1>2, <1>4, <2>2, CallKeeps
<1> QED
  BY <1>1, <1>3, <1>4 DEF Walk, Missing

LEMMA CompareKeeps ==
    ASSUME DrillInv, NEW s \in Stream, Compare(s)
    PROVE  DrillInv'
<1>1. PICK nd, e, d : nd = node /\ e = drill[s] /\ d = [e EXCEPT !.step = "PASS"]
  OBVIOUS
<1>2. /\ s \in Drill /\ NodeOK(nd) /\ LocalInv(nd, s, e) /\ e \in Local
      /\ e.step = "compare" /\ Safe(nd, s, nd) /\ s \notin Hardening
  BY <1>1, SafeSame, TwoKinds DEF DrillInv, LocalInv, Compare, At, Drill
<1>3. d \in Local /\ d.coins = e.coins /\ d.sent = e.sent /\ d.walk = e.walk
      /\ d.step = "PASS" /\ LastSent(s, d) = LastSent(s, e)
  BY <1>1, <1>2 DEF Local, Steps, LastSent
<1>4. LocalInv(nd, s, d)
  <2>1. FreshInv(nd, s, d) /\ WalletInv(nd, s, d) /\ CoinbaseInv(nd, s, d)
    BY <1>2, <1>3 DEF LocalInv, FreshInv, WalletInv, CoinbaseInv, Out
  <2>2. SentInv(s, d) /\ WalkInv(s, d) /\ AnchorInv(nd, s, d)
    BY <1>2, <1>3 DEF LocalInv, SentInv, WalkInv, AnchorInv
  <2> QED
    BY <1>3, <2>1, <2>2 DEF LocalInv
<1>5. LocalInv(nd, s, [e EXCEPT !.step = "FAIL"])
  BY <1>2, FailedRelies
<1>6. CASE Passes(s)
  BY <1>1, <1>2, <1>4, <1>6, AnsweredKeeps DEF Compare, Goes
<1>7. CASE ~Passes(s)
  BY <1>1, <1>2, <1>5, <1>7, AnsweredKeeps DEF Compare, Goes
<1> QED
  BY <1>6, <1>7
-----------------------------------------------------------------------------
(* The steps of the hardening drill.                                       *)

LEMMA OriginateKeeps ==
    ASSUME DrillInv, NEW h \in Hardening, Originate(h)
    PROVE  DrillInv'
<1>1. PICK nd, e : nd = node /\ e = drill[h]
  OBVIOUS
<1>2. /\ h \in Drill /\ NodeOK(nd) /\ LocalInv(nd, h, e) /\ e \in Local
      /\ e.step = "send" /\ h \notin Stream /\ ~Coinbase(h)
  BY <1>1, TwoKinds DEF DrillInv, LocalInv, Originate, At, Drill, Coinbase
<1>3. PICK tx, d : /\ tx = [id |-> Txid(h, 1), spends |-> Txid(h, 0),
                            coins |-> Wallet, entry |-> NoTx]
                   /\ d = [e EXCEPT !.step = "anchor"]
  OBVIOUS
<1>4. Call(h, Sent(nd, tx), d)
  BY <1>1, <1>3 DEF Originate, EntrySent, Goes
<1>5. tx \in Tx /\ IsEntry(tx) /\ tx.id = Txid(h, 1) /\ tx.coins = Wallet
      /\ tx.id[1] = h /\ tx.id[2] = 1
  <2>1. Txid(h, 0) \in Drill \X Nat /\ Txid(h, 1) \in Drill \X Nat
    BY <1>2 DEF Txid
  <2> QED
    BY <1>2, <1>3, <2>1 DEF Tx, IsEntry, Txid, Wallet, Entries
<1>6. LastSent(h, e) = 0
  BY <1>2 DEF LastSent
<1>7. \A t \in All(nd) : t.id[1] = h => t.id[2] <= 0
  BY <1>2, <1>6 DEF LocalInv, FreshInv
<1>8. \A t \in All(nd) : t.id # tx.id
  BY <1>5, <1>7
<1>9. d \in Local /\ d.step = "anchor" /\ d.coins = e.coins /\ LastSent(h, d) = 1
  BY <1>2, <1>3 DEF Local, Steps, LastSent
<1>10. ASSUME NEW nn \in Sent(nd, tx) PROVE Safe(nd, h, nn) /\ LocalInv(nn, h, d)
  <2>1. /\ NodeOK(nn) /\ Grows(nd, nn) /\ All(nn) = All(nd) \cup {tx}
        /\ Known(nn) = Known(nd) \cup {tx}
    BY <1>2, <1>5, <1>8, SentOK
  <2>2. Safe(nd, h, nn)
    BY <1>5, <2>1 DEF Safe
  <2>3. FreshInv(nn, h, d)
    <3>1. \A t \in All(nd) : t.id[1] = h => t.id[2] <= 1
      <4>1. SUFFICES ASSUME NEW t \in All(nd), t.id[1] = h PROVE t.id[2] <= 1
        OBVIOUS
      <4>2. t \in Tx
        BY <1>2, InAll DEF NodeOK
      <4>3. t.id[2] \in Nat /\ t.id[2] <= 0
        BY <1>7, <4>1, <4>2 DEF Tx
      <4> QED
        BY <4>3
    <3> QED
      BY <1>5, <1>9, <2>1, <3>1 DEF FreshInv
  <2>4. WalletInv(nn, h, d)
    <3>1. e.coins = Wallet /\ Keeps(nd, Txid(h, 0))
      BY <1>2, <1>6 DEF LocalInv, WalletInv, Out
    <3>2. Keeps(nn, Txid(h, 0)) /\ Keeps(nn, Txid(h, 1))
      BY <1>5, <2>1, <3>1 DEF Keeps
    <3>3. \A i \in 0 .. 1 : i = 0 \/ i = 1
      OBVIOUS
    <3> QED
      BY <1>9, <3>1, <3>2, <3>3 DEF WalletInv
  <2>5. SentInv(h, d) /\ WalkInv(h, d) /\ CoinbaseInv(nn, h, d) /\ AnchorInv(nn, h, d)
    BY <1>2, <1>9 DEF SentInv, WalkInv, CoinbaseInv, AnchorInv
  <2> QED
    BY <1>9, <2>2, <2>3, <2>4, <2>5 DEF LocalInv
<1> QED
  BY <1>1, <1>2, <1>4, <1>10, CallKeeps

\* What stays when only the anchor of a hardening drill changes.
LEMMA AnchorRelies ==
    ASSUME NEW nd, NEW h \in Hardening, NEW e, LocalInv(nd, h, e), NEW d \in Local,
           d.coins = e.coins, d.step # "FAIL", d.step # "open", e.step # "FAIL",
           e.step \notin {"fund", "idle", "confirm", "send"},
           d.step \notin {"fund", "idle", "confirm", "send"},
           AnchorInv(nd, h, d)
    PROVE  LocalInv(nd, h, d)
<1>1. h \notin Stream /\ ~Coinbase(h)
  BY TwoKinds DEF Coinbase, Drill
<1>2. LastSent(h, d) = 1 /\ LastSent(h, e) = 1
  BY <1>1 DEF LastSent
<1>3. FreshInv(nd, h, d) /\ WalletInv(nd, h, d)
  BY <1>2 DEF LocalInv, FreshInv, WalletInv, Out
<1>4. SentInv(h, d) /\ WalkInv(h, d) /\ CoinbaseInv(nd, h, d)
  BY <1>1 DEF SentInv, WalkInv, CoinbaseInv
<1> QED
  BY <1>3, <1>4 DEF LocalInv

\* The height of a tip, which the drill notes.
LEMMA TipFacts ==
    ASSUME NEW nd, NodeOK(nd)
    PROVE  /\ Height(nd, nd.tip) \in Nat /\ Height(nd, nd.tip) <= Len(nd.blocks)
           /\ Len(nd.blocks) \in Nat /\ nd.tip \in Nat
           /\ \A b \in Numbers(nd) : Height(nd, b) \in Nat /\ b \in Nat
<1>1. nd \in NodeSort /\ TreeOK(nd)
  BY DEF NodeOK
<1>2. Len(nd.blocks) \in Nat /\ nd.tip \in 0 .. Len(nd.blocks)
  BY <1>1, SortFacts
<1>3. \A b \in 0 .. Len(nd.blocks) : Height(nd, b) \in 0 .. b
  BY <1>1, Heights
<1>4. \A b \in Numbers(nd) : b \in 0 .. Len(nd.blocks)
  BY <1>2 DEF Numbers
<1> QED
  BY <1>2, <1>3, <1>4

LEMMA AnchorKeeps ==
    ASSUME DrillInv, NEW h \in Hardening, Anchor(h)
    PROVE  DrillInv'
<1>1. PICK nd, e, nn : nd = node /\ e = drill[h] /\ nn = Generated(nd, 1)
  OBVIOUS
<1>2. /\ h \in Drill /\ NodeOK(nd) /\ LocalInv(nd, h, e) /\ e \in Local
      /\ e.step = "anchor" /\ h \notin Stream /\ ~Coinbase(h)
  BY <1>1, TwoKinds DEF DrillInv, LocalInv, Anchor, At, Drill, Coinbase
<1>3. Safe(nd, h, nn) /\ LocalInv(nn, h, e) /\ NodeOK(nn)
  BY <1>1, <1>2, SafeGenerated DEF Safe
<1>4. PICK d : d = [e EXCEPT !.step = "bury", !.block = nn.tip, !.tip = Height(nn, nn.tip)]
  OBVIOUS
<1>5. Call(h, {nn}, d)
  <2>1. [Goes(h, "bury") EXCEPT !.block = nn.tip, !.tip = Height(nn, nn.tip)] = d
    BY <1>1, <1>2, <1>4 DEF Goes, Local
  <2> QED
    BY <1>1, <2>1 DEF Anchor
<1>6. /\ Height(nn, nn.tip) \in Nat /\ Height(nn, nn.tip) <= Len(nn.blocks)
      /\ Len(nn.blocks) \in Nat /\ nn.tip \in Nat
  BY <1>3, TipFacts
<1>7. /\ d \in Local /\ d.coins = e.coins /\ d.step = "bury" /\ d.block = nn.tip
      /\ d.tip = Height(nn, nn.tip)
  BY <1>2, <1>4, <1>6 DEF Local, Steps
<1>8. nn.tip \in Numbers(nn) /\ Mined(nn, nn.tip) = Known(nd)
  <2>1. nd \in NodeSort /\ TreeOK(nd)
    BY <1>2 DEF NodeOK
  <2>2. Len(nn.blocks) = Len(nd.blocks) + 1 /\ nn.tip = Len(nn.blocks)
    BY <1>1, <2>1, GeneratedShape
  <2>3. Len(nd.blocks) \in Nat
    BY <2>1, SortFacts
  <2>4. Mined(nn, nn.tip) = Mined(nd, nd.tip) \cup nd.pool
    BY <1>1, <2>1, GeneratedMoves
  <2> QED
    BY <2>2, <2>3, <2>4 DEF Numbers, Known
<1>9. \E t \in Mined(nn, nn.tip) : t.id = Txid(h, 1)
  <2>1. LastSent(h, e) = 1
    BY <1>2 DEF LastSent
  <2>2. Keeps(nd, Txid(h, 1))
    BY <1>2, <2>1 DEF LocalInv, WalletInv, Out
  <2> QED
    BY <1>8, <2>2 DEF Keeps
<1>10. AnchorInv(nn, h, d)
  BY <1>6, <1>7, <1>8, <1>9 DEF AnchorInv
<1>11. LocalInv(nn, h, d)
  BY <1>2, <1>3, <1>7, <1>10, AnchorRelies
<1> QED
  BY <1>1, <1>2, <1>3, <1>5, <1>11, CallKeeps

\* The node after the drill has mined for depth, and the depth it reads off.
LEMMA BuryFacts ==
    ASSUME NEW nd, NodeOK(nd), NEW h \in Hardening, NEW e, LocalInv(nd, h, e),
           e.step = "bury", NEW nn, nn = Generated(nd, ConfDepth - 1)
    PROVE  /\ Safe(nd, h, nn) /\ LocalInv(nn, h, e) /\ NodeOK(nn)
           /\ e.block \in Numbers(nd) /\ e.block \in Numbers(nn)
           /\ Height(nn, e.block) = Height(nd, e.block)
           /\ Height(nd, e.block) \in Nat /\ e.tip = Height(nd, e.block)
           /\ Len(nn.blocks) = Len(nd.blocks) + ConfDepth - 1
           /\ nn.undone = nd.undone
<1>1. ConfDepth - 1 \in Nat \ {0} /\ ConfDepth \in Nat
  BY DrillAssumption
<1>2. nd \in NodeSort /\ TreeOK(nd)
  BY DEF NodeOK
<1>3. Safe(nd, h, nn) /\ LocalInv(nn, h, e) /\ NodeOK(nn)
  BY <1>1, SafeGenerated DEF Safe
<1>4. /\ e.block \in Numbers(nd) /\ e.tip = Height(nd, e.block)
      /\ e.block \in Numbers(nn)
  BY <1>3 DEF LocalInv, AnchorInv
<1>5. Height(nd, e.block) \in Nat /\ Len(nd.blocks) \in Nat
  BY <1>4, TipFacts
<1>6. Height(nn, e.block) = Height(nd, e.block)
  <2>1. e.block \in 0 .. Len(nd.blocks)
    BY <1>4, <1>5 DEF Numbers
  <2>2. Chain(nn, e.block) = Chain(nd, e.block)
    BY <1>1, <1>2, <2>1, GeneratedTree
  <2> QED
    BY <2>2 DEF Height
<1>7. Len(nn.blocks) = Len(nd.blocks) + (ConfDepth - 1) /\ nn.undone = nd.undone
  BY <1>1, <1>2, GeneratedShape
<1> QED
  BY <1>1, <1>3, <1>4, <1>5, <1>6, <1>7

LEMMA BuryKeeps ==
    ASSUME DrillInv, NEW h \in Hardening, Bury(h)
    PROVE  DrillInv'
<1>1. PICK nd, e, nn : nd = node /\ e = drill[h] /\ nn = Generated(nd, ConfDepth - 1)
  OBVIOUS
<1>2. /\ h \in Drill /\ NodeOK(nd) /\ LocalInv(nd, h, e) /\ e \in Local
      /\ e.step = "bury"
  BY <1>1 DEF DrillInv, LocalInv, Bury, At, Drill
<1>3. /\ Safe(nd, h, nn) /\ LocalInv(nn, h, e) /\ NodeOK(nn)
      /\ e.block \in Numbers(nd) /\ e.block \in Numbers(nn)
      /\ Height(nn, e.block) = Height(nd, e.block)
  BY <1>1, <1>2, BuryFacts
<1>4. PICK d : d = [e EXCEPT !.tip = Height(nn, nn.tip)]
  OBVIOUS
<1>5. PICK gated \in BOOLEAN :
          gated <=> (Depth(e) < ConfDepth /\ Depth(d) >= ConfDepth)
  OBVIOUS
<1>6. PICK c : c = [d EXCEPT !.step = IF gated THEN "check" ELSE "FAIL"]
  OBVIOUS
<1>7. Call(h, {nn}, c)
  BY <1>1, <1>4, <1>5, <1>6 DEF Bury
<1>8. Height(nn, nn.tip) \in Nat /\ Height(nn, nn.tip) <= Len(nn.blocks)
  BY <1>3, TipFacts
<1>9. /\ d \in Local /\ c \in Local /\ d.tip = Height(nn, nn.tip)
      /\ c.tip = d.tip /\ c.coins = e.coins /\ c.block = e.block /\ d.block = e.block
      /\ d.step = e.step /\ d.coins = e.coins
      /\ c.step = IF gated THEN "check" ELSE "FAIL"
  BY <1>2, <1>4, <1>6, <1>8 DEF Local, Steps
<1>10. CASE gated
  <2>1. d.tip - Height(nn, d.block) + 1 >= ConfDepth
    BY <1>1, <1>3, <1>5, <1>9, <1>10 DEF Depth
  <2>2. \E t \in Mined(nn, e.block) : t.id = Txid(h, 1)
    BY <1>2, <1>3 DEF LocalInv, AnchorInv
  <2>3. AnchorInv(nn, h, c)
    BY <1>3, <1>8, <1>9, <1>10, <2>1, <2>2 DEF AnchorInv
  <2>4. LocalInv(nn, h, c)
    BY <1>2, <1>3, <1>9, <1>10, <2>3, AnchorRelies
  <2> QED
    BY <1>1, <1>2, <1>3, <1>7, <2>4, CallKeeps
<1>11. CASE ~gated
  <2>1. c = [d EXCEPT !.step = "FAIL"]
    BY <1>6, <1>11
  <2>2. WalletInv(nn, h, c) /\ c.step = "FAIL"
    BY <1>3, <1>9, <1>11 DEF LocalInv, WalletInv, Out
  <2>3. FreshInv(nn, h, c) /\ CoinbaseInv(nn, h, c) /\ SentInv(h, c) /\ WalkInv(h, c)
        /\ AnchorInv(nn, h, c)
    BY <2>2 DEF FreshInv, CoinbaseInv, Out, SentInv, WalkInv, AnchorInv
  <2>4. LocalInv(nn, h, c)
    BY <1>9, <2>2, <2>3 DEF LocalInv
  <2> QED
    BY <1>1, <1>2, <1>3, <1>7, <2>4, CallKeeps
<1> QED
  BY <1>10, <1>11

\* The drill goes on to a step that asks no more of its anchor.
LEMMA NextRelies ==
    ASSUME NEW nd, NEW h \in Hardening, NEW e, LocalInv(nd, h, e), NEW d \in Local,
           e.step \in {"check", "reorg", "recheck", "restore", "poll"},
           d.step \in {"reorg", "recheck", "restore", "poll", "PASS"},
           d.step \in {"recheck", "restore", "poll"} => nd.undone,
           d.coins = e.coins, d.block = e.block
    PROVE  LocalInv(nd, h, d)
<1>1. AnchorInv(nd, h, d)
  <2>1. e.block \in Numbers(nd) /\ \E t \in Mined(nd, e.block) : t.id = Txid(h, 1)
    BY DEF LocalInv, AnchorInv
  <2> QED
    BY <2>1 DEF AnchorInv
<1> QED
  BY <1>1, AnchorRelies

LEMMA CheckChainKeeps ==
    ASSUME DrillInv, NEW h \in Hardening, CheckChain(h)
    PROVE  DrillInv'
<1>1. PICK nd, e, d : nd = node /\ e = drill[h] /\ d = [e EXCEPT !.step = "reorg"]
  OBVIOUS
<1>2. /\ h \in Drill /\ NodeOK(nd) /\ LocalInv(nd, h, e) /\ e \in Local
      /\ e.step = "check" /\ Safe(nd, h, nd)
  BY <1>1, SafeSame DEF DrillInv, LocalInv, CheckChain, At, Drill
<1>3. d \in Local /\ d.step = "reorg" /\ d.coins = e.coins /\ d.block = e.block
  BY <1>1, <1>2 DEF Local, Steps
<1>4. LocalInv(nd, h, d)
  BY <1>2, <1>3, NextRelies
<1>5. LocalInv(nd, h, [e EXCEPT !.step = "FAIL"])
  BY <1>2, FailedRelies
<1>6. CASE InChain(drill[h].block)
  BY <1>1, <1>2, <1>4, <1>6, CallKeeps DEF CheckChain, Goes
<1>7. CASE ~InChain(drill[h].block)
  BY <1>1, <1>2, <1>5, <1>7, CallKeeps DEF CheckChain, Goes
<1> QED
  BY <1>6, <1>7

\* An invalidation takes the block, if it was active, off the chain.
LEMMA Undoes ==
    ASSUME NEW nd, NodeOK(nd), NEW b \in Numbers(nd), NEW nn \in Invalidated(nd, b)
    PROVE  nn.undone
<1>1. nd \in NodeSort /\ TreeOK(nd) /\ nd.undone \in BOOLEAN
  BY DEF NodeOK, NodeSort
<1>2. PICK bad : bad = nd.bad \cup {b}
  OBVIOUS
<1>3. nn = [nd EXCEPT !.bad = bad] \/ \E c : nn = Switched(nd, bad, c)
  BY <1>2 DEF Invalidated, Settled
<1>4. CASE nn = [nd EXCEPT !.bad = bad]
  <2>1. nn.undone = nd.undone
    BY <1>1, <1>4 DEF NodeSort
  <2>2. CASE nd.undone
    BY <2>1, <2>2
  <2>3. CASE ~nd.undone /\ nd.tip \in {c \in 0 .. Len(nd.blocks) : Chain(nd, c) \cap bad = {}}
    <3>1. b \in Chain(nd, nd.tip)
      BY <2>3, InLine
    <3> QED
      BY <1>2, <2>3, <3>1
  <2>4. CASE ~nd.undone /\ nd.tip \notin {c \in 0 .. Len(nd.blocks) : Chain(nd, c) \cap bad = {}}
    <3>1. \E c : nn = Switched(nd, bad, c)
      BY <1>2, <2>4 DEF Invalidated, Settled
    <3>2. nn.undone = TRUE
      BY <1>1, <3>1 DEF Switched, NodeSort
    <3> QED
      BY <3>2
  <2> QED
    BY <2>2, <2>3, <2>4
<1>5. ASSUME NEW c, nn = Switched(nd, bad, c) PROVE nn.undone
  BY <1>1, <1>5 DEF Switched, NodeSort
<1> QED
  BY <1>3, <1>4, <1>5

LEMMA InvalidateBlockKeeps ==
    ASSUME DrillInv, NEW h \in Hardening, InvalidateBlock(h)
    PROVE  DrillInv'
<1>1. PICK nd, e, d : nd = node /\ e = drill[h] /\ d = [e EXCEPT !.step = "recheck"]
  OBVIOUS
<1>2. /\ h \in Drill /\ NodeOK(nd) /\ LocalInv(nd, h, e) /\ e \in Local
      /\ e.step = "reorg"
  BY <1>1 DEF DrillInv, LocalInv, InvalidateBlock, At, Drill
<1>3. d \in Local /\ d.step = "recheck" /\ d.coins = e.coins /\ d.block = e.block
  BY <1>1, <1>2 DEF Local, Steps
<1>4. e.block \in Numbers(nd) /\ e.block \in Nat
  <2>1. e.block \in Numbers(nd)
    BY <1>2 DEF LocalInv, AnchorInv
  <2> QED
    BY <1>2, <2>1, TipFacts
<1>5. nd.bad \cup {e.block} \in SUBSET Nat
  BY <1>2, <1>4 DEF NodeOK, NodeSort
<1>6. ASSUME NEW nn \in Invalidated(nd, e.block)
      PROVE  Safe(nd, h, nn) /\ LocalInv(nn, h, d)
  <2>1. nn \in Settled(nd, nd.bad \cup {e.block})
    BY <1>6 DEF Invalidated
  <2>2. Safe(nd, h, nn) /\ LocalInv(nn, h, e)
    BY <1>2, <1>5, <2>1, SafeSettled
  <2>3. nn.undone
    BY <1>2, <1>4, <1>6, Undoes
  <2> QED
    BY <1>2, <1>3, <2>2, <2>3, NextRelies
<1>7. Call(h, Invalidated(nd, e.block), d)
  BY <1>1 DEF InvalidateBlock, Goes
<1> QED
  BY <1>1, <1>2, <1>6, <1>7, CallKeeps

LEMMA CheckDivergenceKeeps ==
    ASSUME DrillInv, NEW h \in Hardening, CheckDivergence(h)
    PROVE  DrillInv'
<1>1. PICK nd, e, d : nd = node /\ e = drill[h] /\ d = [e EXCEPT !.step = "restore"]
  OBVIOUS
<1>2. /\ h \in Drill /\ NodeOK(nd) /\ LocalInv(nd, h, e) /\ e \in Local
      /\ e.step = "recheck" /\ Safe(nd, h, nd)
  BY <1>1, SafeSame DEF DrillInv, LocalInv, CheckDivergence, At, Drill
<1>3. d \in Local /\ d.step = "restore" /\ d.coins = e.coins /\ d.block = e.block
  BY <1>1, <1>2 DEF Local, Steps
<1>4. nd.undone
  BY <1>2 DEF LocalInv, AnchorInv
<1>5. LocalInv(nd, h, d)
  BY <1>2, <1>3, <1>4, NextRelies
<1>6. LocalInv(nd, h, [e EXCEPT !.step = "FAIL"])
  BY <1>2, FailedRelies
<1>7. CASE Answered(h, {nd}, [e EXCEPT !.step = "FAIL"])
  BY <1>1, <1>2, <1>6, <1>7, AnsweredKeeps
<1>8. CASE Answered(h, {nd}, d)
  BY <1>1, <1>2, <1>5, <1>8, AnsweredKeeps
<1>9. CASE Errs(h, {nd}, d)
  BY <1>1, <1>2, <1>5, <1>9, ErrsKeeps
<1> QED
  BY <1>1, <1>7, <1>8, <1>9 DEF CheckDivergence, Goes

LEMMA ReconsiderBlockKeeps ==
    ASSUME DrillInv, NEW h \in Hardening, ReconsiderBlock(h)
    PROVE  DrillInv'
<1>1. PICK nd, e, c, d : /\ nd = node /\ e = drill[h]
                         /\ c = [e EXCEPT !.step = "poll"]
                         /\ d = [e EXCEPT !.step = "PASS"]
  OBVIOUS
<1>2. /\ h \in Drill /\ NodeOK(nd) /\ LocalInv(nd, h, e) /\ e \in Local
      /\ e.step = "restore"
  BY <1>1 DEF DrillInv, LocalInv, ReconsiderBlock, At, Drill
<1>3. /\ c \in Local /\ c.step = "poll" /\ c.coins = e.coins /\ c.block = e.block
      /\ d \in Local /\ d.step = "PASS" /\ d.coins = e.coins /\ d.block = e.block
  BY <1>1, <1>2 DEF Local, Steps
<1>4. PICK after : after = Reconsidered(nd, e.block)
  OBVIOUS
<1>5. ASSUME NEW nn \in after
      PROVE  Safe(nd, h, nn) /\ LocalInv(nn, h, c) /\ LocalInv(nn, h, d)
  <2>1. PICK bad : bad = {x \in nd.bad : e.block \notin Chain(nd, x)
                                           /\ x \notin Chain(nd, e.block)}
    OBVIOUS
  <2>2. bad \in SUBSET Nat /\ nn \in Settled(nd, bad)
    BY <1>2, <1>4, <1>5, <2>1 DEF Reconsidered, NodeOK, NodeSort
  <2>3. Safe(nd, h, nn) /\ LocalInv(nn, h, e)
    BY <1>2, <2>2, SafeSettled
  <2>4. nn.undone
    BY <1>2, <2>3 DEF LocalInv, AnchorInv
  <2> QED
    BY <1>2, <1>3, <2>3, <2>4, NextRelies
<1>6. LocalInv(nd, h, d)
  BY <1>2, <1>3, NextRelies
<1>7. CASE Answered(h, after, c)
  BY <1>1, <1>2, <1>5, <1>7, AnsweredKeeps
<1>8. CASE Errs(h, after, d)
  BY <1>1, <1>2, <1>5, <1>6, <1>8, ErrsKeeps
<1> QED
  BY <1>1, <1>4, <1>7, <1>8 DEF ReconsiderBlock, Goes

LEMMA PollKeeps ==
    ASSUME DrillInv, NEW h \in Hardening, Poll(h)
    PROVE  DrillInv'
<1>1. PICK nd, e, d : nd = node /\ e = drill[h] /\ d = NextPoll(e)
  OBVIOUS
<1>2. /\ h \in Drill /\ NodeOK(nd) /\ LocalInv(nd, h, e) /\ e \in Local
      /\ e.step = "poll" /\ Safe(nd, h, nd)
  BY <1>1, SafeSame DEF DrillInv, LocalInv, Poll, At, Drill
<1>3. PICK again, passed :
          /\ again = [d EXCEPT !.step = IF d.polls < Polls THEN "poll" ELSE "PASS"]
          /\ passed = [e EXCEPT !.step = "PASS"]
  OBVIOUS
<1>4. /\ again \in Local /\ again.step \in {"poll", "PASS"} /\ again.coins = e.coins
      /\ again.block = e.block
      /\ passed \in Local /\ passed.step = "PASS" /\ passed.coins = e.coins
      /\ passed.block = e.block
  <2>1. d \in Local /\ d.coins = e.coins /\ d.block = e.block
    BY SMTT(20), <1>1, <1>2 DEF Local, NextPoll
  <2>2. /\ again \in Local /\ again.step \in {"poll", "PASS"} /\ again.coins = d.coins
        /\ again.block = d.block
    <3>1. CASE d.polls < Polls
      BY <1>3, <2>1, <3>1 DEF Local, Steps
    <3>2. CASE ~(d.polls < Polls)
      BY <1>3, <2>1, <3>2 DEF Local, Steps
    <3> QED
      BY <3>1, <3>2
  <2>3. /\ passed \in Local /\ passed.step = "PASS" /\ passed.coins = e.coins
        /\ passed.block = e.block
    BY <1>2, <1>3 DEF Local, Steps
  <2> QED
    BY <2>1, <2>2, <2>3
<1>5. nd.undone
  BY <1>2 DEF LocalInv, AnchorInv
<1>6. LocalInv(nd, h, again) /\ LocalInv(nd, h, passed)
  BY <1>2, <1>4, <1>5, NextRelies
<1>7. CASE Answered(h, {nd}, passed)
  BY <1>1, <1>2, <1>6, <1>7, AnsweredKeeps
<1>8. CASE Answered(h, {nd}, again)
  BY <1>1, <1>2, <1>6, <1>8, AnsweredKeeps
<1>9. CASE Errs(h, {nd}, again)
  BY <1>1, <1>2, <1>6, <1>9, ErrsKeeps
<1> QED
  BY <1>1, <1>3, <1>7, <1>8, <1>9 DEF Poll, Goes
-----------------------------------------------------------------------------
(* What was walked replays to what was written: both are folds of the same *)
(* steps, and FoldLeft chooses the same solution of the same equation.     *)

LEMMA ReplayIsTruth ==
    ASSUME NEW s \in Stream, ~Plan[s].confidential,
           NEW walk \in Seq(Entries), Len(walk) = Len(Program(s)),
           \A j \in 1 .. Len(walk) :
               walk[j] = Entry(s, Len(walk) + 1 - j, Link(s, Len(walk) + 1 - j))
    PROVE  Replay(walk) = Truth(s)
<1>1. PICK n \in Nat : n = Len(walk) /\ n = Len(Program(s))
  OBVIOUS
<1>2. PICK rev : rev = Reverse(walk)
  OBVIOUS
<1>3. DOMAIN rev = 1 .. n /\ \A i \in 1 .. n : rev[i] = Entry(s, i, Link(s, i))
  <2>1. rev = [i \in 1 .. n |-> walk[(n - i) + 1]]
    BY <1>1, <1>2 DEF Reverse
  <2>2. ASSUME NEW i \in 1 .. n PROVE rev[i] = Entry(s, i, Link(s, i))
    <3>1. (n - i) + 1 \in 1 .. n /\ n + 1 - ((n - i) + 1) = i
      BY <1>1
    <3> QED
      BY <1>1, <2>1, <3>1
  <2> QED
    BY <2>1, <2>2
<1>4. DOMAIN Program(s) = 1 .. n
  BY <1>1, Programs
<1> DEFINE opR(c, e) == IF e.op = "delete" THEN [r \in DOMAIN c \ {e.row} |-> c[r]]
                        ELSE Put(c, e.row, e.image)
           opT(c, x) == Put(c, x.row, x.value)
           R(H) == H = [S \in SUBSET (1 .. n) |->
                           IF S = {} THEN <<>> ELSE opR(H[S \ {Max(S)}], rev[Max(S)])]
           T(H) == H = [S \in SUBSET (1 .. n) |->
                           IF S = {} THEN <<>>
                           ELSE opT(H[S \ {Max(S)}], Program(s)[Max(S)])]
<1>5. \A i \in 1 .. n : \A c : opR(c, rev[i]) = opT(c, Program(s)[i])
  <2>1. ASSUME NEW i \in 1 .. n, NEW c PROVE opR(c, rev[i]) = opT(c, Program(s)[i])
    <3>1. Program(s)[i].op # "delete"
      BY <1>1, Programs
    <3>2. /\ rev[i].op = Program(s)[i].op /\ rev[i].row = Program(s)[i].row
          /\ rev[i].image = Program(s)[i].value
      BY <1>3 DEF Entry, Image, Program
    <3> QED
      BY <3>1, <3>2
  <2> QED
    BY <2>1
<1>6. \A S \in SUBSET (1 .. n) : S # {} => Max(S) \in 1 .. n
  BY <1>1, MaxIs
<1>7. Replay(walk) = (CHOOSE H : R(H))[1 .. n]
  BY <1>2, <1>3 DEF Replay, FoldLeft, MapThenFoldSet
<1>8. Truth(s) = (CHOOSE H : T(H))[1 .. n]
  BY <1>4 DEF Truth, FoldLeft, MapThenFoldSet, Program
<1> HIDE DEF opR, opT
<1>9. \A H : R(H) <=> T(H)
  BY <1>5, <1>6
<1> HIDE DEF R, T
<1>10. (CHOOSE H : R(H)) = (CHOOSE H : T(H))
  BY <1>9
<1> QED
  BY <1>7, <1>8, <1>10
-----------------------------------------------------------------------------
(* The invariant holds.                                                    *)

LEMMA InitInv == DrillInit => DrillInv
<1> SUFFICES ASSUME DrillInit PROVE DrillInv
  OBVIOUS
<1>1. PICK nd : nd = node
  OBVIOUS
<1>2. /\ nd = NewNode /\ nd.blocks = <<>> /\ nd.tip = 0 /\ nd.pool = {} /\ nd.bad = {}
      /\ nd.undone = FALSE
  BY <1>1 DEF DrillInit, NewNode
<1>3. nd.blocks \in Seq(Block) /\ Len(nd.blocks) = 0 /\ Numbers(nd) = {}
  BY <1>2 DEF Numbers
<1>4. All(nd) = {} /\ Chain(nd, nd.tip) = {}
  BY <1>2, <1>3 DEF All, Chain
<1>5. NodeOK(nd)
  <2>1. nd \in NodeSort
    BY <1>1, <1>2, <1>3 DEF NodeSort, NewNode
  <2>2. TreeOK(nd) /\ LineOK(nd) /\ OnceOK(nd) /\ IdsOK(nd)
    BY <1>2, <1>3, <1>4 DEF TreeOK, LineOK, OnceOK, IdsOK
  <2> QED
    BY <2>1, <2>2 DEF NodeOK
<1>6. PICK run \in SUBSET Drill :
          drill = [p \in Drill |->
                      [step |-> IF p \in run THEN "fund" ELSE "idle",
                       coins |-> Wallet, sent |-> 0, cursor |-> NoTx,
                       walk |-> <<>>, block |-> 0, tip |-> 0, polls |-> 0]]
  BY DEF DrillInit
<1>7. ASSUME NEW p \in Drill PROVE drill[p] \in Local /\ LocalInv(nd, p, drill[p])
  <2>1. PICK e : e = drill[p]
    OBVIOUS
  <2>2. /\ e \in Local /\ e.step \in {"fund", "idle"} /\ e.coins = Wallet /\ e.sent = 0
        /\ e.walk = <<>>
    <3>1. <<>> \in Seq(Entries)
      OBVIOUS
    <3> QED
      BY <1>6, <2>1, <3>1 DEF Local, Steps, Wallet
  <2>3. /\ FreshInv(nd, p, e) /\ WalletInv(nd, p, e) /\ CoinbaseInv(nd, p, e)
        /\ SentInv(p, e) /\ WalkInv(p, e) /\ AnchorInv(nd, p, e)
    BY <1>4, <2>2 DEF FreshInv, WalletInv, CoinbaseInv, SentInv, WalkInv, AnchorInv, Out
  <2> QED
    BY <2>1, <2>2, <2>3 DEF LocalInv
<1>8. drill \in [Drill -> Local] /\ errors \in Nat
  BY <1>6, <1>7 DEF DrillInit
<1> QED
  BY <1>1, <1>5, <1>7, <1>8 DEF DrillInv

LEMMA NextInv ==
    ASSUME DrillInv, [DrillNext]_drillVars
    PROVE  DrillInv'
<1>1. CASE UNCHANGED drillVars
  BY <1>1 DEF drillVars, DrillInv
<1>2. ASSUME NEW p \in Drill, Step(p) PROVE DrillInv'
  <2>1. CASE Fund(p)
    BY <2>1, SendToAddressKeeps, GenerateToAddressKeeps, ConfirmKeeps,
       OpenCoinbaseKeeps DEF Fund
  <2>2. CASE p \in Stream /\ StreamStep(p)
    BY <2>2, SendEntryKeeps, MineEntryKeeps, DiscoverKeeps, WalkKeeps, CompareKeeps
       DEF StreamStep
  <2>3. CASE p \in Hardening /\ HardeningStep(p)
    BY <2>3, OriginateKeeps, AnchorKeeps, BuryKeeps, CheckChainKeeps,
       InvalidateBlockKeeps, CheckDivergenceKeeps, ReconsiderBlockKeeps, PollKeeps
       DEF HardeningStep
  <2> QED
    BY <1>2, <2>1, <2>2, <2>3 DEF Step
<1> QED
  BY <1>1, <1>2 DEF DrillNext

\* The invariant of the drills, for any node, any programs and any number of
\* drills side by side, whatever errs.
THEOREM DrillInvariant == DrillSpec => []DrillInv
<1>1. DrillInv /\ [DrillNext]_drillVars => DrillInv'
  BY NextInv
<1> QED
  BY InitInv, <1>1, PTL DEF DrillSpec

-----------------------------------------------------------------------------
(* Finality.                                                               *)

\* In one line a transaction is in one block, which its depth is counted from.
LEMMA DepthInLine ==
    ASSUME NodeOK(node), ~node.undone, NEW i \in Numbers(node),
           NEW t \in node.blocks[i].txs
    PROVE  Confirmations(t.id) = Len(node.blocks) - i + 1
<1> DEFINE at == {b \in Chain(node, node.tip) : t.id \in IDs(node.blocks[b].txs)}
<1>1. /\ Chain(node, node.tip) = Numbers(node)
      /\ \A b \in Numbers(node) : Chain(node, b) = 1 .. b /\ Height(node, b) = b
      /\ Height(node, node.tip) = Len(node.blocks)
  <2>1. PICK nd : nd = node
    OBVIOUS
  <2> QED
    BY <2>1, InLine
<1>2. Len(node.blocks) \in Nat /\ \A b \in Numbers(node) : Chain(node, b) = node.blocks[b].chain
  BY SortFacts DEF NodeOK
<1>3. i \in at
  BY <1>1 DEF IDs
<1>4. ASSUME NEW b \in at PROVE b = i
  <2>1. b \in Numbers(node) /\ b \in Nat /\ i \in Nat
    BY <1>1, <1>2 DEF Numbers
  <2>2. PICK u \in node.blocks[b].txs : u.id = t.id
    BY DEF IDs
  <2>3. u \in All(node) /\ t \in All(node)
    BY <2>1, <2>2, Members
  <2>4. u = t
    BY <2>2, <2>3 DEF NodeOK, IdsOK
  <2>5. CASE b < i
    <3>1. b \in node.blocks[i].chain
      BY <1>1, <1>2, <2>1, <2>5 DEF Numbers
    <3> QED
      BY <2>2, <2>4, <3>1 DEF NodeOK, OnceOK
  <2>6. CASE i < b
    <3>1. i \in node.blocks[b].chain
      BY <1>1, <1>2, <2>1, <2>6 DEF Numbers
    <3> QED
      BY <2>1, <2>2, <2>4, <2>6, <3>1 DEF NodeOK, OnceOK
  <2> QED
    BY <2>1, <2>5, <2>6
<1>5. at # {} /\ (CHOOSE b \in at : TRUE) = i
  BY <1>3, <1>4
<1> QED
  BY <1>1, <1>5 DEF Confirmations

LEMMA FinalFromInv == DrillInv => FinalMeansBuried
<1> SUFFICES ASSUME DrillInv, NEW h \in Hardening, At(h, "check"), ~node.undone
             PROVE  Confirmations(Txid(h, 1)) >= ConfDepth
  BY DEF FinalMeansBuried
<1>1. PICK nd, e : nd = node /\ e = drill[h]
  OBVIOUS
<1>2. NodeOK(nd) /\ LocalInv(nd, h, e) /\ e \in Local /\ e.step = "check"
  BY <1>1 DEF DrillInv, LocalInv, At, Drill
<1>3. /\ e.block \in Numbers(nd) /\ e.tip <= Len(nd.blocks)
      /\ e.tip - Height(nd, e.block) + 1 >= ConfDepth
  BY <1>1, <1>2 DEF LocalInv, AnchorInv
<1>4. PICK t \in Mined(nd, e.block) : t.id = Txid(h, 1)
  BY <1>2 DEF LocalInv, AnchorInv
<1>5. Height(nd, e.block) = e.block /\ Chain(nd, e.block) = 1 .. e.block
  BY <1>1, <1>2, <1>3, InLine
<1>6. Len(nd.blocks) \in Nat /\ e.block \in Nat
  BY <1>2, <1>3, TipFacts
<1>7. PICK i \in 1 .. e.block : t \in nd.blocks[i].txs
  BY <1>4, <1>5, Members
<1>8. i \in Numbers(nd) /\ i <= e.block /\ i \in Nat
  BY <1>3, <1>6, <1>7 DEF Numbers
<1>9. Confirmations(t.id) = Len(nd.blocks) - i + 1
  BY <1>1, <1>2, <1>7, <1>8, DepthInLine
<1>10. e.tip \in Nat /\ ConfDepth \in Nat
  BY <1>2, DrillAssumption DEF Local
<1>11. Len(nd.blocks) - i + 1 >= ConfDepth
  BY <1>3, <1>5, <1>6, <1>8, <1>10
<1> QED
  BY <1>4, <1>9, <1>11

\* A read is released only when the entry is as deep as was asked for, as long
\* as nothing reorganised, though the drill counts from its own blocks and
\* others mine as well (hardene2e 66-82).
THEOREM FinalTheorem == DrillSpec => []FinalMeansBuried
  BY DrillInvariant, FinalFromInv, PTL

\* A block of the active chain has its transactions confirmed.
LEMMA ConfirmedInChain ==
    ASSUME NodeOK(node), NEW b \in Numbers(node), b \in Chain(node, node.tip),
           NEW t \in Mined(node, b)
    PROVE  Confirmations(t.id) > 0
<1> DEFINE at == {c \in Chain(node, node.tip) : t.id \in IDs(node.blocks[c].txs)}
<1>1. /\ Len(node.blocks) \in Nat /\ node.tip \in 0 .. Len(node.blocks)
      /\ \A c \in 0 .. Len(node.blocks) : Chain(node, c) \subseteq Numbers(node)
      /\ \A c \in Numbers(node) : Chain(node, c) = node.blocks[c].chain
      /\ Chain(node, 0) = {}
  BY SortFacts DEF NodeOK
<1>2. node.tip \in Numbers(node)
  BY <1>1 DEF Numbers
<1>3. \A c \in Chain(node, node.tip) : /\ c \in Numbers(node)
                                       /\ Chain(node, c) \subseteq Chain(node, node.tip)
  BY <1>1, <1>2 DEF NodeOK, TreeOK
<1>4. PICK i \in Chain(node, b) : t \in node.blocks[i].txs
  BY Members
<1>5. i \in at
  BY <1>3, <1>4 DEF IDs
<1>6. PICK c : c = CHOOSE x \in at : TRUE
  OBVIOUS
<1>7. c \in at
  BY <1>5, <1>6
<1>8. Height(node, c) \in Nat /\ Height(node, node.tip) \in Nat
      /\ Height(node, c) <= Height(node, node.tip)
  <2>1. PICK nd : nd = node
    OBVIOUS
  <2>2. c \in Numbers(nd) /\ Chain(nd, c) \subseteq Chain(nd, nd.tip) /\ c \in 0 .. Len(nd.blocks)
    BY <1>1, <1>3, <1>7, <2>1 DEF Numbers
  <2>3. Height(nd, c) <= Height(nd, nd.tip)
    BY <1>1, <2>1, <2>2, Heights DEF NodeOK
  <2> QED
    BY <2>1, <2>2, <2>3, TipFacts
<1>9. at # {}
  BY <1>5
<1>10. Confirmations(t.id) = Height(node, node.tip) - Height(node, c) + 1
  BY <1>6, <1>9 DEF Confirmations
<1> QED
  BY <1>8, <1>10
-----------------------------------------------------------------------------
(* A step is one drill's, and leaves the variables of the others alone.     *)

Only(p) == \E d : drill' = [drill EXCEPT ![p] = d]

LEMMA CallOnly ==
    ASSUME NEW p, NEW after, NEW d
    PROVE  /\ Answered(p, after, d) \/ Errs(p, after, d) \/ Call(p, after, d) => Only(p)
           /\ Refused(p) => Only(p)
<1>1. \A a, c : Answered(p, a, c) \/ Errs(p, a, c) => Only(p)
  BY DEF Answered, Errs, Only
<1>2. Refused(p) => Only(p)
  BY DEF Refused, Answered, Only
<1> QED
  BY <1>1, <1>2 DEF Call

LEMMA FundOnly == \A p : Fund(p) => Only(p)
<1> SUFFICES ASSUME NEW p, Fund(p) PROVE Only(p)
  OBVIOUS
<1>1. CASE SendToAddress(p)
  BY <1>1, CallOnly DEF SendToAddress
<1>2. CASE GenerateToAddress(p)
  BY <1>2, CallOnly DEF GenerateToAddress
<1>3. CASE Confirm(p)
  BY <1>3, CallOnly DEF Confirm
<1>4. CASE OpenCoinbase(p)
  BY <1>4, CallOnly DEF OpenCoinbase
<1> QED
  BY <1>1, <1>2, <1>3, <1>4 DEF Fund

LEMMA StreamOnly == \A s : StreamStep(s) => Only(s)
<1> SUFFICES ASSUME NEW s, StreamStep(s) PROVE Only(s)
  OBVIOUS
<1>1. CASE SendEntry(s)
  BY <1>1, CallOnly DEF SendEntry
<1>2. CASE MineEntry(s)
  BY <1>2, CallOnly DEF MineEntry
<1>3. CASE Discover(s)
  BY <1>3, CallOnly DEF Discover, Missing
<1>4. CASE Walk(s)
  BY <1>4, CallOnly DEF Walk, Missing
<1>5. CASE Compare(s)
  BY <1>5, CallOnly DEF Compare
<1> QED
  BY <1>1, <1>2, <1>3, <1>4, <1>5 DEF StreamStep

LEMMA HardeningOnly == \A h : HardeningStep(h) => Only(h)
<1> SUFFICES ASSUME NEW h, HardeningStep(h) PROVE Only(h)
  OBVIOUS
<1>1. CASE Originate(h) \/ Anchor(h) \/ Bury(h)
  BY <1>1, CallOnly DEF Originate, Anchor, Bury
<1>2. CASE CheckChain(h) \/ InvalidateBlock(h)
  BY <1>2, CallOnly DEF CheckChain, InvalidateBlock
<1>3. CASE CheckDivergence(h)
  BY <1>3, CallOnly DEF CheckDivergence
<1>4. CASE ReconsiderBlock(h)
  BY <1>4, CallOnly DEF ReconsiderBlock
<1>5. CASE Poll(h)
  BY <1>5, CallOnly DEF Poll
<1> QED
  BY <1>1, <1>2, <1>3, <1>4, <1>5 DEF HardeningStep

LEMMA StepOnly ==
    ASSUME NEW p, Step(p), NEW q, q # p, q \in DOMAIN drill
    PROVE  drill'[q] = drill[q]
<1>1. Only(p)
  BY FundOnly, StreamOnly, HardeningOnly DEF Step
<1> QED
  BY <1>1 DEF Only

LEMMA InChainStep ==
    ASSUME DrillInv, [DrillNext]_drillVars, NEW h \in Hardening, At(h, "check"),
           drill'[h].step = "reorg"
    PROVE  Confirmations(Txid(h, 1)) > 0
<1>1. h \in Drill /\ h \notin Stream /\ DOMAIN drill = Drill /\ drill[h] \in Local
  BY TwoKinds DEF Drill, DrillInv
<1>2. Step(h)
  <2>1. CASE UNCHANGED drillVars
    BY <2>1 DEF drillVars, At
  <2>2. ASSUME NEW p \in Drill, Step(p), p # h PROVE FALSE
    BY <1>1, <2>2, StepOnly DEF At
  <2> QED
    BY <2>1, <2>2 DEF DrillNext
<1>3. ~Fund(h)
  BY DEF Fund, SendToAddress, GenerateToAddress, Confirm, OpenCoinbase, At
<1>4. CheckChain(h)
  <2>1. HardeningStep(h)
    BY <1>1, <1>2, <1>3 DEF Step
  <2> QED
    BY <2>1 DEF HardeningStep, Originate, Anchor, Bury, InvalidateBlock, CheckDivergence,
       ReconsiderBlock, Poll, At
<1>5. InChain(drill[h].block)
  <2>1. SUFFICES ASSUME ~InChain(drill[h].block) PROVE FALSE
    OBVIOUS
  <2>2. Call(h, {node}, Goes(h, "FAIL"))
    BY <1>4, <2>1 DEF CheckChain
  <2>3. drill' = [drill EXCEPT ![h] = Goes(h, "FAIL")]
    BY <2>2 DEF Call, Answered, Errs, Refused
  <2>4. drill'[h].step = "FAIL"
    BY <1>1, <2>3 DEF Goes, Local
  <2> QED
    BY <2>4
<1>6. PICK nd, e : nd = node /\ e = drill[h]
  OBVIOUS
<1>7. NodeOK(nd) /\ LocalInv(nd, h, e) /\ e.step = "check"
  BY <1>1, <1>6 DEF DrillInv, At
<1>8. e.block \in Numbers(nd) /\ \E t \in Mined(nd, e.block) : t.id = Txid(h, 1)
  BY <1>7 DEF LocalInv, AnchorInv
<1>9. e.block # 0
  <2>1. Len(nd.blocks) \in Nat
    BY <1>7, TipFacts
  <2> QED
    BY <1>8, <2>1 DEF Numbers
<1>10. e.block \in Chain(nd, nd.tip)
  BY <1>5, <1>6, <1>9, FoundInChain DEF InChain
<1> QED
  BY <1>6, <1>7, <1>8, <1>10, ConfirmedInChain

\* Whenever the drill finds the entry's block at its height the entry is
\* confirmed, whatever other drills made of the chain (hardene2e 88-95).
THEOREM InChainTheorem == DrillSpec => InChainSound
<1> DEFINE A == \A h \in Hardening :
                    At(h, "check") /\ drill'[h].step = "reorg" =>
                        Confirmations(Txid(h, 1)) > 0
<1>1. DrillInv /\ [DrillNext]_drillVars => [A]_drillVars
  BY InChainStep
<1> QED
  BY <1>1, DrillInvariant, PTL DEF DrillSpec, InChainSound

-----------------------------------------------------------------------------
(* Which blocks are declared invalid.  Only a ReconsiderBlock takes a block *)
(* out of them, and none of them is active; so what a drill invalidated is  *)
(* off the chain until another drill's ReconsiderBlock.                     *)

ValidOK(nd) == nd.bad \subseteq Numbers(nd) /\ Chain(nd, nd.tip) \cap nd.bad = {}

\* A drill that is about to look finds its block invalid, or another drill
\* has asked for a block to be valid again.
BadInv ==
    /\ ValidOK(node)
    /\ \A h \in Hardening :
          At(h, "recheck") => drill[h].block \in node.bad \/ OtherRestored(h)

\* What leaves the invalid blocks as they were.
Quiet(nd, nn) == nn.bad = nd.bad /\ (ValidOK(nd) => ValidOK(nn))

LEMMA QuietSent ==
    ASSUME NEW nd, nd \in NodeSort, NEW tx, NEW nn \in Sent(nd, tx)
    PROVE  Quiet(nd, nn)
<1>1. nn = [nd EXCEPT !.pool = @ \cup {tx}]
  BY DEF Sent
<1>2. nn.blocks = nd.blocks /\ nn.tip = nd.tip /\ nn.bad = nd.bad
  BY <1>1 DEF NodeSort
<1> QED
  BY <1>2 DEF Quiet, ValidOK, Numbers, Chain

LEMMA QuietGenerated ==
    ASSUME NEW nd, nd \in NodeSort, TreeOK(nd), NEW n \in Nat \ {0},
           NEW nn, nn = Generated(nd, n)
    PROVE  Quiet(nd, nn)
<1>1. /\ nn.bad = nd.bad /\ nn.tip = Len(nn.blocks)
      /\ Len(nn.blocks) = Len(nd.blocks) + n
  BY GeneratedShape
<1>2. /\ \A b \in Numbers(nd) : b \in Numbers(nn)
      /\ \A b \in Numbers(nn) \ Numbers(nd) :
            Chain(nn, b) = Chain(nd, nd.tip) \cup (Len(nd.blocks) + 1 .. b)
  BY GeneratedTree
<1>3. Len(nd.blocks) \in Nat
  BY SortFacts
<1>4. nn.tip \in Numbers(nn) \ Numbers(nd)
  BY <1>1, <1>3 DEF Numbers
<1>5. Chain(nn, nn.tip) = Chain(nd, nd.tip) \cup (Len(nd.blocks) + 1 .. nn.tip)
  BY <1>2, <1>4
<1>6. (Len(nd.blocks) + 1 .. nn.tip) \cap Numbers(nd) = {}
  BY <1>3 DEF Numbers
<1> QED
  BY <1>1, <1>2, <1>5, <1>6 DEF Quiet, ValidOK

\* The active chain after a reorganisation has none of the invalid blocks.
LEMMA SettledValid ==
    ASSUME NEW nd, nd \in NodeSort, NEW bad \in SUBSET Numbers(nd),
           NEW nn \in Settled(nd, bad)
    PROVE  nn.bad = bad /\ ValidOK(nn)
<1> DEFINE valid == {b \in 0 .. Len(nd.blocks) : Chain(nd, b) \cap bad = {}}
           best == {b \in valid : \A c \in valid : Height(nd, c) <= Height(nd, b)}
<1>1. \/ nd.tip \in best /\ nn = [nd EXCEPT !.bad = bad]
      \/ \E b \in best : nn = Switched(nd, bad, b)
  BY DEF Settled
<1>2. PICK b : /\ b \in valid /\ nn.tip = b /\ nn.bad = bad
               /\ nn.blocks = nd.blocks
  <2>1. CASE nd.tip \in best /\ nn = [nd EXCEPT !.bad = bad]
    BY <2>1 DEF NodeSort
  <2>2. CASE \E b \in best : nn = Switched(nd, bad, b)
    BY <2>2 DEF NodeSort, Switched
  <2> QED
    BY <1>1, <2>1, <2>2
<1>3. Chain(nn, nn.tip) = Chain(nd, b) /\ Numbers(nn) = Numbers(nd)
  BY <1>2 DEF Chain, Numbers
<1> QED
  BY <1>2, <1>3 DEF ValidOK

\* How a step leaves them: as they were; with the drill's own block among
\* them; or with fewer, and the drill has asked for that.
Restored == {"poll", "PASS"}
Calm(p) ==
    /\ Quiet(node, node') /\ drill'[p].step # "recheck"
    /\ drill[p].step \in Restored => drill'[p].step \in Restored
Takes(p) ==
    /\ p \in Hardening /\ drill[p].step = "reorg"
    /\ drill[p].block \in Numbers(node) /\ drill'[p].block = drill[p].block
    /\ node' \in Invalidated(node, drill[p].block)
Gives(p) ==
    /\ p \in Hardening /\ drill'[p].step \in Restored
    /\ node' \in Reconsidered(node, drill[p].block)

\* A call of a step that does not come after another's restoring.
LEMMA CalmCall ==
    ASSUME DrillInv, NEW p \in Drill, NEW after, NEW d, Call(p, after, d),
           \A nn \in after : Quiet(node, nn), d.step # "recheck",
           drill[p].step \notin Restored
    PROVE  Calm(p)
<1>1. Quiet(node, node)
  BY DEF Quiet
<1>2. Goes(p, "FAIL").step = "FAIL" /\ p \in DOMAIN drill
  BY DEF Goes, DrillInv, Local
<1>3. Quiet(node, node')
  BY <1>1 DEF Call, Answered, Errs, Refused
<1>4. drill'[p].step # "recheck"
  BY <1>2 DEF Call, Answered, Errs, Refused
<1> QED
  BY <1>3, <1>4 DEF Calm

LEMMA CalmRefused ==
    ASSUME DrillInv, NEW p \in Drill, Refused(p), drill[p].step \notin Restored
    PROVE  Calm(p)
<1>1. Call(p, {}, Goes(p, "FAIL"))
  BY DEF Call
<1>2. Goes(p, "FAIL").step = "FAIL"
  BY DEF Goes, DrillInv, Local
<1> QED
  BY <1>1, <1>2, CalmCall

LEMMA AfterEntryStep ==
    ASSUME NEW s \in Stream, drill[s] \in Local
    PROVE  AfterEntry(s).step \in {"send", "walk"}
  BY DEF AfterEntry, Goes, Local

LEMMA FundCalm ==
    ASSUME DrillInv, NEW p \in Drill, Fund(p)
    PROVE  Calm(p)
<1>1. PICK nd, e : nd = node /\ e = drill[p]
  OBVIOUS
<1>2. nd \in NodeSort /\ TreeOK(nd) /\ e \in Local
  BY <1>1 DEF DrillInv, NodeOK
<1>3. e.step \notin Restored
  BY <1>1 DEF Fund, SendToAddress, GenerateToAddress, Confirm, OpenCoinbase, At, Restored
<1>4. \A x : Goes(p, x).step = x
  BY <1>1, <1>2 DEF Goes, Local
<1>5. \A n \in Nat \ {0} : Quiet(nd, Generated(nd, n))
  BY <1>2, QuietGenerated
<1>6. CASE SendToAddress(p)
  <2>1. PICK tx : Call(p, Sent(nd, tx), Goes(p, "confirm"))
    BY <1>1, <1>6 DEF SendToAddress
  <2> QED
    BY <1>1, <1>2, <1>3, <1>4, <2>1, QuietSent, CalmCall
<1>7. CASE GenerateToAddress(p)
  <2>1. PICK nn, d : /\ nn = Generated(nd, 1)
                     /\ d = [Goes(p, "confirm") EXCEPT !.coins = nn.tip]
    OBVIOUS
  <2>2. Call(p, {nn}, d) /\ d.step = "confirm"
    BY <1>1, <1>2, <1>7, <2>1 DEF GenerateToAddress, Goes, Local
  <2>3. Quiet(node, nn) /\ drill[p].step \notin Restored /\ d.step # "recheck"
    BY <1>1, <1>3, <1>5, <2>1, <2>2
  <2> QED
    BY <2>2, <2>3, CalmCall
<1>8. CASE Confirm(p)
  <2>1. Call(p, {Generated(nd, Maturity)}, Goes(p, "open"))
          \/ Call(p, {Generated(nd, 1)}, Goes(p, "send"))
    BY <1>1, <1>8 DEF Confirm
  <2> QED
    BY <1>1, <1>3, <1>4, <1>5, <2>1, CalmCall, NodeAssumption
<1>9. CASE OpenCoinbase(p)
  <2>1. Quiet(nd, nd)
    BY DEF Quiet
  <2>2. \/ \E after \in {{nd}, {}} : Call(p, after, Goes(p, "send"))
        \/ Refused(p)
    BY <1>1, <1>9 DEF OpenCoinbase
  <2> QED
    BY <1>1, <1>3, <1>4, <2>1, <2>2, CalmCall, CalmRefused
<1> QED
  BY <1>6, <1>7, <1>8, <1>9 DEF Fund

LEMMA StreamCalm ==
    ASSUME DrillInv, NEW s \in Stream, StreamStep(s)
    PROVE  Calm(s)
<1>1. PICK nd, e : nd = node /\ e = drill[s]
  OBVIOUS
<1>2. nd \in NodeSort /\ TreeOK(nd) /\ e \in Local /\ s \in Drill
  BY <1>1 DEF DrillInv, NodeOK, Drill
<1>3. e.step \notin Restored
  BY <1>1 DEF StreamStep, SendEntry, MineEntry, Discover, Walk, Compare, At, Restored
<1>4. \A x : Goes(s, x).step = x
  BY <1>1, <1>2 DEF Goes, Local
<1>5. Quiet(nd, nd) /\ Quiet(nd, Generated(nd, 1))
  BY <1>2, QuietGenerated DEF Quiet
<1>6. AfterEntry(s).step \in {"send", "walk"}
  BY <1>1, <1>2, AfterEntryStep
<1>7. CASE SendEntry(s)
  <2>1. PICK tx, i : Call(s, Sent(nd, tx), [Goes(s, "mine") EXCEPT !.sent = i])
    BY <1>1, <1>7 DEF SendEntry
  <2>2. PICK d : d = [Goes(s, "mine") EXCEPT !.sent = i]
    OBVIOUS
  <2>3. d.step = "mine"
    BY <1>1, <1>2, <2>2 DEF Goes, Local
  <2> QED
    BY <1>1, <1>2, <1>3, <2>1, <2>2, <2>3, QuietSent, CalmCall
<1>8. CASE MineEntry(s)
  <2>1. PICK d : d.step # "recheck" /\ Call(s, {Generated(nd, 1)}, d)
    BY <1>1, <1>4, <1>6, <1>8 DEF MineEntry
  <2> QED
    BY <1>1, <1>2, <1>3, <1>5, <2>1, CalmCall
<1>9. CASE Discover(s)
  <2>1. Call(s, {nd}, AfterEntry(s)) \/ Refused(s)
    BY <1>1, <1>9 DEF Discover, Missing
  <2> QED
    BY <1>1, <1>2, <1>3, <1>5, <1>6, <2>1, CalmCall, CalmRefused
<1>10. CASE Walk(s)
  <2>1. CASE Refused(s)
    BY <1>1, <1>2, <1>3, <2>1, CalmRefused
  <2>2. CASE ~Refused(s)
    <3>1. PICK t \in Everything :
            Call(s, {node}, [drill[s] EXCEPT
                     !.walk = Append(@, t.entry), !.cursor = t.entry.prev,
                     !.step = IF t.entry.prev = NoTx THEN "compare" ELSE "walk"])
      BY <1>10, <2>2 DEF Walk, Missing
    <3>2. PICK d : d = [e EXCEPT
                     !.walk = Append(@, t.entry), !.cursor = t.entry.prev,
                     !.step = IF t.entry.prev = NoTx THEN "compare" ELSE "walk"]
      OBVIOUS
    <3>3. d.step # "recheck" /\ Call(s, {nd}, d)
      BY <1>1, <1>2, <3>1, <3>2 DEF Local
    <3> QED
      BY <1>1, <1>2, <1>3, <1>5, <3>3, CalmCall
  <2> QED
    BY <2>1, <2>2
<1>11. CASE Compare(s)
  <2>1. PICK x \in {"PASS", "FAIL"} : Answered(s, {nd}, Goes(s, x))
    BY <1>1, <1>11 DEF Compare
  <2>2. drill'[s].step = x /\ node' = nd
    BY <1>1, <1>2, <1>4, <2>1 DEF Answered, DrillInv
  <2> QED
    BY <1>1, <1>3, <1>5, <2>2 DEF Calm
<1> QED
  BY <1>7, <1>8, <1>9, <1>10, <1>11 DEF StreamStep

LEMMA HardeningMoves ==
    ASSUME DrillInv, NEW h \in Hardening, HardeningStep(h)
    PROVE  Calm(h) \/ Takes(h) \/ Gives(h)
<1>1. PICK nd, e : nd = node /\ e = drill[h]
  OBVIOUS
<1>2. /\ nd \in NodeSort /\ TreeOK(nd) /\ e \in Local /\ h \in Drill
      /\ LocalInv(nd, h, e) /\ h \in DOMAIN drill
  BY <1>1 DEF DrillInv, NodeOK, Drill
<1>3. \A x : Goes(h, x).step = x /\ Goes(h, x).block = e.block
  BY <1>1, <1>2 DEF Goes, Local
<1>4. Quiet(nd, nd) /\ \A n \in Nat \ {0} : Quiet(nd, Generated(nd, n))
  BY <1>2, QuietGenerated DEF Quiet
<1>5. CASE Originate(h)
  <2>1. PICK tx : Call(h, Sent(nd, tx), Goes(h, "anchor"))
    BY <1>1, <1>5 DEF Originate, EntrySent
  <2>2. e.step \notin Restored
    BY <1>1, <1>5 DEF Originate, At, Restored
  <2> QED
    BY <1>1, <1>2, <1>3, <2>1, <2>2, QuietSent, CalmCall
<1>6. CASE Anchor(h)
  <2>1. PICK nn, d : /\ nn = Generated(nd, 1)
                     /\ d = [Goes(h, "bury") EXCEPT
                                !.block = nn.tip, !.tip = Height(nn, nn.tip)]
    OBVIOUS
  <2>2. Call(h, {nn}, d) /\ d.step = "bury" /\ e.step \notin Restored
    BY <1>1, <1>2, <1>6, <2>1 DEF Anchor, Goes, Local, At, Restored
  <2>3. Quiet(node, nn) /\ drill[h].step \notin Restored /\ d.step # "recheck"
    BY <1>1, <1>4, <2>1, <2>2
  <2> QED
    BY <1>2, <2>2, <2>3, CalmCall
<1>7. CASE Bury(h)
  <2>1. PICK nn, d, c :
            /\ nn = Generated(nd, ConfDepth - 1)
            /\ d = [e EXCEPT !.tip = Height(nn, nn.tip)]
            /\ c \in {[d EXCEPT !.step = "check"], [d EXCEPT !.step = "FAIL"]}
            /\ Call(h, {nn}, c)
    BY <1>1, <1>7 DEF Bury
  <2>2. c.step # "recheck" /\ e.step \notin Restored
    BY <1>1, <1>2, <1>7, <2>1 DEF Bury, Local, At, Restored
  <2>3. ConfDepth - 1 \in Nat \ {0}
    BY DrillAssumption
  <2>4. Quiet(node, nn) /\ drill[h].step \notin Restored
    BY <1>1, <1>4, <2>1, <2>2, <2>3
  <2> QED
    BY <1>2, <2>1, <2>2, <2>4, CalmCall
<1>8. CASE CheckChain(h)
  <2>1. PICK x \in {"reorg", "FAIL"} : Call(h, {nd}, Goes(h, x))
    BY <1>1, <1>8 DEF CheckChain
  <2>2. e.step \notin Restored
    BY <1>1, <1>8 DEF CheckChain, At, Restored
  <2> QED
    BY <1>1, <1>2, <1>3, <1>4, <2>1, <2>2, CalmCall
<1>9. CASE InvalidateBlock(h)
  <2>1. e.step = "reorg" /\ Call(h, Invalidated(nd, e.block), Goes(h, "recheck"))
    BY <1>1, <1>9 DEF InvalidateBlock, At
  <2>2. CASE node' = nd /\ drill'[h] = Goes(h, "FAIL")
    BY <1>1, <1>3, <1>4, <2>1, <2>2 DEF Calm, Restored
  <2>3. CASE node' \in Invalidated(nd, e.block) /\ drill'[h].block = e.block
    <3>1. e.block \in Numbers(nd)
      BY <1>2, <2>1 DEF LocalInv, AnchorInv
    <3> QED
      BY <1>1, <2>1, <2>3, <3>1 DEF Takes
  <2>4. drill'[h] \in {Goes(h, "recheck"), Goes(h, "FAIL")}
    BY <1>2, <2>1 DEF Call, Answered, Errs, Refused
  <2>5. \/ node' \in Invalidated(nd, e.block)
        \/ node' = nd /\ drill'[h] = Goes(h, "FAIL")
    BY <1>1, <1>2, <2>1 DEF Call, Answered, Errs, Refused
  <2> QED
    BY <1>3, <2>2, <2>3, <2>4, <2>5
<1>10. CASE CheckDivergence(h)
  <2>1. PICK x \in {"FAIL", "restore"} :
            Answered(h, {nd}, Goes(h, x)) \/ Errs(h, {nd}, Goes(h, x))
    BY <1>1, <1>10 DEF CheckDivergence
  <2>2. node' = nd /\ drill'[h] = Goes(h, x)
    BY <1>1, <1>2, <2>1 DEF Answered, Errs
  <2>3. e.step \notin Restored
    BY <1>1, <1>10 DEF CheckDivergence, At, Restored
  <2> QED
    BY <1>1, <1>3, <1>4, <2>2, <2>3 DEF Calm
<1>11. CASE ReconsiderBlock(h)
  <2>1. PICK x \in Restored :
            \/ Answered(h, Reconsidered(nd, e.block), Goes(h, x))
            \/ Errs(h, Reconsidered(nd, e.block), Goes(h, x))
    BY <1>1, <1>11 DEF ReconsiderBlock, Restored
  <2>2. drill'[h].step = x
    BY <1>2, <1>3, <2>1 DEF Answered, Errs
  <2>3. node' \in Reconsidered(nd, e.block) \/ node' = nd
    BY <1>1, <2>1 DEF Answered, Errs
  <2>4. CASE node' \in Reconsidered(nd, e.block)
    BY <1>1, <2>2, <2>4 DEF Gives
  <2>5. CASE node' = nd
    BY <1>1, <1>4, <2>2, <2>5 DEF Calm, Restored
  <2> QED
    BY <2>3, <2>4, <2>5
<1>12. CASE Poll(h)
  <2>1. node' = nd /\ drill'[h].step \in Restored
    <3>1. PICK d, again :
              /\ d = NextPoll(e)
              /\ again = [d EXCEPT !.step = IF d.polls < Polls THEN "poll" ELSE "PASS"]
              /\ \/ Answered(h, {nd}, Goes(h, "PASS"))
                 \/ Answered(h, {nd}, again)
                 \/ Errs(h, {nd}, again)
      BY <1>1, <1>12 DEF Poll
    <3>2. again.step \in Restored
      BY <1>2, <3>1 DEF NextPoll, Local, Restored
    <3> QED
      BY <1>1, <1>2, <1>3, <3>1, <3>2 DEF Answered, Errs, Restored
  <2> QED
    BY <1>1, <1>4, <2>1 DEF Calm, Restored
<1> QED
  BY <1>5, <1>6, <1>7, <1>8, <1>9, <1>10, <1>11, <1>12 DEF HardeningStep

LEMMA BadStep ==
    ASSUME DrillInv, BadInv, [DrillNext]_drillVars
    PROVE  BadInv'
<1>1. CASE UNCHANGED drillVars
  BY <1>1 DEF BadInv, drillVars, At, OtherRestored
<1>2. ASSUME NEW p \in Drill, Step(p) PROVE BadInv'
  <2>1. Calm(p) \/ Takes(p) \/ Gives(p)
    BY <1>2, FundCalm, StreamCalm, HardeningMoves DEF Step
  <2>2. \A q \in Hardening : q # p => drill'[q] = drill[q]
    BY <1>2, StepOnly DEF DrillInv, Drill
  <2>3. PICK nd : nd = node
    OBVIOUS
  <2>4. nd \in NodeSort /\ ValidOK(nd) /\ nd.bad \subseteq Numbers(nd)
    BY <2>3 DEF DrillInv, NodeOK, BadInv, ValidOK
  <2>5. CASE Calm(p)
    <3>1. node'.bad = nd.bad /\ ValidOK(node')
      BY <2>3, <2>4, <2>5 DEF Calm, Quiet
    <3>2. ASSUME NEW h \in Hardening, drill'[h].step = "recheck"
          PROVE  drill'[h].block \in node'.bad \/ OtherRestored(h)'
      <4>1. h # p /\ drill'[h] = drill[h]
        BY <2>2, <2>5, <3>2 DEF Calm
      <4>2. \A q \in Hardening :
                drill[q].step \in Restored => drill'[q].step \in Restored
        BY <2>2, <2>5 DEF Calm
      <4>3. OtherRestored(h) => OtherRestored(h)'
        BY <4>2 DEF OtherRestored, Restored
      <4> QED
        BY <2>3, <3>1, <3>2, <4>1, <4>3 DEF BadInv, At
    <3> QED
      BY <3>1, <3>2 DEF BadInv, At
  <2>6. CASE Takes(p)
    <3>1. PICK bad : bad = nd.bad \cup {drill[p].block}
      OBVIOUS
    <3>2. bad \in SUBSET Numbers(nd) /\ node' \in Settled(nd, bad)
      BY <2>3, <2>4, <2>6, <3>1 DEF Takes, Invalidated
    <3>3. node'.bad = bad /\ ValidOK(node')
      BY <2>4, <3>2, SettledValid
    <3>4. ASSUME NEW h \in Hardening, drill'[h].step = "recheck"
          PROVE  drill'[h].block \in node'.bad \/ OtherRestored(h)'
      <4>1. CASE h = p
        BY <2>6, <3>1, <3>3, <4>1 DEF Takes
      <4>2. CASE h # p
        <5>1. drill'[h] = drill[h]
          BY <2>2, <4>2
        <5>2. \A q \in Hardening :
                  drill[q].step \in Restored => drill'[q].step \in Restored
          BY <2>2, <2>6 DEF Takes, Restored
        <5>3. OtherRestored(h) => OtherRestored(h)'
          BY <5>2 DEF OtherRestored, Restored
        <5> QED
          BY <2>3, <3>1, <3>3, <3>4, <5>1, <5>3 DEF BadInv, At
      <4> QED
        BY <4>1, <4>2
    <3> QED
      BY <3>3, <3>4 DEF BadInv, At
  <2>7. CASE Gives(p)
    <3>1. PICK bad : /\ bad \subseteq nd.bad
                     /\ node' \in Settled(nd, bad)
      BY <2>3, <2>7 DEF Gives, Reconsidered
    <3>2. bad \in SUBSET Numbers(nd)
      BY <2>4, <3>1
    <3>3. ValidOK(node')
      BY <2>4, <3>1, <3>2, SettledValid
    <3>4. ASSUME NEW h \in Hardening, drill'[h].step = "recheck"
          PROVE  OtherRestored(h)'
      BY <2>7, <3>4 DEF Gives, Restored, OtherRestored
    <3> QED
      BY <3>3, <3>4 DEF BadInv, At
  <2> QED
    BY <2>1, <2>5, <2>6, <2>7
<1> QED
  BY <1>1, <1>2 DEF DrillNext

\* What a drill invalidated stays off the chain, unless another drill asks
\* for blocks to be valid again (hardene2e lines 97-104).
THEOREM BadInvariant == DrillSpec => [](DrillInv /\ BadInv)
<1>1. DrillInit => BadInv
  <2> SUFFICES ASSUME DrillInit PROVE BadInv
    OBVIOUS
  <2>1. node.bad = {} /\ ValidOK(node)
    BY DEF DrillInit, NewNode, ValidOK
  <2>2. \A h \in Hardening : drill[h].step # "recheck"
    BY DEF DrillInit, Drill
  <2> QED
    BY <2>1, <2>2 DEF BadInv, At
<1>2. DrillInv /\ BadInv /\ [DrillNext]_drillVars => BadInv'
  BY BadStep
<1> QED
  BY <1>1, <1>2, DrillInvariant, PTL DEF DrillSpec

-----------------------------------------------------------------------------
(* Why a drill fails.                                                      *)

Cause(p) ==
    \/ errors' > errors
    \/ /\ Coinbase(p)
       /\ \/ node.undone
          \/ node.blocks[drill[p].coins].txs # {}
    \/ p \in Hardening /\ (At(p, "bury") \/ At(p, "check")) /\ node.undone
    \/ /\ p \in Hardening /\ At(p, "recheck")
       /\ drill[p].block \notin node.bad
       /\ OtherRestored(p)

\* A call fails the drill if it errs, if the node refuses, or if its answer
\* is a wrong one.
LEMMA CallFails ==
    ASSUME errors \in Nat, NEW p, p \in DOMAIN drill, NEW after, NEW d,
           Call(p, after, d), d.step # "FAIL", after # {}, drill'[p].step = "FAIL"
    PROVE  errors' > errors
<1>1. CASE Answered(p, after, d)
  <2>1. drill'[p] = d
    BY <1>1 DEF Answered
  <2> QED
    BY <2>1
<1>2. CASE Errs(p, after, Goes(p, "FAIL"))
  BY <1>2 DEF Errs
<1> QED
  BY <1>1, <1>2 DEF Call

LEMMA FundFails ==
    ASSUME DrillInv, NEW p \in Drill, Fund(p), drill'[p].step = "FAIL"
    PROVE  Cause(p)
<1>1. PICK nd, e : nd = node /\ e = drill[p]
  OBVIOUS
<1>2. /\ NodeOK(nd) /\ LocalInv(nd, p, e) /\ e \in Local /\ errors \in Nat
      /\ p \in DOMAIN drill
  BY <1>1 DEF DrillInv, LocalInv
<1>3. CASE SendToAddress(p)
  <2>1. PICK tx, d : /\ tx = [id |-> Txid(p, 0), spends |-> NoTx, coins |-> Wallet,
                              entry |-> NoTx]
                     /\ d = [e EXCEPT !.step = "confirm"]
    OBVIOUS
  <2>2. Call(p, Sent(nd, tx), d)
    BY <1>1, <1>3, <2>1 DEF SendToAddress, Goes
  <2>3. Sent(nd, tx) # {}
    BY <2>1 DEF Sent, Spendable
  <2>4. d.step = "confirm"
    BY <1>2, <2>1 DEF Local
  <2> QED
    BY <1>2, <2>2, <2>3, <2>4, CallFails DEF Cause
<1>4. CASE GenerateToAddress(p)
  <2>1. PICK nn, d : nn = Generated(nd, 1) /\ d = [Goes(p, "confirm") EXCEPT !.coins = nn.tip]
    OBVIOUS
  <2>2. Call(p, {nn}, d) /\ d.step = "confirm"
    BY <1>1, <1>2, <1>4, <2>1 DEF GenerateToAddress, Goes, Local
  <2> QED
    BY <1>2, <2>2, CallFails DEF Cause
<1>5. CASE Confirm(p)
  <2>1. PICK c, d : c = Goes(p, "open") /\ d = Goes(p, "send")
    OBVIOUS
  <2>2. c.step = "open" /\ d.step = "send"
    BY <1>1, <1>2, <2>1 DEF Goes, Local
  <2>3. PICK mm, nn : mm = Generated(nd, Maturity) /\ nn = Generated(nd, 1)
    OBVIOUS
  <2>4. Call(p, {mm}, c) \/ Call(p, {nn}, d)
    BY <1>1, <1>5, <2>1, <2>3 DEF Confirm
  <2> QED
    BY <1>2, <2>2, <2>4, CallFails DEF Cause
<1>6. CASE OpenCoinbase(p)
  <2>1. e.step = "open" /\ Coinbase(p)
    BY <1>1, <1>2, <1>6 DEF OpenCoinbase, At, LocalInv, SentInv
  <2>2. SUFFICES ASSUME ~nd.undone, nd.blocks[e.coins].txs = {} PROVE errors' > errors
    BY <1>1, <2>1 DEF Cause
  <2>3. e.coins \in Numbers(nd)
    BY <1>2, <2>1 DEF LocalInv, CoinbaseInv, Out
  <2>4. e.coins \in Chain(nd, nd.tip)
    BY <1>2, <2>2, <2>3, InLine
  <2>5. PICK d : d = Goes(p, "send")
    OBVIOUS
  <2>6. Call(p, {nd}, d) /\ d.step = "send"
    BY <1>1, <1>2, <1>6, <2>2, <2>4, <2>5 DEF OpenCoinbase, Goes, Local
  <2> QED
    BY <1>2, <2>6, CallFails
<1> QED
  BY <1>3, <1>4, <1>5, <1>6 DEF Fund

\* What the drill sent last is there, or blocks were taken off.
LEMMA SentWaits ==
    ASSUME NEW nd, NEW s \in Stream, NEW e, LocalInv(nd, s, e), e.step \notin Out,
           NEW i, i \in 1 .. e.sent, ~Coinbase(s) \/ ~nd.undone
    PROVE  Txid(s, i) \in IDs(Known(nd))
<1>1. e.sent \in Nat /\ LastSent(s, e) = e.sent
  BY DEF LocalInv, Local, LastSent
<1>2. CASE ~Coinbase(s)
  <2>1. i \in 0 .. LastSent(s, e)
    BY <1>1
  <2>2. Keeps(nd, Txid(s, i))
    BY <1>2, <2>1 DEF LocalInv, WalletInv
  <2> QED
    BY <2>2 DEF Keeps, IDs
<1>3. CASE Coinbase(s) /\ ~nd.undone
  <2>1. Waits(nd, Txid(s, i))
    BY <1>3 DEF LocalInv, CoinbaseInv
  <2> QED
    BY <2>1 DEF Waits, IDs
<1> QED
  BY <1>2, <1>3

\* The walk is the program, and rebuilds it.
LEMMA WalkPasses ==
    ASSUME DrillInv, NEW s \in Stream, At(s, "compare")
    PROVE  Passes(s)
<1>1. PICK nd, e : nd = node /\ e = drill[s]
  OBVIOUS
<1>2. /\ LocalInv(nd, s, e) /\ e \in Local /\ e.step = "compare"
  BY <1>1 DEF DrillInv, LocalInv, At, Drill
<1>3. PICK n \in Nat \ {0} : n = Len(Program(s))
  BY Programs
<1>4. /\ e.walk \in Seq(Entries) /\ Len(e.walk) = n
      /\ \A j \in 1 .. n : e.walk[j] = Entry(s, n + 1 - j, Link(s, n + 1 - j))
  BY <1>2, <1>3 DEF LocalInv, SentInv, WalkInv, Local
<1>5. CASE Plan[s].confidential
  <2>0. n = 1
    BY <1>3, <1>5, PlanAssumption DEF Program
  <2>1. Program(s)[1].value # "another value"
    BY <1>5, PlanAssumption DEF Program
  <2>2. e.walk[1] = Entry(s, 1, Link(s, 1))
    <3>1. 1 \in 1 .. n /\ n + 1 - 1 = 1
      BY <2>0
    <3> QED
      BY <1>4, <3>1
  <2>3. e.walk[1].image = <<"commit", Program(s)[1].value>>
    BY <1>5, <2>2 DEF Entry, Image, Program
  <2>4. Opens(s, e.walk[1])
    <3>1. PICK v, image : v = Program(s)[1].value /\ image = e.walk[1].image
      OBVIOUS
    <3>2. image = <<"commit", v>> /\ image[1] = "commit"
      BY <2>3, <3>1
    <3>3. image # <<"commit", "another value">>
      <4>1. \A x, y : <<"commit", x>> = <<"commit", y>> => x = y
        OBVIOUS
      <4> QED
        BY <2>1, <3>1, <3>2, <4>1
    <3>4. Image(s, v) = <<"commit", v>>
          /\ Image(s, "another value") = <<"commit", "another value">>
      BY <1>5 DEF Image
    <3> QED
      BY <3>1, <3>2, <3>3, <3>4 DEF Opens, Program
  <2> QED
    BY <1>1, <1>5, <2>4 DEF Passes
<1>6. CASE ~Plan[s].confidential
  <2>1. Replay(e.walk) = Truth(s)
    BY <1>3, <1>4, <1>6, ReplayIsTruth
  <2>2. Ordered(e.walk)
    <3>1. DOMAIN e.walk = 1 .. n
      BY <1>4
    <3>2. \A j \in 1 .. n : e.walk[j].seq = n - j
      <4>1. \A j \in 1 .. n : e.walk[j].seq = (n + 1 - j) - 1
        <5>1. \A i, link : Entry(s, i, link).seq = i - 1
          BY DEF Entry
        <5> QED
          BY <1>4, <5>1
      <4>2. \A j \in 1 .. n : (n + 1 - j) - 1 = n - j
        OBVIOUS
      <4> QED
        BY <4>1, <4>2
    <3> QED
      BY <1>4, <3>1, <3>2 DEF Ordered
  <2>3. Rebuilds(s, e.walk)
    BY <1>3, <1>4, <2>1, <2>2 DEF Rebuilds, Program
  <2> QED
    BY <1>1, <1>6, <2>3 DEF Passes
<1> QED
  BY <1>5, <1>6

LEMMA StreamFails ==
    ASSUME DrillInv, NEW s \in Stream, StreamStep(s), drill'[s].step = "FAIL"
    PROVE  Cause(s)
<1>1. PICK nd, e : nd = node /\ e = drill[s]
  OBVIOUS
<1>2. /\ NodeOK(nd) /\ LocalInv(nd, s, e) /\ e \in Local /\ errors \in Nat
      /\ s \in DOMAIN drill /\ e.sent \in Nat
  BY <1>1 DEF DrillInv, LocalInv, Drill, Local
<1>3. SUFFICES ASSUME ~Coinbase(s) \/ ~nd.undone PROVE errors' > errors
  BY <1>1 DEF Cause
<1>4. CASE SendEntry(s)
  <2>1. PICK i : i = e.sent + 1
    OBVIOUS
  <2>2. PICK tx, d : /\ tx = [id |-> Txid(s, i),
                              spends |-> IF i = 1 /\ Coinbase(s) THEN NoTx ELSE Txid(s, i - 1),
                              coins |-> e.coins, entry |-> Entry(s, i, Link(s, i))]
                     /\ d = [Goes(s, "mine") EXCEPT !.sent = i]
    OBVIOUS
  <2>3. Call(s, Sent(nd, tx), d) /\ d.step = "mine" /\ e.step = "send"
    BY <1>1, <1>2, <1>4, <2>1, <2>2 DEF SendEntry, Goes, Local, At
  <2>4. tx.spends \in IDs(Known(nd)) \cup {NoTx}
    <3>1. CASE i = 1 /\ Coinbase(s)
      BY <2>2, <3>1
    <3>2. CASE i # 1
      <4>1. e.sent \in 1 .. e.sent /\ i - 1 = e.sent
        BY <1>2, <2>1, <3>2
      <4>2. Txid(s, i - 1) \in IDs(Known(nd))
        BY <1>2, <1>3, <2>3, <4>1, SentWaits DEF Out
      <4> QED
        BY <2>2, <3>2, <4>2
    <3>3. CASE i = 1 /\ ~Coinbase(s)
      <4>1. LastSent(s, e) = 0 /\ i - 1 = 0
        BY <1>2, <2>1, <3>3 DEF LastSent
      <4>2. Keeps(nd, Txid(s, 0))
        BY <1>2, <2>3, <3>3, <4>1 DEF LocalInv, WalletInv, Out
      <4> QED
        BY <2>2, <3>3, <4>1, <4>2 DEF Keeps, IDs
    <3> QED
      BY <3>1, <3>2, <3>3
  <2>5. Spendable(nd, tx, nd.tip)
    <3>1. CASE ~Coinbase(s)
      <4>1. tx.coins = Wallet
        BY <1>2, <2>2, <3>1 DEF LocalInv, WalletInv
      <4> QED
        BY <4>1 DEF Spendable
    <3>2. CASE Coinbase(s) /\ ~nd.undone
      <4>1. e.coins \in Numbers(nd) /\ e.coins + Maturity <= Len(nd.blocks)
        BY <1>2, <2>3, <3>2 DEF LocalInv, CoinbaseInv, Out
      <4>2. /\ e.coins \in Chain(nd, nd.tip) /\ Height(nd, nd.tip) = Len(nd.blocks)
            /\ Height(nd, e.coins) = e.coins
        BY <1>2, <3>2, <4>1, InLine
      <4>3. Height(nd, nd.tip) + 1 >= Height(nd, e.coins) + Maturity
        <5>1. Len(nd.blocks) \in Nat /\ e.coins \in Nat /\ Maturity \in Nat
          BY <1>2, <4>1, TipFacts, NodeAssumption
        <5> QED
          BY <4>1, <4>2, <5>1
      <4> QED
        BY <2>2, <4>2, <4>3 DEF Spendable
    <3> QED
      BY <1>3, <3>1, <3>2
  <2>6. Sent(nd, tx) # {}
    BY <2>4, <2>5 DEF Sent
  <2> QED
    BY <1>2, <2>3, <2>6, CallFails
<1>5. CASE MineEntry(s)
  <2>1. PICK nn, d : d.step # "FAIL" /\ Call(s, {nn}, d)
    <3>1. Goes(s, "discover").step = "discover" /\ AfterEntry(s).step \in {"send", "walk"}
      BY <1>1, <1>2, AfterEntryStep DEF Goes, Local
    <3> QED
      BY <1>5, <3>1 DEF MineEntry
  <2> QED
    BY <1>2, <2>1, CallFails
<1>6. CASE Discover(s)
  <2>1. e.step = "discover" /\ e.sent \in 1 .. e.sent
    BY <1>1, <1>2, <1>6, Programs DEF Discover, At, LocalInv, SentInv
  <2>2. Txid(s, e.sent) \in IDs(Known(nd))
    BY <1>2, <1>3, <2>1, SentWaits DEF Out
  <2>3. Call(s, {node}, AfterEntry(s))
    BY <1>1, <1>6, <2>2 DEF Discover, Missing
  <2>4. PICK d : d = AfterEntry(s)
    OBVIOUS
  <2>5. d.step # "FAIL" /\ Call(s, {nd}, d)
    BY <1>1, <1>2, <2>3, <2>4, AfterEntryStep
  <2> QED
    BY <1>2, <2>5, CallFails
<1>7. CASE Walk(s)
  <2>1. e.step = "walk"
    BY <1>1, <1>7 DEF Walk, At
  <2>2. PICK i \in 1 .. e.sent : e.cursor = Txid(s, i)
    <3>1. Len(e.walk) \in Nat /\ Len(e.walk) < e.sent
          /\ e.cursor = Txid(s, e.sent - Len(e.walk))
      BY <1>2, <2>1 DEF LocalInv, WalkInv, Local
    <3>2. e.sent - Len(e.walk) \in 1 .. e.sent
      BY <1>2, <3>1
    <3> QED
      BY <3>1, <3>2
  <2>3. e.cursor \in IDs(Known(nd))
    BY <1>2, <1>3, <2>1, <2>2, SentWaits DEF Out
  <2>4. PICK t \in Everything :
            Call(s, {node}, [drill[s] EXCEPT
                     !.walk = Append(@, t.entry), !.cursor = t.entry.prev,
                     !.step = IF t.entry.prev = NoTx THEN "compare" ELSE "walk"])
    BY <1>1, <1>7, <2>3 DEF Walk, Missing
  <2>5. PICK d : d = [e EXCEPT
                     !.walk = Append(@, t.entry), !.cursor = t.entry.prev,
                     !.step = IF t.entry.prev = NoTx THEN "compare" ELSE "walk"]
    OBVIOUS
  <2>6. d.step # "FAIL" /\ Call(s, {nd}, d)
    BY <1>1, <1>2, <2>4, <2>5 DEF Local
  <2> QED
    BY <1>2, <2>6, CallFails
<1>8. CASE Compare(s)
  <2>1. Passes(s)
    BY <1>8, WalkPasses DEF Compare
  <2>2. drill'[s] = Goes(s, "PASS")
    BY <1>2, <1>8, <2>1 DEF Compare, Answered
  <2>3. Goes(s, "PASS").step = "PASS"
    BY <1>1, <1>2 DEF Goes, Local
  <2> QED
    BY <2>2, <2>3
<1> QED
  BY <1>4, <1>5, <1>6, <1>7, <1>8 DEF StreamStep

LEMMA HardeningFails ==
    ASSUME DrillInv, BadInv, NEW h \in Hardening, HardeningStep(h),
           drill'[h].step = "FAIL"
    PROVE  Cause(h)
<1>1. PICK nd, e : nd = node /\ e = drill[h]
  OBVIOUS
<1>2. /\ NodeOK(nd) /\ LocalInv(nd, h, e) /\ e \in Local /\ errors \in Nat
      /\ h \in DOMAIN drill /\ h \notin Stream /\ ~Coinbase(h)
  BY <1>1, TwoKinds DEF DrillInv, LocalInv, Drill, Coinbase
<1>4. \A x : Goes(h, x).step = x
  BY <1>1, <1>2 DEF Goes, Local
<1>5. CASE Originate(h)
  <2>1. PICK tx, d : /\ tx = [id |-> Txid(h, 1), spends |-> Txid(h, 0),
                              coins |-> Wallet, entry |-> NoTx]
                     /\ d = Goes(h, "anchor")
    OBVIOUS
  <2>2. Call(h, Sent(nd, tx), d) /\ d.step # "FAIL" /\ e.step = "send"
    BY <1>1, <1>4, <1>5, <2>1 DEF Originate, EntrySent, At
  <2>3. Keeps(nd, Txid(h, 0))
    <3>1. LastSent(h, e) = 0
      BY <1>2, <2>2 DEF LastSent
    <3> QED
      BY <1>2, <2>2, <3>1 DEF LocalInv, WalletInv, Out
  <2>4. Sent(nd, tx) # {}
    BY <2>1, <2>3 DEF Sent, Spendable, Keeps, IDs
  <2> QED
    BY <1>2, <2>2, <2>4, CallFails DEF Cause
<1>6. CASE Anchor(h)
  <2>1. PICK nn : nn = Generated(nd, 1)
    OBVIOUS
  <2>2. PICK d : d = [Goes(h, "bury") EXCEPT !.block = nn.tip, !.tip = Height(nn, nn.tip)]
    OBVIOUS
  <2>3. Call(h, {nn}, d) /\ d.step # "FAIL"
    BY <1>1, <1>2, <1>6, <2>1, <2>2 DEF Anchor, Goes, Local
  <2> QED
    BY <1>2, <2>3, CallFails DEF Cause
<1>7. CASE Bury(h)
  <2>1. e.step = "bury"
    BY <1>1, <1>7 DEF Bury, At
  <2>0. SUFFICES ASSUME ~nd.undone PROVE errors' > errors
    BY <1>1, <2>1 DEF Cause, At
  <2>2. PICK nn : nn = Generated(nd, ConfDepth - 1)
    OBVIOUS
  <2>3. /\ NodeOK(nn) /\ e.block \in Numbers(nd) /\ e.block \in Numbers(nn)
        /\ Height(nn, e.block) = Height(nd, e.block)
        /\ Height(nd, e.block) \in Nat /\ e.tip = Height(nd, e.block)
        /\ Len(nn.blocks) = Len(nd.blocks) + ConfDepth - 1
        /\ nn.undone = nd.undone
    BY <1>2, <2>1, <2>2, BuryFacts
  <2>4. /\ Height(nd, e.block) = e.block /\ Height(nn, nn.tip) = Len(nn.blocks)
    BY <1>2, <2>0, <2>3, InLine
  <2>5. e.block <= Len(nd.blocks) /\ Len(nd.blocks) \in Nat /\ e.block \in Nat
    BY <1>2, <2>3, TipFacts DEF Numbers
  <2>6. ConfDepth \in Nat /\ ConfDepth > 1
    BY DrillAssumption
  <2>7. PICK d : d = [e EXCEPT !.tip = Height(nn, nn.tip)]
    OBVIOUS
  <2>8. Depth(e) < ConfDepth
    BY <1>1, <2>3, <2>4, <2>5, <2>6 DEF Depth
  <2>9. d.tip = Len(nn.blocks) /\ d.block = e.block
    BY <1>2, <2>4, <2>7 DEF Local
  <2>10. Depth(d) >= ConfDepth
    BY <1>1, <2>3, <2>4, <2>5, <2>6, <2>9 DEF Depth
  <2>11. PICK c : c = [d EXCEPT !.step = IF TRUE THEN "check" ELSE "FAIL"]
    OBVIOUS
  <2>12. Call(h, {nn}, c)
    BY <1>1, <1>7, <2>2, <2>7, <2>8, <2>10, <2>11 DEF Bury
  <2>13. c.step = "check"
    BY <1>2, <2>7, <2>11 DEF Local
  <2> QED
    BY <1>2, <2>12, <2>13, CallFails
<1>8. CASE CheckChain(h)
  <2>1. e.block \in Numbers(nd)
    BY <1>1, <1>2, <1>8 DEF CheckChain, At, LocalInv, AnchorInv
  <2>0. SUFFICES ASSUME ~nd.undone PROVE errors' > errors
    BY <1>1, <1>8 DEF Cause, CheckChain
  <2>2. InChain(drill[h].block)
    BY <1>1, <1>2, <2>0, <2>1, InLine DEF InChain
  <2>3. PICK d : d = Goes(h, "reorg")
    OBVIOUS
  <2>4. Call(h, {nd}, d) /\ d.step # "FAIL"
    BY <1>1, <1>4, <1>8, <2>2, <2>3 DEF CheckChain
  <2> QED
    BY <1>2, <2>4, CallFails
<1>9. CASE InvalidateBlock(h)
  <2>1. PICK after, d : after = Invalidated(nd, e.block) /\ d = Goes(h, "recheck")
    OBVIOUS
  <2>2. after # {}
    BY <1>2, <2>1, SettledSome DEF Invalidated, NodeOK
  <2>3. Call(h, after, d) /\ d.step # "FAIL"
    BY <1>1, <1>4, <1>9, <2>1 DEF InvalidateBlock
  <2> QED
    BY <1>2, <2>2, <2>3, CallFails DEF Cause
<1>10. CASE CheckDivergence(h)
  <2>1. e.step = "recheck" /\ e.block \in Numbers(nd) /\ e.block # 0
    <3>1. e.step = "recheck" /\ e.block \in Numbers(nd)
      BY <1>1, <1>2, <1>10 DEF CheckDivergence, At, LocalInv, AnchorInv
    <3>2. Len(nd.blocks) \in Nat
      BY <1>2, TipFacts
    <3> QED
      BY <3>1, <3>2 DEF Numbers
  <2>2. CASE InChain(drill[h].block)
    <3>1. e.block \in Chain(nd, nd.tip)
      BY <1>1, <2>1, <2>2, FoundInChain DEF InChain
    <3>2. e.block \notin nd.bad
      BY <1>1, <3>1 DEF BadInv, ValidOK
    <3>3. OtherRestored(h)
      BY <1>1, <2>1, <3>2 DEF BadInv, At
    <3> QED
      BY <1>1, <2>1, <3>2, <3>3 DEF Cause, At
  <2>3. CASE ~InChain(drill[h].block)
    <3>1. drill' = [drill EXCEPT ![h] = Goes(h, "restore")]
      BY <1>10, <2>3 DEF CheckDivergence, Answered, Errs
    <3> QED
      BY <1>2, <1>4, <3>1
  <2> QED
    BY <2>2, <2>3
<1>11. CASE ReconsiderBlock(h)
  <2>1. drill' = [drill EXCEPT ![h] = Goes(h, "poll")]
           \/ drill' = [drill EXCEPT ![h] = Goes(h, "PASS")]
    BY <1>11 DEF ReconsiderBlock, Answered, Errs
  <2> QED
    BY <1>2, <1>4, <2>1
<1>12. CASE Poll(h)
  <2>1. PICK d, again :
            /\ d = NextPoll(e)
            /\ again = [d EXCEPT !.step = IF d.polls < Polls THEN "poll" ELSE "PASS"]
            /\ drill'[h] \in {Goes(h, "PASS"), again}
    BY <1>1, <1>2, <1>12 DEF Poll, Answered, Errs
  <2>2. again.step \in {"poll", "PASS"}
    BY <1>2, <2>1 DEF NextPoll, Local
  <2> QED
    BY <1>4, <2>1, <2>2
<1> QED
  BY <1>5, <1>6, <1>7, <1>8, <1>9, <1>10, <1>11, <1>12 DEF HardeningStep

LEMMA FailStep ==
    ASSUME DrillInv, BadInv, [DrillNext]_drillVars, NEW p \in Drill, ~At(p, "FAIL"),
           drill'[p].step = "FAIL"
    PROVE  Cause(p)
<1>1. CASE UNCHANGED drillVars
  BY <1>1 DEF drillVars, At
<1>2. ASSUME NEW q \in Drill, Step(q), q # p PROVE FALSE
  BY <1>2, StepOnly DEF At, DrillInv
<1>3. CASE Step(p)
  BY <1>3, FundFails, StreamFails, HardeningFails DEF Step
<1> QED
  BY <1>1, <1>2, <1>3 DEF DrillNext

\* A drill is failed by an error of a call of its own; or, if its coins are a
\* coinbase's, by another client's transaction in that block or by a
\* reorganisation; or, if it watches its block, by a reorganisation before it
\* has made its own; or, after its own, when another drill has asked for
\* blocks to be valid again.  Its own invalidation never fails it, and
\* whatever is mined or undone in the middle of it, the walk of a stream
\* drill rebuilds what was written (hardene2e lines 70-98).
THEOREM FailTheorem == DrillSpec => FailHasCause
<1> DEFINE A == \A p \in Drill :
                    (~At(p, "FAIL") /\ drill'[p].step = "FAIL") => Cause(p)
<1>1. DrillInv /\ BadInv /\ [DrillNext]_drillVars => [A]_drillVars
  BY FailStep
<1> QED
  BY <1>1, BadInvariant, PTL DEF DrillSpec, FailHasCause, Cause
=============================================================================
