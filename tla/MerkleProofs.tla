---------------------------- MODULE MerkleProofs ----------------------------
(***************************************************************************)
(* Inclusion proofs and the BURI that carries one (services-go/spv/spv.go).*)
(*                                                                         *)
(* A transaction id is a sequence of one element and a hash of two nodes   *)
(* is their pair: hash256 is injective and no id is the hash of a pair.    *)
(* Indexes count from 0, as in the code.                                   *)
(***************************************************************************)
EXTENDS Integers, SequencesExt

NoRoot == <<>>
NoProof == [error |-> TRUE]

\* Odd levels repeat their last node.
Even(level) ==
    IF Len(level) % 2 = 1 THEN Append(level, Last(level)) ELSE level
Parents(level) ==
    [i \in 1 .. Len(Even(level)) \div 2 |->
        <<Even(level)[2 * i - 1], Even(level)[2 * i]>>]

\* The levels of the tree, leaves first, up to a single node.
Levels(leaves) ==
    LET up[n \in 0 .. Len(leaves)] ==
            IF n = 0 THEN <<leaves>>
            ELSE IF Len(Last(up[n - 1])) <= 1 THEN up[n - 1]
            ELSE Append(up[n - 1], Parents(Last(up[n - 1])))
    IN  up[Len(leaves)]

MerkleRoot(leaves) ==
    IF leaves = <<>> THEN NoRoot ELSE Last(Levels(leaves))[1]

\* idx ^ 1, from 0.
Sibling(idx) == IF idx % 2 = 0 THEN idx + 1 ELSE idx - 1

\* Go's division by two, toward zero.
Half(idx) == IF idx < 0 THEN -((-idx) \div 2) ELSE idx \div 2

\* The position of the transaction in each level, and its sibling there.
BranchFor(leaves, index) ==
    LET tree == Levels(leaves)
        idx[k \in 1 .. Len(tree)] == IF k = 1 THEN index ELSE Half(idx[k - 1])
    IN  [k \in 1 .. Len(tree) - 1 |-> Even(tree[k])[Sibling(idx[k]) + 1]]

\* Mutant of RootFromBranch: the position is not followed up the tree.
RootSameSide(leaf, branch, index) ==
    FoldLeft(LAMBDA h, sib : IF index % 2 = 0 THEN <<h, sib>> ELSE <<sib, h>>,
             leaf, branch)

\* A node and its position, one level up.
Climb(x, sib) ==
    <<IF x[2] % 2 = 0 THEN <<x[1], sib>> ELSE <<sib, x[1]>>, Half(x[2])>>

RootFromBranch(leaf, branch, index) ==
    FoldLeft(Climb, <<leaf, index>>, branch)[1]

BuildBURI(blockID, leaves, index) ==
    IF index \notin 0 .. Len(leaves) - 1 THEN NoProof
    ELSE [block |-> blockID, tx |-> leaves[index + 1], index |-> index,
          branch |-> BranchFor(leaves, index)]

\* String: four fields; no hashes leave the last one empty, and splitting an
\* empty text would give one empty hash.
EmptyText == <<>>
BuriText(b) ==
    <<b.block, b.tx, b.index,
      IF b.branch = <<>> THEN <<EmptyText>> ELSE b.branch>>

ParseBURI(text) ==
    IF Len(text) # 4 THEN NoProof
    ELSE [block |-> text[1], tx |-> text[2], index |-> text[3],
          branch |-> IF text[4] = <<EmptyText>> THEN <<>> ELSE text[4]]

Verify(b, merkleRoot) == RootFromBranch(b.tx, b.branch, b.index) = merkleRoot

\* The proof of every transaction of a block, a block of one and every odd
\* level included, survives its text form and verifies against the header;
\* there is none for a position outside the block.  Its hashes prove no other
\* transaction, whatever index is claimed, negative or beyond the block
\* (spv.go:44-85, 93-147).
ProvesExactly(leaves, index, others, claims) ==
    LET b == BuildBURI("block", leaves, index) IN
    IF index \notin 0 .. Len(leaves) - 1 THEN b = NoProof
    ELSE /\ ParseBURI(BuriText(b)) = b
         /\ Verify(b, MerkleRoot(leaves))
         /\ \A tx \in others \ {b.tx}, i \in claims :
                ~Verify([b EXCEPT !.tx = tx, !.index = i], MerkleRoot(leaves))
=============================================================================
