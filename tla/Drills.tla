------------------------------- MODULE Drills -------------------------------
(***************************************************************************)
(* The drills of services-go/cmd side by side on one node: the stream      *)
(* drills (streame2e, svnodee2e, confidente2e), which broadcast a stream   *)
(* and rebuild it from the chain, and the hardening drill (hardene2e),     *)
(* which waits for depth and then makes the chain reorganise.              *)
(*                                                                         *)
(* Every step is one call of node/client.go, together with the reads whose *)
(* answer cannot change any more.  A call is made once: it is answered, or *)
(* errs before or after the node obeyed, and then the drill ends with FAIL *)
(* (ck), but for the two places hardene2e goes on.                         *)
(***************************************************************************)
EXTENDS ChainNode, TLC

CONSTANTS
    Stream, Hardening,   \* the drills
    Plan,        \* [Stream -> [funding, ordered, confidential, program]]
    ConfDepth,   \* confDepth (3)
    Polls,       \* how often hardene2e asks for the restored chain (5)
    MaxErrors,   \* bound: calls that err in a behaviour
    Together     \* bound: drills that run side by side

ASSUME DrillAssumption ==
    /\ ConfDepth \in Nat \ {0, 1} /\ {Polls, MaxErrors, Together} \subseteq Nat
    /\ Stream \cap Hardening = {}

\* The programs insert and update, and the confidential one is one entry
\* (streame2e:46-51, svnodee2e:60-65, confidente2e:96-98).
ASSUME PlanAssumption ==
    \A s \in Stream :
        LET program == Plan[s].program IN
        /\ program \in Seq(Range(program)) /\ program # <<>>
        /\ \A i \in DOMAIN program : program[i].op # "delete"
        /\ Plan[s].confidential =>
              Len(program) = 1 /\ program[1].value # "another value"

VARIABLES
    node,     \* the node they share
    drill,    \* the local variables of each
    errors    \* calls that erred so far

drillVars == <<node, drill, errors>>

Drill == Stream \cup Hardening
Ended == {"PASS", "FAIL", "idle"}   \* idle: not run
Txid(p, i) == <<p, i>>

DrillInit ==
    /\ node = NewNode
    /\ errors = 0
    /\ \E run \in SUBSET Drill :
          /\ Cardinality(run) = Together
          /\ drill = [p \in Drill |->
                         [step |-> IF p \in run THEN "fund" ELSE "idle",
                          coins |-> Wallet, sent |-> 0, cursor |-> NoTx,
                          walk |-> <<>>, block |-> 0, tip |-> 0, polls |-> 0]]

At(p, step) == drill[p].step = step
Goes(p, step) == [drill[p] EXCEPT !.step = step]

\* A call by p that leaves the node in one of after, none if it refuses, and
\* p with the variables d.
Answered(p, after, d) ==
    node' \in after /\ drill' = [drill EXCEPT ![p] = d] /\ UNCHANGED errors
Errs(p, after, d) ==
    /\ errors < MaxErrors /\ errors' = errors + 1
    /\ node' \in after \cup {node}
    /\ drill' = [drill EXCEPT ![p] = d]
Refused(p) == Answered(p, {node}, Goes(p, "FAIL"))
Call(p, after, d) ==
    \/ Answered(p, after, d)
    \/ Errs(p, after, Goes(p, "FAIL"))
    \/ after = {} /\ Refused(p)

-----------------------------------------------------------------------------
(* Funding, by a transaction of the wallet or by a coinbase.               *)

Coinbase(p) == p \in Stream /\ Plan[p].funding = "coinbase"

SendToAddress(p) ==
    /\ At(p, "fund") /\ ~Coinbase(p)
    /\ Call(p, Sent(node, [id |-> Txid(p, 0), spends |-> NoTx,
                           coins |-> Wallet, entry |-> NoTx]),
            Goes(p, "confirm"))
GenerateToAddress(p) ==
    /\ At(p, "fund") /\ Coinbase(p)
    /\ LET nd == Generated(node, 1)
       IN  Call(p, {nd}, [Goes(p, "confirm") EXCEPT !.coins = nd.tip])
Confirm(p) ==
    /\ At(p, "confirm")
    /\ IF Coinbase(p) THEN Call(p, {Generated(node, Maturity)}, Goes(p, "open"))
       ELSE Call(p, {Generated(node, 1)}, Goes(p, "send"))

\* The merkle root of the block is the coinbase's id only if nothing else
\* is in the block.
OpenCoinbase(p) ==
    /\ At(p, "open")
    /\ \/ Call(p, IF node.blocks[drill[p].coins].txs = {} THEN {node} ELSE {},
               Goes(p, "send"))
       \/ drill[p].coins \notin Chain(node, node.tip) /\ Refused(p)

-----------------------------------------------------------------------------
(* The stream drills.                                                      *)

Image(s, value) == IF Plan[s].confidential THEN <<"commit", value>> ELSE value
Entry(s, i, link) ==
    LET change == Plan[s].program[i]
    IN  [seq |-> i - 1, prev |-> link, row |-> change.row, op |-> change.op,
         image |-> Image(s, change.value)]

\* prevLink: none for the first entry.
Link(s, i) == IF i = 1 THEN NoTx ELSE Txid(s, i - 1)

SendEntry(s) ==
    LET i == drill[s].sent + 1
        spends == IF i = 1 /\ Coinbase(s) THEN NoTx ELSE Txid(s, i - 1)
    IN  /\ At(s, "send")
        /\ Call(s, Sent(node, [id |-> Txid(s, i), spends |-> spends,
                               coins |-> drill[s].coins,
                               entry |-> Entry(s, i, Link(s, i))]),
                [Goes(s, "mine") EXCEPT !.sent = i])

AfterEntry(s) ==
    IF drill[s].sent < Len(Plan[s].program)
    THEN Goes(s, "send")
    ELSE [Goes(s, "walk") EXCEPT !.cursor = Txid(s, drill[s].sent)]
MineEntry(s) ==
    /\ At(s, "mine")
    /\ Call(s, {Generated(node, 1)},
            IF Coinbase(s) THEN Goes(s, "discover") ELSE AfterEntry(s))

\* GetRawTransaction: a node may still have what fell out of its pool.
Everything == (UNION {b.txs : b \in Range(node.blocks)}) \cup node.pool
Missing(p, id) == id \notin IDs(Known(node)) /\ Refused(p)

\* Only streame2e looks at once for what it sent.
Discover(s) ==
    /\ At(s, "discover")
    /\ LET id == Txid(s, drill[s].sent)
       IN  \/ id \in IDs(Everything) /\ Call(s, {node}, AfterEntry(s))
           \/ Missing(s, id)

\* coldRebuild: one transaction back; an entry without a link ends the walk.
Walk(s) ==
    /\ At(s, "walk")
    /\ \/ \E t \in Everything :
              /\ t.id = drill[s].cursor
              /\ Call(s, {node}, [drill[s] EXCEPT
                     !.walk = Append(@, t.entry), !.cursor = t.entry.prev,
                     !.step = IF t.entry.prev = NoTx THEN "compare" ELSE "walk"])
       \/ Missing(s, drill[s].cursor)

Put(cells, row, value) == row :> value @@ cells

\* Mutant of Replay: in the order of the walk, head first.
ReplayAsWalked(walk) ==
    FoldLeft(LAMBDA c, e : Put(c, e.row, e.image), <<>>, walk)

\* From genesis to head.
Replay(walk) ==
    FoldLeft(LAMBDA c, e :
                 IF e.op = "delete" THEN [r \in DOMAIN c \ {e.row} |-> c[r]]
                 ELSE Put(c, e.row, e.image), <<>>, Reverse(walk))

Truth(s) ==
    FoldLeft(LAMBDA c, x : Put(c, x.row, x.value), <<>>, Plan[s].program)
Ordered(walk) == \A i \in DOMAIN walk : walk[i].seq = Len(walk) - i

\* svnodee2e compares the cells; streame2e the order and the length as well.
Rebuilds(s, walk) ==
    /\ Replay(walk) = Truth(s)
    /\ Plan[s].ordered => /\ Ordered(walk)
                          /\ Len(walk) = Len(Plan[s].program)

\* confidente2e: the image is a commitment that the value and blinding it
\* kept open, and no other value does.
Opens(s, entry) ==
    LET value == Plan[s].program[1].value
    IN  /\ entry.image[1] = "commit"
        /\ entry.image = Image(s, value)
        /\ entry.image # Image(s, "another value")

Passes(s) ==
    LET walk == drill[s].walk
    IN  IF Plan[s].confidential THEN Opens(s, walk[1]) ELSE Rebuilds(s, walk)
Compare(s) ==
    /\ At(s, "compare")
    /\ Answered(s, {node}, Goes(s, IF Passes(s) THEN "PASS" ELSE "FAIL"))

-----------------------------------------------------------------------------
(* The hardening drill.                                                    *)

EntrySent(h) == Sent(node, [id |-> Txid(h, 1), spends |-> Txid(h, 0),
                            coins |-> Wallet, entry |-> NoTx])

\* Mutant of Originate: the error is not looked at.
OriginateUnchecked(h) ==
    /\ At(h, "send")
    /\ \/ Answered(h, EntrySent(h), Goes(h, "anchor"))
       \/ Errs(h, EntrySent(h), Goes(h, "anchor"))

\* Originate sends the entry and mines a block, which LastBlockHash names.
Originate(h) ==
    /\ At(h, "send")
    /\ Call(h, EntrySent(h), Goes(h, "anchor"))
Anchor(h) ==
    /\ At(h, "anchor")
    /\ LET nd == Generated(node, 1)
       IN  Call(h, {nd}, [Goes(h, "bury") EXCEPT
                             !.block = nd.tip, !.tip = Height(nd, nd.tip)])

\* depth(): from the heights the drill has noted.
Depth(d) == d.tip - Height(node, d.block) + 1

\* Shallow is not final; the drill mines until it should be.
Bury(h) ==
    /\ At(h, "bury")
    /\ LET nd == Generated(node, ConfDepth - 1)
           d == [drill[h] EXCEPT !.tip = Height(nd, nd.tip)]
           gated == Depth(drill[h]) < ConfDepth /\ Depth(d) >= ConfDepth
       IN  Call(h, {nd}, [d EXCEPT !.step = IF gated THEN "check" ELSE "FAIL"])

\* Mutant of InChain: the node knows the block.
InChainIfKnown(block) == block \in DOMAIN node.blocks

\* inChain(): the active block at the entry's height is the entry's.
InChain(block) == BlockAt(node, Height(node, block)) = block

\* An error counts as not in the chain.
CheckChain(h) ==
    /\ At(h, "check")
    /\ Call(h, {node},
            Goes(h, IF InChain(drill[h].block) THEN "reorg" ELSE "FAIL"))
InvalidateBlock(h) ==
    /\ At(h, "reorg")
    /\ Call(h, Invalidated(node, drill[h].block),
            Goes(h, "recheck"))
CheckDivergence(h) ==
    /\ At(h, "recheck")
    /\ \/ Answered(h, {node},
              Goes(h, IF InChain(drill[h].block) THEN "FAIL" ELSE "restore"))
       \/ Errs(h, {node}, Goes(h, "restore"))
ReconsiderBlock(h) ==
    LET after == Reconsidered(node, drill[h].block)
    IN  /\ At(h, "restore")
        /\ \/ Answered(h, after, Goes(h, "poll"))
           \/ Errs(h, after, Goes(h, "PASS"))

\* Mutant of NextPoll: asks until the chain is restored.
PollOn(d) == d

NextPoll(d) == [d EXCEPT !.polls = @ + 1]
Poll(h) ==
    LET d == NextPoll(drill[h])
        again == [d EXCEPT !.step = IF d.polls < Polls THEN "poll" ELSE "PASS"]
    IN  /\ At(h, "poll")
        /\ \/ Answered(h, {node}, IF InChain(drill[h].block)
                                  THEN Goes(h, "PASS") ELSE again)
           \/ Errs(h, {node}, again)

-----------------------------------------------------------------------------
Fund(p) ==
    SendToAddress(p) \/ GenerateToAddress(p) \/ Confirm(p) \/ OpenCoinbase(p)
StreamStep(s) ==
    SendEntry(s) \/ MineEntry(s) \/ Discover(s) \/ Walk(s) \/ Compare(s)
HardeningStep(h) ==
    \/ Originate(h) \/ Anchor(h) \/ Bury(h) \/ CheckChain(h)
    \/ InvalidateBlock(h) \/ CheckDivergence(h) \/ ReconsiderBlock(h) \/ Poll(h)
Step(p) ==
    Fund(p) \/ (p \in Stream /\ StreamStep(p))
            \/ (p \in Hardening /\ HardeningStep(p))

DrillNext == \E p \in Drill : Step(p)

\* A drill runs until it exits, and a call returns or times out (client.go
\* line 20).  That some drill goes on is enough: none waits for another.
DrillSpec == DrillInit /\ [][DrillNext]_drillVars /\ WF_drillVars(DrillNext)

-----------------------------------------------------------------------------
\* Blocks of the active chain from the one with the transaction to the tip.
Confirmations(id) ==
    LET at == {b \in Chain(node, node.tip) : id \in IDs(node.blocks[b].txs)}
    IN  IF at = {} THEN 0
        ELSE Height(node, node.tip) - Height(node, CHOOSE b \in at : TRUE) + 1

\* A read is released only when the entry is as deep as was asked for, also
\* when another client's block took the entry or came in between, as long as
\* nothing reorganised: the drill counts from its own blocks (hardene2e
\* lines 66-82).
FinalMeansBuried ==
    \A h \in Hardening :
        At(h, "check") /\ ~node.undone =>
            Confirmations(Txid(h, 1)) >= ConfDepth

\* Whenever the drill finds the entry's block at its height, the entry has a
\* confirmation, whatever other drills made of the chain (hardene2e 88-95).
InChainSound ==
    [][\A h \in Hardening :
          At(h, "check") /\ drill'[h].step = "reorg" =>
              Confirmations(Txid(h, 1)) > 0]_drillVars

\* Another drill has asked for a block to be valid again.
OtherRestored(p) ==
    \E q \in Hardening \ {p} : drill[q].step \in {"poll", "PASS"}

\* A drill is failed by an error of a call of its own; or, if its coins are a
\* coinbase's, by another client's transaction in that block or by a
\* reorganisation; or, if it watches its block, by a reorganisation before it
\* has made its own, which is then another's; or, after its own, when another
\* drill's ReconsiderBlock has undone its InvalidateBlock.  Otherwise it
\* passes, whatever is mined or undone in the middle of it, and its own
\* invalidation never makes it fail (hardene2e lines 70-98).
FailHasCause ==
    [][\A p \in Drill :
          (~At(p, "FAIL") /\ drill'[p].step = "FAIL") =>
              \/ errors' > errors
              \/ /\ Coinbase(p)
                 /\ \/ node.undone
                    \/ node.blocks[drill[p].coins].txs # {}
              \/ p \in Hardening /\ (At(p, "bury") \/ At(p, "check")) /\ node.undone
              \/ /\ p \in Hardening /\ At(p, "recheck")
                 /\ drill[p].block \notin node.bad
                 /\ OtherRestored(p)]_drillVars

\* Every drill ends with a verdict.
DrillsEnd == <>(\A p \in Drill : drill[p].step \in Ended)
=============================================================================
