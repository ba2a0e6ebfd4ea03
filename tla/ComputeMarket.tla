--------------------------- MODULE ComputeMarket ---------------------------
(***************************************************************************)
(* The computation market (services-go/compute/compute.go): a task is      *)
(* posted with a bounty, a proposer commits a solution and a stake, and a  *)
(* challenge is resolved by a threshold group.                             *)
(*                                                                         *)
(* Callers may call anything in any order, also Post under an id in use,   *)
(* which replaces the task.  The hash of a solution is the solution.       *)
(* placed, paid and calls are history variables.                           *)
(***************************************************************************)
EXTENDS Integers, Sequences

CONSTANTS
    TaskID, Solution, DFAEvent,
    Width,       \* amounts are unsigned and wrap here (2^64)
    MaxAsset,    \* bound: the largest bounty or stake
    MaxGroup,    \* bound: the largest group
    MaxPlaced    \* bound: all that is ever placed under one id

ASSUME MarketAssumption ==
    /\ Width \in Nat \ {0}
    /\ {MaxAsset, MaxGroup, MaxPlaced} \subseteq Nat

VARIABLES
    tasks,    \* the map of the Market
    placed,   \* bounties and stakes ever placed under an id
    paid,     \* payouts ever made for it
    calls     \* what succeeded for it since it was last posted

marketVars == <<tasks, placed, paid, calls>>

NoTask == [phase |-> "none"]
NoEvent == ""
Asset == 0 .. MaxAsset
Task == [phase : {"posted", "committed", "challenged", "resolved"},
         bounty : Nat, stake : Nat, threshold : Nat,
         solution : Solution \cup {NoEvent}]

MarketInit ==
    /\ tasks = [id \in TaskID |-> NoTask]
    /\ placed = [id \in TaskID |-> 0]
    /\ paid = [id \in TaskID |-> 0]
    /\ calls = [id \in TaskID |-> <<>>]

\* An asset goes under the id's control.
Place(id, amount) ==
    /\ placed[id] + amount <= MaxPlaced
    /\ placed' = [placed EXCEPT ![id] = @ + amount]
    /\ UNCHANGED paid
Log(id, call) == calls' = [calls EXCEPT ![id] = Append(@, call)]

Posting(bounty, threshold) ==
    [phase |-> "posted", bounty |-> bounty, stake |-> 0,
     threshold |-> threshold, solution |-> NoEvent]

\* Mutant of Posted: a task that is there keeps its phase and commitment.
PostedOver(task, bounty, threshold) ==
    IF task = NoTask THEN Posting(bounty, threshold)
    ELSE [task EXCEPT !.bounty = bounty, !.threshold = threshold]

\* Whatever was there is replaced.
Posted(task, bounty, threshold) == Posting(bounty, threshold)

Post(id, bounty, groupSize, threshold) ==
    /\ threshold \in 1 .. groupSize
    /\ Place(id, bounty)
    /\ tasks' = [tasks EXCEPT ![id] = Posted(@, bounty, threshold)]
    /\ calls' = [calls EXCEPT ![id] = <<<<"post", bounty, threshold>>>>]

Commit(id, solution, stake) ==
    /\ tasks[id].phase = "posted"
    /\ Place(id, stake)
    /\ tasks' = [tasks EXCEPT ![id].phase = "committed", ![id].stake = stake,
                              ![id].solution = solution]
    /\ Log(id, <<"commit", solution, stake>>)

Challenge(id) ==
    /\ tasks[id].phase = "committed"
    /\ tasks' = [tasks EXCEPT ![id].phase = "challenged"]
    /\ Log(id, <<"challenge">>)
    /\ UNCHANGED <<placed, paid>>

\* Mutant of Closed: the task stays challenged.
NotClosed(task) == task

Closed(task) == [task EXCEPT !.phase = "resolved"]

Payout(task) == (task.bounty + task.stake) % Width

\* A solution other than the committed one pays nobody: both assets stay.
Resolve(id, revealed, sigs, event) ==
    LET t == tasks[id]
        accepted == revealed = t.solution
        payout == IF accepted THEN Payout(t) ELSE 0
    IN
    /\ t.phase = "challenged" /\ sigs >= t.threshold
    /\ tasks' = [tasks EXCEPT ![id] = Closed(@)]
    /\ paid' = [paid EXCEPT ![id] = @ + payout]
    /\ Log(id, <<"resolve", revealed, sigs, payout,
                 IF accepted THEN event ELSE NoEvent>>)
    /\ UNCHANGED placed

MarketNext ==
    \E id \in TaskID :
        \/ \E b \in Asset, g, t \in 0 .. MaxGroup : Post(id, b, g, t)
        \/ \E s \in Solution, k \in Asset : Commit(id, s, k)
        \/ Challenge(id)
        \/ \E s \in Solution, g \in 0 .. MaxGroup, e \in DFAEvent :
              Resolve(id, s, g, e)

MarketSpec == MarketInit /\ [][MarketNext]_marketVars

-----------------------------------------------------------------------------
MarketTypeOK ==
    /\ tasks \in [TaskID -> Task \cup {NoTask}]
    /\ placed \in [TaskID -> Nat]
    /\ paid \in [TaskID -> Nat]

\* Whatever is called again, replaced or resolved, no more is ever paid out
\* under an id than bounties and stakes were placed under it: no asset leaves
\* twice, and a payout that wraps pays too little (compute.go:44-100).
NeverOverpays == \A id \in TaskID : paid[id] <= placed[id]

\* A payout, or an event for an automaton, comes only from a posting that
\* went through commitment, challenge and a threshold of its own group, and
\* reveals the solution committed since, whatever was posted, committed or
\* challenged under the id before (compute.go:52-98, SYS-COMP-001).
PayoutEarned ==
    \A id \in TaskID : \A i \in DOMAIN calls[id] :
        LET c == calls[id] IN
        (c[i][1] = "resolve" /\ (c[i][4] > 0 \/ c[i][5] # NoEvent)) =>
            /\ i = 4 /\ Len(c) = 4
            /\ c[1][1] = "post" /\ c[2][1] = "commit" /\ c[3][1] = "challenge"
            /\ c[4][2] = c[2][2] /\ c[4][3] >= c[1][3]
            /\ c[4][4] = (c[1][2] + c[2][3]) % Width
=============================================================================
