-------------------------- MODULE LibrariesProofs --------------------------
(***************************************************************************)
(* The packages that keep no state, and the computation market.            *)
(*                                                                         *)
(* The market's invariant accounts for what a task still holds and keeps   *)
(* the calls that brought it into its phase.  Of the other packages the    *)
(* only invariant is that they are called with a caller's arguments        *)
(* (InputInv); each property then is a fact about operators, proved for    *)
(* arguments of any size: encodings are injective because of their length  *)
(* words, a decoder is followed by what it leaves of the octets, and the   *)
(* way up a tree of hashes forgets nothing.                                *)
(***************************************************************************)
EXTENDS Libraries, WalkProofs, SequenceTheorems, FiniteSetTheorems

\* What a task still holds.
Due(task) ==
    IF task = NoTask \/ task.phase = "resolved" THEN 0
    ELSE task.bounty + task.stake

\* What was paid and what the current task still holds was all placed.
FundsInv == \A id \in TaskID : paid[id] + Due(tasks[id]) <= placed[id]

\* The calls that brought a task into its phase.
PostCall(task) == <<"post", task.bounty, task.threshold>>
CommitCall(task) == <<"commit", task.solution, task.stake>>

\* The last call of a resolved task had enough signatures, and paid for the
\* committed solution or not at all.
Settles(task, call) ==
    /\ call = <<"resolve", call[2], call[3], call[4], call[5]>>
    /\ call[3] >= task.threshold
    /\ IF call[2] = task.solution THEN call[4] = Payout(task)
       ELSE call[4] = 0 /\ call[5] = NoEvent

Brought(task, c) ==
    /\ task = NoTask => c = <<>>
    /\ task.phase = "posted" => c = <<PostCall(task)>>
    /\ task.phase = "committed" => c = <<PostCall(task), CommitCall(task)>>
    /\ task.phase = "challenged" =>
          c = <<PostCall(task), CommitCall(task), <<"challenge">> >>
    /\ task.phase = "resolved" =>
          /\ c = <<PostCall(task), CommitCall(task), <<"challenge">>, c[4]>>
          /\ Settles(task, c[4])

CallsInv == \A id \in TaskID : Brought(tasks[id], calls[id])

MarketInv ==
    /\ MarketTypeOK
    /\ DOMAIN calls = TaskID
    /\ FundsInv
    /\ CallsInv

-----------------------------------------------------------------------------
\* A task in a phase is a record with all its fields.
LEMMA PhaseIsTask ==
    ASSUME MarketTypeOK, NEW id \in TaskID, tasks[id].phase # "none"
    PROVE  tasks[id] \in Task
BY DEF MarketTypeOK, NoTask

\* A payout may wrap, and is at most what it adds up.
LEMMA PayoutBound ==
    ASSUME NEW task, task.bounty \in Nat, task.stake \in Nat
    PROVE  Payout(task) \in Nat /\ Payout(task) <= task.bounty + task.stake
<1>1. Width \in Nat \ {0}
  BY MarketAssumption
<1>2. \A x \in Nat : x % Width \in Nat /\ x % Width <= x
  BY <1>1
<1>3. task.bounty + task.stake \in Nat
  OBVIOUS
<1> QED
  BY <1>2, <1>3 DEF Payout

\* A sequence is another with one element more if it agrees with it.
LEMMA AppendIsTuple ==
    ASSUME NEW S, NEW q \in Seq(S), NEW r \in Seq(S), NEW e \in S,
           Len(r) = Len(q) + 1, r[Len(q) + 1] = e,
           \A i \in 1 .. Len(q) : r[i] = q[i]
    PROVE  Append(q, e) = r
<1>1. /\ Append(q, e) \in Seq(S) /\ Len(Append(q, e)) = Len(q) + 1
      /\ Len(q) \in Nat
      /\ \A i \in 1 .. Len(q) : Append(q, e)[i] = q[i]
      /\ Append(q, e)[Len(q) + 1] = e
  OBVIOUS
<1>2. \A i \in 1 .. Len(Append(q, e)) : Append(q, e)[i] = r[i]
  BY <1>1
<1> QED
  BY <1>1, <1>2, SeqEqual

\* What a call appends to the calls of a task.
LEMMA AppendToOne ==
    ASSUME NEW a, NEW b
    PROVE  Append(<<a>>, b) = <<a, b>>
<1> DEFINE S == {a, b}
           q == <<a>>
           r == <<a, b>>
<1>1. q \in Seq(S) /\ r \in Seq(S) /\ b \in S /\ Len(q) = 1 /\ Len(r) = 2
  OBVIOUS
<1>2. r[2] = b /\ \A i \in 1 .. 1 : r[i] = q[i]
  OBVIOUS
<1> HIDE DEF S, q, r
<1>3. /\ Len(r) = Len(q) + 1 /\ r[Len(q) + 1] = b
      /\ \A i \in 1 .. Len(q) : r[i] = q[i]
  BY <1>1, <1>2
<1>4. Append(q, b) = r
  BY <1>1, <1>3, AppendIsTuple
<1> QED
  BY <1>4 DEF q, r

LEMMA AppendToTwo ==
    ASSUME NEW a, NEW b, NEW c
    PROVE  Append(<<a, b>>, c) = <<a, b, c>>
<1> DEFINE S == {a, b, c}
           q == <<a, b>>
           r == <<a, b, c>>
<1>1. q \in Seq(S) /\ r \in Seq(S) /\ c \in S /\ Len(q) = 2 /\ Len(r) = 3
  OBVIOUS
<1>2. r[3] = c /\ \A i \in 1 .. 2 : r[i] = q[i]
  OBVIOUS
<1> HIDE DEF S, q, r
<1>3. /\ Len(r) = Len(q) + 1 /\ r[Len(q) + 1] = c
      /\ \A i \in 1 .. Len(q) : r[i] = q[i]
  BY <1>1, <1>2
<1>4. Append(q, c) = r
  BY <1>1, <1>3, AppendIsTuple
<1> QED
  BY <1>4 DEF q, r

LEMMA AppendToThree ==
    ASSUME NEW a, NEW b, NEW c, NEW d
    PROVE  Append(<<a, b, c>>, d) = <<a, b, c, d>>
<1> DEFINE S == {a, b, c, d}
           q == <<a, b, c>>
           r == <<a, b, c, d>>
<1>1. q \in Seq(S) /\ r \in Seq(S) /\ d \in S /\ Len(q) = 3 /\ Len(r) = 4
  OBVIOUS
<1>2. r[4] = d /\ \A i \in 1 .. 3 : r[i] = q[i]
  OBVIOUS
<1> HIDE DEF S, q, r
<1>3. /\ Len(r) = Len(q) + 1 /\ r[Len(q) + 1] = d
      /\ \A i \in 1 .. Len(q) : r[i] = q[i]
  BY <1>1, <1>2
<1>4. Append(q, d) = r
  BY <1>1, <1>3, AppendIsTuple
<1> QED
  BY <1>4 DEF q, r

LEMMA InitInv == MarketInit => MarketInv
<1> SUFFICES ASSUME MarketInit
             PROVE  MarketInv
  OBVIOUS
<1>1. MarketTypeOK /\ DOMAIN calls = TaskID
  BY DEF MarketInit, MarketTypeOK
<1>2. FundsInv
  <2>1. Due(NoTask) = 0
    BY DEF Due
  <2> SUFFICES ASSUME NEW id \in TaskID
               PROVE  paid[id] + Due(tasks[id]) <= placed[id]
    BY DEF FundsInv
  <2>2. paid[id] = 0 /\ placed[id] = 0 /\ tasks[id] = NoTask
    BY DEF MarketInit
  <2>3. Due(tasks[id]) = 0
    BY <2>1, <2>2
  <2> QED
    BY <2>2, <2>3
<1>3. CallsInv
  BY DEF MarketInit, CallsInv, Brought, NoTask
<1> QED
  BY <1>1, <1>2, <1>3 DEF MarketInv

\* What a step has to show: it works on one task, and what it does to the
\* task, to the amounts and to its calls fits together.
LEMMA OneTaskStep ==
    ASSUME MarketInv, NEW id \in TaskID,
           NEW task \in Task, NEW sum \in Nat, NEW out \in Nat, NEW c,
           tasks' = [tasks EXCEPT ![id] = task],
           placed' = [placed EXCEPT ![id] = sum],
           paid' = [paid EXCEPT ![id] = out],
           calls' = [calls EXCEPT ![id] = c],
           out + Due(task) <= sum,
           Brought(task, c)
    PROVE  MarketInv'
<1>1. MarketTypeOK' /\ DOMAIN calls' = TaskID
  BY DEF MarketInv, MarketTypeOK
<1>2. FundsInv'
  <2> SUFFICES ASSUME NEW x \in TaskID
               PROVE  paid'[x] + Due(tasks'[x]) <= placed'[x]
    BY DEF FundsInv
  <2>1. CASE x = id
    BY <2>1 DEF MarketInv, MarketTypeOK
  <2>2. CASE x # id
    BY <2>2 DEF MarketInv, MarketTypeOK, FundsInv
  <2> QED
    BY <2>1, <2>2
<1>3. CallsInv'
  <2> SUFFICES ASSUME NEW x \in TaskID
               PROVE  Brought(tasks'[x], calls'[x])
    BY DEF CallsInv
  <2>1. CASE x = id
    BY <2>1 DEF MarketInv, MarketTypeOK
  <2>2. CASE x # id
    BY <2>2 DEF MarketInv, MarketTypeOK, CallsInv
  <2> QED
    BY <2>1, <2>2
<1> QED
  BY <1>1, <1>2, <1>3 DEF MarketInv

\* A new posting starts over: what the old task held stays behind.
LEMMA PostStep ==
    ASSUME MarketInv, NEW id \in TaskID, NEW b \in Asset,
           NEW g \in 0 .. MaxGroup, NEW t \in 0 .. MaxGroup, Post(id, b, g, t)
    PROVE  MarketInv'
<1> DEFINE task == Posting(b, t)
<1>1. b \in Nat /\ t \in Nat /\ placed[id] \in Nat /\ paid[id] \in Nat
  BY MarketAssumption DEF Asset, MarketInv, MarketTypeOK
<1>2. task \in Task
  BY <1>1 DEF Posting, Task
<1>3. /\ tasks' = [tasks EXCEPT ![id] = task]
      /\ placed' = [placed EXCEPT ![id] = placed[id] + b]
      /\ paid' = [paid EXCEPT ![id] = paid[id]]
      /\ calls' = [calls EXCEPT ![id] = << <<"post", b, t>> >>]
  BY DEF Post, Place, Posted, MarketInv, MarketTypeOK
<1>4. Due(task) = b
  BY <1>1 DEF Due, Posting, NoTask
<1>5. Due(tasks[id]) >= 0 /\ Due(tasks[id]) \in Nat
  <2>1. CASE tasks[id] = NoTask
    BY <2>1 DEF Due
  <2>2. CASE tasks[id] \in Task
    BY <2>2 DEF Due, Task
  <2> QED
    BY <2>1, <2>2 DEF MarketInv, MarketTypeOK
<1>6. paid[id] <= placed[id]
  BY <1>1, <1>5 DEF MarketInv, FundsInv
<1>7. paid[id] + Due(task) <= placed[id] + b
  BY <1>1, <1>4, <1>6
<1>8. Brought(task, << <<"post", b, t>> >>)
  BY DEF Brought, Posting, NoTask, PostCall
<1>9. placed[id] + b \in Nat
  BY <1>1
<1> HIDE DEF task
<1> QED
  BY <1>1, <1>2, <1>3, <1>7, <1>8, <1>9, OneTaskStep

LEMMA CommitStep ==
    ASSUME MarketInv, NEW id \in TaskID, NEW s \in Solution, NEW k \in Asset,
           Commit(id, s, k)
    PROVE  MarketInv'
<1> DEFINE task == [tasks[id] EXCEPT !.phase = "committed", !.stake = k,
                                     !.solution = s]
<1>1. k \in Nat /\ placed[id] \in Nat /\ paid[id] \in Nat
  BY MarketAssumption DEF Asset, MarketInv, MarketTypeOK
<1>2. tasks[id] \in Task /\ tasks[id].phase = "posted"
  BY PhaseIsTask DEF Commit, MarketInv
<1>3. task \in Task
  BY <1>1, <1>2 DEF Task
<1>4. /\ tasks' = [tasks EXCEPT ![id] = task]
      /\ placed' = [placed EXCEPT ![id] = placed[id] + k]
      /\ paid' = [paid EXCEPT ![id] = paid[id]]
      /\ calls' = [calls EXCEPT ![id] = Append(calls[id], <<"commit", s, k>>)]
  BY <1>2 DEF Commit, Place, Log, MarketInv, MarketTypeOK, Task
<1>5. paid[id] + Due(task) <= placed[id] + k
  <2>1. tasks[id].bounty \in Nat /\ tasks[id].stake \in Nat
    BY <1>2 DEF Task
  <2>2. Due(tasks[id]) = tasks[id].bounty + tasks[id].stake
    BY <1>2 DEF Due, NoTask
  <2>3. Due(task) = tasks[id].bounty + k
    BY <1>2 DEF Due, Task, NoTask
  <2>4. paid[id] + Due(tasks[id]) <= placed[id]
    BY DEF MarketInv, FundsInv
  <2> QED
    BY <1>1, <2>1, <2>2, <2>3, <2>4
<1>6. Brought(task, Append(calls[id], <<"commit", s, k>>))
  <2>1. calls[id] = <<PostCall(tasks[id])>>
    BY <1>2 DEF MarketInv, CallsInv, Brought
  <2>2. PostCall(task) = PostCall(tasks[id])
        /\ CommitCall(task) = <<"commit", s, k>>
    BY <1>2 DEF PostCall, CommitCall, Task
  <2>3. Append(calls[id], <<"commit", s, k>>)
            = <<PostCall(task), CommitCall(task)>>
    <3> HIDE DEF task
    <3>1. Append(<<PostCall(tasks[id])>>, <<"commit", s, k>>)
              = <<PostCall(tasks[id]), <<"commit", s, k>> >>
      BY AppendToOne, Zenon
    <3> QED
      BY <2>1, <2>2, <3>1, Zenon
  <2>4. task.phase = "committed" /\ task # NoTask
    <3>1. task.phase = "committed"
      BY <1>2 DEF Task
    <3> HIDE DEF task
    <3> QED
      BY <3>1 DEF NoTask
  <2> QED
    BY <2>3, <2>4 DEF Brought
<1>7. placed[id] + k \in Nat
  BY <1>1
<1> HIDE DEF task
<1> QED
  BY <1>1, <1>3, <1>4, <1>5, <1>6, <1>7, OneTaskStep

LEMMA ChallengeStep ==
    ASSUME MarketInv, NEW id \in TaskID, Challenge(id)
    PROVE  MarketInv'
<1> DEFINE task == [tasks[id] EXCEPT !.phase = "challenged"]
<1>1. placed[id] \in Nat /\ paid[id] \in Nat
  BY DEF MarketInv, MarketTypeOK
<1>2. tasks[id] \in Task /\ tasks[id].phase = "committed"
  BY PhaseIsTask DEF Challenge, MarketInv
<1>3. task \in Task /\ task.phase = "challenged"
  BY <1>2 DEF Task
<1>4. /\ tasks' = [tasks EXCEPT ![id] = task]
      /\ placed' = [placed EXCEPT ![id] = placed[id]]
      /\ paid' = [paid EXCEPT ![id] = paid[id]]
      /\ calls' = [calls EXCEPT ![id] = Append(calls[id], <<"challenge">>)]
  BY <1>2 DEF Challenge, Log, MarketInv, MarketTypeOK, Task
<1>5. /\ task.bounty = tasks[id].bounty /\ task.stake = tasks[id].stake
      /\ task.threshold = tasks[id].threshold
      /\ task.solution = tasks[id].solution
  BY <1>2 DEF Task
<1> HIDE DEF task
<1>6. paid[id] + Due(task) <= placed[id]
  BY <1>2, <1>3, <1>5 DEF MarketInv, FundsInv, Due, NoTask
<1>7. Brought(task, Append(calls[id], <<"challenge">>))
  <2>1. calls[id] = <<PostCall(tasks[id]), CommitCall(tasks[id])>>
    BY <1>2 DEF MarketInv, CallsInv, Brought
  <2>2. PostCall(task) = PostCall(tasks[id])
        /\ CommitCall(task) = CommitCall(tasks[id])
    BY <1>5 DEF PostCall, CommitCall
  <2>3. Append(calls[id], <<"challenge">>)
            = <<PostCall(task), CommitCall(task), <<"challenge">> >>
    <3>1. Append(<<PostCall(tasks[id]), CommitCall(tasks[id])>>,
                 <<"challenge">>)
              = <<PostCall(tasks[id]), CommitCall(tasks[id]), <<"challenge">> >>
      BY AppendToTwo, Zenon
    <3> QED
      BY <2>1, <2>2, <3>1, Zenon
  <2> QED
    BY <1>3, <2>3 DEF Brought, NoTask
<1> QED
  BY <1>1, <1>3, <1>4, <1>6, <1>7, OneTaskStep

LEMMA ResolveStep ==
    ASSUME MarketInv, NEW id \in TaskID, NEW s \in Solution,
           NEW g \in 0 .. MaxGroup, NEW e \in DFAEvent, Resolve(id, s, g, e)
    PROVE  MarketInv'
<1> DEFINE old == tasks[id]
           task == [old EXCEPT !.phase = "resolved"]
           accepted == s = old.solution
           payout == IF accepted THEN Payout(old) ELSE 0
           call == <<"resolve", s, g, payout,
                     IF accepted THEN e ELSE NoEvent>>
<1>1. placed[id] \in Nat /\ paid[id] \in Nat
  BY DEF MarketInv, MarketTypeOK
<1>2. old \in Task /\ old.phase = "challenged" /\ g >= old.threshold
  BY PhaseIsTask DEF Resolve, MarketInv
<1>3. task \in Task /\ task.phase = "resolved"
  BY <1>2 DEF Task
<1>4. /\ tasks' = [tasks EXCEPT ![id] = task]
      /\ placed' = [placed EXCEPT ![id] = placed[id]]
      /\ paid' = [paid EXCEPT ![id] = paid[id] + payout]
      /\ calls' = [calls EXCEPT ![id] = Append(calls[id], call)]
  BY <1>2 DEF Resolve, Closed, Log, MarketInv, MarketTypeOK, Task
<1>5. /\ task.bounty = old.bounty /\ task.stake = old.stake
      /\ task.threshold = old.threshold /\ task.solution = old.solution
  BY <1>2 DEF Task
<1>6. old.bounty \in Nat /\ old.stake \in Nat
  BY <1>2 DEF Task
<1>7. payout \in Nat /\ payout <= old.bounty + old.stake
  BY <1>6, PayoutBound
<1>8. Due(task) = 0 /\ Due(old) = old.bounty + old.stake
  BY <1>2, <1>3 DEF Due, NoTask
<1>9. paid[id] + Due(old) <= placed[id]
  BY DEF MarketInv, FundsInv
<1>10. paid[id] + payout \in Nat /\ paid[id] + payout + Due(task) <= placed[id]
  <2> HIDE DEF payout, task, old
  <2> QED
    BY <1>1, <1>6, <1>7, <1>8, <1>9
<1>11. Brought(task, Append(calls[id], call))
  <2>1. calls[id] = <<PostCall(old), CommitCall(old), <<"challenge">> >>
    BY <1>2 DEF MarketInv, CallsInv, Brought
  <2>2. PostCall(task) = PostCall(old) /\ CommitCall(task) = CommitCall(old)
        /\ Payout(task) = Payout(old)
    BY <1>5 DEF PostCall, CommitCall, Payout
  <2>3. Settles(task, call)
    BY <1>2, <1>5, <2>2 DEF Settles
  <2> HIDE DEF call, task, old
  <2>4. Append(calls[id], call)
            = <<PostCall(task), CommitCall(task), <<"challenge">>, call>>
    <3>1. Append(<<PostCall(old), CommitCall(old), <<"challenge">> >>, call)
              = <<PostCall(old), CommitCall(old), <<"challenge">>, call>>
      BY AppendToThree, Zenon
    <3> QED
      BY <2>1, <2>2, <3>1, Zenon
  <2> QED
    BY <1>3, <2>3, <2>4 DEF Brought, NoTask
<1> HIDE DEF task, payout, call
<1> QED
  BY <1>1, <1>3, <1>4, <1>10, <1>11, OneTaskStep

LEMMA StepInv == MarketInv /\ [MarketNext]_marketVars => MarketInv'
<1> SUFFICES ASSUME MarketInv, [MarketNext]_marketVars
             PROVE  MarketInv'
  OBVIOUS
<1>1. CASE UNCHANGED marketVars
  BY <1>1 DEF marketVars, MarketInv, MarketTypeOK, FundsInv, CallsInv
<1>2. CASE MarketNext
  <2> PICK id \in TaskID :
          \/ \E b \in Asset, g, t \in 0 .. MaxGroup : Post(id, b, g, t)
          \/ \E s \in Solution, k \in Asset : Commit(id, s, k)
          \/ Challenge(id)
          \/ \E s \in Solution, g \in 0 .. MaxGroup, e \in DFAEvent :
                 Resolve(id, s, g, e)
    BY <1>2 DEF MarketNext
  <2> QED
    BY PostStep, CommitStep, ChallengeStep, ResolveStep
<1> QED
  BY <1>1, <1>2

\* What every phase and amount of the market satisfies.
THEOREM MarketInvariant == MarketSpec => []MarketInv
<1> QED
  BY InitInv, StepInv, PTL DEF MarketSpec

\* The map and the amounts have their types (compute.go:24-36).
THEOREM MarketTypeCorrect == MarketSpec => []MarketTypeOK
<1>1. MarketInv => MarketTypeOK
  BY DEF MarketInv
<1> QED
  BY <1>1, MarketInvariant, PTL

\* No asset leaves twice, whatever is posted over, rejected or wraps
\* (compute.go:44-100).
THEOREM NeverOverpaysTheorem == MarketSpec => []NeverOverpays
<1>1. MarketInv => NeverOverpays
  <2> SUFFICES ASSUME MarketInv, NEW id \in TaskID
               PROVE  paid[id] <= placed[id]
    BY DEF NeverOverpays
  <2>1. paid[id] \in Nat /\ placed[id] \in Nat
    BY DEF MarketInv, MarketTypeOK
  <2>2. Due(tasks[id]) \in Nat
    <3>1. CASE tasks[id] = NoTask
      BY <3>1 DEF Due
    <3>2. CASE tasks[id] \in Task
      BY <3>2 DEF Due, Task
    <3> QED
      BY <3>1, <3>2 DEF MarketInv, MarketTypeOK
  <2> QED
    BY <2>1, <2>2 DEF MarketInv, FundsInv
<1> QED
  BY <1>1, MarketInvariant, PTL

\* Only a posting that was committed to, challenged and signed for pays or
\* injects an event, and for its own solution (compute.go:52-98).
THEOREM PayoutEarnedTheorem == MarketSpec => []PayoutEarned
<1>1. MarketInv => PayoutEarned
  <2> SUFFICES ASSUME MarketInv, NEW id \in TaskID, NEW i \in DOMAIN calls[id],
                      calls[id][i][1] = "resolve",
                      calls[id][i][4] > 0 \/ calls[id][i][5] # NoEvent
               PROVE  LET c == calls[id]
                      IN  /\ i = 4 /\ Len(c) = 4
                          /\ c[1][1] = "post" /\ c[2][1] = "commit"
                          /\ c[3][1] = "challenge"
                          /\ c[4][2] = c[2][2] /\ c[4][3] >= c[1][3]
                          /\ c[4][4] = (c[1][2] + c[2][3]) % Width
    BY DEF PayoutEarned
  <2> DEFINE task == tasks[id]
  <2>1. Brought(task, calls[id])
    BY DEF MarketInv, CallsInv
  <2>2. PostCall(task)[1] = "post" /\ CommitCall(task)[1] = "commit"
    BY DEF PostCall, CommitCall
  <2>3. task = NoTask \/ task \in Task
    BY DEF MarketInv, MarketTypeOK
  <2>4. task \in Task /\ task.phase = "resolved"
    BY <2>1, <2>2, <2>3 DEF Brought, Task
  <2>5. /\ calls[id] = <<PostCall(task), CommitCall(task), <<"challenge">>,
                          calls[id][4]>>
        /\ Settles(task, calls[id][4])
    BY <2>1, <2>4 DEF Brought
  <2>6. i = 4 /\ Len(calls[id]) = 4
    BY <2>2, <2>5
  <2>7. calls[id][4][2] = task.solution /\ calls[id][4][4] = Payout(task)
    BY <2>5, <2>6 DEF Settles
  <2> QED
    BY <2>5, <2>6, <2>7 DEF Settles, PostCall, CommitCall, Payout
<1> QED
  BY <1>1, MarketInvariant, PTL
-----------------------------------------------------------------------------
(* The calls of the packages that keep no state.                           *)

\* The arguments of a call are those a caller has.
InputInv ==
    /\ input.call = "record" => input.record \in Records
    /\ input.call = "buffer" => input.buffer \in Buffers
    /\ input.call = "secret" =>
          /\ input.w \in Scalars \ {0} /\ input.c \in Scalars \ {0}
          /\ input.gv \in Scalars \ {0}
    /\ input.call = "tag" =>
          /\ input.m \in Changes /\ input.n \in Changes
          /\ EncodeMessage(input.m) # NoEncoding
          /\ EncodeMessage(input.n) # NoEncoding
    /\ input.call = "envelope" => input.data \in Payloads /\ input.pkh \in Payloads
    /\ input.call = "prove" => input.leaves \in Blocks /\ input.index \in Indexes
    /\ input.call = "in" => input.p \in Partners /\ input.msg \in Messages
    /\ input.call = "out" => input.p \in Partners /\ input.doc \in DocTypes

\* Whatever is called, it is called with a caller's arguments.
THEOREM LibrariesInvariant == Spec => []InputInv
<1>1. Init => InputInv
  BY DEF Init, NoCall, InputInv
<1>2. InputInv /\ [Next]_vars => InputInv'
  <2> SUFFICES ASSUME InputInv, [Next]_vars PROVE InputInv'
    OBVIOUS
  <2>1. CASE input' = input
    BY <2>1 DEF InputInv
  <2>2. CASE CallDecoder
    BY <2>2 DEF CallDecoder, InputInv
  <2>3. CASE CallKeystone
    BY <2>3 DEF CallKeystone, InputInv
  <2>4. CASE CallEnvelope
    BY <2>4 DEF CallEnvelope, InputInv
  <2>5. CASE CallProofs
    BY <2>5 DEF CallProofs, InputInv
  <2>6. CASE CallCustody
    BY <2>6 DEF CallCustody, InputInv
  <2>7. CASE CallBridge
    BY <2>7 DEF CallBridge, InputInv
  <2>8. CASE DriveDocument
    BY <2>8 DEF DriveDocument, InputInv
  <2> QED
    BY <2>1, <2>2, <2>3, <2>4, <2>5, <2>6, <2>7, <2>8 DEF Next, Call, vars
<1> QED
  BY <1>1, <1>2, PTL DEF Spec

\* Beside the other packages the market takes its own steps and no other.
THEOREM LibrariesRunTheMarket == Spec => MarketSpec
<1>1. Init => MarketInit
  BY DEF Init
<1>2. [Next]_vars => [MarketNext]_marketVars
  BY DEF Next, Call, vars
<1> QED
  BY <1>1, <1>2, PTL DEF Spec, MarketSpec

-----------------------------------------------------------------------------
(* The common secret.                                                      *)

\* The sub-key of a public key is the point of the sub-key of its private
\* key, or there is none when that is zero.
LEMMA SubKey ==
    ASSUME NEW pub \in Scalars \ {0}, NEW gv \in Scalars
    PROVE  /\ (pub + gv) % GroupOrder \in Nat
           /\ SubPub(pub, gv) = IF (pub + gv) % GroupOrder = 0 THEN NoPoint
                                ELSE (pub + gv) % GroupOrder
<1>1. GroupOrder \in Nat \ {0}
  BY KeystoneAssumption
<1>2. pub \in Nat /\ pub # 0 /\ gv \in Nat
  BY <1>1 DEF Scalars
<1>3. (pub + gv) % GroupOrder \in Nat
  BY <1>1, <1>2
<1> QED
  BY <1>2, <1>3 DEF SubPub

\* The product of the two sub-keys is the same either way around.
LEMMA SidesAgreeAlways ==
    ASSUME NEW w \in Scalars \ {0}, NEW c \in Scalars \ {0}, NEW gv \in Scalars
    PROVE  SidesAgree(w, c, gv)
<1> DEFINE a == (w + gv) % GroupOrder
           b == (c + gv) % GroupOrder
<1>1. a \in Nat /\ SubPub(w, gv) = IF a = 0 THEN NoPoint ELSE a
  BY SubKey
<1>2. b \in Nat /\ SubPub(c, gv) = IF b = 0 THEN NoPoint ELSE b
  BY SubKey
<1>3. CommonSecret(w, c, gv) =
        IF a = 0 \/ SubPub(c, gv) = NoPoint
           \/ (a * SubPub(c, gv)) % GroupOrder = 0
        THEN NoPoint ELSE (a * SubPub(c, gv)) % GroupOrder
  BY DEF CommonSecret
<1>4. CommonSecret(c, w, gv) =
        IF b = 0 \/ SubPub(w, gv) = NoPoint
           \/ (b * SubPub(w, gv)) % GroupOrder = 0
        THEN NoPoint ELSE (b * SubPub(w, gv)) % GroupOrder
  BY DEF CommonSecret
<1> HIDE DEF a, b
<1>5. CASE a = 0 \/ b = 0
  <2>1. CommonSecret(w, c, gv) = NoPoint
    BY <1>2, <1>3, <1>5
  <2>2. CommonSecret(c, w, gv) = NoPoint
    BY <1>1, <1>4, <1>5
  <2> QED
    BY <2>1, <2>2 DEF SidesAgree
<1>6. CASE a # 0 /\ b # 0
  <2>1. SubPub(w, gv) = a /\ SubPub(c, gv) = b
    BY <1>1, <1>2, <1>6
  <2>2. a # NoPoint /\ b # NoPoint
    BY <1>1, <1>2 DEF NoPoint
  <2>3. a * b = b * a
    BY <1>1, <1>2
  <2> QED
    BY <1>3, <1>4, <1>6, <2>1, <2>2, <2>3 DEF SidesAgree
<1> QED
  BY <1>5, <1>6

\* The writer and the counterparty derive one secret for a change, each from
\* its own private and the other's public key, or both derive none, in a
\* group of any order (keystone.go:97-130).
THEOREM SecretsAgreeTheorem == Spec => []SecretsAgree
<1>1. InputInv => SecretsAgree
  BY SidesAgreeAlways DEF InputInv, SecretsAgree
<1> QED
  BY <1>1, LibrariesInvariant, PTL
-----------------------------------------------------------------------------
(* Encodings.                                                              *)

\* Fields whose length their prefix tells.
Short == {p \in Octets : Fits(p)}

LEMMA Unwrapped ==
    ASSUME NEW n \in Nat
    PROVE  n % LenWrap \in Nat /\ (n < LenWrap => n % LenWrap = n)
<1>1. LenWrap \in Nat /\ LenWrap > 0
  BY CodecAssumption
<1> QED
  BY <1>1

\* What is written is octets, one more than the field.
LEMMA BytesFacts ==
    ASSUME NEW p \in Octets
    PROVE  /\ Bytes(p) \in Octets /\ Len(Bytes(p)) = Len(p) + 1
           /\ Len(p) \in Nat
           /\ Fits(p) => Bytes(p)[1] = Len(p)
           /\ \A i \in 1 .. Len(p) : Bytes(p)[i + 1] = p[i]
<1> DEFINE k == Len(p) % LenWrap
<1>1. p \in Seq(Nat) /\ Len(p) \in Nat
  BY DEF Octets
<1>2. k \in Nat /\ (Fits(p) => k = Len(p)) /\ Bytes(p) = <<k>> \o p
  BY <1>1, Unwrapped DEF Fits, Bytes
<1> HIDE DEF k
<1>3. <<k>> \in Seq(Nat) /\ Len(<<k>>) = 1 /\ <<k>>[1] = k
  BY <1>2
<1>4. /\ <<k>> \o p \in Seq(Nat)
      /\ Len(<<k>> \o p) = 1 + Len(p)
      /\ \A i \in 1 .. 1 + Len(p) : (<<k>> \o p)[i] =
            IF i <= 1 THEN <<k>>[i] ELSE p[i - 1]
  BY <1>1, <1>3, ConcatProperties
<1>5. ASSUME NEW i \in 1 .. Len(p) PROVE (<<k>> \o p)[i + 1] = p[i]
  <2>1. i + 1 \in 1 .. 1 + Len(p) /\ ~(i + 1 <= 1) /\ (i + 1) - 1 = i
    BY <1>1
  <2> QED
    BY <1>4, <2>1
<1> QED
  BY <1>1, <1>2, <1>3, <1>4, <1>5 DEF Octets

\* A word before octets.
LEMMA WordFacts ==
    ASSUME NEW w \in Nat
    PROVE  <<w>> \in Octets /\ Len(<<w>>) = 1 /\ <<w>>[1] = w
BY DEF Octets

\* Octets put together.  The provers reason about an operator of its own
\* sooner than about \o, which they take apart.
Join(x, y) == x \o y

LEMMA JoinFacts ==
    ASSUME NEW x \in Octets, NEW y \in Octets
    PROVE  /\ Join(x, y) \in Octets /\ Len(Join(x, y)) = Len(x) + Len(y)
           /\ Len(x) \in Nat /\ Len(y) \in Nat
           /\ \A i \in 1 .. Len(x) : Join(x, y)[i] = x[i]
           /\ \A i \in 1 .. Len(y) : Join(x, y)[Len(x) + i] = y[i]
<1>1. x \in Seq(Nat) /\ y \in Seq(Nat) /\ Len(x) \in Nat /\ Len(y) \in Nat
  BY DEF Octets
<1>2. /\ x \o y \in Seq(Nat) /\ Len(x \o y) = Len(x) + Len(y)
      /\ \A i \in 1 .. Len(x) + Len(y) : (x \o y)[i] =
            IF i <= Len(x) THEN x[i] ELSE y[i - Len(x)]
  BY <1>1, ConcatProperties
<1>3. ASSUME NEW i \in 1 .. Len(y) PROVE (x \o y)[Len(x) + i] = y[i]
  <2>1. /\ Len(x) + i \in 1 .. Len(x) + Len(y) /\ ~(Len(x) + i <= Len(x))
        /\ (Len(x) + i) - Len(x) = i
    BY <1>1
  <2> QED
    BY <1>2, <2>1
<1> QED
  BY <1>1, <1>2, <1>3 DEF Octets, Join

LEMMA JoinLen ==
    ASSUME NEW x \in Octets, NEW y \in Octets
    PROVE  Join(x, y) \in Octets /\ Len(Join(x, y)) = Len(x) + Len(y)
BY JoinFacts

LEMMA LenNat ==
    ASSUME NEW x \in Octets
    PROVE  Len(x) \in Nat
BY DEF Octets

LEMMA JoinAgain ==
    ASSUME NEW x \in Octets, NEW y \in Octets, NEW z \in Octets
    PROVE  Join(Join(x, y), z) = Join(x, Join(y, z))
<1>1. x \in Seq(Nat) /\ y \in Seq(Nat) /\ z \in Seq(Nat)
  BY DEF Octets
<1>2. (x \o y) \o z = x \o (y \o z)
  BY <1>1, SMTT(30)
<1> QED
  BY <1>2 DEF Join

LEMMA JoinNothing ==
    ASSUME NEW x \in Octets
    PROVE  <<>> \in Octets /\ Join(x, <<>>) = x /\ Join(<<>>, x) = x
BY ConcatEmptySeq DEF Octets, Join

\* Of equal octets with equal beginnings the ends are equal.
LEMMA SameRest ==
    ASSUME NEW x \in Octets, NEW y \in Octets, NEW z \in Octets,
           Join(x, y) = Join(x, z)
    PROVE  y = z
BY ConcatSimplifications DEF Octets, Join

\* A word is read back: what follows it begins at the same place.
LEMMA WordPrefix ==
    ASSUME NEW a \in Nat, NEW b \in Nat, NEW x \in Octets, NEW y \in Octets,
           Join(<<a>>, x) = Join(<<b>>, y)
    PROVE  a = b /\ x = y
<1> DEFINE s == <<a>>
           t == <<b>>
<1>1. /\ s \in Octets /\ Len(s) = 1 /\ s[1] = a
      /\ t \in Octets /\ Len(t) = 1 /\ t[1] = b
  BY WordFacts
<1>2. Join(s, x) = Join(t, y) /\ (a = b => s = t)
  OBVIOUS
<1> HIDE DEF s, t
<1>3. Join(s, x)[1] = s[1] /\ Join(t, y)[1] = t[1]
  <2>1. /\ \A i \in 1 .. Len(s) : Join(s, x)[i] = s[i]
        /\ \A i \in 1 .. Len(t) : Join(t, y)[i] = t[i]
    BY <1>1, JoinFacts
  <2>2. 1 \in 1 .. Len(s) /\ 1 \in 1 .. Len(t)
    BY <1>1
  <2> QED
    BY <2>1, <2>2
<1>4. a = b
  BY <1>1, <1>2, <1>3
<1> QED
  BY <1>1, <1>2, <1>4, SameRest

\* A length-prefixed field is read back: its prefix, which did not wrap, says
\* where it ends.
LEMMA BytesPrefix ==
    ASSUME NEW p \in Short, NEW q \in Short, NEW x \in Octets,
           NEW y \in Octets, Join(Bytes(p), x) = Join(Bytes(q), y)
    PROVE  p = q /\ x = y
<1>0. p \in Octets /\ Fits(p) /\ q \in Octets /\ Fits(q)
  BY DEF Short
<1>1. /\ Bytes(p) \in Octets /\ Len(Bytes(p)) = Len(p) + 1 /\ Len(p) \in Nat
      /\ Bytes(p)[1] = Len(p)
      /\ \A i \in 1 .. Len(p) : Bytes(p)[i + 1] = p[i]
  BY <1>0, BytesFacts
<1>2. /\ Bytes(q) \in Octets /\ Len(Bytes(q)) = Len(q) + 1 /\ Len(q) \in Nat
      /\ Bytes(q)[1] = Len(q)
      /\ \A i \in 1 .. Len(q) : Bytes(q)[i + 1] = q[i]
  BY <1>0, BytesFacts
<1>3. \A i \in 1 .. Len(Bytes(p)) : Join(Bytes(p), x)[i] = Bytes(p)[i]
  BY <1>1, JoinFacts
<1>4. \A i \in 1 .. Len(Bytes(q)) : Join(Bytes(q), y)[i] = Bytes(q)[i]
  BY <1>2, JoinFacts
<1>5. Len(p) = Len(q)
  BY <1>1, <1>2, <1>3, <1>4
<1>6. ASSUME NEW i \in 1 .. Len(p) PROVE p[i] = q[i]
  <2>1. i + 1 \in 1 .. Len(Bytes(p)) /\ i + 1 \in 1 .. Len(Bytes(q))
    BY <1>1, <1>2, <1>5
  <2>2. Bytes(p)[i + 1] = Bytes(q)[i + 1]
    BY <1>3, <1>4, <2>1
  <2> QED
    BY <1>1, <1>2, <1>5, <2>2
<1>7. p = q
  <2>1. p \in Seq(Nat) /\ q \in Seq(Nat)
    BY <1>0 DEF Octets
  <2> QED
    BY <1>5, <1>6, <2>1, SeqEqual
<1> QED
  BY <1>1, <1>7, SameRest

-----------------------------------------------------------------------------
(* The encoding of a message, field by field from the left.                *)

LEMMA PairOfWords ==
    ASSUME NEW a \in Nat, NEW b \in Nat
    PROVE  <<a, b>> = Join(<<a>>, <<b>>)
<1>1. <<a>> \in Seq(Nat) /\ <<b>> \in Seq(Nat) /\ Len(<<a>>) = 1 /\ Len(<<b>>) = 1
  OBVIOUS
<1>2. /\ <<a>> \o <<b>> \in Seq(Nat) /\ Len(<<a>> \o <<b>>) = 2
      /\ (<<a>> \o <<b>>)[1] = a /\ (<<a>> \o <<b>>)[2] = b
  BY <1>1, ConcatProperties
<1>3. <<a, b>> \in Seq(Nat) /\ Len(<<a, b>>) = 2
  OBVIOUS
<1>4. \A i \in 1 .. 2 : <<a, b>>[i] = (<<a>> \o <<b>>)[i]
  BY <1>2
<1> QED
  BY <1>2, <1>3, <1>4, SeqEqual DEF Join

AfterSeq(m) == Bytes(m.prev)
AfterOp(m) == Join(<<m.seq>>, AfterSeq(m))
AfterColumn(m) == Join(<<m.op>>, AfterOp(m))
AfterRow(m) == Join(Bytes(m.column), AfterColumn(m))
AfterTable(m) == Join(Bytes(m.row), AfterRow(m))
AfterVersion(m) == Join(Bytes(m.table), AfterTable(m))

LEMMA MessageTails ==
    ASSUME NEW m \in ChangeMessage
    PROVE  /\ AfterSeq(m) \in Octets /\ AfterOp(m) \in Octets
           /\ AfterColumn(m) \in Octets /\ AfterRow(m) \in Octets
           /\ AfterTable(m) \in Octets /\ AfterVersion(m) \in Octets
           /\ MessageOctets(m) = Join(<<MagicM>>, Join(<<Version>>, AfterVersion(m)))
           /\ MessageOctets(m) \in Octets
           /\ MessageOctets(m) # NoEncoding
<1>1. /\ m.table \in Octets /\ m.row \in Octets /\ m.column \in Octets
      /\ m.op \in Nat /\ m.seq \in Nat /\ m.prev \in Octets
  BY DEF ChangeMessage
<1>2. MagicM \in Nat /\ Version \in Nat
  BY CodecAssumption
<1> DEFINE M == Join(<<MagicM>>, <<Version>>)
           T == Bytes(m.table)
           R == Bytes(m.row)
           C == Bytes(m.column)
           O == <<m.op>>
           Q == <<m.seq>>
           P == Bytes(m.prev)
<1>3. T \in Octets /\ R \in Octets /\ C \in Octets /\ P \in Octets
  BY <1>1, BytesFacts
<1>4. O \in Octets /\ Q \in Octets /\ <<MagicM>> \in Octets /\ <<Version>> \in Octets
  BY <1>1, <1>2, WordFacts
<1>5. M \in Octets
  BY <1>4, JoinFacts
<1>6. MessageOctets(m) = Join(Join(Join(Join(Join(M, T), R), C), Join(O, Q)), P)
  BY <1>1, <1>2, PairOfWords DEF MessageOctets, Join
<1>7. Join(Q, P) \in Octets /\ AfterOp(m) = Join(Q, P)
  BY <1>3, <1>4, JoinFacts DEF AfterOp, AfterSeq
<1>8. Join(O, Join(Q, P)) \in Octets /\ AfterColumn(m) = Join(O, Join(Q, P))
  BY <1>4, <1>7, JoinFacts DEF AfterColumn
<1>9. AfterRow(m) \in Octets /\ AfterRow(m) = Join(C, Join(O, Join(Q, P)))
  BY <1>3, <1>8, JoinFacts DEF AfterRow
<1>10. AfterTable(m) \in Octets /\ AfterTable(m) = Join(R, AfterRow(m))
  BY <1>3, <1>9, JoinFacts DEF AfterTable
<1>11. AfterVersion(m) \in Octets /\ AfterVersion(m) = Join(T, AfterTable(m))
  BY <1>3, <1>10, JoinFacts DEF AfterVersion
<1>12. Join(M, AfterVersion(m)) = MessageOctets(m)
  <2> HIDE DEF M, T, R, C, O, Q, P
  <2>1. /\ Join(M, T) \in Octets /\ Join(Join(M, T), R) \in Octets
        /\ Join(Join(Join(M, T), R), C) \in Octets
    BY <1>3, <1>5, JoinFacts
  <2>2. Join(O, Q) \in Octets /\ Join(Join(O, Q), P) = Join(O, Join(Q, P))
    BY <1>3, <1>4, JoinFacts, JoinAgain
  <2>3. MessageOctets(m) = Join(Join(Join(Join(M, T), R), C), Join(O, Join(Q, P)))
    BY <1>3, <1>6, <2>1, <2>2, JoinAgain
  <2>4. @ = Join(Join(Join(M, T), R), AfterRow(m))
    BY <1>3, <1>8, <1>9, <2>1, JoinAgain
  <2>5. @ = Join(Join(M, T), AfterTable(m))
    BY <1>3, <1>9, <1>10, <2>1, JoinAgain
  <2>6. @ = Join(M, AfterVersion(m))
    BY <1>3, <1>5, <1>10, <1>11, JoinAgain
  <2> QED
    BY <2>3, <2>4, <2>5, <2>6
<1>13. MessageOctets(m) = Join(<<MagicM>>, Join(<<Version>>, AfterVersion(m)))
  BY <1>4, <1>11, <1>12, JoinAgain
<1>14. Join(<<Version>>, AfterVersion(m)) \in Octets
  BY <1>4, <1>11, JoinFacts
<1>15. MessageOctets(m) \in Octets /\ Len(MessageOctets(m)) > 0
  <2>1. Len(<<MagicM>>) = 1
    OBVIOUS
  <2> DEFINE tail == Join(<<Version>>, AfterVersion(m))
  <2>2. /\ Join(<<MagicM>>, tail) \in Octets /\ Len(tail) \in Nat
        /\ Len(Join(<<MagicM>>, tail)) = Len(<<MagicM>>) + Len(tail)
    BY <1>4, <1>14, JoinFacts
  <2> QED
    BY <1>13, <2>1, <2>2
<1>16. MessageOctets(m) # NoEncoding
  BY <1>15 DEF NoEncoding
<1> QED
  BY <1>3, <1>7, <1>8, <1>9, <1>10, <1>11, <1>13, <1>15, <1>16 DEF AfterSeq

\* What EncodeMessage asks of a message, that no length wraps included.
Writable(m) == MessageFits(m) /\ Len(m.prev) \in {0, TxidLen}

LEMMA WritableFields ==
    ASSUME NEW m \in ChangeMessage, Writable(m)
    PROVE  /\ m.table \in Short /\ m.row \in Short /\ m.column \in Short
           /\ m.prev \in Short
<1>1. Fits(m.prev)
  BY CodecAssumption DEF Writable, Fits
<1> QED
  BY <1>1 DEF ChangeMessage, Writable, MessageFits, Short

\* M(c) determines c while no length wraps: no two messages have one encoding.
LEMMA MessageInjective ==
    ASSUME NEW m \in ChangeMessage, NEW n \in ChangeMessage,
           Writable(m), Writable(n), MessageOctets(m) = MessageOctets(n)
    PROVE  m = n
<1>1. /\ m.table \in Octets /\ m.row \in Octets /\ m.column \in Octets
      /\ m.op \in Nat /\ m.seq \in Nat /\ m.prev \in Octets
      /\ n.table \in Octets /\ n.row \in Octets /\ n.column \in Octets
      /\ n.op \in Nat /\ n.seq \in Nat /\ n.prev \in Octets
  BY DEF ChangeMessage
<1>0. /\ m.table \in Short /\ m.row \in Short /\ m.column \in Short
      /\ n.table \in Short /\ n.row \in Short /\ n.column \in Short
      /\ m.prev \in Short /\ n.prev \in Short
  BY WritableFields
<1>2. MagicM \in Nat /\ Version \in Nat
  BY CodecAssumption
<1>3. /\ AfterVersion(m) \in Octets /\ AfterVersion(n) \in Octets
      /\ Join(<<MagicM>>, Join(<<Version>>, AfterVersion(m)))
         = Join(<<MagicM>>, Join(<<Version>>, AfterVersion(n)))
  BY MessageTails
<1>4. AfterVersion(m) = AfterVersion(n)
  BY <1>2, <1>3, WordFacts, JoinFacts, SameRest
<1>5. m.table = n.table /\ AfterTable(m) = AfterTable(n)
  BY SMTT(20), <1>0, <1>1, <1>4, MessageTails, BytesPrefix DEF AfterVersion
<1>6. m.row = n.row /\ AfterRow(m) = AfterRow(n)
  BY SMTT(20), <1>0, <1>1, <1>5, MessageTails, BytesPrefix DEF AfterTable
<1>7. m.column = n.column /\ AfterColumn(m) = AfterColumn(n)
  BY SMTT(20), <1>0, <1>1, <1>6, MessageTails, BytesPrefix DEF AfterRow
<1>8. m.op = n.op /\ AfterOp(m) = AfterOp(n)
  BY <1>1, <1>7, MessageTails, WordPrefix DEF AfterColumn
<1>9. m.seq = n.seq /\ AfterSeq(m) = AfterSeq(n)
  BY <1>1, <1>8, MessageTails, WordPrefix DEF AfterOp
<1>10. m.prev = n.prev
  <2>1. Join(Bytes(m.prev), <<>>) = Join(Bytes(n.prev), <<>>)
    BY <1>1, <1>9, BytesFacts, JoinNothing DEF AfterSeq
  <2> QED
    BY <1>0, <1>1, <2>1, BytesPrefix, JoinNothing
<1> QED
  BY <1>5, <1>6, <1>7, <1>8, <1>9, <1>10 DEF ChangeMessage

\* Two changes that have keys have one tag for one image only if they are
\* the same change, although their salts may be equal, whatever the names,
\* while no name is so long that its length wraps (keystone.go:77-88,
\* 136-143, bytes.go:33).
THEOREM TagsBindTheorem == Spec => []TagsBind
<1>1. InputInv => TagsBind
  <2> SUFFICES ASSUME InputInv, input.call = "tag",
                      MessageFits(input.m), MessageFits(input.n),
                      Tag(input.m, input.image) = Tag(input.n, input.other)
               PROVE  input.m = input.n /\ input.image = input.other
    BY DEF TagsBind, TagBindsChange
  <2>1. input.m \in ChangeMessage /\ input.n \in ChangeMessage
    BY CallerAssumption DEF InputInv
  <2>2. EncodeMessage(input.m) # NoEncoding /\ EncodeMessage(input.n) # NoEncoding
    BY DEF InputInv
  <2>3. HMACKey(input.m) = HMACKey(input.n) /\ input.image = input.other
    BY DEF Tag
  <2>4. EncodeMessage(input.m) = EncodeMessage(input.n)
    BY <2>3 DEF HMACKey
  <2>5. MessageOctets(input.m) = MessageOctets(input.n)
    BY <2>2, <2>4 DEF EncodeMessage
  <2>6. Writable(input.m) /\ Writable(input.n)
    BY <2>2 DEF EncodeMessage, Writable
  <2> QED
    BY <2>1, <2>3, <2>5, <2>6, MessageInjective
<1> QED
  BY <1>1, LibrariesInvariant, PTL
-----------------------------------------------------------------------------
(* The Reader: what it has read, e, and what is left, rest.                *)

\* What a read yields: a word or a field.
Value == Nat \cup Octets

Readers == [buf : Octets, off : Nat, ok : BOOLEAN, vals : Seq(Value)]

\* A Reader without an error that has read e, as the values vals.
At(r, e, rest, vals) ==
    /\ e \in Octets /\ rest \in Octets /\ vals \in Seq(Value)
    /\ r = [buf |-> Join(e, rest), off |-> Len(e), ok |-> TRUE, vals |-> vals]

LEMMA AtReader ==
    ASSUME NEW r, NEW e, NEW rest, NEW vals, At(r, e, rest, vals)
    PROVE  /\ r \in Readers /\ r.ok /\ r.vals = vals
           /\ r.buf = Join(e, rest) /\ r.off = Len(e)
<1>1. Join(e, rest) \in Octets /\ Len(e) \in Nat
  BY JoinFacts DEF At
<1> QED
  BY <1>1 DEF At, Readers

\* Octets fall into any beginning and the rest.
LEMMA Split2 ==
    ASSUME NEW x \in Octets, NEW n \in Nat, n <= Len(x)
    PROVE  LET p == SubSeq(x, 1, n)
               y == SubSeq(x, n + 1, Len(x))
           IN  /\ p \in Octets /\ Len(p) = n /\ y \in Octets
               /\ x = Join(p, y)
<1> DEFINE p == SubSeq(x, 1, n)
           y == SubSeq(x, n + 1, Len(x))
<1>1. x \in Seq(Nat) /\ Len(x) \in Nat /\ \A i \in 1 .. Len(x) : x[i] \in Nat
  BY DEF Octets
<1>2. \A i \in 1 .. n : x[i] \in Nat
  BY <1>1
<1>3. p \in Seq(Nat) /\ Len(p) = IF 1 <= n THEN n - 1 + 1 ELSE 0
  BY <1>2, SubSeqProperties
<1>4. \A i \in n + 1 .. Len(x) : x[i] \in Nat
  BY <1>1
<1>5. y \in Seq(Nat)
  BY <1>1, <1>4, SubSeqProperties
<1>6. Len(p) = n
  BY <1>3
<1>7. p \o y = x
  <2>1. 1 \in 1 .. Len(x) + 1 /\ n \in 1 - 1 .. Len(x) /\ Len(x) \in n .. Len(x)
    BY <1>1
  <2>2. p \o y = SubSeq(x, 1, Len(x))
    BY <1>1, <2>1, ConcatAdjacentSubSeq
  <2> QED
    BY <1>1, <2>2, SubSeqFull
<1> QED
  BY <1>3, <1>5, <1>6, <1>7 DEF Octets, Join

\* The octets after those that were read.
LEMMA SubSeqAfter ==
    ASSUME NEW e \in Octets, NEW x \in Octets, NEW n \in Nat, n <= Len(x)
    PROVE  SubSeq(Join(e, x), Len(e) + 1, Len(e) + n) = SubSeq(x, 1, n)
<1>1. x \in Seq(Nat) /\ Len(x) \in Nat /\ \A i \in 1 .. Len(x) : x[i] \in Nat
  BY DEF Octets
<1>2. /\ Join(e, x) \in Octets /\ Len(Join(e, x)) = Len(e) + Len(x)
      /\ Len(e) \in Nat
      /\ \A i \in 1 .. Len(x) : Join(e, x)[Len(e) + i] = x[i]
  BY JoinFacts
<1> DEFINE b == Join(e, x)
           k == Len(e)
           s == SubSeq(b, k + 1, k + n)
           t == SubSeq(x, 1, n)
<1> HIDE DEF b, k
<1>3. b \in Seq(Nat) /\ k \in Nat /\ Len(b) = k + Len(x)
  BY <1>2 DEF b, k, Octets
<1>4. \A i \in k + 1 .. k + n : b[i] \in Nat
  BY <1>1, <1>3
<1>5. /\ s \in Seq(Nat) /\ Len(s) = IF k + 1 <= k + n THEN k + n - (k + 1) + 1 ELSE 0
      /\ \A i \in 1 .. k + n - (k + 1) + 1 : s[i] = b[k + 1 + i - 1]
  BY <1>3, <1>4, SubSeqProperties
<1>6. \A i \in 1 .. n : x[i] \in Nat
  BY <1>1
<1>7. /\ t \in Seq(Nat) /\ Len(t) = IF 1 <= n THEN n - 1 + 1 ELSE 0
      /\ \A i \in 1 .. n - 1 + 1 : t[i] = x[1 + i - 1]
  BY <1>6, SubSeqProperties
<1> HIDE DEF s, t
<1>8. Len(s) = n /\ Len(t) = n
  BY <1>3, <1>5, <1>7
<1>9. ASSUME NEW i \in 1 .. n PROVE s[i] = t[i]
  <2>1. i \in 1 .. k + n - (k + 1) + 1 /\ k + 1 + i - 1 = k + i
    BY <1>3
  <2>2. s[i] = b[k + i]
    BY <1>5, <2>1
  <2>3. i \in 1 .. Len(x)
    BY <1>1
  <2>4. b[k + i] = x[i]
    BY <1>2, <2>3 DEF b, k
  <2>5. i \in 1 .. n - 1 + 1 /\ 1 + i - 1 = i
    OBVIOUS
  <2>6. t[i] = x[i]
    BY <1>7, <2>5
  <2> QED
    BY <2>2, <2>4, <2>6
<1>10. s = t
  BY <1>5, <1>7, <1>8, <1>9, SeqEqual
<1> QED
  BY <1>10 DEF b, k, s, t

\* Reader.Raw: the next n octets, or an error.
LEMMA RawAt ==
    ASSUME NEW r, NEW e, NEW rest, NEW vals, At(r, e, rest, vals), NEW n \in Nat
    PROVE  Raw(r, n) =
             IF n <= Len(rest)
             THEN [buf |-> Join(e, rest), off |-> Len(e) + n, ok |-> TRUE,
                   vals |-> Append(vals, SubSeq(rest, 1, n))]
             ELSE [r EXCEPT !.ok = FALSE]
<1>1. e \in Octets /\ rest \in Octets
  BY DEF At
<1>2. Len(e) \in Nat /\ Len(rest) \in Nat /\ Len(Join(e, rest)) = Len(e) + Len(rest)
  BY <1>1, JoinFacts
<1>3. r.ok /\ r.vals = vals /\ r.buf = Join(e, rest) /\ r.off = Len(e)
  BY AtReader
<1>4. r.off + n <= Len(r.buf) <=> n <= Len(rest)
  BY <1>2, <1>3
<1>5. CASE n <= Len(rest)
  <2>1. SubSeq(r.buf, r.off + 1, r.off + n) = SubSeq(rest, 1, n)
    BY <1>1, <1>3, <1>5, SubSeqAfter
  <2>2. Raw(r, n) = [r EXCEPT !.off = @ + n,
                              !.vals = Append(@, SubSeq(rest, 1, n))]
    BY <1>3, <1>4, <1>5, <2>1 DEF Raw
  <2> QED
    BY <1>5, <2>2 DEF At
<1>6. CASE ~(n <= Len(rest))
  BY <1>4, <1>6 DEF Raw
<1> QED
  BY <1>5, <1>6

\* A read of a word takes one off the rest.
LEMMA WordAt ==
    ASSUME NEW r, NEW e, NEW rest, NEW vals, At(r, e, rest, vals)
    PROVE  /\ Word(r).ok =>
                \E w \in Nat, t \in Octets :
                   /\ rest = Join(<<w>>, t)
                   /\ At(Word(r), Join(e, <<w>>), t, Append(vals, w))
           /\ \A w \in Nat, t \in Octets : rest = Join(<<w>>, t) =>
                At(Word(r), Join(e, <<w>>), t, Append(vals, w))
<1>1. e \in Octets /\ rest \in Octets /\ vals \in Seq(Value) /\ r \in Readers
  BY AtReader DEF At
<1>2. Len(rest) \in Nat
  BY <1>1, JoinFacts
<1>3. CASE ~(1 <= Len(rest))
  <2>1. Raw(r, 1) = [r EXCEPT !.ok = FALSE]
    BY <1>3, RawAt
  <2>2. ~Raw(r, 1).ok
    BY <1>1, <2>1 DEF Readers
  <2>3. ~Word(r).ok
    BY <2>2 DEF Word
  <2>4. ASSUME NEW w \in Nat, NEW t \in Octets, rest = Join(<<w>>, t)
        PROVE  FALSE
    <3> DEFINE s == <<w>>
    <3>1. s \in Octets /\ Len(s) = 1
      BY WordFacts
    <3>2. rest = Join(s, t)
      BY <2>4
    <3> HIDE DEF s
    <3>3. Len(rest) = 1 + Len(t) /\ Len(t) \in Nat
      BY <3>1, <3>2, JoinLen, LenNat
    <3> QED
      BY <1>3, <3>3
  <2> QED
    BY <2>3, <2>4
<1>4. CASE 1 <= Len(rest)
  <2> DEFINE p == SubSeq(rest, 1, 1)
             u == SubSeq(rest, 1 + 1, Len(rest))
             w0 == p[1]
  <2>1. p \in Octets /\ Len(p) = 1 /\ u \in Octets /\ rest = Join(p, u)
    BY <1>1, <1>4, Split2
  <2>2. w0 \in Nat /\ p = <<w0>>
    <3>1. p \in Seq(Nat) /\ 1 \in 1 .. Len(p)
      BY <2>1 DEF Octets
    <3>2. w0 \in Nat
      BY <3>1
    <3>3. <<w0>> \in Seq(Nat) /\ Len(<<w0>>) = 1 /\ <<w0>>[1] = w0
      BY <3>2
    <3>4. \A i \in 1 .. Len(p) : p[i] = <<w0>>[i]
      BY <2>1, <3>3
    <3> QED
      BY <2>1, <3>1, <3>2, <3>3, <3>4, SeqEqual
  <2>3. Raw(r, 1) = [buf |-> Join(e, rest), off |-> Len(e) + 1, ok |-> TRUE,
                     vals |-> Append(vals, p)]
    BY <1>4, RawAt
  <2> HIDE DEF p, u
  <2>4. Append(vals, p) \in Seq(Value) /\ Last(Append(vals, p)) = p
    <3>1. p \in Value
      BY <2>1 DEF Value
    <3>2. /\ Append(vals, p) \in Seq(Value)
          /\ Len(Append(vals, p)) = Len(vals) + 1
          /\ Append(vals, p)[Len(vals) + 1] = p
      BY <1>1, <3>1, AppendFacts
    <3> QED
      BY <3>2 DEF Last
  <2>5. Word(r) = [buf |-> Join(e, rest), off |-> Len(e) + 1, ok |-> TRUE,
                   vals |-> Append(vals, w0)]
    <3>1. r.vals = vals
      BY AtReader
    <3>2. Raw(r, 1).ok /\ Raw(r, 1).vals = Append(vals, p)
      BY <2>3
    <3>3. Word(r) = [Raw(r, 1) EXCEPT !.vals = Append(vals, w0)]
      BY <2>4, <3>1, <3>2 DEF Word
    <3> DEFINE x == Raw(r, 1)
    <3>4. x = [buf |-> Join(e, rest), off |-> Len(e) + 1, ok |-> TRUE,
               vals |-> Append(vals, p)]
      BY <2>3
    <3>5. Word(r) = [x EXCEPT !.vals = Append(vals, w0)]
      BY <3>3
    <3> HIDE DEF w0, x
    <3> QED
      BY <3>4, <3>5
  <2>6. Join(e, rest) = Join(Join(e, <<w0>>), u)
    BY <1>1, <2>1, <2>2, JoinAgain
  <2>7. Join(e, <<w0>>) \in Octets /\ Len(Join(e, <<w0>>)) = Len(e) + 1
    <3>1. Join(e, p) \in Octets /\ Len(Join(e, p)) = Len(e) + Len(p)
      BY <1>1, <2>1, JoinLen
    <3> QED
      BY <2>1, <2>2, <3>1
  <2>8. Append(vals, w0) \in Seq(Value)
    BY <1>1, <2>2 DEF Value
  <2> HIDE DEF w0
  <2>9. At(Word(r), Join(e, <<w0>>), u, Append(vals, w0))
    BY <2>1, <2>5, <2>6, <2>7, <2>8 DEF At
  <2>10. ASSUME NEW w \in Nat, NEW t \in Octets, rest = Join(<<w>>, t)
         PROVE  w = w0 /\ t = u
    <3>1. Join(<<w>>, t) = Join(<<w0>>, u)
      BY <2>1, <2>2, <2>10
    <3> QED
      BY <2>1, <2>2, <3>1, WordPrefix
  <2>11. rest = Join(<<w0>>, u)
    BY <2>1, <2>2
  <2> QED
    BY <2>1, <2>2, <2>9, <2>10, <2>11
<1> QED
  BY <1>2, <1>3, <1>4

\* The length and the octets are one encoded field.
LEMMA BytesIsJoin ==
    ASSUME NEW p \in Short
    PROVE  p \in Octets /\ Len(p) \in Nat /\ Bytes(p) = Join(<<Len(p)>>, p)
<1>1. p \in Octets /\ Len(p) \in Nat /\ Len(p) < LenWrap
  BY DEF Short, Fits, Octets
<1>2. Len(p) % LenWrap = Len(p)
  BY <1>1, Unwrapped
<1> QED
  BY <1>1, <1>2 DEF Bytes, Join

\* A read of a field takes its encoding off the rest.
LEMMA BytesAt ==
    ASSUME NEW r, NEW e, NEW rest, NEW vals, At(r, e, rest, vals)
    PROVE  /\ ReadBytes(r).ok =>
                \E p \in Short, t \in Octets :
                   /\ rest = Join(Bytes(p), t)
                   /\ At(ReadBytes(r), Join(e, Bytes(p)), t, Append(vals, p))
           /\ \A p \in Short, t \in Octets : rest = Join(Bytes(p), t) =>
                At(ReadBytes(r), Join(e, Bytes(p)), t, Append(vals, p))
<1> DEFINE n == Word(r)
           x == Raw(n, Last(n.vals))
<1>1. e \in Octets /\ rest \in Octets /\ vals \in Seq(Value) /\ r \in Readers
  BY AtReader DEF At
<1>2. ReadBytes(r) = IF n.ok /\ x.ok /\ Last(n.vals) < LenWrap
                     THEN [x EXCEPT !.vals = Append(r.vals, Last(@))]
                     ELSE [r EXCEPT !.ok = FALSE]
  BY ZenonT(30) DEF ReadBytes
<1>3. ReadBytes(r).ok => n.ok /\ x.ok /\ Last(n.vals) < LenWrap
  <2>1. ~[r EXCEPT !.ok = FALSE].ok
    BY <1>1 DEF Readers
  <2> QED
    BY <1>2, <2>1
<1> HIDE DEF n, x
<1>4. ASSUME NEW k \in Nat, NEW u \in Octets, rest = Join(<<k>>, u),
             k <= Len(u), k < LenWrap
      PROVE  LET p == SubSeq(u, 1, k)
                 t == SubSeq(u, k + 1, Len(u))
             IN  /\ p \in Short /\ t \in Octets /\ rest = Join(Bytes(p), t)
                 /\ At(ReadBytes(r), Join(e, Bytes(p)), t, Append(vals, p))
  <2> DEFINE p == SubSeq(u, 1, k)
             t == SubSeq(u, k + 1, Len(u))
             e1 == Join(e, <<k>>)
             v1 == Append(vals, k)
  <2>1. At(n, e1, u, v1)
    BY <1>4, WordAt DEF n
  <2>2. p \in Octets /\ Len(p) = k /\ t \in Octets /\ u = Join(p, t)
    BY <1>4, Split2
  <2>3. n.vals = v1 /\ Last(v1) = k /\ n.ok
    <3>1. k \in Value
      BY DEF Value
    <3>2. Len(v1) = Len(vals) + 1 /\ v1[Len(vals) + 1] = k
      BY <1>1, <3>1, AppendFacts
    <3>3. n.vals = v1 /\ n.ok
      BY <2>1, AtReader
    <3> QED
      BY <3>2, <3>3 DEF Last
  <2> HIDE DEF e1, v1
  <2>4. x = [buf |-> Join(e1, u), off |-> Len(e1) + k, ok |-> TRUE,
             vals |-> Append(v1, p)]
    BY <1>4, <2>1, <2>3, RawAt DEF x
  <2> HIDE DEF p, t
  <2>5. v1 \in Seq(Value) /\ e1 \in Octets
    BY <2>1 DEF At
  <2>6. Last(Append(v1, p)) = p
    <3>1. p \in Value
      BY <2>2 DEF Value
    <3>2. /\ Len(Append(v1, p)) = Len(v1) + 1
          /\ Append(v1, p)[Len(v1) + 1] = p
      BY <2>5, <3>1, AppendFacts
    <3> QED
      BY <3>2 DEF Last
  <2>7. ReadBytes(r) = [buf |-> Join(e1, u), off |-> Len(e1) + k, ok |-> TRUE,
                        vals |-> Append(vals, p)]
    <3>1. r.vals = vals
      BY AtReader
    <3>2. x.ok /\ x.vals = Append(v1, p)
      BY <2>4
    <3>3. ReadBytes(r) = [x EXCEPT !.vals = Append(r.vals, Last(@))]
      BY <1>2, <1>4, <2>3, <3>2
    <3>4. ReadBytes(r) = [x EXCEPT !.vals = Append(vals, p)]
      BY <2>6, <3>1, <3>2, <3>3
    <3> QED
      BY <2>4, <3>4
  <2>0. p \in Short
    BY <1>4, <2>2 DEF Short, Fits
  <2>8. <<k>> \in Octets /\ Bytes(p) = Join(<<k>>, p) /\ Bytes(p) \in Octets
    BY <2>0, <2>2, BytesFacts, BytesIsJoin, WordFacts
  <2>9. rest = Join(Bytes(p), t)
    BY <1>4, <2>2, <2>8, JoinAgain
  <2>10. Join(e1, u) = Join(Join(e, Bytes(p)), t)
    <3>1. Join(e1, u) = Join(e, rest)
      BY <1>1, <1>4, <2>8, JoinAgain DEF e1
    <3> QED
      BY <1>1, <2>2, <2>8, <2>9, <3>1, JoinAgain
  <2>11. Join(e, Bytes(p)) \in Octets /\ Len(Join(e, Bytes(p))) = Len(e1) + k
    <3>1. Join(e, Bytes(p)) = Join(e1, p)
      BY <1>1, <2>2, <2>8, JoinAgain DEF e1
    <3>2. Join(e1, p) \in Octets /\ Len(Join(e1, p)) = Len(e1) + Len(p)
      BY <2>2, <2>5, JoinFacts
    <3> QED
      BY <2>2, <3>1, <3>2
  <2>12. Append(vals, p) \in Seq(Value)
    BY <1>1, <2>2 DEF Value
  <2>13. At(ReadBytes(r), Join(e, Bytes(p)), t, Append(vals, p))
    BY <2>2, <2>7, <2>10, <2>11, <2>12 DEF At
  <2> QED
    BY <2>0, <2>2, <2>9, <2>13 DEF p, t
<1>5. ASSUME ReadBytes(r).ok
      PROVE  \E k \in Nat, u \in Octets :
                rest = Join(<<k>>, u) /\ k <= Len(u) /\ k < LenWrap
  <2>1. n.ok /\ x.ok /\ Last(n.vals) < LenWrap
    BY <1>3, <1>5
  <2>2. PICK k \in Nat, u \in Octets :
           rest = Join(<<k>>, u) /\ At(n, Join(e, <<k>>), u, Append(vals, k))
    BY <2>1, WordAt DEF n
  <2>3. n \in Readers /\ n.vals = Append(vals, k)
    BY <2>2, AtReader
  <2>4. Last(n.vals) = k
    <3>1. k \in Value
      BY DEF Value
    <3>2. /\ Len(Append(vals, k)) = Len(vals) + 1
          /\ Append(vals, k)[Len(vals) + 1] = k
      BY <1>1, <3>1, AppendFacts
    <3> QED
      BY <2>3, <3>2 DEF Last
  <2>5. x = Raw(n, k)
    BY <2>4 DEF x
  <2>6. ~(k <= Len(u)) => x = [n EXCEPT !.ok = FALSE]
    BY <2>2, <2>5, RawAt
  <2>7. k <= Len(u)
    BY <2>1, <2>3, <2>6 DEF Readers
  <2> QED
    BY <2>1, <2>2, <2>4, <2>7
<1>6. ASSUME NEW p \in Short, NEW t \in Octets, rest = Join(Bytes(p), t)
      PROVE  At(ReadBytes(r), Join(e, Bytes(p)), t, Append(vals, p))
  <2>1. /\ p \in Octets /\ Len(p) \in Nat /\ Len(p) < LenWrap
        /\ <<Len(p)>> \in Octets /\ Bytes(p) = Join(<<Len(p)>>, p)
    BY BytesIsJoin, WordFacts DEF Short, Fits
  <2> DEFINE u == Join(p, t)
  <2>2. u \in Octets /\ Len(u) = Len(p) + Len(t) /\ Len(t) \in Nat
    BY <2>1, JoinFacts
  <2>3. rest = Join(<<Len(p)>>, u) /\ Len(p) <= Len(u)
    BY <1>6, <2>1, <2>2, JoinAgain
  <2> HIDE DEF u
  <2> DEFINE q == SubSeq(u, 1, Len(p))
             z == SubSeq(u, Len(p) + 1, Len(u))
  <2>4. /\ q \in Short /\ z \in Octets /\ rest = Join(Bytes(q), z)
        /\ At(ReadBytes(r), Join(e, Bytes(q)), z, Append(vals, q))
    BY <1>4, <2>1, <2>2, <2>3
  <2> HIDE DEF q, z
  <2>5. q = p /\ z = t
    BY <1>6, <2>4, BytesPrefix
  <2> QED
    BY <2>4, <2>5
<1>7. ASSUME ReadBytes(r).ok
      PROVE  \E p \in Short, t \in Octets :
                /\ rest = Join(Bytes(p), t)
                /\ At(ReadBytes(r), Join(e, Bytes(p)), t, Append(vals, p))
  <2>1. PICK k \in Nat, u \in Octets :
           rest = Join(<<k>>, u) /\ k <= Len(u) /\ k < LenWrap
    BY <1>5, <1>7
  <2> DEFINE q == SubSeq(u, 1, k)
             z == SubSeq(u, k + 1, Len(u))
  <2>2. /\ q \in Short /\ z \in Octets /\ rest = Join(Bytes(q), z)
        /\ At(ReadBytes(r), Join(e, Bytes(q)), z, Append(vals, q))
    BY <1>4, <2>1
  <2> HIDE DEF q, z
  <2> QED
    BY <2>2
<1> QED
  BY <1>6, <1>7
\* An error stays: what reads without one was read from a Reader without.
HasOk(r) == "ok" \in DOMAIN r

LEMMA ErrorsStay ==
    ASSUME NEW r, HasOk(r), NEW S
    PROVE  /\ HasOk(Word(r)) /\ (Word(r).ok => r.ok)
           /\ HasOk(ReadBytes(r)) /\ (ReadBytes(r).ok => r.ok)
           /\ HasOk(Str(r)) /\ (Str(r).ok => r.ok)
           /\ HasOk(Checked(r, S)) /\ (Checked(r, S).ok => r.ok)
<1>1. ASSUME NEW q, HasOk(q), NEW n
      PROVE  HasOk(Raw(q, n)) /\ (Raw(q, n).ok => q.ok)
  BY <1>1 DEF HasOk, Raw
<1>2. HasOk(Word(r)) /\ (Word(r).ok => r.ok)
  <2> DEFINE x == Raw(r, 1)
  <2>1. HasOk(x) /\ (x.ok => r.ok)
    BY <1>1
  <2>2. Word(r) = IF x.ok THEN [x EXCEPT !.vals = Append(r.vals, Last(@)[1])]
                  ELSE x
    BY DEF Word
  <2> HIDE DEF x
  <2> QED
    BY <2>1, <2>2 DEF HasOk
<1>3. HasOk(ReadBytes(r)) /\ (ReadBytes(r).ok => r.ok)
  <2> DEFINE n == Word(r)
             x == Raw(n, Last(n.vals))
  <2>1. HasOk(x) /\ (x.ok => n.ok)
    BY <1>1, <1>2
  <2>2. ReadBytes(r) = IF n.ok /\ x.ok /\ Last(n.vals) < LenWrap
                       THEN [x EXCEPT !.vals = Append(r.vals, Last(@))]
                       ELSE [r EXCEPT !.ok = FALSE]
    BY SMTT(20) DEF ReadBytes
  <2>3. n.ok => r.ok
    BY <1>2
  <2> DEFINE small == Last(n.vals) < LenWrap
  <2> HIDE DEF x, n, small
  <2> QED
    BY <2>1, <2>2, <2>3 DEF HasOk, small
<1>4. HasOk(Str(r)) /\ (Str(r).ok => r.ok)
  <2> DEFINE x == ReadBytes(r)
             good == NotUTF8 \notin Range(Last(x.vals))
  <2>1. Str(r) = [x EXCEPT !.ok = x.ok /\ good]
    BY DEF Str
  <2>2. HasOk(x) /\ (x.ok => r.ok)
    BY <1>3
  <2> HIDE DEF x, good
  <2> QED
    BY <2>1, <2>2 DEF HasOk
<1>5. HasOk(Checked(r, S)) /\ (Checked(r, S).ok => r.ok)
  <2> DEFINE x == Word(r)
             good == Last(x.vals) \in S
  <2>1. Checked(r, S) = [x EXCEPT !.ok = x.ok /\ good]
    BY DEF Checked
  <2>2. HasOk(x) /\ (x.ok => r.ok)
    BY <1>2
  <2> HIDE DEF x, good
  <2> QED
    BY <2>1, <2>2 DEF HasOk
<1> QED
  BY <1>2, <1>3, <1>4, <1>5

\* A word that must be one of S.
LEMMA CheckedAt ==
    ASSUME NEW r, NEW e, NEW rest, NEW vals, At(r, e, rest, vals), NEW S
    PROVE  /\ Checked(r, S).ok =>
                \E w \in Nat, t \in Octets :
                   /\ w \in S /\ rest = Join(<<w>>, t)
                   /\ At(Checked(r, S), Join(e, <<w>>), t, Append(vals, w))
           /\ \A w \in Nat, t \in Octets : w \in S /\ rest = Join(<<w>>, t) =>
                At(Checked(r, S), Join(e, <<w>>), t, Append(vals, w))
<1> DEFINE x == Word(r)
<1>1. Checked(r, S) = [x EXCEPT !.ok = x.ok /\ Last(x.vals) \in S]
  BY DEF Checked
<1>2. vals \in Seq(Value)
  BY DEF At
<1> HIDE DEF x
<1>3. ASSUME NEW w \in Nat, NEW t, At(x, Join(e, <<w>>), t, Append(vals, w))
      PROVE  /\ Last(x.vals) = w
             /\ Checked(r, S).ok => w \in S
             /\ w \in S => Checked(r, S) = x
  <2>1. x \in Readers /\ x.ok /\ x.vals = Append(vals, w)
    BY <1>3, AtReader
  <2>2. Last(x.vals) = w
    <3>1. w \in Value
      BY DEF Value
    <3>2. /\ Len(Append(vals, w)) = Len(vals) + 1
          /\ Append(vals, w)[Len(vals) + 1] = w
      BY <1>2, <3>1, AppendFacts
    <3> QED
      BY <2>1, <3>2 DEF Last
  <2> DEFINE good == Last(x.vals) \in S
  <2>3. good <=> w \in S
    BY <2>2
  <2>4. Checked(r, S) = [x EXCEPT !.ok = x.ok /\ good]
    BY <1>1
  <2> HIDE DEF good
  <2> QED
    BY <2>1, <2>2, <2>3, <2>4 DEF Readers
<1>4. x.ok => \E w \in Nat, t \in Octets :
                 /\ rest = Join(<<w>>, t)
                 /\ At(x, Join(e, <<w>>), t, Append(vals, w))
  BY WordAt DEF x
<1>5. \A w \in Nat, t \in Octets : rest = Join(<<w>>, t) =>
         At(x, Join(e, <<w>>), t, Append(vals, w))
  BY WordAt DEF x
<1>6. ASSUME Checked(r, S).ok PROVE x.ok
  <2>1. HasOk(r)
    BY DEF At, HasOk
  <2>2. HasOk(x)
    BY <2>1, ErrorsStay DEF x
  <2> DEFINE good == Last(x.vals) \in S
  <2>3. Checked(r, S) = [x EXCEPT !.ok = x.ok /\ good]
    BY <1>1
  <2> HIDE DEF good
  <2> QED
    BY <1>6, <2>2, <2>3 DEF HasOk
<1> QED
  BY <1>3, <1>4, <1>5, <1>6

\* A field that must be UTF-8.
LEMMA StrAt ==
    ASSUME NEW r, NEW e, NEW rest, NEW vals, At(r, e, rest, vals)
    PROVE  /\ Str(r).ok =>
                \E p \in Short, t \in Octets :
                   /\ NotUTF8 \notin Range(p) /\ rest = Join(Bytes(p), t)
                   /\ At(Str(r), Join(e, Bytes(p)), t, Append(vals, p))
           /\ \A p \in Short, t \in Octets :
                NotUTF8 \notin Range(p) /\ rest = Join(Bytes(p), t) =>
                   At(Str(r), Join(e, Bytes(p)), t, Append(vals, p))
<1> DEFINE x == ReadBytes(r)
<1>1. Str(r) = [x EXCEPT !.ok = x.ok /\ NotUTF8 \notin Range(Last(x.vals))]
  BY DEF Str
<1>2. vals \in Seq(Value)
  BY DEF At
<1> HIDE DEF x
<1>3. ASSUME NEW p \in Short, NEW t,
             At(x, Join(e, Bytes(p)), t, Append(vals, p))
      PROVE  /\ Str(r).ok => NotUTF8 \notin Range(p)
             /\ NotUTF8 \notin Range(p) => Str(r) = x
  <2>1. x \in Readers /\ x.ok /\ x.vals = Append(vals, p)
    BY <1>3, AtReader
  <2>2. Last(x.vals) = p
    <3>1. p \in Value
      BY DEF Value, Short
    <3>2. /\ Len(Append(vals, p)) = Len(vals) + 1
          /\ Append(vals, p)[Len(vals) + 1] = p
      BY <1>2, <3>1, AppendFacts
    <3> QED
      BY <2>1, <3>2 DEF Last
  <2> DEFINE good == NotUTF8 \notin Range(Last(x.vals))
  <2>3. good <=> NotUTF8 \notin Range(p)
    BY <2>2
  <2>4. Str(r) = [x EXCEPT !.ok = x.ok /\ good]
    BY <1>1
  <2> HIDE DEF good
  <2> QED
    BY <2>1, <2>3, <2>4 DEF Readers
<1>4. x.ok => \E p \in Short, t \in Octets :
                 /\ rest = Join(Bytes(p), t)
                 /\ At(x, Join(e, Bytes(p)), t, Append(vals, p))
  BY BytesAt DEF x
<1>5. \A p \in Short, t \in Octets : rest = Join(Bytes(p), t) =>
         At(x, Join(e, Bytes(p)), t, Append(vals, p))
  BY BytesAt DEF x
<1>6. ASSUME Str(r).ok PROVE x.ok
  <2>1. HasOk(r)
    BY DEF At, HasOk
  <2>2. HasOk(x)
    BY <2>1, ErrorsStay DEF x
  <2> DEFINE good == NotUTF8 \notin Range(Last(x.vals))
  <2>3. Str(r) = [x EXCEPT !.ok = x.ok /\ good]
    BY <1>1
  <2> HIDE DEF good
  <2> QED
    BY <1>6, <2>2, <2>3 DEF HasOk
<1> QED
  BY <1>3, <1>4, <1>5, <1>6

\* A new Reader has everything before it.
LEMMA NewReaderAt ==
    ASSUME NEW buf \in Octets
    PROVE  At(NewReader(buf), <<>>, buf, <<>>) /\ HasOk(NewReader(buf))
<1>1. <<>> \in Octets /\ Join(<<>>, buf) = buf
  BY JoinNothing
<1>2. <<>> \in Seq(Value) /\ Len(<<>>) = 0
  OBVIOUS
<1> QED
  BY <1>1, <1>2 DEF At, NewReader, HasOk

\* At the end nothing is left.
LEMMA EndAt ==
    ASSUME NEW r, NEW e, NEW rest, NEW vals, At(r, e, rest, vals)
    PROVE  End(r) <=> rest = <<>>
<1>1. e \in Octets /\ rest \in Octets
  BY DEF At
<1>2. Len(e) \in Nat /\ Len(rest) \in Nat /\ Len(Join(e, rest)) = Len(e) + Len(rest)
  BY <1>1, JoinLen, LenNat
<1>3. End(r) <=> Len(e) = Len(Join(e, rest))
  BY AtReader DEF End
<1>4. Len(rest) = 0 <=> rest = <<>>
  BY <1>1 DEF Octets
<1> QED
  BY <1>2, <1>3, <1>4
\* What is left to a Reader that has read vals, whatever it has read them from.
Left(r, rest, vals) == \E e \in Octets : At(r, e, rest, vals)

LEMMA LeftReads ==
    ASSUME NEW r, NEW rest, NEW vals, Left(r, rest, vals)
    PROVE  /\ r.vals = vals /\ vals \in Seq(Value) /\ rest \in Octets
           /\ End(r) <=> rest = <<>>
<1>1. PICK e \in Octets : At(r, e, rest, vals)
  BY DEF Left
<1> QED
  BY <1>1, AtReader, EndAt DEF At

LEMMA WordLeft ==
    ASSUME NEW r, NEW rest, NEW vals, Left(r, rest, vals)
    PROVE  /\ Word(r).ok =>
                \E w \in Nat, t \in Octets :
                   /\ rest = Join(<<w>>, t)
                   /\ Left(Word(r), t, Append(vals, w))
           /\ \A w \in Nat, t \in Octets : rest = Join(<<w>>, t) =>
                Left(Word(r), t, Append(vals, w))
<1>1. PICK e \in Octets : At(r, e, rest, vals)
  BY DEF Left
<1>2. ASSUME Word(r).ok
      PROVE  \E w \in Nat, t \in Octets :
                /\ rest = Join(<<w>>, t)
                /\ Left(Word(r), t, Append(vals, w))
  <2>1. PICK w \in Nat, t \in Octets :
           /\ rest = Join(<<w>>, t)
           /\ At(Word(r), Join(e, <<w>>), t, Append(vals, w))
    BY <1>1, <1>2, WordAt
  <2>2. Left(Word(r), t, Append(vals, w))
    BY <2>1 DEF Left, At
  <2> QED
    BY <2>1, <2>2
<1>3. ASSUME NEW w \in Nat, NEW t \in Octets, rest = Join(<<w>>, t)
      PROVE  Left(Word(r), t, Append(vals, w))
  <2>1. At(Word(r), Join(e, <<w>>), t, Append(vals, w))
    BY <1>1, <1>3, WordAt
  <2> QED
    BY <2>1 DEF Left, At
<1> QED
  BY <1>2, <1>3

LEMMA CheckedLeft ==
    ASSUME NEW r, NEW rest, NEW vals, Left(r, rest, vals), NEW S
    PROVE  /\ Checked(r, S).ok =>
                \E w \in Nat, t \in Octets :
                   /\ w \in S /\ rest = Join(<<w>>, t)
                   /\ Left(Checked(r, S), t, Append(vals, w))
           /\ \A w \in Nat, t \in Octets : w \in S /\ rest = Join(<<w>>, t) =>
                Left(Checked(r, S), t, Append(vals, w))
<1>1. PICK e \in Octets : At(r, e, rest, vals)
  BY DEF Left
<1>2. ASSUME Checked(r, S).ok
      PROVE  \E w \in Nat, t \in Octets :
                /\ w \in S /\ rest = Join(<<w>>, t)
                /\ Left(Checked(r, S), t, Append(vals, w))
  <2>1. PICK w \in Nat, t \in Octets :
           /\ w \in S /\ rest = Join(<<w>>, t)
           /\ At(Checked(r, S), Join(e, <<w>>), t, Append(vals, w))
    BY <1>1, <1>2, CheckedAt
  <2>2. Left(Checked(r, S), t, Append(vals, w))
    BY <2>1 DEF Left, At
  <2> QED
    BY <2>1, <2>2
<1>3. ASSUME NEW w \in Nat, NEW t \in Octets, w \in S, rest = Join(<<w>>, t)
      PROVE  Left(Checked(r, S), t, Append(vals, w))
  <2>1. At(Checked(r, S), Join(e, <<w>>), t, Append(vals, w))
    BY <1>1, <1>3, CheckedAt
  <2> QED
    BY <2>1 DEF Left, At
<1> QED
  BY <1>2, <1>3

LEMMA BytesLeft ==
    ASSUME NEW r, NEW rest, NEW vals, Left(r, rest, vals)
    PROVE  /\ ReadBytes(r).ok =>
                \E p \in Short, t \in Octets :
                   /\ rest = Join(Bytes(p), t)
                   /\ Left(ReadBytes(r), t, Append(vals, p))
           /\ \A p \in Short, t \in Octets : rest = Join(Bytes(p), t) =>
                Left(ReadBytes(r), t, Append(vals, p))
<1>1. PICK e \in Octets : At(r, e, rest, vals)
  BY DEF Left
<1>2. ASSUME ReadBytes(r).ok
      PROVE  \E p \in Short, t \in Octets :
                /\ rest = Join(Bytes(p), t)
                /\ Left(ReadBytes(r), t, Append(vals, p))
  <2>1. PICK p \in Short, t \in Octets :
           /\ rest = Join(Bytes(p), t)
           /\ At(ReadBytes(r), Join(e, Bytes(p)), t, Append(vals, p))
    BY <1>1, <1>2, BytesAt
  <2>2. Left(ReadBytes(r), t, Append(vals, p))
    BY <2>1 DEF Left, At
  <2> QED
    BY <2>1, <2>2
<1>3. ASSUME NEW p \in Short, NEW t \in Octets, rest = Join(Bytes(p), t)
      PROVE  Left(ReadBytes(r), t, Append(vals, p))
  <2>1. At(ReadBytes(r), Join(e, Bytes(p)), t, Append(vals, p))
    BY <1>1, <1>3, BytesAt
  <2> QED
    BY <2>1 DEF Left, At
<1> QED
  BY <1>2, <1>3

LEMMA StrLeft ==
    ASSUME NEW r, NEW rest, NEW vals, Left(r, rest, vals)
    PROVE  /\ Str(r).ok =>
                \E p \in Short, t \in Octets :
                   /\ NotUTF8 \notin Range(p) /\ rest = Join(Bytes(p), t)
                   /\ Left(Str(r), t, Append(vals, p))
           /\ \A p \in Short, t \in Octets : NotUTF8 \notin Range(p) /\ rest = Join(Bytes(p), t) =>
                Left(Str(r), t, Append(vals, p))
<1>1. PICK e \in Octets : At(r, e, rest, vals)
  BY DEF Left
<1>2. ASSUME Str(r).ok
      PROVE  \E p \in Short, t \in Octets :
                /\ NotUTF8 \notin Range(p) /\ rest = Join(Bytes(p), t)
                /\ Left(Str(r), t, Append(vals, p))
  <2>1. PICK p \in Short, t \in Octets :
           /\ NotUTF8 \notin Range(p) /\ rest = Join(Bytes(p), t)
           /\ At(Str(r), Join(e, Bytes(p)), t, Append(vals, p))
    BY <1>1, <1>2, StrAt
  <2>2. Left(Str(r), t, Append(vals, p))
    BY <2>1 DEF Left, At
  <2> QED
    BY <2>1, <2>2
<1>3. ASSUME NEW p \in Short, NEW t \in Octets, NotUTF8 \notin Range(p), rest = Join(Bytes(p), t)
      PROVE  Left(Str(r), t, Append(vals, p))
  <2>1. At(Str(r), Join(e, Bytes(p)), t, Append(vals, p))
    BY <1>1, <1>3, StrAt
  <2> QED
    BY <2>1 DEF Left, At
<1> QED
  BY <1>2, <1>3

\* v is q and, at its end, x.
AddsOne(v, q, x) ==
    /\ q \in Seq(Value) /\ v \in Seq(Value) /\ Len(v) = Len(q) + 1
    /\ v[Len(q) + 1] = x /\ \A i \in 1 .. Len(q) : v[i] = q[i]

LEMMA AppendAdds ==
    ASSUME NEW q \in Seq(Value), NEW x \in Value
    PROVE  AddsOne(Append(q, x), q, x)
BY AppendFacts DEF AddsOne

\* The values of seven or eight reads, in order.
LEMMA EightValues ==
    ASSUME NEW a \in Value, NEW b \in Value, NEW c \in Value, NEW d \in Value,
           NEW e \in Value, NEW f \in Value, NEW g \in Value, NEW h \in Value
    PROVE  LET v == Append(Append(Append(Append(Append(Append(Append(
                       <<>>, a), b), c), d), e), f), g)
               w == Append(v, h)
           IN  /\ v[3] = c /\ v[4] = d /\ v[5] = e /\ v[6] = f /\ v[7] = g
               /\ w[3] = c /\ w[4] = d /\ w[5] = e /\ w[6] = f /\ w[7] = g
               /\ w[8] = h
<1> DEFINE v0 == <<>>
           v1 == Append(v0, a)
           v2 == Append(v1, b)
           v3 == Append(v2, c)
           v4 == Append(v3, d)
           v5 == Append(v4, e)
           v6 == Append(v5, f)
           v7 == Append(v6, g)
           v8 == Append(v7, h)
<1>0. v0 \in Seq(Value) /\ Len(v0) = 0
  OBVIOUS
<1> HIDE DEF v0
<1>1. AddsOne(v1, v0, a)
  BY <1>0, AppendAdds DEF AddsOne
<1> HIDE DEF v1
<1>2. AddsOne(v2, v1, b)
  BY <1>1, AppendAdds DEF AddsOne
<1> HIDE DEF v2
<1>3. AddsOne(v3, v2, c)
  BY <1>2, AppendAdds DEF AddsOne
<1> HIDE DEF v3
<1>4. AddsOne(v4, v3, d)
  BY <1>3, AppendAdds DEF AddsOne
<1> HIDE DEF v4
<1>5. AddsOne(v5, v4, e)
  BY <1>4, AppendAdds DEF AddsOne
<1> HIDE DEF v5
<1>6. AddsOne(v6, v5, f)
  BY <1>5, AppendAdds DEF AddsOne
<1> HIDE DEF v6
<1>7. AddsOne(v7, v6, g)
  BY <1>6, AppendAdds DEF AddsOne
<1> HIDE DEF v7
<1>8. AddsOne(v8, v7, h)
  BY <1>7, AppendAdds DEF AddsOne
<1> HIDE DEF v8
<1>9. Len(v1) = 1 /\ v1[1] = a
  BY <1>1, <1>0 DEF AddsOne
<1>10. Len(v2) = 2 /\ v2[1] = a /\ v2[2] = b
  BY <1>2, <1>9 DEF AddsOne
<1>11. Len(v3) = 3 /\ v3[1] = a /\ v3[2] = b /\ v3[3] = c
  BY <1>3, <1>10 DEF AddsOne
<1>12. Len(v4) = 4 /\ v4[1] = a /\ v4[2] = b /\ v4[3] = c /\ v4[4] = d
  BY <1>4, <1>11 DEF AddsOne
<1>13. /\ Len(v5) = 5 /\ v5[1] = a /\ v5[2] = b /\ v5[3] = c /\ v5[4] = d
       /\ v5[5] = e
  BY <1>5, <1>12 DEF AddsOne
<1>14. /\ Len(v6) = 6 /\ v6[1] = a /\ v6[2] = b /\ v6[3] = c /\ v6[4] = d
       /\ v6[5] = e /\ v6[6] = f
  BY <1>6, <1>13 DEF AddsOne
<1>15. /\ Len(v7) = 7 /\ v7[1] = a /\ v7[2] = b /\ v7[3] = c /\ v7[4] = d
       /\ v7[5] = e /\ v7[6] = f /\ v7[7] = g
  BY <1>7, <1>14 DEF AddsOne
<1>16. /\ Len(v8) = 8 /\ v8[1] = a /\ v8[2] = b /\ v8[3] = c /\ v8[4] = d
       /\ v8[5] = e /\ v8[6] = f /\ v8[7] = g /\ v8[8] = h
  BY <1>8, <1>15 DEF AddsOne
<1> QED
  BY <1>15, <1>16 DEF v0, v1, v2, v3, v4, v5, v6, v7, v8

\* Everything that DecodeMessage asks of a message beyond its form: an
\* encoding that it reads has no length that wrapped.
Readable(m) ==
    /\ m.op \in Ops /\ Writable(m)
    /\ NotUTF8 \notin Range(m.table) /\ NotUTF8 \notin Range(m.column)

\* The reads of DecodeMessage, one after the other.
Read2(buf, magic) == Checked(Checked(NewReader(buf), {magic}), {Version})
Read5(buf) == Str(ReadBytes(Str(Read2(buf, MagicM))))
Read8(buf) == ReadBytes(Word(Checked(Read5(buf), Ops)))

LEMMA DecodeMessageIs ==
    ASSUME NEW buf
    PROVE  DecodeMessage(buf) =
             IF End(Read8(buf)) /\ Len(Read8(buf).vals[8]) \in {0, TxidLen}
             THEN [table |-> Read8(buf).vals[3], row |-> Read8(buf).vals[4],
                   column |-> Read8(buf).vals[5], op |-> Read8(buf).vals[6],
                   seq |-> Read8(buf).vals[7], prev |-> Read8(buf).vals[8]]
             ELSE Rejected
BY DEF DecodeMessage, Read8, Read5, Read2

\* The words that begin a message or a record.
LEMMA Read2Left ==
    ASSUME NEW buf \in Octets, NEW magic \in Nat
    PROVE  LET vals == Append(Append(<<>>, magic), Version)
           IN  /\ HasOk(Read2(buf, magic))
               /\ Read2(buf, magic).ok =>
                    \E t \in Octets :
                       /\ buf = Join(<<magic>>, Join(<<Version>>, t))
                       /\ Left(Read2(buf, magic), t, vals)
               /\ \A t \in Octets :
                    buf = Join(<<magic>>, Join(<<Version>>, t)) =>
                       Left(Read2(buf, magic), t, vals)
<1> DEFINE r0 == NewReader(buf)
           r1 == Checked(r0, {magic})
           r2 == Checked(r1, {Version})
           v0 == <<>>
           v1 == Append(v0, magic)
           v2 == Append(v1, Version)
<1>1. Left(r0, buf, v0) /\ HasOk(r0)
  BY NewReaderAt, JoinNothing DEF Left
<1>2. Version \in Nat
  BY CodecAssumption
<1>3. HasOk(r1) /\ HasOk(r2) /\ (r2.ok => r1.ok)
  BY <1>1, ErrorsStay
<1>4. r2 = Read2(buf, magic)
  BY DEF Read2
<1> HIDE DEF r0, v0
<1>5. ASSUME r1.ok
      PROVE  \E t \in Octets : buf = Join(<<magic>>, t) /\ Left(r1, t, v1)
  BY <1>1, <1>5, CheckedLeft
<1>6. ASSUME NEW t \in Octets, buf = Join(<<magic>>, t) PROVE Left(r1, t, v1)
  BY <1>1, <1>6, CheckedLeft
<1> HIDE DEF r1, v1
<1>7. ASSUME r2.ok
      PROVE  \E t \in Octets : /\ buf = Join(<<magic>>, Join(<<Version>>, t))
                               /\ Left(r2, t, v2)
  <2>1. PICK t \in Octets : buf = Join(<<magic>>, t) /\ Left(r1, t, v1)
    BY <1>3, <1>5, <1>7
  <2>2. PICK w \in Nat, u \in Octets :
           /\ w \in {Version} /\ t = Join(<<w>>, u)
           /\ Left(r2, u, Append(v1, w))
    BY <1>7, <2>1, CheckedLeft
  <2>3. w = Version
    BY <2>2
  <2> QED
    BY <2>1, <2>2, <2>3
<1>8. ASSUME NEW t \in Octets, buf = Join(<<magic>>, Join(<<Version>>, t))
      PROVE  Left(r2, t, v2)
  <2> DEFINE u == Join(<<Version>>, t)
  <2>1. u \in Octets
    BY <1>2, WordFacts, JoinLen
  <2>2. Left(r1, u, v1)
    BY <1>6, <1>8, <2>1
  <2> QED
    BY <1>2, <2>2, CheckedLeft
<1>9. v2 = Append(Append(<<>>, magic), Version)
  BY DEF v0, v1
<1> HIDE DEF r2, v2
<1> QED
  BY <1>3, <1>4, <1>7, <1>8, <1>9

\* A buffer that decodes is the encoding of what it decodes to: there is
\* nothing in it that the message does not say.
LEMMA DecodeMessageSound ==
    ASSUME NEW buf \in Octets, DecodeMessage(buf) # Rejected
    PROVE  /\ DecodeMessage(buf) \in ChangeMessage
           /\ Readable(DecodeMessage(buf))
           /\ MessageOctets(DecodeMessage(buf)) = buf
<1> DEFINE r2 == Read2(buf, MagicM)
           r3 == Str(r2)
           r4 == ReadBytes(r3)
           r5 == Str(r4)
           r6 == Checked(r5, Ops)
           r7 == Word(r6)
           r8 == ReadBytes(r7)
<1>0. MagicM \in Nat /\ Version \in Nat
  BY CodecAssumption
<1>1. r8 = Read8(buf)
  BY DEF Read8, Read5
<1>2. End(r8) /\ Len(r8.vals[8]) \in {0, TxidLen}
  BY <1>1, DecodeMessageIs
<1>3. r8.ok
  BY <1>2 DEF End
<1>4. HasOk(r2)
  BY <1>0, Read2Left
<1>5. HasOk(r3) /\ (r3.ok => r2.ok)
  BY <1>4, ErrorsStay
<1>6. HasOk(r4) /\ (r4.ok => r3.ok)
  BY <1>5, ErrorsStay
<1>7. HasOk(r5) /\ (r5.ok => r4.ok)
  BY <1>6, ErrorsStay
<1>8. HasOk(r6) /\ (r6.ok => r5.ok)
  BY <1>7, ErrorsStay
<1>9. HasOk(r7) /\ (r7.ok => r6.ok)
  BY <1>8, ErrorsStay
<1>10. r8.ok => r7.ok
  BY <1>9, ErrorsStay
<1>11. PICK t2 \in Octets, v2 \in Seq(Value) :
          /\ buf = Join(<<MagicM>>, Join(<<Version>>, t2))
          /\ v2 = Append(Append(<<>>, MagicM), Version)
          /\ Left(r2, t2, v2)
  <2>1. r2.ok
    BY <1>3, <1>5, <1>6, <1>7, <1>8, <1>9, <1>10
  <2> DEFINE v == Append(Append(<<>>, MagicM), Version)
  <2>2. PICK t \in Octets : /\ buf = Join(<<MagicM>>, Join(<<Version>>, t))
                           /\ Left(r2, t, v)
    BY <1>0, <2>1, Read2Left
  <2>3. v \in Seq(Value)
    BY <2>2, LeftReads
  <2> QED
    BY <2>2, <2>3
<1>12. PICK p3 \in Short, t3 \in Octets :
          /\ NotUTF8 \notin Range(p3) /\ t2 = Join(Bytes(p3), t3)
          /\ Left(r3, t3, Append(v2, p3))
  <2> HIDE DEF r2
  <2> QED
    BY <1>3, <1>6, <1>7, <1>8, <1>9, <1>10, <1>11, StrLeft
<1>13. PICK p4 \in Short, t4 \in Octets :
          /\ t3 = Join(Bytes(p4), t4)
          /\ Left(r4, t4, Append(Append(v2, p3), p4))
  <2> HIDE DEF r3
  <2> QED
    BY <1>3, <1>7, <1>8, <1>9, <1>10, <1>12, BytesLeft
<1>14. PICK p5 \in Short, t5 \in Octets :
          /\ NotUTF8 \notin Range(p5) /\ t4 = Join(Bytes(p5), t5)
          /\ Left(r5, t5, Append(Append(Append(v2, p3), p4), p5))
  <2> HIDE DEF r4
  <2> QED
    BY <1>3, <1>8, <1>9, <1>10, <1>13, StrLeft
<1> DEFINE v5 == Append(Append(Append(v2, p3), p4), p5)
<1>15. Left(r5, t5, v5)
  BY <1>14
<1> HIDE DEF v5
<1>16. PICK w6 \in Nat, t6 \in Octets :
          /\ w6 \in Ops /\ t5 = Join(<<w6>>, t6)
          /\ Left(r6, t6, Append(v5, w6))
  <2> HIDE DEF r5
  <2> QED
    BY <1>3, <1>9, <1>10, <1>15, CheckedLeft
<1>17. PICK w7 \in Nat, t7 \in Octets :
          /\ t6 = Join(<<w7>>, t7)
          /\ Left(r7, t7, Append(Append(v5, w6), w7))
  <2> HIDE DEF r6
  <2> QED
    BY <1>3, <1>10, <1>16, WordLeft
<1>18. PICK p8 \in Short, t8 \in Octets :
          /\ t7 = Join(Bytes(p8), t8)
          /\ Left(r8, t8, Append(Append(Append(v5, w6), w7), p8))
  <2> HIDE DEF r7
  <2> QED
    BY <1>3, <1>17, BytesLeft
<1>19. t8 = <<>>
  BY <1>2, <1>18, LeftReads
<1>20. /\ r8.vals[3] = p3 /\ r8.vals[4] = p4 /\ r8.vals[5] = p5
       /\ r8.vals[6] = w6 /\ r8.vals[7] = w7 /\ r8.vals[8] = p8
  <2>1. r8.vals = Append(Append(Append(v5, w6), w7), p8)
    BY <1>18, LeftReads
  <2>2. /\ p3 \in Value /\ p4 \in Value /\ p5 \in Value /\ w6 \in Value
        /\ w7 \in Value /\ p8 \in Value /\ MagicM \in Value /\ Version \in Value
    BY <1>0 DEF Value, Short
  <2> HIDE DEF r8
  <2> QED
    BY <1>11, <2>1, <2>2, EightValues DEF v5
<1> DEFINE m == [table |-> p3, row |-> p4, column |-> p5, op |-> w6,
                 seq |-> w7, prev |-> p8]
<1>21. DecodeMessage(buf) = m
  BY <1>1, <1>2, <1>20, DecodeMessageIs
<1>22. m \in ChangeMessage
  BY DEF ChangeMessage, Short
<1>23. Readable(m)
  BY <1>2, <1>12, <1>14, <1>16, <1>20 DEF Readable, Writable, MessageFits, Short
<1>24. /\ m.table = p3 /\ m.row = p4 /\ m.column = p5 /\ m.op = w6
       /\ m.seq = w7 /\ m.prev = p8
  OBVIOUS
<1> HIDE DEF m
<1>25. AfterSeq(m) = t7
  <2>1. Bytes(p8) \in Octets
    BY BytesFacts DEF Short
  <2> QED
    BY <1>18, <1>19, <1>24, <2>1, JoinNothing DEF AfterSeq
<1>26. AfterOp(m) = t6 /\ AfterColumn(m) = t5
  BY <1>16, <1>17, <1>24, <1>25 DEF AfterOp, AfterColumn
<1>27. AfterRow(m) = t4 /\ AfterTable(m) = t3 /\ AfterVersion(m) = t2
  BY <1>12, <1>13, <1>14, <1>24, <1>26 DEF AfterRow, AfterTable, AfterVersion
<1>28. MessageOctets(m) = buf
  BY <1>11, <1>22, <1>27, MessageTails
<1> QED
  BY <1>21, <1>22, <1>23, <1>28

\* A message that the decoder accepts is read back from its encoding.
LEMMA DecodeMessageComplete ==
    ASSUME NEW m \in ChangeMessage, Readable(m)
    PROVE  DecodeMessage(MessageOctets(m)) = m
<1> DEFINE buf == MessageOctets(m)
           r2 == Read2(buf, MagicM)
           r3 == Str(r2)
           r4 == ReadBytes(r3)
           r5 == Str(r4)
           r6 == Checked(r5, Ops)
           r7 == Word(r6)
           r8 == ReadBytes(r7)
<1>0. MagicM \in Nat /\ Version \in Nat
  BY CodecAssumption
<1>1. /\ m.table \in Octets /\ m.row \in Octets /\ m.column \in Octets
      /\ m.op \in Nat /\ m.seq \in Nat /\ m.prev \in Octets
  BY DEF ChangeMessage
<1>2. /\ m.op \in Ops /\ Len(m.prev) \in {0, TxidLen}
      /\ NotUTF8 \notin Range(m.table) /\ NotUTF8 \notin Range(m.column)
      /\ m.table \in Short /\ m.row \in Short /\ m.column \in Short
      /\ m.prev \in Short
  BY WritableFields DEF Readable, Writable
<1>3. /\ AfterSeq(m) \in Octets /\ AfterOp(m) \in Octets
      /\ AfterColumn(m) \in Octets /\ AfterRow(m) \in Octets
      /\ AfterTable(m) \in Octets /\ AfterVersion(m) \in Octets
      /\ buf = Join(<<MagicM>>, Join(<<Version>>, AfterVersion(m)))
      /\ buf \in Octets
  BY MessageTails
<1>4. r8 = Read8(buf)
  BY DEF Read8, Read5
<1> HIDE DEF buf
<1> DEFINE v2 == Append(Append(<<>>, MagicM), Version)
<1>5. Left(r2, AfterVersion(m), v2)
  BY <1>0, <1>3, Read2Left
<1>6. Left(r3, AfterTable(m), Append(v2, m.table))
  <2> HIDE DEF r2, v2
  <2> QED
    BY <1>1, <1>2, <1>3, <1>5, StrLeft DEF AfterVersion
<1> HIDE DEF v2
<1>7. Left(r4, AfterRow(m), Append(Append(v2, m.table), m.row))
  <2> HIDE DEF r3
  <2> QED
    BY <1>1, <1>2, <1>3, <1>6, BytesLeft DEF AfterTable
<1> DEFINE v5 == Append(Append(Append(v2, m.table), m.row), m.column)
<1>8. Left(r5, AfterColumn(m), v5)
  <2> HIDE DEF r4
  <2> QED
    BY <1>1, <1>2, <1>3, <1>7, StrLeft DEF AfterRow
<1> HIDE DEF v5
<1>9. Left(r6, AfterOp(m), Append(v5, m.op))
  <2> HIDE DEF r5
  <2> QED
    BY <1>1, <1>2, <1>3, <1>8, CheckedLeft DEF AfterColumn
<1>10. Left(r7, AfterSeq(m), Append(Append(v5, m.op), m.seq))
  <2> HIDE DEF r6
  <2> QED
    BY <1>1, <1>3, <1>9, WordLeft DEF AfterOp
<1>11. Left(r8, <<>>, Append(Append(Append(v5, m.op), m.seq), m.prev))
  <2>1. AfterSeq(m) = Join(Bytes(m.prev), <<>>) /\ <<>> \in Octets
    BY <1>1, BytesFacts, JoinNothing DEF AfterSeq
  <2> HIDE DEF r7
  <2> QED
    BY <1>1, <1>2, <1>10, <2>1, BytesLeft
<1>12. End(r8)
  BY <1>11, LeftReads
<1>13. /\ r8.vals[3] = m.table /\ r8.vals[4] = m.row /\ r8.vals[5] = m.column
       /\ r8.vals[6] = m.op /\ r8.vals[7] = m.seq /\ r8.vals[8] = m.prev
  <2>1. r8.vals = Append(Append(Append(v5, m.op), m.seq), m.prev)
    BY <1>11, LeftReads
  <2>2. /\ m.table \in Value /\ m.row \in Value /\ m.column \in Value
        /\ m.op \in Value /\ m.seq \in Value /\ m.prev \in Value
        /\ MagicM \in Value /\ Version \in Value
    BY <1>0, <1>1 DEF Value
  <2> HIDE DEF r8
  <2> QED
    BY <2>1, <2>2, EightValues DEF v2, v5
<1>14. DecodeMessage(buf) =
         [table |-> m.table, row |-> m.row, column |-> m.column, op |-> m.op,
          seq |-> m.seq, prev |-> m.prev]
  BY <1>2, <1>4, <1>12, <1>13, DecodeMessageIs
<1> QED
  BY <1>14 DEF buf, ChangeMessage
-----------------------------------------------------------------------------
(* The encoding of a record.                                               *)

AfterImage(r) == Bytes(r.tag)
AfterKind(r) == Join(Bytes(r.image), AfterImage(r))
AfterMessage(r) == Join(<<r.kind>>, AfterKind(r))
AfterStream(r) == Join(Bytes(MessageOctets(r.message)), AfterMessage(r))
AfterMagic(r) == Join(Bytes(r.stream), AfterStream(r))

\* What EncodeRecord asks of a record.
Encodable(r) == Len(r.tag) = TagLen /\ Len(r.message.prev) \in {0, TxidLen}

LEMMA RecordTails ==
    ASSUME NEW r \in FieldRecord
    PROVE  /\ AfterImage(r) \in Octets /\ AfterKind(r) \in Octets
           /\ AfterMessage(r) \in Octets /\ AfterStream(r) \in Octets
           /\ AfterMagic(r) \in Octets
           /\ EncodeRecord(r) # NoEncoding <=> Encodable(r)
           /\ Encodable(r) =>
                /\ EncodeRecord(r) = Join(<<MagicR>>, Join(<<Version>>, AfterMagic(r)))
                /\ EncodeRecord(r) \in Octets
<1>1. /\ r.stream \in Octets /\ r.message \in ChangeMessage /\ r.kind \in Nat
      /\ r.image \in Octets /\ r.tag \in Octets
  BY DEF FieldRecord
<1>2. MagicR \in Nat /\ Version \in Nat
  BY CodecAssumption
<1> DEFINE M == Join(<<MagicR>>, <<Version>>)
           O == MessageOctets(r.message)
           S == Bytes(r.stream)
           E == Bytes(O)
           K == <<r.kind>>
           I == Bytes(r.image)
           T == Bytes(r.tag)
<1>3. O \in Octets /\ O # NoEncoding
  BY <1>1, MessageTails
<1>4. S \in Octets /\ E \in Octets /\ I \in Octets /\ T \in Octets
  BY <1>1, <1>3, BytesFacts
<1>5. K \in Octets /\ <<MagicR>> \in Octets /\ <<Version>> \in Octets
  BY <1>1, <1>2, WordFacts
<1>6. M \in Octets
  BY <1>5, JoinLen
<1>7. Encodable(r) => EncodeMessage(r.message) = O
  BY DEF Encodable, EncodeMessage
<1>8. ~Encodable(r) => EncodeRecord(r) = NoEncoding
  BY DEF Encodable, EncodeRecord, EncodeMessage
<1>9. Encodable(r) =>
        EncodeRecord(r) = Join(Join(Join(Join(Join(M, S), E), K), I), T)
  <2> SUFFICES ASSUME Encodable(r)
               PROVE  EncodeRecord(r) = Join(Join(Join(Join(Join(M, S), E), K), I), T)
    OBVIOUS
  <2>1. EncodeMessage(r.message) # NoEncoding /\ Len(r.tag) = TagLen
    BY <1>3, <1>7 DEF Encodable
  <2>2. <<MagicR, Version>> = M
    BY <1>2, PairOfWords
  <2>3. EncodeRecord(r) =
          <<MagicR, Version>> \o Bytes(r.stream)
          \o Bytes(EncodeMessage(r.message)) \o <<r.kind>>
          \o Bytes(r.image) \o Bytes(r.tag)
    BY <2>1 DEF EncodeRecord
  <2>4. EncodeRecord(r) = M \o S \o E \o K \o I \o T
    BY <1>7, <2>2, <2>3
  <2> HIDE DEF M, S, E, K, I, T
  <2> QED
    BY <2>4 DEF Join
<1>10. AfterImage(r) = T
  BY DEF AfterImage
<1>11. AfterKind(r) = Join(I, T) /\ AfterKind(r) \in Octets
  BY <1>4, <1>10, JoinLen DEF AfterKind
<1>12. AfterMessage(r) = Join(K, AfterKind(r)) /\ AfterMessage(r) \in Octets
  BY <1>5, <1>11, JoinLen DEF AfterMessage
<1>13. AfterStream(r) = Join(E, AfterMessage(r)) /\ AfterStream(r) \in Octets
  BY <1>4, <1>12, JoinLen DEF AfterStream
<1>14. AfterMagic(r) = Join(S, AfterStream(r)) /\ AfterMagic(r) \in Octets
  BY <1>4, <1>13, JoinLen DEF AfterMagic
<1>15. Join(M, AfterMagic(r)) = Join(Join(Join(Join(Join(M, S), E), K), I), T)
  <2> HIDE DEF M, S, E, K, I, T
  <2>1. /\ Join(M, S) \in Octets /\ Join(Join(M, S), E) \in Octets
        /\ Join(Join(Join(M, S), E), K) \in Octets
    BY <1>4, <1>5, <1>6, JoinLen
  <2>2. Join(Join(Join(Join(Join(M, S), E), K), I), T)
          = Join(Join(Join(Join(M, S), E), K), AfterKind(r))
    BY <1>4, <1>11, <2>1, JoinAgain
  <2>3. @ = Join(Join(Join(M, S), E), AfterMessage(r))
    BY <1>5, <1>11, <1>12, <2>1, JoinAgain
  <2>4. @ = Join(Join(M, S), AfterStream(r))
    BY <1>4, <1>12, <1>13, <2>1, JoinAgain
  <2>5. @ = Join(M, AfterMagic(r))
    BY <1>4, <1>6, <1>13, <1>14, JoinAgain
  <2> QED
    BY <2>2, <2>3, <2>4, <2>5
<1> DEFINE whole == Join(<<MagicR>>, Join(<<Version>>, AfterMagic(r)))
<1>16. Join(M, AfterMagic(r)) = whole
  BY <1>5, <1>14, JoinAgain
<1>17. whole \in Octets /\ whole # NoEncoding
  <2> DEFINE m == <<MagicR>>
             rest == Join(<<Version>>, AfterMagic(r))
  <2>1. m \in Octets /\ Len(m) = 1
    BY <1>2, WordFacts
  <2>2. rest \in Octets
    BY <1>5, <1>14, JoinLen
  <2> HIDE DEF m, rest
  <2>3. Join(m, rest) \in Octets /\ Len(Join(m, rest)) = 1 + Len(rest) /\ Len(rest) \in Nat
    BY <2>1, <2>2, JoinLen, LenNat
  <2>4. Len(Join(m, rest)) # 0
    BY <2>3
  <2>5. Join(m, rest) # <<>>
    BY <2>4
  <2> QED
    BY <2>3, <2>5 DEF m, rest, NoEncoding
<1>18. Encodable(r) => EncodeRecord(r) = whole
  BY <1>9, <1>15, <1>16
<1> HIDE DEF whole, T
<1>19. T \in Octets
  BY <1>4
<1>20. AfterImage(r) \in Octets
  BY <1>10, <1>19
<1>21. EncodeRecord(r) # NoEncoding <=> Encodable(r)
  BY <1>8, <1>17, <1>18
<1> QED
  BY <1>11, <1>12, <1>13, <1>14, <1>17, <1>18, <1>20, <1>21 DEF whole

LEMMA WritableRecord ==
    ASSUME NEW r \in FieldRecord, Encodable(r), RecordFits(r)
    PROVE  /\ r.stream \in Short /\ MessageOctets(r.message) \in Short
           /\ r.image \in Short /\ r.tag \in Short /\ Writable(r.message)
<1>1. Fits(r.tag)
  BY CodecAssumption DEF Encodable, Fits
<1>2. MessageOctets(r.message) \in Octets
  BY MessageTails DEF FieldRecord
<1> QED
  BY <1>1, <1>2 DEF FieldRecord, Encodable, RecordFits, Writable, Short

\* No two records have one encoding while no length wraps.
LEMMA RecordInjective ==
    ASSUME NEW r \in FieldRecord, NEW q \in FieldRecord, Encodable(r),
           Encodable(q), RecordFits(r), RecordFits(q),
           EncodeRecord(r) = EncodeRecord(q)
    PROVE  r = q
<1>0. /\ r.stream \in Short /\ MessageOctets(r.message) \in Short
      /\ r.image \in Short /\ r.tag \in Short /\ Writable(r.message)
      /\ q.stream \in Short /\ MessageOctets(q.message) \in Short
      /\ q.image \in Short /\ q.tag \in Short /\ Writable(q.message)
  BY WritableRecord
<1>1. /\ r.stream \in Octets /\ r.message \in ChangeMessage /\ r.kind \in Nat
      /\ r.image \in Octets /\ r.tag \in Octets
      /\ q.stream \in Octets /\ q.message \in ChangeMessage /\ q.kind \in Nat
      /\ q.image \in Octets /\ q.tag \in Octets
  BY DEF FieldRecord
<1>2. MagicR \in Nat /\ Version \in Nat
  BY CodecAssumption
<1>3. AfterMagic(r) = AfterMagic(q)
  <2> DEFINE x == Join(<<Version>>, AfterMagic(r))
             y == Join(<<Version>>, AfterMagic(q))
  <2>1. Join(<<MagicR>>, x) = Join(<<MagicR>>, y)
    BY RecordTails
  <2>2. x \in Octets /\ y \in Octets
    BY <1>2, RecordTails, WordFacts, JoinLen
  <2>3. x = y
    <3> HIDE DEF x, y
    <3> QED
      BY <1>2, <2>1, <2>2, WordPrefix
  <2> QED
    BY <1>2, <2>3, RecordTails, WordPrefix
<1>4. r.stream = q.stream /\ AfterStream(r) = AfterStream(q)
  BY <1>0, <1>3, RecordTails, BytesPrefix DEF AfterMagic
<1>5. /\ MessageOctets(r.message) = MessageOctets(q.message)
      /\ AfterMessage(r) = AfterMessage(q)
  BY <1>0, <1>4, RecordTails, BytesPrefix DEF AfterStream
<1>6. r.message = q.message
  BY <1>0, <1>1, <1>5, MessageInjective
<1>7. r.kind = q.kind /\ AfterKind(r) = AfterKind(q)
  BY <1>1, <1>5, RecordTails, WordPrefix DEF AfterMessage
<1>8. r.image = q.image /\ AfterImage(r) = AfterImage(q)
  <2>1. Join(Bytes(r.image), AfterImage(r)) = Join(Bytes(q.image), AfterImage(q))
    BY <1>7 DEF AfterKind
  <2> QED
    BY <1>0, <2>1, RecordTails, BytesPrefix
<1>9. r.tag = q.tag
  <2>1. Join(Bytes(r.tag), <<>>) = Join(Bytes(q.tag), <<>>)
    BY <1>1, <1>8, BytesFacts, JoinNothing DEF AfterImage
  <2>2. <<>> \in Octets
    BY DEF Octets
  <2> QED
    BY <1>0, <2>1, <2>2, BytesPrefix
<1> QED
  BY <1>4, <1>6, <1>7, <1>8, <1>9 DEF FieldRecord

\* The reads of DecodeRecord.
Read7(buf) ==
    ReadBytes(ReadBytes(Checked(ReadBytes(ReadBytes(Read2(buf, MagicR))),
                                ImageKinds)))

LEMMA DecodeRecordIs ==
    ASSUME NEW buf
    PROVE  DecodeRecord(buf) =
             IF /\ End(Read7(buf)) /\ Len(Read7(buf).vals[7]) = TagLen
                /\ DecodeMessage(Read7(buf).vals[4]) # Rejected
             THEN [stream |-> Read7(buf).vals[3],
                   message |-> DecodeMessage(Read7(buf).vals[4]),
                   kind |-> Read7(buf).vals[5], image |-> Read7(buf).vals[6],
                   tag |-> Read7(buf).vals[7]]
             ELSE Rejected
BY DEF DecodeRecord, Read7, Read2

\* A record that decodes is one that EncodeRecord would have written.
LEMMA DecodeRecordSound ==
    ASSUME NEW buf \in Octets, DecodeRecord(buf) # Rejected
    PROVE  /\ DecodeRecord(buf) \in FieldRecord
           /\ Encodable(DecodeRecord(buf)) /\ Decodable(DecodeRecord(buf))
           /\ EncodeRecord(DecodeRecord(buf)) = buf
<1> DEFINE r2 == Read2(buf, MagicR)
           r3 == ReadBytes(r2)
           r4 == ReadBytes(r3)
           r5 == Checked(r4, ImageKinds)
           r6 == ReadBytes(r5)
           r7 == ReadBytes(r6)
<1>0. MagicR \in Nat /\ Version \in Nat
  BY CodecAssumption
<1>1. r7 = Read7(buf)
  BY DEF Read7
<1>2. /\ End(r7) /\ Len(r7.vals[7]) = TagLen
      /\ DecodeMessage(r7.vals[4]) # Rejected
  BY <1>1, DecodeRecordIs
<1>3. r7.ok
  BY <1>2 DEF End
<1>4. HasOk(r2)
  BY <1>0, Read2Left
<1>5. HasOk(r3) /\ (r3.ok => r2.ok)
  BY <1>4, ErrorsStay
<1>6. HasOk(r4) /\ (r4.ok => r3.ok)
  BY <1>5, ErrorsStay
<1>7. HasOk(r5) /\ (r5.ok => r4.ok)
  BY <1>6, ErrorsStay
<1>8. HasOk(r6) /\ (r6.ok => r5.ok)
  BY <1>7, ErrorsStay
<1>9. r7.ok => r6.ok
  BY <1>8, ErrorsStay
<1>10. PICK t2 \in Octets, v2 \in Seq(Value) :
          /\ buf = Join(<<MagicR>>, Join(<<Version>>, t2))
          /\ v2 = Append(Append(<<>>, MagicR), Version)
          /\ Left(r2, t2, v2)
  <2>1. r2.ok
    BY <1>3, <1>5, <1>6, <1>7, <1>8, <1>9
  <2> DEFINE v == Append(Append(<<>>, MagicR), Version)
  <2>2. PICK t \in Octets : /\ buf = Join(<<MagicR>>, Join(<<Version>>, t))
                           /\ Left(r2, t, v)
    BY <1>0, <2>1, Read2Left
  <2>3. v \in Seq(Value)
    BY <2>2, LeftReads
  <2> QED
    BY <2>2, <2>3
<1>11. PICK p3 \in Short, t3 \in Octets :
          t2 = Join(Bytes(p3), t3) /\ Left(r3, t3, Append(v2, p3))
  <2> HIDE DEF r2
  <2> QED
    BY <1>3, <1>6, <1>7, <1>8, <1>9, <1>10, BytesLeft
<1>12. PICK p4 \in Short, t4 \in Octets :
          /\ t3 = Join(Bytes(p4), t4)
          /\ Left(r4, t4, Append(Append(v2, p3), p4))
  <2> HIDE DEF r3
  <2> QED
    BY <1>3, <1>7, <1>8, <1>9, <1>11, BytesLeft
<1> DEFINE v4 == Append(Append(v2, p3), p4)
<1>13. Left(r4, t4, v4)
  BY <1>12
<1> HIDE DEF v4
<1>14. PICK w5 \in Nat, t5 \in Octets :
          /\ w5 \in ImageKinds /\ t4 = Join(<<w5>>, t5)
          /\ Left(r5, t5, Append(v4, w5))
  <2> HIDE DEF r4
  <2> QED
    BY <1>3, <1>8, <1>9, <1>13, CheckedLeft
<1>15. PICK p6 \in Short, t6 \in Octets :
          /\ t5 = Join(Bytes(p6), t6)
          /\ Left(r6, t6, Append(Append(v4, w5), p6))
  <2> HIDE DEF r5
  <2> QED
    BY <1>3, <1>9, <1>14, BytesLeft
<1>16. PICK p7 \in Short, t7 \in Octets :
          /\ t6 = Join(Bytes(p7), t7)
          /\ Left(r7, t7, Append(Append(Append(v4, w5), p6), p7))
  <2> HIDE DEF r6
  <2> QED
    BY <1>3, <1>15, BytesLeft
<1>17. t7 = <<>>
  BY <1>2, <1>16, LeftReads
<1>18. /\ r7.vals[3] = p3 /\ r7.vals[4] = p4 /\ r7.vals[5] = w5
       /\ r7.vals[6] = p6 /\ r7.vals[7] = p7
  <2>1. r7.vals = Append(Append(Append(v4, w5), p6), p7)
    BY <1>16, LeftReads
  <2>2. /\ p3 \in Value /\ p4 \in Value /\ w5 \in Value /\ p6 \in Value
        /\ p7 \in Value /\ MagicR \in Value /\ Version \in Value
    BY <1>0 DEF Value, Short
  <2> HIDE DEF r7
  <2> QED
    BY <1>10, <2>1, <2>2, EightValues DEF v4
<1> DEFINE m == DecodeMessage(p4)
           r == [stream |-> p3, message |-> m, kind |-> w5, image |-> p6,
                 tag |-> p7]
<1>19. DecodeRecord(buf) = r
  BY <1>1, <1>2, <1>18, DecodeRecordIs
<1>20. m # Rejected
  BY <1>2, <1>18
<1>21. m \in ChangeMessage /\ Readable(m) /\ MessageOctets(m) = p4
  BY <1>20, DecodeMessageSound DEF Short
<1> HIDE DEF m
<1>22. r \in FieldRecord
  BY <1>21 DEF FieldRecord, Short
<1>23. /\ r.stream = p3 /\ r.message = m /\ r.kind = w5 /\ r.image = p6
       /\ r.tag = p7
  OBVIOUS
<1> HIDE DEF r
<1>24. Encodable(r)
  BY <1>2, <1>18, <1>21, <1>23 DEF Encodable, Readable, Writable
<1>25. Decodable(r)
  <2>1. RecordFits(r)
    BY <1>21, <1>23 DEF RecordFits, Readable, Writable, Short
  <2> QED
    BY <1>14, <1>21, <1>23, <2>1 DEF Decodable, Readable
<1>26. AfterImage(r) = t6
  <2>1. Bytes(p7) \in Octets
    BY BytesFacts DEF Short
  <2> QED
    BY <1>16, <1>17, <1>23, <2>1, JoinNothing DEF AfterImage
<1>27. AfterKind(r) = t5 /\ AfterMessage(r) = t4
  BY <1>14, <1>15, <1>23, <1>26 DEF AfterKind, AfterMessage
<1>28. AfterStream(r) = t3 /\ AfterMagic(r) = t2
  BY <1>11, <1>12, <1>21, <1>23, <1>27 DEF AfterStream, AfterMagic
<1>29. EncodeRecord(r) = buf
  BY <1>10, <1>22, <1>24, <1>28, RecordTails
<1> QED
  BY <1>19, <1>22, <1>24, <1>25, <1>29

\* A record that the decoder accepts is read back from its encoding.
LEMMA DecodeRecordComplete ==
    ASSUME NEW r \in FieldRecord, Encodable(r), Decodable(r)
    PROVE  DecodeRecord(EncodeRecord(r)) = r
<1> DEFINE buf == EncodeRecord(r)
           r2 == Read2(buf, MagicR)
           r3 == ReadBytes(r2)
           r4 == ReadBytes(r3)
           r5 == Checked(r4, ImageKinds)
           r6 == ReadBytes(r5)
           r7 == ReadBytes(r6)
           o == MessageOctets(r.message)
<1>0. MagicR \in Nat /\ Version \in Nat
  BY CodecAssumption
<1>1. /\ r.stream \in Octets /\ r.message \in ChangeMessage /\ r.kind \in Nat
      /\ r.image \in Octets /\ r.tag \in Octets
  BY DEF FieldRecord
<1>2. /\ r.kind \in ImageKinds /\ Readable(r.message) /\ Len(r.tag) = TagLen
      /\ r.stream \in Short /\ o \in Short /\ r.image \in Short /\ r.tag \in Short
  BY WritableRecord DEF Encodable, Decodable, Readable
<1>3. /\ AfterImage(r) \in Octets /\ AfterKind(r) \in Octets
      /\ AfterMessage(r) \in Octets /\ AfterStream(r) \in Octets
      /\ AfterMagic(r) \in Octets
      /\ buf = Join(<<MagicR>>, Join(<<Version>>, AfterMagic(r)))
      /\ buf \in Octets
  BY RecordTails
<1>4. r7 = Read7(buf)
  BY DEF Read7
<1>5. o \in Octets /\ DecodeMessage(o) = r.message
  BY <1>1, <1>2, MessageTails, DecodeMessageComplete
<1> HIDE DEF buf, o
<1> DEFINE v2 == Append(Append(<<>>, MagicR), Version)
<1>6. Left(r2, AfterMagic(r), v2)
  BY <1>0, <1>3, Read2Left
<1>7. Left(r3, AfterStream(r), Append(v2, r.stream))
  <2> HIDE DEF r2, v2
  <2> QED
    BY <1>2, <1>3, <1>6, BytesLeft DEF AfterMagic
<1> DEFINE v4 == Append(Append(v2, r.stream), o)
<1>8. Left(r4, AfterMessage(r), v4)
  <2>1. AfterStream(r) = Join(Bytes(o), AfterMessage(r))
    BY DEF AfterStream, o
  <2> HIDE DEF r3, v2
  <2> QED
    BY <1>2, <1>3, <1>7, <2>1, BytesLeft
<1> HIDE DEF v4
<1>9. Left(r5, AfterKind(r), Append(v4, r.kind))
  <2> HIDE DEF r4
  <2> QED
    BY <1>1, <1>2, <1>3, <1>8, CheckedLeft DEF AfterMessage
<1>10. Left(r6, AfterImage(r), Append(Append(v4, r.kind), r.image))
  <2> HIDE DEF r5
  <2> QED
    BY <1>2, <1>3, <1>9, BytesLeft DEF AfterKind
<1>11. Left(r7, <<>>, Append(Append(Append(v4, r.kind), r.image), r.tag))
  <2>1. AfterImage(r) = Join(Bytes(r.tag), <<>>) /\ <<>> \in Octets
    BY <1>1, BytesFacts, JoinNothing DEF AfterImage
  <2> HIDE DEF r6
  <2> QED
    BY <1>2, <1>10, <2>1, BytesLeft
<1>12. End(r7)
  BY <1>11, LeftReads
<1>13. /\ r7.vals[3] = r.stream /\ r7.vals[4] = o /\ r7.vals[5] = r.kind
       /\ r7.vals[6] = r.image /\ r7.vals[7] = r.tag
  <2>1. r7.vals = Append(Append(Append(v4, r.kind), r.image), r.tag)
    BY <1>11, LeftReads
  <2>2. /\ r.stream \in Value /\ o \in Value /\ r.kind \in Value
        /\ r.image \in Value /\ r.tag \in Value
        /\ MagicR \in Value /\ Version \in Value
    BY <1>0, <1>1, <1>5 DEF Value
  <2> HIDE DEF r7
  <2> QED
    BY <2>1, <2>2, EightValues DEF v2, v4
<1>14. r.message # Rejected
  <2>1. "table" \in DOMAIN r.message
    BY <1>1 DEF ChangeMessage
  <2>2. "table" \notin DOMAIN Rejected
    BY DEF Rejected
  <2> QED
    BY <2>1, <2>2
<1>15. DecodeRecord(buf) =
         [stream |-> r.stream, message |-> r.message, kind |-> r.kind,
          image |-> r.image, tag |-> r.tag]
  BY <1>2, <1>4, <1>5, <1>12, <1>13, <1>14, DecodeRecordIs
<1> QED
  BY <1>15 DEF buf, FieldRecord

\* A record that was encoded decodes to itself exactly if its names are UTF-8,
\* its op and kind known and no length wraps, and is rejected otherwise while
\* no length wraps; and a buffer that decodes is the one encoding of what it
\* decodes to, for buffers and fields of any length (bytes.go:33, 57-66,
\* 119-128, message.go:104-143).
THEOREM CodecTheorem == Spec => []CodecExact
<1>1. ASSUME NEW r \in FieldRecord PROVE DecodesBack(r)
  <2> DEFINE d == DecodeRecord(EncodeRecord(r))
  <2> SUFFICES ASSUME EncodeRecord(r) # NoEncoding
               PROVE  /\ d = r <=> Decodable(r)
                      /\ RecordFits(r) /\ ~Decodable(r) => d = Rejected
    BY DEF DecodesBack
  <2>1. Encodable(r) /\ EncodeRecord(r) \in Octets
    BY RecordTails
  <2>2. Decodable(r) => d = r
    BY <2>1, DecodeRecordComplete
  <2>3. d # Rejected => /\ d \in FieldRecord /\ Encodable(d) /\ Decodable(d)
                        /\ EncodeRecord(d) = EncodeRecord(r)
    BY <2>1, DecodeRecordSound
  <2>4. r # Rejected
    <3>1. "tag" \in DOMAIN r /\ "tag" \notin DOMAIN Rejected
      BY DEF FieldRecord, Rejected
    <3> QED
      BY <3>1
  <2> HIDE DEF d
  <2>5. d = r => Decodable(r)
    BY <2>3, <2>4
  <2>6. ASSUME RecordFits(r), ~Decodable(r), d # Rejected PROVE FALSE
    <3>1. RecordFits(d)
      BY <2>3, <2>6 DEF Decodable
    <3>2. d = r
      BY <2>1, <2>3, <2>6, <3>1, RecordInjective
    <3> QED
      BY <2>5, <2>6, <3>2
  <2> QED
    BY <2>2, <2>5, <2>6
<1>2. ASSUME NEW buf \in Octets PROVE Canonical(buf)
  BY DecodeRecordSound DEF Canonical
<1>3. InputInv => CodecExact
  BY <1>1, <1>2, CallerAssumption DEF InputInv, CodecExact
<1> QED
  BY <1>3, LibrariesInvariant, PTL
-----------------------------------------------------------------------------
(* Inclusion proofs: the levels of the tree.                               *)

\* A level of the tree: a sequence of nodes, not empty.  The nodes of all
\* levels are in no set that could be named beforehand.
Level(l) == Len(l) \in Nat \ {0} /\ \E S : l \in Seq(S)

\* a is t and, at its end, x.
Added(a, t, x) ==
    /\ \E S : a \in Seq(S)
    /\ Len(a) = Len(t) + 1 /\ a[Len(t) + 1] = x
    /\ \A i \in 1 .. Len(t) : a[i] = t[i]

LEMMA AppendAdded ==
    ASSUME NEW S, NEW t \in Seq(S), NEW x
    PROVE  Added(Append(t, x), t, x)
<1> DEFINE V == S \cup {x}
<1>1. t \in Seq(V) /\ x \in V
  BY SeqMonotonic
<1> HIDE DEF V
<1>2. /\ Append(t, x) \in Seq(V)
      /\ Len(Append(t, x)) = Len(t) + 1
      /\ \A i \in 1 .. Len(t) : Append(t, x)[i] = t[i]
      /\ Append(t, x)[Len(t) + 1] = x
  BY <1>1, AppendProperties
<1>3. \E A : Append(t, x) \in Seq(A)
  BY <1>2
<1> QED
  BY <1>2, <1>3 DEF Added

\* An odd level gets its last node once more.
LEMMA EvenFacts ==
    ASSUME NEW l, Level(l)
    PROVE  /\ Len(l) \in Nat \ {0}
           /\ Len(Even(l)) = IF Len(l) % 2 = 1 THEN Len(l) + 1 ELSE Len(l)
           /\ \A i \in 1 .. Len(l) : Even(l)[i] = l[i]
<1>1. PICK S : l \in Seq(S)
  BY DEF Level
<1>2. Added(Append(l, Last(l)), l, Last(l))
  BY <1>1, AppendAdded
<1> QED
  BY <1>2 DEF Even, Added, Level

\* The next level has half as many nodes, each the pair of two neighbours.
LEMMA ParentsFacts ==
    ASSUME NEW l, Level(l)
    PROVE  /\ Level(Parents(l))
           /\ Len(Parents(l)) = (Len(l) + 1) \div 2
           /\ \A i \in 1 .. Len(Parents(l)) :
                 Parents(l)[i] = <<Even(l)[2 * i - 1], Even(l)[2 * i]>>
<1> DEFINE n == Len(Even(l)) \div 2
           S == {<<Even(l)[2 * i - 1], Even(l)[2 * i]>> : i \in 1 .. n}
<1>1. n = (Len(l) + 1) \div 2 /\ n \in Nat \ {0}
  <2> DEFINE k == Len(l)
  <2>1. k \in Nat \ {0} /\ Len(Even(l)) = IF k % 2 = 1 THEN k + 1 ELSE k
    BY EvenFacts
  <2> HIDE DEF k
  <2>2. n = (k + 1) \div 2 /\ n \in Nat \ {0}
    BY <2>1
  <2> QED
    BY <2>2 DEF k
<1>2. Parents(l) = [i \in 1 .. n |-> <<Even(l)[2 * i - 1], Even(l)[2 * i]>>]
  BY DEF Parents
<1> HIDE DEF n
<1>3. Parents(l) \in [1 .. n -> S]
  BY <1>2
<1> HIDE DEF S
<1>4. Parents(l) \in Seq(S)
  BY <1>1, <1>3, SeqDef
<1>5. Len(Parents(l)) = n
  BY <1>1, <1>3, <1>4
<1> QED
  BY <1>1, <1>2, <1>4, <1>5 DEF Level

\* One more level, unless there is a single node.
Grow(t) == IF Len(Last(t)) <= 1 THEN t ELSE Append(t, Parents(Last(t)))

GrowsTo(up, leaves, N) ==
    up = [n \in 0 .. N |-> IF n = 0 THEN <<leaves>> ELSE Grow(up[n - 1])]

LEMMA GrowsExists ==
    ASSUME NEW leaves, NEW N \in Nat
    PROVE  \E up : GrowsTo(up, leaves, N)
<1> DEFINE T == {n \in Nat : \E up : GrowsTo(up, leaves, n)}
<1>1. 0 \in T
  <2> DEFINE up == [n \in 0 .. 0 |-> <<leaves>>]
  <2>1. up = [n \in 0 .. 0 |-> IF n = 0 THEN <<leaves>> ELSE Grow(up[n - 1])]
    OBVIOUS
  <2> HIDE DEF up
  <2>2. GrowsTo(up, leaves, 0)
    BY <2>1 DEF GrowsTo
  <2> QED
    BY <2>2
<1>2. ASSUME NEW k \in Nat, k \in T PROVE k + 1 \in T
  <2>1. PICK up : GrowsTo(up, leaves, k)
    BY <1>2
  <2> DEFINE g == [n \in 0 .. k + 1 |-> IF n = k + 1 THEN Grow(up[k]) ELSE up[n]]
  <2>2. \A n \in 0 .. k : g[n] = up[n]
    OBVIOUS
  <2>3. ASSUME NEW n \in 0 .. k + 1
        PROVE  g[n] = IF n = 0 THEN <<leaves>> ELSE Grow(g[n - 1])
    <3>1. CASE n = k + 1
      <4>1. n # 0 /\ n - 1 = k /\ g[n] = Grow(up[k]) /\ g[k] = up[k]
        BY <3>1
      <4> QED
        BY <4>1
    <3>2. CASE n # k + 1
      <4>1. n \in 0 .. k
        BY <3>2
      <4>2. up[n] = IF n = 0 THEN <<leaves>> ELSE Grow(up[n - 1])
        BY <2>1, <4>1 DEF GrowsTo
      <4>3. n # 0 => g[n - 1] = up[n - 1]
        BY <2>2, <4>1
      <4> QED
        BY <2>2, <4>1, <4>2, <4>3
    <3> QED
      BY <3>1, <3>2
  <2>4. g = [n \in 0 .. k + 1 |-> g[n]]
    OBVIOUS
  <2> HIDE DEF g
  <2>5. GrowsTo(g, leaves, k + 1)
    BY <2>3, <2>4 DEF GrowsTo
  <2> QED
    BY <2>5
<1>3. N \in T
  <2> HIDE DEF T
  <2> QED
    BY <1>1, <1>2, SetInduction
<1> QED
  BY <1>3

LEMMA LevelsIs ==
    ASSUME NEW leaves, Len(leaves) \in Nat
    PROVE  \E up : /\ up[0] = <<leaves>>
                   /\ \A n \in 1 .. Len(leaves) : up[n] = Grow(up[n - 1])
                   /\ Levels(leaves) = up[Len(leaves)]
<1>1. PICK g : GrowsTo(g, leaves, Len(leaves))
  BY GrowsExists
<1>2. PICK up : up = CHOOSE h : GrowsTo(h, leaves, Len(leaves))
  OBVIOUS
<1>3. GrowsTo(up, leaves, Len(leaves))
  BY <1>1, <1>2
<1>4. Levels(leaves) = up[Len(leaves)]
  BY <1>2 DEF Levels, GrowsTo, Grow
<1>5. up[0] = <<leaves>>
  BY <1>3 DEF GrowsTo
<1>6. ASSUME NEW n \in 1 .. Len(leaves) PROVE up[n] = Grow(up[n - 1])
  <2>1. n \in 0 .. Len(leaves) /\ n # 0
    OBVIOUS
  <2> QED
    BY <1>3, <2>1 DEF GrowsTo
<1> QED
  BY <1>4, <1>5, <1>6

\* Levels, each made of the one below, from the leaves up.
Tree(t, leaves) ==
    /\ \E S : t \in Seq(S)
    /\ Len(t) \in Nat \ {0} /\ t[1] = leaves
    /\ \A k \in 1 .. Len(t) : Level(t[k])
    /\ \A k \in 1 .. Len(t) - 1 : t[k + 1] = Parents(t[k])

LEMMA GrowKeeps ==
    ASSUME NEW t, NEW leaves, Tree(t, leaves)
    PROVE  /\ Level(Last(t)) /\ Tree(Grow(t), leaves)
           /\ Len(Last(t)) <= 1 => Grow(t) = t
           /\ Len(Last(t)) > 1 =>
                 Len(Last(Grow(t))) = (Len(Last(t)) + 1) \div 2
<1>1. Level(Last(t)) /\ Last(t) = t[Len(t)]
  BY DEF Tree, Last
<1>2. Len(Last(t)) \in Nat
  BY <1>1 DEF Level
<1>3. CASE Len(Last(t)) <= 1
  <2>1. Grow(t) = t
    BY <1>3 DEF Grow
  <2>2. ~(Len(Last(t)) > 1)
    BY <1>2, <1>3
  <2>3. Level(Last(t)) /\ Tree(Grow(t), leaves)
    BY <1>1, <2>1
  <2> QED
    BY <2>1, <2>2, <2>3
<1>4. CASE Len(Last(t)) > 1
  <2> DEFINE p == Parents(Last(t))
             g == Append(t, p)
             m == Len(t)
  <2>1. Grow(t) = g
    BY <1>2, <1>4 DEF Grow
  <2>2. Added(g, t, p)
    BY AppendAdded DEF Tree
  <2>3. Level(p) /\ Len(p) = (Len(Last(t)) + 1) \div 2
    BY <1>1, ParentsFacts
  <2>4. p = Parents(t[m])
    BY <1>1
  <2> HIDE DEF g, p
  <2>5. /\ m \in Nat \ {0} /\ Len(g) = m + 1 /\ g[m + 1] = p
        /\ \A i \in 1 .. m : g[i] = t[i]
        /\ \E S : g \in Seq(S)
    BY <2>2 DEF Tree, Added
  <2>6. Last(g) = p
    BY <2>5 DEF Last
  <2>7. ASSUME NEW k \in 1 .. Len(g) PROVE Level(g[k])
    <3>1. k = m + 1 \/ k \in 1 .. m
      BY <2>5
    <3> QED
      BY <2>3, <2>5, <3>1 DEF Tree
  <2>8. ASSUME NEW k \in 1 .. Len(g) - 1 PROVE g[k + 1] = Parents(g[k])
    <3>1. k \in 1 .. m /\ g[k] = t[k]
      BY <2>5
    <3>2. CASE k = m
      BY <2>4, <2>5, <3>1, <3>2
    <3>3. CASE k # m
      <4>1. k \in 1 .. m - 1 /\ k + 1 \in 1 .. m
        BY <2>5, <3>1, <3>3
      <4>2. t[k + 1] = Parents(t[k]) /\ g[k + 1] = t[k + 1]
        BY <2>5, <4>1 DEF Tree
      <4> QED
        BY <3>1, <4>2
    <3> QED
      BY <3>2, <3>3
  <2>9. g[1] = leaves
    <3>1. 1 \in 1 .. m
      BY <2>5
    <3> QED
      BY <2>5, <3>1 DEF Tree
  <2>10. Tree(g, leaves)
    BY <2>5, <2>7, <2>8, <2>9 DEF Tree
  <2>11. ~(Len(Last(t)) <= 1)
    BY <1>2, <1>4
  <2>12. Tree(Grow(t), leaves)
    BY <2>1, <2>10
  <2>13. Len(Last(Grow(t))) = (Len(Last(t)) + 1) \div 2
    BY <2>1, <2>3, <2>6
  <2> QED
    BY <1>1, <2>11, <2>12, <2>13
<1> QED
  BY <1>2, <1>3, <1>4

\* As many rounds as there are leaves are enough to reach a single node.
LEMMA LevelsTree ==
    ASSUME NEW leaves, Level(leaves)
    PROVE  Tree(Levels(leaves), leaves) /\ Len(Last(Levels(leaves))) = 1
<1> DEFINE N == Len(leaves)
<1>1. N \in Nat \ {0}
  BY DEF Level
<1>2. PICK up : /\ up[0] = <<leaves>>
                /\ \A n \in 1 .. N : up[n] = Grow(up[n - 1])
                /\ Levels(leaves) = up[N]
  BY <1>1, LevelsIs
<1> DEFINE Good(n) == /\ Tree(up[n], leaves)
                      /\ Len(Last(up[n])) = 1 \/ Len(Last(up[n])) <= N - n
           T == {n \in Nat : n <= N => Good(n)}
<1> HIDE DEF N
<1>3. 0 \in T
  <2> DEFINE t == <<leaves>>
  <2>1. t \in Seq({leaves}) /\ Len(t) = 1 /\ t[1] = leaves
    OBVIOUS
  <2> HIDE DEF t
  <2>2. Tree(t, leaves)
    BY <2>1 DEF Tree
  <2>3. Last(t) = leaves
    BY <2>1 DEF Last
  <2>4. Len(Last(t)) <= N - 0
    BY <1>1, <2>3 DEF N
  <2>5. up[0] = t
    BY <1>2 DEF t
  <2> QED
    BY <2>2, <2>4, <2>5
<1>4. ASSUME NEW n \in Nat, n \in T PROVE n + 1 \in T
  <2> SUFFICES ASSUME n + 1 <= N PROVE Good(n + 1)
    OBVIOUS
  <2>1. Good(n)
    BY <1>1, <1>4
  <2>2. n + 1 \in 1 .. N /\ (n + 1) - 1 = n
    BY <1>1
  <2>3. up[n + 1] = Grow(up[n])
    BY <1>2, <2>2
  <2> DEFINE k == Len(Last(up[n]))
  <2>4. /\ Level(Last(up[n])) /\ Tree(up[n + 1], leaves)
        /\ k <= 1 => up[n + 1] = up[n]
        /\ k > 1 => Len(Last(up[n + 1])) = (k + 1) \div 2
    BY <2>1, <2>3, GrowKeeps
  <2>5. k \in Nat \ {0}
    BY <2>4 DEF Level
  <2>6. k = 1 \/ k <= N - n
    BY <2>1
  <2>7. CASE k = 1
    <3>1. up[n + 1] = up[n]
      BY <2>4, <2>7
    <3> QED
      BY <2>4, <2>7, <3>1
  <2>8. CASE k > 1
    <3>1. Len(Last(up[n + 1])) = (k + 1) \div 2
      BY <2>4, <2>8
    <3> HIDE DEF k
    <3>2. (k + 1) \div 2 <= k - 1
      BY <2>5, <2>8
    <3>3. (k + 1) \div 2 <= N - (n + 1)
      BY <1>1, <2>5, <2>6, <2>8, <3>2
    <3>4. Len(Last(up[n + 1])) <= N - (n + 1)
      BY <3>1, <3>3
    <3> QED
      BY <2>4, <3>4
  <2>9. k = 1 \/ k > 1
    <3> HIDE DEF k
    <3> QED
      BY <2>5
  <2> QED
    BY <2>7, <2>8, <2>9
<1>5. N \in T
  <2> HIDE DEF T
  <2> QED
    BY <1>1, <1>3, <1>4, SetInduction
<1>6. Good(N)
  BY <1>1, <1>5
<1>7. Len(Last(up[N])) \in Nat \ {0}
  BY <1>6, GrowKeeps DEF Level
<1>8. Len(Last(up[N])) = 1
  BY <1>1, <1>6, <1>7
<1> QED
  BY <1>2, <1>6, <1>8
-----------------------------------------------------------------------------
(* Inclusion proofs: the way up from a leaf.                               *)

ClimbsBy(F, N, x, branch) ==
    F = [s \in SUBSET (1 .. N) |->
            IF s = {} THEN x ELSE Climb(F[s \ {Max(s)}], branch[Max(s)])]

LEMMA ClimbExists ==
    ASSUME NEW x, NEW branch, NEW N \in Nat
    PROVE  \E F : ClimbsBy(F, N, x, branch)
<1> DEFINE T == {k \in Nat : \E F : ClimbsBy(F, k, x, branch)}
<1>1. 0 \in T
  <2> DEFINE F == [s \in SUBSET (1 .. 0) |-> x]
  <2>1. SUBSET (1 .. 0) = {{}}
    OBVIOUS
  <2>2. F = [s \in SUBSET (1 .. 0) |->
                IF s = {} THEN x ELSE Climb(F[s \ {Max(s)}], branch[Max(s)])]
    BY <2>1
  <2> HIDE DEF F
  <2>3. ClimbsBy(F, 0, x, branch)
    BY <2>2 DEF ClimbsBy
  <2> QED
    BY <2>3
<1>2. ASSUME NEW k \in Nat, k \in T PROVE k + 1 \in T
  <2>1. PICK F : ClimbsBy(F, k, x, branch)
    BY <1>2
  <2>2. \A s \in SUBSET (1 .. k) :
           F[s] = IF s = {} THEN x ELSE Climb(F[s \ {Max(s)}], branch[Max(s)])
    BY <2>1 DEF ClimbsBy
  <2> DEFINE top == k + 1
             G == [s \in SUBSET (1 .. top) |->
                      IF top \in s THEN Climb(F[s \ {top}], branch[top]) ELSE F[s]]
  <2>3. top \in Nat /\ \A y \in 1 .. top : y # top => y \in 1 .. k
    OBVIOUS
  <2>4. 1 .. k \subseteq 1 .. top /\ top \notin 1 .. k
    OBVIOUS
  <2> HIDE DEF top
  <2>5. ASSUME NEW s \in SUBSET (1 .. top)
        PROVE  G[s] = IF s = {} THEN x
                      ELSE Climb(G[s \ {Max(s)}], branch[Max(s)])
    <3>1. CASE s = {}
      <4>1. G[s] = F[s] /\ F[s] = x
        BY <2>2, <3>1
      <4> QED
        BY <3>1, <4>1
    <3>2. CASE s # {}
      <4>1. Max(s) \in s /\ Max(s) \in 1 .. top /\ \A y \in s : y <= Max(s)
        BY <2>3, <3>2, MaxIs
      <4>2. CASE top \in s
        <5>1. Max(s) = top
          BY <2>3, <4>1, <4>2
        <5>2. G[s \ {top}] = F[s \ {top}]
          OBVIOUS
        <5>3. G[s] = Climb(F[s \ {top}], branch[top])
          BY <4>2
        <5> QED
          BY <3>2, <5>1, <5>2, <5>3
      <4>3. CASE top \notin s
        <5>1. s \in SUBSET (1 .. k) /\ top \notin s \ {Max(s)}
          BY <2>3, <4>3
        <5>2. F[s] = Climb(F[s \ {Max(s)}], branch[Max(s)])
          BY <2>2, <3>2, <5>1
        <5>3. G[s] = F[s] /\ G[s \ {Max(s)}] = F[s \ {Max(s)}]
          BY <4>3, <5>1
        <5> QED
          BY <3>2, <5>2, <5>3
      <4> QED
        BY <4>2, <4>3
    <3> QED
      BY <3>1, <3>2
  <2>6. G = [s \in SUBSET (1 .. top) |-> G[s]]
    OBVIOUS
  <2> HIDE DEF G
  <2>7. ClimbsBy(G, top, x, branch)
    BY <2>5, <2>6 DEF ClimbsBy
  <2> QED
    BY <2>7 DEF top
<1>3. N \in T
  <2> HIDE DEF T
  <2> QED
    BY <1>1, <1>2, SetInduction
<1> QED
  BY <1>3

\* st passes through the nodes from the leaf to the root.
Climbing(st, leaf, index, branch, m) ==
    /\ st[0] = <<leaf, index>>
    /\ \A k \in 1 .. m : st[k] = Climb(st[k - 1], branch[k])
    /\ RootFromBranch(leaf, branch, index) = st[m][1]

LEMMA ClimbRun ==
    ASSUME NEW leaf, NEW index, NEW branch, NEW m \in Nat,
           DOMAIN branch = 1 .. m
    PROVE  \E st : Climbing(st, leaf, index, branch, m)
<1> DEFINE x == <<leaf, index>>
<1>1. PICK H : ClimbsBy(H, m, x, branch)
  BY ClimbExists
<1>2. PICK F : F = CHOOSE G : ClimbsBy(G, m, x, branch)
  OBVIOUS
<1>3. ClimbsBy(F, m, x, branch)
  BY <1>1, <1>2
<1>4. RootFromBranch(leaf, branch, index) = F[1 .. m][1]
  BY <1>2 DEF RootFromBranch, FoldLeft, MapThenFoldSet, ClimbsBy
<1>5. \A s \in SUBSET (1 .. m) :
         F[s] = IF s = {} THEN x ELSE Climb(F[s \ {Max(s)}], branch[Max(s)])
  BY <1>3 DEF ClimbsBy
<1> HIDE DEF x
<1> DEFINE st == [k \in 0 .. m |-> F[1 .. k]]
<1>6. st[0] = x
  <2>1. 1 .. 0 = {} /\ st[0] = F[1 .. 0]
    OBVIOUS
  <2> QED
    BY <1>5, <2>1
<1>7. ASSUME NEW k \in 1 .. m PROVE st[k] = Climb(st[k - 1], branch[k])
  <2>1. 1 .. k \in SUBSET (1 .. m) /\ 1 .. k # {} /\ k \in 1 .. k
    <3>1. k \in Nat /\ 1 <= k /\ k <= m
      OBVIOUS
    <3>2. \A y \in 1 .. k : y \in 1 .. m
      BY <3>1
    <3>3. k \in 1 .. k
      BY <3>1
    <3> HIDE DEF st
    <3> QED
      BY <3>2, <3>3
  <2>2. Max(1 .. k) \in 1 .. k /\ \A y \in 1 .. k : y <= Max(1 .. k)
    BY <2>1, MaxIs
  <2>3. Max(1 .. k) = k
    BY <2>1, <2>2
  <2>4. (1 .. k) \ {k} = 1 .. k - 1
    OBVIOUS
  <2>5. F[1 .. k] = Climb(F[1 .. k - 1], branch[k])
    BY <1>5, <2>1, <2>3, <2>4
  <2>6. st[k] = F[1 .. k] /\ st[k - 1] = F[1 .. k - 1]
    OBVIOUS
  <2> QED
    BY <2>5, <2>6
<1>8. st[m] = F[1 .. m]
  OBVIOUS
<1> HIDE DEF st
<1>9. Climbing(st, leaf, index, branch, m)
  BY <1>4, <1>6, <1>7, <1>8 DEF Climbing, x
<1> QED
  BY <1>9

\* A step up forgets nothing: on whichever side the node was, it can be told
\* from the pair and the other node.
LEMMA ClimbInjective ==
    ASSUME NEW x, NEW y, NEW s, Climb(x, s)[1] = Climb(y, s)[1]
    PROVE  x[1] = y[1]
<1> DEFINE a == x[1]
           b == y[1]
<1>1. Climb(x, s)[1] = <<a, s>> \/ Climb(x, s)[1] = <<s, a>>
  BY DEF Climb
<1>2. Climb(y, s)[1] = <<b, s>> \/ Climb(y, s)[1] = <<s, b>>
  BY DEF Climb
<1> HIDE DEF a, b
<1>3. \A u, v, w, z : <<u, v>> = <<w, z>> => u = w /\ v = z
  OBVIOUS
<1>4. a = b
  BY <1>1, <1>2, <1>3
<1> QED
  BY <1>4 DEF a, b

\* One branch leads from two leaves to one root only if they are the same,
\* wherever they are claimed to stand.
LEMMA SameRootSameLeaf ==
    ASSUME NEW a, NEW i, NEW b, NEW j, NEW branch, NEW m \in Nat,
           DOMAIN branch = 1 .. m,
           RootFromBranch(a, branch, i) = RootFromBranch(b, branch, j)
    PROVE  a = b
<1>1. PICK s : Climbing(s, a, i, branch, m)
  BY ClimbRun
<1>2. PICK t : Climbing(t, b, j, branch, m)
  BY ClimbRun
<1> DEFINE T == {n \in Nat : n <= m => s[m - n][1] = t[m - n][1]}
<1>3. 0 \in T
  <2>1. RootFromBranch(a, branch, i) = s[m][1]
    BY <1>1 DEF Climbing
  <2>2. RootFromBranch(b, branch, j) = t[m][1]
    BY <1>2 DEF Climbing
  <2>3. m - 0 = m
    OBVIOUS
  <2> QED
    BY <2>1, <2>2, <2>3
<1>4. ASSUME NEW n \in Nat, n \in T PROVE n + 1 \in T
  <2> SUFFICES ASSUME n + 1 <= m
               PROVE  s[m - (n + 1)][1] = t[m - (n + 1)][1]
    OBVIOUS
  <2>1. PICK k \in 1 .. m : k = m - n /\ k - 1 = m - (n + 1)
    OBVIOUS
  <2>2. s[k][1] = t[k][1]
    BY <1>4, <2>1
  <2>3. s[k] = Climb(s[k - 1], branch[k]) /\ t[k] = Climb(t[k - 1], branch[k])
    BY <1>1, <1>2 DEF Climbing
  <2>4. s[k - 1][1] = t[k - 1][1]
    BY <2>2, <2>3, ClimbInjective
  <2> QED
    BY <2>1, <2>4
<1>5. m \in T
  <2> HIDE DEF T
  <2> QED
    BY <1>3, <1>4, SetInduction
<1>6. s[0][1] = t[0][1]
  BY <1>5
<1> QED
  BY <1>1, <1>2, <1>6 DEF Climbing
-----------------------------------------------------------------------------
(* Inclusion proofs: the branch of a leaf.                                 *)

HalvesTo(idx, index, N) ==
    idx = [k \in 1 .. N |-> IF k = 1 THEN index ELSE Half(idx[k - 1])]

LEMMA HalvesExist ==
    ASSUME NEW index, NEW N \in Nat
    PROVE  \E idx : HalvesTo(idx, index, N)
<1> DEFINE T == {n \in Nat : \E idx : HalvesTo(idx, index, n)}
<1>1. 0 \in T
  <2> DEFINE g == [n \in 1 .. 0 |-> index]
  <2>1. g = [k \in 1 .. 0 |-> IF k = 1 THEN index ELSE Half(g[k - 1])]
    OBVIOUS
  <2> HIDE DEF g
  <2>2. HalvesTo(g, index, 0)
    BY <2>1 DEF HalvesTo
  <2> QED
    BY <2>2
<1>2. ASSUME NEW k \in Nat, k \in T PROVE k + 1 \in T
  <2>1. PICK f : HalvesTo(f, index, k)
    BY <1>2
  <2> DEFINE g == [n \in 1 .. k + 1 |->
                      IF n = 1 THEN index
                      ELSE IF n = k + 1 THEN Half(f[k]) ELSE f[n]]
  <2>2. ASSUME NEW n \in 1 .. k PROVE g[n] = f[n]
    <3>1. f[n] = IF n = 1 THEN index ELSE Half(f[n - 1])
      BY <2>1 DEF HalvesTo
    <3>2. n # k + 1 /\ n \in 1 .. k + 1
      OBVIOUS
    <3> QED
      BY <3>1, <3>2
  <2>3. ASSUME NEW n \in 1 .. k + 1
        PROVE  g[n] = IF n = 1 THEN index ELSE Half(g[n - 1])
    <3>1. CASE n = 1
      BY <3>1
    <3>2. CASE n # 1
      <4>1. n - 1 \in 1 .. k
        BY <3>2
      <4>2. g[n - 1] = f[n - 1]
        BY <2>2, <4>1
      <4>3. CASE n = k + 1
        <5>1. n - 1 = k /\ g[n] = Half(f[k])
          BY <3>2, <4>3
        <5> QED
          BY <3>2, <4>2, <5>1
      <4>4. CASE n # k + 1
        <5>1. n \in 1 .. k
          BY <4>4
        <5>2. f[n] = Half(f[n - 1])
          BY <2>1, <3>2, <5>1 DEF HalvesTo
        <5> QED
          BY <2>2, <3>2, <4>2, <5>1, <5>2
      <4> QED
        BY <4>3, <4>4
    <3> QED
      BY <3>1, <3>2
  <2>4. g = [n \in 1 .. k + 1 |-> g[n]]
    OBVIOUS
  <2> HIDE DEF g
  <2>5. HalvesTo(g, index, k + 1)
    BY <2>3, <2>4 DEF HalvesTo
  <2> QED
    BY <2>5
<1>3. N \in T
  <2> HIDE DEF T
  <2> QED
    BY <1>1, <1>2, SetInduction
<1> QED
  BY <1>3
\* i is a position of node in level t[k] on the way from position index.
OnTheWay(t, idx, index) ==
    /\ idx[1] = index
    /\ \A k \in 1 .. Len(t) - 1 : idx[k + 1] = Half(idx[k])

\* branch holds, for each level but the last, the sibling of the node on the
\* way.
Besides(branch, t, idx) ==
    /\ DOMAIN branch = 1 .. Len(t) - 1
    /\ \A k \in 1 .. Len(t) - 1 : branch[k] = Even(t[k])[Sibling(idx[k]) + 1]

LEMMA BranchIs ==
    ASSUME NEW leaves, NEW index, Tree(Levels(leaves), leaves)
    PROVE  \E idx : /\ OnTheWay(Levels(leaves), idx, index)
                    /\ Besides(BranchFor(leaves, index), Levels(leaves), idx)
<1> DEFINE t == Levels(leaves)
           N == Len(t)
<1>1. N \in Nat \ {0}
  BY DEF Tree
<1>2. PICK f : f = CHOOSE g : HalvesTo(g, index, N)
  OBVIOUS
<1>3. BranchFor(leaves, index) =
         [k \in 1 .. N - 1 |-> Even(t[k])[Sibling(f[k]) + 1]]
  BY <1>2 DEF BranchFor, HalvesTo
<1>9. Besides(BranchFor(leaves, index), t, f)
  BY <1>3 DEF Besides
<1> HIDE DEF N
<1>4. PICK h : HalvesTo(h, index, N)
  BY <1>1, HalvesExist
<1>5. HalvesTo(f, index, N)
  BY <1>2, <1>4
<1>6. f[1] = index
  BY <1>1, <1>5 DEF HalvesTo
<1>7. ASSUME NEW k \in 1 .. N - 1 PROVE f[k + 1] = Half(f[k])
  <2>1. k + 1 \in 1 .. N /\ k + 1 # 1 /\ (k + 1) - 1 = k
    BY <1>1
  <2> QED
    BY <1>5, <2>1 DEF HalvesTo
<1>8. OnTheWay(t, f, index)
  BY <1>6, <1>7 DEF OnTheWay, N
<1> QED
  BY <1>8, <1>9

\* The position stays inside the level and its sibling inside the level
\* made even.
LEMMA WayInside ==
    ASSUME NEW leaves, NEW t, Tree(t, leaves), NEW idx,
           NEW index \in 0 .. Len(leaves) - 1, OnTheWay(t, idx, index)
    PROVE  \A k \in 1 .. Len(t) : idx[k] \in 0 .. Len(t[k]) - 1
<1> DEFINE m == Len(t)
           T == {n \in Nat : n + 1 <= m => idx[n + 1] \in 0 .. Len(t[n + 1]) - 1}
<1>1. m \in Nat \ {0}
  BY DEF Tree
<1> HIDE DEF m
<1>2. 0 \in T
  <2>1. idx[1] \in 0 .. Len(t[1]) - 1 /\ 0 + 1 = 1
    BY DEF OnTheWay, Tree
  <2> QED
    BY <2>1
<1>3. ASSUME NEW n \in Nat, n \in T PROVE n + 1 \in T
  <2> SUFFICES ASSUME (n + 1) + 1 <= m
               PROVE  idx[(n + 1) + 1] \in 0 .. Len(t[(n + 1) + 1]) - 1
    OBVIOUS
  <2>1. PICK k \in 1 .. m - 1 : k = n + 1
    BY <1>1
  <2>2. idx[k] \in 0 .. Len(t[k]) - 1
    BY <1>1, <1>3, <2>1
  <2>3. idx[k + 1] = Half(idx[k])
    BY DEF OnTheWay, m
  <2>4. Level(t[k]) /\ t[k + 1] = Parents(t[k])
    BY <1>1 DEF Tree, m
  <2>5. PICK l \in Nat \ {0} : l = Len(t[k])
    BY <2>4 DEF Level
  <2>6. Len(t[k + 1]) = (l + 1) \div 2
    BY <2>4, <2>5, ParentsFacts
  <2>7. PICK j \in 0 .. l - 1 : j = idx[k]
    BY <2>2, <2>5
  <2>8. Half(j) = j \div 2
    BY <2>7 DEF Half
  <2>9. j \div 2 \in 0 .. ((l + 1) \div 2) - 1
    <3>1. PICK q \in Nat : q = j \div 2 /\ 2 * q <= j
      BY <2>7
    <3>2. PICK p \in Nat : p = (l + 1) \div 2 /\ l <= 2 * p
      <4>1. PICK p : p = (l + 1) \div 2
        OBVIOUS
      <4>2. p \in Nat /\ l <= 2 * p
        <5>1. p = (l + 1) \div 2 /\ l \in Nat /\ l # 0
          BY <4>1
        <5> HIDE DEF m, T
        <5> QED
          BY <5>1
      <4> QED
        BY <4>1, <4>2
    <3>3. 2 * q < 2 * p
      BY <2>7, <3>1, <3>2
    <3>4. q \in 0 .. p - 1
      BY <3>1, <3>2, <3>3
    <3> QED
      BY <3>1, <3>2, <3>4
  <2>10. idx[k + 1] \in 0 .. Len(t[k + 1]) - 1
    BY <2>3, <2>6, <2>7, <2>8, <2>9
  <2> QED
    BY <2>1, <2>10
<1>4. ASSUME NEW k \in 1 .. m PROVE idx[k] \in 0 .. Len(t[k]) - 1
  <2>1. PICK n \in Nat : k = n + 1
    BY <1>1
  <2>2. n \in T
    <3> HIDE DEF T
    <3> QED
      BY <1>2, <1>3, SetInduction
  <2> QED
    BY <2>1, <2>2
<1> QED
  BY <1>4 DEF m

\* With its sibling a node makes its parent, on its own side.
LEMMA ClimbsToParent ==
    ASSUME NEW l, Level(l), NEW j \in 0 .. Len(l) - 1
    PROVE  /\ Climb(<<l[j + 1], j>>, Even(l)[Sibling(j) + 1]) =
                 <<Parents(l)[Half(j) + 1], Half(j)>>
           /\ Sibling(j) + 1 \in 1 .. Len(Even(l))
<1>1. PICK n \in Nat \ {0} : n = Len(l)
  BY DEF Level
<1>2. /\ Len(Even(l)) = IF n % 2 = 1 THEN n + 1 ELSE n
      /\ \A i \in 1 .. n : Even(l)[i] = l[i]
  BY <1>1, EvenFacts
<1>3. /\ Len(Parents(l)) = (n + 1) \div 2
      /\ \A i \in 1 .. Len(Parents(l)) :
            Parents(l)[i] = <<Even(l)[2 * i - 1], Even(l)[2 * i]>>
  BY <1>1, ParentsFacts
<1>4. j \in 0 .. n - 1 /\ j \in Nat
  BY <1>1
<1>5. Half(j) = j \div 2
  BY <1>4 DEF Half
<1>6. j \div 2 + 1 \in 1 .. (n + 1) \div 2
  BY <1>1, <1>4
<1>7. Parents(l)[j \div 2 + 1] =
         <<Even(l)[2 * (j \div 2 + 1) - 1], Even(l)[2 * (j \div 2 + 1)]>>
  BY <1>3, <1>6
<1>8. Even(l)[j + 1] = l[j + 1]
  <2>1. j + 1 \in 1 .. n
    BY <1>1, <1>4
  <2> QED
    BY <1>2, <2>1
<1> DEFINE x == <<l[j + 1], j>>
           sib == Even(l)[Sibling(j) + 1]
<1>9. Climb(x, sib) = <<IF j % 2 = 0 THEN <<l[j + 1], sib>> ELSE <<sib, l[j + 1]>>,
                        Half(j)>>
  BY DEF Climb
<1>10. CASE j % 2 = 0
  <2>1. Sibling(j) = j + 1
    BY <1>10 DEF Sibling
  <2>2. 2 * (j \div 2 + 1) - 1 = j + 1 /\ 2 * (j \div 2 + 1) = (j + 1) + 1
    BY <1>4, <1>10
  <2>3. Parents(l)[j \div 2 + 1] = <<l[j + 1], sib>>
    BY <1>7, <1>8, <2>1, <2>2
  <2>4. (j + 1) + 1 \in 1 .. (IF n % 2 = 1 THEN n + 1 ELSE n)
    BY <1>1, <1>4, <1>10
  <2> QED
    BY <1>2, <1>5, <1>9, <1>10, <2>1, <2>3, <2>4
<1>11. CASE j % 2 # 0
  <2>1. Sibling(j) = j - 1
    BY <1>11 DEF Sibling
  <2>2. 2 * (j \div 2 + 1) - 1 = (j - 1) + 1 /\ 2 * (j \div 2 + 1) = j + 1
    BY <1>4, <1>11
  <2>3. Parents(l)[j \div 2 + 1] = <<sib, l[j + 1]>>
    BY <1>7, <1>8, <2>1, <2>2
  <2>4. (j - 1) + 1 \in 1 .. (IF n % 2 = 1 THEN n + 1 ELSE n)
    BY <1>1, <1>4, <1>11
  <2> QED
    BY <1>2, <1>5, <1>9, <1>11, <2>1, <2>3, <2>4
<1> QED
  BY <1>10, <1>11

\* The way from a transaction of the block passes through its nodes in all
\* levels and ends at the root.
LEMMA RootReached ==
    ASSUME NEW leaves, Level(leaves), NEW index \in 0 .. Len(leaves) - 1
    PROVE  RootFromBranch(leaves[index + 1], BranchFor(leaves, index), index)
              = MerkleRoot(leaves)
<1> DEFINE t == Levels(leaves)
           branch == BranchFor(leaves, index)
<1>1. Tree(t, leaves) /\ Len(Last(t)) = 1
  BY LevelsTree
<1>2. PICK idx : OnTheWay(t, idx, index) /\ Besides(branch, t, idx)
  BY <1>1, BranchIs
<1>3. MerkleRoot(leaves) = Last(t)[1]
  <2>1. leaves # <<>>
    BY DEF Level
  <2> QED
    BY <2>1 DEF MerkleRoot
<1> HIDE DEF t, branch
<1>4. \A k \in 1 .. Len(t) : idx[k] \in 0 .. Len(t[k]) - 1
  BY <1>1, <1>2, WayInside
<1>5. PICK n \in Nat : Len(t) = n + 1 /\ n = Len(t) - 1
  <2>1. Len(t) \in Nat \ {0}
    BY <1>1 DEF Tree
  <2> QED
    BY <2>1
<1>6. DOMAIN branch = 1 .. n
  BY <1>2, <1>5 DEF Besides
<1>7. PICK st : Climbing(st, leaves[index + 1], index, branch, n)
  BY <1>6, ClimbRun
<1> DEFINE Reaches(k) == st[k] = <<t[k + 1][idx[k + 1] + 1], idx[k + 1]>>
           T == {k \in Nat : k <= n => Reaches(k)}
<1>8. 0 \in T
  <2>1. t[1] = leaves /\ idx[1] = index /\ 0 + 1 = 1
    BY <1>1, <1>2 DEF Tree, OnTheWay
  <2>2. st[0] = <<leaves[index + 1], index>>
    BY <1>7 DEF Climbing
  <2> QED
    BY <2>1, <2>2
<1>9. ASSUME NEW p \in Nat, p \in T PROVE p + 1 \in T
  <2> SUFFICES ASSUME p + 1 <= n PROVE Reaches(p + 1)
    OBVIOUS
  <2>1. PICK k \in 1 .. n : k = p + 1 /\ k - 1 = p
    OBVIOUS
  <2>2. k \in 1 .. Len(t) /\ k \in 1 .. Len(t) - 1
    BY <1>5
  <2>3. PICK j : j = idx[k]
    OBVIOUS
  <2>4. j \in 0 .. Len(t[k]) - 1
    BY <1>4, <2>2, <2>3
  <2>5. Level(t[k]) /\ t[k + 1] = Parents(t[k])
    BY <1>1, <2>2 DEF Tree
  <2>6. idx[k + 1] = Half(j)
    BY <1>2, <2>2, <2>3 DEF OnTheWay
  <2>7. branch[k] = Even(t[k])[Sibling(j) + 1]
    BY <1>2, <2>2, <2>3 DEF Besides
  <2>8. st[k - 1] = <<t[k][j + 1], j>>
    <3>1. Reaches(p)
      BY <1>9
    <3> QED
      BY <2>1, <2>3, <3>1
  <2>9. st[k] = Climb(st[k - 1], branch[k])
    BY <1>7 DEF Climbing
  <2>10. st[k] = <<Parents(t[k])[Half(j) + 1], Half(j)>>
    BY <2>4, <2>5, <2>7, <2>8, <2>9, ClimbsToParent
  <2>11. st[k] = <<t[k + 1][idx[k + 1] + 1], idx[k + 1]>>
    BY <2>5, <2>6, <2>10
  <2> QED
    BY <2>1, <2>11
<1>10. n \in T
  <2> HIDE DEF T
  <2> QED
    BY <1>8, <1>9, SetInduction
<1>11. st[n][1] = t[n + 1][idx[n + 1] + 1]
  <2>1. Reaches(n)
    BY <1>10
  <2> QED
    BY <2>1
<1>12. Last(t) = t[n + 1]
  BY <1>5 DEF Last
<1>13. idx[n + 1] = 0
  <2>1. n + 1 \in 1 .. Len(t)
    BY <1>5
  <2>2. idx[n + 1] \in 0 .. Len(t[n + 1]) - 1
    BY <1>4, <2>1
  <2>3. Len(t[n + 1]) = 1
    BY <1>1, <1>12
  <2> QED
    BY <2>2, <2>3
<1>14. RootFromBranch(leaves[index + 1], branch, index) = st[n][1]
  BY <1>7 DEF Climbing
<1>15. st[n][1] = Last(t)[1]
  BY <1>11, <1>12, <1>13
<1> QED
  BY <1>3, <1>14, <1>15 DEF branch

\* Making a level even adds no node to it.
LEMMA EvenIn ==
    ASSUME NEW S, NEW l \in Seq(S), Len(l) \in Nat \ {0}
    PROVE  \A i \in 1 .. Len(Even(l)) : Even(l)[i] \in S
<1>1. Last(l) \in S
  BY DEF Last
<1>2. Append(l, Last(l)) \in Seq(S)
  BY <1>1
<1>3. Even(l) \in Seq(S)
  BY <1>2 DEF Even
<1> QED
  BY <1>3

\* The text form can only be misread if the branch is one empty text: the
\* only hash of such a branch is a transaction id.
LEMMA BranchNotEmptyText ==
    ASSUME NEW leaves \in Seq(TxIDs), leaves # <<>>,
           NEW index \in 0 .. Len(leaves) - 1
    PROVE  DOMAIN BranchFor(leaves, index) # {} =>
              BranchFor(leaves, index)[1] \in TxIDs
<1> DEFINE t == Levels(leaves)
           branch == BranchFor(leaves, index)
           X == TxIDs
<1> HIDE DEF X
<1>0. leaves \in Seq(X)
  BY DEF X
<1>1. Len(leaves) \in Nat \ {0} /\ Level(leaves)
  BY <1>0 DEF Level
<1>2. Tree(t, leaves)
  BY <1>1, LevelsTree
<1>3. PICK idx : OnTheWay(t, idx, index) /\ Besides(branch, t, idx)
  BY <1>2, BranchIs
<1> HIDE DEF t, branch
<1> SUFFICES ASSUME DOMAIN branch # {} PROVE branch[1] \in X
  BY DEF branch, X
<1>4. 1 \in 1 .. Len(t) - 1
  <2>1. DOMAIN branch = 1 .. Len(t) - 1 /\ Len(t) \in Nat \ {0}
    BY <1>2, <1>3 DEF Tree, Besides
  <2>2. PICK d : d \in 1 .. Len(t) - 1
    BY <2>1
  <2> QED
    BY <2>1, <2>2
<1>5. branch[1] = Even(leaves)[Sibling(index) + 1]
  <2>1. t[1] = leaves /\ idx[1] = index
    BY <1>2, <1>3 DEF Tree, OnTheWay
  <2> QED
    BY <1>3, <1>4, <2>1 DEF Besides
<1>6. Sibling(index) + 1 \in 1 .. Len(Even(leaves))
  BY <1>1, ClimbsToParent
<1> QED
  BY <1>0, <1>1, <1>5, <1>6, EvenIn

\* What a builder returns for a transaction of the block proves it, survives
\* its text form, and proves nothing else.
LEMMA ProvesAlways ==
    ASSUME NEW leaves \in Seq(TxIDs), NEW index, NEW others, NEW claims
    PROVE  ProvesExactly(leaves, index, others, claims)
<1> DEFINE b == BuildBURI("block", leaves, index)
<1>1. CASE index \notin 0 .. Len(leaves) - 1
  BY <1>1 DEF ProvesExactly, BuildBURI
<1>2. CASE index \in 0 .. Len(leaves) - 1
  <2> DEFINE branch == BranchFor(leaves, index)
             tx == leaves[index + 1]
             root == MerkleRoot(leaves)
  <2>0. leaves # <<>> /\ Level(leaves)
    <3> DEFINE X == TxIDs
    <3> HIDE DEF X
    <3>1. leaves \in Seq(X)
      BY DEF X
    <3>2. Len(leaves) \in Nat
      BY <3>1
    <3>3. Len(leaves) # 0
      BY <1>2, <3>2
    <3>4. leaves # <<>>
      BY <3>3
    <3> QED
      BY <3>1, <3>2, <3>3, <3>4 DEF Level
  <2>1. b = [block |-> "block", tx |-> tx, index |-> index, branch |-> branch]
    BY <1>2 DEF BuildBURI
  <2>2. RootFromBranch(tx, branch, index) = root
    BY <1>2, <2>0, RootReached
  <2>3. branch # <<EmptyText>>
    <3>1. DOMAIN branch # {} => branch[1] \in TxIDs
      BY <1>2, <2>0, BranchNotEmptyText
    <3>2. EmptyText \notin TxIDs
      BY CallerAssumption
    <3>3. \A e : DOMAIN <<e>> # {} /\ <<e>>[1] = e
      OBVIOUS
    <3> HIDE DEF branch
    <3> QED
      BY <3>1, <3>2, <3>3
  <2>4. PICK m \in Nat : DOMAIN branch = 1 .. m
    <3>1. Tree(Levels(leaves), leaves)
      BY <2>0, LevelsTree
    <3>2. DOMAIN branch = 1 .. Len(Levels(leaves)) - 1
      BY <3>1, BranchIs DEF Besides
    <3>3. Len(Levels(leaves)) - 1 \in Nat
      BY <3>1 DEF Tree
    <3> QED
      BY <3>2, <3>3
  <2> HIDE DEF branch, root, tx, b
  <2>5. ParseBURI(BuriText(b)) = b
    <3> DEFINE text == IF branch = <<>> THEN <<EmptyText>> ELSE branch
    <3>1. BuriText(b) = <<"block", tx, index, text>>
      BY <2>1 DEF BuriText
    <3>2. (IF text = <<EmptyText>> THEN <<>> ELSE text) = branch
      BY <2>3
    <3> HIDE DEF text
    <3>3. ParseBURI(<<"block", tx, index, text>>) =
             [block |-> "block", tx |-> tx, index |-> index,
              branch |-> IF text = <<EmptyText>> THEN <<>> ELSE text]
      BY DEF ParseBURI
    <3> QED
      BY <2>1, <3>1, <3>2, <3>3
  <2>6. Verify(b, root)
    BY <2>1, <2>2 DEF Verify
  <2>7. ASSUME NEW y \in others \ {b.tx}, NEW i \in claims
        PROVE  ~Verify([b EXCEPT !.tx = y, !.index = i], root)
    <3>1. y # tx
      BY <2>1
    <3>2. [b EXCEPT !.tx = y, !.index = i] =
             [block |-> "block", tx |-> y, index |-> i, branch |-> branch]
      <4>1. PICK c : c = [b EXCEPT !.tx = y]
        OBVIOUS
      <4>2. c = [block |-> "block", tx |-> y, index |-> index, branch |-> branch]
        BY <2>1, <4>1
      <4>3. [c EXCEPT !.index = i] =
               [block |-> "block", tx |-> y, index |-> i, branch |-> branch]
        BY <4>2
      <4>4. [b EXCEPT !.tx = y, !.index = i] = [c EXCEPT !.index = i]
        BY <4>1, Zenon
      <4> QED
        BY <4>3, <4>4
    <3>3. RootFromBranch(y, branch, i) # root
      BY <2>2, <2>4, <3>1, SameRootSameLeaf
    <3> QED
      BY <3>2, <3>3 DEF Verify
  <2> QED
    BY <1>2, <2>5, <2>6, <2>7 DEF ProvesExactly, b, root
<1> QED
  BY <1>1, <1>2

\* The proof built for a transaction of any block, of any size, survives its
\* text form and verifies against the header of the block; there is none for
\* a position outside it; and its hashes prove no other transaction, at
\* whatever position it is claimed (spv.go:44-85, 93-147).
THEOREM InclusionTheorem == Spec => []InclusionExact
<1>1. InputInv => InclusionExact
  <2> SUFFICES ASSUME InputInv, input.call = "prove"
               PROVE  ProvesExactly(input.leaves, input.index, TxIDs, Indexes)
    BY DEF InclusionExact
  <2>1. input.leaves \in Seq(TxIDs)
    BY CallerAssumption DEF InputInv
  <2> QED
    BY <2>1, ProvesAlways
<1> QED
  BY <1>1, LibrariesInvariant, PTL
-----------------------------------------------------------------------------
(* Envelopes: the operations of the scripts one by one.                    *)

Pushed(d) == [op |-> IF d = <<>> THEN "FALSE" ELSE "PUSH", data |-> d]
Coded(op) == [op |-> op, data |-> <<>>]
OpName == {"FALSE", "PUSH", "IF", "ENDIF", "DROP", "DUP", "HASH160",
           "EQUALVERIFY", "CHECKSIG"}
Operation == [op : OpName, data : Octets]
Scripts == Seq(Operation)

\* The end of both carriers, and the whole of the change output.
PaysTo(s, n, k) ==
    /\ Len(s) = n + 5
    /\ s[n + 1] = Coded("DUP") /\ s[n + 2] = Coded("HASH160")
    /\ s[n + 3] = Pushed(k)
    /\ s[n + 4] = Coded("EQUALVERIFY") /\ s[n + 5] = Coded("CHECKSIG")

LEMMA OneOperation ==
    /\ \A op : OpCode(op) = <<Coded(op)>>
    /\ \A d : Push(d) = <<Pushed(d)>>
  BY DEF OpCode, Push, Coded, Pushed

LEMMA Operations ==
    /\ \A op \in OpName : Coded(op) \in Operation
    /\ \A d \in Octets : Pushed(d) \in Operation
<1>1. <<>> \in Octets
  BY DEF Octets
<1>2. ASSUME NEW op \in OpName PROVE Coded(op) \in Operation
  <2>1. [op |-> op, data |-> <<>>] \in [op : OpName, data : Octets]
    BY <1>1
  <2> QED
    BY <2>1 DEF Coded, Operation
<1>3. ASSUME NEW d \in Octets PROVE Pushed(d) \in Operation
  <2>1. PICK op : op = IF d = <<>> THEN "FALSE" ELSE "PUSH"
    OBVIOUS
  <2>2. op \in OpName
    BY <2>1 DEF OpName
  <2>3. [op |-> op, data |-> d] \in [op : OpName, data : Octets]
    BY <2>2
  <2> QED
    BY <2>1, <2>3 DEF Pushed, Operation
<1> QED
  BY <1>2, <1>3

\* t is x and, behind it, y.
Behind(t, x, y) ==
    /\ t \in Scripts /\ Len(t) = Len(x) + Len(y)
    /\ \A i \in 1 .. Len(x) : t[i] = x[i]
    /\ \A i \in 1 .. Len(y) : t[Len(x) + i] = y[i]

LEMMA JoinScripts ==
    ASSUME NEW x \in Scripts, NEW y \in Scripts
    PROVE  Behind(Join(x, y), x, y)
<1>1. /\ x \in Seq(Operation) /\ y \in Seq(Operation)
      /\ Len(x) \in Nat /\ Len(y) \in Nat
  BY DEF Scripts
<1>2. /\ x \o y \in Seq(Operation) /\ Len(x \o y) = Len(x) + Len(y)
      /\ \A i \in 1 .. Len(x) + Len(y) : (x \o y)[i] =
            IF i <= Len(x) THEN x[i] ELSE y[i - Len(x)]
  BY <1>1, ConcatProperties
<1>3. ASSUME NEW i \in 1 .. Len(y) PROVE (x \o y)[Len(x) + i] = y[i]
  <2>1. /\ Len(x) + i \in 1 .. Len(x) + Len(y) /\ ~(Len(x) + i <= Len(x))
        /\ (Len(x) + i) - Len(x) = i
    BY <1>1
  <2> QED
    BY <1>2, <2>1
<1> QED
  BY <1>1, <1>2, <1>3 DEF Join, Scripts, Behind

\* One operation more at the end.
OneMore(s, e) == s \o <<e>>
Longer(t, s, e) ==
    /\ t \in Scripts /\ Len(t) = Len(s) + 1 /\ t[Len(s) + 1] = e
    /\ \A i \in 1 .. Len(s) : t[i] = s[i]

LEMMA OneMoreFacts ==
    ASSUME NEW s \in Scripts, NEW e \in Operation
    PROVE  Longer(OneMore(s, e), s, e)
<1> DEFINE y == <<e>>
<1>1. y \in Scripts /\ Len(y) = 1 /\ y[1] = e /\ 1 \in 1 .. Len(y)
  BY DEF Scripts
<1> HIDE DEF y
<1>2. /\ Join(s, y) \in Scripts /\ Len(Join(s, y)) = Len(s) + 1
      /\ \A i \in 1 .. Len(s) : Join(s, y)[i] = s[i]
      /\ Join(s, y)[Len(s) + 1] = y[1]
  <2>1. Behind(Join(s, y), s, y)
    BY <1>1, JoinScripts
  <2> QED
    BY <1>1, <2>1 DEF Behind
<1>3. OneMore(s, e) = Join(s, y)
  BY DEF OneMore, Join, y
<1>4. y[1] = e
  BY DEF y
<1> QED
  BY <1>2, <1>3, <1>4 DEF Longer

LEMMA FirstOperation ==
    ASSUME NEW e \in Operation
    PROVE  <<e>> \in Scripts /\ Len(<<e>>) = 1 /\ <<e>>[1] = e
  BY DEF Scripts

LEMMA PayToKeyIs ==
    ASSUME NEW k \in Octets
    PROVE  PayToKey(k) \in Scripts /\ PaysTo(PayToKey(k), 0, k)
<1>1. PICK a, b, c, d, e :
         /\ a = Coded("DUP") /\ b = Coded("HASH160") /\ c = Pushed(k)
         /\ d = Coded("EQUALVERIFY") /\ e = Coded("CHECKSIG")
  OBVIOUS
<1>2. /\ a \in Operation /\ b \in Operation /\ c \in Operation
      /\ d \in Operation /\ e \in Operation
  BY <1>1, Operations DEF OpName
<1>3. PICK s1 : s1 = <<a>>
  OBVIOUS
<1>4. PICK s2 : s2 = OneMore(s1, b)
  OBVIOUS
<1>5. PICK s3 : s3 = OneMore(s2, c)
  OBVIOUS
<1>6. PICK s4 : s4 = OneMore(s3, d)
  OBVIOUS
<1>7. PICK s5 : s5 = OneMore(s4, e)
  OBVIOUS
<1>8. PayToKey(k) = s5
  BY <1>1, <1>3, <1>4, <1>5, <1>6, <1>7, OneOperation DEF PayToKey, OneMore
<1>9. s1 \in Scripts /\ Len(s1) = 1 /\ s1[1] = a
  BY <1>2, <1>3, FirstOperation
<1>10. /\ s2 \in Scripts /\ Len(s2) = 2
       /\ s2[1] = a /\ s2[2] = b
  <2>1. Longer(s2, s1, b)
    BY <1>2, <1>4, <1>9, OneMoreFacts
  <2> QED
    BY <1>2, <1>4, <1>9, <2>1 DEF Longer
<1>11. /\ s3 \in Scripts /\ Len(s3) = 3
       /\ s3[1] = a /\ s3[2] = b /\ s3[3] = c
  <2>1. Longer(s3, s2, c)
    BY <1>2, <1>5, <1>10, OneMoreFacts
  <2> QED
    BY <1>2, <1>5, <1>10, <2>1 DEF Longer
<1>12. /\ s4 \in Scripts /\ Len(s4) = 4
       /\ s4[1] = a /\ s4[2] = b /\ s4[3] = c /\ s4[4] = d
  <2>1. Longer(s4, s3, d)
    BY <1>2, <1>6, <1>11, OneMoreFacts
  <2> QED
    BY <1>2, <1>6, <1>11, <2>1 DEF Longer
<1>13. /\ s5 \in Scripts /\ Len(s5) = 5
       /\ s5[1] = a /\ s5[2] = b /\ s5[3] = c /\ s5[4] = d /\ s5[5] = e
  <2>1. Longer(s5, s4, e)
    BY <1>2, <1>7, <1>12, OneMoreFacts
  <2> QED
    BY <1>2, <1>7, <1>12, <2>1 DEF Longer
<1> QED
  BY <1>1, <1>8, <1>13 DEF PaysTo

\* Four operations in a row.
Four(a, b, c, d) == OneMore(OneMore(OneMore(<<a>>, b), c), d)

LEMMA FourOperations ==
    ASSUME NEW a \in Operation, NEW b \in Operation, NEW c \in Operation,
           NEW d \in Operation, NEW s, s = Four(a, b, c, d)
    PROVE  /\ s \in Scripts /\ Len(s) = 4
           /\ s[1] = a /\ s[2] = b /\ s[3] = c /\ s[4] = d
<1>1. PICK s1 : s1 = <<a>>
  OBVIOUS
<1>2. PICK s2 : s2 = OneMore(s1, b)
  OBVIOUS
<1>3. PICK s3 : s3 = OneMore(s2, c)
  OBVIOUS
<1>4. s = OneMore(s3, d)
  BY <1>1, <1>2, <1>3 DEF Four
<1>5. s1 \in Scripts /\ Len(s1) = 1 /\ s1[1] = a
  BY <1>1, FirstOperation
<1>6. /\ s2 \in Scripts /\ Len(s2) = 2
      /\ s2[1] = a /\ s2[2] = b
  <2>1. Longer(s2, s1, b)
    BY <1>2, <1>5, OneMoreFacts
  <2> QED
    BY <1>2, <1>5, <2>1 DEF Longer
<1>7. /\ s3 \in Scripts /\ Len(s3) = 3
      /\ s3[1] = a /\ s3[2] = b /\ s3[3] = c
  <2>1. Longer(s3, s2, c)
    BY <1>3, <1>6, OneMoreFacts
  <2> QED
    BY <1>3, <1>6, <2>1 DEF Longer
<1>8. /\ s \in Scripts /\ Len(s) = 4
      /\ s[1] = a /\ s[2] = b /\ s[3] = c /\ s[4] = d
  <2>1. Longer(s, s3, d)
    BY <1>4, <1>7, OneMoreFacts
  <2> QED
    BY <1>4, <1>7, <2>1 DEF Longer
<1> QED
  BY <1>8

\* A script that ends as PayToKey does.
Begins(s, x) == \A i \in 1 .. Len(x) : s[i] = x[i]
Ends(s, x, n, k) == s \in Scripts /\ PaysTo(s, n, k) /\ Begins(s, x)

LEMMA ThenPays ==
    ASSUME NEW x \in Scripts, NEW k \in Octets
    PROVE  Ends(Join(x, PayToKey(k)), x, Len(x), k)
<1>0. PICK s, n : s = Join(x, PayToKey(k)) /\ n = Len(x)
  OBVIOUS
<1>1. PICK y : y = PayToKey(k)
  OBVIOUS
<1>2. y \in Scripts /\ PaysTo(y, 0, k)
  BY <1>1, PayToKeyIs
<1>3. /\ Len(y) = 5 /\ y[1] = Coded("DUP") /\ y[2] = Coded("HASH160")
      /\ y[3] = Pushed(k) /\ y[4] = Coded("EQUALVERIFY")
      /\ y[5] = Coded("CHECKSIG")
  BY <1>2 DEF PaysTo
<1>4. /\ s \in Scripts /\ Len(s) = n + 5 /\ Begins(s, x)
      /\ \A i \in 1 .. 5 : s[n + i] = y[i]
  <2>1. s = Join(x, y)
    BY <1>0, <1>1
  <2>2. Behind(s, x, y)
    BY <1>2, <2>1, JoinScripts
  <2> QED
    BY <1>0, <1>3, <2>2 DEF Behind, Begins
<1>5. /\ s[n + 1] = y[1] /\ s[n + 2] = y[2] /\ s[n + 3] = y[3]
      /\ s[n + 4] = y[4] /\ s[n + 5] = y[5]
  BY <1>4
<1> QED
  BY <1>0, <1>3, <1>4, <1>5 DEF PaysTo, Ends

LEMMA EnvelopeIfIs ==
    ASSUME NEW d \in Octets, NEW k \in Octets, Len(k) = PkhLen,
           NEW s, s = BuildEnvelopeIf(d, k)
    PROVE  /\ s \in Scripts /\ PaysTo(s, 4, k)
           /\ s[1] = Coded("FALSE") /\ s[2] = Coded("IF")
           /\ s[3] = Pushed(d) /\ s[4] = Coded("ENDIF")
<1>1. PICK a, b, c, e :
         /\ a = Coded("FALSE") /\ b = Coded("IF") /\ c = Pushed(d)
         /\ e = Coded("ENDIF")
  OBVIOUS
<1>2. PICK x : x = Four(a, b, c, e)
  OBVIOUS
<1>3. s = Join(x, PayToKey(k))
  BY <1>1, <1>2, OneOperation DEF BuildEnvelopeIf, Join, Four, OneMore
<1>4. /\ a \in Operation /\ b \in Operation /\ c \in Operation
      /\ e \in Operation
  BY <1>1, Operations DEF OpName
<1>5. /\ x \in Scripts /\ Len(x) = 4
      /\ x[1] = a /\ x[2] = b /\ x[3] = c /\ x[4] = e
  BY <1>2, <1>4, FourOperations
<1>6. s \in Scripts /\ PaysTo(s, 4, k) /\ Begins(s, x)
  <2>1. Ends(s, x, 4, k)
    BY <1>3, <1>5, ThenPays
  <2> QED
    BY <2>1 DEF Ends
<1>7. s[1] = x[1] /\ s[2] = x[2] /\ s[3] = x[3] /\ s[4] = x[4]
  BY <1>5, <1>6 DEF Begins
<1> QED
  BY <1>1, <1>5, <1>6, <1>7

LEMMA EnvelopeDropIs ==
    ASSUME NEW d \in Octets, NEW k \in Octets, Len(k) = PkhLen,
           NEW s, s = BuildEnvelopeDrop(d, k)
    PROVE  /\ s \in Scripts /\ PaysTo(s, 2, k)
           /\ s[1] = Pushed(d) /\ s[2] = Coded("DROP")
<1>1. PICK a, b : a = Pushed(d) /\ b = Coded("DROP")
  OBVIOUS
<1>2. PICK x : x = OneMore(<<a>>, b)
  OBVIOUS
<1>3. s = Join(x, PayToKey(k))
  BY <1>1, <1>2, OneOperation DEF BuildEnvelopeDrop, Join, OneMore
<1>4. a \in Operation /\ b \in Operation
  BY <1>1, Operations DEF OpName
<1>5. x \in Scripts /\ Len(x) = 2 /\ x[1] = a /\ x[2] = b
  <2>1. PICK s1 : s1 = <<a>>
    OBVIOUS
  <2>2. s1 \in Scripts /\ Len(s1) = 1 /\ s1[1] = a
    BY <1>4, <2>1, FirstOperation
  <2>3. Longer(x, s1, b)
    BY <1>2, <1>4, <2>1, <2>2, OneMoreFacts
  <2> QED
    BY <2>2, <2>3 DEF Longer
<1>6. s \in Scripts /\ PaysTo(s, 2, k) /\ Begins(s, x)
  <2>1. Ends(s, x, 2, k)
    BY <1>3, <1>5, ThenPays
  <2> QED
    BY <2>1 DEF Ends
<1>7. s[1] = x[1] /\ s[2] = x[2]
  BY <1>5, <1>6 DEF Begins
<1> QED
  BY <1>1, <1>5, <1>6, <1>7

\* A script of these operations, with an end that pays to a key, can be spent
\* by that key.
LEMMA TailSpendable ==
    ASSUME NEW s, NEW n \in Nat, NEW k, PaysTo(s, n, k), Len(k) = PkhLen,
           DOMAIN s = 1 .. n + 5, \A i \in 1 .. n : s[i].op # "RETURN"
    PROVE  AssertNativeSpendable(s) /\ EnvelopePubKeyHash(s) = k
<1>1. /\ s[n + 1].op = "DUP" /\ s[n + 2].op = "HASH160"
      /\ s[n + 3].op \in {"FALSE", "PUSH"} /\ s[n + 3].data = k
      /\ s[n + 4].op = "EQUALVERIFY" /\ s[n + 5].op = "CHECKSIG"
  BY DEF PaysTo, Coded, Pushed
<1>2. ASSUME NEW i \in DOMAIN s PROVE s[i].op # "RETURN"
  <2>1. \/ i \in 1 .. n \/ i = n + 1 \/ i = n + 2 \/ i = n + 3
        \/ i = n + 4 \/ i = n + 5
    OBVIOUS
  <2> QED
    BY <1>1, <2>1
<1>3. /\ Len(s) = n + 5 /\ Len(s) - 5 + 1 = n + 1 /\ Len(s) - 5 + 2 = n + 2
      /\ Len(s) - 5 + 3 = n + 3 /\ Len(s) - 5 + 4 = n + 4
      /\ Len(s) - 5 + 5 = n + 5 /\ Len(s) - 2 = n + 3 /\ Len(s) >= 5
  BY DEF PaysTo
<1>4. ASSUME NEW ops, DOMAIN ops = 1 .. 5,
             ops[1] \in {"any", "DUP"}, ops[2] \in {"any", "HASH160"},
             ops[3] = "any", ops[4] = "EQUALVERIFY", ops[5] = "CHECKSIG"
      PROVE  EndsWith(s, ops)
  <2>1. ASSUME NEW i \in DOMAIN ops
        PROVE  ops[i] = "any" \/ s[Len(s) - 5 + i].op = ops[i]
    <3>1. i = 1 \/ i = 2 \/ i = 3 \/ i = 4 \/ i = 5
      BY <1>4
    <3>2. CASE i = 1
      BY <1>1, <1>3, <1>4, <3>2
    <3>3. CASE i = 2
      BY <1>1, <1>3, <1>4, <3>3
    <3>4. CASE i = 3
      BY <1>4, <3>4
    <3>5. CASE i = 4
      BY <1>1, <1>3, <1>4, <3>5
    <3>6. CASE i = 5
      BY <1>1, <1>3, <1>4, <3>6
    <3> QED
      BY <3>1, <3>2, <3>3, <3>4, <3>5, <3>6
  <2> QED
    BY <1>3, <2>1 DEF EndsWith
<1>5. EndsWith(s, <<"any", "any", "any", "EQUALVERIFY", "CHECKSIG">>)
  BY <1>4
<1>6. EndsWith(s, <<"DUP", "HASH160", "any", "EQUALVERIFY", "CHECKSIG">>)
  BY <1>4
<1>7. s[Len(s) - 2].data = k
  BY <1>1, <1>3
<1> QED
  BY <1>2, <1>5, <1>6, <1>7 DEF AssertNativeSpendable, EnvelopePubKeyHash

\* Of two outputs of which one carries nothing the reader finds the other, if
\* that carries something.
LEMMA FoundFirst ==
    ASSUME NEW s, NEW c, ExtractEnvelopeData(c) = NotFound
    PROVE  \A outs \in {<<s, c>>, <<c, s>>} :
              FindEnvelope(outs) =
                 IF ExtractEnvelopeData(s) = NotFound THEN NotFound ELSE s
<1> SUFFICES ASSUME NEW outs \in {<<s, c>>, <<c, s>>}
             PROVE  FindEnvelope(outs) =
                      IF ExtractEnvelopeData(s) = NotFound THEN NotFound ELSE s
  OBVIOUS
<1> DEFINE I == {i \in 1 .. Len(outs) : ExtractEnvelopeData(outs[i]) # NotFound}
           at == IF I # {} THEN Min(I) ELSE 0
<1>1. FindEnvelope(outs) = IF at = 0 THEN NotFound ELSE outs[at]
  BY DEF FindEnvelope, SelectInSeq
<1>2. PICK p \in {1, 2} : /\ outs[p] = s /\ outs[3 - p] = c
                          /\ Len(outs) = 2
  <2>1. CASE outs = <<s, c>>
    <3>1. outs[1] = s /\ outs[3 - 1] = c /\ Len(outs) = 2
      BY <2>1
    <3> QED
      BY <3>1
  <2>2. CASE outs = <<c, s>>
    <3>1. outs[2] = s /\ outs[3 - 2] = c /\ Len(outs) = 2
      BY <2>2
    <3> QED
      BY <3>1
  <2> QED
    BY <2>1, <2>2
<1>3. ASSUME NEW i \in 1 .. Len(outs) PROVE i = p \/ i = 3 - p
  BY <1>2
<1>4. I \subseteq {p} /\ (p \in I <=> ExtractEnvelopeData(s) # NotFound)
  <2>1. \A i \in I : i = p
    BY <1>2, <1>3
  <2>2. p \in 1 .. Len(outs)
    BY <1>2
  <2> QED
    BY <1>2, <2>1, <2>2
<1> HIDE DEF I
<1>5. CASE ExtractEnvelopeData(s) = NotFound
  <2>1. I = {}
    BY <1>4, <1>5
  <2> QED
    BY <1>1, <1>5, <2>1
<1>6. CASE ExtractEnvelopeData(s) # NotFound
  <2>1. I = {p}
    BY <1>4, <1>6
  <2>2. Min(I) = p
    BY <2>1 DEF Min
  <2>3. at = p /\ at # 0
    BY <2>1, <2>2
  <2> QED
    BY <1>1, <1>2, <1>6, <2>3
<1> QED
  BY <1>5, <1>6

LEMMA CarriersAlways ==
    ASSUME NEW d \in Octets, NEW k \in Octets
    PROVE  CarriersReadBack(d, k)
<1> DEFINE c == PayToKey(k)
           Right(s) == /\ AssertNativeSpendable(s)
                       /\ EnvelopePubKeyHash(s) = k
                       /\ \A outs \in {<<s, c>>, <<c, s>>} :
                             FindEnvelope(outs) = IF d = <<>> THEN NotFound ELSE s
                       /\ ExtractEnvelopeData(s) = d
           a == BuildEnvelopeIf(d, k)
           b == BuildEnvelopeDrop(d, k)
<1>1. CASE Len(k) # PkhLen
  <2>1. a = NotFound /\ b = NotFound
    BY <1>1 DEF BuildEnvelopeIf, BuildEnvelopeDrop
  <2> QED
    BY <1>1, <2>1 DEF CarriersReadBack
<1>2. CASE Len(k) = PkhLen
  <2>1. ExtractEnvelopeData(c) = NotFound
    <3>1. PaysTo(c, 0, k)
      BY PayToKeyIs
    <3> HIDE DEF c
    <3>2. Len(c) = 5 /\ c[1].op = "DUP" /\ c[2].op = "HASH160"
      BY <3>1 DEF PaysTo, Coded
    <3> QED
      BY <3>2 DEF ExtractEnvelopeData
  <2>2. ASSUME NEW s, ExtractEnvelopeData(s) = d,
               AssertNativeSpendable(s), EnvelopePubKeyHash(s) = k
        PROVE  Right(s)
    <3>1. \A outs \in {<<s, c>>, <<c, s>>} :
             FindEnvelope(outs) =
                IF ExtractEnvelopeData(s) = NotFound THEN NotFound ELSE s
      BY <2>1, FoundFirst
    <3> HIDE DEF c
    <3> QED
      BY <2>2, <3>1 DEF NotFound
  <2>3. Right(a)
    <3>1. /\ PaysTo(a, 4, k) /\ a[1] = Coded("FALSE") /\ a[2] = Coded("IF")
          /\ a[3] = Pushed(d) /\ a[4] = Coded("ENDIF")
      BY <1>2, EnvelopeIfIs
    <3> HIDE DEF a, Right
    <3>2. DOMAIN a = 1 .. 4 + 5
      <4>1. a \in Scripts /\ Len(a) = 4 + 5
        BY <1>2, <3>1, EnvelopeIfIs DEF a, PaysTo
      <4> QED
        BY <4>1 DEF Scripts
    <3>3. /\ Len(a) = 9 /\ a[1].op = "FALSE" /\ a[2].op = "IF"
          /\ a[3].data = d /\ a[4].op = "ENDIF" /\ a[3].op \in {"FALSE", "PUSH"}
      BY <3>1 DEF PaysTo, Coded, Pushed
    <3>4. ExtractEnvelopeData(a) = d
      BY <3>3 DEF ExtractEnvelopeData
    <3>5. \A i \in 1 .. 4 : a[i].op # "RETURN"
      <4>1. \A i \in 1 .. 4 : i = 1 \/ i = 2 \/ i = 3 \/ i = 4
        OBVIOUS
      <4> QED
        BY <3>3, <4>1
    <3>6. AssertNativeSpendable(a) /\ EnvelopePubKeyHash(a) = k
      BY <1>2, <3>1, <3>2, <3>5, TailSpendable
    <3> QED
      BY <2>2, <3>4, <3>6
  <2>4. Right(b)
    <3>1. PaysTo(b, 2, k) /\ b[1] = Pushed(d) /\ b[2] = Coded("DROP")
      BY <1>2, EnvelopeDropIs
    <3> HIDE DEF b, Right
    <3>2. DOMAIN b = 1 .. 2 + 5
      <4>1. b \in Scripts /\ Len(b) = 2 + 5
        BY <1>2, <3>1, EnvelopeDropIs DEF b, PaysTo
      <4> QED
        BY <4>1 DEF Scripts
    <3>3. /\ Len(b) = 7 /\ b[1].op \in {"FALSE", "PUSH"} /\ b[1].data = d
          /\ b[2].op = "DROP"
      BY <3>1 DEF PaysTo, Coded, Pushed
    <3>4. ExtractEnvelopeData(b) = d
      BY <3>3 DEF ExtractEnvelopeData
    <3>5. \A i \in 1 .. 2 : b[i].op # "RETURN"
      <4>1. \A i \in 1 .. 2 : i = 1 \/ i = 2
        OBVIOUS
      <4> QED
        BY <3>3, <4>1
    <3>6. AssertNativeSpendable(b) /\ EnvelopePubKeyHash(b) = k
      BY <1>2, <3>1, <3>2, <3>5, TailSpendable
    <3> QED
      BY <2>2, <3>4, <3>6
  <2> HIDE DEF a, b, Right
  <2>5. \A s \in {a, b} : Right(s)
    BY <2>3, <2>4
  <2> QED
    BY <1>2, <2>5 DEF CarriersReadBack, a, b, Right, c
<1> QED
  BY <1>1, <1>2

\* Whatever the payload and the key hash, both carriers are spendable by the
\* key and a reader of the transaction finds the payload, on whichever side
\* of the change output; only an empty payload is lost
\* (envelope.go:20-120, streame2e/main.go:289-299).
THEOREM EnvelopeTheorem == Spec => []EnvelopesReadBack
<1>1. InputInv => EnvelopesReadBack
  <2> SUFFICES ASSUME InputInv, input.call = "envelope"
               PROVE  CarriersReadBack(input.data, input.pkh)
    BY DEF EnvelopesReadBack
  <2>1. input.data \in Octets /\ input.pkh \in Octets
    BY CallerAssumption DEF InputInv
  <2> QED
    BY <2>1, CarriersAlways
<1> QED
  BY <1>1, LibrariesInvariant, PTL
-----------------------------------------------------------------------------
(* The bridge.                                                             *)

\* No message type is one of both standards, and none is empty.
LEMMA TypesApart ==
    /\ NoType \notin DOMAIN X12Map /\ NoType \notin DOMAIN EdifactMap
    /\ \A t \in DOMAIN X12Map : t \notin DOMAIN EdifactMap
<1>1. DOMAIN X12Map = {"850", "855", "856", "810", "210", "820", "214", "990"}
  BY DEF X12Map
<1>2. DOMAIN EdifactMap = {"ORDERS", "ORDRSP", "DESADV", "INVOIC", "REMADV",
                           "IFTMIN", "IFTSTA", "PAYORD"}
  BY DEF EdifactMap
<1> QED
  BY <1>1, <1>2 DEF NoType

\* What a message is sent with, and how a partner that has its type in its
\* subset reads it.
LEMMA Readings ==
    ASSUME NEW p \in PartnerProfile, NEW std, NEW msg, p.enabled
    PROVE  LET type == DetectType(std, msg)
           IN  ReadAs(p, std, msg) =
                 IF type \in {msg.type} \cap DOMAIN InboundMap(std)
                 THEN InboundMap(std)[type] ELSE NoAction
<1> DEFINE q == [p EXCEPT !.standard = std, !.subset = {msg.type}]
<1>1. q.standard = std /\ q.enabled /\ q.subset = {msg.type}
  BY DEF PartnerProfile
<1>2. ReadAs(p, std, msg) = Inbound(q, msg)
  BY DEF ReadAs
<1> HIDE DEF q
<1> QED
  BY <1>1, <1>2 DEF Inbound

LEMMA ComesBackAlways ==
    ASSUME NEW p \in PartnerProfile, NEW doc, NEW state
    PROVE  ComesBack(p, doc, state)
<1> DEFINE own == p.standard
           types == {t \in DOMAIN OutboundMap(own) : OutboundMap(own)[t].doc = doc}
           type == ReverseLookup(own, doc)
           msg == Outbound(p, doc, state)
<1> SUFFICES ASSUME msg # NoMessage
             PROVE  IF own \in Standard THEN ReadAs(p, own, msg).doc = doc
                    ELSE \A std \in Standard \cup {own} :
                            ReadAs(p, std, msg) = NoAction
  BY DEF ComesBack
<1>1. p.enabled /\ type # NoType
  BY DEF Outbound
<1>2. msg.syntax = (IF own = "X12" THEN "X12" ELSE "EDIFACT") /\ msg.type = type
  BY <1>1 DEF Outbound
<1>3. types # {} /\ type = CHOOSE t \in types : TRUE
  BY <1>1 DEF ReverseLookup
<1>4. type \in types
  BY <1>3
<1>5. type \in DOMAIN OutboundMap(own) /\ OutboundMap(own)[type].doc = doc
  BY <1>4
<1> HIDE DEF msg, type, types
<1>6. CASE own \in Standard
  <2>1. DetectType(own, msg) = type
    BY <1>2, <1>6 DEF DetectType, Standard
  <2>2. InboundMap(own) = OutboundMap(own)
    BY <1>6 DEF Standard, InboundMap, OutboundMap
  <2>3. ReadAs(p, own, msg) = InboundMap(own)[type]
    BY <1>1, <1>2, <1>5, <2>1, <2>2, Readings
  <2> QED
    BY <1>5, <1>6, <2>2, <2>3
<1>7. CASE own \notin Standard
  <2>1. type \in DOMAIN X12Map /\ type \notin DOMAIN EdifactMap
    BY <1>5, <1>7, TypesApart DEF OutboundMap, Standard
  <2>2. ASSUME NEW std \in Standard \cup {own}
        PROVE  DetectType(std, msg) \notin DOMAIN InboundMap(std)
    <3>1. CASE std = "EDIFACT"
      BY <1>2, <1>7, <2>1, <3>1 DEF DetectType, InboundMap, Standard
    <3>2. CASE std # "EDIFACT"
      <4>1. DetectType(std, msg) = NoType
        BY <1>2, <1>7, <2>2, <3>2 DEF DetectType, Standard
      <4> QED
        BY <4>1, TypesApart DEF InboundMap
    <3> QED
      BY <3>1, <3>2
  <2>3. ASSUME NEW std \in Standard \cup {own}
        PROVE  ReadAs(p, std, msg) = NoAction
    BY <1>1, <2>2, Readings
  <2> QED
    BY <1>7, <2>3
<1> QED
  BY <1>6, <1>7

\* Whatever a partner's standard and subset, a message the bridge sends for a
\* document is read back as a message about that document if the standard is
\* X12 or EDIFACT, although the subset is not asked on the way out; if it is
\* any other, nobody reads what was sent (bridge.go:69-116, 119-149).
THEOREM BridgeReadsItsOwn ==
    Spec => [](input.call = "out" => ComesBack(input.p, input.doc, "any"))
<1>1. InputInv => (input.call = "out" => ComesBack(input.p, input.doc, "any"))
  <2> SUFFICES ASSUME InputInv, input.call = "out"
               PROVE  ComesBack(input.p, input.doc, "any")
    OBVIOUS
  <2>1. input.p \in PartnerProfile
    BY CallerAssumption DEF InputInv
  <2> QED
    BY <2>1, ComesBackAlways
<1> QED
  BY <1>1, LibrariesInvariant, PTL
=============================================================================
