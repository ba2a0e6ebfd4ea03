--------------------------- MODULE DocumentEngine ---------------------------
(***************************************************************************)
(* The document engine (services-go/edi/dfa.go): a commercial document is  *)
(* a finite automaton whose current state is an unspent output; an event   *)
(* spends it and creates the next one, possibly under a new controller.    *)
(*                                                                         *)
(* The automata are data (edi-dfa/document-defs.json).  As in TokenEngine, *)
(* a Doc is a handle the caller keeps and may use again, object ids are    *)
(* the caller's, and every tag verifies.  Cross-references (Refs) are      *)
(* carried data and left out.                                              *)
(***************************************************************************)
EXTENDS StateUtxo

CONSTANTS
    DocType,    \* document types of the registry
    DocDef,     \* DocType -> [initial, final, transitions]
    ObjectID,   \* object ids callers choose
    BodyHash,   \* H4 of the document bodies
    NoBody,     \* the nil hash of a document without a body
    StateSats   \* amount of a state output (1000 in the code)

ASSUME DocumentAssumption ==
    /\ StateSats \in Amount
    /\ NoBody \in BodyHash

VARIABLE docs   \* every Doc the engine has returned

docVars == <<utxoVars, docs>>

\* The table of t: a sequence of <<from, event, to>>.
Transitions(t) == DocDef[t].transitions
DocEvent == UNION {{x[2] : x \in Range(Transitions(t))} : t \in DocType}
DocState == UNION {{DocDef[t].initial} \cup
                   {x[3] : x \in Range(Transitions(t))} : t \in DocType}

StateRecord == [type : DocType, row : ObjectID, state : DocState,
                body : BodyHash, controller : Party, seq : Nat,
                prev : 0 .. MaxTxs]
Doc == [type : DocType, row : ObjectID, state : DocState, body : BodyHash,
        controller : Party, seq : Nat, out : Outpoint, sats : Amount]

ASSUME RecordAssumption ==
    /\ NoRecord \notin StateRecord
    /\ NoRecord \notin [sats : Amount, key : Party, record : StateRecord]
    /\ NoRecord \notin [states : Seq(DocState), final : StateRecord,
                        verified : Nat]

DocInit == UtxoInit /\ docs = {}

-----------------------------------------------------------------------------
NoState == "none"

\* Mutant of NextState: any edge that carries the event.
NextOnEvent(t, from, event) ==
    LET edges == SelectSeq(Transitions(t), LAMBDA x : x[2] = event)
    IN  IF edges = <<>> THEN NoState ELSE Head(edges)[3]

\* DFADef.next: the first edge that matches.
Matches(t, i, from, event) ==
    Transitions(t)[i][1] = from /\ Transitions(t)[i][2] = event
FirstMatch(t, i, from, event) ==
    /\ i \in DOMAIN Transitions(t) /\ Matches(t, i, from, event)
    /\ \A j \in 1 .. i - 1 : ~Matches(t, j, from, event)
NextState(t, from, event) ==
    IF \E i \in DOMAIN Transitions(t) : FirstMatch(t, i, from, event)
    THEN Transitions(t)[CHOOSE i \in DOMAIN Transitions(t) :
                           FirstMatch(t, i, from, event)][3]
    ELSE NoState

\* The record of a Doc whose predecessor is on transaction prev.
RecordOf(d, prev) ==
    [type |-> d.type, row |-> d.row, state |-> d.state, body |-> d.body,
     controller |-> d.controller, seq |-> d.seq, prev |-> prev]

DocClaim(d) == [out |-> d.out, sats |-> d.sats, key |-> d.controller]

Originate(t, id, controller, body) ==
    LET d == [type |-> t, row |-> id, state |-> DocDef[t].initial,
              body |-> body, controller |-> controller, seq |-> 0,
              out |-> <<NewTxid, 1>>, sats |-> StateSats]
    IN
    /\ Broadcast(<<WalletClaim>>,
                 <<StateOutput(RecordOf(d, 0), controller, StateSats),
                   FeeOutput(ChangeLeft(StateSats))>>)
    /\ \/ /\ WalletMovesTo(2, ChangeLeft(StateSats))
          /\ docs' = docs \cup {d}
       \/ AnswerLost /\ UNCHANGED docs

\* Mutant of NextDoc: the body hash is not carried over.
NextDocUnanchored(d, event, controller) ==
    [d EXCEPT !.state = NextState(d.type, d.state, event),
              !.body = NoBody, !.controller = controller, !.seq = @ + 1,
              !.out = <<NewTxid, 1>>]

\* The Doc that event leads d to.
NextDoc(d, event, controller) ==
    [d EXCEPT !.state = NextState(d.type, d.state, event),
              !.controller = controller, !.seq = @ + 1,
              !.out = <<NewTxid, 1>>]

\* Mutant of Transition: the wallet pays for a new state output.
TransitionUnspent(d, event, controller) ==
    LET nd == NextDoc(d, event, controller) IN
    /\ NextState(d.type, d.state, event) # NoState
    /\ Broadcast(<<WalletClaim>>,
                 <<StateOutput(RecordOf(nd, d.out[1]), controller, d.sats),
                   FeeOutput(ChangeLeft(d.sats))>>)
    /\ \/ /\ WalletMovesTo(2, ChangeLeft(d.sats))
          /\ docs' = docs \cup {nd}
       \/ AnswerLost /\ UNCHANGED docs

\* controller is d's own unless the caller re-keys.
Transition(d, event, controller) ==
    LET nd == NextDoc(d, event, controller) IN
    /\ NextState(d.type, d.state, event) # NoState
    /\ Broadcast(<<DocClaim(d), WalletClaim>>,
                 <<StateOutput(RecordOf(nd, d.out[1]), controller, d.sats),
                   FeeOutput(wallet.sats)>>)
    /\ \/ /\ WalletMovesTo(2, wallet.sats)
          /\ docs' = docs \cup {nd}
       \/ AnswerLost /\ UNCHANGED docs

DocNext ==
    \/ FundFromWallet /\ UNCHANGED docs
    \/ \E t \in DocType, id \in ObjectID, c \in Party, b \in BodyHash :
          Originate(t, id, c, b)
    \/ \E d \in docs, event \in DocEvent, c \in Party :
          Transition(d, event, c)

DocSpec == DocInit /\ [][DocNext]_docVars

-----------------------------------------------------------------------------
\* Verify: the states along prev_txid and the last record, or an error.
Verify(n, id) ==
    LET l == Lineage(id)[n] IN
    IF NoRecord \in Range(l) THEN NoRecord
    ELSE [states |-> [i \in DOMAIN l |-> l[i].record.state],
          final |-> Last(l).record,
          verified |-> Len(l)]

-----------------------------------------------------------------------------
DocTypeOK ==
    /\ UtxoTypeOK
    /\ docs \subseteq Doc
    /\ \A n \in DOMAIN txs : \A i \in StateOutputs(n) :
          txs[n].outs[i].record \in StateRecord

\* Whatever handles callers use again and whichever calls fail, the history
\* Verify rebuilds from any state output is a run of that document's
\* automaton, from its initial state to the state of the output, complete,
\* and ends with the key that can spend it (dfa.go:336-381, 401-473).
LegalHistory ==
    \A n \in DOMAIN txs : \A i \in StateOutputs(n) :
        LET o == txs[n].outs[i]
            h == Verify(n, o.record.row)
            s == h.states
        IN
        /\ h # NoRecord
        /\ s[1] = DocDef[o.record.type].initial
        /\ \A j \in 1 .. Len(s) - 1 :
              \E x \in Range(Transitions(o.record.type)) :
                  x[1] = s[j] /\ x[3] = s[j + 1]
        /\ h.final = o.record /\ h.verified = o.record.seq + 1
        /\ o.record.controller = o.key

\* A state output is an origination, or continues an output that its own
\* transaction spends with the key of that output's controller: the same
\* document, one later, along an edge of its automaton.  No handle, failed
\* call or re-keying makes any other (dfa.go:336-381).
Continues(o, r) ==
    LET p == OutputAt(o).record
    IN  /\ o[1] = r.prev /\ p # NoRecord /\ OutputAt(o).key = p.controller
        /\ p.type = r.type /\ p.row = r.row /\ p.body = r.body
        /\ r.seq = p.seq + 1
        /\ \E x \in Range(Transitions(r.type)) :
              x[1] = p.state /\ x[3] = r.state

StepsLegal ==
    \A n \in DOMAIN txs : \A i \in StateOutputs(n) :
        LET r == txs[n].outs[i].record
        IN  IF r.prev = 0 THEN r.seq = 0 /\ r.state = DocDef[r.type].initial
            ELSE \E o \in Range(txs[n].ins) : Continues(o, r)

\* A document is in one state: of the state outputs that descend from one
\* origination exactly one is unspent, so no former controller keeps an
\* output to act on (dfa.go:359-366, SYS-EDI-001, SYS-LOG-006).
Genesis(n, i) ==
    LET row == txs[n].outs[i].record.row
        root[m \in DOMAIN txs] ==
            LET o == RecordOn(m, row)
            IN  IF o = NoRecord \/ o.record.prev = 0 THEN m
                ELSE root[o.record.prev]
    IN  root[n]

SingleState ==
    \A g \in DOMAIN txs : \A k \in StateOutputs(g) :
        txs[g].outs[k].record.prev = 0 =>
            Cardinality({n \in DOMAIN txs : \E i \in StateOutputs(n) :
                            Genesis(n, i) = g /\ ~IsSpent(<<n, i>>)}) = 1
=============================================================================
