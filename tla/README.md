# Triple-entry BSV SQL: TLA+ models, checks and proofs

The repository records ordinary SQL writes on a Bitcoin SV chain as a third
accounting entry, and builds tokens, commercial documents and consignments on
the same state outputs. This directory holds TLA+ modules of its stateful
parts, TLC configurations that check them on small instances, and theorems
about the core that TLAPS proves for every value of the constants.

To check a run: `tlc -config <name>.cfg <module>` (the table of section 3
pairs them). To check the proofs: `tlapm` on each of `TeCaptureProofs`,
`WalkProofs`, `TripleEntryProofs`, `UtxoProofs`, `TokenEngineProofs`,
`ConsignmentProofs`, `DrillsProofs` and `LibrariesProofs`
(`TripleEntryProofs` takes about six minutes).

## 1. The system

| Component | State it keeps | Operations | Talks to | Status |
|---|---|---|---|---|
| SQL surface, `pg-fork/sql-surface/001_te_schema.sql` | user tables, `te.journalled`, `te.relationship`, `te.outbox` | statements firing `te.capture`, `te.journal_table`, `te.verify` | writer, through tables | modelled |
| Writer, `services-go/cmd/tewriter` | `te.outbox` status columns, `te.chain_index`, `te.blinding`; in memory one coin, stream positions, rows read | fund, read catalogs, drain, cold rebuild, compare | database, node | modelled |
| Token engine, `services-go/token` | one fee output; callers hold Instances | Fund, Mint, Transfer, Redeem, Swap, VerifyLineage | node | modelled |
| Document engine, `services-go/edi/dfa.go` | one fee output; callers hold Docs | Originate, Transition, Verify | node | modelled |
| Goods store, `services-go/edi/dht.go` | map H2 -> body, hash, location, owner | Put, UpdateOwner, Tamper, three checks | consignment client | modelled |
| Consignment client, `services-go/cmd/edie2e` | documents it holds | lines 85-185 | document engine, goods store | modelled |
| Compute market, `services-go/compute` | tasks with phases | Post, Commit, Challenge, Resolve | nothing yet | modelled |
| Node client, `services-go/node` | none; the node behind it keeps a block tree | send, generate, read, invalidate, reconsider | node | modelled |
| Reorganisation drill, `services-go/cmd/hardene2e` | its entry, its block, a height | send, bury, check, invalidate, restore, poll | node | modelled |
| Stream drills, `services-go/cmd/{streame2e,svnodee2e,confidente2e,...}` | the stream they send | fund, send, mine, walk back, compare | node | partly |
| Keystone crypto, `crypto-core/go` | none | encode, decode, derive, tag, open | writer, drills | partly |
| Envelope scripts, `services-go/bsvscript` | none | build, extract, check | writer, drills, engines | modelled |
| SPV and BURI, `services-go/spv` | none | root, branch, verify, format, parse | `spvtestnet` | modelled |
| Threshold custody, `services-go/custody` | none | Split, Recover | nothing yet | partly |
| EDI bridge, `services-go/edibridge` | partner configurations | Inbound, Outbound | document names | modelled |
| Overlay, PDF rendering, ports of the core | none | pure functions | | not modelled (section 7) |

What is hard in it:

* **Interleaving.** Sessions draw `outbox.seq` when a statement runs and
  publish at the commit, in another order. Writers read once and drain while
  sessions go on; two writers can drain the same rows.
* **Crash and restart.** One outbox row takes five separate effects
  (broadcast, block, outbox update, index, blinding), and a confidential row
  one check more that can end the run. The process may die, or an RPC may time
  out after the node obeyed, between any two.
* **Reads that are not one read.** The comparison reads `te.journalled` and then
  each table in statements of their own, after a walk of many RPCs.
* **Stale handles.** Engines return handles nothing ever invalidates, and keep
  their own coin in memory when a call fails after the node obeyed.
* **Two stores, one fact.** Custody is on the chain and in the goods store, and
  they are updated by two calls.
* **A shared chain.** Other clients mine between two calls of a drill, or make
  the chain drop the block it was looking at; and a drill that dies between
  InvalidateBlock and ReconsiderBlock leaves the node so.
* **Boundaries.** Unsigned change below zero, SQL NULL against the empty
  string, a missing Go map key that reads as the empty string, primary keys
  that change, sub-keys and points that vanish, Merkle levels of odd length,
  lengths in an encoding.

`PROJECT.json` lists each hazard at its line with the properties aimed at it.

What makes each component correct: the outbox and the tables agree, row by row
(SQL surface); every committed change reaches the chain exactly once, in order,
and the chain can be replayed to the database (writer); a token has one holder
and one live output, and verification reports it (token engine); a document's
history is a run of its automaton and it is in one state (document engine);
chain and store agree on custody and integrity, and payment follows delivery
(consignment); no asset leaves the market twice and only an earned event is
injected (compute market); what a drill concludes from its reads is true of the
chain, and it ends (drills); what is encoded, derived, enveloped, proved, split
or translated comes back, and nothing else does (the pure packages).

## 2. Modules

```
TeSchema ---- TeCapture --+                       ThirdEntryLedger
     |                    +-- TripleEntry  ==implements==^
     +------- TeWriter ---+        |
                 TeCaptureProofs --+-- TripleEntryProofs
                      WalkProofs --+
StateUtxo --+-- TokenEngine  ==implements==> TokenTitles
   |        |        +-- TokenEngineProofs
   |        +-- DocumentEngine --+-- Consignment
UtxoProofs      GoodsRecord -----+        |
 | (on WalkProofs)                        |
 +----------------------------------------+-- ConsignmentProofs

ChainNode -- Drills -- DrillsProofs (on WalkProofs)

ComputeMarket, Keystone (on MessageCodec), EnvelopeScripts, MerkleProofs,
ThresholdCustody, EdiBridge, MandatedDocuments (on DocumentTables) -- Libraries
      +-- LibrariesProofs (on WalkProofs)
```

`MC*` modules hold the values the configurations give to the constants.

**TeSchema** is the shared database: `live` (committed user rows),
`journalled`, `relationship`, and the content of `te.outbox` as a partial
function from seq. The three outbox columns that the writer fills are `sent` in
TeWriter; one UPDATE assigns all three, so a row is `pending` while it has no
image there.

**TeCapture** runs client transactions: `Insert`, `Update`, `UpdateKey`,
`Delete` (each with the trigger's effect inside), `Commit`, `Rollback`,
`JournalTable`, `AddRelationship`. PostgreSQL at READ COMMITTED is external: a
session sees its own writes over the committed rows, waits for a row or key
another session has written, and a rollback does not give identity values back.
A capturing statement reserves one identity value per column; only their order
is ever compared.

**TeWriter** is the process, one action per SQL statement or RPC; only the walk
from a head to the genesis (`Rebuild`), which reads transactions that never
change, is one step for many RPCs. `pc` goes through `fund, confirm, find`
(walletFund), `confidential, streamConf, pending` (the catalogs and the rows),
`drain, mine, mark, index, blind, leak` for each row and `verify, rebuild,
tables, cells` for each stream: `liveCells` is `ReadTables` and then one
`ReadTable` for each table, with sessions committing in between. `Exit` covers
every `ck` and `fail`, and `Crash` a death or an error between two steps, which
loses everything the process had in memory and nothing that it stored. The node
is external: `chain` is the sequence of accepted writer transactions, `mined`
how many are in blocks. Amounts count envelopes of 1000 satoshis. Tags always
verify, since both ends hold the keys, and a commitment hides its value; an
image therefore is a value with a flag. The rest of the transaction is in clear
(names, hashes, keys, a signature), and after storing the blinding factor the
program searches all of it for the plaintext (lines 217-222). `CheckLeak` finds
it or does not, if the value is one that other octets can repeat (`Occurring`);
the run then ends with the entry on the chain, marked and indexed, and the rows
behind it still pending. `change` in an entry and `snap`, `rekeyed`, `outcome`
are history variables that guards never read.

**TripleEntry** composes the two: sessions and writers interleave freely.
**ThirdEntryLedger** is the promise: changes wait, and each is appended once to
its stream's ledger, oldest change of a cell first. Under the refinement mapping
the ledger of a stream is the walk back from the link the writer remembers,
oldest entry first (`Recorded`), and what waits is every outbox row not in one
(`Waiting`); an entry is in the ledger when its writer moves on to the next row.

**StateUtxo** is what both engines share: the node, the in-memory fee coin,
failed calls, and the walk along `prev_txid`. `AnswerLost` is a call whose
transaction the node took and whose block request or answer failed: `lost`
remembers it, and the engine keeps the coin it has just spent. `Fund` and
`FundFromWallet` differ in who pays and are one action.

**TokenEngine** has an action per method. `instances` is every handle ever
returned, so callers reuse stale ones. Amounts are unsigned with wrap-around
(`Width`). **TokenTitles** is the register it implements: issue, transfer,
exchange in one step, redeem for good.

**DocumentEngine** runs any automaton table; **DocumentTables** holds the
twenty-three of `edi-dfa/document-defs.json`. **GoodsRecord** is the store with
injective hashes. **Consignment** is the client of `edie2e`: where the program
fires one sequence of events, the model fires any the automaton allows, keeps
the program's checks (line 141) and re-keys on the same events. It stops at the
first error, as `ck` does. **MandatedDocuments** is the first part of the same
program: the greedy walk of `driveToFinal` (lines 159-185) over every mandated
document.

**ChainNode** is a regtest node as `node/client.go` drives it: a tree of blocks,
a tip, invalid blocks and a pool. It is external and only as detailed as the
drills can tell. **Drills** has the local variables of `hardene2e`, `streame2e`,
`svnodee2e` and `confidente2e` and one action per RPC. A call is answered, or
errs before or after the node obeyed, or is refused, and the drill then ends;
only after a failed look at the reorganised chain, and after a failed restore,
does `hardene2e` go on (lines 98-114). Any of them run side by side.

**ComputeMarket** has an action per method; callers call anything in any order,
also Post under an id in use. `placed`, `paid` and `calls` are history
variables.

The pure packages are operators. **MessageCodec** encodes M(c) and records and
decodes them as strictly as the Reader does; a buffer is a sequence of words, so
that lengths, cuts and appended octets are visible and byte order is not. The u32
prefix holds the length modulo `LenWrap`, as the conversion does (`bytes.go:33`).
**Keystone** does the sub-keys and the common secret in a small group where zero
and the point at infinity do occur. **EnvelopeScripts** works on parsed script
operations, **MerkleProofs** on trees whose hash is a pair, **ThresholdCustody**
on a small prime field, **EdiBridge** on message types; a partner's standard is
any string, and the code reads an unknown one as an error, looks its messages up
in the X12 table and writes them as EDIFACT. **Libraries** calls them
with any argument and holds the properties: `input` is the call, and what must
come back is an invariant.

## 3. Runs

| Run | Module / cfg | Instance | What it shows |
|---|---|---|---|
| `capture` | MCCapture / capture.cfg | 2 sessions, 1 table, 2 keys, NULL, 4 seq values, a re-key, a re-registration | outbox and tables agree |
| `drain` | MCTripleEntry / drain.cfg | 2 sessions, 3 tables: a plain stream of two and a confidential one; 3 changes, 1 writer, 1 run, no crash | implements the ledger; rebuild is the snapshot; alarms and failures have the causes named; commitments open; the run ends with all delivered but for a leak |
| `crash_restart` | MCTripleEntry / crash_restart.cfg | 2 writers at once, each may crash anywhere, 2 columns, 4 changes, a table registered late, funds for 2 entries | what survives crashes, a second writer, missing keys and exhausted funds |
| `token` | MCTokenEngine / token.cfg | 2 types, 2 ids, 2 parties, 5 transactions, 4-bit amounts, any call may fail | engine implements titles; verification, wallet and handles are sound |
| `documents` | MCDocumentEngine / documents.cfg | 4 automata, 2 ids, 2 bodies, 2 parties, 5 transactions, any call may fail, funds run out | legal steps and histories, single state |
| `consignment` | MCConsignment / consignment.cfg | 4 parties, 4 automata, 21 transactions, tampering | custody, payment, integrity |
| `libraries` | MCLibraries / libraries.cfg | 2 tasks, amounts modulo 2; all small arguments of each pure function, illegal ones included | the market, and every round trip of the pure packages |
| `drills` | MCDrills / drills.cfg | any 2 of 5 drills at once, one error | what drills conclude is true, failures have causes, drills end |
| `crash_records_twice` | MCTripleEntry / crash_records_twice.cfg | 1 writer, 2 runs, crash | finding 1 |
| `second_run_loses` | MCTripleEntry / second_run_loses.cfg | 1 writer, 2 runs, no crash | finding 2 |
| `rekey_passes` | MCTripleEntry / rekey_passes.cfg | a key-changing update, empty value | finding 3 |
| `consignment_owner` | MCConsignment / consignment_owner.cfg | no failures | finding 4 |

The first eight pass. `CHECK_DEADLOCK FALSE` stands everywhere because clients,
operators and callers may simply stop, the bounds stop them, and drills end.

### Bounds

* `MaxSeq` bounds captured columns, `MaxRuns` the starts of a writer,
  `MaxTxs` the transactions of an engine, `MaxTampers` the bytes appended to a
  body, `MaxPlaced` what is placed under a task id, `MaxErrors` the calls of
  drills that err, `Together` the drills at once. All sit in guards or in the
  initial states.
* Three or four outbox rows are enough for the order hazards: two rows of one
  cell and one in between, from two sessions. Two writers make every race on a
  coin, a row or an index key; the proofs cover any number.
* `drain` has two tables in one stream, so that a change of one table can be
  committed between the statements that read the two. No stream of it has
  tables with different flags: a fourth table for that is too slow to check, so
  the second case of `CleanRun` rests on its theorem. `Occurring` is every value but the empty one; a value
  not in it behaves as one that is and is not found.
* `Funding` is 2 in `crash_restart` against 4 possible rows, so that a writer
  runs out of funds and the unsigned change would wrap. With two columns one
  statement captures rows of two cells.
* Five token transactions fit a funding, two mints, a swap and one more use of
  a new or a stale handle. `Width` is 16 and a wallet of 6 is too small for the
  larger tokens, so the change does wrap and the node refuses.
* 21 transactions fit the whole consignment to the surrendered bill of lading
  with the dispute and second-leg loops.
* A document's two bodies are the empty one (a nil hash, which no transition
  replaces) and one that is not; any two others behave as that one does.
* The market's amounts wrap at 2 with bounties and stakes up to 1, so a payout
  of 2 wraps; `MaxPlaced` 3 lets a task be posted over with something to lose.
* `Maturity` is 2 for 100: only whether the coinbase is buried matters, and it
  is by the same call. `ConfDepth` is the program's 3. `Polls` is 2 for 5: the
  first and the last. One error is enough for a drill to die at any of its
  calls and leave the node to the other as it then is; two drills make every
  pair of kinds meet, two hardening drills included.
* `GroupOrder` 11 and `Modulus` 5 are primes small enough for every scalar and
  every polynomial to be tried, zero included; up to 3 shares, repeated ones
  too. `LenWrap` is 15 for 2^32: one name wraps, and so does the longest M(c) of names
  that do not. Partners speak X12, EDIFACT or an unknown standard. Blocks of up
  to 7 transactions have every shape of odd level, and the
  names of messages are long enough to run into each other. Every encoding is
  also tried cut, extended, and with any one word replaced.

### Fairness

`drain` assumes weak fairness of each writer's next step. A started process
runs until it exits, which is all the operating system provides, and no step of
it waits for another process for ever. Nothing obliges a client to issue a
statement or an operator to start a writer. `RunDelivers` (a row read is done only when it is
marked sent, and a started run ends with all done unless the leak check ends it)
therefore does not depend on the clients stopping.

`drills` assumes weak fairness of the drills as a whole: a process runs until it
exits, and a call returns or times out (`node/client.go:20`). Since no drill
waits for another and each takes finitely many steps, this is enough for
`DrillsEnd`, which rests on the polling loop giving up (`hardene2e/main.go:106`).

## 4. What the checks say

Holds in every explored behaviour:

* The last outbox row of a cell is what the table holds, although seq is not
  the commit order; the row lock is what makes it so (`LastChangeIsLive`).
* A row is marked sent only with a mined entry of its content
  (`SentAnchored`); the index is never wrong (`IndexSound`); chain walks end
  at a genesis (`ChainLinked`); writers never contend for a coin
  (`CoinsOwned`); `te.verify` does not call anchored what is not
  (`VerifyTellsTruth`).
* An uninterrupted run implements the ledger, and its rebuild equals the
  database at the instant the rows were read (`RebuildIsSnapshot`). A mismatch is
  raised on a stream only if a change of that stream is pending when the run
  ends (`AlarmMeansPending`): tables that are read one by one can be a mixture
  that never was, but only by changes the run has not delivered.
* A run that has funds and keys fails on its own entries in two cases only
  (`CleanRun`): the plaintext of a confidential value occurs elsewhere in its
  transaction, which is then mined, marked and indexed; or a stream has tables
  with different flags, whose walk no verifier accepts. Otherwise it delivers
  what it read, and it ends (`RunDelivers`).
* The token engine implements the register with failing calls and stale
  handles (`ImplementsTitles`); it gets stuck only after an error it returned
  (`WalletSound`, `TitlesHeld`).
* Histories on chain are runs of their automata (`LegalHistory`), edge by edge
  (`StepsLegal`); a document has one unspent state (`SingleState`).
* Up to delivery, store and chain agree on custody (`CustodyRegistered`);
  payment follows evidence (`PaidOnDelivery`); integrity checks are exact
  (`IntegrityExact`).
* No more leaves the market than was placed, whatever is posted over and
  whatever wraps (`NeverOverpays`), and a payout or event is earned by the
  posting it is made for (`PayoutEarned`).
* A read is released only when the entry is deep enough, although the drill
  counts from heights it noted while others mine (`FinalMeansBuried`); when it
  finds its block the entry is confirmed (`InChainSound`); it ends
  (`DrillsEnd`). It fails only for a cause (`FailHasCause`): an error of a call
  of its own; for a coinbase drill a stranger's transaction in that block, or a
  reorganisation; for a hardening drill a reorganisation before it has made its
  own, so another's, or another's ReconsiderBlock, which undid its own
  InvalidateBlock. Its own invalidation is no excuse: after it the block is off
  the chain, and the recheck finds so.
* Encodings have one reading, and tags of different changes differ although the
  salt joins names without lengths, while no length reaches 2^32 octets
  (`CodecExact`, `TagsBind`; names of PostgreSQL have 63 and values at most
  2^30). Both sides derive one secret or both fail (`SecretsAgree`). Envelopes,
  proofs and shares come back and others do not (`EnvelopesReadBack`,
  `InclusionExact`, `ThresholdExact`). The bridge reads its own messages for a
  partner of a known standard, and nobody reads what it sends to any other
  (`BridgeConsistent`). The greedy walk ends every mandated document
  (`DocumentsComplete`).

Disagreements between the code and its documents, each shown by a run:

1. **A restart can record twice** (`spec/SECURITY-REVIEW.md:32`): a crash
   between broadcast (`main.go:200`) and UPDATE (`main.go:206`) leaves the row
   pending, and nothing looks M(c) up before sending again.
2. **A second run loses entries** (same lines): positions start at 0 without a
   link (`main.go:135-136`) and the index is upserted (`main.go:209`), so the
   walk from the indexed head no longer reaches earlier sent entries.
3. **A run can pass on a database it did not rebuild** (`main.go:262`): a
   primary-key update leaves the old cell behind, and the comparison counts
   cells and reads missing ones as the empty string.
4. **Delivery leaves the registered owner stale** (`SYS-LOG-005`): `deliver`
   re-keys (`edie2e/main.go:137`) and no UpdateOwner follows.

One more disagreement is plain from the code and has no run:
`001_te_schema.sql:25` calls `outbox.seq` the global commit order, and the writer
drains "in commit order" (`main.go:134`), but the trigger draws seq when the
statement runs (`001_te_schema.sql:105`), so of two transactions the later one to
commit may have the lower numbers, and the writer may record rows in another
order than they were committed in. What does hold is the order of the rows of
one cell (`LastChangeIsLive`), which is why `ThirdEntryLedger` demands no more.

Worth knowing, though no document we read says otherwise: token ids are not
checked at Mint, and VerifyLineage does not look at the type of a record
(`engine.go:361`), so one id in two types is one name; `hardene2e` prints that
its entry is de-finalised by the reorganisation also when an earlier block,
mined by another client, holds the entry and stays; a short confidential value
can end a run as leaked although the commitment hides it; `booking_confirmation`
and `customs_declaration` have edges out of states called final, and the engine
takes them.

Three restrictions are part of the statements and not of the models. Rows named
by a key-changing UPDATE are outside `LastChangeIsLive`, `EveryRowCaptured` and
`VerifyTellsTruth` (finding 3 is about them). `CommitmentsOpen`,
`RebuildIsSnapshot`, `AlarmMeansPending` and `ImplementsLedger` are about one
uninterrupted run (findings 1 and 2 are about several), and all of these but the
first, with `CleanRun`, about tables registered from the start. The theorems of
section 5 name these hypotheses, and `drain` satisfies each of them.
`CustodyRegistered` speaks only of clients whose calls succeeded: a client that
dies between re-keying and registering leaves the two stores apart, and no code
repairs that.

## 5. Proofs

Every property that a passing run checks is also a theorem for all values of the
constants, but for those listed at the end of this section.

Constants are arbitrary up to the assumptions stated where they are declared
(`SchemaAssumption`, `CaptureAssumption`, `WriterAssumption`,
`StateUtxoAssumption`, `TokenAssumption`, `TokenRecordAssumption`,
`DocumentAssumption`, `RecordAssumption`, `ConsignmentAssumption`,
`PaymentAssumption`, `DeliveryAssumption`, `MarketAssumption`, `NodeAssumption`,
`DrillAssumption`, `PlanAssumption`, `CodecAssumption`, `KeystoneAssumption`,
`EnvelopeAssumption`, `CustodyAssumption`, `CallerAssumption`); TLC evaluates
each on a run. They say that sets have the members the code names, that bounds
are numbers, that a missing record is neither a record nor an output, and, of
the two automata the consignment client relies on, that an instruction does not
settle a payment note and that `deliver` leads to `DELIVERED`
(`edi-dfa/document-defs.json`). `CallerAssumption` gives the arguments of the
pure packages their Go types, illegal ones included, and says that an empty text
is nobody's transaction id. `DrillAssumption` has the depth of two or more that
`hardene2e` waits for. `PlanAssumption` says what the three stream programs are:
they insert and update, and the confidential one is a single entry.

**TeCaptureProofs** proves `CaptureTypeOK`, `LastChangeIsLive` and
`EveryRowCaptured` for `CaptureSpec`. The first property is not inductive, since
a commit makes it depend on what the transaction held privately. `CaptureInv`
adds: open transactions have disjoint row locks (`LockInv`); identity values are
fresh (`SeqInv`); a transaction's outbox rows are newer than every committed row
of the same cell, which holds because it has the lock (`NewerInv`); and the
newest private row of a cell describes the private content (`WriteInv`). All
four kinds of statement are instances of one lemma (`RowStatement`).
`EveryRowCaptured` needs the same of private rows (`PrivateCaptured`): an update
of one column captures only that one, so the row it updates must have been
captured whole before, by this transaction or by a committed one.

**TripleEntryProofs, part one**, proves for `Spec`, with any number of writers,
crashes and restarts, `TypeOK`, `SentAnchored`, `IndexSound`, `ChainLinked`,
`CoinsOwned` and `VerifyTellsTruth`. `SystemInv` is `CaptureInv` with the
writer's part: the entry in hand between broadcast and index (`HandInv`), rows
read still exist (`TodoInv`), the in-memory position continues a real entry
(`PositionInv`), a writer's coin exists, is unspent and is no other writer's
(`CoinInv`, `SpendInv`). Steps that touch neither chain nor coins go through
`QuietStep`; `SendsStep` is the heart. A crash (`CrashStep`) only drops what one
writer held, so every part survives it. `VerifyTellsTruth` follows from
`SentAnchored` and `LastChangeIsLive`.

**TripleEntryProofs, part two**, proves what holds only under hypotheses, which
are in the statement of each theorem:

* `CleanRun`, for any number of writers, crashes and restarts, if no table is
  registered late and the wallet pays for every row (`Registrations = {}`,
  `MaxSeq <= Funding`). `CatalogInv` says the catalog is what it was; `CleanInv`
  that a started writer knows every stream (`ReadsInv`), can pay for the rows it
  has left (`FundsInv`), compares with an entry of the stream it looks at
  (`CompareInv`), and has marked and indexed the row in hand before it searches
  the transaction (`MarksInv`); and that an entry is a commitment exactly if its
  table is confidential (`FlagInv`), so a walk meets a form it refuses only in a
  stream with both flags.
* `CommitmentsOpen`, for one run of one writer without a crash (`OneRun`).
  `RunInv` ties the writer's memory to the chain: nothing is sent before its
  drain (`PhaseInv`), chain and rows done keep step (`InStep`), the entries of a
  stream link to one another in the order of the chain and their positions count
  up (`LinkInv`), memory points to the last of them (`MemoryInv`), and the index
  and blinding table hold all that are done (`IndexedInv`).
* `RebuildIsSnapshot`, `AlarmMeansPending` and `ImplementsLedger`, for one run with
  all of the above and no key-changing update (`Undisturbed`), beside any number
  of sessions that go on changing the tables. `EntryInv` says the entries record
  the rows read, each once and in their order (`ChangeInv`), that the snapshot
  is what the latest of those rows say, cell by cell (`SnapInv`), and that the
  heads the verifier reads are the last entries (`HeadInv`). From `WholeInv` the
  walk back from a head is the whole stream in order (`WalkFromHead`), its replay
  shows at each cell the latest entry of that cell (`ReplayShows`), and that is
  the snapshot (`RebuildHolds`). Of a stream with nothing pending the tables still
  are the snapshot (`LiveIsSnap`), and since rows that wait only become more
  while the tables are read, so is each table read so far (`CellsInv`): an alarm
  then contradicts `RebuildHolds`. With several columns the comparison reads only
  one of them (`liveCells`), and `AlarmMeansPending` is proved for
  `NumColumns = 1`, as the run has it.
* `LedgerImplemented` is by steps: a commit of a session adds waiting changes
  that are newer than all of their cell, which is the ledger's `Commit`
  (`LedgerCommits`); the writer's move to its next row appends one waiting change,
  the oldest of its cell, which is `Record` (`LedgerRecords`); all other steps
  leave the mapped state as it was.

Why these hypotheses: `Rekeys` is empty because of finding 3, one run because of
findings 1 and 2, `Registrations` because a table registered between two reads
is drained as plain (a hazard of its own). The funds serve `CleanRun`; the later
theorems share its invariant.

**WalkProofs** makes recursion over data provable. A recursive function is a
`CHOOSE` of a solution of its equation, so what it computes is known only once
a solution is shown to exist: `LooksBack` does it for functions that call
themselves on smaller numbers (`Lineage`, `Path`, `Current`), `FoldHasSolution`
and `FoldSegments` for folds of a sequence (`Replay`). The levels of a Merkle
tree and the way up it are shown to exist in the same way, where they are used.
Induction itself is by the least counterexample in a set of numbers
(`LeastNatural`, `SetInduction`, `GreatestBelow`).

**UtxoProofs** has what both engines rest on: a transaction is appended once
and takes what was unspent (`TakenAppends`), an input is older than its
transaction, and the fee output can be spent until a failing call has spent it.
`WalletSound` is not inductive alone: an input that names no output yet would
spend a coin the moment it is made, so `UtxoInv` adds `InputsExist`.

**TokenEngineProofs** proves `TokenTypeOK`, `WalletSound`, `TitlesHeld`,
`VerifiedState` and `ImplementsTitles` for `TokenSpec`. Every live output has a
handle that says what it is; a method adds one for each output it makes, or
returns an error and its transaction is in `lost`. `TrailInv` says what every
transaction on the chain looks like (`LegalTx`): it issues one token or continues
in output i the token its input i spends. So the outputs of one token form a
chain, what the walk back reads is the story told from the mint, and
`VerifiedState` follows by induction along it. For the refinement the walk goes
forward: `Current` unfolds one spending at a time (`Unfolds`), and `TitleInv`
says each mint ends in a live output of its own. Then a mint is an issue, a
transfer or redemption changes one title, a swap exchanges two in one step, and
a call that fails without reaching the node is a stutter.

**ConsignmentProofs, part one**, proves `DocTypeOK`, `StepsLegal`,
`LegalHistory` and `SingleState` for `DocSpec` and any tables. `StepsLegal` speaks of one edge: each
state output either originates at the initial state or continues an output its
own transaction spends, along an edge of its automaton, in the same document,
one further in the lineage. It is inductive only with `DocsOnChain`: a handle
describes the output it names, stale or not. `LegalHistory` is its consequence
along the whole walk (`LineageRuns`, by induction on transactions). For
`SingleState`, `LineInv` adds that a transaction spends the state it continues
and no other, so that the state outputs are a forest without branches in which
every output but one of each tree is spent. `OriginateMakes` and
`TransitionMakes` bring both methods into one form that the client's proofs use
again.

**ConsignmentProofs, part two**, proves `PaidOnDelivery`, `CustodyRegistered` and
`IntegrityExact` for `ConsignmentSpec`, each from the document engine's
invariant and what only the client knows. For the payment: documents under the
payment's id are payment notes (`NoteInv`); a state once reached stays reached
(`TakenReaches`), and a handle is evidence of its state (`HandleReached`).
For custody, `CustodyInv`: the consignment carries the hash of the goods
wherever it goes (`AnchorInv`), the store holds those goods from before the
consignment exists (`StoreInv`), and while no call has failed the one standing
consignment is under the registered owner or under the one the client has yet
to register (`CustodianInv`). `StepsLegal` holds of the consignment as well.

**DrillsProofs** proves `FinalMeansBuried`, `InChainSound` and `FailHasCause` for
`DrillSpec`: any programs `PlanAssumption` allows, any number of drills on one node, any
calls that err. What a drill may conclude rests on what the others cannot do to
the node between two of its calls, which is `DrillInv`:

* `NodeOK`: the blocks are a tree (`TreeOK`), and one line until something is
  undone (`LineOK`); no chain has a transaction twice (`OnceOK`); a transaction's
  id says what it carries (`IdsOK`).
* `LocalInv`, of each drill: what the wallet paid for is in a block or waits for
  one, also after a reorganisation; what a coinbase paid for is there as long as
  nothing is undone; what was walked back so far is the program from its end;
  and the block a hardening drill noted buries its entry.

Every call lets the node only grow (`Grows`), and a node that grows leaves the
other drills' `LocalInv` as it was (`OthersStay`), so each step is looked at
alone. `FailHasCause` needs two things more. A walk over the whole program passes
its last comparison: its replay and the program's own truth each choose a
solution of the same equation, so they are one function (`ReplayIsTruth`). And a
drill that has invalidated its block and is about to look again finds it invalid,
or another drill has had blocks reconsidered (`BadInv`), an invariant of its own
because only those two calls touch the invalid blocks (`Quiet`).

**LibrariesProofs** holds two things. For `MarketSpec` it proves `MarketTypeOK`,
`NeverOverpays` and `PayoutEarned`: what a task still owes (`Due`) is counted
with what was paid, and the calls of a task are exactly those that bring it into
its phase (`Brought`). For the pure packages the invariant only says that they
are called with a caller's arguments (`InputInv`); each property is then a fact
about operators, for arguments of any size:

* `SecretsAgree`, in a group of any order.
* `TagsBind` and `CodecExact`: while no length wraps, length words make the
  encodings injective, from a lemma on prefixes per kind of field. Both
  statements have that hypothesis where it is needed (`Fits`), and none on the
  octets a decoder is given. A decoder is followed by what it leaves
  of the octets (`Left...`): it accepts only what an encoder writes, and with
  injectivity it rejects everything else, cut, extended or altered.
* `InclusionExact`: the levels of a block's tree are followed down from the root.
  The way up from a leaf is a recursive function (`Climb`) that forgets nothing:
  equal roots have equal siblings and, with positions halved at each level, equal
  leaves (`ClimbInjective`). So no other transaction verifies at any claimed
  position. A block of one has an empty branch, whose text is one empty element;
  it is read back because the empty text is nobody's transaction id.
* `EnvelopesReadBack`: a script is taken operation by operation; the first
  envelope found is the one that was built, and the checks of its key pass.
* `BridgeReadsItsOwn`, the outbound half of `BridgeConsistent`: a message sent for
  a document to a partner that speaks X12 or EDIFACT is read back, if its type is
  permitted, as a message about that document; one sent to a partner whose
  standard is any other string is read by nobody.

Only model-checked:

* the liveness properties `RunDelivers` and `DrillsEnd`: liveness under fairness
  and ENABLED are out of the prover's reach;
* `ThresholdExact`: it interpolates over a prime field, and the provers have no
  theory of one (inverses by powers, sums and products of any length);
* the inbound half of `BridgeConsistent` and `DocumentsComplete`: statements
  about fixed tables as they are, of which TLC evaluates every entry. The tables
  of `DocumentTables` are built with `:>` and `@@`, which the provers'
  translations do not support.

## 6. Plan

The modules were written in the order of section 2: the writer and its outbox
first, then the engines on their common outputs, the consignment that composes
them, the market and the pure packages, the drills and the shrinking chain; each
run before its proofs.

What could still be added:

1. `CommitmentsOpen` and `ImplementsLedger` for several writers on disjoint
   streams, which no code enforces today.
2. Reorganisations under `TripleEntry`. The writer marks a row sent for good
   after one block and has no step that could react, so what stays true then is
   what `Drills` shows of the node calls.
3. A theorem of `ThresholdExact`, from assumptions that make the field one.

## 7. Not modelled

* Primitives of cryptography: ideal. Hashes, HKDF, HMAC are injective, AES-GCM
  (`aead.go`) and `EncryptShare` hide and open, signatures bind key and amount.
* `StorageLayout.Valid` and `BuildBareMultisig` (`custody.go`): a few
  comparisons, and one byte layout.
* Overlay: one hash and one addition per path element; with an ideal hash
  nothing remains to check. PDF rendering: layout. TypeScript and C ports: held
  to the Go vectors by their own tests.
* `tokene2e` is one path of TokenEngine, `spvtestnet` one call of MerkleProofs on
  data of a public explorer, `fundprobe` prints a balance. The dedup part of
  `hardene2e` (lines 120-137) asks a map of its own twice and cannot fail.
* Fees (there are none in these transactions), script execution: that an
  envelope is spendable by its key is a statement on its operations.
* TRUNCATE (fires no row trigger), rows older than their table's registration
  (`EveryRowCaptured` speaks only of tables registered from the start).
* The chain of `TripleEntry`, `TokenEngine` and `DocumentEngine` never shrinks;
  that of `Drills` does.
