# AuraCash: a verification project

TLA+ models of the AuraCash node, its network manager, its RPC server and
client, its mempool, its miner, its wallet and the formats they exchange, the
TLC configurations that check them, and proofs that TLAPS checks. Paths are
those of the repository, under `src/`.

## 1. The system

### Components, their state and their operations

| Component | Source | State | Operations that change it | Model |
|---|---|---|---|---|
| Transactions and blocks | `include/CoreTypes.h`, `src/CoreTypes.cpp` | none (data) | hashes, wrapping sums, coinbase test, serialization | `Transactions`, `Blocks`, `Wire` |
| UTXO set | `include/UTXOEngine.h`, `src/UTXOEngine.cpp` | `m_utxos`, `m_spentThisBlock` | AddCoin, RemoveCoin, ValidateAndApplyInputs, CommitBlock, RevertBlock, Clear | `UTXOEngine`, `UTXOSet` |
| Consensus engine | `src/Consensus.cpp` | none of its own (a reference to the UTXO set) | ValidateBlock | `Node`, `Pow` |
| Node process | `src/main.cpp` | `blockchain`, the UTXO set | startup, restart, `submitblock` | `Node`, `NodeSupply`, `Mining`, `Wire`; promise: `Ledger` |
| Emission schedule | `src/EmissionModel.cpp` | none | reward of a height | constant of `Mining`, limit in `MCNodeCap` |
| Mempool | `src/mempool/` | `m_txs`, `m_spentOutputs` | add_transaction, remove_transaction | `Mempool` |
| RPC server | `src/rpc/RpcServer.cpp` | `m_running`, `m_base`, `m_http`, `m_thread`, `m_methods`, a mutex | register_method, start, stop, handle_request | `RpcServer`, `RpcCall` |
| RPC client | `src/rpc/RpcClient.cpp` | a Curl handle | call, batch_call | `Mining`, `RpcCall` |
| JSON library | `src/rpc/Json.cpp`, `src/rpc/Json.h` | none | dump, escape, parse | `Json`, `Bytes` |
| Miner | `src/miner/Miner.cpp` | `g_running`, `totalBlocksMined`, the block at work | the loop of main | `Mining`, `Wire` |
| Wallet | `src/wallet/` | none between calls | create_transaction | `Wallet` |
| Network manager | `src/net/NetManager.cpp` | `m_peers`, `m_peerMap`, `m_listening`, a mutex, sockets | startListening, stopListening, connectToPeer, the workers, broadcast*, request* | `NetManager` |
| Keccak, AuraHash, secp256k1 | `src/Keccak256.cpp`, `src/AuraHash.cpp`, `src/crypto/` | none | pure functions | not modelled, idealised |

### How they interact

* Miners and wallets call the node over HTTP. The RPC server's single event
  thread runs the handlers of `main.cpp`, one at a time, under `m_methodsMutex`;
  the chain and the UTXO set are touched by no other thread.
* `submitblock` calls `ValidateBlock`, which calls the UTXO set for each
  transaction and commits; then the handler itself removes and adds coins,
  pushes the block, and calls `broadcastBlock`, which sends on every peer's
  socket under `m_peerMutex`. A remote side that does not read holds up that
  send, with it the mutex, and with it the RPC thread.
* A wallet selects coins from what `listunspent` answers and creates a
  transaction. `sendrawtransaction` computes its id and forgets it: no program
  of the repository puts a wallet's transaction into a block, so whoever does is
  part of the environment.
* Requests and replies are JSON texts; a block is a string of hex digits in one.
* The network manager runs an accept thread, a worker for each connection and
  the callers' threads. Blocks and transactions received from peers are dropped
  (`processMessage`), so nodes share a chain only through common RPC clients,
  and there is no choice between chains to model, although `README.md` names a
  longest-chain rule.
* The mempool is created by `main.cpp` and never called.
* Nothing is stored on disk: a node that is started again starts from genesis,
  while its miners go on.

### What is hard, and what makes each component correct

* **UTXO set and node**: a refused block leaves its spends recorded
  (`Consensus.cpp:40` returns without `RevertBlock`), and the next commit erases
  those coins. Coins are removed twice (by the commit and by the handler) and
  added in between. A coinbase with the content of an earlier one has the same
  outpoint, and may be worth anything. Sums wrap. Correct: no coin from nothing,
  no double spend, no inflation but by a total that wraps, exact coins from a
  clean state, damage only where a refused block left a record, and never more
  coins than the supply that the documents promise.
* **Miner and restarts**: stale templates, replies that are late or lost, blocks
  served when their sender has given up, several miners paid to one address,
  templates and blocks of a chain that a restart has lost. Correct: the chain
  pays the schedule, counts never exceed it, the coins are those of the present
  chain, and it grows.
* **Wallet**: a listing that is stale when it is used, two calls that promise the
  same coins, transactions that come again or in conflict, unsigned arithmetic
  that wraps. Correct: what a wallet creates is accepted while its coins are
  there and pay the fee, no coin is spent more often than it was created, and
  money comes only from what is asked for beyond 2^64.
* **Formats**: strings that need escapes, integers that change their type on the
  way, doubles that are rounded or out of range, bodies of any content, lengths
  and widths of the block format. Correct: calls, results and blocks arrive as
  they were sent, and answers have the id of their request.
* **Target**: the node shifts a 32-bit mantissa by up to 2016 bits, twice.
  Correct: the target is the one that the comments give.
* **Network manager**: workers run before their peer is registered; dead peers
  keep descriptor numbers that new connections get; answers of workers and
  broadcasts share sockets without a common lock. Correct: workers keep to their
  own connection, no started peer is lost, frames of callers stay whole,
  descriptors come back, calls return.
* **RPC server**: stop races the start of the event loop and its wait; a failed
  start leaves dangling pointers; a body that is not JSON ends the process.
* **Mempool**: conflicts over several coins, refusals at a later input, coins
  that change between additions.

`PROJECT.json` lists every hazard at its line, with the properties that
would catch it going wrong.

## 2. Modules

```
Transactions ── UTXOEngine ── UTXOSet
      │             └──────── Node ── NodeSupply (MCNode ── MCNodeCap)
      ├── Blocks ── Ledger ◁─refines─┘   ▲
      │       ├──── Mining  (INSTANCE Node, INSTANCE Ledger)   (MCMining)
      │       └──── Wallet  (INSTANCE NodeSupply)              (MCWallet)
      └── Mempool
RpcServer                      (MCNodeParts: UTXOSet, Mempool, RpcServer)
Bytes ── Json ── RpcCall ─┬─ Formats (MCFormats)
      ├─ Wire ────────────┘
      └─ Pow
NetManager (MCNetManager)

Transactions ── SumsProofs ── NodeProofs    (NodeSupply, Ledger)
                   │    └ INSTANCE ─ WalletProofs   (Wallet)
                   ├───────── NodePartsProofs  (UTXOSet, Mempool, RpcServer)
                   └───────── MiningProofs  (Mining)
TextProofs (Json, Wire) ── FormatsProofs (Formats)        NetManagerProofs
```

* **Transactions.** A transaction id is the hash of the whole transaction, so a
  transaction is its id: `Tx` has an element for each content
  (`TransactionsDiffer` shows that different contents have different bytes).
  Amounts are added modulo `Wrap`, which stands for 2^64; `WorthOf` is the exact
  value of a set of coins, and `BeyondTotal` what the outputs of a spend are
  worth beyond the total that the code computes.
* **UTXOEngine.** `m_utxos` is its key set: every caller adds the output that
  the outpoint names, so the outpoint determines the value. The scan of one
  transaction is `Accepts` (what it returns) and `Recorded` (what it leaves in
  `m_spentThisBlock`, whatever it returns).
* **UTXOSet.** The class under any order of calls. A history variable keeps the
  transactions validated since the last commit, revert or clear. `Scan` is the
  loop of the code, against which `ScannedInOrder` states both closed forms.
* **Blocks.** A block hash stands for the header and all its ancestors, not for
  the transactions: the node never compares the Merkle root with them. `IsLive`
  and `Live` say what a standard UTXO set of a chain is.
* **Node.** `SubmitBlock` is `RejectHeader`, `RejectSpend` or `AcceptBlock`, the
  three ways through `ValidateBlock` and the rest of the handler; `ApplyTxs` is
  the handler's loop in closed form, and `AppliedInOrder` states that it is
  `ApplyLoop`, the loop itself. Proof of work is a set of nonces that pass.
* **Ledger.** What `README.md` promises of the node: one chain that only grows,
  linked, spending live coins. Its only variable is the chain. `Node` implements
  it with the identity on `chain`. `LivesSpec` is a ledger that may forget its
  chain: what a node in memory that is started again implements.
* **NodeSupply.** What coins are worth against what coinbases have issued, and
  how much transactions have paid beyond their totals. `MCNodeCap` adds the
  limit of `EmissionModel.h` and a coinbase beyond it.
* **Mining.** Miners around `N == INSTANCE Node`. `FindNonce` is `AuraHashMine`;
  `Fail` is `RpcClient::call` returning false, after which the block may still
  be served (`late`); `Restart` is the end of the node's process and a new
  start, which cuts any of the calls under way. `lost` counts the mined blocks
  on chains lost that way.
* **Wallet.** Callers of `create_transaction` around `N == INSTANCE NodeSupply`:
  the listing is one step, selection and creation another. `Written` and `Read`
  are the 20 bytes that the wallet and the node take from an address; for the
  empty address the node lists every coin. Any call may give up, since keys,
  and with them a `sign` that refuses, are not in the model.
* **Pow.** The target that the node computes from compact bits, byte by byte.
  From exponent 7 on each of its two shifts is by 32 bits or more, which C++
  leaves undefined: it gives what the shift instructions of the platforms give,
  or zero, and the target is one of those that two such shifts lead to.
* **Bytes.** What texts, blocks and targets are made of.
* **Json.** Values, `Dump`, and the parser as operators for the functions of
  class `Parser`; each gives what it has read and the place after it. The
  recursion of the code over values is that of two functions: `Reader(t)` gives
  what is read from each place of the text, `Dump` the text of each value. An
  object is the sequence of its members in the order of `std::map`. `MaxNesting`
  is the depth of values that the stack of the process has room for. A double is
  an element of `Doubles`: `Stod` is what `std::stod` makes of a text, nothing if
  it throws, and `Shown` the text that an `ostream` prints, six digits of it.
  Both are constants, since they are the C++ library's.
* **RpcCall.** One exchange: the body that the client writes, what the server
  finds in it, the handler's result or exception, the reply, and what the
  client makes of it. When exchanges happen is the subject of `RpcServer` and
  `Mining`.
* **Wire.** The bytes of transactions and blocks, their hex digits, and the
  parser of `submitblock`.
* **Formats.** `RpcCall` with `submitblock` calls that carry blocks.
* **NetManager.** A step is the code between two points where another thread may
  get in. Frames are sent part by part, and the parts reach the connection that
  the number refers to at that moment. `out` records what was sent on a
  connection.
* **RpcServer.** The owner's thread, the event thread and the clients' requests.
  The event loop is external: entering it forgets an earlier break
  (`Dispatch`), and a break does not wake it, since the code does not enable
  libevent's thread support.

Operators whose comment begins with `[faulty: ...]` belong to no specification.
Each changes the operator below it in the way a plausible mistake would; the
properties have been seen to fail with it in place. All recursion is that of
functions, or of folds of the community modules.

## 3. Runs

| Run | Properties | Bounds, and what they reach |
|---|---|---|
| `node` | types, `CoinsAreLive`, `ChainSpendsOnlyLive`, `SupplyIssued`, `ExactWhenClean`, `AppliedInOrder`, `LossOnlyOfMarked`, `ImplementsLedger` | Nine transactions: conflicts, splits, joins, an input named twice, none, too much output, outputs that wrap, the genesis coinbase carried again. Timestamps to 3, so three blocks after genesis; refused blocks without bound. A coin is created, marked, lost, created again and spent within that depth. |
| `node_parts` | `BatchSpendsOnce`, `BatchIsPaid`, `ScannedInOrder`; `NoConflicts`, `RefusalsHaveCause`; types, `BaseOutlivesLoop`, `HandlerNotReplaced`, `RequestsAnswered`, `StopEndsWithNextRequest` | `UTXOSet`, `Mempool` and `RpcServer` side by side: they share no state, so a behaviour calls only one of them, and the states are the sum of theirs. Six transactions, one with outputs that wrap to no more than its input; at most three validated in a batch (two that conflict and one refused between them), any number of batches and of changes of coins. The same transactions and five UTXO sets for the pool, no bound on the sequence. Two requests of any kind, two starts (one after a stop), two registrations of a name |
| `mining` | types, `EmissionSchedule`, `CountedAreOnChain`, `CoinsOfThisChain`, `ChainKeepsUp`, `ImplementsLedgerInLives` | Two miners paid to one address, clock to 2, one fault: a failed call or a restart. Two miners may build the same block, and a miner may find one of a lost chain again. |
| `wallet` | `IssuedAreAccepted`, `SpentNoMoreThanCreated`, `WalletsMakeNoMoney` | Two interchangeable callers, three kinds of request (to oneself, to another and from the empty address; one has an amount and a fee that wrap), two transactions created, of up to three coins, four blocks of one or two transactions, a coinbase that may come again, `Wrap` = 16. Two transactions that promise the same coin, one that is carried twice, and requests that wrap whose transaction the node accepts, and refuses, all occur. |
| `formats` | `CallsReachTheirMethod`, `ResultsComeBack`, `RepliesMatchRequests`, `BatchRunsFirstCallOnly`, `SubmittedBlocksArrive` | Strings with every kind of escape; integers at both ends of scaled-down 64-bit types and of the digits that decide between them; doubles of three digits of which two are printed, as parameters, results and ids, one out of range and one whose printed digits are; a good request with every byte left out, several replaced, and every prefix; blocks of up to two transactions with and without inputs, outputs and scripts |
| `net_sockets` | `WorkersOwnTheirSocket`, `StartedPeersAccountedFor` | Two connections, two hosts, two numbers that are used again, one call, one version message. `out` is left out of the view: no guard and neither property reads it. Connections, hosts and callers are interchangeable. |
| `net_live` | `CallersFramesOrdered`, `ConnectionsGetListed`, `ClosedConnectionsReleased`, `CallsReturn` | One connection, two callers that compete, two calls |
| `node_lost_coins` | `CoinsAreExact` is violated | as `node` |
| `node_supply` | `SupplyIsCapped` is violated | as `node`, with a coinbase beyond the limit and no total that wraps |
| `net_framed` | `StreamsAreFramed` is violated | One connection, one caller |
| `wallet_unseen` | `PaymentsAreListed` is violated | as `wallet` |
| `pow_target` | `NodeTargetIsFormula` is violated | Every exponent, with mantissas of four byte values |

Deadlock is checked in the runs of the node, where some call is always possible.
In the others the system may stop: clock, calls and transactions are bounded,
miners quit, an exchange is over, the process ends.

The scaled constants are where a case begins, not how long it lasts: `Wrap`,
`MaxSigned` and `MaxUnsigned` stand for 2^64, 2^63 - 1 and 2^64 - 1,
`ShortDigits` for 18, `HashSize` for 32, and the models compare with them and
count modulo them as the code does. `MaxNesting` is beyond the length of every
text of the run.

### What the violations say

* `node_lost_coins`: a block refused for a transaction marks coins that the
  transactions before it spend; the next accepted block erases them. The coins
  stay live by the chain and can never be spent.
* `node_supply`: `README.md:25` gives a maximum supply, and `EmissionModel.cpp:29`
  a check that its own next line says is missing. `ValidateAndApplyInputs` takes
  every coinbase, whatever it is worth, and no other check looks at it.
* `pow_target`: `Consensus.cpp:54`, repeated at lines 66 and 90, gives the target
  as mantissa * 2^(8*(exponent-3)). The code computes another one, for small
  exponents by shifting right twice, for others by placing bytes of a shifted
  mantissa first; no outcome of an undefined shift helps. The bits of the genesis
  block, which every template copies, are among those with undefined shifts
  (exponent 32), so that two builds of the node may take different blocks.
* `net_framed`: the worker's handshake and a broadcast mix on the socket.
* `wallet_unseen`: a wallet takes the first 20 characters of an address, the node
  decodes the address. Only an address that decodes to fewer than 21 bytes and has
  fewer than 40 characters means the same to both, so what wallets pay, their own
  change included, is on the chain and is not listed for the address it is for.

### What the models show besides

* Totals of outputs wrap at 2^64 (`CoreTypes.cpp:44-48`), so a transaction may
  create any amount although `UTXOEngine.cpp:62` compares the totals.
  `SupplyIssued` states that this is the only way: the coins are worth at most
  what coinbases have issued and what totals have lost in wrapping
  (`Overflowed`).
* Two blocks of the same reward and payout script carry one and the same
  coinbase, and the second pays nothing (`UTXOEngine.cpp:14`): the coins of
  `Mining` are those that are live, not one for each block.
* `m_peers` keeps dead peers with their descriptor numbers, so a new connection
  with the same number gets a broadcast twice, and `getPeerCount` counts
  connections that are gone. A worker that ends erases the map entry of its host
  even when a newer connection of that host has replaced it, and
  `requestBlocks` then finds nobody; a worker that ends before its peer is
  registered leaves an entry that nothing erases, and `connectToPeer` refuses
  that host from then on.
* A double that a client sends comes back with six digits, as an integer if they
  are whole; `1e999` as an id ends the node, since `stod` throws; and a double
  near the smallest may be printed as a number that `stod` refuses, so that the
  reply cannot be read. `RepliesMatchRequests` says when. Handlers and clients of
  the repository make no double but the codes of errors, which six digits hold.
* A body that is no JSON ends the node: the parser throws, outside the try block
  of `handle_request` and below a C callback (`RpcServer.cpp:103`), although
  `Json.h:86` says that `parse` returns null on error and `RpcServer.cpp:104-107`
  has an answer for null. So do a version and a method that are no strings.
  `RepliesMatchRequests` says that nothing else does.
* `batch_call` cannot succeed with this server (`BatchRunsFirstCallOnly`).
* A request whose amount and fee add up to 2^64 or more passes the wallet's test
  of its funds (`Wallet.cpp:134-136`). Its transaction pays 2^64 more than its
  coins are worth, and the node takes it if they pay the fee
  (`IssuedAreAccepted`, `WalletsMakeNoMoney`).
* Nothing checks the bits of a submitted block against its parent's.
* `connectToPeer` looks for the host before it connects and adds the peer after,
  with the mutex released in between: two peers for one host, which `NetManager`
  allows.

### Fairness

* `Mining`: the clock, the miners and the node's service are weakly fair, since
  operating systems schedule them. Mining ends (weak fairness), and again and
  again with a nonce that also passes the node's own check (strong fairness):
  header hashes are as good as random, and a target that is not zero lets some of
  them pass. Which target the node has is a matter of the build (`pow_target`);
  with one of zero the chain would not grow. Failures, restarts, stops and late service
  are not fair: they need not happen.
* `NetManager`: every thread that can go on does (`ThreadsRun`). The remote
  sides read or close (`RemotesRead`): the code cannot enforce this, since it
  sets no timeout, and without it no call need return: the liveness properties
  say nothing of a peer that stays connected and never reads. Nothing makes a
  connection, a call or a message happen. Calls are finitely many, so weak
  fairness is enough for a thread that waits for the mutex.
* `RpcServer`: the event thread and the join go on, and handlers return, which
  rests on the same assumption about remote sides.

## 4. Proofs

All theorems hold for every value of the constants that satisfies the named
assumptions of the modules, which TLC evaluates in the runs:
`TransactionsAssumption` (amounts are below `Wrap`), `BlocksAssumption` (the
genesis block has one coinbase with one output), `MiningAssumption` (a miner's
coinbase has one output, the reward; miners are finitely many), and for each of
the other components the types of its parameters. Nothing is assumed about the
number of transactions, callers, connections, hosts or descriptors, and the
bounds that the runs need may be any number. For texts, `RpcCallAssumption` says
that names and complaints are bytes, that parameters and results are values
nested so deep that a request or a reply around them is one too, that a foreign
text is shorter than the stack is deep, that the number of calls in a batch
and the codes of errors are integers of 64 bits, that what clients pass and
handlers return holds no double that cannot be read again, and that a double
holds an error's code and prints it; `DoublesAssumption`, that what is printed
for a double looks like a number; `FormatsAssumption`, that blocks
have fields of the widths the code gives them.

Every safety property of the runs is proved; liveness is checked by TLC alone.

**Node (`NodeProofs`).** `NodeInv` joins the types, "every coin is live", "every
record is a coin" and "the chain is linked and spends only live coins". None of
these is inductive alone: that an accepted block spends live coins needs that
coins are live; that coins stay live after a commit needs that the block's
spends are what the commit removes; that a stale record does no harm to a coin
created later under the same outpoint needs that records are coins. From it
follow `TypeCorrect`, `NoCoinFromThinAir`, `NoMarkWithoutCoin`, `NoDoubleSpend`,
the action properties `AcceptanceIsExact` and `OnlyMarkedCoinsAreLost`, and the
refinement `NodeImplementsLedger`: an accepted block is a step of the ledger, a
refused one a stutter. `LedgerSafe` shows what the ledger itself keeps.

* `BlocksAreAppliedInOrder`: `ApplyTxs` equals the loop of `submitblock`. After
  k transactions the loop holds the coins of the closed form for the first k
  (`LoopIsClosedForm`).
* `SupplyIsIssued`: `SupplyInv` adds that coins are finitely many and are outputs
  of transactions, without which a sum over them means nothing. For a block,
  three facts meet (`BlockPays`): what a transaction creates is its total and
  what is beyond it; an accepted total is at most the input total, which is at
  most the worth of the coins named; and those coins, each named once in the
  block, leave the set with the commit. The last is where a coin counted twice
  would show.

**UTXO set (`NodePartsProofs`).** `BatchInv`: under any order of calls, every
record names an input of a transaction of the batch, and what an accepted one
spends is recorded. The next one that is accepted names no record, which gives
`BatchesSpendOnce` and, with the worth of disjoint sets of coins, that the
records are worth the totals of what was accepted (`TotalsArePaid`);
`BatchesArePaid` adds what is beyond those totals on both sides. `ClosedFormsAreTheLoop` shows that `Accepts` and `Recorded`
are what the loop computes, at whichever input it stops (`ScanAfter`).

**Mining (`MiningProofs`).** `ScheduleInv` says of every template, every block
at work and every late block that it pays the reward of the height after its
parent, wherever that parent is; the parent-hash check of the node then gives
`MinersKeepTheSchedule`. Because those blocks hold nothing but coinbases, a
served block is a step of the ledger and a restart its `Forget`
(`MiningImplementsLedgerInLives`), and nothing is ever recorded or spent
(`CoinsInv`), so that the coins are those that the chain has created
(`MiningKeepsCoinsOfThisChain`). `CountInv` makes `CountedAreOnChain`
inductive: a reply on its way is counted with those already received
(`Counted`), since receiving it adds no block to the chain; that sum stays below
the length of the chain and `lost` together, which a restart leaves as it is.
The bound that `MiningTyped` gives on a miner's count follows from that sum, not
from any step of the miner alone.

**Wallet (`WalletProofs`).** The lemmas about one `submitblock` in `NodeProofs`
are stated for any block of the node, not for its `Next`, so that the wallet,
whose steps are other ones, takes them through `NP == INSTANCE NodeProofs`.
`WalletInv` adds to the node's invariants that

* what was issued is well made (`WellMade`): its inputs are distinct, its totals
  pass exactly if its coins pay the fee, and its outputs are worth its total, or
  2^64 more if amount and fee wrap (`OutputsHoldTheRest` follows the unsigned
  numbers through both cases). Coin selection gives this, whatever the listing
  was. `WhatIsIssuedIsAccepted` follows without a word about when the transaction
  arrives;
* the blocks carry coinbases and what was issued (`BlocksCarry`), so that the
  totals on the chain lose only what wrapping requests make
  (`OverflowIsInflation`), and `SupplyIssued` of the node becomes
  `NoMoneyFromWallets`;
* every coin is spent at most as often as created, and once less while it is in
  the set (`BooksKept`). The second half is what makes the first inductive: an
  accepted spend takes the coin out of the set. `NoCoinIsOverspent` is the
  first half.

**Network manager (`NetManagerProofs`).** `SocketInv`: a worker's number refers
to its own connection, because the number is free when a connection gets it and
only its worker closes it. `ListInv` needs that a peer without a connection is
nowhere: a thread has a peer in hand exactly from the connection to the
registration. `FramesInv`, for `CallsDoNotMix`, joins to `SocketInv` that only
the holder of `m_peerMutex` is in the middle of a frame (`LockInv`), that
nothing was sent on a connection before it was made (`QuietInv`), and
`StreamInv`: on an open connection, the last message of a caller is either the
last part of its frame or followed by the part that the holder of the mutex
sends next to that connection. A caller whose number has passed to a new
connection in the middle of a frame sends the rest of that frame there; that
connection then has no message of a caller before it, which is why `QuietInv`
is needed.

**Mempool (`NodePartsProofs`)**: the index of spends is exactly that of the
pending transactions, which gives `PendingDoNotConflict` and `PoolHasNoMemory`.

**RPC server (`NodePartsProofs`)**: the event thread exists only between start
and the end of stop, which gives `ServerTypes`, `NothingFreedIsUsed` and
`RunningHandlersStay`.

**Bytes and strings (`TextProofs`).** Whoever reads a text reads it in the middle
of another one, so every lemma about something written is stated with
`Holds(t, i, s)`: t has the bytes of s from place i on. Then the reader at i gives
what the writer was given, and the place after s, whatever stands before and
after it. With a number (`NumberIsRead`), a script, a vector (`CountedIsRead`, by
induction over its items) and the fields of an input, an output, a transaction
and a block this leads to `BlocksArrive`, and, since a reader gives one answer, to
`TransactionsDiffer`. `DecimalIsRead` is the same for integers, at both of the
points where they change their type; `QuotedIsRead` for strings, by induction
from their end: a run of plain bytes, one escape, and what follows. What the
writer takes for the end of a run, the byte to escape, is not what the reader
takes for it, which is where the two could go apart.

**Values (`FormatsProofs`, to `RoundTrip`).** Three recursions have to be shown to
have a meaning before anything can be said of them: `Reader` goes to later places
of a finite text, `Dump` and `AsRead` to values of smaller depth, `ValuesTo` to
lower levels (`ReaderSteps`, `DumpSteps`, `AsReadSteps` and `ValuesSteps`; the
first three rest on `RecursionExists`: there is a function with what is asked of
it, if that depends only on what it gives at arguments of smaller rank). What is read from a text is
a value no deeper than the text is long (`ParseTyped`): without it nothing would
be known of foreign texts. `RoundTrip` then goes from one level to the next: if
the values inside are read where their texts are (`IsRead`), so are the items
between commas and brackets, from the last to the first. For members, the parser
puts each one in its place in the map (`WithMember`), and the order in which dump
writes them makes this the first place every time (`MembersAreRead`).

**Exchanges (`FormatsProofs`).** `FormatsInv` says of every exchange what its parts
are made of: the request of what was asked, the call that was handled and the
answer of the request (`Answered`), the outcome of the answer. Each handler keeps
it (`AskKeepsInv`, `ServeKeepsInv`, `ReceiveKeepsInv`). The five properties follow
from it by the round trip of requests (`RequestArrives`, and `BatchArrives`, where
the server reads the first of several texts) and of replies (`ReplyRead`), which
for a foreign request carry an id of any depth. `BlocksAreSubmitted` joins the
round trip of JSON with that of hex digits and that of blocks.

**Sums (`SumsProofs`).** The models use the folds of the community modules,
which are recursive functions over the subsets of a set. The library's induction
theorems take an operator as a parameter and cannot be used, so induction is put
into sets: `NatInductionOnSet` and `FiniteSetInduction` are about the set of the
objects for which a statement holds, and are proved by the least counterexample.
From them follow existence and uniqueness of `SumFunctionOnSet`, how it changes
with its domain and its values, and for amounts: the worth of unions and
differences of sets of coins, and that a wrapped total is at most the exact one
and equal to it when that is below `Wrap`.

### What is only model-checked

* Liveness, which the prover does not handle: `RequestsAnswered`,
  `StopEndsWithNextRequest`, `ChainKeepsUp`, `ConnectionsGetListed`,
  `ClosedConnectionsReleased`, `CallsReturn`.

## 5. Idealisations and what is not modelled

* Keccak-256 has no collisions. Signatures and scripts are never checked by the
  node, and are not modelled; a wallet's signature is a function of the
  transaction and the key. `AuraHash`, Keccak and secp256k1 work on 64-bit words
  and 256-bit numbers, out of TLC's reach.
* A raw block shorter than its counts say is read past its end (`main.cpp:190`).
  What that gives is not bounded by anything the models have, so such texts are
  outside `Wire`. Other parameters that do not parse throw before anything is
  changed.
* What a double is, what `std::stod` makes of a text and what an `ostream` prints
  are constants: the proofs hold for any, the run has doubles of three digits.
  The codes of errors, -32600 to -32603, are -10 to -13 in `RpcCall`, so that the
  scaled-down doubles hold them.
* The floating-point formula of the schedule. `Mining` takes any function of the
  height that may repeat a value. That the node never compares a coinbase with
  it is part of the model. The miner's own target (`Miner.cpp:254-274`) is left
  out: its hashing loop returns some nonce.
* The destructor of the network manager: `main` reaches it only when the RPC
  server does not start (`main.cpp:252-254`), and ends then. It races the
  accept thread and the workers without the mutex on objects that are freed
  under them, so nothing could be stated that holds.
* The map of hosts is modelled and decides whom a request goes to; no property
  is about it (see above for what goes wrong).
* `generate_keypair`, `get_balance`, `getblockchaininfo` and `getbalance`, which
  change nothing, and the command lines of miner and wallet. (`createtx` of
  `wallet_main.cpp` compares the key with a null pointer at line 101, which C++
  leaves undefined: `Wallet` is about its library's callers.)

## 6. Plan

1. Done: every component above but the cryptography, with the runs of section 3;
   every safety property of these runs as a theorem.
2. Proofs: the types of `NetManager`, whose parts are in `FramesInv`; an abstract
   mempool (a set of transactions without conflicts) and the refinement of it; an
   abstract ledger of coins that `NodeSupply` implements.
3. Models: the destructor of the network manager once the code gives it an
   order; several nodes that share RPC clients.
