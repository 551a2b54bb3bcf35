# SQLite4M: models, checks and proofs

This directory holds TLA+ models of SQLite4M, a fork of the experimental SQLite4
with pluggable key-value storage engines (in memory, BerkeleyDB, WiredTiger), a
two-phase-commit API and a Lua binding.  The models are about what the program
adds to a plain key-value store and what is hard to test in it: first of all
**nested transactions**, from the SQL commands of an application down to the
change records, handles and reference counts of three storage engines; then
**state that outlives the step that read it** (schemas and compiled statements,
cursors, shared handles of several threads, objects of Lua's collector); and the
**encodings, numbers and containers** below them, and **full-text search** beside them.

Paths below are relative to `src/sqlite4-build/src/` unless they start with
another directory.  Run the tools in this directory, for example

    tlc -workers 2 -config KVMemMC.cfg KVMem.tla
    tlapm KVMemProofs.tla


## 1. The system

### 1.1 Components

| component | sources | state | operations | modelled in |
|---|---|---|---|---|
| Storage engine interface | `kv.h`, `kv.c` | `iTransLevel` of each store | xBegin, xCommitPhaseOne/Two, xRollback, xRevert, xReplace, xDelete, cursors | `KVStore` |
| In-memory engine | `kvmem.c` | AVL tree of `KVMemNode`, `apLog[]` of `KVMemChng`, cursors, counts of references | the same | `KVMem`, `KVMemTree`, `KVMemProofs` |
| BerkeleyDB engine | `kvbdb-build/kvbdb/kvbdb_common.c` | `pTxn[]`, nested `DB_TXN` handles, one per level; a cursor per client, one shared for reading; buffers | the same, with prepare | `KVEngine`, `KVBdb`, `KVBdbCursor`, `KVBdbProofs` |
| Dictionary of open BerkeleyDB stores | `kvbdb-build/kvbdb/kvbdb.c`, `kvbdb_common.c` | one node per name with environment, database, count of references and mutex, shared by all threads | open, close | `KVBdbDict`, `KVBdbDictProofs` |
| WiredTiger engine | `kvwt-build/kvwt/kvwt_common.c` | one session and its one transaction, cursors for each level | as the other engines | `KVEngine`, `KVWt` |
| Transactions of a connection | `vdbe.c` (OP_Savepoint, OP_Transaction, OP_FkCounter, OP_Halt), `vdbeaux.c` | `pSavepoint`, `nDeferredCons`, statement transactions, counts of active statements | BEGIN ... ROLLBACK TO, the start and the end of statements | `SqlTxn`, `VdbeTxn`, `VdbeTxnProofs` |
| Two-phase-commit API | `vdbeapi.c` | that of the connection | `sqlite4_txn_begin`, `_rollback`, `_commit_phase_one`, `_commit_phase_two`, `_commit` | `VdbeTxn` |
| Foreign keys | `fkey.c` | two counters | when they move | `VdbeTxn` |
| Schemas, preparing and stepping | `build.c`, `prepare.c`, `callback.c`, `vdbeapi.c`, `vdbe.c` | the schema in memory, its cookie and generation, the programs compiled against it | `sqlite4_prepare`, `sqlite4_step` with its retries, OP_VerifyCookie, OP_ParseSchema, OP_NewIdxid | `Schema` |
| Encodings | `varint.c`, `vdbecodec.c` | none | encode, decode, compare | `Varint`, `KeyEncoding`, `RecordEncoding` |
| Decimal arithmetic | `math.c`, `util.c`, `vdbe.c` | none | on `sqlite4_num` and on integers that overflow into it | `Decimal` |
| Row sets, hash tables | `rowset.c`, `hash.c` | containers of one thread | insert, test, find, iterate | `RowSet`, `Hash` |
| Full-text search | `fts5.c` | index entries, sizes of rows and totals in the store; cursors of a query | update by each statement that writes, MATCH, count of matches | `Fts5`, `Fts5Query`, `Fts5Parse` |
| Buddy allocator | `mem5.c` | pool, control bytes, free lists | malloc, free, realloc | `Mem5` |
| Lua binding | `lsqlite4-build/lsqlite4/lsqlite4.c` | userdata of Lua's collector, its tables of statements and functions | open, prepare, step, finalize, close, collect | `Lsqlite4`, `Lsqlite4Proofs` |
| Other allocators, mutexes, environment | `mem*.c`, `mutex*.c`, `env.c`, `main.c` | configuration | | not modelled |
| Parser, code generator, SQL functions | `parse.y`, `select.c`, `where.c`, `func.c`, ... | | | not modelled |
| Shells, extensions | `shell.c`, `ext/` | | wrappers | not modelled |

`PROJECT.json` lists all of them with the reason for each that is left out.

### 1.2 How they interact

An application calls `sqlite4_step` on prepared statements, or the
`sqlite4_txn_` functions, of a connection.  Both hold, or are to be called as if
they held, the connection's mutex, so a call of `sqlite4_step` is not
interleaved with another; but a SELECT returns to its caller at every row and
stays *active*, so that other statements, commands and transaction functions come
between its steps.  A statement that writes returns no rows and runs to its end.

The virtual machine keeps a list of savepoints (BEGIN opens one without name)
and, for each database of the connection, a store with a *transaction level*:
0 none, 1 reading, 2 writing, 3 and more nested.  Savepoint number i is level i+1
of every store; levels are opened lazily, when a statement first writes a
database (OP_Transaction), and closed for all databases at once by
`sqlite4VdbeCommit` and `sqlite4VdbeRollback`.  A statement inside a transaction
gets one level more, its statement transaction, where it may have to be undone
alone.  The end of *any* statement runs `sqlite4VdbeHalt`, which commits or rolls
back the stores if no savepoint is open, and takes them to level 0 when the last
active statement ends.

A store promises (`kv.h`) that a commit to level N makes what was done above N
part of level N, and that a rollback to level N restores what was there when level
N+1 began.  The in-memory store logs the old data of a row once per level, keeps
deleted rows as nodes without data (here: phantoms) until a commit or rollback
removes them, and shares payloads by reference counts between nodes, change
records and cursors.

The BerkeleyDB engine keeps the same promise with one nested transaction of the
library for each level, the WiredTiger engine with the single transaction of a
session.  All stores of a process that name the same BerkeleyDB database share its
handles through a dictionary, under one mutex for the dictionary and one for each
of its nodes; this is the only place where the code itself runs several threads
against each other.

A statement is compiled against the schema that its connection has in memory and
remembers the schema's cookie and generation.  Between the steps of a statement
others may change the schema, roll the change back, or make the connection forget
what it read; OP_VerifyCookie at the start of a program is what notices it, and
`sqlite4_step` compiles again.

Rows travel through `vdbecodec.c`: keys are encoded so that `memcmp` sorts them as
the values would be sorted, and the engines know nothing else about them.

A full-text index is kept by the statements that write its table, which take a row out
of it with the tokens that it has and put it in with those it gets.  MATCH has one
cursor on the index for each token of its expression.

In a Lua program databases and statements are userdata that the collector frees in
any order, and callbacks run Lua code in the middle of a step.

### 1.3 What is hard, and what makes each part correct

* *In-memory store.*  Records of one row at several levels, merged by commits of
  inner levels, must still be undone to the right content; a record points to a
  node that it does not keep alive; phantoms must be invisible to cursors and
  vanish at the end; cursors stay on rows that are deleted, replaced or rolled
  back.  Correct means: nested transactions as `kv.h` promises; an AVL tree; exact
  counts; seeks and scans that find what is there.
* *Connection.*  Several databases with levels of their own, several active
  statements, the end of one of them deciding about the transaction, three kinds
  of foreign key violations with counters that must follow rollbacks, stores that
  fail halfway.  Correct means: the levels follow the savepoints; the SQL commands
  and conflict clauses keep their promises on all databases at once; what is
  committed violates no foreign key; only what succeeds becomes permanent.
* *Two-phase-commit API.*  The same stores driven past the savepoints, between any
  two steps of other statements.  Correct means: all databases commit or none.
* *Other engines.*  Arrays of nested transactions of an external library, with
  rules of their own for skipped levels, rollback and prepare, where any call may
  fail in the middle of a method; handles that live on in an array after the library
  freed them; a cursor that several clients share.  Correct means: `kv.h` again, no
  use of a dead handle, buffers that hold the row the cursor is on.
* *Dictionary.*  Two levels of locks, ten early returns, a count of references
  changed by several threads.  Correct means: exact counts, no store with a closed
  handle, nothing left open, every call returns.
* *Schema.*  Three copies of the truth (store, memory, compiled programs) and two
  numbers to compare them by.  Correct means: no program runs against a schema it was
  not compiled for, tables never share their key prefix.
* *Lua binding.*  Objects that refer to each other by bare addresses, freed by a
  collector.  Correct means: nothing freed is used, and closing finds everything.
* *Full-text search.*  An index that is only ever changed by differences, and a query
  whose cursors overtake each other while they look for a common row.  Correct means: the
  index is that of the rows; a query finds each row that its expression asks for once,
  in order, and counts its occurrences.
* *Encodings, numbers, containers.*  Boundaries of the forms of an encoding, order
  preserved, overflow, what is lost marked as lost; structures moved by insertions and
  removals.

The hazards, each at its line, are listed in `PROJECT.json`.  Only the dictionary
has calls that wait for one another, and its liveness is checked (section 3).
Elsewhere every call runs to its end under one mutex, there is no queue and no timer,
and the one retry (`sqlite4_step`) is bounded, so what matters is how often it happens:
`OneRetryIsEnough`.


## 2. The modules

    SqlTxn   what the SQL commands promise
      ^  implemented by (TLC, proved in VdbeTxnProofs)
    VdbeTxn  savepoints, statements, levels of all stores of a connection
      |        (VdbeTxnProofs)
      |  uses stores as in
    KVStore  what kv.h promises of one store
      ^          ^                         ^
      |          |  KVBdb                  |  KVWt (TLC, proved in KVWtProofs), up to level 2
      |          |    ^ extended by KVBdbCursor (TLC, proved in KVBdbProofs)
      |  KVMem (TLC, proved in KVMemProofs)
      |    ^  implemented by KVMemTree (TLC; its trees, counts and cursors proved in KVMemTreeProofs)

    KVBdbDict (KVBdbDictProofs)     Lsqlite4 (Lsqlite4Proofs)     Schema (SchemaProofs)
    Varint <- KeyEncoding, RecordEncoding     Decimal     RowSet     Hash     Mem5
    Fts5 <- Fts5Query     Fts5Parse

    KVMemTreeMC, KVEnginesMC, SchemaMC, PartsMC   instances for TLC

### KVStore

The contract of `kv.h`: level, content, and for each write level the content it
would be rolled back to.  `Begin`, `Write`, `CommitPhaseTwo`, `Rollback`, `Revert`,
`Reopen` are the methods of a store; phase one changes nothing of this state.

### KVMem

`kvmem.c` seen through its transactions: the tree is a set of keys, each with
payload, `mxTrans` and its change records, oldest first, tagged with the level
whose list they are in.  Each action is a whole method: `Begin` is `kvmemBegin`,
`Replace` `kvmemReplace` with `kvmemNewChng` or `kvmemNewNode`, `Delete`
`kvmemDelete`, `CommitNested` and `CommitOutermost` the two branches of
`kvmemCommitPhaseTwo`, `Rollback`, `Revert`, and `Reopen` `kvmemClose` followed by a
new `sqlite4KVStoreOpenMem`.  The lists of `kvmem.c` run over all nodes; grouping
their records by node loses nothing because undoing or committing a record only
touches its node (`KVMemTree` keeps the lists and is checked against this).
`freedUse` records that a method followed a change record to a node it had freed;
after that no step is defined.

### KVMemTree

The same methods with their memory: `heap` holds the tree (`pRoot` and for each node
`pBefore`, `pAfter`, `pUp`, height and imbalance), the other fields of the nodes
(`pData`, `mxTrans`, `nRef`) and the counts of payloads; `apLog` the lists; `cursor` the open cursors with the node and the payload that
`xData` pinned.  Rotations, `kvmemBalance`, `kvmemRemoveNode` with its pointer
cases, `kvmemFirst`, `kvmemNext`, `kvmemSeek` and `kvmemNextEntry` are translated
loop by loop: a loop that follows pointers is a recursive function on addresses, one
that goes through a list or up to the root a function on the numbers of its rounds.
`pBefore` and `pAfter` are fields named by a `Side`, so that the
code's mirrored routines are one operator each.  Mapping: `ImplementsKVMem`
forgets shape, counts and cursors.  `Transactional` FALSE is
`SQLITE4_KVOPEN_NO_TRANSACTIONS`, in which nothing is logged and a deletion removes
its node at once.

### SqlTxn

What the comment of OP_Savepoint and the conflict clauses promise: content of all
databases together, count of deferred violations, stack of savepoints, each with
what it would go back to.  It knows no stores and no levels.

### VdbeTxn

| definition | code |
|---|---|
| `SavepointBegin`, `SavepointRelease`, `SavepointRollback` | the programs of BEGIN / SAVEPOINT, COMMIT / RELEASE, ROLLBACK / ROLLBACK TO: OP_Savepoint, then the halt of the program |
| `SelectBegin`, `SelectEnd` | first step and end of a SELECT; any number are active |
| `WriteBegin`, `OpTransaction`, `Write`, `WriteEnd` | a statement that writes, opcode by opcode: OP_Transaction for each database, rows with OP_FkCounter, OP_Halt or an error |
| `VdbeHalt`, `VdbeCommit`, `VdbeRollback`, `CloseStatement`, `FreeSavepoints`, ... | the functions of `vdbeaux.c`, as functions of the connection's state |
| `sqlite4_txn_begin`, ... | the functions of `vdbeapi.c` |

Rows are abstracted to what foreign keys make of them: a row of `Deferred` is a child
without parent of a deferred key, one of `Immediate` of an immediate key, any other
violates nothing.  Stores are those of `KVStore`, as functions of a record
(`KvBegin`, `KvWrite`, `KvCommit`, `KvRollback`).  Three constants say what kind of
stores and application there is:

* `UndoesOwnLevel`: `xRollback(N)` also undoes level N and leaves it open, as
  `kvbdbRollback` does and as the comments of `sqlite4VdbeRollback` and
  `vdbeCloseStatement` expect.  FALSE is the in-memory store, and `kv.h`.
* `PhaseOneFails`: phase one of a commit may return an error.
* `TxnApi`: the application uses the `sqlite4_txn_` functions.

With `UndoesOwnLevel` FALSE the assertion of `kvmemBegin` on the rise of the level
is kept: when it fails `fault` is set and nothing follows.  With TRUE any rise is
allowed; what the BerkeleyDB engine makes of skipped levels is in `KVBdb`.

### KVEngine, KVBdb, KVBdbCursor, KVWt

`KVEngine` declares what the two external engines share.  Both are written as
functions from a state to the set of states a method may leave behind, because the
methods call each other and each call of the library may fail on the way
(`Failing` names those that may).

`KVBdb` translates `kvbdbBegin`, `kvbdbCommitPhaseOne`, `kvbdbCommitPhaseTwo`,
`kvbdbRollback`, `kvbdbRevert` and `kvbdbReplace` with the
helpers they share (opening the reading cursor, beginning, committing and aborting a
handle).  The library is external and modelled from its use: a tree of transactions
whose addresses are reused after they end; `stale` records that an ended one was used.
`KVBdbCursor` adds the cursors: opening (the store's cursor at level 1, one of its own
above), `kvbdbSeek`, `kvbdbNextEntry`, `kvbdbPrevEntry`, `kvbdbKey`, `kvbdbData`,
`kvbdbDelete`, reset and close, with the buffered row.  `KVWt` is the same for WiredTiger, where
`begin_transaction` and its counterparts act on the one transaction of the session.

`Calls` names the sequences of calls that the engine does not stand, for example
`"skip"` (a level opened without the one below) or `"commit_to_0"`; it is empty in
the passing run, and section 4 tells what happens with each of them.
`KVEnginesMC` runs both engines, each behaviour one of them.

### KVBdbDict

One action for each stretch of `kVStoreOpen` and `kvbdbClose` between two points where
another thread can come in: taking a mutex, releasing one, each call of the library.  `pc`
is where a thread is, `call` its local variables.  `Failing` again names the
calls that may fail: `env_open`, `db_open`, `malloc`, `db_close`, `env_close`.

### Schema

`disk` is `sqlite_master` and the set of numbers with rows, `saved` what open savepoints
would restore, `conn` the schema in memory with `schema_cookie`, `iGeneration` and the
store's `iMeta`, `stmt` the programs, `call` the steps under way.  Actions: `Prepare` (with
`sqlite4Init` when the schema has to be read), the parts of `sqlite4_step` up to its
retry, the halt of a program of each kind, BEGIN / SAVEPOINT, COMMIT, ROLLBACK TO, with what
`sqlite4VdbeRollback` does to schemas and statements.  OP_NewIdxid picks table
numbers, and dropped tables take their rows along.

### Varint, KeyEncoding, RecordEncoding, Decimal

Algorithms as operators over sequences of bytes, checked against a reference for a set
of inputs at the boundaries of their forms: `Varint` (`varint.c`), index keys with numbers
in base 100, texts and blobs, ascending and descending, their decoding and the routine of
OP_AnalyzeKey (`vdbecodec.c`), rows of values with their headers (`vdbecodec.c`).
`Decimal` has `sqlite4_num_add`, `_sub`, `_mul`, `_div`, `_compare`, `_round`,
`_from_int64`, `_to_int64`, `_isinf`, `_isnan` and the branch of OP_Add ... OP_Remainder
that first tries 64-bit integers (`util.c`).

### RowSet, Hash, Mem5

`RowSet` follows the entries through the list of new ones, the sorted list and the
forest of trees, and its actions are the opcodes as the loop of an OR in `where.c` and DELETE
use them.  `Hash` has the one list of all elements with the buckets that point into it,
growth with a `malloc` that may fail, and the limit on the number of buckets.  `Mem5` has the
pool, `aCtrl` and the free lists, with each call an action.

### Fts5, Fts5Query, Fts5Parse

`Fts5` has the table as `docs`, its index as a function from token and key to the list of places,
the size record of each row and the totals.  `TokenizeCb` is the callback of the tokenizer,
which appends to the list of a token, `FtsUpdate` the whole of `sqlite4Fts5Update`, and an action
a statement with what it calls for the index: INSERT and UPDATE with OR REPLACE, DELETE, DELETE
without WHERE (OP_Clear), REINDEX.  Lists and records are sequences of numbers, each of
them stored as a varint (`Varint`); the tokenizer is an input, the tokens it reports.

`Fts5Query` extends it with a MATCH expression over a table that nobody writes meanwhile.  Each
node of the tree is a record with its row; `Advance` is `fts5ExprAdvance`, `ToMatch`
`fts5PhraseAdvanceToMatch` with `fts5PhraseIsMatch`, below it the lists of a string of tokens
(`StringFindInstances`) and the trimming of NEAR (`NearTrim`), for prefixes the merged lists of
`fts5FindPrefixes`.  `Open` and `FtsNext` are the opcodes; what a query should find is
written separately, over the rows (`Matches`, `Occurrences`).

`Fts5Parse` reads one token of an expression at a time, as the loop of
`fts5ParseExpression` does, with the tree it grows and `aHier`; `Meaning` is the grammar.

### Lsqlite4

Databases (`Sdb`), statements (`Svm`) and connections with what refers to what: the
table of a database that holds bare addresses of its statements, references through
which the collector keeps a database alive while a statement or a running callback
needs it, functions registered on a connection, and calls nested to `MaxDepth`.  Freed
userdata are used again.  `Uses` names three things that a script may do and that the
binding does not stand (`"open_ptr"`, `"close_vm"`, `"end_in_function"`); it is empty in
the passing run.

## 3. The runs

All runs are exhaustive for their bounds.

| run | configuration | states | question |
|---|---|---|---|
| `kvmem_two_keys` | `KVMemMC.cfg` | 7174 | Do change records stay consistent, and does the store keep the contract? |
| `tree_levels` | `KVMemTreeLevels.cfg` | 18756 | Are reference counts exact under nested transactions with two cursors, and do lists and heap implement `KVMem`? |
| `tree_rows_and_shape` | `KVMemTreeMC.cfg` | 60348 | Is the tree sound and do seeks and scans find the nearest row, with phantoms, undone insertions and removals at commit (three keys), and for every AVL tree of up to seven keys, with all rotations and cases of removal? |
| `sql_commands` | `VdbeTxnSql.cfg` | 170140 | Do SQL commands and conflict clauses keep their promises on two databases, are the foreign key counters exact, do the levels follow the savepoints? |
| `sql_on_kvmem` | `VdbeTxnMem.cfg` | 1138632 | On the in-memory store as it is: does only success become permanent, does failure leave no trace? |
| `txn_api` | `VdbeTxnApi.cfg` | 66120 | With the API between any two steps and commits that cannot fail: does each step commit all databases or none? |
| `engines` | `KVEnginesMC.cfg` | 162297 | Do the BerkeleyDB engine with its cursors and the WiredTiger engine keep the promises of `kv.h`, with failing calls of the libraries? |
| `kvbdb_dict` | `KVBdbDict.cfg` | 68145 | Threads that open and close stores at once: exact counts, live handles, no leak, every call returns? |
| `schema` | `SchemaMC.cfg` | 2173818 | Does no program run against another schema than its own, do tables never share a number, does one recompilation suffice? |
| `parts` | `PartsMC.cfg` | 634162 | Encodings, numbers, containers, the allocator, the full-text index with its queries, and the lifetimes of Lua objects (each behaviour is about one of them). |
| `kvmem_use`, `savepoint_on_kvmem` | see section 4 | | Each shows a disagreement. |

What each property says stands above it in its module.  The deep ones:

* `LogConsistent`, `PhantomsAreLogged` (`KVMem`): `mxTrans`, the tags of the records
  and their `oldTrans` tell one story, from which `kvmemReplace` decides whether to
  log, and a row without data is in the tree only while it can come back.
* `ImplementsKVStore`, `ImplementsKVMem`, `ImplementsSqlTxn`, `WtImplementsKVStore`: the
  refinements.  The contract of `kv.h` is one module for three engines.
* `RollbackFollowsLiveNodes`: rollback never does what commit does (section 4).
* `RefCountsExact`: nothing is freed in use, nothing leaks.
* `CursorsFindRows`, `SeekFindsNearest`, `CursorKeepsItsPlace`: whatever rotations, phantoms
  and other cursors are on the way.
* `HandlesAreSound`: the array of nested handles, the library's transactions and the
  cursors agree, after errors too.
* `LevelsFollowSavepoints`, `FkCountersExact`, `CommittedIsConsistent`,
  `OnlySuccessPublishes`, `FailedStatementLeavesNoTrace`, `CommitIsAtomic`.
* `RefsExact`, `StoresAreLive`, `NothingLeaks` and the liveness property `EveryCallReturns`
  of the dictionary.
* `SchemaMatchesStore`, `VerifiedProgramsAreCurrent`, `TablesOwnTheirRows`, `OneRetryIsEnough`.
* `LifetimesAreSound` of the Lua binding; `KeysSortButLastBlobs`;
  `DecimalsAreExact`.
* `FtsIndexIsExact`, `FtsAnswers`: no entry outlives its row and the totals stay true; each row is
  found once, with its own counts, by an expression that was read with the right precedence.

### Fairness

Only `KVBdbDict` claims liveness, under weak fairness of `Step(t)` of each thread: a
thread inside a call is scheduled again and again.  Nothing is assumed of
the mutexes: a thread that wants one may be overtaken by others for as long as they
call, and a bound on the calls (`MaxOpens`) is what makes others stop calling, as
programs do.  Weak fairness of a step that waits for a mutex asks only that it is taken
when it is free from some time on.  No fairness of opening, closing or of
anything the application decides is assumed.

### Bounds

* `KVMem`, `KVMemTree`: levels to 3 (`MaxLevel`) and two records a node (`MaxChng`): a
  record of the outermost level, one of a nested level, and both ways of ending the
  nested one.  The proofs remove both bounds.  In `KVMemTreeMC` `MaxChng` 1 with
  `MaxLevel` 2, since nesting plays no role for the shape of the tree.
* `MaxCopy`, the nodes and payloads that one key may have at a time: the address of a
  new object is the lowest free one, since the code only compares addresses for
  equality.  Five in `tree_levels` are enough for a node's payload, those of two
  records and those pinned by two cursors; two in `tree_rows_and_shape` for one payload
  and one logged.  An action that would need more is not taken.
* Three keys with phantoms and seven without transactions: removing a node with two
  children whose successor is its child, or deeper, with and without a right child,
  and imbalances on both sides, need five to seven nodes; a seek past phantoms needs
  three.
* `VdbeTxn`: savepoints to 2 with two databases (3 also passes, with 1424596 states);
  to 1 with the API, which ends the transaction whatever its savepoints.  `MaxCons`
  bounds the size of `nDeferredCons`; a write that would exceed it is not taken.
* Engines: levels to 4, so that there are three nested handles, a commit that ends two
  of them and one below; three addresses for them and three for cursors of the library; two
  cursors, more than one of them open up to level 2 (`ManyUpTo`).  Two keys: one to seek
  between and one to be next.  WiredTiger's levels go as far as in its transactions
  (section 4), and the application of `KVWt` in this run does not nest (`Calls`).
* Dictionary: two threads, two names, two calls of a thread and three of both together:
  enough for one thread to close the last store of a name while the other waits for its
  node, and for a handle to be opened again afterwards.  Exact counts and live handles are
  proved for any number.
* Schema: one connection with two statements besides the transaction commands, two
  tables, savepoints to 2, and three changes of the cookie and of the generation (`MaxChange`): a
  change, one rolled back, and one after it that must not look the same.
* `Decimal`: the significand has 8 bits instead of 64 (`HalfWidth` 4 is half of them),
  `SQLITE4_MX_EXP` is 3 instead of 999, and numbers of exponents more than `Gap` 4 apart
  instead of 40 are not aligned.  As in the code, the gap exceeds the decimal digits of
  a significand, half a significand is a whole number of bits, and the largest is no
  power of ten; all tests of the code are relative to these limits.  With 64 bits TLC
  could not compute the exact values to compare with.
* Keys: `PartsMC` lists numbers, texts and blobs on both sides of each boundary of the
  encoding (lengths, parity of the exponent, sign, infinities, NaN, NUL and 0xff bytes,
  table numbers where a varint grows), and compares all pairs of rows of `MaxColumn` 2
  columns in each direction.
* Row sets: four keys; three batches of a byte with 256, and as many terms; five
  insertions make all three forms of the set.  Hash tables: buckets from 1 element
  on instead of 10, a limit of 7 buckets, so that five keys grow the table twice and reach the
  limit.  The pool: 8 atoms, a single block, and 11, which are cut in three.
* Full-text search: three rows, so that one cursor can be before, one on and one behind the row that
  another is on; four texts of up to three tokens in two columns, with a token twice, a token that
  begins with another, and streams up to 5, where the size record grows from 4 to 8 streams.
  All 125 tables, and 157 expressions: tokens, a prefix, a column, phrases, NEAR of two and
  three, all pairs of operands of each operator and two operators in both ways of nesting.
  Expressions of up to 7 tokens are parsed: two operators of each kind in two pairs of parentheses.
* Lua: two databases, two statements, two connections, functions nested two deep;
  addresses are reused at once.

`VIEW UpToPayloadNames` (`KVMemTree`) identifies states that differ only in the addresses of
payloads.  Payload addresses occur in nodes, records, cursors and the array of
counts; the view keeps, for each payload in use, its key, its owners and its
count.  Two states with the same view are equal up to a permutation of the payload
addresses of each key, all actions and the properties of those runs treat these
addresses symmetrically (a new one is any free one), and so have the same
behaviours up to that permutation.  `VIEW AllButReturnCode` (`KVEnginesMC`) leaves out the return
code of the last method, which no method reads before it has set it.  `SYMMETRY
CursorsAlike` and `TablesAlike` permute cursors and table names, which nothing compares
except for equality; the properties of these two runs are invariants and box-action
properties, and no liveness is checked with symmetry or a view.

`CHECK_DEADLOCK FALSE` is set where the model really stops: after `freedUse`, a
fault, or a single calculation of `PartsMC`; in `kvmem_two_keys`, `tree_levels`,
`tree_rows_and_shape`, `sql_on_kvmem`, `parts` and in some configurations of
section 4.  It is not set where that cannot happen and every state has a step;
threads of the dictionary that have used up their calls stutter in `Done`.


## 4. Where the code and its documentation disagree

Each of these is a short behaviour that TLC prints.  `KVMemUse.cfg` and
`VdbeTxnRollbackTo.cfg` are runs of `PROJECT.json`; the others have a configuration
beside the module and are checked the same way by hand.  Where one configuration
stands for several properties, TLC reports the first it meets: leave
one property in the file to see a particular one.  `KVBdbWrong.cfg` and `KVWtWrong.cfg`
begin with a table of the choice of `Calls` and `Failing` that belongs to each property.

### In-memory engine (`KVMem`, `KVMemTree`)

| configuration | property | what happens |
|---|---|---|
| `KVMemUse.cfg` | `NoUseAfterFree` | A row inserted at level 2 and deleted at level 3 has two records; a commit to level 0 or 1 removes and frees its node at the newer record and follows the older one to it (`kvmem.c:519`; `kvmem.c:395` demands a node of the tree). |
| `KVMemTreeScan.cfg` | `CommitKeepsScans` | A cursor on a deleted row keeps the node allocated, but after the commit it is unlinked, and xNext follows its old pointers (`kvmem.c:735`; `kv.h:118-120` promises otherwise). |
| `KVMemTreeScan.cfg` | `FailedSeekIsAtEOF` | An exact seek for a deleted row returns NOTFOUND with the cursor on the phantom instead of at EOF (`kvmem.c:817`, `kv.h:70-72`). |

### Connection and two-phase-commit API (`VdbeTxn`)

| configuration | property | what happens |
|---|---|---|
| `VdbeTxnRollbackTo.cfg` | `RollbackToRestores` | On the in-memory store ROLLBACK TO does not undo what was done since the savepoint: OP_Savepoint (`vdbe.c:2384`) expects level N to be undone by `xRollback(N)`, `kvmemRollback` undoes what is above N (`test/savepoint.test:115`). |
| `VdbeTxnReaders.cfg` | `StoreBeginsAreLegal` | With two savepoints the first write raises a store from 0 to 3 at once (`vdbe.c:2439`), which `kv.h:27-29` excludes and `kvmem.c:465` asserts against. |
| `VdbeTxnInterrupt.cfg` | `InterruptRollsBack` | An interrupted write inside a transaction leaves the transaction open (`vdbeaux.c:2001`); `sqlite.h.in:959` says it is rolled back. |
| `VdbeTxnReaders.cfg` | `SelectPublishesNothing` | Phase one frees the savepoints while the stores stay at level 2 (`vdbeaux.c:1804`), so the end of any SELECT before phase two commits; `kv.h:41` promises that a rollback is still possible. |
| `VdbeTxnReaders.cfg` | `ReadersStayOpen` | `sqlite4_txn_rollback2(db, 0)` (`vdbeapi.c:466`, called by the Lua binding after each phase two) takes the stores of active SELECTs to level 0; `kv.h:23` demands 1. |
| `VdbeTxnAttached.cfg` | `CommitIsAtomic` | `sqlite4VdbeCommit` runs both phases of a database before phase one of the next (`vdbeaux.c:1771`), so a failure of the second leaves the first committed; `kv.h:41-45` says that phase one is there to avoid this. |
| `VdbeTxnAttached.cfg` | `SuccessKeepsTransaction` | When a statement transaction cannot be closed, the whole transaction is rolled back and the statement reports success (`vdbeaux.c:2027`). |
| `VdbeTxnFk.cfg` | `CommittedIsConsistent` | `sqlite4_txn_commit` (`vdbeapi.c:549`) never calls `sqlite4VdbeCheckFk`, and commits outstanding deferred violations. |

### BerkeleyDB engine (`KVBdbCursor`, `KVBdbWrong.cfg`) and its dictionary (`KVBdbDict`)

| property | what happens |
|---|---|
| `NoStaleHandle`, `CommitToZeroIsPermanent` | Commit to level 0 while cursors are open: they survive with the cursor of a transaction that has ended (`kvbdb_common.c:2991`). |
| `NoStaleHandle` | A commit that fails leaves the handle, which the library has freed, in `pTxn[]` (`kvbdb_common.c:3045`); so does phase one of a nested level followed by a rollback. |
| `ImplementsKVStore` | `kvbdbRevert` of level 3 or more loses the work of the level below as well. |
| `HandlesFollowLevels` | A level skipped by xBegin has no handle; a commit to level N commits the handle of level N+1 only (`kvbdb_common.c:3013`), NULL then, and nothing is committed.  `VdbeTxn` shows that a connection does skip levels. |
| `TypeOK` | `kvbdbRollback(0)` lowers the level to -1 and begins again (`kvbdb_common.c:3243`); when the cursor it needs cannot be opened the level stays at -1.  A debug build asserts against it on every rollback to 0. |
| `CursorKeepsItsPlace` | All cursors of level 0 and 1 are one cursor of the library (`kvbdb_common.c:601`); the second moves the first (`kv.h:120-126`). |
| `FailedSeekIsAtEOF` | A failed seek leaves the cursor on a row (`kv.h:68-77`). |
| `RowsCanBeRead` | A row larger than the buffer is read a second time with the same arguments, and cannot be read (`kvbdb_common.c:1946`). |
| `NoEnvironmentLost` (`KVBdbDictFaults.cfg`) | If the environment is opened and the database in it is not, the environment is forgotten and stays open (`kvbdb.c:140-145`). |
| `DeadHandlesAreForgotten` (`KVBdbDictFaults.cfg`) | A database whose close reports an error stays in the dictionary, dead, for the next opener. |

### WiredTiger engine (`KVWt`, `KVWtWrong.cfg`)

| property | what happens |
|---|---|
| `ImplementsKVStore` with nested levels | All levels share the transaction of the session: a rollback of an inner level undoes the outer ones too, and later writes are permanent at once (`kvwt_common.c:2512`). |
| `SessionFollowsLevel`, `ImplementsKVStore` with `begin_transaction` failing | Opening the level's cursor overwrites the error (`kvwt_common.c:1954`): the level is reached without a transaction. |
| the same with `commit_transaction` failing | The library has rolled back, the level and its cursor stay (`kvwt_common.c:2359`), and later writes are permanent at once. |
| the same with `open_cursor` failing | `kvwtBegin` returns with the transaction begun and the level where it was (`kvwt_common.c:1954`), and a rollback to level 0 leaves the level at -1, from where it calls `kvwtBegin` (`kvwt_common.c:2599`). |
| `ReplaceReplaces` | xReplace of an existing key is refused (`kv.h:58`). |

### Schema (`SchemaMC`)

| configuration | property | what happens |
|---|---|---|
| `SchemaFault.cfg` | `SchemaMatchesStore`, `NumbersAreDistinct` | An error or an interrupt between the row of `sqlite_master` and OP_ParseSchema inside a transaction leaves the row in the store and not in memory; `resetSchemaOnFault`, meant for this (`vdbe.c:5023`), is never set. |
| `SchemaShared.cfg` | `VerifiedProgramsAreCurrent`, `NumbersAreDistinct` | The cookie is a field of each store object and never written to the store (`kvmem.c:961`), so a second connection does not notice that the schema changed (`vdbe.c:2522-2560`). |

### Encodings, numbers, containers, allocator, full-text search, Lua binding (`PartsMC`, `PartsWrong.cfg`; `Mem5`, `Mem5Doc.cfg`)

| property | what happens |
|---|---|
| `KeysSortAsRows` | A descending blob in the last column has no terminator: a prefix sorts before the longer blob, in the wrong direction (`vdbecodec.c:880-886`, `913-915`; `www/key_encoding.wiki:3-4`). |
| `PrefixCountsFields` | OP_AnalyzeKey counts such a last blob as common when only a part of it is (`vdbe.c:3408-3412`). |
| `NumbersReadBack` | `sqlite4VdbeDecodeNumericKey` loses the sign of some numbers (`vdbecodec.c:267-295`); its callers only pass the numbers of rows. |
| `IntegersStayIntegers` | `multiplyInt64`'s product of two low halves overflows unseen (`util.c:548`; the comment at `util.c:495-500` excludes it): 4294967295 * 4294967295 is -8589934591. |
| `RoundsToNearest` | Adding five to a full significand wraps (`math.c:294`). |
| `ProductsAreClose`, `QuotientsAreClose` | A product loses whole digits of both factors, a quotient may become zero (`math.c:136-220`; `www/design.wiki:222-223`). |
| `ReadsEachOnce` | A key added twice in ascending order is read twice: the merge that removes duplicates never sees it (`rowset.c:213`, `229-232`).  DELETE, its user, skips rows that are gone. |
| `PassesOnce` | With more terms of an OR than batch numbers (257) the last two share the u8 255 (`rowset.c:435`, `where.c:3882`), and a row that both find is passed twice (`where.c:3747-3750`). |
| `TakesTheFirst` | The allocator takes the last freed block, not "the first available" (`mem5.c:33`, `218`). |
| `RobsonsBound` | Robson's bound (`mem5.c:39-47`) does not hold of a pool that is cut into several blocks. |
| `FtsFindsRows` with `OddPhrases` | `fts5StringNearTrim` starts from an empty list as if it held the place 0 (`fts5.c:2388`): `b NEAR/1 "a b"` finds a row without `a b`, `col: b NEAR/1 a` one without a in the column.  Where both strings begin at one place it goes on in the list it trims, not in the other (`fts5.c:2402`): `"a b" NEAR/1 a` misses the row `a b a`. |
| `MissingTokenIsNoError` | If no key of the store follows the place of a token, its seek answers NOTFOUND, and the statement fails with it instead of returning no row (`fts5.c:2244-2247`). |
| `ImplicitAndIsAnd` | An AND that is left out is added without popping the stack (`fts5.c:928`): `a NOT b c` is `a NOT (b AND c)`, `a NOT b AND c` is `(a NOT b) AND c`. |
| `OnlyFirstStreamIsCounted` | A debug build asserts that no token of another stream than 0 reaches the totals (`fts5.c:1630`), although a tokenizer may report streams (`fts5.c:1284`). |
| `NothingFreedIsUsed`, `ListedVmsAreLive`, `ConnectionsAreOwned` | With `open_ptr` a second userdata closes the connection of the first; `close_vm` empties a statement that its database still lists (`lsqlite4.c:2247-2271`); a function that ends what called it finalizes a running statement, or makes `cleanupdb` forget a connection that answered SQLITE4_BUSY (`lsqlite4.c:730`). |

Why the passing runs are not contradicted: `sql_commands` assumes stores that undo
their own level, and no API; `sql_on_kvmem` makes no claim about ROLLBACK TO;
`txn_api` and `sql_on_kvmem` assume commits that cannot fail, which is so for
`kvmem.c` (`kvmemCommitPhaseOne` returns SQLITE4_OK).  `engines` and `parts` run with
`Calls` and `Uses` empty and without the failures of the tables above, and their
properties name their exceptions (`KeysSortButLastBlobs`, `SmallIntegersStayIntegers`,
`RoundsUnlessFull`, `PrefixCountsFieldsButBlobs`, `NeverBreaksDown`).  `schema` has
one connection, and failures where everything is rolled back.



## 5. The proofs

Checked with TLAPS, for every value of the constants.  The bounds that the runs need
(`MaxLevel`, `MaxChng`, `MaxOpen`, `MaxDepth`, the sets of keys, threads and objects) stay
parameters.

| module | theorem | statement |
|---|---|---|
| `KVMemProofs` | `TypeCorrect` | `Spec => []TypeOK` |
| | `LogStaysConsistent` | `Spec => []LogConsistent` |
| | `PhantomsStayLogged` | `Spec => []PhantomsAreLogged` |
| | `RollbackIsSafe` | `Spec => RollbackFollowsLiveNodes` |
| | `Implementation` | `Spec => ImplementsKVStore` |
| `KVMemTreeProofs` | `TreeStaysSound` | `Spec => []TreeSound` |
| | `CountsStayExact` | `Spec => []RefCountsExact` |
| | `CursorsAlwaysFindRows` | `Spec => []CursorsFindRows` |
| | `InOrderAlways` | `Spec => []IInv`, the invariant of the three |
| | `BalanceIsSound`, `AddLeafIsSound`, `UnlinkIsSound` | what kvmemBalance, the insertion of a leaf and the removal of a node make of a tree is an AVL tree of the right nodes |
| `KVBdbDictProofs` | `TypeCorrect` | `Spec => []TypeOK` |
| | `CountsAreExact` | `Spec => []RefsExact` |
| | `StoresStayLive` | `Spec => []StoresAreLive`, if `db_close` and `env_close` do not fail |
| | `NothingStaysOpen` | `Spec => []NothingLeaks`, if `db_open`, `db_close` and `env_close` do not fail |
| `KVBdbProofs` | `HandlesStaySound` | `CursorSpec => []HandlesAreSound`, if `Benign` |
| | `BuffersAreTheRow` | `CursorSpec => []BuffersHoldTheRow`, if `Benign` |
| | `SeeksFindNearest` | `CursorSpec => []SeekFindsNearest`, if `Benign` |
| | `CursorsKeepTheirPlace` | `CursorSpec => CursorKeepsItsPlace`, if `Benign` |
| | `EngineKeepsContract` | `CursorSpec => ImplementsKVStore`, if `Benign` |
| `KVWtProofs` | `SessionStaysSound` | `Spec => []SessionFollowsLevel`, if `Benign` |
| | `EngineKeepsContract` | `Spec => ImplementsKVStore`, if `Benign` |
| `VdbeTxnProofs` | `TypeCorrect` | `Spec => []TypeOK`, if `~TxnApi` |
| | `LevelsFollow` | `Spec => []LevelsFollowSavepoints`, if `~TxnApi` |
| | `CountersAreExact` | `Spec => []FkCountersExact`, if `~TxnApi` and `UndoesOwnLevel` |
| | `CommitsAreConsistent` | `Spec => []CommittedIsConsistent`, if `~TxnApi` and `UndoesOwnLevel` |
| | `SqlCommandsKept` | `Spec => ImplementsSqlTxn`, if `~TxnApi`, `UndoesOwnLevel` and `~PhaseOneFails` |
| | `CommitsAreAtomic` | `Spec => CommitIsAtomic`, if `~PhaseOneFails` |
| | `OnlySuccessCommits` | `Spec => OnlySuccessPublishes`, if `~TxnApi` and `~PhaseOneFails` |
| | `FailuresLeaveNoTrace` | `Spec => FailedStatementLeavesNoTrace`, if `~TxnApi` and `~PhaseOneFails` |
| `SchemaProofs` | `SchemaTyped` | `Spec => []TypeOK`, if `OneConnection` and `NoLateFault` |
| | `SchemaIsTheStores` | `Spec => []SchemaMatchesStore`, under the same conditions |
| | `OnlyCurrentProgramsRun` | `Spec => []VerifiedProgramsAreCurrent`, likewise |
| | `RowsHaveOneTable` | `Spec => []TablesOwnTheirRows`, likewise |
| | `RetriesAreBounded` | `Spec => []OneRetryIsEnough`, likewise |
| `Lsqlite4Proofs` | `TypeCorrect` | `Spec => []TypeOK`, if `Uses = {}` |
| | `LifetimesStaySound` | `Spec => []LifetimesAreSound`, if `Uses = {}` |

The assumptions are those of the constants, named in the modules that declare them and
evaluated by TLC in each run, and the conditions in the table: `RefsExact` holds
whatever call of the library fails, but a handle whose close reports an error stays in
the dictionary (section 4), and a script that uses `open_ptr`, `close_vm` or ends what
is running leaves dangling references (section 4).

### KVMemProofs

The inductive invariant is `IInv == TypeOK /\ LogConsistent /\ PhantomsAreLogged`.
Neither of the last two is inductive alone: a commit that removes phantoms keeps
`PhantomsAreLogged` because of the record that says what was there, and the sequence
of records can only be continued consistently if a key outside the tree has none.
`LogConsistent` is itself a strengthening: that the levels ascend along the records
of a row is what makes "the records that survive a rollback to l" a prefix of them
(`KeptCuts`, `KeptIs`); that `oldTrans` of a record is the level of the one before it,
or higher where a merge has lowered that one, is what tells the record of a creation
(`oldTrans` 0) from all others after any merge.

From there:

* one lemma for each thing that happens to the records of a row: appended to
  (`AppendLog`), cut by a rollback (`CutLog`), merged by a commit (`MergeLog`); then
  `NextIInv` with one step per action;
* `RollbackIsSafe` follows since only the oldest record of a row can be that of its
  creation;
* `Implementation`: the mapping takes for `atBegin[l]` the payload in the oldest record
  of level l or above, or the present one (`AtBeginIs`).  A step of `Replace` or `Delete`
  maps to `Write` (`WriteRefines`), of a commit to `CommitPhaseTwo`, of `Rollback` and
  `Revert` to their namesakes through `UndoToRefines`.  `Restored` of level 0 is that of
  level 1, because no record has a level below 2 (`KeptAtReadLevel`).

### KVMemTreeProofs

The first part is about trees.  `Shape(t, T, sub)` says that `T` are the nodes of tree `t`,
that `sub[n]` are those at and below `n`, that `pUp` is the inverse of `pBefore` and `pAfter`, and
that all keys below a node are on the right side of it; the heights do not occur.
`AlmostBalanced(t, T, sub, G, at)` adds them for a `kvmemBalance` that has arrived at `at`: `G` are
the heights that the nodes had when the tree was last in balance, the nodes that are not above
`at` have the heights and imbalances they should, and the height of `at` has changed by one at
most.  It may be off balance by 2, but then it is not lower than it was.  This last clause makes
the invariant inductive: a rotation leaves the subtree as high as it is or one lower
(`SingleTurn`, `DoubleTurn`, `BalanceStep`), so in either case within one of what it was, the next
node up is off by 2 at most, and the loop ends at the root with a sound tree (`BalanceIsSound`;
the number of its rounds is bounded because `sub` grows on the way).  A new leaf and an unlinked node are two ways to get such a tree: `AddLeafIsSound`,
and `UnlinkIsSound`, where the node that takes the place of one with two children is first moved
by renaming (`RenamedShape`), and the place where the code begins to balance is shown to be
the lowest whose height has changed.

The second part counts.  `HeapSound(h, T, at)`: the tree is sound with nodes `T`, the
count of a node is 1 if it is in `T` plus the number of cursors on it, and a node outside has no
payload.  `Accounted`: until a fault the count of a payload is the number of nodes, cursors and
change records that have it; `Count` and `Tally` are these numbers, with one lemma for each way
in which they change (`CountPut`, `TallyConcat`, ...).  `Kept` says that there is a `T` with
both, and one lemma for each method says that it keeps this, through the loops over the
lists of `kvmemCommitPhaseTwo` and `kvmemRollback` (`CommitRecordsKept`,
`UndoRecordsKept`).  The invariant `IInv` of the specification adds that the lists of the
levels above the present one are empty and that a closed cursor has nothing.
`RefCountsExact` is not inductive without the sound tree, since `kvmemRemoveNode` is only defined on
one, nor `TreeSound` without the counts, which keep a node of the tree from being freed and
its address from being given to another.

The third part reads: in a sound tree `kvmemFirst` and `kvmemNext` lead to the neighbour in
the order of keys (`ExtremeFacts`, `ClimbUp`, `StepFacts`), `kvmemNextEntry` to the
next with data (`StepEntryFacts`), and the search of `kvmemSeek` ends at the key or nearest to it
(`BestFacts`, `SeekIsNearest`), so `IInv` implies `CursorsFindRows`.

Two lemmas make recursion provable.  `Loop` says that a function which follows `next` until it
is in `Stop` exists even where it does not end, so that the recursive functions of the
model are what their definitions say; `Iteration` says the same of a loop with a number of
rounds.  Induction is over sets: a set that has the leaves, and each node whose children it has, has
all nodes (`TreeInduction`); a set with 0, and with n + 1 if it has n, has all numbers.

The only assumption is that of the constants; the theorems hold with transactions and
without.  TLC checks the consequences of `IInv` that can be evaluated, `TreeSound` and
`RefCountsExact`, not its quantifier over `T`.

### KVBdbDictProofs

The code changes `nRef` in two places, several steps after it looked at the node, so
`RefsExact` is inductive only together with what a thread in the middle of a call may
rely on: `CallInv` (where a thread is tells the state of its store, and from `LockNode` to
`Unlock` it holds the mutex of its node), `OwnStores` (no two threads work on one store
while it is being opened or closed) and `StoresHaveNames`.  With them
`IInv == TypeOK /\ CallInv /\ OwnStores /\ StoresHaveNames /\ RefsExact`
is inductive: the counted set changes by exactly the store of the thread that holds the
mutex, and the lemmas about `Cardinality` of the library do the rest.  `StoresAreLive`
needs `HInv == NodeHandles /\ CallHandles /\ StoreHandles` on top of `IInv`: which handles a node,
a call and a store may have, and who may be about to close them
(`NodesAreExclusive` says that at most one thread is).

`NothingLeaks` speaks of nodes that nobody works on, and `HInv` only of handles that a node or a call
has: neither says that every open handle is had by someone.  `Reached` does: an open
environment or database is that of its node or of a call that is past opening it (`EnvReached`,
`DbReached`), and a node with a database has a reference, or a `kvbdbClose` that
returned the last one and is at `close_db` (`Counted`).  It is inductive together with `IInv`
and `HInv`: the lemma about `Ref` needs from `HInv` that the handles a call gives to the node
replace no others.  When `OpenDb` fails its environment is reached by nobody, so
the hypothesis on `db_open` is needed; section 4 has the run that shows it.
`env_open` and `malloc` may fail: a store that could not be allocated keeps its reference,
and with it the handles of the node.

### KVBdbProofs

The inductive invariant is `BInv == Nested(kv) /\ PhasesInOrder /\ cursor \in [Csr -> Object] /\
Served(kv, cursor, kv.iTransLevel) /\ BuffersHoldTheRow`.  `HandlesAreSound` is not
inductive as it stands, for it says nothing of the variables' types, of `pCsr` while no
cursor is open, or of where a commit is between its phases:

* `Nested(s)`: the level, `pTxn` and the library's transactions agree.  Each level from 2 on has
  a live transaction, different from all others, whose ancestors are those of the levels
  below, and no other is live.  So the transactions below that of level `i` are those of
  the levels above `i` (`BelowIs`), the innermost is that of the present level (`InnermostIs`),
  and the parent that the library hands a commit to is that of the level below (`ParentIs`).
* `Served(s, cs, b)`: each open cursor of a client has a cursor of the library to itself, in the
  transaction of its level, which is at most `b`; all others are closed but that of the store.
* `PhasesInOrder`: between the phases of a commit the level is the one that ends, and only a
  commit to level 1 may have prepared something.

Methods are functions on states, so the lemmas are about a state, not a step: `BeginIs`,
`PhaseOneIs`, `CommitIs`, `RollbackIs`, `RevertIs`, `ChangeIs` say of any state that is nested and
served what the method makes of it, in what a read at each level sees (`Seen`): the
same, that of the transaction that was handed up, or that of the level below.
`kvbdbRollback` passes through a state whose level is -1, which `Nested`
allows, and begins again from there; `RevertIs` is `RollbackIs` after `RollbackIs`.
For the refinement `MapIs` shows that what `Contract` takes for `atBegin[l]` is what
a read at level `l - 1` sees, and `RaisedMaps`, `CommitMaps`, `BackMaps` and `ChangeMaps` turn what the
methods do to `Seen` into steps of `KVStore` (`MappedSteps`, `BackSteps`).  One lemma for each action
(`...Fine`, `...Sound`) then gives three things at once: the invariant, a step of `KVStore` or a
stutter, and that no cursor has been moved by anything but its own seek or step.

The conditions, `Benign`, are those of the run, for any number of keys, values,
handles, cursors and levels:

* `Calls` is empty: no calls that the engine does not stand (section 4).
* `txn_begin`, `prepare` and `put` may fail; `commit` and `cursor` may not.  A handle whose commit
  failed is dead and stays in `pTxn`, and the level stays at -1 when
  `kvbdbRollback(0)` cannot open the store's cursor again (section 4).
* `Outnumbers`: there is always an address for a new handle and a new cursor of the
  library, as malloc finds one or the call fails.
* The keys have a largest one, as those of any file do: `DB_LAST` finds it.

`BInv` was checked with TLC on the constants of `KVEnginesMC.cfg` before it was proved.

### KVWtProofs

The inductive invariant is `WInv`: the session is `Sound` (it has a transaction exactly at level
2, and the array a cursor at that level alone), and while a commit is between its phases the
level is the one that ends.  `SessionFollowsLevel` follows from it, but says
nothing of where a commit is, and a second phase is only right at the level that the first one saw.

One lemma for each method says what it makes of a sound state, and composes as the code does:
`kvwtRollback` ends in `kvwtBegin`, and `kvwtRevert` in both.  `RollbackIs` passes through a
state that no client sees, at level -1 for a rollback to level 0; `Ended`, what `kvwtBegin` needs to
reach its level, holds there.  The mapping takes the committed rows for what each
level the store is at would be rolled back to, and what the session sees for the others; `BeginRefines`,
`CommitRefines`, `UndoRefines` and `WriteRefines` map the steps to those of `KVStore`, a
rollback to level 1 or 2 to `Revert`.

`Benign` excludes what the engine does not stand (section 4): transactions within the transaction and
a commit from level 2 to level 0, `begin_transaction` failing, whose error is lost, and
`commit_transaction` or `open_cursor` failing, which leave the transaction and the level apart.
`prepare_transaction`, `insert` and `remove` may fail.

### VdbeTxnProofs

Two inductive invariants.  `LInv == Typed /\ MasksAreDone /\ LevelsFollowSavepoints` is about
levels alone and holds for stores of either kind: one lemma for each function of `vdbeaux.c`
says what it does to the levels and to the number of savepoints (`RollbackLevels`,
`CommitLevels`, `CloseLevels`, `HaltLevels`), `HaltIsDue` what a caller of
`sqlite4VdbeHalt` owes it, and each action follows from those.

`FkCountersExact` and `CommittedIsConsistent` are not inductive: a rollback brings back a
counter that a savepoint kept, and rows that the stores kept, at different places.
`Sound` says that these agree: the counter in the i-th savepoint is the number of
deferred violations in the snapshots of level i+1 (`SavedExact`), a store has no
snapshot of a level it is not at (`Fresh`), the snapshots of level 2, what the whole transaction
goes back to, violate nothing (`Based`), and the counter of now is that of the rows of now
(`Counted`).  For the statement that writes `StatementSound` adds that its statement
transactions are all at the level above the innermost savepoint and go back to its
start, that it has one on each database it opened or on none (`StartKept`), and that
where it has none it cannot have counted an immediate violation inside a transaction
(`WritesCounted`): this is what makes the `ABORT` of `sqlite4VdbeCheckFk` undo whole statements.  The same
lemmas again, now for contents (`RollbackIsSound`, `CommitIsSound`, `CloseIsSound`,
`HaltIsSound`), carry `IInv == LInv /\ Sound(db) /\ StatementSound` through every action;
`NumWrite` is the step of OP_FkCounter.

The conditions are needed: with a store whose `xRollback(N)` leaves the changes of level N
the counters are wrong after ROLLBACK TO, and a call of
`sqlite4_txn_begin` takes a store above the savepoints (section 4).

The second half of the module is about what the steps do to the data.
What is permanent of a database is its *base*: the snapshot of level 2 while the store is
above level 1, and the content otherwise.  `AInv == Typed /\ MasksAreDone /\ Fresh(db) /\
StoresReady` is enough to say which steps change it, and holds whatever the application
calls: a store has no snapshot of a level it is not at (`Fresh`), no store is above the
level that comes after the savepoints and the statement transactions, and those that the statement
has opened are at level 2 or above (`StoresReady`).  `NextBase`
says of every step that it keeps the bases of all databases or commits them all, and `CommitsAreAtomic` and
`OnlySuccessCommits` read off which steps commit and that these commit all databases.
`FailuresLeaveNoTrace` needs to know what a statement outside a transaction goes back to:
`StartIsBase`, that its start is the base of every database for as long as it runs.

`SqlCommandsKept` has `RInv == IInv /\ StartIsBase`, with the invariant above.
One lemma for each function of `vdbeaux.c` says what it does to what `SqlTxn` sees
(contents, the counter, the stack of savepoints with what each goes back to), and each
action of `VdbeTxn` is a command, a step of a statement, or invisible.

The conditions are needed.  When phase one fails for the second database the first one
is committed already (`VdbeTxnAttached.cfg`, section 4), and a COMMIT that fails rolls back all savepoints, which no
SQL command promises.
`UndoesOwnLevel` is what the comments of `sqlite4VdbeRollback` expect of a store; with
the in-memory store ROLLBACK TO keeps changes (section 4).  `CommitsAreAtomic` needs no
condition on the application, and only `SqlCommandsKept` one on the stores.

### SchemaProofs

None of the four properties is inductive.  A rollback brings back tables and rows of
the past, so `SInv` says of the store at *every* open savepoint what it says of the present one
(`DiskSound`: the numbers of tables are distinct and at most one above the cookie, rows belong
to tables), and that as long as the connection has changed no schema since the transaction began
(`intern` not set) their tables are those of now (`SavedSound`): this is what makes it right
that `sqlite4VdbeRollback` leaves memory and programs alone then.  The cookie only goes on, and
each change of the schema takes a new one, so a program with the present cookie
that has not expired was compiled for the tables of now (`ProgramSound`, which holds of
programs that are running as well), and one compiled again in `sqlite4_step` passes OP_VerifyCookie
(`CallSound`), which bounds the retries.  That OP_NewIdxid finds a number that no
table has follows from `Current`: the program knows the largest number that was
in use when it was compiled, and the tables are still the same (`NewNumberIs`).

The conditions are needed: a second connection does not see the cookie, which is kept in
memory, and an OP_ParseSchema that fails inside a transaction leaves the memory without a table
that the store has (`SchemaShared.cfg` and `SchemaFault.cfg`, section 4).

### Lsqlite4Proofs

`LifetimesAreSound` is about bare addresses in both directions: a database lists the
statements it must finalize, a statement keeps its database only through the
collector.  The inductive invariant adds to its three parts that no two databases share a
connection and an open one has an owner (`OneOwner`), that the callers of a running function
keep their connection (`CallersAreOpen`), that a registered function is on the
list of its database (`FunctionsAreListed`), and that no entry outlives its
statement (`EntriesAreOpen`).  Closing and collecting do two things each, take
statements from the list and take a connection from its database; the lemmas `VmGoesKeeps` and
`DbGoesKeeps` say once what each of them keeps, and the actions cite them.

### Only model-checked

* `ImplementsKVMem` of `KVMemTree`: not proved so far.
* `RowSet`, `Mem5`, `KeyEncoding`, `RecordEncoding`, `Decimal`, `Fts5`, `Fts5Query`,
  `Fts5Parse`: their loops are
  RECURSIVE operators, which the prover's backends do not accept.  The recursive functions of
  `KVMemTree` show another way, but these modules are about values that TLC can enumerate.
* `Hash`: not proved so far.
* `KVWt` under the calls and failures that its `Benign` excludes, and `ReplaceReplaces`: they do not hold
  (section 4).
* `NothingLeaks` and `StoresAreLive` of `KVBdbDict` with the failures that their theorems exclude: they do
  not hold there (section 4).
* `KVBdbCursor` under the calls and failures that `Benign` excludes: its properties do not hold there
  (section 4).
* `Schema` with a second connection, or with an OP_ParseSchema that fails inside a transaction: its
  properties do not hold there (section 4).
* `EveryCallReturns`: liveness under fairness is beyond the prover, as is ENABLED.


## 6. What is not modelled, and why

The repository holds several copies of the same program: the sources in
`sqlite4-build/src/` (about 75000 lines), nearly all of the same files again in `sqlite4-build/tsrc/`, all of them
in one file as `sqlite4-build/sqlite4.c` and once more as `tclsqlite4.c`; beside them stand
extensions (three versions of full text search, R-tree, ICU), test harnesses and
shells.  The models are of `sqlite4-build/src/` and of the code that this fork
adds in `kvbdb-build`, `kvwt-build` and `lsqlite4-build`.  Of the rest:

* **Interpreter, parser and code generator** (`vdbe.c` but for the opcodes named in section 2,
  `parse.y`, `select.c`, `where.c`, `insert.c`, `expr.c`, ...): sequential translation with little
  state between calls.  A model would repeat them line by line, and its
  properties would be those of SQL.
* **SQL functions, text, dates, collations**: formatting and conversion of strings.
* **Of full-text search**: tokenizers, ranking and snippets (`fts5func.c`), the lexer and the parts of
  a phrase (`fts5.c:378-780`), `sqlite4_mi_match_detail`, counts of rows, the checksums of the
  integrity check, and the growth of buffers.  The earlier versions in `ext/` are other programs.
* **Conversion of numbers from and to text or double** (`math.c`, second half): `Decimal` starts
  from numbers.
* **Other allocators and their statistics** (`mem*.c` but for `mem5.c`, `malloc.c`), **mutexes** (`mutex*.c`)
  and **environment** (`env.c`, `main.c`): thin layers over the system's own; a mutex is
  modelled by what it guarantees where it matters (`KVBdbDict`).  Failing allocations are
  modelled where the code has changed something before (`KVBdbDict`, `Hash`, `KVBdb`), not in
  `kvmem.c`, whose methods test them first.
* **SQL functions that use the connection while a statement writes**, sub-programs of
  triggers, and user-defined aggregates: `VdbeTxn` runs one writing statement at a time.
* **The `sqlite4_txn_` functions with other levels than the default**, their XID variants
  (another method of the store, the same control), and calls from another thread
  while `sqlite4_step` runs: they take no mutex, and assertions on it fail at once.
* **`sqlite4VdbeBegin` whose xBegin fails** for one of the databases (`vdbeaux.c:1739`): it rolls
  the store back to a level it did not reach, which `kv.c:328` asserts against.
* **The libraries' locks**: which locks BerkeleyDB and WiredTiger hold, and who
  waits for them.  The libraries are modelled as one client sees them.
* **Limits that no run can reach**: `nRef`, `height` and `mxTrans` are short integers
  (`kvmem.c:48`), as is the exponent of a product (`math.c:173`).
* **Of the Lua binding**: update, commit and progress hooks, collations and backups, which
  have the form of the functions that are modelled.
* **Shells and extensions**: wrappers of the same API.


## 7. Plan

Done: the storage engine contract and three engines, connection and two-phase commit,
dictionary, schemas, encodings, numbers, containers, one allocator, full-text search, Lua lifetimes;
proofs of the in-memory engine's transactions and of its trees, counts and cursors, of the BerkeleyDB engine with its cursors, of the WiredTiger engine, of the levels, foreign-key counters, commits and
SQL commands of a connection, of the schema, the dictionary and the Lua lifetimes.

What would add most next, in this order:

1. A composition of `VdbeTxn` with `KVBdb` in place of the contract, with failing xBegin and
   the XID variants.
2. Text of numbers (`sqlite4_num_from_text`, `sqlite4_num_to_text`) on the scaled numbers of `Decimal`.
