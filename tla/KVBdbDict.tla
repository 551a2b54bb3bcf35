----------------------------- MODULE KVBdbDict -----------------------------
(***************************************************************************)
(* The dictionary of src/kvbdb-build/kvbdb through which all connections   *)
(* of a process share one BerkeleyDB environment and database per name:    *)
(* kVStoreOpen and kvbdbClose, called by several threads, with the mutex   *)
(* of the dictionary, the mutexes of its nodes, and the calls of the       *)
(* library that may fail on the way.                                       *)
(*                                                                         *)
(* A call of kVStoreOpen is named by its thread and its number, <<t, i>>.  *)
(* That pair also names what it creates: an environment (DB_ENV), a        *)
(* database handle (DB) and the store (KVBdb) it returns.                  *)
(***************************************************************************)
EXTENDS Naturals, FiniteSets

CONSTANTS
    Thread,     \* the threads
    Name,       \* the names of databases
    NoName,     \* the name of a store that was never opened
    NoThread,   \* nobody holds the mutex
    MaxOpen,    \* bound on the calls of kVStoreOpen by one thread
    MaxOpens,   \* bound on those of all threads together
    Failing     \* the library calls that may fail

ASSUME KVBdbDictAssumption ==
    /\ IsFiniteSet(Thread) /\ NoThread \notin Thread
    /\ NoName \notin Name
    /\ MaxOpen \in Nat /\ MaxOpens \in Nat
    /\ Failing \subseteq {"env_open", "db_open", "malloc", "db_close", "env_close"}

Call == Thread \X (1..MaxOpen)
Null == <<>>                        \* no handle, no store
Handle == Call \cup {Null}

VARIABLES
    dict,       \* the dictionary: created or not, and its mutex
    node,       \* the node of each name
    env, db,    \* the library's handles: "none", "open" or "closed"
    store,      \* what became of each call of kVStoreOpen
    pc,         \* where each thread is
    call        \* the local variables of each thread's call

vars == <<dict, node, env, db, store, pc, call>>

NoNode == [known |-> FALSE, mutex |-> NoThread,
           envp |-> Null, dbp |-> Null, nref |-> 0]
NoStore == [state |-> "none", name |-> NoName, envp |-> Null, dbp |-> Null]
NoCall == [op |-> "none", name |-> NoName, store |-> Null,
           envp |-> Null, dbp |-> Null]

Init ==
    /\ dict = [init |-> FALSE, mutex |-> NoThread]
    /\ node = [n \in Name |-> NoNode]
    /\ env = [c \in Call |-> "none"]
    /\ db = [c \in Call |-> "none"]
    /\ store = [c \in Call |-> NoStore]
    /\ pc = [t \in Thread |-> "idle"]
    /\ call = [t \in Thread |-> NoCall]

GoTo(t, label) == pc' = [pc EXCEPT ![t] = label]
MyNode(t) == node[call[t].name]

\* The outcomes of a call of the library: TRUE for success.
Outcomes(what) == IF what \in Failing THEN BOOLEAN ELSE {TRUE}

-----------------------------------------------------------------------------
(* The application opens databases and closes stores that it has.  A store *)
(* may be closed by any thread, but only once.                             *)

Unused(t) ==
    IF Cardinality({c \in Call : store[c].state # "none"}) < MaxOpens
    THEN {i \in 1..MaxOpen : store[<<t, i>>].state = "none"}
    ELSE {}

\* kVStoreOpen is called: the store it will return is <<t, i>>.
CallOpen(t, n) ==
    /\ pc[t] = "idle"
    /\ \E i \in Unused(t) :
        /\ \A j \in Unused(t) : i <= j
        /\ call' = [call EXCEPT ![t] = [NoCall EXCEPT !.op = "open", !.name = n,
                                                      !.store = <<t, i>>]]
        /\ store' = [store EXCEPT ![<<t, i>>].state = "opening",
                                  ![<<t, i>>].name = n]
    /\ GoTo(t, "init")
    /\ UNCHANGED <<dict, node, env, db>>

\* kvbdbClose is called for the store c.
CallClose(t, c) ==
    /\ pc[t] = "idle"
    /\ store[c].state = "open"
    /\ store' = [store EXCEPT ![c].state = "closing"]
    /\ call' = [call EXCEPT ![t] = [NoCall EXCEPT !.op = "close", !.store = c,
                                                  !.name = store[c].name]]
    /\ GoTo(t, "init")
    /\ UNCHANGED <<dict, node, env, db>>

-----------------------------------------------------------------------------
(* global_acquire_locked_dict_node: the mutex of the dictionary is held    *)
(* until that of the node has been taken.                                  *)

\* init_global_bdb_dict, a critical section of s_bdb_dict_mutex.
InitDict(t) ==
    /\ pc[t] = "init"
    /\ dict' = [dict EXCEPT !.init = TRUE]
    /\ GoTo(t, "lock")
    /\ UNCHANGED <<node, env, db, store, call>>

LockDict(t) ==
    /\ pc[t] = "lock"
    /\ dict.init /\ dict.mutex = NoThread
    /\ dict' = [dict EXCEPT !.mutex = t]
    /\ GoTo(t, "find")
    /\ UNCHANGED <<node, env, db, store, call>>

\* Wrong on purpose: the mutex of a node is taken without waiting for it.
LockNode_NoWait(t) ==
    /\ pc[t] = "find"
    /\ node' = [node EXCEPT ![call[t].name].known = TRUE,
                            ![call[t].name].mutex = t]
    /\ dict' = [dict EXCEPT !.mutex = NoThread]
    /\ GoTo(t, IF call[t].op = "open" THEN "env" ELSE "unref")
    /\ UNCHANGED <<env, db, store, call>>

\* The node is found, or made; its mutex is taken, waiting for it with the
\* dictionary locked, and the dictionary is unlocked.
LockNode(t) ==
    /\ pc[t] = "find"
    /\ MyNode(t).mutex = NoThread
    /\ node' = [node EXCEPT ![call[t].name].known = TRUE,
                            ![call[t].name].mutex = t]
    /\ dict' = [dict EXCEPT !.mutex = NoThread]
    /\ GoTo(t, IF call[t].op = "open" THEN "env" ELSE "unref")
    /\ UNCHANGED <<env, db, store, call>>

-----------------------------------------------------------------------------
(* kVStoreOpen, with the node locked.  An error unlocks the node and       *)
(* leaves the rest as it is.                                               *)

OpenFails(t) ==
    /\ store' = [store EXCEPT ![call[t].store].state = "failed"]
    /\ GoTo(t, "unlock")

\* The environment is taken from the node, or created and opened.
OpenEnv(t) ==
    /\ pc[t] = "env"
    /\ IF MyNode(t).envp # Null
       THEN /\ call' = [call EXCEPT ![t].envp = MyNode(t).envp]
            /\ GoTo(t, "db")
            /\ UNCHANGED <<env, store>>
       ELSE \E ok \in Outcomes("env_open") :
            IF ok
            THEN /\ env' = [env EXCEPT ![call[t].store] = "open"]
                 /\ call' = [call EXCEPT ![t].envp = call[t].store]
                 /\ GoTo(t, "db")
                 /\ UNCHANGED store
            ELSE OpenFails(t) /\ UNCHANGED <<env, call>>
    /\ UNCHANGED <<dict, node, db>>

\* The database is taken from the node, or created and opened.  If that
\* fails the environment stays open and nobody knows it.
OpenDb(t) ==
    /\ pc[t] = "db"
    /\ IF MyNode(t).dbp # Null
       THEN /\ call' = [call EXCEPT ![t].dbp = MyNode(t).dbp]
            /\ GoTo(t, "ref")
            /\ UNCHANGED <<db, store>>
       ELSE \E ok \in Outcomes("db_open") :
            IF ok
            THEN /\ db' = [db EXCEPT ![call[t].store] = "open"]
                 /\ call' = [call EXCEPT ![t].dbp = call[t].store]
                 /\ GoTo(t, "ref")
                 /\ UNCHANGED store
            ELSE OpenFails(t) /\ UNCHANGED <<db, call>>
    /\ UNCHANGED <<dict, node, env>>

\* Wrong on purpose: the reference is not counted when the node has handles.
Ref_OnlyFirst(t) ==
    /\ pc[t] = "ref"
    /\ node' = [node EXCEPT ![call[t].name].envp = call[t].envp,
                            ![call[t].name].dbp = call[t].dbp,
                            ![call[t].name].nref = 1]
    /\ \E ok \in Outcomes("malloc") :
        store' = [store EXCEPT ![call[t].store].state = IF ok THEN "open" ELSE "lost",
                               ![call[t].store].envp = call[t].envp,
                               ![call[t].store].dbp = call[t].dbp]
    /\ GoTo(t, "unlock")
    /\ UNCHANGED <<dict, env, db, call>>

\* The node gets the handles and a reference; then the store is allocated.
\* When that fails the reference stays, without a store that could return it.
Ref(t) ==
    /\ pc[t] = "ref"
    /\ node' = [node EXCEPT ![call[t].name].envp = call[t].envp,
                            ![call[t].name].dbp = call[t].dbp,
                            ![call[t].name].nref = @ + 1]
    /\ \E ok \in Outcomes("malloc") :
        store' = [store EXCEPT ![call[t].store].state = IF ok THEN "open" ELSE "lost",
                               ![call[t].store].envp = call[t].envp,
                               ![call[t].store].dbp = call[t].dbp]
    /\ GoTo(t, "unlock")
    /\ UNCHANGED <<dict, env, db, call>>

-----------------------------------------------------------------------------
(* kvbdbClose, with the node locked.                                       *)

\* Wrong on purpose: the test for a reference to return also takes one.
Unref_Twice(t) ==
    LET nref == IF MyNode(t).nref > 0 THEN MyNode(t).nref - 2 ELSE 0
    IN /\ pc[t] = "unref"
       /\ node' = [node EXCEPT ![call[t].name].nref = nref]
       /\ store' = [store EXCEPT ![call[t].store].state = "closed"]
       /\ GoTo(t, IF nref = 0 THEN "close_db" ELSE "unlock")
       /\ UNCHANGED <<dict, env, db, call>>

\* Wrong on purpose: the count is compared before it is lowered.
Unref_TestsFirst(t) ==
    LET nref == IF MyNode(t).nref > 0 THEN MyNode(t).nref - 1 ELSE 0
    IN /\ pc[t] = "unref"
       /\ node' = [node EXCEPT ![call[t].name].nref = nref]
       /\ store' = [store EXCEPT ![call[t].store].state = "closed"]
       /\ GoTo(t, IF MyNode(t).nref = 0 THEN "close_db" ELSE "unlock")
       /\ UNCHANGED <<dict, env, db, call>>

\* The store's reference is returned; with the last one the handles go.
Unref(t) ==
    LET nref == IF MyNode(t).nref > 0 THEN MyNode(t).nref - 1 ELSE 0
    IN /\ pc[t] = "unref"
       /\ node' = [node EXCEPT ![call[t].name].nref = nref]
       /\ store' = [store EXCEPT ![call[t].store].state = "closed"]
       /\ GoTo(t, IF nref = 0 THEN "close_db" ELSE "unlock")
       /\ UNCHANGED <<dict, env, db, call>>

\* DB->close frees the handle whether it succeeds or not; the node forgets
\* it only when it succeeds.
CloseDb(t) ==
    /\ pc[t] = "close_db"
    /\ IF MyNode(t).dbp = Null
       THEN GoTo(t, "close_env") /\ UNCHANGED <<node, db>>
       ELSE /\ db' = [db EXCEPT ![MyNode(t).dbp] = "closed"]
            /\ \E ok \in Outcomes("db_close") :
                IF ok
                THEN /\ node' = [node EXCEPT ![call[t].name].dbp = Null]
                     /\ GoTo(t, "close_env")
                ELSE GoTo(t, "unlock") /\ UNCHANGED node
    /\ UNCHANGED <<dict, env, store, call>>

\* The same for the environment.
CloseEnv(t) ==
    /\ pc[t] = "close_env"
    /\ IF MyNode(t).envp = Null
       THEN UNCHANGED <<node, env>>
       ELSE /\ env' = [env EXCEPT ![MyNode(t).envp] = "closed"]
            /\ \E ok \in Outcomes("env_close") :
                node' = IF ok THEN [node EXCEPT ![call[t].name].envp = Null] ELSE node
    /\ GoTo(t, "unlock")
    /\ UNCHANGED <<dict, db, store, call>>

\* Wrong on purpose: a kVStoreOpen that failed tries again until it succeeds.
Unlock_Retries(t) ==
    /\ pc[t] = "unlock"
    /\ node' = [node EXCEPT ![call[t].name].mutex = NoThread]
    /\ IF store[call[t].store].state = "failed"
       THEN UNCHANGED call /\ GoTo(t, "init")
       ELSE call' = [call EXCEPT ![t] = NoCall] /\ GoTo(t, "idle")
    /\ UNCHANGED <<dict, env, db, store>>

\* unlock_locked_dict_node, and return.
Unlock(t) ==
    /\ pc[t] = "unlock"
    /\ node' = [node EXCEPT ![call[t].name].mutex = NoThread]
    /\ call' = [call EXCEPT ![t] = NoCall]
    /\ GoTo(t, "idle")
    /\ UNCHANGED <<dict, env, db, store>>

-----------------------------------------------------------------------------
\* One step of the call that thread t is executing.
Step(t) ==
    \/ InitDict(t) \/ LockDict(t) \/ LockNode(t)
    \/ OpenEnv(t) \/ OpenDb(t) \/ Ref(t)
    \/ Unref(t) \/ CloseDb(t) \/ CloseEnv(t)
    \/ Unlock(t)

\* All calls have been made and have returned.
Done ==
    /\ \A t \in Thread : pc[t] = "idle" /\ Unused(t) = {}
    /\ \A c \in Call : store[c].state # "open"
    /\ UNCHANGED vars

Next ==
    \/ \E t \in Thread :
        \/ \E n \in Name : CallOpen(t, n)
        \/ \E c \in Call : CallClose(t, c)
        \/ Step(t)
    \/ Done

\* A thread that has called the store runs until the call returns.  Nothing is
\* assumed of the mutexes: whoever waits may be passed over again and again.
Fairness == \A t \in Thread : WF_vars(Step(t))

Spec == Init /\ [][Next]_vars
FairSpec == Spec /\ Fairness

-----------------------------------------------------------------------------
(* Properties.                                                             *)

Label == {"idle", "init", "lock", "find", "env", "db", "ref",
          "unref", "close_db", "close_env", "unlock"}

Node == [known : BOOLEAN, mutex : Thread \cup {NoThread},
         envp : Handle, dbp : Handle, nref : Nat]
Store == [state : {"none", "opening", "failed", "lost", "open", "closing", "closed"},
          name : Name \cup {NoName}, envp : Handle, dbp : Handle]
LocalVars == [op : {"none", "open", "close"}, name : Name \cup {NoName},
              store : Handle, envp : Handle, dbp : Handle]

\* The values the variables may have.
TypeOK ==
    /\ dict \in [init : BOOLEAN, mutex : Thread \cup {NoThread}]
    /\ node \in [Name -> Node]
    /\ env \in [Call -> {"none", "open", "closed"}]
    /\ db \in [Call -> {"none", "open", "closed"}]
    /\ store \in [Call -> Store]
    /\ pc \in [Thread -> Label]
    /\ call \in [Thread -> LocalVars]

\* The stores whose reference is still in the node's count.
Users(n) == {c \in Call : store[c].name = n
                          /\ store[c].state \in {"open", "closing", "lost"}}

\* The count of references is the number of stores that use the node, plus the
\* references lost by an allocation that failed: kvbdbClose may close the
\* handles when it reaches 0, and never before (kvbdb_common.c:3335-3341).
RefsExact == \A n \in Name : node[n].nref = Cardinality(Users(n))

\* A connection never works on a database or an environment that another
\* connection has closed: whatever the interleaving of opens and closes, the
\* handles of a store that has not been closed are open (kvbdb.c:179-180), and
\* they are the ones its node has, which kvbdbClose asserts
\* (kvbdb_common.c:3332-3333).
StoresAreLive ==
    \A c \in Call : store[c].state \in {"open", "closing"} =>
        LET n == node[store[c].name]
        IN /\ store[c].envp = n.envp /\ store[c].dbp = n.dbp
           /\ n.envp # Null /\ env[n.envp] = "open"
           /\ n.dbp # Null /\ db[n.dbp] = "open"

\* When nobody is at work on a node and no store uses it, its database has
\* been closed: the last kvbdbClose does it (kvbdb_common.c:3341-3373).
ClosedWhenUnused ==
    \A n \in Name : node[n].mutex = NoThread /\ Users(n) = {} =>
        /\ \A c \in Call : store[c].name = n => db[c] # "open"
        /\ node[n].dbp = Null

\* The node is the only owner of an open environment: none is open that no
\* later kvbdbClose can reach.  kVStoreOpen breaks this when the database
\* cannot be opened (kvbdb.c:140-145): the environment it has just opened is
\* not stored in the node and stays open, and the next try opens another.
NoEnvironmentLost ==
    \A n \in Name : node[n].mutex = NoThread =>
        \A c \in Call : store[c].name = n /\ env[c] = "open" => node[n].envp = c

\* Nothing stays open that no later close can reach, and what nobody uses has
\* been closed.
NothingLeaks == ClosedWhenUnused /\ NoEnvironmentLost

\* A failed close is not the end of the name: a handle that the library has
\* closed is never handed to a new store.
DeadHandlesAreForgotten ==
    \A t \in Thread : pc[t] = "ref" =>
        env[call[t].envp] = "open" /\ db[call[t].dbp] = "open"

\* Every call of kVStoreOpen and kvbdbClose returns, although threads wait for
\* a node with the dictionary locked and errors leave in the middle.
EveryCallReturns == \A t \in Thread : pc[t] # "idle" ~> pc[t] = "idle"
=============================================================================
