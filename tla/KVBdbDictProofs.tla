-------------------------- MODULE KVBdbDictProofs --------------------------
(***************************************************************************)
(* Theorems about KVBdbDict for any number of threads, names and calls.    *)
(*                                                                         *)
(* Whatever the library does, the node of a name is worked on by one       *)
(* thread at a time and its count of references is the number of stores    *)
(* that use it.  If closing a handle does not fail, no store ever has a    *)
(* handle that was closed; if a database can also always be opened, no     *)
(* handle stays open that the last close of its name does not close.       *)
(***************************************************************************)
EXTENDS KVBdbDict, FiniteSetTheorems, TLAPS

USE KVBdbDictAssumption

-----------------------------------------------------------------------------
(* The inductive invariant.                                                *)

\* Before its call has changed the state of its store.
Early == {"init", "lock", "find", "env", "db", "ref", "unref"}

\* Where a thread holds the mutex of its node.
Locked == {"env", "db", "ref", "unref", "close_db", "close_env", "unlock"}

\* A thread in a call works on a store of the name it has, in the state that
\* the call has put it, and with the node of that name locked from LockNode on.
LocalInv(t) ==
    pc[t] # "idle" =>
        /\ call[t].store \in Call /\ call[t].name \in Name
        /\ store[call[t].store].name = call[t].name
        /\ store[call[t].store].state # "none"
        /\ call[t].op \in {"open", "close"}
        /\ pc[t] \in {"env", "db", "ref"} => call[t].op = "open"
        /\ pc[t] \in {"unref", "close_db", "close_env"} => call[t].op = "close"
        /\ pc[t] \in Early => store[call[t].store].state =
                                IF call[t].op = "open" THEN "opening" ELSE "closing"
        /\ pc[t] \in Locked => node[call[t].name].mutex = t

CallInv == \A t \in Thread : LocalInv(t)

\* No two of them work on the same store.
OwnStores ==
    \A t, u \in Thread :
        t # u /\ pc[t] \in Early /\ pc[u] \in Early => call[t].store # call[u].store

\* A store that exists has a name.
StoresHaveNames == \A c \in Call : store[c].state # "none" => store[c].name \in Name

IInv == TypeOK /\ CallInv /\ OwnStores /\ StoresHaveNames /\ RefsExact

-----------------------------------------------------------------------------
(* Lemmas.                                                                 *)

LEMMA CallIsFinite == IsFiniteSet(Call)
<1>1. IsFiniteSet(1..MaxOpen)
  BY FS_Interval
<1>. QED BY <1>1, FS_Product DEF Call

LEMMA NullIsNoCall == Null \notin Call
BY DEF Call, Null

LEMMA UsersAreFinite ==
  ASSUME NEW n \in Name
  PROVE  IsFiniteSet(Users(n)) /\ Cardinality(Users(n)) \in Nat
<1>1. Users(n) \in SUBSET Call
  BY DEF Users
<1>. QED BY <1>1, CallIsFinite, FS_Subset, FS_CardinalityType

\* Mutual exclusion: two threads that have a node locked have different ones.
LEMMA NodesAreExclusive ==
  ASSUME CallInv, NEW t \in Thread, NEW u \in Thread, t # u,
         pc[t] \in Locked, pc[u] \in Locked
  PROVE  call[t].name # call[u].name
BY DEF CallInv, LocalInv, Locked

\* A step that moves no store into or out of use keeps the count right.
LEMMA SameUsers ==
  ASSUME RefsExact,
         \A n \in Name : node'[n].nref = node[n].nref,
         \A c \in Call : \A n \in Name :
            (store'[c].name = n /\ store'[c].state \in {"open", "closing", "lost"})
              <=> (store[c].name = n /\ store[c].state \in {"open", "closing", "lost"})
  PROVE  RefsExact'
<1>. SUFFICES ASSUME NEW n \in Name
              PROVE  node'[n].nref = Cardinality(Users(n)')
  BY DEF RefsExact
<1>1. Users(n)' = Users(n)
  BY DEF Users
<1>. QED BY <1>1 DEF RefsExact

THEOREM InitIInv == Init => IInv
<1>. SUFFICES ASSUME Init PROVE IInv
  OBVIOUS
<1>1. TypeOK
  BY DEF Init, TypeOK, NoNode, NoStore, NoCall, Node, Store, LocalVars, Handle, Label
<1>2. CallInv /\ OwnStores /\ StoresHaveNames
  BY DEF Init, CallInv, LocalInv, OwnStores, StoresHaveNames, NoStore, Early
<1>3. RefsExact
  <2>. SUFFICES ASSUME NEW n \in Name PROVE node[n].nref = Cardinality(Users(n))
    BY DEF RefsExact
  <2>1. Users(n) = {} /\ node[n].nref = 0
    BY DEF Init, Users, NoStore, NoNode
  <2>. QED BY <2>1, FS_EmptySet
<1>. QED BY <1>1, <1>2, <1>3 DEF IInv

-----------------------------------------------------------------------------
(* One lemma per action.                                                   *)

\* What thread t does keeps the calls apart if it is right for t itself, changes
\* no store that another thread is at work on, and no mutex that another holds.
LEMMA OthersKeep ==
  ASSUME IInv, NEW t \in Thread, LocalInv(t)',
         \A u \in Thread \ {t} : pc'[u] = pc[u] /\ call'[u] = call[u],
         pc'[t] \in Early => \A u \in Thread \ {t} :
            pc[u] \in Early => call[u].store # call'[t].store,
         \A u \in Thread \ {t} :
            pc[u] \in Early => store'[call[u].store].state = store[call[u].store].state,
         \A c \in Call : store[c].state # "none" =>
            store'[c].name = store[c].name /\ store'[c].state # "none",
         \A c \in Call : store'[c].state # "none" => store'[c].name \in Name,
         \A n \in Name : \A u \in Thread \ {t} :
            node[n].mutex = u => node'[n].mutex = u
  PROVE  CallInv' /\ OwnStores' /\ StoresHaveNames'
<1>1. ASSUME NEW u \in Thread \ {t} PROVE LocalInv(u)'
  BY <1>1 DEF IInv, CallInv, LocalInv
<1>2. CallInv'
  BY <1>1 DEF CallInv
<1>3. OwnStores'
  BY DEF IInv, OwnStores
<1>. QED BY <1>2, <1>3 DEF StoresHaveNames

LEMMA CallOpenKeeps ==
  ASSUME IInv, NEW t \in Thread, NEW n \in Name, CallOpen(t, n)
  PROVE  IInv'
<1>1. PICK i \in Unused(t) :
        /\ call' = [call EXCEPT ![t] = [NoCall EXCEPT !.op = "open", !.name = n,
                                                      !.store = <<t, i>>]]
        /\ store' = [store EXCEPT ![<<t, i>>].state = "opening",
                                  ![<<t, i>>].name = n]
  BY DEF CallOpen
<1>. DEFINE c == <<t, i>>
<1>2. c \in Call /\ store[c].state = "none"
  BY <1>1 DEF Unused, Call
<1>3. /\ pc[t] = "idle" /\ pc' = [pc EXCEPT ![t] = "init"]
      /\ UNCHANGED <<dict, node, env, db>>
  BY DEF CallOpen, GoTo
<1>4. /\ store'[c] = [store[c] EXCEPT !.state = "opening", !.name = n]
      /\ \A d \in Call : d # c => store'[d] = store[d]
  BY <1>1, <1>2 DEF IInv, TypeOK
<1>5. store'[c] \in Store /\ store'[c].state = "opening" /\ store'[c].name = n
  <2>1. store[c] \in Store
    BY <1>2 DEF IInv, TypeOK
  <2>2. store'[c] = [state |-> "opening", name |-> n,
                     envp |-> store[c].envp, dbp |-> store[c].dbp]
    BY <2>1, <1>4 DEF Store
  <2>. QED BY <2>1, <2>2 DEF Store
<1>6. TypeOK'
  <2>1. store' \in [Call -> Store]
    BY <1>1, <1>4, <1>5 DEF IInv, TypeOK
  <2>2. call'[t] \in LocalVars
    BY <1>1, <1>2 DEF IInv, TypeOK, LocalVars, NoCall, Handle
  <2>3. call' \in [Thread -> LocalVars]
    BY <1>1, <2>2 DEF IInv, TypeOK
  <2>. QED BY <1>3, <2>1, <2>3 DEF IInv, TypeOK, Label
<1>7. CallInv' /\ OwnStores' /\ StoresHaveNames'
  <2>1. call'[t].store = c /\ call'[t].name = n /\ call'[t].op = "open" /\ pc'[t] = "init"
    BY <1>1, <1>3 DEF IInv, TypeOK, NoCall
  <2>2. LocalInv(t)'
    BY <2>1, <1>2, <1>5 DEF LocalInv, Early, Locked
  <2>3. \A u \in Thread \ {t} : pc'[u] = pc[u] /\ call'[u] = call[u]
    BY <1>1, <1>3 DEF IInv, TypeOK
  <2>4. \A u \in Thread \ {t} : pc[u] \in Early => call[u].store # c
    BY <1>2 DEF IInv, CallInv, LocalInv, Early
  <2>5. \A u \in Thread \ {t} :
            pc[u] \in Early => store'[call[u].store].state = store[call[u].store].state
    BY <2>4, <1>4 DEF IInv, CallInv, LocalInv, Early
  <2>6. \A d \in Call : store[d].state # "none" =>
            store'[d].name = store[d].name /\ store'[d].state # "none"
    BY <1>2, <1>4
  <2>7. \A d \in Call : store'[d].state # "none" => store'[d].name \in Name
    BY <1>4, <1>5 DEF IInv, StoresHaveNames
  <2>. QED BY <2>1, <2>2, <2>3, <2>4, <2>5, <2>6, <2>7, <1>3, OthersKeep
<1>8. RefsExact'
  BY <1>2, <1>3, <1>4, <1>5, SameUsers DEF IInv
<1>. QED BY <1>6, <1>7, <1>8 DEF IInv

LEMMA CallCloseKeeps ==
  ASSUME IInv, NEW t \in Thread, NEW c \in Call, CallClose(t, c)
  PROVE  IInv'
<1>1. /\ pc[t] = "idle" /\ pc' = [pc EXCEPT ![t] = "init"] /\ store[c].state = "open"
      /\ store' = [store EXCEPT ![c].state = "closing"]
      /\ call' = [call EXCEPT ![t] = [NoCall EXCEPT !.op = "close", !.store = c,
                                                    !.name = store[c].name]]
      /\ UNCHANGED <<dict, node, env, db>>
  BY DEF CallClose, GoTo
<1>2. store[c] \in Store /\ store[c].name \in Name
  BY <1>1 DEF IInv, TypeOK, StoresHaveNames
<1>3. /\ store'[c] = [store[c] EXCEPT !.state = "closing"]
      /\ \A d \in Call : d # c => store'[d] = store[d]
  BY <1>1 DEF IInv, TypeOK
<1>4. store'[c] \in Store /\ store'[c].state = "closing" /\ store'[c].name = store[c].name
  BY <1>2, <1>3 DEF Store
<1>5. TypeOK'
  <2>1. store' \in [Call -> Store]
    BY <1>1, <1>3, <1>4 DEF IInv, TypeOK
  <2>2. call'[t] \in LocalVars
    BY <1>1, <1>2 DEF IInv, TypeOK, LocalVars, NoCall, Handle
  <2>3. call' \in [Thread -> LocalVars]
    BY <1>1, <2>2 DEF IInv, TypeOK
  <2>. QED BY <1>1, <2>1, <2>3 DEF IInv, TypeOK, Label
<1>6. CallInv' /\ OwnStores' /\ StoresHaveNames'
  <2>1. /\ call'[t].store = c /\ call'[t].name = store[c].name
        /\ call'[t].op = "close" /\ pc'[t] = "init"
    BY <1>1 DEF IInv, TypeOK, NoCall
  <2>2. LocalInv(t)'
    BY <2>1, <1>2, <1>4 DEF LocalInv, Early, Locked
  <2>3. \A u \in Thread \ {t} : pc'[u] = pc[u] /\ call'[u] = call[u]
    BY <1>1 DEF IInv, TypeOK
  <2>4. \A u \in Thread \ {t} : pc[u] \in Early => call[u].store # c
    BY <1>1 DEF IInv, CallInv, LocalInv, Early
  <2>5. \A u \in Thread \ {t} :
            pc[u] \in Early => store'[call[u].store].state = store[call[u].store].state
    BY <2>4, <1>3 DEF IInv, CallInv, LocalInv, Early
  <2>6. \A d \in Call : store[d].state # "none" =>
            store'[d].name = store[d].name /\ store'[d].state # "none"
    BY <1>3, <1>4
  <2>7. \A d \in Call : store'[d].state # "none" => store'[d].name \in Name
    BY <1>1, <1>3, <1>4 DEF IInv, StoresHaveNames
  <2>. QED BY <2>1, <2>2, <2>3, <2>4, <2>5, <2>6, <2>7, <1>1, OthersKeep
<1>7. RefsExact'
  BY <1>1, <1>3, <1>4, SameUsers DEF IInv
<1>. QED BY <1>5, <1>6, <1>7 DEF IInv

\* The steps that leave the stores as they are, and the counts.
LEMMA StoresStay ==
  ASSUME IInv, NEW t \in Thread, TypeOK', LocalInv(t)', UNCHANGED store,
         \A u \in Thread \ {t} : pc'[u] = pc[u] /\ call'[u] = call[u],
         pc'[t] \in Early => pc[t] \in Early /\ call'[t].store = call[t].store,
         \A n \in Name : \A u \in Thread \ {t} :
            node[n].mutex = u => node'[n].mutex = u,
         \A n \in Name : node'[n].nref = node[n].nref
  PROVE  IInv'
<1>1. CallInv' /\ OwnStores' /\ StoresHaveNames'
  <2>1. pc'[t] \in Early => \A u \in Thread \ {t} :
            pc[u] \in Early => call[u].store # call'[t].store
    BY DEF IInv, OwnStores
  <2>. QED BY <2>1, OthersKeep DEF IInv, StoresHaveNames
<1>2. RefsExact'
  BY SameUsers DEF IInv
<1>. QED BY <1>1, <1>2 DEF IInv

LEMMA InitDictKeeps ==
  ASSUME IInv, NEW t \in Thread, InitDict(t)
  PROVE  IInv'
<1>1. /\ pc[t] = "init" /\ pc' = [pc EXCEPT ![t] = "lock"]
      /\ dict' = [dict EXCEPT !.init = TRUE]
      /\ UNCHANGED <<node, env, db, store, call>>
  BY DEF InitDict, GoTo
<1>2. TypeOK'
  BY <1>1 DEF IInv, TypeOK, Label
<1>3. pc'[t] = "lock" /\ LocalInv(t)'
  BY <1>1 DEF IInv, TypeOK, CallInv, LocalInv, Early, Locked
<1>. QED BY <1>1, <1>2, <1>3, StoresStay DEF IInv, TypeOK, Early

LEMMA LockDictKeeps ==
  ASSUME IInv, NEW t \in Thread, LockDict(t)
  PROVE  IInv'
<1>1. /\ pc[t] = "lock" /\ pc' = [pc EXCEPT ![t] = "find"]
      /\ dict' = [dict EXCEPT !.mutex = t]
      /\ UNCHANGED <<node, env, db, store, call>>
  BY DEF LockDict, GoTo
<1>2. TypeOK'
  BY <1>1 DEF IInv, TypeOK, Label
<1>3. pc'[t] = "find" /\ LocalInv(t)'
  BY <1>1 DEF IInv, TypeOK, CallInv, LocalInv, Early, Locked
<1>. QED BY <1>1, <1>2, <1>3, StoresStay DEF IInv, TypeOK, Early

LEMMA LockNodeKeeps ==
  ASSUME IInv, NEW t \in Thread, LockNode(t)
  PROVE  IInv'
<1>. DEFINE n == call[t].name
<1>1. /\ pc[t] = "find" /\ node[n].mutex = NoThread
      /\ node' = [node EXCEPT ![n].known = TRUE, ![n].mutex = t]
      /\ dict' = [dict EXCEPT !.mutex = NoThread]
      /\ pc' = [pc EXCEPT ![t] = IF call[t].op = "open" THEN "env" ELSE "unref"]
      /\ UNCHANGED <<env, db, store, call>>
  BY DEF LockNode, MyNode, GoTo
<1>2. n \in Name /\ node[n] \in Node
  BY <1>1 DEF IInv, TypeOK, CallInv, LocalInv
<1>3. /\ node'[n] = [node[n] EXCEPT !.known = TRUE, !.mutex = t]
      /\ \A m \in Name : m # n => node'[m] = node[m]
  BY <1>1, <1>2 DEF IInv, TypeOK
<1>4. node'[n] \in Node /\ node'[n].mutex = t /\ node'[n].nref = node[n].nref
  <2>1. node'[n] = [known |-> TRUE, mutex |-> t, envp |-> node[n].envp,
                    dbp |-> node[n].dbp, nref |-> node[n].nref]
    BY <1>2, <1>3 DEF Node
  <2>. QED BY <2>1, <1>2 DEF Node
<1>5. TypeOK'
  <2>1. node' \in [Name -> Node]
    BY <1>1, <1>3, <1>4 DEF IInv, TypeOK
  <2>. QED BY <1>1, <2>1 DEF IInv, TypeOK, Label
<1>6. pc'[t] = IF call[t].op = "open" THEN "env" ELSE "unref"
  BY <1>1 DEF IInv, TypeOK
<1>7. LocalInv(t)'
  BY <1>1, <1>2, <1>4, <1>6 DEF IInv, CallInv, LocalInv, Early, Locked
<1>8. \A m \in Name : \A u \in Thread \ {t} : node[m].mutex = u => node'[m].mutex = u
  BY <1>1, <1>3, ZenonT(40)
<1>9. \A m \in Name : node'[m].nref = node[m].nref
  BY <1>3, <1>4
<1>10. \A u \in Thread \ {t} : pc'[u] = pc[u] /\ call'[u] = call[u]
  BY <1>1 DEF IInv, TypeOK
<1>. QED BY <1>1, <1>5, <1>7, <1>8, <1>9, <1>10, StoresStay DEF Early

\* A kVStoreOpen that fails: its store was in no use, and is in none.
LEMMA OpenFailsKeeps ==
  ASSUME IInv, NEW t \in Thread, pc[t] \in {"env", "db"}, OpenFails(t),
         UNCHANGED <<dict, node, call>>,
         env' \in [Call -> {"none", "open", "closed"}],
         db' \in [Call -> {"none", "open", "closed"}]
  PROVE  IInv'
<1>. DEFINE c == call[t].store
<1>1. /\ store' = [store EXCEPT ![c].state = "failed"]
      /\ pc' = [pc EXCEPT ![t] = "unlock"]
  BY DEF OpenFails, GoTo
<1>2. /\ c \in Call /\ store[c] \in Store /\ store[c].state = "opening"
      /\ store[c].name = call[t].name /\ call[t].name \in Name /\ pc'[t] = "unlock"
  BY <1>1 DEF IInv, TypeOK, CallInv, LocalInv, Early
<1>3. /\ store'[c] = [store[c] EXCEPT !.state = "failed"]
      /\ \A d \in Call : d # c => store'[d] = store[d]
  BY <1>1, <1>2 DEF IInv, TypeOK
<1>4. store'[c] \in Store /\ store'[c].state = "failed" /\ store'[c].name = store[c].name
  BY <1>2, <1>3 DEF Store
<1>5. TypeOK'
  <2>1. store' \in [Call -> Store]
    BY <1>1, <1>3, <1>4 DEF IInv, TypeOK
  <2>. QED BY <1>1, <2>1 DEF IInv, TypeOK, Label
<1>6. CallInv' /\ OwnStores' /\ StoresHaveNames'
  <2>1. LocalInv(t)'
    BY <1>2, <1>4 DEF IInv, CallInv, LocalInv, Early, Locked
  <2>2. \A u \in Thread \ {t} : pc'[u] = pc[u] /\ call'[u] = call[u]
    BY <1>1 DEF IInv, TypeOK
  <2>3. \A u \in Thread \ {t} :
            pc[u] \in Early => store'[call[u].store].state = store[call[u].store].state
    BY <1>3 DEF IInv, CallInv, LocalInv, OwnStores, Early
  <2>4. \A d \in Call : store[d].state # "none" =>
            store'[d].name = store[d].name /\ store'[d].state # "none"
    BY <1>3, <1>4
  <2>5. \A d \in Call : store'[d].state # "none" => store'[d].name \in Name
    BY <1>2, <1>3, <1>4 DEF IInv, StoresHaveNames
  <2>. QED BY <2>1, <2>2, <2>3, <2>4, <2>5, <1>2, OthersKeep DEF Early
<1>7. RefsExact'
  BY <1>2, <1>3, <1>4, SameUsers DEF IInv
<1>. QED BY <1>5, <1>6, <1>7 DEF IInv

LEMMA OpenEnvKeeps ==
  ASSUME IInv, NEW t \in Thread, OpenEnv(t)
  PROVE  IInv'
<1>. DEFINE c == call[t].store
<1>1. pc[t] = "env" /\ c \in Call /\ call[t] \in LocalVars /\ UNCHANGED <<dict, node, db>>
  BY DEF OpenEnv, IInv, TypeOK, CallInv, LocalInv
<1>2. \/ /\ OpenFails(t) /\ UNCHANGED <<env, call>>
      \/ \E e \in Handle :
            /\ call' = [call EXCEPT ![t].envp = e]
            /\ pc' = [pc EXCEPT ![t] = "db"]
            /\ env' = env \/ env' = [env EXCEPT ![c] = "open"]
            /\ UNCHANGED store
  <2>1. MyNode(t).envp \in Handle
    BY <1>1 DEF IInv, TypeOK, CallInv, LocalInv, MyNode, Node
  <2>2. c \in Handle
    BY <1>1 DEF Handle
  <2>. QED BY <2>1, <2>2 DEF OpenEnv, GoTo
<1>3. CASE OpenFails(t) /\ UNCHANGED <<env, call>>
  BY <1>1, <1>3, OpenFailsKeeps DEF IInv, TypeOK
<1>4. ASSUME NEW e \in Handle,
             call' = [call EXCEPT ![t].envp = e],
             pc' = [pc EXCEPT ![t] = "db"],
             env' = env \/ env' = [env EXCEPT ![c] = "open"],
             UNCHANGED store
      PROVE  IInv'
  <2>1. call'[t] = [call[t] EXCEPT !.envp = e]
    BY <1>4 DEF IInv, TypeOK
  <2>2. /\ call'[t] \in LocalVars /\ call'[t].store = call[t].store
        /\ call'[t].name = call[t].name /\ call'[t].op = call[t].op
    <3>1. call'[t] = [op |-> call[t].op, name |-> call[t].name, store |-> call[t].store,
                      envp |-> e, dbp |-> call[t].dbp]
      BY <2>1, <1>1 DEF LocalVars
    <3>. QED BY <3>1, <1>1 DEF LocalVars
  <2>3. TypeOK'
    <3>1. call' \in [Thread -> LocalVars]
      BY <1>4, <2>2 DEF IInv, TypeOK
    <3>. QED BY <3>1, <1>1, <1>4 DEF IInv, TypeOK, Label
  <2>4. pc'[t] = "db" /\ LocalInv(t)'
    BY <1>1, <1>4, <2>2 DEF IInv, TypeOK, CallInv, LocalInv, Early, Locked
  <2>5. \A u \in Thread \ {t} : pc'[u] = pc[u] /\ call'[u] = call[u]
    BY <1>4 DEF IInv, TypeOK
  <2>. QED BY <1>1, <1>4, <2>2, <2>3, <2>4, <2>5, StoresStay DEF Early
<1>. QED BY <1>2, <1>3, <1>4

LEMMA OpenDbKeeps ==
  ASSUME IInv, NEW t \in Thread, OpenDb(t)
  PROVE  IInv'
<1>. DEFINE c == call[t].store
<1>1. pc[t] = "db" /\ c \in Call /\ call[t] \in LocalVars /\ UNCHANGED <<dict, node, env>>
  BY DEF OpenDb, IInv, TypeOK, CallInv, LocalInv
<1>2. \/ /\ OpenFails(t) /\ UNCHANGED <<db, call>>
      \/ \E d \in Handle :
            /\ call' = [call EXCEPT ![t].dbp = d]
            /\ pc' = [pc EXCEPT ![t] = "ref"]
            /\ db' = db \/ db' = [db EXCEPT ![c] = "open"]
            /\ UNCHANGED store
  <2>1. MyNode(t).dbp \in Handle
    BY <1>1 DEF IInv, TypeOK, CallInv, LocalInv, MyNode, Node
  <2>2. c \in Handle
    BY <1>1 DEF Handle
  <2>. QED BY <2>1, <2>2 DEF OpenDb, GoTo
<1>3. CASE OpenFails(t) /\ UNCHANGED <<db, call>>
  BY <1>1, <1>3, OpenFailsKeeps DEF IInv, TypeOK
<1>4. ASSUME NEW d \in Handle,
             call' = [call EXCEPT ![t].dbp = d],
             pc' = [pc EXCEPT ![t] = "ref"],
             db' = db \/ db' = [db EXCEPT ![c] = "open"],
             UNCHANGED store
      PROVE  IInv'
  <2>1. call'[t] = [call[t] EXCEPT !.dbp = d]
    BY <1>4 DEF IInv, TypeOK
  <2>2. /\ call'[t] \in LocalVars /\ call'[t].store = call[t].store
        /\ call'[t].name = call[t].name /\ call'[t].op = call[t].op
    <3>1. call'[t] = [op |-> call[t].op, name |-> call[t].name, store |-> call[t].store,
                      envp |-> call[t].envp, dbp |-> d]
      BY <2>1, <1>1 DEF LocalVars
    <3>. QED BY <3>1, <1>1 DEF LocalVars
  <2>3. TypeOK'
    <3>1. call' \in [Thread -> LocalVars]
      BY <1>4, <2>2 DEF IInv, TypeOK
    <3>. QED BY <3>1, <1>1, <1>4 DEF IInv, TypeOK, Label
  <2>4. pc'[t] = "ref" /\ LocalInv(t)'
    BY <1>1, <1>4, <2>2 DEF IInv, TypeOK, CallInv, LocalInv, Early, Locked
  <2>5. \A u \in Thread \ {t} : pc'[u] = pc[u] /\ call'[u] = call[u]
    BY <1>4 DEF IInv, TypeOK
  <2>. QED BY <1>1, <1>4, <2>2, <2>3, <2>4, <2>5, StoresStay DEF Early
<1>. QED BY <1>2, <1>3, <1>4

LEMMA RefKeeps ==
  ASSUME IInv, NEW t \in Thread, Ref(t)
  PROVE  IInv'
<1>. DEFINE c == call[t].store
            n == call[t].name
<1>1. PICK result \in {"open", "lost"} :
        store' = [store EXCEPT ![c].state = result, ![c].envp = call[t].envp,
                               ![c].dbp = call[t].dbp]
  BY DEF Ref
<1>2. /\ pc[t] = "ref" /\ pc' = [pc EXCEPT ![t] = "unlock"]
      /\ node' = [node EXCEPT ![n].envp = call[t].envp, ![n].dbp = call[t].dbp,
                              ![n].nref = @ + 1]
      /\ UNCHANGED <<dict, env, db, call>>
  BY DEF Ref, GoTo
<1>3. /\ c \in Call /\ n \in Name /\ store[c] \in Store /\ store[c].state = "opening"
      /\ store[c].name = n /\ node[n] \in Node /\ node[n].nref \in Nat
      /\ call[t] \in LocalVars /\ pc'[t] = "unlock"
  BY <1>2 DEF IInv, TypeOK, CallInv, LocalInv, Early, Node
<1>4. /\ store'[c] \in Store /\ store'[c].state = result /\ store'[c].name = n
      /\ \A d \in Call : d # c => store'[d] = store[d]
  <2>1. /\ store'[c] = [store[c] EXCEPT !.state = result, !.envp = call[t].envp,
                                        !.dbp = call[t].dbp]
        /\ \A d \in Call : d # c => store'[d] = store[d]
    BY <1>1, <1>3 DEF IInv, TypeOK
  <2>2. store'[c] = [state |-> result, name |-> n,
                     envp |-> call[t].envp, dbp |-> call[t].dbp]
    BY <2>1, <1>3 DEF Store
  <2>3. call[t].envp \in Handle /\ call[t].dbp \in Handle
    BY <1>3 DEF LocalVars
  <2>. QED BY <2>1, <2>2, <2>3, <1>3 DEF Store
<1>5. /\ node'[n] \in Node /\ node'[n].mutex = node[n].mutex
      /\ node'[n].nref = node[n].nref + 1
      /\ \A m \in Name : m # n => node'[m] = node[m]
  <2>1. /\ node'[n] = [node[n] EXCEPT !.envp = call[t].envp, !.dbp = call[t].dbp,
                                      !.nref = @ + 1]
        /\ \A m \in Name : m # n => node'[m] = node[m]
    BY <1>2, <1>3 DEF IInv, TypeOK
  <2>2. node'[n] = [known |-> node[n].known, mutex |-> node[n].mutex,
                    envp |-> call[t].envp, dbp |-> call[t].dbp,
                    nref |-> node[n].nref + 1]
    BY <2>1, <1>3 DEF Node
  <2>3. call[t].envp \in Handle /\ call[t].dbp \in Handle
    BY <1>3 DEF LocalVars
  <2>. QED BY <2>1, <2>2, <2>3, <1>3 DEF Node
<1>6. TypeOK'
  <2>1. store' \in [Call -> Store]
    BY <1>1, <1>4 DEF IInv, TypeOK
  <2>2. node' \in [Name -> Node]
    BY <1>2, <1>5 DEF IInv, TypeOK
  <2>. QED BY <1>2, <2>1, <2>2 DEF IInv, TypeOK, Label
<1>7. CallInv' /\ OwnStores' /\ StoresHaveNames'
  <2>1. LocalInv(t)'
    BY <1>2, <1>3, <1>4, <1>5 DEF IInv, CallInv, LocalInv, Early, Locked
  <2>2. \A u \in Thread \ {t} : pc'[u] = pc[u] /\ call'[u] = call[u]
    BY <1>2 DEF IInv, TypeOK
  <2>3. \A u \in Thread \ {t} :
            pc[u] \in Early => store'[call[u].store].state = store[call[u].store].state
    BY <1>2, <1>4 DEF IInv, CallInv, LocalInv, OwnStores, Early
  <2>4. \A d \in Call : store[d].state # "none" =>
            store'[d].name = store[d].name /\ store'[d].state # "none"
    BY <1>3, <1>4
  <2>5. \A d \in Call : store'[d].state # "none" => store'[d].name \in Name
    BY <1>3, <1>4 DEF IInv, StoresHaveNames
  <2>6. \A m \in Name : \A u \in Thread \ {t} : node[m].mutex = u => node'[m].mutex = u
    BY <1>5
  <2>. QED BY <2>1, <2>2, <2>3, <2>4, <2>5, <2>6, <1>3, OthersKeep DEF Early
<1>8. RefsExact'
  <2>. SUFFICES ASSUME NEW m \in Name PROVE node'[m].nref = Cardinality(Users(m)')
    BY DEF RefsExact
  <2>1. CASE m # n
    <3>1. Users(m)' = Users(m) /\ node'[m].nref = node[m].nref
      BY <2>1, <1>3, <1>4, <1>5 DEF Users
    <3>. QED BY <3>1 DEF IInv, RefsExact
  <2>2. CASE m = n
    <3>1. Users(m)' = Users(m) \cup {c} /\ c \notin Users(m)
      BY <2>2, <1>3, <1>4 DEF Users
    <3>2. Cardinality(Users(m)') = Cardinality(Users(m)) + 1
      BY <3>1, UsersAreFinite, FS_AddElement
    <3>. QED BY <3>2, <2>2, <1>5 DEF IInv, RefsExact
  <2>. QED BY <2>1, <2>2
<1>. QED BY <1>6, <1>7, <1>8 DEF IInv

LEMMA UnrefKeeps ==
  ASSUME IInv, NEW t \in Thread, Unref(t)
  PROVE  IInv' /\ node[call[t].name].nref > 0
<1>. DEFINE c == call[t].store
            n == call[t].name
            nref == IF node[n].nref > 0 THEN node[n].nref - 1 ELSE 0
<1>1. /\ pc[t] = "unref"
      /\ pc' = [pc EXCEPT ![t] = IF nref = 0 THEN "close_db" ELSE "unlock"]
      /\ node' = [node EXCEPT ![n].nref = nref]
      /\ store' = [store EXCEPT ![c].state = "closed"]
      /\ UNCHANGED <<dict, env, db, call>>
  BY DEF Unref, MyNode, GoTo
<1>2. /\ c \in Call /\ n \in Name /\ store[c] \in Store /\ store[c].state = "closing"
      /\ store[c].name = n /\ node[n] \in Node /\ node[n].nref \in Nat
      /\ call[t].op = "close" /\ pc'[t] \in {"close_db", "unlock"}
  BY <1>1 DEF IInv, TypeOK, CallInv, LocalInv, Early, Node
<1>3. /\ store'[c] = [store[c] EXCEPT !.state = "closed"]
      /\ \A d \in Call : d # c => store'[d] = store[d]
  BY <1>1, <1>2 DEF IInv, TypeOK
<1>4. store'[c] \in Store /\ store'[c].state = "closed" /\ store'[c].name = n
  BY <1>2, <1>3 DEF Store
<1>5. c \in Users(n) /\ node[n].nref = Cardinality(Users(n))
  BY <1>2 DEF Users, IInv, RefsExact
<1>6. Cardinality(Users(n) \ {c}) = node[n].nref - 1 /\ Cardinality(Users(n) \ {c}) \in Nat
  BY <1>2, <1>5, UsersAreFinite, FS_RemoveElement, FS_CardinalityType
<1>7. node[n].nref > 0 /\ nref = node[n].nref - 1 /\ nref \in Nat
  BY <1>2, <1>6
<1>8. /\ node'[n] \in Node /\ node'[n].mutex = node[n].mutex /\ node'[n].nref = nref
      /\ \A m \in Name : m # n => node'[m] = node[m]
  <2>. HIDE DEF nref
  <2>1. /\ node'[n] = [node[n] EXCEPT !.nref = nref]
        /\ \A m \in Name : m # n => node'[m] = node[m]
    BY <1>1, <1>2 DEF IInv, TypeOK
  <2>. QED BY <2>1, <1>2, <1>7 DEF Node
<1>9. TypeOK'
  <2>1. store' \in [Call -> Store]
    BY <1>1, <1>3, <1>4 DEF IInv, TypeOK
  <2>2. node' \in [Name -> Node]
    BY <1>1, <1>8 DEF IInv, TypeOK
  <2>. QED BY <1>1, <2>1, <2>2 DEF IInv, TypeOK, Label
<1>10. CallInv' /\ OwnStores' /\ StoresHaveNames'
  <2>1. LocalInv(t)'
    BY <1>1, <1>2, <1>4, <1>8 DEF IInv, CallInv, LocalInv, Early, Locked
  <2>2. \A u \in Thread \ {t} : pc'[u] = pc[u] /\ call'[u] = call[u]
    BY <1>1 DEF IInv, TypeOK
  <2>3. \A u \in Thread \ {t} :
            pc[u] \in Early => store'[call[u].store].state = store[call[u].store].state
    BY <1>1, <1>3 DEF IInv, CallInv, LocalInv, OwnStores, Early
  <2>4. \A d \in Call : store[d].state # "none" =>
            store'[d].name = store[d].name /\ store'[d].state # "none"
    BY <1>2, <1>3, <1>4
  <2>5. \A d \in Call : store'[d].state # "none" => store'[d].name \in Name
    BY <1>2, <1>3, <1>4 DEF IInv, StoresHaveNames
  <2>6. \A m \in Name : \A u \in Thread \ {t} : node[m].mutex = u => node'[m].mutex = u
    BY <1>8
  <2>. QED BY <2>1, <2>2, <2>3, <2>4, <2>5, <2>6, <1>2, OthersKeep DEF Early
<1>11. RefsExact'
  <2>. SUFFICES ASSUME NEW m \in Name PROVE node'[m].nref = Cardinality(Users(m)')
    BY DEF RefsExact
  <2>1. CASE m # n
    <3>1. Users(m)' = Users(m) /\ node'[m].nref = node[m].nref
      BY <2>1, <1>2, <1>3, <1>4, <1>8, ZenonT(40) DEF Users
    <3>. QED BY <3>1 DEF IInv, RefsExact
  <2>2. CASE m = n
    <3>1. Users(m)' = Users(m) \ {c}
      BY <2>2, <1>2, <1>3, <1>4 DEF Users
    <3>. QED BY <3>1, <2>2, <1>6, <1>7, <1>8
  <2>. QED BY <2>1, <2>2
<1>. QED BY <1>7, <1>9, <1>10, <1>11 DEF IInv

\* What the steps that close do to the node: it keeps its mutex and its count.
LEMMA NodeKeepsCount ==
  ASSUME IInv, NEW n \in Name, NEW f \in {"envp", "dbp"},
         \/ node' = node
         \/ node' = [node EXCEPT ![n] = [@ EXCEPT ![f] = Null]]
  PROVE  /\ node' \in [Name -> Node]
         /\ \A m \in Name : node'[m].nref = node[m].nref /\ node'[m].mutex = node[m].mutex
<1>1. node \in [Name -> Node] /\ node[n] \in Node /\ Null \in Handle
  BY DEF IInv, TypeOK, Handle
<1>2. CASE node' = node
  BY <1>1, <1>2
<1>3. CASE node' = [node EXCEPT ![n] = [@ EXCEPT ![f] = Null]]
  <2>1. CASE f = "envp"
    <3>1. node'[n] = [known |-> node[n].known, mutex |-> node[n].mutex, envp |-> Null,
                      dbp |-> node[n].dbp, nref |-> node[n].nref]
      BY <1>1, <1>3, <2>1 DEF Node
    <3>2. \A m \in Name : m # n => node'[m] = node[m]
      BY <1>1, <1>3
    <3>. QED BY <1>1, <1>3, <3>1, <3>2 DEF Node
  <2>2. CASE f = "dbp"
    <3>1. node'[n] = [known |-> node[n].known, mutex |-> node[n].mutex,
                      envp |-> node[n].envp, dbp |-> Null, nref |-> node[n].nref]
      BY <1>1, <1>3, <2>2 DEF Node
    <3>2. \A m \in Name : m # n => node'[m] = node[m]
      BY <1>1, <1>3
    <3>. QED BY <1>1, <1>3, <3>1, <3>2 DEF Node
  <2>. QED BY <2>1, <2>2
<1>. QED BY <1>2, <1>3

LEMMA CloseDbKeeps ==
  ASSUME IInv, NEW t \in Thread, CloseDb(t)
  PROVE  IInv'
<1>. DEFINE n == call[t].name
<1>1. /\ pc[t] = "close_db" /\ n \in Name /\ node[n].dbp \in Handle
      /\ UNCHANGED <<dict, env, store, call>>
  BY DEF CloseDb, IInv, TypeOK, CallInv, LocalInv, Node
<1>2. /\ node' = node \/ node' = [node EXCEPT ![n] = [@ EXCEPT !["dbp"] = Null]]
      /\ db' = db \/ (node[n].dbp # Null /\ db' = [db EXCEPT ![node[n].dbp] = "closed"])
      /\ \E l \in {"close_env", "unlock"} : pc' = [pc EXCEPT ![t] = l]
  BY DEF CloseDb, MyNode, GoTo
<1>3. /\ node' \in [Name -> Node]
      /\ \A m \in Name : node'[m].nref = node[m].nref /\ node'[m].mutex = node[m].mutex
  BY <1>1, <1>2, NodeKeepsCount
<1>4. TypeOK'
  BY <1>1, <1>2, <1>3 DEF IInv, TypeOK, Label, Handle
<1>5. pc'[t] \in {"close_env", "unlock"}
  BY <1>2 DEF IInv, TypeOK
<1>6. LocalInv(t)'
  BY <1>1, <1>3, <1>5 DEF IInv, CallInv, LocalInv, Early, Locked
<1>7. \A u \in Thread \ {t} : pc'[u] = pc[u] /\ call'[u] = call[u]
  BY <1>1, <1>2 DEF IInv, TypeOK
<1>. QED BY <1>1, <1>3, <1>4, <1>5, <1>6, <1>7, StoresStay DEF Early

LEMMA CloseEnvKeeps ==
  ASSUME IInv, NEW t \in Thread, CloseEnv(t)
  PROVE  IInv'
<1>. DEFINE n == call[t].name
<1>1. /\ pc[t] = "close_env" /\ n \in Name /\ node[n].envp \in Handle
      /\ pc' = [pc EXCEPT ![t] = "unlock"]
      /\ UNCHANGED <<dict, db, store, call>>
  BY DEF CloseEnv, GoTo, IInv, TypeOK, CallInv, LocalInv, Node
<1>2. /\ node' = node \/ node' = [node EXCEPT ![n] = [@ EXCEPT !["envp"] = Null]]
      /\ env' = env \/ (node[n].envp # Null /\ env' = [env EXCEPT ![node[n].envp] = "closed"])
  BY DEF CloseEnv, MyNode
<1>3. /\ node' \in [Name -> Node]
      /\ \A m \in Name : node'[m].nref = node[m].nref /\ node'[m].mutex = node[m].mutex
  BY <1>1, <1>2, NodeKeepsCount
<1>4. TypeOK'
  BY <1>1, <1>2, <1>3 DEF IInv, TypeOK, Label, Handle
<1>5. pc'[t] = "unlock"
  BY <1>1 DEF IInv, TypeOK
<1>6. LocalInv(t)'
  BY <1>1, <1>3, <1>5 DEF IInv, CallInv, LocalInv, Early, Locked
<1>7. \A u \in Thread \ {t} : pc'[u] = pc[u] /\ call'[u] = call[u]
  BY <1>1 DEF IInv, TypeOK
<1>. QED BY <1>1, <1>3, <1>4, <1>5, <1>6, <1>7, StoresStay DEF Early

LEMMA UnlockKeeps ==
  ASSUME IInv, NEW t \in Thread, Unlock(t)
  PROVE  IInv'
<1>. DEFINE n == call[t].name
<1>1. /\ pc[t] = "unlock" /\ pc' = [pc EXCEPT ![t] = "idle"]
      /\ node' = [node EXCEPT ![n].mutex = NoThread]
      /\ call' = [call EXCEPT ![t] = NoCall]
      /\ UNCHANGED <<dict, env, db, store>>
  BY DEF Unlock, GoTo
<1>2. n \in Name /\ node[n] \in Node /\ node[n].mutex = t
  BY <1>1 DEF IInv, TypeOK, CallInv, LocalInv, Locked
<1>3. /\ node'[n] = [node[n] EXCEPT !.mutex = NoThread]
      /\ \A m \in Name : m # n => node'[m] = node[m]
  BY <1>1, <1>2 DEF IInv, TypeOK
<1>4. node'[n] \in Node /\ node'[n].nref = node[n].nref
  BY <1>2, <1>3 DEF Node
<1>5. TypeOK'
  <2>1. node' \in [Name -> Node]
    BY <1>1, <1>3, <1>4 DEF IInv, TypeOK
  <2>2. NoCall \in LocalVars
    BY DEF NoCall, LocalVars, Handle
  <2>. QED BY <1>1, <2>1, <2>2 DEF IInv, TypeOK, Label
<1>6. pc'[t] = "idle" /\ LocalInv(t)'
  BY <1>1 DEF IInv, TypeOK, LocalInv
<1>7. \A m \in Name : \A u \in Thread \ {t} : node[m].mutex = u => node'[m].mutex = u
  BY <1>2, <1>3
<1>8. \A m \in Name : node'[m].nref = node[m].nref
  BY <1>3, <1>4
<1>9. \A u \in Thread \ {t} : pc'[u] = pc[u] /\ call'[u] = call[u]
  BY <1>1 DEF IInv, TypeOK
<1>. QED BY <1>1, <1>5, <1>6, <1>7, <1>8, <1>9, StoresStay DEF Early

LEMMA NextKeeps == IInv /\ [Next]_vars => IInv'
<1>. SUFFICES ASSUME IInv, [Next]_vars PROVE IInv'
  OBVIOUS
<1>1. ASSUME NEW t \in Thread, NEW n \in Name, CallOpen(t, n) PROVE IInv'
  BY <1>1, CallOpenKeeps
<1>2. ASSUME NEW t \in Thread, NEW c \in Call, CallClose(t, c) PROVE IInv'
  BY <1>2, CallCloseKeeps
<1>3. ASSUME NEW t \in Thread, Step(t) PROVE IInv'
  BY <1>3, InitDictKeeps, LockDictKeeps, LockNodeKeeps, OpenEnvKeeps, OpenDbKeeps, RefKeeps,
     UnrefKeeps, CloseDbKeeps, CloseEnvKeeps, UnlockKeeps DEF Step
<1>4. CASE UNCHANGED vars
  BY <1>4 DEF vars, IInv, TypeOK, CallInv, LocalInv, OwnStores, StoresHaveNames, RefsExact,
              Users
<1>5. CASE Done
  BY <1>5, <1>4 DEF Done
<1>. QED BY <1>1, <1>2, <1>3, <1>4, <1>5 DEF Next

THEOREM InductiveInvariant == Spec => []IInv
BY InitIInv, NextKeeps, PTL DEF Spec

\* The values of the variables stay what TypeOK says.
THEOREM TypeCorrect == Spec => []TypeOK
BY InductiveInvariant, PTL DEF IInv

\* The count of references of every node is the number of stores that use it,
\* whatever fails and however the calls of the threads interleave.
THEOREM CountsAreExact == Spec => []RefsExact
BY InductiveInvariant, PTL DEF IInv

-----------------------------------------------------------------------------
(* The handles, when no close fails.                                       *)

\* What a node has is open, and was opened for its name; a node with a
\* reference has both handles.
NodeHandles ==
    \A n \in Name :
        /\ node[n].envp # Null =>
            /\ env[node[n].envp] = "open"
            /\ store[node[n].envp].name = n /\ store[node[n].envp].state # "none"
        /\ node[n].dbp # Null =>
            /\ db[node[n].dbp] = "open"
            /\ store[node[n].dbp].name = n /\ store[node[n].dbp].state # "none"
        /\ node[n].nref > 0 => node[n].envp # Null /\ node[n].dbp # Null

\* So is what kVStoreOpen has in its variables, which is the node's where the
\* node has one; kvbdbClose closes what no store uses.
OwnHandles(t) ==
    LET n == call[t].name
        e == call[t].envp
        d == call[t].dbp
    IN /\ pc[t] \in {"db", "ref"} =>
            /\ e # Null /\ env[e] = "open"
            /\ store[e].name = n /\ store[e].state # "none"
            /\ node[n].envp \in {Null, e}
       /\ pc[t] = "ref" =>
            /\ d # Null /\ db[d] = "open"
            /\ store[d].name = n /\ store[d].state # "none"
            /\ node[n].dbp \in {Null, d}
       /\ pc[t] \in {"close_db", "close_env"} => node[n].nref = 0

CallHandles == \A t \in Thread : OwnHandles(t)

\* A store has the handles of its node.
StoreHandles ==
    \A c \in Call : store[c].state \in {"open", "closing"} =>
        /\ store[c].envp = node[store[c].name].envp
        /\ store[c].dbp = node[store[c].name].dbp

HInv == NodeHandles /\ CallHandles /\ StoreHandles

\* The node of a store in use counts it.
LEMMA UsersAreCounted ==
  ASSUME IInv, NEW c \in Call, store[c].state \in {"open", "closing", "lost"}
  PROVE  store[c].name \in Name /\ node[store[c].name].nref > 0
<1>. DEFINE n == store[c].name
<1>1. n \in Name
  BY DEF IInv, StoresHaveNames
<1>2. c \in Users(n) /\ node[n].nref = Cardinality(Users(n))
  BY <1>1 DEF Users, IInv, RefsExact
<1>3. Cardinality(Users(n) \ {c}) = node[n].nref - 1 /\ Cardinality(Users(n) \ {c}) \in Nat
  BY <1>1, <1>2, UsersAreFinite, FS_RemoveElement, FS_CardinalityType
<1>4. node[n].nref \in Nat
  BY <1>1 DEF IInv, TypeOK, Node
<1>. QED BY <1>1, <1>3, <1>4

\* The steps that leave all handles as they are.
LEMMA HandlesStay ==
  ASSUME IInv, HInv, UNCHANGED <<env, db>>,
         \A n \in Name : /\ node'[n].envp = node[n].envp /\ node'[n].dbp = node[n].dbp
                         /\ node'[n].nref = node[n].nref,
         \A c \in Call : store[c].state # "none" =>
            store'[c].name = store[c].name /\ store'[c].state # "none",
         \A c \in Call : store'[c].state \in {"open", "closing"} =>
            /\ store[c].state \in {"open", "closing"}
            /\ store'[c].envp = store[c].envp /\ store'[c].dbp = store[c].dbp,
         \A t \in Thread : pc'[t] \in {"db", "ref", "close_db", "close_env"} =>
            pc'[t] = pc[t] /\ call'[t] = call[t]
  PROVE  HInv'
<1>1. \A n \in Name : node[n].envp \in Handle /\ node[n].dbp \in Handle
  BY DEF IInv, TypeOK, Node
<1>2. NodeHandles'
  BY <1>1 DEF HInv, NodeHandles, Handle
<1>3. CallHandles'
  <2>. SUFFICES ASSUME NEW t \in Thread PROVE OwnHandles(t)'
    BY DEF CallHandles
  <2>1. CASE pc'[t] \in {"db", "ref", "close_db", "close_env"}
    <3>1. /\ pc[t] \in {"db", "ref", "close_db", "close_env"}
          /\ call[t].name \in Name /\ call[t].envp \in Handle /\ call[t].dbp \in Handle
      BY <2>1 DEF IInv, TypeOK, CallInv, LocalInv, LocalVars
    <3>. QED BY <2>1, <3>1 DEF HInv, CallHandles, OwnHandles, Handle
  <2>2. CASE pc'[t] \notin {"db", "ref", "close_db", "close_env"}
    BY <2>2 DEF OwnHandles
  <2>. QED BY <2>1, <2>2
<1>4. StoreHandles'
  BY DEF HInv, StoreHandles, IInv, StoresHaveNames
<1>. QED BY <1>2, <1>3, <1>4 DEF HInv

LEMMA QuietStepsKeepHandles ==
  ASSUME IInv, HInv, NEW t \in Thread,
         \/ \E n \in Name : CallOpen(t, n)
         \/ \E c \in Call : CallClose(t, c)
         \/ InitDict(t) \/ LockDict(t) \/ LockNode(t) \/ Unlock(t)
  PROVE  HInv'
<1>1. ASSUME NEW n \in Name, CallOpen(t, n) PROVE HInv'
  <2>1. PICK i \in Unused(t) :
            store' = [store EXCEPT ![<<t, i>>].state = "opening", ![<<t, i>>].name = n]
    BY <1>1 DEF CallOpen
  <2>2. <<t, i>> \in Call /\ store[<<t, i>>].state = "none"
    BY <2>1 DEF Unused, Call
  <2>3. /\ store'[<<t, i>>].state = "opening"
        /\ \A c \in Call : c # <<t, i>> => store'[c] = store[c]
    BY <2>1, <2>2 DEF IInv, TypeOK, Store
  <2>4. \A u \in Thread : pc'[u] \in {"db", "ref", "close_db", "close_env"} =>
            pc'[u] = pc[u] /\ call'[u] = call[u]
    BY <1>1 DEF CallOpen, GoTo, IInv, TypeOK
  <2>. QED BY <1>1, <2>2, <2>3, <2>4, HandlesStay DEF CallOpen
<1>2. ASSUME NEW c \in Call, CallClose(t, c) PROVE HInv'
  <2>1. /\ store[c] \in Store /\ store[c].state = "open"
        /\ store' = [store EXCEPT ![c].state = "closing"]
    BY <1>2 DEF CallClose, IInv, TypeOK
  <2>2. /\ store'[c] = [store[c] EXCEPT !.state = "closing"]
        /\ \A d \in Call : d # c => store'[d] = store[d]
    BY <2>1 DEF IInv, TypeOK
  <2>3. /\ store'[c].name = store[c].name /\ store'[c].state = "closing"
        /\ store'[c].envp = store[c].envp /\ store'[c].dbp = store[c].dbp
    BY <2>1, <2>2 DEF Store
  <2>4. \A u \in Thread : pc'[u] \in {"db", "ref", "close_db", "close_env"} =>
            pc'[u] = pc[u] /\ call'[u] = call[u]
    BY <1>2 DEF CallClose, GoTo, IInv, TypeOK
  <2>. QED BY <1>2, <2>1, <2>2, <2>3, <2>4, HandlesStay DEF CallClose
<1>3. CASE InitDict(t) \/ LockDict(t)
  <2>1. \A u \in Thread : pc'[u] \in {"db", "ref", "close_db", "close_env"} =>
            pc'[u] = pc[u] /\ call'[u] = call[u]
    BY <1>3 DEF InitDict, LockDict, GoTo, IInv, TypeOK
  <2>. QED BY <1>3, <2>1, HandlesStay DEF InitDict, LockDict
<1>4. CASE LockNode(t)
  <2>1. \A u \in Thread : pc'[u] \in {"db", "ref", "close_db", "close_env"} =>
            pc'[u] = pc[u] /\ call'[u] = call[u]
    BY <1>4 DEF LockNode, GoTo, IInv, TypeOK
  <2>2. \A n \in Name : /\ node'[n].envp = node[n].envp /\ node'[n].dbp = node[n].dbp
                        /\ node'[n].nref = node[n].nref
    BY <1>4 DEF LockNode, IInv, TypeOK, Node
  <2>. QED BY <1>4, <2>1, <2>2, HandlesStay DEF LockNode
<1>5. CASE Unlock(t)
  <2>1. \A u \in Thread : pc'[u] \in {"db", "ref", "close_db", "close_env"} =>
            pc'[u] = pc[u] /\ call'[u] = call[u]
    BY <1>5 DEF Unlock, GoTo, IInv, TypeOK
  <2>2. \A n \in Name : /\ node'[n].envp = node[n].envp /\ node'[n].dbp = node[n].dbp
                        /\ node'[n].nref = node[n].nref
    BY <1>5 DEF Unlock, IInv, TypeOK, Node
  <2>. QED BY <1>5, <2>1, <2>2, HandlesStay DEF Unlock
<1>. QED BY <1>1, <1>2, <1>3, <1>4, <1>5

LEMMA OpenFailsKeepsHandles ==
  ASSUME IInv, HInv, NEW t \in Thread, pc[t] \in {"env", "db"}, OpenFails(t),
         UNCHANGED <<node, env, db, call>>
  PROVE  HInv'
<1>. DEFINE c == call[t].store
<1>1. c \in Call /\ store[c] \in Store /\ store[c].state = "opening"
  BY DEF IInv, TypeOK, CallInv, LocalInv, Early
<1>2. /\ store'[c] = [store[c] EXCEPT !.state = "failed"]
      /\ \A d \in Call : d # c => store'[d] = store[d]
  BY <1>1 DEF OpenFails, IInv, TypeOK
<1>3. store'[c].name = store[c].name /\ store'[c].state = "failed"
  BY <1>1, <1>2 DEF Store
<1>4. \A u \in Thread : pc'[u] \in {"db", "ref", "close_db", "close_env"} =>
        pc'[u] = pc[u] /\ call'[u] = call[u]
  BY DEF OpenFails, GoTo, IInv, TypeOK
<1>. QED BY <1>1, <1>2, <1>3, <1>4, HandlesStay

LEMMA OpenEnvKeepsHandles ==
  ASSUME IInv, HInv, NEW t \in Thread, OpenEnv(t)
  PROVE  HInv'
<1>. DEFINE c == call[t].store
            n == call[t].name
<1>1. /\ pc[t] = "env" /\ c \in Call /\ n \in Name /\ store[c].name = n
      /\ store[c].state # "none" /\ c # Null /\ call[t] \in LocalVars
      /\ node[n].envp \in Handle /\ UNCHANGED <<dict, node, db>>
  BY NullIsNoCall DEF OpenEnv, IInv, TypeOK, CallInv, LocalInv, Node
<1>2. CASE OpenFails(t) /\ UNCHANGED <<env, call>>
  BY <1>1, <1>2, OpenFailsKeepsHandles
<1>3. ASSUME NEW e \in Call, call' = [call EXCEPT ![t].envp = e],
             pc' = [pc EXCEPT ![t] = "db"], UNCHANGED store,
             store[e].name = n, store[e].state # "none", env'[e] = "open",
             node[n].envp \in {Null, e},
             \A d \in Call : env[d] = "open" => env'[d] = "open"
      PROVE  HInv'
  <2>1. /\ pc'[t] = "db" /\ call'[t].envp = e /\ call'[t].name = n
        /\ \A u \in Thread \ {t} : pc'[u] = pc[u] /\ call'[u] = call[u]
    BY <1>1, <1>3 DEF IInv, TypeOK, LocalVars
  <2>2. NodeHandles'
    BY <1>1, <1>3 DEF HInv, NodeHandles, IInv, TypeOK, Node, Handle
  <2>3. CallHandles'
    <3>1. e # Null
      BY NullIsNoCall
    <3>2. \A u \in Thread : call[u].envp \in Handle
      BY DEF IInv, TypeOK, LocalVars
    <3>. QED BY <1>1, <1>3, <2>1, <3>1, <3>2 DEF HInv, CallHandles, OwnHandles, Handle
  <2>4. StoreHandles'
    BY <1>1, <1>3 DEF HInv, StoreHandles
  <2>. QED BY <2>2, <2>3, <2>4 DEF HInv
<1>4. CASE node[n].envp # Null
  <2>1. node[n].envp \in Call
    BY <1>1, <1>4 DEF Handle
  <2>2. /\ call' = [call EXCEPT ![t].envp = node[n].envp]
        /\ pc' = [pc EXCEPT ![t] = "db"] /\ UNCHANGED <<env, store>>
    BY <1>4 DEF OpenEnv, MyNode, GoTo
  <2>. QED BY <1>1, <1>3, <1>4, <2>1, <2>2 DEF HInv, NodeHandles
<1>5. CASE node[n].envp = Null
  <2>1. \/ OpenFails(t) /\ UNCHANGED <<env, call>>
        \/ /\ env' = [env EXCEPT ![c] = "open"]
           /\ call' = [call EXCEPT ![t].envp = c]
           /\ pc' = [pc EXCEPT ![t] = "db"] /\ UNCHANGED store
    BY <1>5 DEF OpenEnv, MyNode, GoTo
  <2>2. env' = [env EXCEPT ![c] = "open"] =>
            env'[c] = "open" /\ \A d \in Call : env[d] = "open" => env'[d] = "open"
    BY <1>1 DEF IInv, TypeOK
  <2>. QED BY <1>1, <1>2, <1>3, <1>5, <2>1, <2>2
<1>. QED BY <1>4, <1>5

LEMMA OpenDbKeepsHandles ==
  ASSUME IInv, HInv, NEW t \in Thread, OpenDb(t)
  PROVE  HInv'
<1>. DEFINE c == call[t].store
            n == call[t].name
<1>1. /\ pc[t] = "db" /\ c \in Call /\ n \in Name /\ store[c].name = n
      /\ store[c].state # "none" /\ c # Null /\ call[t] \in LocalVars
      /\ node[n].dbp \in Handle /\ UNCHANGED <<dict, node, env>>
  BY NullIsNoCall DEF OpenDb, IInv, TypeOK, CallInv, LocalInv, Node
<1>2. CASE OpenFails(t) /\ UNCHANGED <<db, call>>
  BY <1>1, <1>2, OpenFailsKeepsHandles
<1>3. ASSUME NEW d \in Call, call' = [call EXCEPT ![t].dbp = d],
             pc' = [pc EXCEPT ![t] = "ref"], UNCHANGED store,
             store[d].name = n, store[d].state # "none", db'[d] = "open",
             node[n].dbp \in {Null, d},
             \A e \in Call : db[e] = "open" => db'[e] = "open"
      PROVE  HInv'
  <2>1. /\ pc'[t] = "ref" /\ call'[t].dbp = d /\ call'[t].name = n
        /\ call'[t].envp = call[t].envp
        /\ \A u \in Thread \ {t} : pc'[u] = pc[u] /\ call'[u] = call[u]
    BY <1>1, <1>3 DEF IInv, TypeOK, LocalVars
  <2>2. NodeHandles'
    BY <1>1, <1>3 DEF HInv, NodeHandles, IInv, TypeOK, Node, Handle
  <2>3. CallHandles'
    <3>1. d # Null
      BY NullIsNoCall
    <3>2. \A u \in Thread : call[u].dbp \in Handle
      BY DEF IInv, TypeOK, LocalVars
    <3>. QED BY <1>1, <1>3, <2>1, <3>1, <3>2 DEF HInv, CallHandles, OwnHandles, Handle
  <2>4. StoreHandles'
    BY <1>1, <1>3 DEF HInv, StoreHandles
  <2>. QED BY <2>2, <2>3, <2>4 DEF HInv
<1>4. CASE node[n].dbp # Null
  <2>1. node[n].dbp \in Call
    BY <1>1, <1>4 DEF Handle
  <2>2. /\ call' = [call EXCEPT ![t].dbp = node[n].dbp]
        /\ pc' = [pc EXCEPT ![t] = "ref"] /\ UNCHANGED <<db, store>>
    BY <1>4 DEF OpenDb, MyNode, GoTo
  <2>. QED BY <1>1, <1>3, <1>4, <2>1, <2>2 DEF HInv, NodeHandles
<1>5. CASE node[n].dbp = Null
  <2>1. \/ OpenFails(t) /\ UNCHANGED <<db, call>>
        \/ /\ db' = [db EXCEPT ![c] = "open"]
           /\ call' = [call EXCEPT ![t].dbp = c]
           /\ pc' = [pc EXCEPT ![t] = "ref"] /\ UNCHANGED store
    BY <1>5 DEF OpenDb, MyNode, GoTo
  <2>2. db' = [db EXCEPT ![c] = "open"] =>
            db'[c] = "open" /\ \A e \in Call : db[e] = "open" => db'[e] = "open"
    BY <1>1 DEF IInv, TypeOK
  <2>. QED BY <1>1, <1>2, <1>3, <1>5, <2>1, <2>2
<1>. QED BY <1>4, <1>5

LEMMA RefKeepsHandles ==
  ASSUME IInv, HInv, NEW t \in Thread, Ref(t)
  PROVE  HInv'
<1>. DEFINE c == call[t].store
            n == call[t].name
            e == call[t].envp
            d == call[t].dbp
<1>1. /\ pc[t] = "ref" /\ pc' = [pc EXCEPT ![t] = "unlock"]
      /\ node' = [node EXCEPT ![n].envp = e, ![n].dbp = d, ![n].nref = @ + 1]
      /\ UNCHANGED <<dict, env, db, call>>
  BY DEF Ref, GoTo
<1>2. PICK result \in {"open", "lost"} :
        store' = [store EXCEPT ![c].state = result, ![c].envp = e, ![c].dbp = d]
  BY DEF Ref
<1>3. /\ c \in Call /\ n \in Name /\ store[c] \in Store /\ store[c].name = n
      /\ store[c].state = "opening" /\ node[n] \in Node /\ node[n].nref \in Nat
      /\ e \in Handle /\ d \in Handle /\ pc'[t] = "unlock"
  BY <1>1 DEF IInv, TypeOK, CallInv, LocalInv, Early, LocalVars, Node
<1>4. /\ store'[c].state = result /\ store'[c].name = n
      /\ store'[c].envp = e /\ store'[c].dbp = d
      /\ \A x \in Call : x # c => store'[x] = store[x]
  BY <1>2, <1>3 DEF IInv, TypeOK, Store
<1>5. /\ node'[n].envp = e /\ node'[n].dbp = d
      /\ \A m \in Name : m # n => node'[m] = node[m]
  BY <1>1, <1>3 DEF IInv, TypeOK, Node
<1>6. /\ e # Null /\ env[e] = "open" /\ store[e].name = n /\ store[e].state # "none"
      /\ d # Null /\ db[d] = "open" /\ store[d].name = n /\ store[d].state # "none"
      /\ node[n].envp \in {Null, e} /\ node[n].dbp \in {Null, d}
  BY <1>1 DEF HInv, CallHandles, OwnHandles
<1>7. \A x \in Call : store[x].state # "none" =>
        store'[x].name = store[x].name /\ store'[x].state # "none"
  BY <1>3, <1>4
<1>8. NodeHandles'
  <2>. SUFFICES ASSUME NEW m \in Name
                PROVE  /\ node'[m].envp # Null =>
                            /\ env[node'[m].envp] = "open"
                            /\ store'[node'[m].envp].name = m
                            /\ store'[node'[m].envp].state # "none"
                       /\ node'[m].dbp # Null =>
                            /\ db[node'[m].dbp] = "open"
                            /\ store'[node'[m].dbp].name = m
                            /\ store'[node'[m].dbp].state # "none"
                       /\ node'[m].nref > 0 => node'[m].envp # Null /\ node'[m].dbp # Null
    BY <1>1 DEF NodeHandles
  <2>1. CASE m = n
    BY <2>1, <1>3, <1>5, <1>6, <1>7 DEF Handle
  <2>2. CASE m # n
    BY <2>2, <1>5, <1>7 DEF HInv, NodeHandles, IInv, TypeOK, Node, Handle
  <2>. QED BY <2>1, <2>2
<1>9. CallHandles'
  <2>. SUFFICES ASSUME NEW u \in Thread PROVE OwnHandles(u)'
    BY DEF CallHandles
  <2>1. CASE u = t
    BY <2>1, <1>3 DEF OwnHandles
  <2>2. CASE u # t /\ pc[u] \in {"db", "ref", "close_db", "close_env"}
    <3>1. /\ call[u].name # n /\ call[u].name \in Name /\ pc'[u] = pc[u]
          /\ call[u].envp \in Handle /\ call[u].dbp \in Handle
      BY <1>1, <2>2, NodesAreExclusive
         DEF IInv, TypeOK, CallInv, LocalInv, LocalVars, Locked
    <3>2. OwnHandles(u) /\ node'[call[u].name] = node[call[u].name] /\ call' = call
          /\ env' = env /\ db' = db
      BY <1>1, <1>5, <3>1 DEF HInv, CallHandles
    <3>. QED BY <3>1, <3>2, <1>7 DEF OwnHandles, Handle
  <2>3. CASE u # t /\ pc[u] \notin {"db", "ref", "close_db", "close_env"}
    BY <2>3, <1>1 DEF OwnHandles, IInv, TypeOK
  <2>. QED BY <2>1, <2>2, <2>3
<1>10. StoreHandles'
  <2>. SUFFICES ASSUME NEW x \in Call, store'[x].state \in {"open", "closing"}
                PROVE  /\ store'[x].envp = node'[store'[x].name].envp
                       /\ store'[x].dbp = node'[store'[x].name].dbp
    BY DEF StoreHandles
  <2>1. CASE x = c
    BY <2>1, <1>4, <1>5
  <2>2. CASE x # c
    <3>1. store'[x] = store[x] /\ store[x].name \in Name /\ node[store[x].name].nref > 0
      BY <2>2, <1>4, UsersAreCounted
    <3>2. node[store[x].name].envp # Null /\ node[store[x].name].dbp # Null
      BY <3>1 DEF HInv, NodeHandles
    <3>. QED BY <3>1, <3>2, <1>5, <1>6 DEF HInv, StoreHandles
  <2>. QED BY <2>1, <2>2
<1>. QED BY <1>8, <1>9, <1>10 DEF HInv

LEMMA UnrefKeepsHandles ==
  ASSUME IInv, HInv, NEW t \in Thread, Unref(t)
  PROVE  HInv'
<1>. DEFINE c == call[t].store
            n == call[t].name
<1>1. /\ pc[t] = "unref" /\ node[n].nref > 0
      /\ pc' = [pc EXCEPT ![t] = IF node[n].nref - 1 = 0 THEN "close_db" ELSE "unlock"]
      /\ node' = [node EXCEPT ![n].nref = node[n].nref - 1]
      /\ store' = [store EXCEPT ![c].state = "closed"]
      /\ UNCHANGED <<dict, env, db, call>>
  BY UnrefKeeps DEF Unref, MyNode, GoTo
<1>2. c \in Call /\ n \in Name /\ store[c] \in Store /\ node[n] \in Node
      /\ node[n].nref \in Nat
  BY <1>1 DEF IInv, TypeOK, CallInv, LocalInv, Node
<1>3. /\ store'[c].state = "closed" /\ store'[c].name = store[c].name
      /\ \A x \in Call : x # c => store'[x] = store[x]
  BY <1>1, <1>2 DEF IInv, TypeOK, Store
<1>4. /\ node'[n].envp = node[n].envp /\ node'[n].dbp = node[n].dbp
      /\ node'[n].nref = node[n].nref - 1
      /\ \A m \in Name : m # n => node'[m] = node[m]
  BY <1>1, <1>2 DEF IInv, TypeOK, Node
<1>5. \A x \in Call : store[x].state # "none" =>
        store'[x].name = store[x].name /\ store'[x].state # "none"
  BY <1>3
<1>6. NodeHandles'
  BY <1>1, <1>2, <1>4, <1>5, SMTT(20) DEF HInv, NodeHandles, IInv, TypeOK, Node, Handle
<1>7. CallHandles'
  <2>. SUFFICES ASSUME NEW u \in Thread PROVE OwnHandles(u)'
    BY DEF CallHandles
  <2>1. CASE u = t
    BY <2>1, <1>1, <1>2, <1>4 DEF OwnHandles, IInv, TypeOK
  <2>2. CASE u # t /\ pc[u] \in {"db", "ref", "close_db", "close_env"}
    <3>1. /\ call[u].name # n /\ call[u].name \in Name /\ pc'[u] = pc[u]
          /\ call[u].envp \in Handle /\ call[u].dbp \in Handle
      BY <1>1, <2>2, NodesAreExclusive
         DEF IInv, TypeOK, CallInv, LocalInv, LocalVars, Locked
    <3>. QED BY <1>1, <2>2, <3>1, <1>4, <1>5 DEF HInv, CallHandles, OwnHandles, Handle
  <2>3. CASE u # t /\ pc[u] \notin {"db", "ref", "close_db", "close_env"}
    BY <2>3, <1>1 DEF OwnHandles, IInv, TypeOK
  <2>. QED BY <2>1, <2>2, <2>3
<1>8. StoreHandles'
  <2>. SUFFICES ASSUME NEW x \in Call, store'[x].state \in {"open", "closing"}
                PROVE  /\ store'[x].envp = node'[store'[x].name].envp
                       /\ store'[x].dbp = node'[store'[x].name].dbp
    BY DEF StoreHandles
  <2>1. x # c /\ store'[x] = store[x] /\ store[x].name \in Name
    BY <1>3 DEF IInv, StoresHaveNames
  <2>. QED BY <2>1, <1>4 DEF HInv, StoreHandles
<1>. QED BY <1>6, <1>7, <1>8 DEF HInv

LEMMA CloseDbKeepsHandles ==
  ASSUME "db_close" \notin Failing, IInv, HInv, NEW t \in Thread, CloseDb(t)
  PROVE  HInv'
<1>. DEFINE n == call[t].name
            d == node[n].dbp
<1>1. /\ pc[t] = "close_db" /\ pc' = [pc EXCEPT ![t] = "close_env"]
      /\ IF d = Null THEN UNCHANGED <<node, db>>
         ELSE node' = [node EXCEPT ![n].dbp = Null] /\ db' = [db EXCEPT ![d] = "closed"]
      /\ UNCHANGED <<dict, env, store, call>>
  BY DEF CloseDb, MyNode, GoTo, Outcomes
<1>2. n \in Name /\ node[n] \in Node /\ d \in Handle /\ node[n].nref = 0
  BY <1>1 DEF IInv, TypeOK, CallInv, LocalInv, Node, HInv, CallHandles, OwnHandles
<1>3. /\ node'[n].envp = node[n].envp /\ node'[n].dbp = Null /\ node'[n].nref = 0
      /\ \A m \in Name : m # n => node'[m] = node[m]
  BY <1>1, <1>2 DEF IInv, TypeOK, Node
<1>4. \A x \in Call : store[x].name # n => db'[x] = db[x]
  BY <1>1, <1>2 DEF HInv, NodeHandles, IInv, TypeOK
<1>5. NodeHandles'
  BY <1>1, <1>2, <1>3, <1>4 DEF HInv, NodeHandles, IInv, TypeOK, Node, Handle
<1>6. CallHandles'
  <2>. SUFFICES ASSUME NEW u \in Thread PROVE OwnHandles(u)'
    BY DEF CallHandles
  <2>1. CASE u = t
    BY <2>1, <1>1, <1>3 DEF OwnHandles, IInv, TypeOK
  <2>2. CASE u # t /\ pc[u] \in {"db", "ref", "close_db", "close_env"}
    <3>1. /\ call[u].name # n /\ call[u].name \in Name /\ pc'[u] = pc[u]
          /\ call[u].envp \in Handle /\ call[u].dbp \in Handle
      BY <1>1, <2>2, NodesAreExclusive
         DEF IInv, TypeOK, CallInv, LocalInv, LocalVars, Locked
    <3>. QED BY <1>1, <2>2, <3>1, <1>3, <1>4 DEF HInv, CallHandles, OwnHandles, Handle
  <2>3. CASE u # t /\ pc[u] \notin {"db", "ref", "close_db", "close_env"}
    BY <2>3, <1>1 DEF OwnHandles, IInv, TypeOK
  <2>. QED BY <2>1, <2>2, <2>3
<1>7. StoreHandles'
  <2>. SUFFICES ASSUME NEW x \in Call, store[x].state \in {"open", "closing"}
                PROVE  /\ store[x].envp = node'[store[x].name].envp
                       /\ store[x].dbp = node'[store[x].name].dbp
    BY <1>1 DEF StoreHandles
  <2>1. store[x].name \in Name /\ store[x].name # n
    BY <1>2, UsersAreCounted
  <2>. QED BY <2>1, <1>3 DEF HInv, StoreHandles
<1>. QED BY <1>5, <1>6, <1>7 DEF HInv

LEMMA CloseEnvKeepsHandles ==
  ASSUME "env_close" \notin Failing, IInv, HInv, NEW t \in Thread, CloseEnv(t)
  PROVE  HInv'
<1>. DEFINE n == call[t].name
            e == node[n].envp
<1>1. /\ pc[t] = "close_env" /\ pc' = [pc EXCEPT ![t] = "unlock"]
      /\ IF e = Null THEN UNCHANGED <<node, env>>
         ELSE node' = [node EXCEPT ![n].envp = Null] /\ env' = [env EXCEPT ![e] = "closed"]
      /\ UNCHANGED <<dict, db, store, call>>
  BY DEF CloseEnv, MyNode, GoTo, Outcomes
<1>2. n \in Name /\ node[n] \in Node /\ e \in Handle /\ node[n].nref = 0
  BY <1>1 DEF IInv, TypeOK, CallInv, LocalInv, Node, HInv, CallHandles, OwnHandles
<1>3. /\ node'[n].envp = Null /\ node'[n].dbp = node[n].dbp /\ node'[n].nref = 0
      /\ \A m \in Name : m # n => node'[m] = node[m]
  BY <1>1, <1>2 DEF IInv, TypeOK, Node
<1>4. \A x \in Call : store[x].name # n => env'[x] = env[x]
  BY <1>1, <1>2 DEF HInv, NodeHandles, IInv, TypeOK
<1>5. NodeHandles'
  BY <1>1, <1>2, <1>3, <1>4 DEF HInv, NodeHandles, IInv, TypeOK, Node, Handle
<1>6. CallHandles'
  <2>. SUFFICES ASSUME NEW u \in Thread PROVE OwnHandles(u)'
    BY DEF CallHandles
  <2>1. CASE u = t
    BY <2>1, <1>1, <1>3 DEF OwnHandles, IInv, TypeOK
  <2>2. CASE u # t /\ pc[u] \in {"db", "ref", "close_db", "close_env"}
    <3>1. /\ call[u].name # n /\ call[u].name \in Name /\ pc'[u] = pc[u]
          /\ call[u].envp \in Handle /\ call[u].dbp \in Handle
      BY <1>1, <2>2, NodesAreExclusive
         DEF IInv, TypeOK, CallInv, LocalInv, LocalVars, Locked
    <3>. QED BY <1>1, <2>2, <3>1, <1>3, <1>4 DEF HInv, CallHandles, OwnHandles, Handle
  <2>3. CASE u # t /\ pc[u] \notin {"db", "ref", "close_db", "close_env"}
    BY <2>3, <1>1 DEF OwnHandles, IInv, TypeOK
  <2>. QED BY <2>1, <2>2, <2>3
<1>7. StoreHandles'
  <2>. SUFFICES ASSUME NEW x \in Call, store[x].state \in {"open", "closing"}
                PROVE  /\ store[x].envp = node'[store[x].name].envp
                       /\ store[x].dbp = node'[store[x].name].dbp
    BY <1>1 DEF StoreHandles
  <2>1. store[x].name \in Name /\ store[x].name # n
    BY <1>2, UsersAreCounted
  <2>. QED BY <2>1, <1>3 DEF HInv, StoreHandles
<1>. QED BY <1>5, <1>6, <1>7 DEF HInv

THEOREM InitHInv == Init => HInv
BY DEF Init, HInv, NodeHandles, CallHandles, OwnHandles, StoreHandles, NoNode, NoStore

LEMMA NextKeepsHandles ==
  ASSUME "db_close" \notin Failing, "env_close" \notin Failing
  PROVE  IInv /\ HInv /\ [Next]_vars => HInv'
<1>. SUFFICES ASSUME IInv, HInv, [Next]_vars PROVE HInv'
  OBVIOUS
<1>1. ASSUME NEW t \in Thread, NEW n \in Name, CallOpen(t, n) PROVE HInv'
  BY <1>1, QuietStepsKeepHandles
<1>2. ASSUME NEW t \in Thread, NEW c \in Call, CallClose(t, c) PROVE HInv'
  BY <1>2, QuietStepsKeepHandles
<1>3. ASSUME NEW t \in Thread, Step(t) PROVE HInv'
  BY <1>3, QuietStepsKeepHandles, OpenEnvKeepsHandles, OpenDbKeepsHandles, RefKeepsHandles,
     UnrefKeepsHandles, CloseDbKeepsHandles, CloseEnvKeepsHandles DEF Step
<1>4. CASE UNCHANGED vars
  BY <1>4 DEF vars, HInv, NodeHandles, CallHandles, OwnHandles, StoreHandles
<1>5. CASE Done
  BY <1>5, <1>4 DEF Done
<1>. QED BY <1>1, <1>2, <1>3, <1>4, <1>5 DEF Next

\* While no close fails, a connection never works on a database or environment
\* that another connection has closed.
THEOREM StoresStayLive ==
  ASSUME "db_close" \notin Failing, "env_close" \notin Failing
  PROVE  Spec => []StoresAreLive
<1>1. IInv /\ HInv => StoresAreLive
  BY UsersAreCounted DEF HInv, NodeHandles, StoreHandles, StoresAreLive
<1>2. IInv /\ HInv /\ [Next]_vars => HInv'
  BY NextKeepsHandles
<1>. QED BY InitIInv, NextKeeps, InitHInv, <1>1, <1>2, PTL DEF Spec
-----------------------------------------------------------------------------
(* What is open, when neither a close nor the opening of a database fails. *)

\* An open environment or database is the node's, or that of a kVStoreOpen that
\* will give it to the node; a node without references has no database, unless a
\* kvbdbClose is about to close it.
EnvReached(c) ==
    \/ node[store[c].name].envp = c
    \/ \E t \in Thread : pc[t] \in {"db", "ref"} /\ call[t].envp = c
DbReached(c) ==
    \/ node[store[c].name].dbp = c
    \/ \E t \in Thread : pc[t] = "ref" /\ call[t].dbp = c
Counted(n) ==
    \/ node[n].dbp = Null \/ node[n].nref > 0
    \/ \E t \in Thread : pc[t] = "close_db" /\ call[t].name = n

Reached ==
    /\ \A c \in Call : env[c] = "open" => store[c].state # "none" /\ EnvReached(c)
    /\ \A c \in Call : db[c] = "open" => store[c].state # "none" /\ DbReached(c)
    /\ \A n \in Name : Counted(n)

\* The steps that change neither handles nor counts, of threads that are not
\* between taking a handle and giving it to the node.
LEMMA ReachedStays ==
  ASSUME IInv, Reached, UNCHANGED <<env, db>>,
         \A n \in Name : /\ node'[n].envp = node[n].envp /\ node'[n].dbp = node[n].dbp
                         /\ node'[n].nref = node[n].nref,
         \A c \in Call : store[c].state # "none" =>
            store'[c].name = store[c].name /\ store'[c].state # "none",
         \A t \in Thread : pc[t] \in {"db", "ref", "close_db"} =>
            pc'[t] = pc[t] /\ call'[t] = call[t]
  PROVE  Reached'
<1>1. \A c \in Call : store[c].state # "none" => store[c].name \in Name
  BY DEF IInv, StoresHaveNames
<1>2. \A c \in Call : store[c].state # "none" /\ EnvReached(c) => EnvReached(c)'
  BY <1>1 DEF EnvReached
<1>3. \A c \in Call : store[c].state # "none" /\ DbReached(c) => DbReached(c)'
  BY <1>1 DEF DbReached
<1>4. \A n \in Name : Counted(n) => Counted(n)'
  BY DEF Counted
<1>. QED BY <1>2, <1>3, <1>4 DEF Reached

LEMMA QuietStepsKeepReached ==
  ASSUME IInv, Reached, NEW t \in Thread,
         \/ \E n \in Name : CallOpen(t, n)
         \/ \E c \in Call : CallClose(t, c)
         \/ InitDict(t) \/ LockDict(t) \/ LockNode(t) \/ Unlock(t)
  PROVE  Reached'
<1>1. pc[t] \notin {"db", "ref", "close_db"} /\ UNCHANGED <<env, db>>
  BY DEF CallOpen, CallClose, InitDict, LockDict, LockNode, Unlock
<1>2. \A u \in Thread : u # t => pc'[u] = pc[u] /\ call'[u] = call[u]
  BY DEF CallOpen, CallClose, InitDict, LockDict, LockNode, Unlock, GoTo, IInv, TypeOK
<1>3. \A n \in Name : /\ node'[n].envp = node[n].envp /\ node'[n].dbp = node[n].dbp
                      /\ node'[n].nref = node[n].nref
  <2>1. CASE LockNode(t) \/ Unlock(t)
    BY <2>1 DEF LockNode, Unlock, IInv, TypeOK, Node
  <2>. QED BY <2>1 DEF CallOpen, CallClose, InitDict, LockDict
<1>4. \A c \in Call : store[c].state # "none" =>
        store'[c].name = store[c].name /\ store'[c].state # "none"
  <2>1. ASSUME NEW n \in Name, CallOpen(t, n)
        PROVE  \A c \in Call : store[c].state # "none" => store'[c] = store[c]
    <3>1. PICK i \in Unused(t) :
            store' = [store EXCEPT ![<<t, i>>].state = "opening", ![<<t, i>>].name = n]
      BY <2>1 DEF CallOpen
    <3>2. <<t, i>> \in Call /\ store[<<t, i>>].state = "none"
      BY <3>1 DEF Unused, Call
    <3>. QED BY <3>1, <3>2 DEF IInv, TypeOK
  <2>2. ASSUME NEW c \in Call, CallClose(t, c)
        PROVE  \A d \in Call : store'[d].name = store[d].name
                               /\ (store[d].state # "none" => store'[d].state # "none")
    BY <2>2 DEF CallClose, IInv, TypeOK, Store
  <2>3. CASE InitDict(t) \/ LockDict(t) \/ LockNode(t) \/ Unlock(t)
    BY <2>3 DEF InitDict, LockDict, LockNode, Unlock
  <2>. QED BY <2>1, <2>2, <2>3
<1>. QED BY <1>1, <1>2, <1>3, <1>4, ReachedStays

LEMMA OpenEnvKeepsReached ==
  ASSUME IInv, HInv, Reached, NEW t \in Thread, OpenEnv(t)
  PROVE  Reached'
<1>. DEFINE c == call[t].store
            n == call[t].name
<1>1. /\ pc[t] = "env" /\ c \in Call /\ n \in Name /\ store[c].state = "opening"
      /\ store[c].name = n /\ store[c] \in Store /\ call[t] \in LocalVars
      /\ UNCHANGED <<dict, node, db>>
  BY DEF OpenEnv, IInv, TypeOK, CallInv, LocalInv, Early
<1>2. CASE OpenFails(t) /\ UNCHANGED <<env, call>>
  <2>1. \A d \in Call : store'[d].name = store[d].name
                        /\ (store[d].state # "none" => store'[d].state # "none")
    BY <1>1, <1>2 DEF OpenFails, IInv, TypeOK, Store
  <2>2. \A u \in Thread : u # t => pc'[u] = pc[u]
    BY <1>2 DEF OpenFails, GoTo, IInv, TypeOK
  <2>. QED BY <1>1, <1>2, <2>1, <2>2, ReachedStays
<1>3. ASSUME NEW e, call' = [call EXCEPT ![t].envp = e],
             pc' = [pc EXCEPT ![t] = "db"], UNCHANGED store, store[e].state # "none",
             \A d \in Call : env'[d] = "open" => env[d] = "open" \/ d = e
      PROVE  Reached'
  <2>1. /\ pc'[t] = "db" /\ call'[t].envp = e
        /\ \A u \in Thread : u # t => pc'[u] = pc[u] /\ call'[u] = call[u]
    BY <1>1, <1>3 DEF IInv, TypeOK, LocalVars
  <2>2. \A d \in Call : EnvReached(d) \/ d = e => EnvReached(d)'
    BY <1>1, <1>3, <2>1 DEF EnvReached
  <2>3. \A d \in Call : DbReached(d) => DbReached(d)'
    BY <1>1, <1>3, <2>1 DEF DbReached
  <2>4. \A m \in Name : Counted(m) => Counted(m)'
    BY <1>1, <1>3, <2>1 DEF Counted
  <2>. QED BY <1>1, <1>3, <2>2, <2>3, <2>4 DEF Reached
<1>4. CASE node[n].envp # Null
  <2>1. store[node[n].envp].state # "none"
    BY <1>1, <1>4 DEF HInv, NodeHandles
  <2>2. /\ call' = [call EXCEPT ![t].envp = node[n].envp]
        /\ pc' = [pc EXCEPT ![t] = "db"] /\ UNCHANGED <<env, store>>
    BY <1>4 DEF OpenEnv, MyNode, GoTo
  <2>. QED BY <1>3, <2>1, <2>2
<1>5. CASE node[n].envp = Null
  <2>1. \/ OpenFails(t) /\ UNCHANGED <<env, call>>
        \/ /\ env' = [env EXCEPT ![c] = "open"]
           /\ call' = [call EXCEPT ![t].envp = c]
           /\ pc' = [pc EXCEPT ![t] = "db"] /\ UNCHANGED store
    BY <1>5 DEF OpenEnv, MyNode, GoTo
  <2>2. env' = [env EXCEPT ![c] = "open"] =>
            \A d \in Call : env'[d] = "open" => env[d] = "open" \/ d = c
    BY <1>1 DEF IInv, TypeOK
  <2>3. store[c].state # "none"
    BY <1>1
  <2>. QED BY <1>2, <1>3, <2>1, <2>2, <2>3
<1>. QED BY <1>4, <1>5

LEMMA OpenDbKeepsReached ==
  ASSUME "db_open" \notin Failing, IInv, HInv, Reached, NEW t \in Thread, OpenDb(t)
  PROVE  Reached'
<1>. DEFINE c == call[t].store
            n == call[t].name
<1>1. /\ pc[t] = "db" /\ c \in Call /\ n \in Name /\ store[c].state # "none"
      /\ call[t] \in LocalVars /\ UNCHANGED <<dict, node, env>>
  BY DEF OpenDb, IInv, TypeOK, CallInv, LocalInv
<1>2. ASSUME NEW d, call' = [call EXCEPT ![t].dbp = d],
             pc' = [pc EXCEPT ![t] = "ref"], UNCHANGED store, store[d].state # "none",
             \A x \in Call : db'[x] = "open" => db[x] = "open" \/ x = d
      PROVE  Reached'
  <2>1. /\ pc'[t] = "ref" /\ call'[t].dbp = d /\ call'[t].envp = call[t].envp
        /\ \A u \in Thread : u # t => pc'[u] = pc[u] /\ call'[u] = call[u]
    BY <1>1, <1>2 DEF IInv, TypeOK, LocalVars
  <2>2. \A x \in Call : EnvReached(x) => EnvReached(x)'
    BY <1>1, <1>2, <2>1 DEF EnvReached
  <2>3. \A x \in Call : DbReached(x) \/ x = d => DbReached(x)'
    BY <1>1, <1>2, <2>1 DEF DbReached
  <2>4. \A m \in Name : Counted(m) => Counted(m)'
    BY <1>1, <1>2, <2>1 DEF Counted
  <2>. QED BY <1>1, <1>2, <2>2, <2>3, <2>4 DEF Reached
<1>3. CASE node[n].dbp # Null
  <2>1. store[node[n].dbp].state # "none"
    BY <1>1, <1>3 DEF HInv, NodeHandles
  <2>2. /\ call' = [call EXCEPT ![t].dbp = node[n].dbp]
        /\ pc' = [pc EXCEPT ![t] = "ref"] /\ UNCHANGED <<db, store>>
    BY <1>3 DEF OpenDb, MyNode, GoTo
  <2>. QED BY <1>2, <2>1, <2>2
<1>4. CASE node[n].dbp = Null
  <2>1. /\ db' = [db EXCEPT ![c] = "open"]
        /\ call' = [call EXCEPT ![t].dbp = c]
        /\ pc' = [pc EXCEPT ![t] = "ref"] /\ UNCHANGED store
    BY <1>4 DEF OpenDb, MyNode, GoTo, Outcomes
  <2>2. \A x \in Call : db'[x] = "open" => db[x] = "open" \/ x = c
    BY <1>1, <2>1 DEF IInv, TypeOK
  <2>3. store[c].state # "none"
    BY <1>1
  <2>. QED BY <1>2, <2>1, <2>2, <2>3
<1>. QED BY <1>3, <1>4

LEMMA RefKeepsReached ==
  ASSUME IInv, HInv, Reached, NEW t \in Thread, Ref(t)
  PROVE  Reached'
<1>. DEFINE c == call[t].store
            n == call[t].name
            e == call[t].envp
            d == call[t].dbp
<1>1. /\ pc[t] = "ref" /\ pc' = [pc EXCEPT ![t] = "unlock"]
      /\ node' = [node EXCEPT ![n].envp = e, ![n].dbp = d, ![n].nref = @ + 1]
      /\ UNCHANGED <<dict, env, db, call>>
  BY DEF Ref, GoTo
<1>2. PICK result \in {"open", "lost"} :
        store' = [store EXCEPT ![c].state = result, ![c].envp = e, ![c].dbp = d]
  BY DEF Ref
<1>3. /\ c \in Call /\ n \in Name /\ store[c] \in Store
      /\ node[n] \in Node /\ node[n].nref \in Nat
  BY <1>1 DEF IInv, TypeOK, CallInv, LocalInv, Node
<1>4. \A x \in Call : store[x].state # "none" =>
        store'[x].name = store[x].name /\ store'[x].state # "none"
  BY <1>2, <1>3 DEF IInv, TypeOK, Store
<1>5. /\ node'[n].envp = e /\ node'[n].dbp = d /\ node'[n].nref > 0
      /\ \A m \in Name : m # n => node'[m] = node[m]
  BY <1>1, <1>3 DEF IInv, TypeOK, Node
<1>6. /\ store[e].name = n /\ store[d].name = n
      /\ node[n].envp \in {Null, e} /\ node[n].dbp \in {Null, d}
  BY <1>1 DEF HInv, CallHandles, OwnHandles
<1>7. \A u \in Thread : u # t => pc'[u] = pc[u] /\ call'[u] = call[u]
  BY <1>1 DEF IInv, TypeOK
<1>8. \A x \in Call : store[x].state # "none" => store[x].name \in Name /\ x # Null
  BY NullIsNoCall DEF IInv, StoresHaveNames
<1>9. ASSUME NEW x \in Call, store[x].state # "none", EnvReached(x) PROVE EnvReached(x)'
  <2>1. CASE node[store[x].name].envp = x
    BY <1>4, <1>5, <1>6, <1>8, <1>9, <2>1 DEF EnvReached
  <2>2. CASE \E u \in Thread : pc[u] \in {"db", "ref"} /\ call[u].envp = x
    BY <1>4, <1>5, <1>6, <1>7, <1>9, <2>2 DEF EnvReached
  <2>. QED BY <1>9, <2>1, <2>2 DEF EnvReached
<1>10. ASSUME NEW x \in Call, store[x].state # "none", DbReached(x) PROVE DbReached(x)'
  <2>1. CASE node[store[x].name].dbp = x
    BY <1>4, <1>5, <1>6, <1>8, <1>10, <2>1 DEF DbReached
  <2>2. CASE \E u \in Thread : pc[u] = "ref" /\ call[u].dbp = x
    BY <1>4, <1>5, <1>6, <1>7, <1>10, <2>2 DEF DbReached
  <2>. QED BY <1>10, <2>1, <2>2 DEF DbReached
<1>11. \A m \in Name : Counted(m) => Counted(m)'
  BY <1>1, <1>5, <1>7 DEF Counted
<1>. QED BY <1>1, <1>4, <1>9, <1>10, <1>11 DEF Reached

LEMMA UnrefKeepsReached ==
  ASSUME IInv, Reached, NEW t \in Thread, Unref(t)
  PROVE  Reached'
<1>. DEFINE c == call[t].store
            n == call[t].name
<1>1. /\ pc[t] = "unref" /\ node[n].nref > 0
      /\ pc' = [pc EXCEPT ![t] = IF node[n].nref - 1 = 0 THEN "close_db" ELSE "unlock"]
      /\ node' = [node EXCEPT ![n].nref = node[n].nref - 1]
      /\ store' = [store EXCEPT ![c].state = "closed"]
      /\ UNCHANGED <<dict, env, db, call>>
  BY UnrefKeeps DEF Unref, MyNode, GoTo
<1>2. c \in Call /\ n \in Name /\ store[c] \in Store /\ node[n] \in Node
      /\ node[n].nref \in Nat
  BY <1>1 DEF IInv, TypeOK, CallInv, LocalInv, Node
<1>3. \A x \in Call : store[x].state # "none" =>
        store'[x].name = store[x].name /\ store'[x].state # "none"
  BY <1>1, <1>2 DEF IInv, TypeOK, Store
<1>4. /\ node'[n].nref = node[n].nref - 1
      /\ \A m \in Name : m # n => node'[m] = node[m]
      /\ \A m \in Name : node'[m].envp = node[m].envp /\ node'[m].dbp = node[m].dbp
  BY <1>1, <1>2 DEF IInv, TypeOK, Node
<1>5. /\ \A u \in Thread : u # t => pc'[u] = pc[u]
      /\ node'[n].nref > 0 \/ pc'[t] = "close_db"
  BY <1>1, <1>2, <1>4 DEF IInv, TypeOK
<1>6. \A x \in Call : store[x].state # "none" => store[x].name \in Name
  BY DEF IInv, StoresHaveNames
<1>7. \A x \in Call : store[x].state # "none" /\ EnvReached(x) => EnvReached(x)'
  BY <1>1, <1>3, <1>4, <1>5, <1>6 DEF EnvReached
<1>8. \A x \in Call : store[x].state # "none" /\ DbReached(x) => DbReached(x)'
  BY <1>1, <1>3, <1>4, <1>5, <1>6 DEF DbReached
<1>9. \A m \in Name : Counted(m) => Counted(m)'
  BY <1>1, <1>4, <1>5 DEF Counted
<1>. QED BY <1>1, <1>3, <1>7, <1>8, <1>9 DEF Reached

LEMMA CloseDbKeepsReached ==
  ASSUME "db_close" \notin Failing, IInv, Reached, NEW t \in Thread, CloseDb(t)
  PROVE  Reached'
<1>. DEFINE n == call[t].name
            d == node[n].dbp
<1>1. /\ pc[t] = "close_db" /\ pc' = [pc EXCEPT ![t] = "close_env"]
      /\ IF d = Null THEN UNCHANGED <<node, db>>
         ELSE node' = [node EXCEPT ![n].dbp = Null] /\ db' = [db EXCEPT ![d] = "closed"]
      /\ UNCHANGED <<dict, env, store, call>>
  BY DEF CloseDb, MyNode, GoTo, Outcomes
<1>2. n \in Name /\ node[n] \in Node /\ d \in Handle
  BY <1>1 DEF IInv, TypeOK, CallInv, LocalInv, Node
<1>3. /\ node'[n].dbp = Null
      /\ \A m \in Name : m # n => node'[m] = node[m]
      /\ \A m \in Name : node'[m].envp = node[m].envp
  BY <1>1, <1>2 DEF IInv, TypeOK, Node
<1>4. \A x \in Call : db'[x] = "open" => db[x] = "open" /\ x # d
  BY <1>1, <1>2, NullIsNoCall DEF IInv, TypeOK
<1>5. \A u \in Thread : u # t => pc'[u] = pc[u]
  BY <1>1 DEF IInv, TypeOK
<1>6. \A x \in Call : store[x].state # "none" => store[x].name \in Name
  BY DEF IInv, StoresHaveNames
<1>7. \A x \in Call : store[x].state # "none" /\ EnvReached(x) => EnvReached(x)'
  BY <1>1, <1>3, <1>5, <1>6 DEF EnvReached
<1>8. \A x \in Call : store[x].state # "none" /\ DbReached(x) /\ x # d => DbReached(x)'
  BY <1>1, <1>3, <1>5, <1>6 DEF DbReached
<1>9. \A m \in Name : Counted(m) => Counted(m)'
  BY <1>1, <1>3, <1>5 DEF Counted
<1>. QED BY <1>1, <1>4, <1>7, <1>8, <1>9 DEF Reached

LEMMA CloseEnvKeepsReached ==
  ASSUME "env_close" \notin Failing, IInv, Reached, NEW t \in Thread, CloseEnv(t)
  PROVE  Reached'
<1>. DEFINE n == call[t].name
            e == node[n].envp
<1>1. /\ pc[t] = "close_env" /\ pc' = [pc EXCEPT ![t] = "unlock"]
      /\ IF e = Null THEN UNCHANGED <<node, env>>
         ELSE node' = [node EXCEPT ![n].envp = Null] /\ env' = [env EXCEPT ![e] = "closed"]
      /\ UNCHANGED <<dict, db, store, call>>
  BY DEF CloseEnv, MyNode, GoTo, Outcomes
<1>2. n \in Name /\ node[n] \in Node /\ e \in Handle
  BY <1>1 DEF IInv, TypeOK, CallInv, LocalInv, Node
<1>3. /\ \A m \in Name : m # n => node'[m] = node[m]
      /\ \A m \in Name : node'[m].dbp = node[m].dbp /\ node'[m].nref = node[m].nref
  BY <1>1, <1>2 DEF IInv, TypeOK, Node
<1>4. \A x \in Call : env'[x] = "open" => env[x] = "open" /\ x # e
  BY <1>1, <1>2, NullIsNoCall DEF IInv, TypeOK
<1>5. \A u \in Thread : u # t => pc'[u] = pc[u]
  BY <1>1 DEF IInv, TypeOK
<1>6. \A x \in Call : store[x].state # "none" => store[x].name \in Name
  BY DEF IInv, StoresHaveNames
<1>7. \A x \in Call : store[x].state # "none" /\ EnvReached(x) /\ x # e => EnvReached(x)'
  BY <1>1, <1>3, <1>5, <1>6 DEF EnvReached
<1>8. \A x \in Call : store[x].state # "none" /\ DbReached(x) => DbReached(x)'
  BY <1>1, <1>3, <1>5, <1>6 DEF DbReached
<1>9. \A m \in Name : Counted(m) => Counted(m)'
  BY <1>1, <1>3, <1>5 DEF Counted
<1>. QED BY <1>1, <1>4, <1>7, <1>8, <1>9 DEF Reached

LEMMA InitReached == Init => Reached
BY DEF Init, Reached, Counted, NoNode

LEMMA NextKeepsReached ==
  ASSUME "db_open" \notin Failing, "db_close" \notin Failing, "env_close" \notin Failing
  PROVE  IInv /\ HInv /\ Reached /\ [Next]_vars => Reached'
<1>. SUFFICES ASSUME IInv, HInv, Reached, [Next]_vars PROVE Reached'
  OBVIOUS
<1>1. ASSUME NEW t \in Thread, NEW n \in Name, CallOpen(t, n) PROVE Reached'
  BY <1>1, QuietStepsKeepReached
<1>2. ASSUME NEW t \in Thread, NEW c \in Call, CallClose(t, c) PROVE Reached'
  BY <1>2, QuietStepsKeepReached
<1>3. ASSUME NEW t \in Thread, Step(t) PROVE Reached'
  BY <1>3, QuietStepsKeepReached, OpenEnvKeepsReached, OpenDbKeepsReached, RefKeepsReached,
     UnrefKeepsReached, CloseDbKeepsReached, CloseEnvKeepsReached DEF Step
<1>4. CASE UNCHANGED vars
  BY <1>4 DEF vars, Reached, EnvReached, DbReached, Counted
<1>5. CASE Done
  BY <1>5, <1>4 DEF Done
<1>. QED BY <1>1, <1>2, <1>3, <1>4, <1>5 DEF Next

LEMMA NothingLeaksNow ==
  ASSUME IInv, HInv, Reached
  PROVE  NothingLeaks
<1>1. ASSUME NEW n \in Name, node[n].mutex = NoThread, NEW t \in Thread, pc[t] \in Locked
      PROVE  call[t].name # n
  BY <1>1 DEF IInv, CallInv, LocalInv, Locked
<1>2. ASSUME NEW n \in Name, node[n].mutex = NoThread, NEW c \in Call, store[c].name = n,
             env[c] = "open"
      PROVE  node[n].envp = c
  <2>1. ~\E t \in Thread : pc[t] \in {"db", "ref"} /\ call[t].envp = c
    BY <1>1, <1>2 DEF HInv, CallHandles, OwnHandles, Locked
  <2>. QED BY <1>2, <2>1 DEF Reached, EnvReached
<1>3. ASSUME NEW n \in Name, node[n].mutex = NoThread, Users(n) = {}
      PROVE  node[n].dbp = Null
  <2>1. node[n].nref = 0
    BY <1>3, FS_EmptySet DEF IInv, RefsExact
  <2>2. ~\E t \in Thread : pc[t] = "close_db" /\ call[t].name = n
    BY <1>1, <1>3 DEF Locked
  <2>. QED BY <2>1, <2>2 DEF Reached, Counted
<1>4. ASSUME NEW n \in Name, node[n].mutex = NoThread, Users(n) = {},
             NEW c \in Call, store[c].name = n
      PROVE  db[c] # "open"
  <2>. SUFFICES ASSUME db[c] = "open" PROVE FALSE
    OBVIOUS
  <2>1. ~\E t \in Thread : pc[t] = "ref" /\ call[t].dbp = c
    BY <1>1, <1>4 DEF HInv, CallHandles, OwnHandles, Locked
  <2>2. node[n].dbp = c
    BY <1>4, <2>1 DEF Reached, DbReached
  <2>. QED BY <1>3, <1>4, <2>2, NullIsNoCall
<1>. QED BY <1>2, <1>3, <1>4 DEF NothingLeaks, ClosedWhenUnused, NoEnvironmentLost

\* While a database can always be opened and no close fails, nothing stays open
\* that no later close can reach, and what nobody uses has been closed, also
\* when opening an environment or allocating a store fails.
THEOREM NothingStaysOpen ==
  ASSUME "db_open" \notin Failing, "db_close" \notin Failing, "env_close" \notin Failing
  PROVE  Spec => []NothingLeaks
<1>1. IInv /\ HInv /\ Reached => NothingLeaks
  BY NothingLeaksNow
<1>2. IInv /\ HInv /\ [Next]_vars => HInv'
  BY NextKeepsHandles
<1>3. IInv /\ HInv /\ Reached /\ [Next]_vars => Reached'
  BY NextKeepsReached
<1>. QED BY InitIInv, NextKeeps, InitHInv, InitReached, <1>1, <1>2, <1>3, PTL DEF Spec
=============================================================================
