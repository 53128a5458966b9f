------------------------ MODULE ProxyRegistryProofs -------------------------
(***************************************************************************)
(* Proofs about ProxyRegistry for any set of objects and addresses.        *)
(***************************************************************************)
EXTENDS ProxyRegistry, TLAPS

\* The heap: distinct objects have distinct addresses, and what the program
\* or a handler refers to exists.
HeapIsSound ==
  /\ \A o, p \in Objs : at[o] = at[p] /\ at[o] # NoAddr => o = p
  /\ \A o \in held : at[o] # NoAddr
  /\ \A i \in Ids : reverse[i] # NoObj => at[reverse[i]] # NoAddr

\* Generated ids from count on are new.
IdsAreFresh ==
  /\ \A i \in GeneratedIds : i >= count => reverse[i] = NoObj
  /\ \A h \in handles : h[1] \in GeneratedIds => h[1] < count
  /\ \A a \in Addrs : proxyMap[a] \in GeneratedIds =>
       /\ proxyMap[a] < count
       /\ reverse[proxyMap[a]] \in {objRefs[a], NoObj}

\* If names are given once, the two directions of the registry agree, but
\* for main0 objects that a later receiver replaced; the program has none.
HandlersAreKnown ==
  \A i \in Ids : reverse[i] # NoObj => proxyMap[at[reverse[i]]] = i

KnownHaveHandlers ==
  \A a \in Addrs : proxyMap[a] \notin {NoId, Main0}
                     => reverse[proxyMap[a]] = objRefs[a]

Main0IsPrivate == \A o \in held : proxyMap[at[o]] # Main0

DirectionsAgree ==
  ~reassigned => HandlersAreKnown /\ KnownHaveHandlers /\ Main0IsPrivate

IInv == /\ TypeOK
        /\ HeapIsSound
        /\ KeysAreAlive
        /\ IdsAreFresh
        /\ HandleIsFaithful
        /\ DirectionsAgree
-----------------------------------------------------------------------------
LEMMA Distinct ==
  /\ NoAddr \notin Addrs /\ NoObj \notin Objs /\ NoId \notin Ids
  /\ Main0 \in Ids /\ Main0 \notin GeneratedIds
  /\ Names \subseteq Ids /\ Names \cap GeneratedIds = {} /\ Main0 \notin Names
  /\ GeneratedIds \subseteq Ids
BY SentinelAssumption, NamesAssumption, MaxIdsAssumption DEF Ids, GeneratedIds

\* What may be registered exists, at an address of its own.
LEMMA Placed ==
  ASSUME IInv, NEW o \in Objs, o \in held \/ Registered(o)
  PROVE  /\ at[o] \in Addrs
         /\ \A p \in Objs : at[p] = at[o] => p = o
         /\ objRefs[at[o]] \in {o, NoObj}
         /\ proxyMap[at[o]] # NoId => objRefs[at[o]] = o
<1> USE Distinct DEF IInv, TypeOK
<1>1. at[o] \in Addrs
  BY DEF HeapIsSound, Registered
<1>2. \A p \in Objs : at[p] = at[o] => p = o
  BY <1>1 DEF HeapIsSound
<1>3. objRefs[at[o]] \in {o, NoObj}
  BY <1>1, <1>2 DEF KeysAreAlive
<1> QED
  BY <1>1, <1>2, <1>3 DEF KeysAreAlive

\* At a free address nothing is registered.
LEMMA FreeIsEmpty ==
  ASSUME IInv, NEW a \in Addrs, Free(a)
  PROVE  objRefs[a] = NoObj /\ proxyMap[a] = NoId
BY Distinct DEF IInv, TypeOK, KeysAreAlive, Free

\* asProxy of a new object
LEMMA NewProxyStep ==
  ASSUME IInv, NEW o \in Objs, AsNewProxy(o)
  PROVE  IInv'
<1> USE Distinct DEF IInv, TypeOK
<1>0. /\ at[o] \in Addrs /\ objRefs[at[o]] \in {o, NoObj}
      /\ \A p \in Objs : at[p] = at[o] => p = o
      /\ proxyMap[at[o]] # NoId => objRefs[at[o]] = o
  BY Placed DEF AsNewProxy
<1>a. count \in GeneratedIds /\ count + 1 \in 0 .. MaxIds
  BY MaxIdsAssumption DEF AsNewProxy, GeneratedIds
<1>1. TypeOK'
  BY <1>0, <1>a DEF AsNewProxy, Put
<1>2. HeapIsSound'
  BY <1>0, <1>a DEF AsNewProxy, Put, HeapIsSound
<1>3. KeysAreAlive'
  BY <1>0, <1>a DEF AsNewProxy, Put, KeysAreAlive
<1>4. IdsAreFresh'
  BY <1>0, <1>a DEF AsNewProxy, Put, IdsAreFresh, GeneratedIds
<1>5. HandleIsFaithful'
  BY <1>0, <1>a
     DEF AsNewProxy, Put, HandleIsFaithful, IdsAreFresh, GeneratedIds
<1>6. DirectionsAgree'
  <2> SUFFICES ASSUME ~reassigned'
               PROVE (HandlersAreKnown /\ KnownHaveHandlers /\ Main0IsPrivate)'
    BY DEF DirectionsAgree
  <2> ~reassigned
    BY DEF AsNewProxy
  <2> USE DEF DirectionsAgree, KeysAreAlive, HeapIsSound
  <2>1. HandlersAreKnown'
    BY <1>0, <1>a DEF AsNewProxy, Put, HandlersAreKnown
  <2>2. KnownHaveHandlers'
    <3>1. \A a \in Addrs : proxyMap[a] # count
      BY <1>a DEF IdsAreFresh, GeneratedIds
    <3>2. /\ proxyMap' = [proxyMap EXCEPT ![at[o]] = count]
          /\ reverse' = [reverse EXCEPT ![count] = o]
          /\ objRefs' = [objRefs EXCEPT ![at[o]] = o]
      BY DEF AsNewProxy, Put
    <3> QED
      BY <1>0, <1>a, <3>1, <3>2 DEF KnownHaveHandlers
  <2>3. Main0IsPrivate'
    BY <1>0, <1>a DEF AsNewProxy, Put, HandlersAreKnown, Main0IsPrivate
  <2> QED
    BY <2>1, <2>2, <2>3
<1> QED
  BY <1>1, <1>2, <1>3, <1>4, <1>5, <1>6

\* asProxy of a registered object
LEMMA KnownProxyStep ==
  ASSUME IInv, NEW o \in Objs, AsKnownProxy(o)
  PROVE  IInv'
<1> USE Distinct DEF IInv, TypeOK
<1>0. /\ at[o] \in Addrs /\ objRefs[at[o]] \in {o, NoObj}
      /\ \A p \in Objs : at[p] = at[o] => p = o
      /\ proxyMap[at[o]] # NoId => objRefs[at[o]] = o
  BY Placed DEF AsKnownProxy
<1>1. TypeOK'
  BY <1>0 DEF AsKnownProxy
<1>2. HeapIsSound'
  BY <1>0 DEF AsKnownProxy, HeapIsSound
<1>3. KeysAreAlive'
  BY <1>0 DEF AsKnownProxy, KeysAreAlive
<1>4. IdsAreFresh'
  BY <1>0 DEF AsKnownProxy, IdsAreFresh, GeneratedIds
<1>5. HandleIsFaithful'
  BY <1>0 DEF AsKnownProxy, HandleIsFaithful, IdsAreFresh, GeneratedIds
<1>6. DirectionsAgree'
  <2> SUFFICES ASSUME ~reassigned'
               PROVE (HandlersAreKnown /\ KnownHaveHandlers /\ Main0IsPrivate)'
    BY DEF DirectionsAgree
  <2> ~reassigned
    BY DEF AsKnownProxy
  <2> USE DEF DirectionsAgree, KeysAreAlive, HeapIsSound
  <2>1. HandlersAreKnown'
    BY <1>0 DEF AsKnownProxy, HandlersAreKnown
  <2>2. KnownHaveHandlers'
    BY <1>0 DEF AsKnownProxy, HandlersAreKnown, KnownHaveHandlers
  <2>3. Main0IsPrivate'
    BY <1>0 DEF AsKnownProxy, HandlersAreKnown, Main0IsPrivate
  <2> QED
    BY <2>1, <2>2, <2>3
<1> QED
  BY <1>1, <1>2, <1>3, <1>4, <1>5, <1>6

\* setMain, setObject
LEMMA SetObjectStep ==
  ASSUME IInv, NEW o \in Objs, NEW n \in Names, SetObject(o, n)
  PROVE  IInv'
<1> USE Distinct DEF IInv, TypeOK
<1>0. /\ at[o] \in Addrs /\ objRefs[at[o]] \in {o, NoObj}
      /\ \A p \in Objs : at[p] = at[o] => p = o
      /\ proxyMap[at[o]] # NoId => objRefs[at[o]] = o
  BY Placed DEF SetObject
<1>1. TypeOK'
  BY <1>0 DEF SetObject, Put
<1>2. HeapIsSound'
  BY <1>0 DEF SetObject, Put, HeapIsSound
<1>3. KeysAreAlive'
  BY <1>0 DEF SetObject, Put, KeysAreAlive
<1>4. IdsAreFresh'
  BY <1>0 DEF SetObject, Put, IdsAreFresh, GeneratedIds
<1>5. HandleIsFaithful'
  BY <1>0 DEF SetObject, Put, HandleIsFaithful, IdsAreFresh, GeneratedIds
<1>6. DirectionsAgree'
  <2> SUFFICES ASSUME ~reassigned'
               PROVE (HandlersAreKnown /\ KnownHaveHandlers /\ Main0IsPrivate)'
    BY DEF DirectionsAgree
  <2>0. ~reassigned /\ reverse[n] = NoObj /\ proxyMap[at[o]] = NoId
    <3>1. reassigned' =
            (reassigned \/ reverse[n] # NoObj \/ proxyMap[at[o]] # NoId)
      BY Zenon DEF SetObject
    <3> QED
      BY <3>1, Zenon
  <2> USE <2>0 DEF DirectionsAgree, KeysAreAlive, HeapIsSound
  <2>1. HandlersAreKnown'
    BY <1>0 DEF SetObject, Put, HandlersAreKnown
  <2>2. KnownHaveHandlers'
    BY <1>0 DEF SetObject, Put, HandlersAreKnown, KnownHaveHandlers
  <2>3. Main0IsPrivate'
    BY <1>0 DEF SetObject, Put, HandlersAreKnown, Main0IsPrivate
  <2> QED
    BY <2>1, <2>2, <2>3
<1> QED
  BY <1>1, <1>2, <1>3, <1>4, <1>5, <1>6

\* A new MessageReceiver
LEMMA NewReceiverStep ==
  ASSUME IInv, NEW o \in Objs, NEW a \in Addrs, NewReceiver(o, a)
  PROVE  IInv'
<1> USE Distinct DEF IInv, TypeOK
<1>0. objRefs[a] = NoObj /\ proxyMap[a] = NoId
  BY FreeIsEmpty DEF NewReceiver
<1>1. TypeOK'
  BY <1>0 DEF NewReceiver, Put, Free
<1>2. HeapIsSound'
  BY <1>0 DEF NewReceiver, Put, Free, HeapIsSound
<1>3. KeysAreAlive'
  BY <1>0 DEF NewReceiver, Put, Free, KeysAreAlive
<1>4. IdsAreFresh'
  BY <1>0 DEF NewReceiver, Put, Free, IdsAreFresh, GeneratedIds
<1>5. HandleIsFaithful'
  BY <1>0
     DEF NewReceiver, Put, Free, HandleIsFaithful, IdsAreFresh, GeneratedIds
<1>6. DirectionsAgree'
  <2> SUFFICES ASSUME ~reassigned'
               PROVE (HandlersAreKnown /\ KnownHaveHandlers /\ Main0IsPrivate)'
    BY DEF DirectionsAgree
  <2> ~reassigned
    BY DEF NewReceiver
  <2> USE DEF DirectionsAgree, KeysAreAlive, HeapIsSound
  <2>1. HandlersAreKnown'
    BY <1>0 DEF NewReceiver, Put, Free, HandlersAreKnown
  <2>2. KnownHaveHandlers'
    BY <1>0 DEF NewReceiver, Put, Free, HandlersAreKnown, KnownHaveHandlers
  <2>3. Main0IsPrivate'
    BY <1>0 DEF NewReceiver, Put, Free, HandlersAreKnown, Main0IsPrivate
  <2> QED
    BY <2>1, <2>2, <2>3
<1> QED
  BY <1>1, <1>2, <1>3, <1>4, <1>5, <1>6

\* A new object
LEMMA NewStep ==
  ASSUME IInv, NEW o \in Objs, NEW a \in Addrs, New(o, a)
  PROVE  IInv'
<1> USE Distinct DEF IInv, TypeOK
<1>0. objRefs[a] = NoObj /\ proxyMap[a] = NoId
  BY FreeIsEmpty DEF New
<1>1. TypeOK'
  BY <1>0 DEF New, Free
<1>2. HeapIsSound'
  BY <1>0 DEF New, Free, HeapIsSound
<1>3. KeysAreAlive'
  BY <1>0 DEF New, Free, KeysAreAlive
<1>4. IdsAreFresh'
  BY <1>0 DEF New, Free, IdsAreFresh, GeneratedIds
<1>5. HandleIsFaithful'
  BY <1>0 DEF New, Free, HandleIsFaithful, IdsAreFresh, GeneratedIds
<1>6. DirectionsAgree'
  <2> SUFFICES ASSUME ~reassigned'
               PROVE (HandlersAreKnown /\ KnownHaveHandlers /\ Main0IsPrivate)'
    BY DEF DirectionsAgree
  <2> ~reassigned
    BY DEF New
  <2> USE DEF DirectionsAgree, KeysAreAlive, HeapIsSound
  <2>1. HandlersAreKnown'
    BY <1>0 DEF New, Free, HandlersAreKnown
  <2>2. KnownHaveHandlers'
    BY <1>0 DEF New, Free, HandlersAreKnown, KnownHaveHandlers
  <2>3. Main0IsPrivate'
    BY <1>0 DEF New, Free, HandlersAreKnown, Main0IsPrivate
  <2> QED
    BY <2>1, <2>2, <2>3
<1> QED
  BY <1>1, <1>2, <1>3, <1>4, <1>5, <1>6

\* delete
LEMMA DeleteStep ==
  ASSUME IInv, NEW o \in Objs, Delete(o)
  PROVE  IInv'
<1> USE Distinct DEF IInv, TypeOK
<1>0. /\ at[o] \in Addrs /\ objRefs[at[o]] \in {o, NoObj}
      /\ \A p \in Objs : at[p] = at[o] => p = o
      /\ proxyMap[at[o]] # NoId => objRefs[at[o]] = o
  BY Placed DEF Delete
<1>1. TypeOK'
  BY <1>0 DEF Delete, Unlink
<1>2. HeapIsSound'
  BY <1>0 DEF Delete, Unlink, HeapIsSound
<1>3. KeysAreAlive'
  BY <1>0 DEF Delete, Unlink, KeysAreAlive
<1>4. IdsAreFresh'
  BY <1>0 DEF Delete, Unlink, IdsAreFresh, GeneratedIds
<1>5. HandleIsFaithful'
  BY <1>0 DEF Delete, Unlink, HandleIsFaithful, IdsAreFresh, GeneratedIds
<1>6. DirectionsAgree'
  <2> SUFFICES ASSUME ~reassigned'
               PROVE (HandlersAreKnown /\ KnownHaveHandlers /\ Main0IsPrivate)'
    BY DEF DirectionsAgree
  <2> ~reassigned
    BY DEF Delete
  <2> USE DEF DirectionsAgree, KeysAreAlive, HeapIsSound
  <2>1. HandlersAreKnown'
    BY <1>0 DEF Delete, Unlink, HandlersAreKnown
  <2>2. KnownHaveHandlers'
    BY <1>0 DEF Delete, Unlink, HandlersAreKnown, KnownHaveHandlers
  <2>3. Main0IsPrivate'
    BY <1>0 DEF Delete, Unlink, HandlersAreKnown, Main0IsPrivate
  <2> QED
    BY <2>1, <2>2, <2>3
<1> QED
  BY <1>1, <1>2, <1>3, <1>4, <1>5, <1>6

\* deleteById
LEMMA DeleteByIdStep ==
  ASSUME IInv, NEW i \in Ids, DeleteById(i)
  PROVE  IInv'
<1> USE Distinct DEF IInv, TypeOK
<1> DEFINE o == reverse[i]
<1>0. /\ o \in Objs /\ at[o] \in Addrs /\ objRefs[at[o]] \in {o, NoObj}
      /\ \A p \in Objs : at[p] = at[o] => p = o
  BY Placed DEF DeleteById, Registered
<1>1. TypeOK'
  BY <1>0 DEF DeleteById, Unlink
<1>2. HeapIsSound'
  BY <1>0 DEF DeleteById, Unlink, HeapIsSound
<1>3. KeysAreAlive'
  BY <1>0 DEF DeleteById, Unlink, KeysAreAlive
<1>4. IdsAreFresh'
  BY <1>0 DEF DeleteById, Unlink, IdsAreFresh, GeneratedIds
<1>5. HandleIsFaithful'
  BY <1>0 DEF DeleteById, Unlink, HandleIsFaithful, IdsAreFresh, GeneratedIds
<1>6. DirectionsAgree'
  <2> SUFFICES ASSUME ~reassigned'
               PROVE (HandlersAreKnown /\ KnownHaveHandlers /\ Main0IsPrivate)'
    BY DEF DirectionsAgree
  <2> ~reassigned
    BY DEF DeleteById
  <2> USE DEF DirectionsAgree, KeysAreAlive, HeapIsSound
  <2>1. HandlersAreKnown'
    BY <1>0 DEF DeleteById, Unlink, HandlersAreKnown
  <2>2. KnownHaveHandlers'
    BY <1>0 DEF DeleteById, Unlink, HandlersAreKnown, KnownHaveHandlers
  <2>3. Main0IsPrivate'
    BY <1>0 DEF DeleteById, Unlink, HandlersAreKnown, Main0IsPrivate
  <2> QED
    BY <2>1, <2>2, <2>3
<1> QED
  BY <1>1, <1>2, <1>3, <1>4, <1>5, <1>6

\* getById
LEMMA GetStep ==
  ASSUME IInv, NEW i \in Ids, GetById(i)
  PROVE  IInv'
<1> USE Distinct DEF IInv, TypeOK
<1>1. TypeOK'
  BY DEF GetById
<1>2. HeapIsSound'
  BY DEF GetById, HeapIsSound
<1>3. KeysAreAlive'
  BY DEF GetById, KeysAreAlive
<1>4. IdsAreFresh'
  BY DEF GetById, IdsAreFresh, GeneratedIds
<1>5. HandleIsFaithful'
  BY DEF GetById, HandleIsFaithful, IdsAreFresh, GeneratedIds
<1>6. DirectionsAgree'
  <2> SUFFICES ASSUME ~reassigned'
               PROVE (HandlersAreKnown /\ KnownHaveHandlers /\ Main0IsPrivate)'
    BY DEF DirectionsAgree
  <2> ~reassigned
    BY DEF GetById
  <2> USE DEF DirectionsAgree, KeysAreAlive, HeapIsSound
  <2>1. HandlersAreKnown'
    BY DEF GetById, HandlersAreKnown
  <2>2. KnownHaveHandlers'
    BY DEF GetById, HandlersAreKnown, KnownHaveHandlers
  <2>3. Main0IsPrivate'
    BY DEF GetById, HandlersAreKnown, Main0IsPrivate
  <2> QED
    BY <2>1, <2>2, <2>3
<1> QED
  BY <1>1, <1>2, <1>3, <1>4, <1>5, <1>6

\* The program lets an object go
LEMMA DropStep ==
  ASSUME IInv, NEW o \in Objs, Drop(o)
  PROVE  IInv'
<1> USE Distinct DEF IInv, TypeOK
<1>1. TypeOK'
  BY DEF Drop
<1>2. HeapIsSound'
  BY DEF Drop, HeapIsSound
<1>3. KeysAreAlive'
  BY DEF Drop, KeysAreAlive
<1>4. IdsAreFresh'
  BY DEF Drop, IdsAreFresh, GeneratedIds
<1>5. HandleIsFaithful'
  BY DEF Drop, HandleIsFaithful, IdsAreFresh, GeneratedIds
<1>6. DirectionsAgree'
  <2> SUFFICES ASSUME ~reassigned'
               PROVE (HandlersAreKnown /\ KnownHaveHandlers /\ Main0IsPrivate)'
    BY DEF DirectionsAgree
  <2> ~reassigned
    BY DEF Drop
  <2> USE DEF DirectionsAgree, KeysAreAlive, HeapIsSound
  <2>1. HandlersAreKnown'
    BY DEF Drop, HandlersAreKnown
  <2>2. KnownHaveHandlers'
    BY DEF Drop, HandlersAreKnown, KnownHaveHandlers
  <2>3. Main0IsPrivate'
    BY DEF Drop, HandlersAreKnown, Main0IsPrivate
  <2> QED
    BY <2>1, <2>2, <2>3
<1> QED
  BY <1>1, <1>2, <1>3, <1>4, <1>5, <1>6

\* An object is freed
LEMMA ReclaimStep ==
  ASSUME IInv, NEW o \in Objs, Reclaim(o)
  PROVE  IInv'
<1> USE Distinct DEF IInv, TypeOK
<1>1. TypeOK'
  BY DEF Reclaim, Retained, Registered
<1>2. HeapIsSound'
  BY DEF Reclaim, Retained, Registered, HeapIsSound
<1>3. KeysAreAlive'
  BY DEF Reclaim, Retained, Registered, KeysAreAlive
<1>4. IdsAreFresh'
  BY DEF Reclaim, Retained, Registered, IdsAreFresh, GeneratedIds
<1>5. HandleIsFaithful'
  BY DEF Reclaim, Retained, Registered, HandleIsFaithful,
         IdsAreFresh, GeneratedIds
<1>6. DirectionsAgree'
  <2> SUFFICES ASSUME ~reassigned'
               PROVE (HandlersAreKnown /\ KnownHaveHandlers /\ Main0IsPrivate)'
    BY DEF DirectionsAgree
  <2> ~reassigned
    BY DEF Reclaim
  <2> USE DEF DirectionsAgree, KeysAreAlive, HeapIsSound
  <2>1. HandlersAreKnown'
    BY DEF Reclaim, Retained, Registered, HandlersAreKnown
  <2>2. KnownHaveHandlers'
    BY DEF Reclaim, Retained, Registered, HandlersAreKnown, KnownHaveHandlers
  <2>3. Main0IsPrivate'
    BY DEF Reclaim, Retained, Registered, HandlersAreKnown, Main0IsPrivate
  <2> QED
    BY <2>1, <2>2, <2>3
<1> QED
  BY <1>1, <1>2, <1>3, <1>4, <1>5, <1>6

LEMMA InitInv == Init => IInv
<1> USE Distinct DEF Init
<1>1. Init => TypeOK
  <2>1. Init => reassigned \in BOOLEAN
    BY Zenon
  <2> QED
    BY <2>1, MaxIdsAssumption DEF TypeOK
<1>2. Init => HeapIsSound /\ KeysAreAlive /\ IdsAreFresh
  BY DEF HeapIsSound, KeysAreAlive, IdsAreFresh
<1>3. Init => HandleIsFaithful /\ DirectionsAgree
  BY DEF HandleIsFaithful, DirectionsAgree, HandlersAreKnown,
         KnownHaveHandlers, Main0IsPrivate
<1> QED
  BY <1>1, <1>2, <1>3 DEF IInv

LEMMA StutterStep == IInv /\ UNCHANGED vars => IInv'
BY DEF IInv, vars, TypeOK, HeapIsSound, KeysAreAlive, IdsAreFresh,
       HandleIsFaithful, DirectionsAgree, HandlersAreKnown, KnownHaveHandlers,
       Main0IsPrivate
-----------------------------------------------------------------------------
\* The invariant of the registry and the heap it is keyed by.
THEOREM Inductive == Spec => []IInv
<1>1. IInv /\ [Next]_vars => IInv'
  BY NewProxyStep, KnownProxyStep, SetObjectStep, NewReceiverStep, NewStep,
     DeleteStep, DeleteByIdStep, GetStep, DropStep, ReclaimStep, StutterStep
     DEF Next
<1> QED
  BY InitInv, <1>1, PTL DEF Spec

\* The heap, the three dictionaries and the ids issued are well typed.
THEOREM Typed == Spec => []TypeOK
BY Inductive, PTL DEF IInv

\* Although two dictionaries are keyed by addresses that are used again, an
\* entry always belongs to the object that lives at its key.
THEOREM KeysBelongToTheLiving == Spec => []KeysAreAlive
BY Inductive, PTL DEF IInv

\* An id that a peer keeps never leads it to another object.
THEOREM HandlesAreFaithful == Spec => []HandleIsFaithful
BY Inductive, PTL DEF IInv

\* asProxy describes the object it is given, as long as the program gives
\* each name once.
THEOREM ProxiesLeadHome == Spec => []LeadsHome
<1>1. IInv => LeadsHome
  <2> SUFFICES ASSUME IInv, ~reassigned, NEW o \in Objs,
                      o \in held \/ Registered(o), proxyMap[at[o]] # NoId
               PROVE  reverse[proxyMap[at[o]]] = o
    BY DEF LeadsHome
  <2>1. at[o] \in Addrs /\ objRefs[at[o]] = o
    BY Placed
  <2>2. CASE proxyMap[at[o]] # Main0
    BY <2>1, <2>2 DEF IInv, DirectionsAgree, KnownHaveHandlers
  <2>3. CASE proxyMap[at[o]] = Main0
    <3>1. PICK i \in Ids : reverse[i] = o
      BY <2>3 DEF IInv, DirectionsAgree, Main0IsPrivate, Registered
    <3>2. proxyMap[at[o]] = i
      BY <3>1, Distinct DEF IInv, DirectionsAgree, HandlersAreKnown
    <3> QED
      BY <3>1, <3>2
  <2> QED
    BY <2>2, <2>3
<1> QED
  BY Inductive, <1>1, PTL

\* A generated id that was deleted is never given again.
THEOREM IdsAreNotReused == Spec => DeletedForGood
<1> DEFINE Dead == \A i \in GeneratedIds :
             i < count /\ reverse[i] = NoObj => reverse'[i] = NoObj
<1>1. IInv /\ [Next]_vars => [Dead]_vars
  <2> SUFFICES ASSUME IInv, Next PROVE Dead
    OBVIOUS
  <2> USE Distinct DEF IInv, TypeOK
  <2>1. ASSUME NEW o \in Objs, AsNewProxy(o) PROVE Dead
    BY <2>1 DEF AsNewProxy, Put, GeneratedIds
  <2>2. ASSUME NEW o \in Objs,
               AsKnownProxy(o) \/ Delete(o) \/ Drop(o) \/ Reclaim(o)
        PROVE Dead
    BY <2>2 DEF AsKnownProxy, Delete, Drop, Reclaim
  <2>3. ASSUME NEW o \in Objs, NEW a \in Addrs,
               New(o, a) \/ NewReceiver(o, a)
        PROVE Dead
    BY <2>3 DEF New, NewReceiver, Put
  <2>4. ASSUME NEW o \in Objs, NEW n \in Names, SetObject(o, n) PROVE Dead
    BY <2>4 DEF SetObject, Put
  <2>5. ASSUME NEW i \in Ids, DeleteById(i) \/ GetById(i) PROVE Dead
    BY <2>5 DEF DeleteById, GetById
  <2> QED
    BY <2>1, <2>2, <2>3, <2>4, <2>5 DEF Next
<1> QED
  BY Inductive, <1>1, PTL DEF Spec, DeletedForGood
=============================================================================
