--------------------------- MODULE ProxyRegistry ----------------------------
(***************************************************************************)
(* ObjectOfProxyManager of xuri_rpc/rpc.py: the objects one host exposes.  *)
(* Two of its three dictionaries are keyed by id(obj), an address, which   *)
(* CPython gives to another object once the first is freed.  So the model  *)
(* has a heap: objects are created at a free address, and freed when       *)
(* neither the program nor the registry refers to them any more.           *)
(***************************************************************************)
EXTENDS Naturals

CONSTANTS
  Objs,      \* objects; one that was freed stands for a new one afterwards
  Addrs,     \* the addresses id() returns
  Names,     \* ids the program chooses: setMain's "main", setObject's
  Main0,     \* the id of the built-in object of every MessageReceiver
  MaxIds,    \* bounds the ids _getId generates
  NoAddr, NoObj, NoId

GeneratedIds == 0 .. MaxIds - 1
Ids == GeneratedIds \cup Names \cup {Main0}

ASSUME SentinelAssumption ==
  NoAddr \notin Addrs /\ NoObj \notin Objs /\ NoId \notin Ids
ASSUME MaxIdsAssumption == MaxIds \in Nat
ASSUME NamesAssumption ==
  Names \cap Nat = {} /\ Main0 \notin Nat /\ Main0 \notin Names

VARIABLES
  at,        \* [Objs -> the address of each object that exists]
  held,      \* objects the program refers to
  proxyMap,  \* address -> id
  reverse,   \* id -> target of its handler (reverseProxyMap)
  objRefs,   \* address -> object, the strong references
  count,     \* _idCount
  handles,   \* descriptors a peer was given, <<id, object>>
  reassigned \* whether the program ever gave a name while the name, or the
             \* object it gave it to, was registered

vars == <<at, held, proxyMap, reverse, objRefs, count, handles, reassigned>>

Init ==
  /\ at = [o \in Objs |-> NoAddr]
  /\ held = {}
  /\ proxyMap = [a \in Addrs |-> NoId]
  /\ reverse = [i \in Ids |-> NoObj]
  /\ objRefs = [a \in Addrs |-> NoObj]
  /\ count = 0
  /\ handles = {}
  /\ reassigned = FALSE

Registered(o) == \E i \in Ids : reverse[i] = o
Retained(o) == \/ o \in held
               \/ Registered(o)
               \/ \E a \in Addrs : objRefs[a] = o
Free(a) == \A o \in Objs : at[o] # a
-----------------------------------------------------------------------------
(* The methods of ObjectOfProxyManager that change it. *)

\* set(obj, objId): whatever the id or the object had before is not undone.
Put(o, a, i) ==
  /\ proxyMap' = [proxyMap EXCEPT ![a] = i]
  /\ reverse' = [reverse EXCEPT ![i] = o]
  /\ objRefs' = [objRefs EXCEPT ![a] = o]

ForgetsProxyMap(a) ==
  /\ objRefs' = [objRefs EXCEPT ![a] = NoObj]
  /\ UNCHANGED proxyMap

\* proxyMap.pop(id(target), None); _objRefs.pop(id(target), None)
Unlink(a) ==
  /\ proxyMap' = [proxyMap EXCEPT ![a] = NoId]
  /\ objRefs' = [objRefs EXCEPT ![a] = NoObj]

\* deleteById, from _deleteProxyById and from removeOutdatedProxyObject
DeleteById(i) ==
  /\ reverse[i] # NoObj
  /\ Unlink(at[reverse[i]])
  /\ reverse' = [reverse EXCEPT ![i] = NoObj]
  /\ UNCHANGED <<at, held, count, handles, reassigned>>

\* delete, from _deleteProxy
Delete(o) ==
  /\ o \in held
  /\ proxyMap[at[o]] # NoId
  /\ reverse' = [reverse EXCEPT ![proxyMap[at[o]]] = NoObj]
  /\ Unlink(at[o])
  /\ UNCHANGED <<at, held, count, handles, reassigned>>
-----------------------------------------------------------------------------
(* Who uses it. *)

\* setMain, setObject
SetObject(o, n) ==
  /\ o \in held
  /\ reassigned' = (reassigned \/ reverse[n] # NoObj \/ proxyMap[at[o]] # NoId)
  /\ Put(o, at[o], n)
  /\ UNCHANGED <<at, held, count, handles>>

\* MessageReceiver.__init__ makes a new main0 object; the TCP server makes a
\* receiver for each connection.
NewReceiver(o, a) ==
  /\ at[o] = NoAddr
  /\ Free(a)
  /\ at' = [at EXCEPT ![o] = a]
  /\ Put(o, a, Main0)
  /\ UNCHANGED <<held, count, handles, reassigned>>

ReusesIds(o) ==
  /\ o \in held \/ Registered(o)
  /\ proxyMap[at[o]] = NoId
  /\ \E i \in GeneratedIds :
       /\ reverse[i] = NoObj
       /\ Put(o, at[o], i)
       /\ handles' = handles \cup {<<i, o>>}
       /\ count' = IF i < count THEN count ELSE i + 1
  /\ UNCHANGED <<at, held, reassigned>>

\* asProxy of an object that is not in proxyMap
AsNewProxy(o) ==
  /\ o \in held \/ Registered(o)
  /\ proxyMap[at[o]] = NoId
  /\ count < MaxIds
  /\ count' = count + 1
  /\ Put(o, at[o], count)
  /\ handles' = handles \cup {<<count, o>>}
  /\ UNCHANGED <<at, held, reassigned>>

\* asProxy of an object that is in proxyMap: `return proxyManager.get(obj)`
AsKnownProxy(o) ==
  /\ o \in held \/ Registered(o)
  /\ proxyMap[at[o]] # NoId
  /\ handles' = handles \cup {<<proxyMap[at[o]], o>>}
  /\ UNCHANGED <<at, held, proxyMap, reverse, objRefs, count, reassigned>>

GetsNone(i) ==
  /\ i # Main0
  /\ held' = held \cup {reverse[i]}
  /\ UNCHANGED <<at, proxyMap, reverse, objRefs, count, handles, reassigned>>

\* A request for the object; main0 is not handed to the program.
GetById(i) ==
  /\ i # Main0 /\ reverse[i] # NoObj
  /\ held' = held \cup {reverse[i]}
  /\ UNCHANGED <<at, proxyMap, reverse, objRefs, count, handles, reassigned>>

\* The program makes an object, and lets one go.
New(o, a) ==
  /\ at[o] = NoAddr
  /\ Free(a)
  /\ at' = [at EXCEPT ![o] = a]
  /\ held' = held \cup {o}
  /\ UNCHANGED <<proxyMap, reverse, objRefs, count, handles, reassigned>>

Drop(o) ==
  /\ o \in held
  /\ held' = held \ {o}
  /\ UNCHANGED <<at, proxyMap, reverse, objRefs, count, handles, reassigned>>

\* CPython frees what nothing refers to, at once or at its next collection.
Reclaim(o) ==
  /\ at[o] # NoAddr
  /\ ~Retained(o)
  /\ at' = [at EXCEPT ![o] = NoAddr]
  /\ UNCHANGED <<held, proxyMap, reverse, objRefs, count, handles, reassigned>>

Next ==
  \/ \E o \in Objs :
       \/ AsNewProxy(o) \/ AsKnownProxy(o) \/ Delete(o) \/ Drop(o)
       \/ Reclaim(o)
       \/ \E a \in Addrs : New(o, a) \/ NewReceiver(o, a)
       \/ \E n \in Names : SetObject(o, n)
  \/ \E i \in Ids : DeleteById(i) \/ GetById(i)

Spec == Init /\ [][Next]_vars
-----------------------------------------------------------------------------
TypeOK ==
  /\ at \in [Objs -> Addrs \cup {NoAddr}]
  /\ held \subseteq Objs
  /\ proxyMap \in [Addrs -> Ids \cup {NoId}]
  /\ reverse \in [Ids -> Objs \cup {NoObj}]
  /\ objRefs \in [Addrs -> Objs \cup {NoObj}]
  /\ count \in 0 .. MaxIds
  /\ handles \subseteq (Ids \X Objs)
  /\ reassigned \in BOOLEAN

\* An entry keyed by an address stands for the object that lives there: the
\* address of a registered object is never given to another one.
KeysAreAlive ==
  \A a \in Addrs :
    /\ proxyMap[a] # NoId <=> objRefs[a] # NoObj
    /\ objRefs[a] # NoObj => at[objRefs[a]] = a

\* "Register *obj* as a proxy and return a PreArgObj describing it" (asProxy):
\* the id asProxy answers with leads back to the object it was asked about,
\* if the program gives its names once.
LeadsHome ==
  ~reassigned =>
    \A o \in Objs : (o \in held \/ Registered(o)) /\ proxyMap[at[o]] # NoId
                      => reverse[proxyMap[at[o]]] = o

\* A peer that keeps a generated id, however long, reaches the object it was
\* given the id for or is told that there is none; never another object.
HandleIsFaithful ==
  \A h \in handles : h[1] \in GeneratedIds => reverse[h[1]] \in {h[2], NoObj}

\* A generated id that was deleted, by the program or by the sweep of
\* outdated proxies, does not come back to life.
DeletedForGood ==
  [][\A i \in GeneratedIds :
       i < count /\ reverse[i] = NoObj => reverse'[i] = NoObj]_vars
=============================================================================
