-------------------------- MODULE ProxyLeaseProofs --------------------------
(***************************************************************************)
(* Proofs about ProxyLease for any clients, ids and limits.                *)
(***************************************************************************)
EXTENDS ProxyLease, SequenceTheorems, FiniteSetTheorems, TLAPS

\* While the task waits it has somebody to wait for.
IInv == TypeOK /\ LiveIsTracked /\ (InRequest => todo # <<>>)

\* d comes before c.
Precedes(s, d, c) ==
  \E j, k \in 1 .. Len(s) : j < k /\ s[j] = d /\ s[k] = c

Ahead(s, c) == {d \in Clients : Precedes(s, d, c)}

\* Ticks it may take to ask these clients.
Span(C) == (Limit + 1) * Cardinality(C)

\* What is secured, tracked and asked for is so under the client it should.
Belongs ==
  /\ secured \subseteq live
  /\ \A c \in Clients : \A i \in clientMap[c] : Home[i] = c
  /\ InRequest =>
       /\ \A i \in asked : Home[i] = Head(todo)
       /\ \A i \in secured : Home[i] = Head(todo) => i \in asked

\* A pass follows the order of the dictionary, as it was and as it is by now:
\* nobody it has yet to ask comes before a client it has asked, unless that
\* client's entry went and came back.
InTurn ==
  InRequest =>
    /\ \A a, b \in Range(Tail(todo)) :
         Precedes(todo, a, b) => ~Precedes(order, b, a)
    /\ asked # {} =>
         /\ Head(todo) \in Range(order)
         /\ \A d \in Range(Tail(todo)) : ~Precedes(order, d, Head(todo))
    /\ \A i \in secured : Home[i] \notin Range(todo) =>
         \A d \in Range(todo) : ~Precedes(order, d, Home[i])

\* How old an id may be: since its peer was asked, each client but those that
\* come before its own can have been asked once; and then, when a pass is on
\* its way to its own client, those that came before it.
Waits(i) == Span(Clients \ (Ahead(order, Home[i]) \cup Range(todo)))

Due(i) == Home[i] = Head(todo) => wire # "reply"

Ages ==
  \A i \in secured :
    /\ task = "asleep" =>
         age[i] <= Span(Clients \ Ahead(order, Home[i])) + timer
    /\ InRequest =>
         /\ Home[i] \notin Range(todo) => age[i] <= Waits(i) + timer
         /\ ~Due(i) => age[i] <= timer
         /\ Due(i) /\ Home[i] \in Range(todo) =>
              age[i] <= Span(Clients \ Ahead(todo, Home[i])) + 1 + timer

HeldInv == Belongs /\ InTurn /\ HeldIsKept /\ (Timely => Ages)

USE DEF InRequest

-----------------------------------------------------------------------------
(* Sequences without repetitions.                                          *)

\* Where the elements are when one of them is removed.
LEMMA RemovedOne ==
  ASSUME NEW S, NEW s \in Seq(S), IsInjective(s), NEW p \in 1 .. Len(s)
  PROVE  LET t == RemoveFirst(s, s[p]) IN
           /\ t \in Seq(S) /\ Len(t) = Len(s) - 1
           /\ \A i \in 1 .. Len(t) : t[i] = IF i < p THEN s[i] ELSE s[i + 1]
<1> DEFINE e == s[p]
<1>1. {i \in 1 .. Len(s) : s[i] = e} = {p}
  BY DEF IsInjective
<1>2. Min({p}) = p
  BY DEF Min
<1>3. SelectInSeq(s, LAMBDA v : v = e) = p
  BY <1>1, <1>2 DEF SelectInSeq
<1> DEFINE u == SubSeq(s, 1, p - 1)
           v == SubSeq(s, p + 1, Len(s))
           t == u \o v
<1>4. RemoveFirst(s, e) = t
  BY <1>3 DEF RemoveFirst, RemoveAt
<1>5. /\ u \in Seq(S) /\ Len(u) = p - 1
      /\ \A i \in 1 .. p - 1 : u[i] = s[i]
  BY SubSeqProperties
<1>6. /\ v \in Seq(S) /\ Len(v) = Len(s) - p
      /\ \A i \in 1 .. Len(s) - p : v[i] = s[p + i]
  <2>1. CASE p = Len(s)
    <3>1. v = <<>>
      BY <2>1, SubSeqEmpty
    <3> QED BY <3>1, <2>1
  <2>2. CASE p < Len(s)
    BY <2>2, SubSeqProperties
  <2> QED BY <2>1, <2>2
<1> HIDE DEF u, v
<1>7. /\ t \in Seq(S) /\ Len(t) = Len(u) + Len(v)
      /\ \A i \in 1 .. Len(u) + Len(v) :
           t[i] = IF i <= Len(u) THEN u[i] ELSE v[i - Len(u)]
  BY <1>5, <1>6, ConcatProperties
<1> HIDE DEF t
<1>8. /\ t \in Seq(S) /\ Len(t) = Len(s) - 1
      /\ \A i \in 1 .. Len(t) : t[i] = IF i < p THEN s[i] ELSE s[i + 1]
  <2>1. Len(s) \in Nat /\ Len(u) + Len(v) = Len(s) - 1
    BY <1>5, <1>6
  <2>2. ASSUME NEW i \in 1 .. Len(s) - 1
        PROVE  t[i] = IF i < p THEN s[i] ELSE s[i + 1]
    <3>1. CASE i < p
      <4>1. i \in 1 .. p - 1 /\ i <= Len(u) /\ i \in 1 .. Len(u) + Len(v)
        BY <1>5, <2>1, <3>1
      <4> QED BY <1>5, <1>7, <3>1, <4>1
    <3>2. CASE ~(i < p)
      <4>1. /\ ~(i <= Len(u)) /\ i \in 1 .. Len(u) + Len(v)
            /\ i - Len(u) \in 1 .. Len(s) - p
            /\ p + (i - Len(u)) = i + 1
        BY <1>5, <2>1, <3>2
      <4>2. t[i] = v[i - Len(u)]
        BY <1>7, <4>1
      <4>3. v[i - Len(u)] = s[p + (i - Len(u))]
        BY <1>6, <4>1
      <4> QED BY <3>2, <4>1, <4>2, <4>3
    <3> QED BY <3>1, <3>2
  <2> QED BY <1>7, <2>1, <2>2
<1> QED BY <1>4, <1>8

\* Removing an element of a sequence that has it once.
LEMMA Removed ==
  ASSUME NEW S, NEW s \in Seq(S), IsInjective(s), NEW e \in S
  PROVE  /\ RemoveFirst(s, e) \in Seq(S)
         /\ IsInjective(RemoveFirst(s, e))
         /\ Range(RemoveFirst(s, e)) = Range(s) \ {e}
         /\ \A d, c : Precedes(RemoveFirst(s, e), d, c) => Precedes(s, d, c)
<1>1. CASE \A i \in 1 .. Len(s) : s[i] # e
  <2>1. RemoveFirst(s, e) = s
    BY <1>1 DEF RemoveFirst
  <2>2. e \notin Range(s)
    BY <1>1 DEF Range
  <2> QED BY <2>1, <2>2
<1>2. CASE \E i \in 1 .. Len(s) : s[i] = e
  <2>1. PICK p \in 1 .. Len(s) : s[p] = e
    BY <1>2
  <2> DEFINE t == RemoveFirst(s, e)
  <2>8. /\ t \in Seq(S) /\ Len(t) = Len(s) - 1
        /\ \A i \in 1 .. Len(t) : t[i] = IF i < p THEN s[i] ELSE s[i + 1]
    BY <2>1, RemovedOne
  <2> HIDE DEF t
  <2>9. IsInjective(t)
    <3>1. \A i, j \in 1 .. Len(s) : s[i] = s[j] => i = j
      BY DEF IsInjective
    <3>2. SUFFICES ASSUME NEW i \in 1 .. Len(t), NEW j \in 1 .. Len(t),
                          t[i] = t[j]
                   PROVE  i = j
      BY <2>8 DEF IsInjective
    <3>3. PICK k \in 1 .. Len(s) :
            k = (IF i < p THEN i ELSE i + 1) /\ t[i] = s[k]
      BY <2>8
    <3>4. PICK l \in 1 .. Len(s) :
            l = (IF j < p THEN j ELSE j + 1) /\ t[j] = s[l]
      BY <2>8
    <3>5. k = l
      BY <3>1, <3>2, <3>3, <3>4
    <3> QED BY <3>3, <3>4, <3>5, <2>8
  <2>10. ASSUME NEW i \in 1 .. Len(t) PROVE t[i] \in Range(s) \ {e}
    BY <2>1, <2>8 DEF Range, IsInjective
  <2>11. ASSUME NEW i \in 1 .. Len(s), s[i] # e PROVE s[i] \in Range(t)
    <3>1. CASE i < p
      BY <3>1, <2>8 DEF Range
    <3>2. CASE i > p
      <4>1. i - 1 \in 1 .. Len(t) /\ t[i - 1] = s[i]
        BY <3>2, <2>8
      <4> QED BY <4>1, <2>8 DEF Range
    <3> QED BY <2>1, <2>11, <3>1, <3>2
  <2>12. Range(t) = Range(s) \ {e}
    BY <2>8, <2>10, <2>11 DEF Range
  <2>13. ASSUME NEW d, NEW c, Precedes(t, d, c) PROVE Precedes(s, d, c)
    <3>1. PICK j, k \in 1 .. Len(t) : j < k /\ t[j] = d /\ t[k] = c
      BY <2>13 DEF Precedes
    <3> DEFINE jj == IF j < p THEN j ELSE j + 1
               kk == IF k < p THEN k ELSE k + 1
    <3>2. /\ jj \in 1 .. Len(s) /\ kk \in 1 .. Len(s) /\ jj < kk
          /\ s[jj] = d /\ s[kk] = c
      BY <3>1, <2>1, <2>8
    <3> QED BY <3>2 DEF Precedes
  <2> QED BY <2>8, <2>9, <2>12, <2>13 DEF t
<1> QED BY <1>1, <1>2

\* Adding an element that is not there.
LEMMA Appended ==
  ASSUME NEW S, NEW s \in Seq(S), IsInjective(s), NEW e \in S,
         e \notin Range(s)
  PROVE  /\ Append(s, e) \in Seq(S)
         /\ IsInjective(Append(s, e))
         /\ Range(Append(s, e)) = Range(s) \cup {e}
<1>1. /\ Append(s, e) \in Seq(S)
      /\ Len(Append(s, e)) = Len(s) + 1
      /\ Append(s, e)[Len(s) + 1] = e
      /\ \A i \in 1 .. Len(s) : Append(s, e)[i] = s[i]
  OBVIOUS
<1>2. IsInjective(Append(s, e))
  BY <1>1 DEF IsInjective, Range
<1>3. Range(Append(s, e)) = Range(s) \cup {e}
  <2>1. Range(Append(s, e)) \subseteq Range(s) \cup {e}
    BY <1>1 DEF Range
  <2>2. ASSUME NEW i \in 1 .. Len(s) PROVE s[i] \in Range(Append(s, e))
    BY <1>1 DEF Range
  <2>3. e \in Range(Append(s, e))
    BY <1>1 DEF Range
  <2> QED BY <2>1, <2>2, <2>3 DEF Range
<1> QED BY <1>1, <1>2, <1>3

\* Head and tail of a sequence without repetitions.
LEMMA Taken ==
  ASSUME NEW S, NEW s \in Seq(S), IsInjective(s), s # <<>>
  PROVE  /\ Tail(s) \in Seq(S) /\ IsInjective(Tail(s))
         /\ Head(s) \in S /\ Head(s) \in Range(s)
         /\ Range(Tail(s)) = Range(s) \ {Head(s)}
<1>1. /\ Tail(s) \in Seq(S) /\ Len(Tail(s)) = Len(s) - 1
      /\ Head(s) \in S /\ Head(s) = s[1] /\ 1 \in DOMAIN s
      /\ \A i \in 1 .. Len(Tail(s)) : Tail(s)[i] = s[i + 1]
  OBVIOUS
<1>2. IsInjective(Tail(s))
  BY <1>1 DEF IsInjective
<1>3. Head(s) \in Range(s)
  BY <1>1 DEF Range
<1>4. Range(Tail(s)) \subseteq Range(s) \ {Head(s)}
  BY <1>1 DEF Range, IsInjective
<1>5. ASSUME NEW i \in 1 .. Len(s), s[i] # Head(s)
      PROVE  s[i] \in Range(Tail(s))
  <2>1. i - 1 \in 1 .. Len(Tail(s)) /\ Tail(s)[i - 1] = s[i]
    BY <1>1, <1>5
  <2>2. DOMAIN Tail(s) = 1 .. Len(Tail(s))
    BY <1>1
  <2> QED BY <2>1, <2>2 DEF Range
<1>6. Range(s) \ {Head(s)} \subseteq Range(Tail(s))
  BY <1>5 DEF Range
<1> QED BY <1>1, <1>2, <1>3, <1>4, <1>6

\* Who precedes whom in what is left, in what has grown, and at the head.
LEMMA PrecedesTail ==
  ASSUME NEW S, NEW s \in Seq(S), IsInjective(s), s # <<>>, NEW c, NEW d
  PROVE  Precedes(Tail(s), d, c) <=> Precedes(s, d, c) /\ d # Head(s)
<1>1. /\ Len(s) \in Nat /\ 1 \in 1 .. Len(s) /\ Head(s) = s[1]
      /\ Len(Tail(s)) = Len(s) - 1
      /\ \A i \in 1 .. Len(Tail(s)) : Tail(s)[i] = s[i + 1]
  OBVIOUS
<1>2. ASSUME Precedes(Tail(s), d, c)
      PROVE  Precedes(s, d, c) /\ d # Head(s)
  <2>1. PICK j, k \in 1 .. Len(Tail(s)) :
          j < k /\ Tail(s)[j] = d /\ Tail(s)[k] = c
    BY <1>2 DEF Precedes
  <2>2. /\ j + 1 \in 1 .. Len(s) /\ k + 1 \in 1 .. Len(s) /\ j + 1 < k + 1
        /\ s[j + 1] = d /\ s[k + 1] = c
    BY <1>1, <2>1
  <2>3. s[j + 1] # s[1]
    BY <1>1, <2>2 DEF IsInjective
  <2> QED BY <1>1, <2>2, <2>3 DEF Precedes
<1>3. ASSUME Precedes(s, d, c), d # Head(s) PROVE Precedes(Tail(s), d, c)
  <2>1. PICK j, k \in 1 .. Len(s) : j < k /\ s[j] = d /\ s[k] = c
    BY <1>3 DEF Precedes
  <2>2. /\ j - 1 \in 1 .. Len(Tail(s)) /\ k - 1 \in 1 .. Len(Tail(s))
        /\ j - 1 < k - 1 /\ Tail(s)[j - 1] = d /\ Tail(s)[k - 1] = c
    BY <1>1, <1>3, <2>1
  <2> QED BY <2>2 DEF Precedes
<1> QED BY <1>2, <1>3

LEMMA PrecedesAppended ==
  ASSUME NEW S, NEW s \in Seq(S), NEW e \in S, e \notin Range(s),
         NEW c \in Range(s), NEW d
  PROVE  Precedes(Append(s, e), d, c) <=> Precedes(s, d, c)
<1>1. /\ Len(s) \in Nat /\ Len(Append(s, e)) = Len(s) + 1
      /\ Append(s, e)[Len(s) + 1] = e
      /\ \A i \in 1 .. Len(s) : Append(s, e)[i] = s[i]
  OBVIOUS
<1>2. c # e
  OBVIOUS
<1>3. ASSUME Precedes(Append(s, e), d, c) PROVE Precedes(s, d, c)
  <2>1. PICK j, k \in 1 .. Len(s) + 1 :
          j < k /\ Append(s, e)[j] = d /\ Append(s, e)[k] = c
    BY <1>1, <1>3 DEF Precedes
  <2>2. k # Len(s) + 1
    BY <1>1, <1>2, <2>1
  <2>3. j \in 1 .. Len(s) /\ k \in 1 .. Len(s)
    BY <1>1, <2>1, <2>2
  <2> QED BY <1>1, <2>1, <2>3 DEF Precedes
<1>4. ASSUME Precedes(s, d, c) PROVE Precedes(Append(s, e), d, c)
  <2>1. PICK j, k \in 1 .. Len(s) : j < k /\ s[j] = d /\ s[k] = c
    BY <1>4 DEF Precedes
  <2>2. j \in 1 .. Len(s) + 1 /\ k \in 1 .. Len(s) + 1
    BY <1>1, <2>1
  <2> QED BY <1>1, <2>1, <2>2 DEF Precedes
<1> QED BY <1>3, <1>4

LEMMA PrecedesStrictly ==
  ASSUME NEW S, NEW s \in Seq(S), IsInjective(s), NEW c, NEW d
  PROVE  /\ ~Precedes(s, c, c)
         /\ Precedes(s, d, c) => ~Precedes(s, c, d)
<1>1. \A j, k \in 1 .. Len(s) : s[j] = s[k] => j = k
  BY DEF IsInjective
<1>2. ~Precedes(s, c, c)
  BY <1>1 DEF Precedes
<1>3. ASSUME Precedes(s, d, c), Precedes(s, c, d) PROVE FALSE
  <2>1. PICK j, k \in 1 .. Len(s) : j < k /\ s[j] = d /\ s[k] = c
    BY <1>3 DEF Precedes
  <2>2. PICK l, m \in 1 .. Len(s) : l < m /\ s[l] = c /\ s[m] = d
    BY <1>3 DEF Precedes
  <2> QED BY <1>1, <2>1, <2>2
<1> QED BY <1>2, <1>3

LEMMA HeadPrecedes ==
  ASSUME NEW S, NEW s \in Seq(S), s # <<>>, NEW c \in Range(Tail(s))
  PROVE  Precedes(s, Head(s), c)
<1>1. /\ Len(s) \in Nat /\ 1 \in 1 .. Len(s) /\ Head(s) = s[1]
      /\ Len(Tail(s)) = Len(s) - 1
      /\ \A i \in 1 .. Len(Tail(s)) : Tail(s)[i] = s[i + 1]
      /\ DOMAIN Tail(s) = 1 .. Len(Tail(s))
  OBVIOUS
<1>2. PICK i \in 1 .. Len(Tail(s)) : Tail(s)[i] = c
  BY <1>1 DEF Range
<1>3. i + 1 \in 1 .. Len(s) /\ 1 < i + 1 /\ s[i + 1] = c
  BY <1>1, <1>2
<1> QED BY <1>1, <1>3 DEF Precedes

-----------------------------------------------------------------------------
(* Time.                                                                   *)

LEMMA SpanGrows ==
  ASSUME NEW C \in SUBSET Clients, NEW D \in SUBSET Clients, C \subseteq D
  PROVE  /\ Span(C) \in Nat /\ Span(D) \in Nat
         /\ Span(C) <= Span(D)
         /\ C # D => Span(C) + Limit + 1 <= Span(D)
<1>1. IsFiniteSet(C) /\ IsFiniteSet(D)
  BY ClientsAssumption, FS_Subset
<1>2. Cardinality(C) \in Nat /\ Cardinality(D) \in Nat
  BY <1>1, FS_CardinalityType
<1>3. /\ Cardinality(C) <= Cardinality(D)
      /\ C # D => Cardinality(C) + 1 <= Cardinality(D)
  BY <1>1, <1>2, FS_Subset
<1>4. \A w, m, n \in Nat : m <= n => w * m <= w * n /\ w * n \in Nat
  OBVIOUS
<1>5. \A w, m \in Nat : w * (m + 1) = w * m + w
  OBVIOUS
<1> DEFINE w == Limit + 1
           m == Cardinality(C)
           n == Cardinality(D)
<1>6. w \in Nat /\ w = Limit + 1
  BY LimitAssumption
<1>7. Span(C) = w * m /\ Span(D) = w * n
  BY DEF Span
<1>8. m \in Nat /\ n \in Nat /\ m <= n /\ (C # D => m + 1 <= n)
  BY <1>2, <1>3
<1> HIDE DEF w, m, n
<1>9. /\ w * m \in Nat /\ w * n \in Nat /\ w * m <= w * n
  BY <1>4, <1>6, <1>8
<1>10. ASSUME C # D PROVE w * m + w <= w * n
  <2>1. m + 1 \in Nat /\ m + 1 <= n
    BY <1>8, <1>10
  <2>2. w * (m + 1) <= w * n
    BY <1>4, <1>6, <1>8, <2>1
  <2> QED BY <1>5, <1>6, <1>8, <2>2
<1>11. C # D => Span(C) + w <= Span(D)
  BY <1>7, <1>10
<1>12. C # D => Span(C) + Limit + 1 <= Span(D)
  BY <1>6, <1>7, <1>9, <1>11, LimitAssumption
<1> QED BY <1>7, <1>9, <1>12

\* What Timely is for: the oldest that is still to be renewed.
LEMMA InTime ==
  ASSUME Timely, NEW C \in SUBSET Clients
  PROVE  Span(C) + Limit + 2 <= Expiry
<1>1. Span(C) <= Span(Clients) /\ Span(Clients) \in Nat /\ Span(C) \in Nat
  BY SpanGrows
<1>2. Cardinality(Clients) \in Nat
  BY ClientsAssumption, FS_CardinalityType
<1>3. (Cardinality(Clients) + 1) * (Limit + 1) = Span(Clients) + Limit + 1
  BY <1>2, LimitAssumption DEF Span
<1> QED BY <1>1, <1>3, LimitAssumption, ExpiryAssumption DEF Timely

-----------------------------------------------------------------------------
\* The pass goes no further, for the rest of its send or for good.
Abandons == task' \in {"hung", "ended"} /\ GivesUp

\* A send goes on.
Sends ==
  /\ UNCHANGED <<peer, sent, proxies, timer, todo, asked, grew, secured>>
  /\ \/ /\ task \in {"sending", "hung"} /\ UNCHANGED task
        /\ wire = "none" /\ wire' = "request"
     \/ task = "sending" /\ task' = "waiting" /\ UNCHANGED wire

LEMMA Steps ==
  /\ RequestFails \/ RequestTimesOut \/ SendTimesOut => Abandons
  /\ Write => Sends
  /\ SendReturns => Sends \/ Abandons
BY DEF RequestFails, RequestTimesOut, SendTimesOut, Write, SendReturns,
       TaskEnds, Abandons, Sends

LEMMA InitIInv == Init => IInv
<1> SUFFICES ASSUME Init PROVE IInv
  OBVIOUS
<1>1. IsInjective(<<>>) /\ Range(<<>>) = {} /\ <<>> \in Seq(Clients)
  BY DEF IsInjective, Range
<1>2. TypeOK
  <2>1. 0 \in 0 .. Expiry + 1 /\ 0 \in 0 .. Limit + 1
    BY LimitAssumption, ExpiryAssumption
  <2>2. /\ order \in Seq(Clients) /\ IsInjective(order)
        /\ todo \in Seq(Clients) /\ IsInjective(todo)
    BY <1>1, Zenon DEF Init
  <2> QED BY <2>1, <2>2 DEF Init, TypeOK
<1>3. LiveIsTracked
  BY <1>1 DEF Init, LiveIsTracked
<1> QED BY <1>2, <1>3 DEF Init, IInv

\* Asking the first of the clients left keeps the dictionary in order.
LEMMA AskKeeps ==
  ASSUME IInv, UNCHANGED <<peer, sent, live, secured>>,
         NEW clients \in Seq(Clients), IsInjective(clients),
         Range(clients) \subseteq Range(order), Ask(clients)
  PROVE  IInv'
<1> DEFINE c == Head(clients)
<1> USE DEF IInv, TypeOK
<1>1. c \in Clients /\ clients # <<>>
  BY Taken DEF Ask
<1>2. Range(Tail(clients)) = Range(clients) \ {c}
  BY <1>1, Taken
<1>3. clientMap' = [clientMap EXCEPT ![c] = clientMap[c] \cap live]
  BY DEF Ask, Kept
<1>4. /\ RemoveFirst(order, c) \in Seq(Clients)
      /\ IsInjective(RemoveFirst(order, c))
      /\ Range(RemoveFirst(order, c)) = Range(order) \ {c}
  <2>1. order \in Seq(Clients) /\ IsInjective(order)
    OBVIOUS
  <2> HIDE DEF c, IInv, TypeOK
  <2> QED BY <1>1, <2>1, Removed
<1>5. /\ order' \in Seq(Clients) /\ IsInjective(order')
      /\ Range(order') = IF Kept(c) = {} THEN Range(order) \ {c}
                         ELSE Range(order)
  BY <1>4, Zenon DEF Ask
<1>6. Range(order') = {d \in Clients : clientMap'[d] # {}}
  BY <1>1, <1>3, <1>5 DEF Kept, LiveIsTracked
<1>7. \A i \in live' : i \in clientMap'[Home[i]]
  BY <1>1, <1>3, HomeAssumption DEF LiveIsTracked
<1>8. TypeOK'
  BY <1>1, <1>3, <1>5, LimitAssumption DEF Ask, Kept, peer
<1>9. Range(Tail(clients)) \subseteq Range(order')
  BY <1>2, <1>5
<1> QED BY <1>1, <1>6, <1>7, <1>8, <1>9 DEF Ask, LiveIsTracked

LEMMA EndKeeps ==
  ASSUME IInv, UNCHANGED <<peer, sent, live, secured>>,
         NEW clients, PassEnds(clients)
  PROVE  IInv'
<1>1. IsInjective(<<>>) /\ <<>> \in Seq(Clients)
  BY DEF IsInjective
<1>2. todo' \in Seq(Clients) /\ IsInjective(todo')
  BY <1>1, Zenon DEF PassEnds
<1>3. order' \in Seq(Clients) /\ IsInjective(order')
  BY Zenon DEF PassEnds, IInv, TypeOK
<1>4. TypeOK'
  <2>1. timer' \in 0 .. Limit + 1
    BY LimitAssumption DEF PassEnds
  <2>2. /\ task' \in {"asleep", "sending", "waiting", "hung", "ended"}
        /\ grew' \in BOOLEAN
    BY DEF PassEnds
  <2>3. UNCHANGED <<exposed, age, sent, live, clientMap, asked, wire, secured>>
    BY DEF PassEnds, peer
  <2> QED BY <1>2, <1>3, <2>1, <2>2, <2>3, Zenon DEF IInv, TypeOK
<1>5. LiveIsTracked' /\ ~InRequest'
  BY DEF PassEnds, IInv, LiveIsTracked
<1> QED BY <1>4, <1>5 DEF IInv

LEMMA NextIInv == IInv /\ [Next]_vars => IInv'
<1> SUFFICES ASSUME IInv, [Next]_vars PROVE IInv'
  OBVIOUS
<1> USE DEF IInv
<1>1. ASSUME NEW i \in Ids, SendDescriptor(i) PROVE IInv'
  BY <1>1 DEF SendDescriptor, proxies, pass, TypeOK, LiveIsTracked
<1>2. ASSUME NEW i \in Ids, Receive(i) PROVE IInv'
  <2> DEFINE c == Home[i]
  <2>1. c \in Clients
    BY HomeAssumption
  <2>2. /\ order' \in Seq(Clients) /\ IsInjective(order')
        /\ Range(order') = Range(order) \cup {c}
    BY <1>2, <2>1, Appended DEF Receive, Listed, TypeOK
  <2>3. clientMap' = [clientMap EXCEPT ![c] = clientMap[c] \cup {i}]
    BY <1>2 DEF Receive
  <2>4. TypeOK'
    BY <1>2, <2>1, <2>2, <2>3 DEF Receive, peer, pass, TypeOK
  <2>5. Range(order') = {d \in Clients : clientMap'[d] # {}}
    BY <2>1, <2>2, <2>3 DEF TypeOK, LiveIsTracked
  <2>6. \A j \in live' : j \in clientMap'[Home[j]]
    BY <1>2, <2>1, <2>3, HomeAssumption DEF Receive, TypeOK, LiveIsTracked
  <2>7. InRequest' => Range(Tail(todo')) \subseteq Range(order')
    BY <1>2, <2>2 DEF Receive, pass, LiveIsTracked
  <2> QED BY <1>2, <2>4, <2>5, <2>6, <2>7 DEF Receive, pass, LiveIsTracked
<1>3. ASSUME NEW i \in Ids, Drop(i) PROVE IInv'
  BY <1>3 DEF Drop, peer, pass, TypeOK, LiveIsTracked
<1>4. CASE StartPass
  <2>1. CASE Ask(order)
    BY <1>4, <2>1, AskKeeps DEF StartPass, TypeOK
  <2>2. CASE PassEnds(order)
    BY <1>4, <2>2, EndKeeps DEF StartPass
  <2> QED BY <1>4, <2>1, <2>2 DEF StartPass
<1>5. CASE Answered
  <2>1. /\ Tail(todo) \in Seq(Clients) /\ IsInjective(Tail(todo))
        /\ Range(Tail(todo)) \subseteq Range(order)
    BY <1>5, Taken DEF Answered, TypeOK, LiveIsTracked
  <2>2. CASE Ask(Tail(todo))
    BY <1>5, <2>1, <2>2, AskKeeps DEF Answered
  <2>3. CASE PassEnds(Tail(todo))
    BY <1>5, <2>3, EndKeeps DEF Answered
  <2> QED BY <1>5, <2>2, <2>3 DEF Answered
<1>6. CASE Abandons
  <2>1. IsInjective(<<>>) /\ <<>> \in Seq(Clients) /\ 0 \in 0 .. Limit + 1
    BY LimitAssumption DEF IsInjective
  <2>2. ~InRequest'
    BY <1>6 DEF Abandons
  <2>3. todo' \in Seq(Clients) /\ IsInjective(todo')
    BY <1>6, <2>1, Zenon DEF Abandons, GivesUp
  <2>4. TypeOK'
    BY <1>6, <2>1, <2>3 DEF Abandons, GivesUp, peer, proxies, TypeOK
  <2> QED
    BY <1>6, <2>2, <2>4 DEF Abandons, GivesUp, proxies, LiveIsTracked
<1>7. CASE Sends
  BY <1>7 DEF Sends, peer, proxies, TypeOK, LiveIsTracked
<1>8. CASE NewHost
  BY <1>8 DEF NewHost, peer, proxies, TypeOK, LiveIsTracked
<1>9. CASE Deliver
  <2>1. age' \in [Ids -> 0 .. Expiry + 1]
    BY <1>9, ExpiryAssumption DEF Deliver, TypeOK
  <2> QED
    BY <1>9, <2>1
    DEF Deliver, Renewed, Registered, proxies, TypeOK, LiveIsTracked
<1>10. ASSUME NEW c \in Clients, RemoveOutdated(c) PROVE IInv'
  BY <1>10 DEF RemoveOutdated, proxies, pass, TypeOK, LiveIsTracked
<1>11. CASE Tick
  <2>1. age' \in [Ids -> 0 .. Expiry + 1]
    BY <1>11, ExpiryAssumption DEF Tick, TypeOK
  <2>2. timer' \in 0 .. Limit + 1
    BY <1>11, LimitAssumption DEF Tick, Overtime, TypeOK
  <2> QED BY <1>11, <2>1, <2>2 DEF Tick, proxies, TypeOK, LiveIsTracked
<1>12. CASE UNCHANGED vars
  BY <1>12 DEF vars, TypeOK, LiveIsTracked
<1> QED
  BY <1>1, <1>2, <1>3, <1>4, <1>5, <1>6, <1>7, <1>8, <1>9, <1>10, <1>11,
     <1>12, Steps
  DEF Next

LEMMA Invariant == Spec => []IInv
<1>1. QED BY InitIInv, NextIInv, PTL DEF Spec

-----------------------------------------------------------------------------
(* How old an id may become.                                               *)

LEMMA InitHeld == Init => HeldInv
BY DEF Init, HeldInv, Belongs, InTurn, HeldIsKept, Ages

\* The client of a secured id has its entry in the dictionary.
LEMMA SecuredIsListed ==
  ASSUME TypeOK, LiveIsTracked, Belongs, NEW i \in secured
  PROVE  i \in live /\ Home[i] \in Clients /\ Home[i] \in Range(order)
BY HomeAssumption DEF TypeOK, LiveIsTracked, Belongs

\* One turn of the loop asks for all that is secured under its client.
LEMMA AskBelongs ==
  ASSUME TypeOK, LiveIsTracked, Belongs, NEW clients \in Seq(Clients),
         Ask(clients), UNCHANGED <<live, secured>>
  PROVE  Belongs'
<1> DEFINE c == Head(clients)
<1>1. c \in Clients
  BY DEF Ask
<1>2. /\ clientMap' = [clientMap EXCEPT ![c] = clientMap[c] \cap live]
      /\ asked' = clientMap[c] \cap live /\ todo' = clients
  BY DEF Ask, Kept
<1> HIDE DEF c
<1>3. \A d \in Clients : clientMap'[d] \subseteq clientMap[d]
  BY <1>1, <1>2 DEF TypeOK
<1>4. ASSUME NEW i \in secured, Home[i] = c PROVE i \in asked'
  BY <1>2, <1>4 DEF TypeOK, LiveIsTracked, Belongs
<1> QED
  BY <1>1, <1>2, <1>3, <1>4 DEF Belongs, c

LEMMA StepBelongs ==
  ASSUME IInv, Belongs, [Next]_vars
  PROVE  Belongs'
<1>0. TypeOK /\ LiveIsTracked
  BY DEF IInv
<1>1. ASSUME NEW i \in Ids, SendDescriptor(i) PROVE Belongs'
  BY <1>1 DEF SendDescriptor, proxies, pass, Belongs
<1>2. ASSUME NEW i \in Ids, Receive(i) PROVE Belongs'
  <2>1. /\ clientMap' = [clientMap EXCEPT ![Home[i]] = @ \cup {i}]
        /\ live \subseteq live' /\ UNCHANGED <<secured, pass>>
    BY <1>2 DEF Receive
  <2>2. \A c \in Clients : \A j \in clientMap'[c] : Home[j] = c
    BY <1>0, <2>1 DEF TypeOK, Belongs
  <2> QED
    BY <2>1, <2>2 DEF pass, Belongs
<1>3. ASSUME NEW i \in Ids, Drop(i) PROVE Belongs'
  BY <1>3 DEF Drop, pass, Belongs
<1>4. CASE StartPass
  <2>1. CASE Ask(order)
    BY <1>0, <1>4, <2>1, AskBelongs DEF StartPass, TypeOK
  <2>2. CASE PassEnds(order)
    BY <1>4, <2>2 DEF StartPass, PassEnds, Belongs
  <2> QED
    BY <1>4, <2>1, <2>2 DEF StartPass
<1>5. CASE Answered
  <2>1. CASE Ask(Tail(todo))
    <3>1. Tail(todo) \in Seq(Clients)
      BY <1>0, <1>5, Taken DEF Answered, IInv, TypeOK
    <3> QED
      BY <1>0, <1>5, <2>1, <3>1, AskBelongs DEF Answered
  <2>2. CASE PassEnds(Tail(todo))
    BY <1>5, <2>2 DEF Answered, PassEnds, Belongs
  <2> QED
    BY <1>5, <2>1, <2>2 DEF Answered
<1>6. CASE Abandons
  BY <1>6 DEF Abandons, GivesUp, proxies, Belongs
<1>7. CASE NewHost
  BY <1>7 DEF NewHost, proxies, Belongs
<1>8. CASE Deliver
  BY <1>8 DEF Deliver, proxies, Renewed, Belongs
<1>9. ASSUME NEW c \in Clients, RemoveOutdated(c) PROVE Belongs'
  BY <1>9 DEF RemoveOutdated, proxies, pass, Belongs
<1>10. CASE Tick
  BY <1>10 DEF Tick, proxies, Belongs
<1>11. CASE UNCHANGED vars
  BY <1>11 DEF vars, Belongs
<1>12. CASE Sends
  BY <1>12 DEF Sends, proxies, Belongs
<1> QED
  BY <1>1, <1>2, <1>3, <1>4, <1>5, <1>6, <1>7, <1>8, <1>9, <1>10, <1>11, <1>12,
     Steps
  DEF Next

-----------------------------------------------------------------------------
(* The order of a pass.                                                    *)

\* Asking a client changes who comes before whom only for that client.
LEMMA AskKeepsOrder ==
  ASSUME TypeOK, NEW clients \in Seq(Clients), Ask(clients)
  PROVE  /\ \A d, c : Precedes(order', d, c) => Precedes(order, d, c)
         /\ asked' # {} => order' = order
<1>1. Head(clients) \in Clients
  BY DEF Ask
<1>2. order \in Seq(Clients) /\ IsInjective(order)
  BY DEF TypeOK
<1>3. \A d, c : Precedes(RemoveFirst(order, Head(clients)), d, c)
                  => Precedes(order, d, c)
  BY <1>1, <1>2, Removed
<1>4. CASE Kept(Head(clients)) = {}
  <2>1. order' = RemoveFirst(order, Head(clients)) /\ asked' = {}
    BY <1>4 DEF Ask
  <2> QED
    BY <1>3, <2>1
<1>5. CASE Kept(Head(clients)) # {}
  <2>1. order' = order
    BY <1>5 DEF Ask
  <2> QED
    BY <2>1
<1> QED
  BY <1>4, <1>5

\* A proxy that arrives leaves the order of the clients as it is.
LEMMA ReceiveKeepsOrder ==
  ASSUME TypeOK, NEW i \in Ids, Receive(i), NEW c \in Range(order), NEW d
  PROVE  Precedes(order', d, c) <=> Precedes(order, d, c)
<1>1. CASE Home[i] \in Range(order)
  BY <1>1 DEF Receive, Listed
<1>2. CASE Home[i] \notin Range(order)
  <2>1. order' = Append(order, Home[i]) /\ order \in Seq(Clients)
    BY <1>2 DEF Receive, Listed, TypeOK
  <2>2. Home[i] \in Clients
    BY HomeAssumption
  <2> QED
    BY <1>2, <2>1, <2>2, PrecedesAppended
<1> QED
  BY <1>1, <1>2

\* A turn of the loop over the clients that are left.
LEMMA AskInTurn ==
  ASSUME TypeOK, NEW clients \in Seq(Clients), IsInjective(clients),
         Range(clients) \subseteq Range(order), Ask(clients),
         UNCHANGED secured,
         \A a, b \in Range(clients) :
           Precedes(clients, a, b) => ~Precedes(order, b, a),
         \A i \in secured : Home[i] \notin Range(clients) =>
           \A d \in Range(clients) : ~Precedes(order, d, Home[i])
  PROVE  InTurn'
<1> DEFINE h == Head(clients)
<1>1. clients # <<>> /\ todo' = clients
  BY DEF Ask
<1>2. /\ Tail(clients) \in Seq(Clients) /\ h \in Range(clients)
      /\ Range(Tail(clients)) \subseteq Range(clients)
  BY <1>1, Taken
<1>3. \A d \in Range(Tail(clients)) : Precedes(clients, h, d)
  BY <1>1, HeadPrecedes
<1>4. /\ \A d, c : Precedes(order', d, c) => Precedes(order, d, c)
      /\ asked' # {} => order' = order
  BY AskKeepsOrder
<1> HIDE DEF h
<1>5. \A d \in Range(Tail(clients)) : ~Precedes(order', d, h)
  BY <1>2, <1>3, <1>4
<1>6. \A a, b \in Range(Tail(clients)) :
        Precedes(clients, a, b) => ~Precedes(order', b, a)
  BY <1>2, <1>4
<1>7. \A i \in secured : Home[i] \notin Range(clients) =>
        \A d \in Range(clients) : ~Precedes(order', d, Home[i])
  BY <1>4
<1> QED
  BY <1>1, <1>2, <1>4, <1>5, <1>6, <1>7 DEF InTurn, h

\* Nobody that is left comes before the client of an id that is secured and
\* that the pass is done with.
LEMMA DoneIsFirst ==
  ASSUME IInv, Belongs, InTurn, InRequest, NEW i \in secured,
         Home[i] \notin Range(Tail(todo)), NEW d \in Range(Tail(todo))
  PROVE  ~Precedes(order, d, Home[i])
<1>1. todo \in Seq(Clients) /\ IsInjective(todo) /\ todo # <<>>
  BY DEF IInv, TypeOK
<1>2. Range(Tail(todo)) = Range(todo) \ {Head(todo)}
  BY <1>1, Taken
<1>3. CASE Home[i] = Head(todo)
  BY <1>3 DEF Belongs, InTurn
<1>4. CASE Home[i] # Head(todo)
  BY <1>2, <1>4 DEF InTurn
<1> QED
  BY <1>3, <1>4

LEMMA StepInTurn ==
  ASSUME IInv, Belongs, InTurn, [Next]_vars
  PROVE  InTurn'
<1>0. /\ TypeOK /\ LiveIsTracked
      /\ order \in Seq(Clients) /\ IsInjective(order)
      /\ InRequest =>
           /\ todo \in Seq(Clients) /\ IsInjective(todo) /\ todo # <<>>
           /\ Range(Tail(todo)) \subseteq Range(order)
  BY DEF IInv, TypeOK, LiveIsTracked
<1>1. ASSUME NEW i \in Ids, SendDescriptor(i) PROVE InTurn'
  BY <1>1 DEF SendDescriptor, proxies, pass, InTurn
<1>2. ASSUME NEW i \in Ids, Receive(i), InRequest PROVE InTurn'
  <2>1. UNCHANGED <<pass, secured>>
    BY <1>2 DEF Receive
  <2>2. Home[i] \in Clients
    BY HomeAssumption
  <2>3. \A c \in Range(order) : \A d :
          Precedes(order', d, c) <=> Precedes(order, d, c)
    BY <1>0, <1>2, ReceiveKeepsOrder
  <2>4. Range(order) \subseteq Range(order')
    BY <1>0, <1>2, <2>2, Appended DEF Receive, Listed
  <2>5. \A j \in secured : Home[j] \in Range(order)
    BY <1>0, SecuredIsListed
  <2> QED
    BY <1>0, <1>2, <2>1, <2>3, <2>4, <2>5 DEF InTurn, pass
<1>3. ASSUME NEW i \in Ids, Drop(i) PROVE InTurn'
  BY <1>3 DEF Drop, pass, InTurn
<1>4. CASE StartPass
  <2>1. CASE Ask(order)
    <3>1. \A a, b : Precedes(order, a, b) => ~Precedes(order, b, a)
      BY <1>0, PrecedesStrictly
    <3>2. \A j \in secured : Home[j] \in Range(order)
      BY <1>0, SecuredIsListed
    <3>3. UNCHANGED secured
      BY <1>4 DEF StartPass
    <3> QED
      BY <1>0, <2>1, <3>1, <3>2, <3>3, AskInTurn
  <2>2. CASE PassEnds(order)
    BY <1>4, <2>2 DEF StartPass, PassEnds, InTurn
  <2> QED
    BY <1>4, <2>1, <2>2 DEF StartPass
<1>5. CASE Answered
  <2>1. InRequest /\ UNCHANGED secured
    BY <1>5 DEF Answered
  <2>2. CASE Ask(Tail(todo))
    <3>1. Tail(todo) \in Seq(Clients) /\ IsInjective(Tail(todo))
      BY <1>0, <2>1, Taken
    <3>2. \A a, b : Precedes(Tail(todo), a, b) => Precedes(todo, a, b)
      BY <1>0, <2>1, PrecedesTail
    <3>3. \A a, b \in Range(Tail(todo)) :
            Precedes(Tail(todo), a, b) => ~Precedes(order, b, a)
      BY <2>1, <3>2 DEF InTurn
    <3>4. \A i \in secured : Home[i] \notin Range(Tail(todo)) =>
            \A d \in Range(Tail(todo)) : ~Precedes(order, d, Home[i])
      BY <2>1, DoneIsFirst
    <3> QED
      BY <1>0, <2>1, <2>2, <3>1, <3>3, <3>4, AskInTurn
  <2>3. CASE PassEnds(Tail(todo))
    BY <2>3 DEF PassEnds, InTurn
  <2> QED
    BY <1>5, <2>2, <2>3 DEF Answered
<1>6. CASE Abandons
  BY <1>6 DEF Abandons, GivesUp, InTurn
<1>7. CASE NewHost
  BY <1>7 DEF NewHost, proxies, InTurn
<1>8. CASE Deliver
  <2>1. /\ UNCHANGED <<proxies, task, todo, asked>>
        /\ secured' \subseteq secured \cup asked
    BY <1>8 DEF Deliver, Renewed
  <2>2. InRequest => \A i \in asked : Home[i] \in Range(todo)
    BY <1>0, Taken DEF Belongs
  <2> QED
    BY <2>1, <2>2 DEF InTurn, proxies
<1>9. ASSUME NEW c \in Clients, RemoveOutdated(c) PROVE InTurn'
  BY <1>9 DEF RemoveOutdated, proxies, pass, InTurn
<1>10. CASE Tick
  BY <1>10 DEF Tick, proxies, InTurn
<1>11. CASE UNCHANGED vars
  BY <1>11 DEF vars, InTurn
<1>12. CASE ~InRequest /\ \E i \in Ids : Receive(i)
  BY <1>12 DEF Receive, pass, InTurn
<1>13. CASE Sends
  BY <1>13 DEF Sends, proxies, InTurn
<1> QED
  BY <1>1, <1>2, <1>3, <1>4, <1>5, <1>6, <1>7, <1>8, <1>9, <1>10, <1>11,
     <1>12, <1>13, Steps
  DEF Next

-----------------------------------------------------------------------------
(* The ages.                                                               *)

\* A secured id is never as old as what a sweep removes.
LEMMA SecuredIsYoung ==
  ASSUME TypeOK, Timely, Ages, task \notin {"hung", "ended"},
         NEW i \in secured
  PROVE  age[i] \in Nat /\ age[i] <= Expiry
<1>1. /\ age[i] \in Nat /\ timer \in Nat /\ timer <= Limit + 1
      /\ task = "asleep" \/ InRequest
  BY LimitAssumption, ExpiryAssumption DEF TypeOK
<1>2. \A C \in SUBSET Clients : /\ Span(C) \in Nat
                                /\ Span(C) + Limit + 2 <= Expiry
  BY InTime, SpanGrows
<1>3. Limit + 1 <= Expiry /\ Limit \in Nat /\ Expiry \in Nat
  <2>1. Span({}) \in Nat /\ Span({}) + Limit + 2 <= Expiry
    BY <1>2
  <2> QED
    BY <2>1, LimitAssumption, ExpiryAssumption
<1>4. CASE task = "asleep"
  <2>1. age[i] <= Span(Clients \ Ahead(order, Home[i])) + timer
    BY <1>4 DEF Ages
  <2> QED
    BY <1>1, <1>2, <1>3, <2>1
<1>5. CASE InRequest
  <2>1. CASE Home[i] \notin Range(todo)
    <3>1. age[i] <= Waits(i) + timer
      BY <1>5, <2>1 DEF Ages
    <3>2. Waits(i) \in Nat /\ Waits(i) + Limit + 2 <= Expiry
      BY <1>2 DEF Waits
    <3> QED
      BY <1>1, <1>3, <3>1, <3>2
  <2>2. CASE ~Due(i)
    <3>1. age[i] <= timer
      BY <1>5, <2>2 DEF Ages
    <3> QED
      BY <1>1, <1>3, <3>1
  <2>3. CASE Due(i) /\ Home[i] \in Range(todo)
    <3>1. age[i] <= Span(Clients \ Ahead(todo, Home[i])) + 1 + timer
      BY <1>5, <2>3 DEF Ages
    <3> QED
      BY <1>1, <1>2, <1>3, <3>1
  <2> QED
    BY <2>1, <2>2, <2>3
<1> QED
  BY <1>1, <1>4, <1>5

\* When a client has answered, the wait that is over is accounted to it.
LEMMA WaitIsCounted ==
  ASSUME IInv, Belongs, InTurn, Ages, InRequest, wire = "reply",
         NEW i \in secured, Home[i] \notin Range(Tail(todo)),
         NEW o, \A d, c : Precedes(o, d, c) => Precedes(order, d, c)
  PROVE  age[i] <= Span(Clients \ (Ahead(o, Home[i]) \cup Range(Tail(todo))))
<1> DEFINE c == Home[i]
           h == Head(todo)
           C == Clients \ (Ahead(order, c) \cup Range(todo))
           D == Clients \ (Ahead(o, c) \cup Range(Tail(todo)))
<1>0. /\ todo \in Seq(Clients) /\ IsInjective(todo) /\ todo # <<>>
      /\ order \in Seq(Clients) /\ IsInjective(order)
      /\ age[i] \in Nat /\ timer \in Nat /\ timer <= Limit + 1
  BY LimitAssumption, ExpiryAssumption DEF IInv, TypeOK
<1>1. /\ h \in Clients /\ h \in Range(todo)
      /\ Range(Tail(todo)) = Range(todo) \ {h}
  BY <1>0, Taken
<1>2. c \in Clients
  BY SecuredIsListed DEF IInv
<1>3. \A d : Precedes(o, d, c) => Precedes(order, d, c)
  OBVIOUS
<1>4. C \in SUBSET Clients /\ D \in SUBSET Clients /\ {} \in SUBSET Clients
  OBVIOUS
<1>5. CASE c = h
  <2>1. age[i] <= timer
    BY <1>5 DEF Ages, Due
  <2>2. c \in D
    <3>1. ~Precedes(o, c, c)
      BY <1>0, <1>3, PrecedesStrictly
    <3> QED
      BY <1>1, <1>2, <1>5, <3>1 DEF Ahead
  <2> HIDE DEF D
  <2>3. Span({}) \in Nat /\ Span(D) \in Nat
        /\ Span({}) + Limit + 1 <= Span(D)
    BY <1>4, <2>2, SpanGrows
  <2>4. age[i] <= Span(D)
    BY <1>0, <2>1, <2>3, LimitAssumption
  <2> QED
    BY <2>4 DEF D
<1>6. CASE c # h
  <2>1. c \notin Range(todo)
    BY <1>1, <1>6
  <2>2. age[i] <= Span(C) + timer
    BY <2>1 DEF Ages, Waits
  <2>3. h \in D /\ h \notin C /\ C \subseteq D
    <3>1. ~Precedes(o, h, c)
      BY <1>1, <1>3, <2>1 DEF InTurn
    <3>2. Ahead(o, c) \subseteq Ahead(order, c)
      BY <1>3 DEF Ahead
    <3> QED
      BY <1>1, <3>1, <3>2 DEF Ahead
  <2> HIDE DEF C, D
  <2>4. Span(C) \in Nat /\ Span(D) \in Nat /\ Span(C) + Limit + 1 <= Span(D)
    BY <1>4, <2>3, SpanGrows
  <2>5. age[i] <= Span(D)
    BY <1>0, <2>2, <2>4, LimitAssumption
  <2> QED
    BY <2>5 DEF D
<1> QED
  BY <1>5, <1>6

\* The same for those that are still to be asked.
LEMMA WaitIsCountedAhead ==
  ASSUME IInv, Belongs, Ages, InRequest,
         NEW i \in secured, Home[i] \in Range(Tail(todo))
  PROVE  age[i] <= Span(Clients \ Ahead(Tail(todo), Home[i])) + 1
<1> DEFINE c == Home[i]
           h == Head(todo)
           C == Clients \ Ahead(todo, c)
           D == Clients \ Ahead(Tail(todo), c)
<1>0. /\ todo \in Seq(Clients) /\ IsInjective(todo) /\ todo # <<>>
      /\ age[i] \in Nat /\ timer \in Nat /\ timer <= Limit + 1
  BY LimitAssumption, ExpiryAssumption DEF IInv, TypeOK
<1>1. /\ h \in Clients /\ c # h /\ c \in Range(todo)
  BY <1>0, Taken
<1>2. \A d : Precedes(Tail(todo), d, c) <=> Precedes(todo, d, c) /\ d # h
  BY <1>0, PrecedesTail
<1>3. Precedes(todo, h, c)
  BY <1>0, HeadPrecedes
<1>4. C \subseteq D /\ h \in D /\ h \notin C
  BY <1>1, <1>2, <1>3 DEF Ahead
<1>5. age[i] <= Span(C) + 1 + timer
  BY <1>1 DEF Ages, Due
<1>6. C \in SUBSET Clients /\ D \in SUBSET Clients
  OBVIOUS
<1> HIDE DEF C, D
<1>7. Span(C) \in Nat /\ Span(D) \in Nat /\ Span(C) + Limit + 1 <= Span(D)
  BY <1>4, <1>6, SpanGrows
<1>8. age[i] <= Span(D) + 1
  BY <1>0, <1>5, <1>7, LimitAssumption
<1> QED
  BY <1>8 DEF D

LEMMA StepAges ==
  ASSUME IInv, Belongs, InTurn, HeldIsKept, Timely, Ages, [Next]_vars
  PROVE  Ages'
<1>0. /\ TypeOK /\ LiveIsTracked
      /\ order \in Seq(Clients) /\ IsInjective(order)
      /\ InRequest =>
           todo \in Seq(Clients) /\ IsInjective(todo) /\ todo # <<>>
  BY DEF IInv, TypeOK
<1>1. ASSUME UNCHANGED <<age, order, task, timer, todo, wire>>,
             secured' \subseteq secured
      PROVE  Ages'
  BY <1>1 DEF Ages, Waits, Due
<1>2. ASSUME NEW i \in Ids, SendDescriptor(i) \/ Drop(i) PROVE Ages'
  BY <1>1, <1>2 DEF SendDescriptor, Drop, peer, proxies, pass
<1>3. ASSUME NEW i \in Ids, Receive(i) PROVE Ages'
  <2>1. UNCHANGED <<age, task, timer, todo, wire, secured>>
    BY <1>3 DEF Receive, peer, pass
  <2>2. \A j \in secured : Ahead(order', Home[j]) = Ahead(order, Home[j])
    BY <1>0, <1>3, SecuredIsListed, ReceiveKeepsOrder DEF Ahead
  <2> QED
    BY <2>1, <2>2 DEF Ages, Waits, Due
<1>4. CASE StartPass
  <2>1. UNCHANGED <<age, secured>> /\ task = "asleep" /\ timer = 1
    BY <1>4 DEF StartPass, peer
  <2>2. \A j \in secured : Home[j] \in Range(order)
    BY <1>0, SecuredIsListed
  <2>3. CASE Ask(order)
    <3>1. /\ todo' = order /\ wire' = "none" /\ timer' = 0
          /\ InRequest'
      BY <2>3 DEF Ask
    <3>2. \A j \in secured :
            /\ age[j] \in Nat
            /\ Span(Clients \ Ahead(order, Home[j])) \in Nat
            /\ age[j] <= Span(Clients \ Ahead(order, Home[j])) + 1
      BY <2>1, SpanGrows, ExpiryAssumption DEF Ages, TypeOK, IInv, Belongs
    <3>3. \A j \in secured :
            age[j] <= Span(Clients \ Ahead(todo', Home[j])) + 1 + timer'
      BY <3>1, <3>2
    <3> QED
      BY <2>1, <2>2, <3>1, <3>3 DEF Ages, Due
  <2>4. CASE PassEnds(order)
    <3>1. Range(order) = {}
      BY <2>4 DEF PassEnds, Range
    <3> QED
      BY <2>1, <2>2, <3>1 DEF Ages
  <2> QED
    BY <1>4, <2>3, <2>4 DEF StartPass
<1>5. CASE Answered
  <2>1. /\ InRequest /\ wire = "reply" /\ UNCHANGED <<age, secured>>
    BY <1>5 DEF Answered, peer
  <2>2. Tail(todo) \in Seq(Clients)
    BY <1>0, <2>1, Taken
  <2>3. \A j \in secured : age[j] \in Nat
    BY ExpiryAssumption DEF IInv, TypeOK, Belongs
  <2>4. \A C \in SUBSET Clients : Span(C) \in Nat
    BY SpanGrows
  <2>5. CASE Ask(Tail(todo))
    <3>1. /\ todo' = Tail(todo) /\ wire' = "none" /\ timer' = 0
          /\ InRequest'
      BY <2>5 DEF Ask
    <3>2. \A d, c : Precedes(order', d, c) => Precedes(order, d, c)
      BY <1>0, <2>2, <2>5, AskKeepsOrder
    <3>3. ASSUME NEW j \in secured, Home[j] \notin Range(Tail(todo))
          PROVE  age[j] <=
                   Span(Clients \ (Ahead(order', Home[j])
                                     \cup Range(Tail(todo)))) + 0
      <4>1. age[j] <=
              Span(Clients \ (Ahead(order', Home[j]) \cup Range(Tail(todo))))
        BY <2>1, <3>2, <3>3, WaitIsCounted
      <4> QED
        BY <2>3, <2>4, <4>1
    <3>4. ASSUME NEW j \in secured, Home[j] \in Range(Tail(todo))
          PROVE  age[j] <= Span(Clients \ Ahead(Tail(todo), Home[j])) + 1 + 0
      <4>1. age[j] <= Span(Clients \ Ahead(Tail(todo), Home[j])) + 1
        BY <2>1, <3>4, WaitIsCountedAhead
      <4> QED
        BY <2>3, <2>4, <4>1
    <3> QED
      BY <2>1, <3>1, <3>3, <3>4 DEF Ages, Waits, Due
  <2>6. CASE PassEnds(Tail(todo))
    <3>1. /\ Tail(todo) = <<>> /\ order' = order /\ timer' = 0
          /\ ~InRequest'
      BY <2>6 DEF PassEnds
    <3>2. Range(Tail(todo)) = {}
      BY <3>1 DEF Range
    <3>3. ASSUME NEW j \in secured
          PROVE  age[j] <= Span(Clients \ Ahead(order, Home[j])) + 0
      <4>1. age[j] <=
              Span(Clients \ (Ahead(order, Home[j]) \cup Range(Tail(todo))))
        BY <2>1, <3>2, WaitIsCounted
      <4>2. age[j] <= Span(Clients \ Ahead(order, Home[j]))
        BY <3>2, <4>1
      <4> QED
        BY <2>3, <2>4, <4>2
    <3> QED
      BY <2>1, <3>1, <3>3 DEF Ages
  <2> QED
    BY <1>5, <2>5, <2>6 DEF Answered
<1>6. CASE Abandons
  BY <1>6 DEF Abandons, GivesUp, Ages
<1>7. CASE NewHost
  BY <1>1, <1>7 DEF NewHost, peer, proxies
<1>8. CASE Deliver
  <2>1. /\ UNCHANGED <<order, task, timer, todo>> /\ wire' = "reply"
        /\ secured' \subseteq secured \cup (asked \cap Registered)
        /\ age' = [i \in Ids |-> IF i \in asked \cap Registered THEN 0
                                 ELSE age[i]]
    BY <1>8 DEF Deliver, Renewed, proxies
  <2>2. /\ timer \in Nat /\ age \in [Ids -> Nat]
        /\ secured \subseteq Ids /\ asked \subseteq Ids
    BY LimitAssumption, ExpiryAssumption DEF IInv, TypeOK
  <2>3. \A C \in SUBSET Clients : Span(C) \in Nat
    BY SpanGrows
  <2>4. ASSUME NEW i \in secured', i \in asked \cap Registered
        PROVE  /\ age'[i] = 0
               /\ \A C \in SUBSET Clients : /\ 0 <= Span(C) + timer
                                            /\ 0 <= Span(C) + 1 + timer
    BY <2>1, <2>2, <2>3, <2>4
  <2>5. ASSUME NEW i \in secured', i \notin asked \cap Registered
        PROVE  i \in secured /\ age'[i] = age[i]
    BY <2>1, <2>2, <2>5
  <2>6. ASSUME NEW i \in secured', i \notin asked \cap Registered,
               InRequest
        PROVE  Home[i] # Head(todo)
    BY <2>5, <2>6 DEF HeldIsKept, Belongs
  <2>7. ASSUME NEW i \in secured', task = "asleep"
        PROVE  age'[i] <= Span(Clients \ Ahead(order, Home[i])) + timer
    <3>1. CASE i \in asked \cap Registered
      BY <2>4, <3>1
    <3>2. CASE i \notin asked \cap Registered
      BY <2>5, <2>7, <3>2 DEF Ages
    <3> QED
      BY <3>1, <3>2
  <2>8. ASSUME NEW i \in secured', InRequest
        PROVE  /\ Home[i] \notin Range(todo) => age'[i] <= Waits(i) + timer
               /\ Home[i] = Head(todo) => age'[i] <= timer
               /\ Home[i] # Head(todo) /\ Home[i] \in Range(todo) =>
                    age'[i] <= Span(Clients \ Ahead(todo, Home[i])) + 1
                                 + timer
    <3>1. CASE i \in asked \cap Registered
      BY <2>2, <2>4, <3>1 DEF Waits
    <3>2. CASE i \notin asked \cap Registered
      BY <2>5, <2>6, <2>8, <3>2 DEF Ages, Due
    <3> QED
      BY <3>1, <3>2
  <2> QED
    BY <2>1, <2>7, <2>8 DEF Ages, Waits, Due
<1>9. ASSUME NEW c \in Clients, RemoveOutdated(c) PROVE Ages'
  BY <1>1, <1>9 DEF RemoveOutdated, proxies, pass
<1>10. CASE Tick
  <2>1. UNCHANGED <<order, task, todo, wire>>
    BY <1>10 DEF Tick, proxies
  <2>2. /\ timer \in Nat /\ age \in [Ids -> Nat] /\ secured \subseteq Ids
    BY LimitAssumption, ExpiryAssumption DEF IInv, TypeOK
  <2>3. \A C \in SUBSET Clients : Span(C) \in Nat
    BY SpanGrows
  <2>4. \A i \in secured : age'[i] \in Nat /\ age'[i] <= age[i] + 1
    BY <1>10, <2>2 DEF Tick
  <2>5. CASE Overtime
    BY <1>10, <2>5 DEF Tick, Ages
  <2>6. CASE ~Overtime
    <3>1. secured' = secured
      BY <1>10, <2>6 DEF Tick
    <3>2. task \notin {"hung", "ended"} => timer' = timer + 1
      BY <1>10, <2>6 DEF Tick
    <3>3. \A i \in secured : Waits(i) \in Nat /\ Waits(i)' = Waits(i)
      BY <2>1, <2>3 DEF Waits
    <3>4. ASSUME NEW i \in secured, NEW n \in Nat,
                 task = "asleep" \/ InRequest, age[i] <= n + timer
          PROVE  age'[i] <= n + timer'
      BY <2>2, <2>4, <3>2, <3>4
    <3>5. ASSUME NEW i \in secured, InRequest, age[i] <= timer
          PROVE  age'[i] <= timer'
      BY <2>2, <2>4, <3>2, <3>5
    <3>6. ASSUME NEW i \in secured, NEW n \in Nat, InRequest,
                 age[i] <= n + 1 + timer
          PROVE  age'[i] <= n + 1 + timer'
      BY <2>2, <2>4, <3>2, <3>6
    <3> QED
      BY <2>1, <2>3, <3>1, <3>3, <3>4, <3>5, <3>6 DEF Ages, Due
  <2> QED
    BY <2>5, <2>6
<1>11. CASE UNCHANGED vars
  BY <1>1, <1>11 DEF vars
<1>12. CASE Sends
  BY <1>12 DEF Sends, peer, proxies, Ages, Waits, Due
<1> QED
  BY <1>2, <1>3, <1>4, <1>5, <1>6, <1>7, <1>8, <1>9, <1>10, <1>11, <1>12,
     Steps
  DEF Next

\* What is secured is not removed.
LEMMA StepHeld ==
  ASSUME IInv, Belongs, HeldIsKept, Timely => Ages, [Next]_vars
  PROVE  HeldIsKept'
<1> SUFFICES ASSUME Timely, task' \notin {"hung", "ended"}
             PROVE  secured' \subseteq Registered'
  BY DEF HeldIsKept, Timely
<1>0. TypeOK
  BY DEF IInv
<1>1. ASSUME task \notin {"hung", "ended"}, exposed' = exposed,
             secured' \subseteq secured
      PROVE  secured' \subseteq Registered'
  BY <1>1 DEF HeldIsKept, Registered
<1>2. ASSUME NEW i \in Ids, SendDescriptor(i)
      PROVE  secured' \subseteq Registered'
  BY <1>0, <1>2
  DEF SendDescriptor, pass, HeldIsKept, Registered, TypeOK
<1>3. ASSUME NEW i \in Ids, Receive(i) \/ Drop(i)
      PROVE  secured' \subseteq Registered'
  BY <1>1, <1>3 DEF Receive, Drop, peer, pass
<1>4. CASE StartPass \/ Answered
  BY <1>1, <1>4 DEF StartPass, Answered, peer
<1>5. CASE Abandons
  BY <1>5 DEF Abandons
<1>6. CASE NewHost
  BY <1>1, <1>6 DEF NewHost, peer
<1>7. CASE Deliver
  BY <1>7 DEF Deliver, Renewed, HeldIsKept, Registered
<1>8. ASSUME NEW c \in Clients, RemoveOutdated(c)
      PROVE  secured' \subseteq Registered'
  <2>1. task \notin {"hung", "ended"} /\ secured' = secured
    BY <1>8 DEF RemoveOutdated, pass
  <2>2. \A i \in secured : i \in Ids /\ i \in Registered
    BY <1>0, <2>1 DEF HeldIsKept, TypeOK
  <2>3. \A i \in secured : i \notin Outdated(c)
    BY <1>0, <2>1, SecuredIsYoung, ExpiryAssumption DEF Outdated
  <2> QED
    BY <1>8, <2>1, <2>2, <2>3 DEF RemoveOutdated, Registered
<1>9. CASE Tick
  BY <1>1, <1>9 DEF Tick
<1>10. CASE UNCHANGED vars
  BY <1>1, <1>10 DEF vars
<1>11. CASE Sends
  BY <1>1, <1>11 DEF Sends, peer
<1> QED
  BY <1>2, <1>3, <1>4, <1>5, <1>6, <1>7, <1>8, <1>9, <1>10, <1>11, Steps
  DEF Next

-----------------------------------------------------------------------------
\* The state keeps its types, and clientMap lists no client twice.
THEOREM Typed == Spec => []TypeOK
<1>1. IInv => TypeOK
  BY DEF IInv
<1> QED BY <1>1, Invariant, PTL

\* Whatever dies or arrives while a pass of autoReRegister awaits its peers,
\* every proxy the program holds is in the set that the next pass asks for,
\* and no pass deletes an entry of clientMap that is gone.
THEOREM ProxiesAreTracked == Spec => []LiveIsTracked
<1>1. IInv => LiveIsTracked
  BY DEF IInv
<1> QED BY <1>1, Invariant, PTL

\* An id that was re-registered once stays registered for as long as its proxy
\* is held and the periodic task goes round, however late the peers answer, if
\* a pass over all clients and one more wait fit into the expiry, and while no
\* send outlasts the limit.
THEOREM RenewedIsKept == Spec => []HeldIsKept
<1>1. Init => HeldInv
  BY InitHeld
<1>2. IInv /\ HeldInv /\ [Next]_vars => HeldInv'
  <2> SUFFICES ASSUME IInv, HeldInv, [Next]_vars PROVE HeldInv'
    OBVIOUS
  <2>1. Belongs' /\ InTurn' /\ HeldIsKept'
    BY StepBelongs, StepInTurn, StepHeld DEF HeldInv
  <2>2. ASSUME Timely PROVE Ages'
    BY <2>2, StepAges DEF HeldInv
  <2>3. Timely' <=> Timely
    BY DEF Timely
  <2> QED
    BY <2>1, <2>2, <2>3 DEF HeldInv
<1>3. HeldInv => HeldIsKept
  BY DEF HeldInv
<1> QED
  BY Invariant, <1>1, <1>2, <1>3, PTL DEF Spec
=============================================================================
