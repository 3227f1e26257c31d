--------------------------- MODULE WriteQueueProofs ---------------------------
(***************************************************************************)
(* Theorems about WriteQueue and that it implements SettledWrites.         *)
(***************************************************************************)
EXTENDS QueueRefinement, ConnectionProofs, FiniteSetTheorems, FunctionTheorems

\* The writes whose puts are in a sequence of requests.
Puts(q) == {q[i].id : i \in {j \in DOMAIN q : q[j].kind = "put"}}

\* These puts are in the order of the writes, each once.
Ascending(q) ==
    \A i, j \in DOMAIN q :
        q[i].kind = "put" /\ q[j].kind = "put" /\ i < j => q[i].id < q[j].id

Below(S, T) == \A s \in S, t \in T : s < t

\* The writes whose puts are on the way or whose answers are.
Sent == Puts(answers) \union Puts(uplink)

-----------------------------------------------------------------------------
(* Sequences of requests.                                                  *)

LEMMA RequestMembers ==
    ASSUME NEW q \in Seq(Request), NEW i \in DOMAIN q
    PROVE  /\ i \in 1 .. Len(q) /\ Len(q) \in Nat
           /\ q[i] \in Request /\ q[i].id \in Nat /\ q[i].kind \in {"put", "listen"}
<1>1. i \in 1 .. Len(q) /\ Len(q) \in Nat
  BY LenProperties
<1>2. q[i] \in Request
  BY <1>1, ElementOfSeq
<1> QED BY <1>1, <1>2 DEF Request

LEMMA PutsAppend ==
    ASSUME NEW q \in Seq(Request), NEW m \in Request
    PROVE  /\ Append(q, m) \in Seq(Request)
           /\ m.kind # "put" => Puts(Append(q, m)) = Puts(q)
           /\ m.kind = "put" => Puts(Append(q, m)) = Puts(q) \union {m.id}
           /\ Ascending(q) /\ (m.kind = "put" => Below(Puts(q), {m.id}))
              => Ascending(Append(q, m))
<1>1. /\ Append(q, m) \in Seq(Request)
      /\ DOMAIN Append(q, m) = 1 .. Len(q) + 1
      /\ DOMAIN q = 1 .. Len(q) /\ Len(q) \in Nat
      /\ \A i \in 1 .. Len(q) : Append(q, m)[i] = q[i]
      /\ Append(q, m)[Len(q) + 1] = m
  BY AppendProperties, LenProperties
<1> DEFINE r == Append(q, m)
<1> HIDE DEF r
<1>2. /\ DOMAIN r = 1 .. Len(q) + 1 /\ DOMAIN q = 1 .. Len(q) /\ Len(q) \in Nat
      /\ \A i \in 1 .. Len(q) : r[i] = q[i]
      /\ r[Len(q) + 1] = m
  BY <1>1 DEF r
<1>3. m.kind # "put" => Puts(r) = Puts(q)
  BY <1>2 DEF Puts
<1>4. m.kind = "put" => Puts(r) = Puts(q) \union {m.id}
  BY <1>2 DEF Puts
<1>5. ASSUME Ascending(q), m.kind = "put" => Below(Puts(q), {m.id}),
             NEW i \in DOMAIN r, NEW j \in DOMAIN r,
             r[i].kind = "put", r[j].kind = "put", i < j
      PROVE  r[i].id < r[j].id
  <2>1. i \in DOMAIN q /\ r[i] = q[i]
    BY <1>2, <1>5
  <2>2. CASE j \in DOMAIN q
    BY <1>2, <1>5, <2>1, <2>2 DEF Ascending
  <2>3. CASE j \notin DOMAIN q
    <3>1. r[j] = m
      BY <1>2, <2>3
    <3>2. q[i].id \in Puts(q)
      BY <1>5, <2>1 DEF Puts
    <3> QED BY <1>5, <2>1, <3>1, <3>2 DEF Below
  <2> QED BY <2>2, <2>3
<1> QED BY <1>1, <1>3, <1>4, <1>5 DEF r, Ascending

LEMMA PutsTail ==
    ASSUME NEW q \in Seq(Request), q # <<>>
    PROVE  /\ Tail(q) \in Seq(Request) /\ Head(q) \in Request
           /\ Head(q).kind # "put" => Puts(Tail(q)) = Puts(q)
           /\ Head(q).kind = "put" => Puts(q) = Puts(Tail(q)) \union {Head(q).id}
           /\ Ascending(q) => Ascending(Tail(q))
           /\ Ascending(q) /\ Head(q).kind = "put" => Below({Head(q).id}, Puts(Tail(q)))
<1> DEFINE r == Tail(q)
           m == Head(q)
<1>1. /\ r \in Seq(Request) /\ m = q[1] /\ m \in Request
      /\ DOMAIN r = 1 .. Len(q) - 1 /\ DOMAIN q = 1 .. Len(q) /\ Len(q) \in Nat \ {0}
      /\ \A i \in 1 .. Len(q) - 1 : r[i] = q[i + 1]
  BY HeadTailProperties, LenProperties, EmptySeq, ElementOfSeq
<1> HIDE DEF r, m
<1>2. ASSUME NEW i \in DOMAIN q, i # 1
      PROVE  i - 1 \in DOMAIN r /\ r[i - 1] = q[i]
  BY <1>1, <1>2
<1>3. ASSUME NEW i \in DOMAIN r
      PROVE  i + 1 \in DOMAIN q /\ r[i] = q[i + 1] /\ i \in Nat \ {0}
  BY <1>1
<1>4. Puts(r) \subseteq Puts(q)
  BY <1>3 DEF Puts
<1>5. Puts(q) \subseteq Puts(r) \union (IF m.kind = "put" THEN {m.id} ELSE {})
  BY <1>1, <1>2 DEF Puts
<1>6. m.kind = "put" => m.id \in Puts(q)
  BY <1>1 DEF Puts
<1>7. ASSUME Ascending(q), NEW i \in DOMAIN r, NEW j \in DOMAIN r,
             r[i].kind = "put", r[j].kind = "put", i < j
      PROVE  r[i].id < r[j].id
  <2>1. i + 1 < j + 1
    BY <1>1, <1>7
  <2> QED BY <1>3, <1>7, <2>1 DEF Ascending
<1>8. ASSUME Ascending(q), m.kind = "put", NEW t \in Puts(r)
      PROVE  m.id < t
  <2>1. PICK i \in DOMAIN r : r[i].kind = "put" /\ r[i].id = t
    BY DEF Puts
  <2>2. 1 \in DOMAIN q /\ 1 < i + 1
    BY <1>1, <1>3
  <2> QED BY <1>1, <1>3, <1>8, <2>1, <2>2 DEF Ascending
<1>9. Ascending(q) => Ascending(r)
  BY <1>7 DEF Ascending
<1>10. Ascending(q) /\ m.kind = "put" => Below({m.id}, Puts(r))
  BY <1>8 DEF Below
<1> QED BY <1>1, <1>4, <1>5, <1>6, <1>9, <1>10 DEF r, m

LEMMA PutsConcat ==
    ASSUME NEW q \in Seq(Request), NEW r \in Seq(Request)
    PROVE  /\ q \o r \in Seq(Request)
           /\ Puts(q \o r) = Puts(q) \union Puts(r)
           /\ Ascending(q) /\ Ascending(r) /\ Below(Puts(q), Puts(r)) => Ascending(q \o r)
<1> DEFINE s == q \o r
<1>1. /\ s \in Seq(Request) /\ DOMAIN s = 1 .. Len(q) + Len(r)
      /\ DOMAIN q = 1 .. Len(q) /\ DOMAIN r = 1 .. Len(r)
      /\ Len(q) \in Nat /\ Len(r) \in Nat
      /\ \A i \in 1 .. Len(q) + Len(r) : s[i] = IF i =< Len(q) THEN q[i] ELSE r[i - Len(q)]
  BY ConcatProperties, LenProperties
<1> HIDE DEF s
<1>2. ASSUME NEW i \in DOMAIN q PROVE i \in DOMAIN s /\ s[i] = q[i]
  BY <1>1
<1>3. ASSUME NEW i \in DOMAIN r PROVE i + Len(q) \in DOMAIN s /\ s[i + Len(q)] = r[i]
  BY <1>1
<1>4. ASSUME NEW i \in DOMAIN s, i \notin DOMAIN q
      PROVE  i - Len(q) \in DOMAIN r /\ s[i] = r[i - Len(q)] /\ i > Len(q)
  BY <1>1, <1>4
<1>5. Puts(s) = Puts(q) \union Puts(r)
  <2>1. Puts(q) \subseteq Puts(s)
    BY <1>2 DEF Puts
  <2>2. Puts(r) \subseteq Puts(s)
    BY <1>3 DEF Puts
  <2>3. Puts(s) \subseteq Puts(q) \union Puts(r)
    BY <1>2, <1>4 DEF Puts
  <2> QED BY <2>1, <2>2, <2>3
<1>6. ASSUME Ascending(q), Ascending(r), Below(Puts(q), Puts(r)),
             NEW i \in DOMAIN s, NEW j \in DOMAIN s,
             s[i].kind = "put", s[j].kind = "put", i < j
      PROVE  s[i].id < s[j].id
  <2>1. CASE i \in DOMAIN q /\ j \in DOMAIN q
    BY <1>2, <1>6, <2>1 DEF Ascending
  <2>2. CASE i \in DOMAIN q /\ j \notin DOMAIN q
    <3>1. s[i].id \in Puts(q) /\ s[j].id \in Puts(r)
      BY <1>2, <1>4, <1>6, <2>2 DEF Puts
    <3> QED BY <1>6, <3>1 DEF Below
  <2>3. CASE i \notin DOMAIN q
    <3>1. j \notin DOMAIN q /\ i - Len(q) < j - Len(q)
      BY <1>1, <1>6, <2>3
    <3> QED BY <1>4, <1>6, <2>3, <3>1 DEF Ascending
  <2> QED BY <2>1, <2>2, <2>3
<1>7. Ascending(q) /\ Ascending(r) /\ Below(Puts(q), Puts(r)) => Ascending(s)
  BY <1>6 DEF Ascending
<1> QED BY <1>1, <1>5, <1>7 DEF s

-----------------------------------------------------------------------------
(* What restoreState sends.                                                *)

Distinct(s) == \A i, j \in DOMAIN s : s[i] = s[j] => i = j

\* A sequence of all elements of a set has each of them, once.
LEMMA SeqOfSet ==
    ASSUME NEW S, IsFiniteSet(S), NEW s \in SetToSeqs(S)
    PROVE  /\ s \in Seq(S) /\ Len(s) = Cardinality(S)
           /\ ToSet(s) = S
           /\ Distinct(s)
<1> DEFINE n == Cardinality(S)
<1>1. n \in Nat
  BY FS_CardinalityType
<1>2. s \in [1 .. n -> S] /\ \A i, j \in 1 .. n : i # j => s[i] # s[j]
  BY DEF SetToSeqs
<1>3. s \in Seq(S) /\ Len(s) = n /\ DOMAIN s = 1 .. n
  BY <1>1, <1>2
<1> HIDE DEF n
<1>4. s \in Injection(1 .. n, S)
  <2>1. \A a, b \in 1 .. n : s[a] = s[b] => a = b
    BY <1>2
  <2> QED BY <1>2, <2>1, Fun_IsInj
<1>5. IsFiniteSet(1 .. n) /\ Cardinality(1 .. n) = n
  <2>1. 1 \in Int /\ n \in Int /\ IF 1 > n THEN n = 0 ELSE n = n - 1 + 1
    BY <1>1
  <2> QED BY <1>1, <2>1, FS_Interval
<1>6. s \in Surjection(1 .. n, S)
  <2>1. IsFiniteSet(S) /\ Cardinality(1 .. n) = Cardinality(S)
    BY <1>5 DEF n
  <2> QED BY ONLY <1>4, <2>1, FS_Injection
<1>7. \A x \in S : \E i \in 1 .. n : s[i] = x
  BY <1>6 DEF Surjection
<1>8. ToSet(s) = S
  BY <1>2, <1>3, <1>7 DEF ToSet
<1> QED BY <1>2, <1>3, <1>8 DEF Distinct, n

\* The requests for ids, of one kind.
LEMMA RequestsOfOneKind ==
    ASSUME NEW n \in Nat, NEW kind \in {"put", "listen"}, NEW ids \in Seq(Nat)
    PROVE  /\ Requests(n, kind, ids) \in Seq(Request)
           /\ Len(Requests(n, kind, ids)) = Len(ids)
           /\ \A i \in 1 .. Len(ids) :
                 Requests(n, kind, ids)[i] = [rn |-> n + i, kind |-> kind, id |-> ids[i]]
           /\ kind = "put" => Puts(Requests(n, kind, ids)) = ToSet(ids)
           /\ kind = "listen" => Puts(Requests(n, kind, ids)) = {}
           /\ \/ kind = "listen"
              \/ \A i, j \in DOMAIN ids : i < j => ids[i] < ids[j]
              => Ascending(Requests(n, kind, ids))
<1> DEFINE r == Requests(n, kind, ids)
<1>1. Len(ids) \in Nat /\ DOMAIN ids = 1 .. Len(ids) /\ \A i \in 1 .. Len(ids) : ids[i] \in Nat
  BY LenProperties, ElementOfSeq
<1>2. \A i \in 1 .. Len(ids) : [rn |-> n + i, kind |-> kind, id |-> ids[i]] \in Request
  BY <1>1 DEF Request
<1>3. r = [i \in 1 .. Len(ids) |-> [rn |-> n + i, kind |-> kind, id |-> ids[i]]]
  BY DEF Requests
<1>4. r \in Seq(Request) /\ Len(r) = Len(ids) /\ DOMAIN r = 1 .. Len(ids)
  BY <1>1, <1>2, <1>3
<1>5. \A i \in 1 .. Len(ids) : r[i] = [rn |-> n + i, kind |-> kind, id |-> ids[i]]
  BY <1>3
<1> HIDE DEF r
<1>6. \A i \in 1 .. Len(ids) : r[i].kind = kind /\ r[i].id = ids[i]
  <2> TAKE i \in 1 .. Len(ids)
  <2>1. r[i] = [rn |-> n + i, kind |-> kind, id |-> ids[i]]
    BY <1>5
  <2> QED BY ONLY <2>1
<1>7. /\ kind = "put" => Puts(r) = ToSet(ids)
      /\ kind = "listen" => Puts(r) = {}
  BY <1>1, <1>4, <1>6 DEF Puts, ToSet
<1>8. kind = "listen" => Ascending(r)
  BY <1>4, <1>6 DEF Ascending
<1>9. (\A i, j \in DOMAIN ids : i < j => ids[i] < ids[j]) => Ascending(r)
  BY <1>1, <1>4, <1>6 DEF Ascending
<1> QED BY <1>4, <1>5, <1>7, <1>8, <1>9 DEF r

LEMMA SendTypes ==
    ASSUME NEW n \in Nat, NEW callbacks \in SUBSET Nat, NEW wire \in Seq(Request),
           NEW reqs \in Seq(Request), Send(n, callbacks, wire, reqs)
    PROVE  /\ requestNumber' \in Nat /\ requestNumber' = n + Len(reqs)
           /\ requestCBHash' \in SUBSET Nat
           /\ uplink' \in Seq(Request) /\ uplink' = wire \o reqs
           /\ Puts(uplink') = Puts(wire) \union Puts(reqs)
           /\ Ascending(wire) /\ Ascending(reqs) /\ Below(Puts(wire), Puts(reqs))
              => Ascending(uplink')
<1>1. Len(reqs) \in Nat /\ DOMAIN reqs = 1 .. Len(reqs)
  BY LenProperties
<1>2. requestNumber' = n + Len(reqs) /\ uplink' = wire \o reqs
      /\ requestCBHash' = callbacks \union {reqs[i].rn : i \in DOMAIN reqs}
  BY DEF Send
<1>3. \A i \in DOMAIN reqs : reqs[i].rn \in Nat
  <2> TAKE i \in DOMAIN reqs
  <2>1. reqs[i] \in Request
    BY RequestMembers
  <2> QED BY ONLY <2>1 DEF Request
<1>4. /\ wire \o reqs \in Seq(Request)
      /\ Puts(wire \o reqs) = Puts(wire) \union Puts(reqs)
      /\ Ascending(wire) /\ Ascending(reqs) /\ Below(Puts(wire), Puts(reqs))
         => Ascending(wire \o reqs)
  BY PutsConcat, Zenon
<1>5. requestNumber' \in Nat /\ requestCBHash' \in SUBSET Nat
  <2> DEFINE rns == {reqs[i].rn : i \in DOMAIN reqs}
  <2>1. rns \in SUBSET Nat
    BY <1>3, Zenon
  <2>2. requestCBHash' = callbacks \union rns
    BY <1>2
  <2> HIDE DEF rns
  <2>3. requestNumber' \in Nat
    BY <1>1, <1>2
  <2> QED BY <2>1, <2>2, <2>3
<1>6. uplink' = wire \o reqs /\ requestNumber' = n + Len(reqs)
  BY <1>2
<1> QED BY <1>4, <1>5, <1>6, Zenon

\* A put for one write, as SetValue sends it, or one listen.
LEMMA OneRequest ==
    ASSUME NEW n \in Nat, NEW kind \in {"put", "listen"}, NEW w \in Nat
    PROVE  /\ Requests(n, kind, <<w>>) \in Seq(Request)
           /\ Len(Requests(n, kind, <<w>>)) = 1
           /\ Requests(n, kind, <<w>>)[1] = [rn |-> n + 1, kind |-> kind, id |-> w]
           /\ kind = "put" => Puts(Requests(n, kind, <<w>>)) = {w}
           /\ kind = "listen" => Puts(Requests(n, kind, <<w>>)) = {}
           /\ Ascending(Requests(n, kind, <<w>>))
<1>1. <<w>> \in Seq(Nat) /\ Len(<<w>>) = 1 /\ DOMAIN <<w>> = {1} /\ <<w>>[1] = w
  OBVIOUS
<1>2. ToSet(<<w>>) = {w}
  BY <1>1 DEF ToSet
<1>3. \A i, j \in DOMAIN <<w>> : i < j => <<w>>[i] < <<w>>[j]
  BY <1>1
<1> HIDE DEF Requests
<1>4. 1 \in 1 .. Len(<<w>>)
  BY <1>1
<1>5. /\ Requests(n, kind, <<w>>) \in Seq(Request)
      /\ Len(Requests(n, kind, <<w>>)) = Len(<<w>>)
      /\ Requests(n, kind, <<w>>)[1] = [rn |-> n + 1, kind |-> kind, id |-> <<w>>[1]]
      /\ kind = "put" => Puts(Requests(n, kind, <<w>>)) = ToSet(<<w>>)
      /\ kind = "listen" => Puts(Requests(n, kind, <<w>>)) = {}
      /\ Ascending(Requests(n, kind, <<w>>))
  <2> DEFINE ids == <<w>>
  <2> HIDE DEF ids
  <2>1. ids \in Seq(Nat) /\ 1 \in 1 .. Len(ids)
        /\ \A i, j \in DOMAIN ids : i < j => ids[i] < ids[j]
    BY <1>1, <1>3, <1>4 DEF ids
  <2>2. /\ Requests(n, kind, ids) \in Seq(Request)
        /\ Len(Requests(n, kind, ids)) = Len(ids)
        /\ Requests(n, kind, ids)[1] = [rn |-> n + 1, kind |-> kind, id |-> ids[1]]
        /\ kind = "put" => Puts(Requests(n, kind, ids)) = ToSet(ids)
        /\ kind = "listen" => Puts(Requests(n, kind, ids)) = {}
        /\ Ascending(Requests(n, kind, ids))
    <3> DEFINE r == Requests(n, kind, ids)
    <3>1. r \in Seq(Request)
      BY <2>1, RequestsOfOneKind, Zenon
    <3>6. Len(r) = Len(ids)
      BY <2>1, LenProperties DEF Requests
    <3>4. kind = "put" => Puts(r) = ToSet(ids)
      BY <2>1, RequestsOfOneKind, Zenon
    <3>5. kind = "listen" => Puts(r) = {}
      BY <2>1, RequestsOfOneKind, Zenon
    <3>2. Ascending(r)
      BY <2>1, RequestsOfOneKind, Zenon
    <3>3. r[1] = [rn |-> n + 1, kind |-> kind, id |-> ids[1]]
      BY <2>1 DEF Requests
    <3> QED BY <3>1, <3>2, <3>3, <3>4, <3>5, <3>6, Zenon
  <2> QED BY <2>2 DEF ids
<1> QED BY <1>1, <1>2, <1>5

LEMMA Restored ==
    ASSUME NEW n \in Nat, NEW callbacks \in SUBSET Nat, NEW wire \in Seq(Request),
           Puts(wire) = {}, Ascending(wire),
           listens \in SUBSET Nat, IsFiniteSet(listens),
           outstandingPuts \in SUBSET Nat, IsFiniteSet(outstandingPuts),
           unackedListensCount \in Int, RestoreState(n, callbacks, wire)
    PROVE  /\ requestNumber' \in Nat /\ requestCBHash' \in SUBSET Nat
           /\ uplink' \in Seq(Request)
           /\ unackedListensCount' = unackedListensCount + Cardinality(listens)
           /\ Puts(uplink') = outstandingPuts
           /\ Ascending(uplink')
           /\ \E ls, ps \in Seq(Nat) :
                 /\ Len(ls) = Cardinality(listens)
                 /\ Send(n, callbacks, wire,
                         Requests(n, "listen", ls) \o Requests(n + Len(ls), "put", ps))
<1>1. PICK ls \in SetToSeqs(listens), ps \in InOrder(outstandingPuts) :
        /\ Send(n, callbacks, wire,
                Requests(n, "listen", ls) \o Requests(n + Len(ls), "put", ps))
        /\ unackedListensCount' = unackedListensCount + Len(ls)
  BY DEF RestoreState
<1>2. ls \in Seq(listens) /\ Len(ls) = Cardinality(listens)
  BY SeqOfSet
<1>3. ls \in Seq(Nat)
  BY <1>2, SeqMonotonic
<1>4. ps \in SetToSeqs(outstandingPuts) /\ \A i, j \in DOMAIN ps : i < j => ps[i] < ps[j]
  BY DEF InOrder
<1>5. ps \in Seq(outstandingPuts) /\ ToSet(ps) = outstandingPuts
  BY <1>4, SeqOfSet
<1>6. ps \in Seq(Nat)
  BY <1>5, SeqMonotonic
<1> DEFINE L == Requests(n, "listen", ls)
           P == Requests(n + Len(ls), "put", ps)
<1> HIDE DEF L, P
<1>7. L \in Seq(Request) /\ Puts(L) = {} /\ Ascending(L)
  BY <1>3, RequestsOfOneKind DEF L
<1>8. n + Len(ls) \in Nat
  BY <1>3, LenProperties
<1>9. P \in Seq(Request) /\ Puts(P) = outstandingPuts /\ Ascending(P)
  BY <1>4, <1>5, <1>6, <1>8, RequestsOfOneKind DEF P
<1>10. Below(Puts(L), Puts(P))
  BY <1>7 DEF Below
<1>11. L \o P \in Seq(Request) /\ Puts(L \o P) = outstandingPuts /\ Ascending(L \o P)
  <2>1. /\ L \o P \in Seq(Request) /\ Ascending(L \o P)
        /\ Puts(L \o P) = Puts(L) \union Puts(P)
    BY <1>7, <1>9, <1>10, PutsConcat, Zenon
  <2> QED BY <1>7, <1>9, <2>1
<1>12. Send(n, callbacks, wire, L \o P)
  BY <1>1 DEF L, P
<1>13. Below(Puts(wire), Puts(L \o P))
  BY DEF Below
<1>14. requestNumber' \in Nat /\ requestCBHash' \in SUBSET Nat /\ uplink' \in Seq(Request)
       /\ Puts(uplink') = outstandingPuts /\ Ascending(uplink')
  <2> DEFINE R == L \o P
  <2> HIDE DEF R
  <2>1. /\ requestNumber' \in Nat /\ requestCBHash' \in SUBSET Nat
        /\ uplink' \in Seq(Request) /\ Ascending(uplink')
        /\ Puts(uplink') = Puts(wire) \union Puts(R)
    <3>1. R \in Seq(Request) /\ Send(n, callbacks, wire, R) /\ Ascending(R)
          /\ Below(Puts(wire), Puts(R))
      BY <1>11, <1>12, <1>13 DEF R
    <3> QED BY <3>1, SendTypes, Zenon
  <2> QED BY <1>11, <2>1 DEF R
<1> QED BY <1>1, <1>2, <1>3, <1>6, <1>14

-----------------------------------------------------------------------------
(* The inductive invariant, in the layers in which it is proved.           *)

\* TypeOK, in which unackedListensCount is only known to be an integer.
WriteTypes ==
    /\ issued \in Seq(Footprints)
    /\ allWrites \in SUBSET Issued
    /\ outstandingPuts \in SUBSET Issued
    /\ putsToAck \in Seq(Issued)
    /\ record \in [Leaves -> Nat]
    /\ settled \in SUBSET Issued
    /\ completed \in Seq(Issued)
    /\ raised \in BOOLEAN

SessionTypes ==
    /\ listened \in Nat
    /\ listens \in SUBSET (1 .. listened)
    /\ unackedListensCount \in Int
    /\ requestNumber \in Nat
    /\ requestCBHash \in SUBSET Nat
    /\ uplink \in Seq(Request)
    /\ listening \in SUBSET Request
    /\ answers \in Seq(Request)

QueueTypes == ConnectionInv /\ WriteTypes /\ SessionTypes

\* In every session puts are sent in the order of the writes, each once; and
\* all that are outstanding are sent when the state is restored.
WireInv ==
    /\ Sent \subseteq Issued
    /\ Ascending(answers) /\ Ascending(uplink)
    /\ Below(Puts(answers), Puts(uplink))
    /\ \A m \in listening : m.kind = "listen"
    /\ realtime # "connected" => answers = <<>> /\ listening = {}
    /\ connectionState = "Authenticating" => Sent = {}
    /\ canSendWrites => outstandingPuts \subseteq Sent

\* Whatever can still reach the server, or still be settled, is newer than
\* every settled write; what the server has answered it has stored.
SettledInv ==
    /\ Below(settled, Sent \union outstandingPuts)
    /\ \A w \in settled \union Puts(answers) : \A l \in Stores(w) : record[l] >= w
    /\ \A l \in Leaves :
          record[l] = 0 \/ (record[l] \in Issued /\ l \in Stores(record[l]))

\* A write is outstanding, parked or completed, never two of them.
CompletionInv ==
    /\ Distinct(completed) /\ Distinct(putsToAck)
    /\ ToSet(completed) \cap ToSet(putsToAck) = {}
    /\ ToSet(completed) \cap outstandingPuts = {}
    /\ ToSet(putsToAck) \cap outstandingPuts = {}
    /\ ToSet(putsToAck) \subseteq settled
    /\ PendingIsOutstanding

QueueInv == QueueTypes /\ WireInv /\ SettledInv /\ CompletionInv

\* Listens whose answer is awaited.
Wire == ToSet(answers) \union ToSet(uplink) \union listening
ListenNumbers(W) == {m.rn : m \in {r \in W : r.kind = "listen"}}
Awaited == ListenNumbers(Wire) \cap requestCBHash

CountInv ==
    /\ unackedListensCount = Cardinality(Awaited)
    /\ \A m, r \in Wire : m.rn = r.rn => m.kind = r.kind
    /\ realtime = "connected" => \A m \in Wire : m.rn =< requestNumber
    /\ realtime # "connected" => requestCBHash = {} /\ requestNumber = 0
    /\ \A n \in requestCBHash : n =< requestNumber

\* The app registers no listen: no put is parked, completions are in order.
NoListens ==
    MaxListens = 0 =>
        /\ listened = 0 /\ unackedListensCount = 0 /\ putsToAck = <<>>
        /\ \A m \in Wire : m.kind = "put"
        /\ \A i, j \in DOMAIN completed : i < j => completed[i] < completed[j]
        /\ Below(ToSet(completed), outstandingPuts)

-----------------------------------------------------------------------------
(* Types.                                                                  *)

LEMMA FiniteIssued ==
    ASSUME WriteTypes, SessionTypes
    PROVE  /\ Issued = 1 .. Len(issued) /\ Len(issued) \in Nat /\ IsFiniteSet(Issued)
           /\ outstandingPuts \in SUBSET Nat /\ IsFiniteSet(outstandingPuts)
           /\ listens \in SUBSET Nat /\ IsFiniteSet(listens)
<1>1. Issued = 1 .. Len(issued) /\ Len(issued) \in Nat
  BY LenProperties DEF WriteTypes, Issued
<1>2. IsFiniteSet(1 .. Len(issued)) /\ IsFiniteSet(1 .. listened)
  BY <1>1, FS_Interval DEF SessionTypes
<1>3. IsFiniteSet(outstandingPuts)
  BY <1>1, <1>2, FS_Subset DEF WriteTypes
<1>4. IsFiniteSet(listens)
  BY <1>2, FS_Subset DEF SessionTypes
<1>5. outstandingPuts \in SUBSET Nat /\ listens \in SUBSET Nat
  BY <1>1 DEF WriteTypes, SessionTypes
<1> QED BY <1>1, <1>2, <1>3, <1>4, <1>5

\* The new write has a number above all others.
LEMMA Issuing ==
    ASSUME WriteTypes, SessionTypes, NEW footprint \in Footprints,
           issued' = Append(issued, footprint)
    PROVE  /\ Len(issued) + 1 \in Nat \ {0}
           /\ issued' \in Seq(Footprints)
           /\ Issued' = Issued \union {Len(issued) + 1}
           /\ Below(Issued, {Len(issued) + 1})
           /\ \A w \in Issued : Stores(w)' = Stores(w)
<1>1. Issued = 1 .. Len(issued) /\ Len(issued) \in Nat
  BY FiniteIssued
<1>2. /\ issued' \in Seq(Footprints) /\ DOMAIN issued' = 1 .. Len(issued) + 1
      /\ \A w \in 1 .. Len(issued) : issued'[w] = issued[w]
  BY <1>1, AppendProperties, LenProperties DEF WriteTypes
<1>3. \A w \in Issued : Stores(w)' = Stores(w)
  BY <1>1, <1>2 DEF Stores
<1>4. Issued' = 1 .. Len(issued) + 1
  BY <1>2 DEF Issued
<1>5. Below(Issued, {Len(issued) + 1})
  BY <1>1 DEF Below
<1> QED BY <1>1, <1>2, <1>3, <1>4, <1>5

LEMMA WriteTypesUnchanged ==
    ASSUME WriteTypes, UNCHANGED <<writeVars, record, outcomeVars>>
    PROVE  WriteTypes' /\ UNCHANGED Issued /\ \A w : UNCHANGED Stores(w)
BY DEF WriteTypes, writeVars, outcomeVars, Issued, Stores

LEMMA CompleteTypes ==
    ASSUME WriteTypes, NEW ws \in Seq(Issued), Complete(ws)
    PROVE  /\ allWrites' \in SUBSET Issued /\ completed' \in Seq(Issued) /\ raised' \in BOOLEAN
           /\ completed' = completed \o ws
<1>1. completed \o ws \in Seq(Issued)
  BY ConcatProperties DEF WriteTypes
<1> QED BY <1>1 DEF Complete, WriteTypes

\* The answer at the front.
LEMMA AnsweredTypes ==
    ASSUME SessionTypes, NEW kind, Answered(kind)
    PROVE  /\ answers # <<>> /\ Head(answers) \in Request /\ Head(answers).kind = kind
           /\ answers' = Tail(answers) /\ answers' \in Seq(Request)
           /\ requestCBHash' = requestCBHash \ {Head(answers).rn}
           /\ requestCBHash' \in SUBSET Nat
<1>1. answers # <<>> /\ answers \in Seq(Request)
  BY DEF Answered, SessionTypes
<1>2. Head(answers) \in Request /\ Tail(answers) \in Seq(Request)
  BY <1>1, PutsTail
<1> QED BY <1>1, <1>2 DEF Answered, SessionTypes

LEMMA FrontPut ==
    ASSUME SessionTypes, WireInv, Answered("put")
    PROVE  Head(answers).id \in Issued
<1>1. answers # <<>> /\ answers \in Seq(Request) /\ Head(answers).kind = "put"
  BY DEF Answered, SessionTypes
<1>2. Head(answers).id \in Puts(answers)
  BY <1>1, PutsTail
<1> QED BY <1>2 DEF WireInv, Sent

LEMMA StoredTypes ==
    ASSUME WriteTypes, NEW w \in Issued, record' = Stored(w)
    PROVE  /\ record' \in [Leaves -> Nat]
           /\ \A l \in Leaves : record'[l] = IF l \in Stores(w) THEN w ELSE record[l]
<1>1. w \in Nat
  BY LenProperties DEF WriteTypes, Issued
<1> QED BY <1>1 DEF Stored, WriteTypes

LEMMA WriteTypesStep ==
    ASSUME QueueTypes, WireInv, [Next]_vars
    PROVE  WriteTypes'
<1> USE DEF QueueTypes
<1>1. ASSUME NEW footprint \in Footprints, SetValue(footprint)
      PROVE  WriteTypes'
  <2>1. issued' = Append(issued, footprint)
    BY <1>1 DEF SetValue
  <2>2. issued' \in Seq(Footprints) /\ Issued' = Issued \union {Len(issued) + 1}
    BY <2>1, Issuing
  <2>3. putsToAck \in Seq(Issued') /\ completed \in Seq(Issued')
    BY <2>2, SeqMonotonic DEF WriteTypes
  <2>4. /\ allWrites' = allWrites \union {Len(issued) + 1}
        /\ outstandingPuts' = outstandingPuts \union {Len(issued) + 1}
        /\ UNCHANGED <<putsToAck, record, outcomeVars>>
    BY <1>1 DEF SetValue
  <2> QED BY <2>2, <2>3, <2>4 DEF WriteTypes, outcomeVars
<1>2. CASE \/ Listen
           \/ \E l \in listens : Unlisten(l)
           \/ ConnectionStep \/ OnReady \/ OnAuthenticated \/ OnDisconnect
           \/ ReceiveListen
           \/ \E m \in listening : AnswerListen(m)
           \/ UNCHANGED vars
  <2>1. UNCHANGED <<writeVars, record, outcomeVars>>
    BY <1>2 DEF Listen, Unlisten, ConnectionStep, OnReady, OnAuthenticated, OnDisconnect,
                ReceiveListen, AnswerListen, vars, queueVars
  <2> QED BY <2>1, WriteTypesUnchanged
<1>3. CASE PurgeOutstandingWrites
  <2>1. UNCHANGED <<issued, putsToAck, record, settled>> /\ allWrites' = {}
    BY <1>3 DEF PurgeOutstandingWrites
  <2>2. /\ outstandingPuts' \in SUBSET Issued /\ raised' \in BOOLEAN
        /\ completed' \in Seq(Issued)
    <3>1. CASE putsToAck = <<>>
      <4>1. PICK ps \in InOrder(outstandingPuts) : completed' = completed \o ps
        BY <1>3, <3>1 DEF PurgeOutstandingWrites
      <4>2. ps \in Seq(outstandingPuts)
        BY SeqOfSet, FiniteIssued DEF InOrder
      <4>3. ps \in Seq(Issued)
        BY <4>2, SeqMonotonic DEF WriteTypes
      <4>4. completed' \in Seq(Issued)
        BY <4>1, <4>3, ConcatProperties DEF WriteTypes
      <4> QED BY <1>3, <3>1, <4>4 DEF PurgeOutstandingWrites, WriteTypes
    <3>2. CASE putsToAck # <<>>
      BY <1>3, <3>2 DEF PurgeOutstandingWrites, WriteTypes
    <3> QED BY <3>1, <3>2
  <2> QED BY <2>1, <2>2 DEF WriteTypes, Issued
<1>4. CASE PutAnswered
  <2> DEFINE w == Head(answers).id
  <2>1. w \in Issued
    BY <1>4, FrontPut DEF PutAnswered
  <2>2. UNCHANGED <<issued, record>> /\ outstandingPuts' = outstandingPuts \ {w}
    BY <1>4 DEF PutAnswered
  <2> HIDE DEF w
  <2>3. <<w>> \in Seq(Issued) /\ Append(putsToAck, w) \in Seq(Issued)
    BY <2>1, AppendProperties DEF WriteTypes
  <2>4. \/ settled' = settled \union {w} /\ Complete(<<w>>) /\ UNCHANGED putsToAck
        \/ /\ settled' = settled \union {w} /\ putsToAck' = Append(putsToAck, w)
           /\ UNCHANGED <<allWrites, completed, raised>>
        \/ UNCHANGED <<allWrites, putsToAck, settled, completed, raised>>
    BY <1>4 DEF PutAnswered, outcomeVars, w
  <2>5. allWrites' \in SUBSET Issued /\ completed' \in Seq(Issued) /\ raised' \in BOOLEAN
    BY <2>3, <2>4, CompleteTypes DEF WriteTypes
  <2>6. settled' \in SUBSET Issued /\ putsToAck' \in Seq(Issued)
    BY <2>1, <2>3, <2>4 DEF WriteTypes
  <2> QED BY <2>2, <2>5, <2>6 DEF WriteTypes, Issued
<1>5. ASSUME NEW ok \in BOOLEAN, ListenAnswered(ok)
      PROVE  WriteTypes'
  <2>1. UNCHANGED <<issued, outstandingPuts, record, settled>>
    BY <1>5 DEF ListenAnswered
  <2>2. \/ Complete(putsToAck) /\ putsToAck' = <<>>
        \/ UNCHANGED <<allWrites, putsToAck, completed, raised>>
    BY <1>5 DEF ListenAnswered
  <2>3. putsToAck \in Seq(Issued) /\ <<>> \in Seq(Issued)
    BY EmptySeq DEF WriteTypes
  <2>4. /\ allWrites' \in SUBSET Issued /\ completed' \in Seq(Issued) /\ raised' \in BOOLEAN
    BY <2>2, <2>3, CompleteTypes DEF WriteTypes
  <2>5. putsToAck' \in Seq(Issued)
    BY <2>2, <2>3
  <2> QED BY <2>1, <2>4, <2>5 DEF WriteTypes, Issued
<1>6. CASE ReceivePut
  <2>1. Head(uplink).id \in Issued
    <3>1. uplink # <<>> /\ uplink \in Seq(Request) /\ Head(uplink).kind = "put"
      BY <1>6 DEF ReceivePut, SessionTypes
    <3>2. Head(uplink).id \in Puts(uplink)
      BY <3>1, PutsTail
    <3> QED BY <3>2 DEF WireInv, Sent
  <2>2. record' = Stored(Head(uplink).id) /\ UNCHANGED <<writeVars, outcomeVars>>
    BY <1>6 DEF ReceivePut
  <2>3. record' \in [Leaves -> Nat]
    BY <2>1, <2>2, StoredTypes
  <2> QED BY <2>2, <2>3 DEF WriteTypes, writeVars, outcomeVars, Issued
<1>7. CASE Restart
  <2>1. <<>> \in Seq(Issued)
    BY EmptySeq
  <2>2. /\ allWrites' = {} /\ outstandingPuts' = {} /\ putsToAck' = <<>> /\ raised' = FALSE
        /\ UNCHANGED <<issued, record, settled, completed>>
    BY <1>7 DEF Restart
  <2> QED BY <2>1, <2>2 DEF WriteTypes, Issued
<1> QED BY <1>1, <1>2, <1>3, <1>4, <1>5, <1>6, <1>7 DEF Next, Client, Server

-----------------------------------------------------------------------------
(* The requests of a session.                                              *)

LEMMA NoPuts == Puts(<<>>) = {} /\ Ascending(<<>>) /\ <<>> \in Seq(Request)
BY DEF Puts, Ascending

\* Steps that touch neither the connection nor the requests.
LEMMA WireUnchanged ==
    ASSUME SessionTypes, WireInv, UNCHANGED connectionVars,
           UNCHANGED <<listenVars, sessionVars, uplink>>,
           Issued \subseteq Issued', outstandingPuts' \subseteq outstandingPuts
    PROVE  SessionTypes' /\ WireInv' /\ UNCHANGED Sent /\ Puts(answers') = Puts(answers)
<1>1. /\ UNCHANGED <<answers, uplink, listening, requestNumber, requestCBHash>>
      /\ UNCHANGED <<listened, listens, unackedListensCount, realtime, connectionState>>
  BY DEF connectionVars, sessionVars, listenVars
<1>2. UNCHANGED Sent
  BY <1>1 DEF Sent
<1>3. SessionTypes'
  BY <1>1 DEF SessionTypes
<1>4. WireInv'
  BY <1>1, <1>2 DEF WireInv, canSendWrites
<1> QED BY <1>1, <1>2, <1>3, <1>4

LEMMA SetValueWire ==
    ASSUME QueueTypes, WireInv, NEW footprint \in Footprints, SetValue(footprint)
    PROVE  /\ SessionTypes' /\ WireInv'
           /\ Sent' \subseteq Sent \union {Len(issued) + 1} /\ Puts(answers') = Puts(answers)
<1> DEFINE w == Len(issued) + 1
<1>1. /\ w \in Nat /\ Issued' = Issued \union {w} /\ Below(Issued, {w})
  BY Issuing DEF SetValue, QueueTypes
<1>2. /\ UNCHANGED <<connectionState, realtime, answers, listening>>
      /\ UNCHANGED <<listened, listens, unackedListensCount>>
      /\ outstandingPuts' = outstandingPuts \union {w}
  BY DEF SetValue, connectionVars, listenVars
<1>3. CASE canSendWrites
  <2> DEFINE reqs == Requests(requestNumber, "put", <<w>>)
  <2>1. reqs \in Seq(Request) /\ Puts(reqs) = {w} /\ Ascending(reqs)
    BY <1>1, OneRequest DEF QueueTypes, SessionTypes
  <2>2. Send(requestNumber, requestCBHash, uplink, reqs)
    BY <1>3 DEF SetValue
  <2> HIDE DEF reqs, w
  <2>3. Puts(uplink) \subseteq Issued /\ Puts(answers) \subseteq Issued
    BY DEF WireInv, Sent
  <2>4. Below(Puts(uplink), Puts(reqs))
    BY <1>1, <2>1, <2>3 DEF Below
  <2>5. /\ requestNumber' \in Nat /\ requestCBHash' \in SUBSET Nat
        /\ uplink' \in Seq(Request) /\ Ascending(uplink')
        /\ Puts(uplink') = Puts(uplink) \union {w}
    <3>1. /\ requestNumber \in Nat /\ requestCBHash \in SUBSET Nat
          /\ uplink \in Seq(Request) /\ Ascending(uplink)
      BY DEF QueueTypes, SessionTypes, WireInv
    <3>2. /\ requestNumber' \in Nat /\ requestCBHash' \in SUBSET Nat
          /\ uplink' \in Seq(Request) /\ Ascending(uplink')
          /\ Puts(uplink') = Puts(uplink) \union Puts(reqs)
      BY <2>1, <2>2, <2>4, <3>1, SendTypes, Zenon
    <3> QED BY <2>1, <3>2
  <2>6. SessionTypes'
    BY <1>2, <2>5 DEF QueueTypes, SessionTypes
  <2>7. Sent' = Sent \union {w}
    BY <1>2, <2>5 DEF Sent
  <2>8. Below(Puts(answers'), Puts(uplink'))
    BY <1>1, <1>2, <2>3, <2>5 DEF WireInv, Below
  <2> QED BY <1>1, <1>2, <1>3, <2>5, <2>6, <2>7, <2>8 DEF WireInv, canSendWrites, w
<1>4. CASE ~canSendWrites
  <2> HIDE DEF w
  <2>1. UNCHANGED <<requestNumber, requestCBHash, uplink>>
    BY <1>4 DEF SetValue
  <2>2. UNCHANGED Sent
    BY <1>2, <2>1 DEF Sent
  <2>3. SessionTypes'
    BY <1>2, <2>1 DEF QueueTypes, SessionTypes
  <2> QED BY <1>1, <1>2, <1>4, <2>1, <2>2, <2>3 DEF WireInv, canSendWrites, w
<1> QED BY <1>3, <1>4

LEMMA ListenWire ==
    ASSUME QueueTypes, WireInv, Listen
    PROVE  SessionTypes' /\ WireInv' /\ UNCHANGED Sent /\ Puts(answers') = Puts(answers)
<1> DEFINE l == listened + 1
<1>1. /\ UNCHANGED <<connectionState, realtime, answers, listening, issued, outstandingPuts>>
      /\ listened' = l /\ listens' = listens \union {l}
  BY DEF Listen, connectionVars, writeVars
<1>2. listened' \in Nat /\ listens' \in SUBSET (1 .. listened') /\ l \in Nat
  BY <1>1 DEF QueueTypes, SessionTypes
<1>3. /\ requestNumber' \in Nat /\ requestCBHash' \in SUBSET Nat /\ unackedListensCount' \in Int
      /\ uplink' \in Seq(Request) /\ Ascending(uplink') /\ Puts(uplink') = Puts(uplink)
  <2>1. /\ requestNumber \in Nat /\ requestCBHash \in SUBSET Nat /\ unackedListensCount \in Int
        /\ uplink \in Seq(Request) /\ Ascending(uplink)
    BY DEF QueueTypes, SessionTypes, WireInv
  <2>2. CASE connected
    <3> DEFINE reqs == Requests(requestNumber, "listen", <<l>>)
    <3>1. reqs \in Seq(Request) /\ Puts(reqs) = {} /\ Ascending(reqs)
      BY <1>2, <2>1, OneRequest
    <3>2. Send(requestNumber, requestCBHash, uplink, reqs)
          /\ unackedListensCount' = unackedListensCount + 1
      BY <2>2 DEF Listen
    <3> HIDE DEF reqs, l
    <3>3. Below(Puts(uplink), Puts(reqs))
      BY <3>1 DEF Below
    <3>4. /\ requestNumber' \in Nat /\ requestCBHash' \in SUBSET Nat
          /\ uplink' \in Seq(Request) /\ Ascending(uplink')
          /\ Puts(uplink') = Puts(uplink) \union Puts(reqs)
      BY <2>1, <3>1, <3>2, <3>3, SendTypes, Zenon
    <3> QED BY <2>1, <3>1, <3>2, <3>4
  <2>3. CASE ~connected
    BY <2>1, <2>3 DEF Listen
  <2> QED BY <2>2, <2>3
<1> HIDE DEF l
<1>4. UNCHANGED Sent /\ UNCHANGED Issued
  BY <1>1, <1>3 DEF Sent, Issued
<1>5. SessionTypes'
  BY <1>1, <1>2, <1>3 DEF QueueTypes, SessionTypes
<1>6. WireInv'
  BY <1>1, <1>3, <1>4 DEF WireInv, canSendWrites
<1> QED BY <1>1, <1>4, <1>5, <1>6

LEMMA ConnectionStepWire ==
    ASSUME QueueTypes, WireInv, ConnectionStep, ConnectionInv'
    PROVE  SessionTypes' /\ WireInv' /\ UNCHANGED Sent /\ Puts(answers') = Puts(answers)
<1>1. /\ UNCHANGED <<answers, uplink, listening, requestNumber, requestCBHash>>
      /\ UNCHANGED <<listened, listens, unackedListensCount, outstandingPuts, issued>>
  BY DEF ConnectionStep, queueVars, sessionVars, listenVars, writeVars
<1>2. /\ realtime' = "connected" <=> realtime = "connected"
      /\ connectionState' = "Authenticating" <=> connectionState = "Authenticating"
      /\ canSendWrites' <=> canSendWrites
  BY DEF ConnectionStep, Quiet, Open, GoOnline, Resume, Retry, OpenConnection, TokenFailed,
         StaleTokenFetched, BecameReachable, TokenFetched, RefreshAuthToken, canSendWrites,
         QueueTypes, ConnectionInv, SocketMatchesState, FetchingOffline,
         RetriesFromDisconnected, connected
<1>3. UNCHANGED Sent /\ UNCHANGED Issued
  BY <1>1 DEF Sent, Issued
<1>4. SessionTypes'
  BY <1>1 DEF QueueTypes, SessionTypes
<1>5. WireInv'
  BY <1>1, <1>2, <1>3 DEF WireInv
<1> QED BY <1>1, <1>3, <1>4, <1>5

\* A session that has just restored its state.
LEMMA RestoredWire ==
    ASSUME WriteTypes, SessionTypes, NEW n \in Nat, NEW callbacks \in SUBSET Nat,
           NEW wire \in Seq(Request), Puts(wire) = {}, Ascending(wire), Puts(answers) = {},
           RestoreState(n, callbacks, wire), realtime' = "connected",
           connectionState' = "Connected",
           UNCHANGED <<writeVars, listened, listens, listening, answers>>,
           \A m \in listening : m.kind = "listen", Ascending(answers)
    PROVE  SessionTypes' /\ WireInv' /\ Sent' = outstandingPuts
<1>1. /\ outstandingPuts \in SUBSET Nat /\ IsFiniteSet(outstandingPuts)
      /\ listens \in SUBSET Nat /\ IsFiniteSet(listens) /\ unackedListensCount \in Int
  BY FiniteIssued DEF SessionTypes
<1>2. /\ requestNumber' \in Nat /\ requestCBHash' \in SUBSET Nat
      /\ uplink' \in Seq(Request) /\ Puts(uplink') = outstandingPuts /\ Ascending(uplink')
      /\ unackedListensCount' = unackedListensCount + Cardinality(listens)
  BY <1>1, Restored, Zenon
<1>3. unackedListensCount' \in Int
  BY <1>1, <1>2, FS_CardinalityType
<1>4. /\ UNCHANGED <<issued, outstandingPuts, listened, listens, listening, answers>>
      /\ UNCHANGED Issued
  BY DEF writeVars, Issued
<1>5. Sent' = outstandingPuts
  BY <1>2, <1>4 DEF Sent
<1>6. SessionTypes'
  BY <1>2, <1>3, <1>4 DEF SessionTypes
<1>7. Below(Puts(answers'), Puts(uplink'))
  BY <1>4 DEF Below
<1>8. outstandingPuts \subseteq Issued
  BY DEF WriteTypes
<1>9. WireInv'
  BY <1>2, <1>4, <1>5, <1>7, <1>8 DEF WireInv
<1> QED BY <1>5, <1>6, <1>9

LEMMA OnReadyWire ==
    ASSUME QueueTypes, WireInv, OnReady
    PROVE  /\ SessionTypes' /\ WireInv'
           /\ Sent' \subseteq outstandingPuts /\ answers' = <<>>
<1>1. /\ realtime = "connecting" /\ realtime' = "connected"
      /\ connectionState' \in {"Authenticating", "Connected"}
      /\ UNCHANGED <<writeVars, listened, listens, listening, answers>>
  BY DEF OnReady, Handshake
<1>2. answers = <<>> /\ listening = {}
  BY <1>1 DEF WireInv
<1>3. CASE connectionState' = "Connected"
  <2>1. RestoreState(0, {}, <<>>)
    BY <1>3 DEF OnReady
  <2>2. Puts(answers) = {} /\ Ascending(answers)
    BY <1>2, NoPuts
  <2>3. 0 \in Nat /\ {} \in SUBSET Nat
    OBVIOUS
  <2>4. SessionTypes' /\ WireInv' /\ Sent' = outstandingPuts
    BY <1>1, <1>2, <1>3, <2>1, <2>2, <2>3, NoPuts, RestoredWire DEF QueueTypes
  <2> QED BY <1>1, <1>2, <2>4
<1>4. CASE connectionState' = "Authenticating"
  <2>1. uplink' = <<>> /\ UNCHANGED <<requestNumber, requestCBHash, unackedListensCount>>
    BY <1>4 DEF OnReady
  <2>2. UNCHANGED <<issued, outstandingPuts, listened, listens, listening, answers>>
        /\ UNCHANGED Issued
    BY <1>1 DEF writeVars, Issued
  <2>3. Sent' = {} /\ Puts(answers') = {} /\ Ascending(answers') /\ Ascending(uplink')
    BY <1>2, <2>1, <2>2, NoPuts DEF Sent
  <2>4. SessionTypes'
    BY <2>1, <2>2, NoPuts DEF QueueTypes, SessionTypes
  <2>5. Below(Puts(answers'), Puts(uplink'))
    BY <2>3 DEF Below
  <2>6. WireInv'
    BY <1>1, <1>2, <1>4, <2>2, <2>3, <2>5 DEF WireInv, canSendWrites
  <2> QED BY <1>1, <1>2, <2>3, <2>4, <2>6
<1> QED BY <1>1, <1>3, <1>4

LEMMA OnAuthenticatedWire ==
    ASSUME QueueTypes, WireInv, OnAuthenticated
    PROVE  /\ SessionTypes' /\ WireInv'
           /\ Sent' \subseteq Sent \union outstandingPuts
           /\ Puts(answers') = Puts(answers)
<1>1. /\ pendingAuths # <<>> /\ connectionState' = "Connected" /\ UNCHANGED realtime
      /\ realtime = "connected"
      /\ UNCHANGED <<writeVars, listened, listens, listening, answers>>
  BY DEF OnAuthenticated, Authenticated, QueueTypes, ConnectionInv, SocketMatchesState
<1>2. Head(pendingAuths) = pendingAuths[1] /\ 1 \in DOMAIN pendingAuths
  BY <1>1, HeadTailProperties, EmptySeq, LenProperties
     DEF QueueTypes, ConnectionInv, ConnectionTypeOK
<1>3. CASE Head(pendingAuths)
  <2>1. connectionState = "Authenticating"
    BY <1>2, <1>3 DEF QueueTypes, ConnectionInv, NeverStranded
  <2>2. Puts(answers) = {} /\ Puts(uplink) = {} /\ Ascending(answers) /\ Ascending(uplink)
        /\ \A m \in listening : m.kind = "listen"
    BY <2>1 DEF WireInv, Sent
  <2>3. RestoreState(requestNumber, requestCBHash, uplink)
    BY <1>3 DEF OnAuthenticated
  <2>4. requestNumber \in Nat /\ requestCBHash \in SUBSET Nat /\ uplink \in Seq(Request)
    BY DEF QueueTypes, SessionTypes
  <2>5. SessionTypes' /\ WireInv' /\ Sent' = outstandingPuts
    BY <1>1, <2>2, <2>3, <2>4, RestoredWire DEF QueueTypes
  <2> QED BY <1>1, <2>5
<1>4. CASE ~Head(pendingAuths)
  <2>1. UNCHANGED <<requestNumber, requestCBHash, uplink, unackedListensCount>>
    BY <1>4 DEF OnAuthenticated
  <2>2. UNCHANGED <<issued, outstandingPuts, listened, listens, listening, answers>>
        /\ UNCHANGED Issued
    BY <1>1 DEF writeVars, Issued
  <2>3. connectionState # "Authenticating"
    BY <1>2, <1>4 DEF QueueTypes, ConnectionInv, NeverStranded
  <2>4. canSendWrites
    BY <1>1, <2>3 DEF QueueTypes, ConnectionInv, SocketMatchesState, connected, canSendWrites
  <2>5. UNCHANGED Sent /\ Puts(answers') = Puts(answers)
    BY <2>1, <2>2 DEF Sent
  <2>6. SessionTypes'
    BY <2>1, <2>2 DEF QueueTypes, SessionTypes
  <2>7. WireInv'
    BY <1>1, <2>1, <2>2, <2>4, <2>5 DEF WireInv
  <2> QED BY <2>5, <2>6, <2>7
<1> QED BY <1>3, <1>4

LEMMA OnDisconnectWire ==
    ASSUME QueueTypes, WireInv, OnDisconnect
    PROVE  /\ SessionTypes' /\ WireInv'
           /\ Sent' \subseteq Sent /\ answers' = <<>>
<1>1. /\ connectionState' = "Disconnected" /\ realtime' = "none"
      /\ UNCHANGED <<writeVars, listened, listens, uplink>>
  BY DEF OnDisconnect, Disconnecting, AuthFailed, AuthRevoked, Refuse, ConnectionLost,
         ServerKill, GoOffline, Interrupt, Close
<1>2. answers' = <<>> /\ listening' = {}
      /\ requestNumber' \in Nat /\ requestCBHash' \in SUBSET Nat /\ unackedListensCount' \in Int
  <2>1. CASE realtime # "none"
    BY <2>1 DEF OnDisconnect, EndSession
  <2>2. CASE realtime = "none"
    <3>1. UNCHANGED <<requestNumber, requestCBHash, listening, answers, unackedListensCount>>
      BY <2>2 DEF OnDisconnect, sessionVars
    <3> QED BY <2>2, <3>1 DEF WireInv, QueueTypes, SessionTypes
  <2> QED BY <2>1, <2>2
<1>3. UNCHANGED <<issued, outstandingPuts, listened, listens>> /\ UNCHANGED Issued
  BY <1>1 DEF writeVars, Issued
<1>4. Puts(answers') = {} /\ Ascending(answers') /\ answers' \in Seq(Request)
  BY <1>2, NoPuts
<1>5. Sent' = Puts(uplink)
  BY <1>1, <1>4 DEF Sent
<1>6. SessionTypes'
  BY <1>1, <1>2, <1>3, <1>4 DEF QueueTypes, SessionTypes
<1>7. Below(Puts(answers'), Puts(uplink'))
  BY <1>4 DEF Below
<1>8. WireInv'
  BY <1>1, <1>2, <1>3, <1>4, <1>5, <1>7 DEF WireInv, Sent, canSendWrites
<1> QED BY <1>2, <1>5, <1>6, <1>8 DEF Sent

LEMMA RestartWire ==
    ASSUME QueueTypes, WireInv, Restart
    PROVE  /\ SessionTypes' /\ WireInv'
           /\ Sent' \subseteq Sent /\ answers' = <<>>
<1>1. /\ connectionState' = "Disconnected" /\ realtime' = "none"
      /\ UNCHANGED <<issued, listened, uplink>> /\ UNCHANGED Issued
      /\ answers' = <<>> /\ listening' = {} /\ requestNumber' = 0 /\ requestCBHash' = {}
      /\ unackedListensCount' = 0 /\ outstandingPuts' = {} /\ listens' = {}
  BY DEF Restart, Relaunch, EndSession, Issued
<1>2. Puts(answers') = {} /\ Ascending(answers') /\ answers' \in Seq(Request)
  BY <1>1, NoPuts
<1>3. Sent' = Puts(uplink)
  BY <1>1, <1>2 DEF Sent
<1>4. SessionTypes'
  BY <1>1, <1>2 DEF QueueTypes, SessionTypes
<1>5. Below(Puts(answers'), Puts(uplink'))
  BY <1>2 DEF Below
<1>6. WireInv'
  BY <1>1, <1>2, <1>3, <1>5 DEF WireInv, Sent, canSendWrites
<1> QED BY <1>1, <1>3, <1>4, <1>6 DEF Sent

LEMMA AnsweredWire ==
    ASSUME ConnectionInv, SessionTypes, WireInv,
           NEW kind \in {"put", "listen"}, Answered(kind),
           UNCHANGED connectionVars, UNCHANGED <<issued, listening, uplink>>,
           outstandingPuts' \subseteq outstandingPuts,
           kind = "put" => Head(answers).id \notin outstandingPuts'
    PROVE  /\ WireInv' /\ Sent' \subseteq Sent
           /\ Puts(answers') \subseteq Puts(answers)
           /\ kind = "put" => /\ Head(answers).id \in Puts(answers)
                              /\ Below({Head(answers).id}, Sent')
                              /\ Below({Head(answers).id}, outstandingPuts')
<1>1. /\ answers # <<>> /\ Head(answers) \in Request /\ Head(answers).kind = kind
      /\ answers' = Tail(answers)
  BY AnsweredTypes
<1>2. /\ UNCHANGED <<realtime, connectionState, listening, uplink>> /\ UNCHANGED Issued
      /\ answers \in Seq(Request) /\ Ascending(answers) /\ Ascending(uplink)
      /\ Below(Puts(answers), Puts(uplink))
  BY DEF connectionVars, Issued, SessionTypes, WireInv
<1> DEFINE h == Head(answers)
<1>3. /\ Ascending(answers')
      /\ kind = "listen" => Puts(answers') = Puts(answers)
      /\ kind = "put" => Puts(answers) = Puts(answers') \union {h.id}
      /\ kind = "put" => Below({h.id}, Puts(answers'))
  BY <1>1, <1>2, PutsTail
<1> HIDE DEF h
<1>4. Puts(answers') \subseteq Puts(answers)
  BY <1>3
<1>5. Sent' \subseteq Sent
  BY <1>2, <1>4 DEF Sent
<1>6. Below(Puts(answers'), Puts(uplink'))
  BY <1>2, <1>4 DEF Below
<1>7. canSendWrites' => outstandingPuts' \subseteq Sent'
  <2>1. canSendWrites' <=> canSendWrites
    BY <1>2 DEF canSendWrites
  <2>2. kind = "put" => h.id \notin outstandingPuts'
    BY DEF h
  <2> QED BY <1>2, <1>3, <2>1, <2>2 DEF WireInv, Sent
<1>8. WireInv'
  BY <1>1, <1>2, <1>3, <1>5, <1>6, <1>7 DEF WireInv
<1>9. ASSUME kind = "put"
      PROVE  h.id \in Puts(answers) /\ Below({h.id}, Sent') /\ Below({h.id}, outstandingPuts')
  <2>1. h.id \in Puts(answers)
    BY <1>3, <1>9
  <2>2. Below({h.id}, Sent')
    BY <1>2, <1>3, <1>9, <2>1 DEF Below, Sent
  <2>3. canSendWrites
    BY <1>1, <2>1 DEF WireInv, Sent, canSendWrites, ConnectionInv, SocketMatchesState, connected
  <2> QED BY <1>2, <1>7, <2>1, <2>2, <2>3 DEF Below, canSendWrites
<1> QED BY <1>4, <1>5, <1>8, <1>9 DEF h

LEMMA PutAnsweredWire ==
    ASSUME QueueTypes, WireInv, PutAnswered
    PROVE  /\ SessionTypes' /\ WireInv' /\ Sent' \subseteq Sent
           /\ Puts(answers') \subseteq Puts(answers)
           /\ Head(answers).id \in Puts(answers)
           /\ Below({Head(answers).id}, Sent' \union outstandingPuts')
<1>1. /\ Answered("put") /\ UNCHANGED connectionVars /\ UNCHANGED <<issued, listening, uplink>>
      /\ outstandingPuts' = outstandingPuts \ {Head(answers).id}
      /\ UNCHANGED listenVars /\ UNCHANGED requestNumber
  BY DEF PutAnswered
<1>2. /\ WireInv' /\ Sent' \subseteq Sent /\ Puts(answers') \subseteq Puts(answers)
      /\ Head(answers).id \in Puts(answers)
      /\ Below({Head(answers).id}, Sent') /\ Below({Head(answers).id}, outstandingPuts')
  BY <1>1, AnsweredWire DEF QueueTypes
<1>3. answers' \in Seq(Request) /\ requestCBHash' \in SUBSET Nat
  BY <1>1, AnsweredTypes DEF QueueTypes
<1>4. SessionTypes'
  BY <1>1, <1>3 DEF QueueTypes, SessionTypes, listenVars
<1>5. Below({Head(answers).id}, Sent' \union outstandingPuts')
  BY <1>2 DEF Below
<1> QED BY <1>2, <1>4, <1>5

LEMMA ListenAnsweredWire ==
    ASSUME QueueTypes, WireInv, NEW ok \in BOOLEAN, ListenAnswered(ok)
    PROVE  /\ SessionTypes' /\ WireInv' /\ Sent' \subseteq Sent
           /\ Puts(answers') \subseteq Puts(answers)
<1>1. /\ Answered("listen") /\ UNCHANGED connectionVars
      /\ UNCHANGED <<issued, outstandingPuts, listened, requestNumber, listening, uplink>>
      /\ listens' \subseteq listens /\ unackedListensCount' = unackedListensCount - 1
  BY DEF ListenAnswered
<1>2. WireInv' /\ Sent' \subseteq Sent /\ Puts(answers') \subseteq Puts(answers)
  BY <1>1, AnsweredWire DEF QueueTypes
<1>3. answers' \in Seq(Request) /\ requestCBHash' \in SUBSET Nat
  BY <1>1, AnsweredTypes DEF QueueTypes
<1>4. SessionTypes'
  BY <1>1, <1>3 DEF QueueTypes, SessionTypes
<1> QED BY <1>2, <1>4

\* The server reads a put: in a session it moves to the answers.
LEMMA ReceivePutWire ==
    ASSUME QueueTypes, WireInv, ReceivePut
    PROVE  /\ SessionTypes' /\ WireInv' /\ Sent' \subseteq Sent
           /\ Head(uplink).id \in Puts(uplink)
           /\ Puts(answers') \subseteq Puts(answers) \union {Head(uplink).id}
<1> DEFINE h == Head(uplink)
<1>1. /\ uplink # <<>> /\ h.kind = "put" /\ uplink' = Tail(uplink)
      /\ UNCHANGED <<connectionState, realtime, listening, requestNumber, requestCBHash>>
      /\ UNCHANGED <<issued, outstandingPuts, listened, listens, unackedListensCount>>
      /\ UNCHANGED Issued
  BY DEF ReceivePut, connectionVars, writeVars, listenVars, Issued
<1>2. /\ answers \in Seq(Request) /\ Ascending(answers)
      /\ uplink \in Seq(Request) /\ Ascending(uplink)
      /\ Below(Puts(answers), Puts(uplink))
  BY DEF QueueTypes, SessionTypes, WireInv
<1>3. /\ uplink' \in Seq(Request) /\ h \in Request
      /\ Puts(uplink) = Puts(uplink') \union {h.id}
      /\ Ascending(uplink') /\ Below({h.id}, Puts(uplink'))
  BY <1>1, <1>2, PutsTail
<1>4. CASE realtime = "connected"
  <2>1. answers' = Append(answers, h)
    BY <1>4 DEF ReceivePut
  <2> HIDE DEF h
  <2>2. Below(Puts(answers), {h.id})
    BY <1>2, <1>3 DEF Below
  <2>3. /\ answers' \in Seq(Request) /\ Puts(answers') = Puts(answers) \union {h.id}
        /\ Ascending(answers')
    BY <1>1, <1>2, <1>3, <2>1, <2>2, PutsAppend, Zenon
  <2>4. Sent' = Sent
    BY <1>3, <2>3 DEF Sent
  <2>5. Below(Puts(answers'), Puts(uplink'))
    BY <1>2, <1>3, <2>3 DEF Below
  <2>6. SessionTypes'
    BY <1>1, <1>3, <2>3 DEF QueueTypes, SessionTypes
  <2>7. WireInv'
    BY <1>1, <1>3, <1>4, <2>3, <2>4, <2>5 DEF WireInv, canSendWrites
  <2> QED BY <1>3, <2>3, <2>4, <2>6, <2>7 DEF h
<1>5. CASE realtime # "connected"
  <2>1. answers' = answers /\ answers = <<>>
    BY <1>5 DEF ReceivePut, WireInv
  <2> HIDE DEF h
  <2>2. Sent' \subseteq Sent
    BY <1>3, <2>1 DEF Sent
  <2>3. Below(Puts(answers'), Puts(uplink'))
    BY <1>2, <1>3, <2>1 DEF Below
  <2>4. SessionTypes'
    BY <1>1, <1>2, <1>3, <2>1 DEF QueueTypes, SessionTypes
  <2>5. ~canSendWrites
    BY <1>5 DEF QueueTypes, ConnectionInv, SocketMatchesState, connected, canSendWrites
  <2>6. WireInv'
    BY <1>1, <1>2, <1>3, <1>5, <2>1, <2>2, <2>3, <2>5 DEF WireInv, canSendWrites
  <2> QED BY <1>3, <2>1, <2>2, <2>4, <2>6 DEF h
<1> QED BY <1>4, <1>5

LEMMA ReceiveListenWire ==
    ASSUME QueueTypes, WireInv, ReceiveListen
    PROVE  SessionTypes' /\ WireInv' /\ UNCHANGED Sent /\ Puts(answers') = Puts(answers)
<1> DEFINE h == Head(uplink)
<1>1. /\ uplink # <<>> /\ h.kind = "listen" /\ uplink' = Tail(uplink)
      /\ UNCHANGED <<connectionState, realtime, answers, requestNumber, requestCBHash>>
      /\ UNCHANGED <<issued, outstandingPuts, listened, listens, unackedListensCount>>
      /\ UNCHANGED Issued
  BY DEF ReceiveListen, connectionVars, writeVars, listenVars, Issued
<1>2. uplink \in Seq(Request) /\ Ascending(uplink)
  BY DEF QueueTypes, SessionTypes, WireInv
<1>3. /\ uplink' \in Seq(Request) /\ h \in Request
      /\ Puts(uplink) = Puts(uplink') /\ Ascending(uplink')
  BY <1>1, <1>2, PutsTail
<1>4. UNCHANGED Sent
  BY <1>1, <1>3 DEF Sent
<1>5. /\ listening' \in SUBSET Request /\ \A m \in listening' : m.kind = "listen"
      /\ realtime # "connected" => listening' = {}
  BY <1>1, <1>3 DEF ReceiveListen, QueueTypes, SessionTypes, WireInv
<1>6. SessionTypes'
  BY <1>1, <1>3, <1>5 DEF QueueTypes, SessionTypes
<1>7. WireInv'
  BY <1>1, <1>3, <1>4, <1>5 DEF WireInv, canSendWrites
<1> QED BY <1>1, <1>4, <1>6, <1>7

LEMMA AnswerListenWire ==
    ASSUME QueueTypes, WireInv, NEW m \in listening, AnswerListen(m)
    PROVE  SessionTypes' /\ WireInv' /\ UNCHANGED Sent /\ Puts(answers') = Puts(answers)
<1>1. /\ listening' = listening \ {m} /\ answers' = Append(answers, m)
      /\ UNCHANGED <<connectionState, realtime, uplink, requestNumber, requestCBHash>>
      /\ UNCHANGED <<issued, outstandingPuts, listened, listens, unackedListensCount>>
      /\ UNCHANGED Issued
  BY DEF AnswerListen, connectionVars, writeVars, listenVars, Issued
<1>2. /\ m \in Request /\ m.kind = "listen" /\ answers \in Seq(Request) /\ Ascending(answers)
      /\ realtime = "connected"
  BY DEF QueueTypes, SessionTypes, WireInv
<1>3. answers' \in Seq(Request) /\ Puts(answers') = Puts(answers) /\ Ascending(answers')
  <2>1. m.kind # "put"
    BY <1>2
  <2> QED BY <1>1, <1>2, <2>1, PutsAppend, Zenon
<1>4. UNCHANGED Sent
  BY <1>1, <1>3 DEF Sent
<1>5. SessionTypes'
  BY <1>1, <1>3 DEF QueueTypes, SessionTypes
<1>6. WireInv'
  BY <1>1, <1>2, <1>3, <1>4 DEF WireInv, canSendWrites
<1> QED BY <1>3, <1>4, <1>5, <1>6

\* The connection keeps its invariant, whatever the queue does.
LEMMA ConnectionPart ==
    ASSUME QueueTypes, [Next]_vars
    PROVE  ConnectionInv'
<1>1. CASE UNCHANGED connectionVars
  BY <1>1, ConnectionStepInv DEF QueueTypes
<1>2. CASE ConnectionStep \/ OnReady \/ OnAuthenticated \/ OnDisconnect \/ Restart
  <2>1. ConnectionNext
    BY <1>2 DEF ConnectionNext, ConnectionStep, OnReady, OnAuthenticated, OnDisconnect, Restart
  <2> QED BY <2>1, ConnectionStepInv DEF QueueTypes
<1>3. \/ UNCHANGED connectionVars
      \/ ConnectionStep \/ OnReady \/ OnAuthenticated \/ OnDisconnect \/ Restart
  BY DEF Next, Client, Server, SetValue, Listen, Unlisten, PurgeOutstandingWrites, PutAnswered,
         ListenAnswered, ReceivePut, ReceiveListen, AnswerListen, vars
<1> QED BY <1>1, <1>2, <1>3

\* Steps that leave the requests alone, but may forget puts.
LEMMA Untouched ==
    ASSUME QueueTypes, WireInv,
           \/ \E l \in listens : Unlisten(l)
           \/ PurgeOutstandingWrites
           \/ UNCHANGED vars
    PROVE  /\ SessionTypes' /\ WireInv' /\ UNCHANGED Sent /\ Puts(answers') = Puts(answers)
           /\ outstandingPuts' \subseteq outstandingPuts
           /\ UNCHANGED <<issued, record, settled>>
<1>1. CASE PurgeOutstandingWrites \/ UNCHANGED vars
  <2>1. /\ UNCHANGED connectionVars /\ UNCHANGED <<listenVars, sessionVars, uplink>>
        /\ UNCHANGED <<issued, record, settled>>
        /\ outstandingPuts' \subseteq outstandingPuts
    BY <1>1 DEF PurgeOutstandingWrites, vars, queueVars, writeVars, outcomeVars
  <2>2. Issued \subseteq Issued'
    BY <2>1 DEF Issued
  <2> QED BY <2>1, <2>2, WireUnchanged DEF QueueTypes
<1>2. CASE \E l \in listens : Unlisten(l)
  <2>1. /\ UNCHANGED <<connectionState, realtime, answers, uplink, listening, requestNumber,
                       requestCBHash, listened, unackedListensCount>>
        /\ listens' \subseteq listens
        /\ UNCHANGED <<issued, outstandingPuts, record, settled>>
    BY <1>2 DEF Unlisten, connectionVars, sessionVars, writeVars, outcomeVars
  <2>2. UNCHANGED Sent /\ UNCHANGED Issued
    BY <2>1 DEF Sent, Issued
  <2>3. SessionTypes'
    BY <2>1 DEF QueueTypes, SessionTypes
  <2>4. WireInv'
    BY <2>1, <2>2 DEF WireInv, canSendWrites
  <2> QED BY <2>1, <2>2, <2>3, <2>4
<1> QED BY <1>1, <1>2

LEMMA WireStep ==
    ASSUME QueueTypes, WireInv, [Next]_vars
    PROVE  QueueTypes' /\ WireInv'
<1>1. ConnectionInv' /\ WriteTypes'
  BY ConnectionPart, WriteTypesStep
<1>2. SessionTypes' /\ WireInv'
  BY <1>1, SetValueWire, ListenWire, Untouched, ConnectionStepWire, OnReadyWire,
     OnAuthenticatedWire, OnDisconnectWire, PutAnsweredWire, ListenAnsweredWire,
     ReceivePutWire, ReceiveListenWire, AnswerListenWire, RestartWire
     DEF Next, Client, Server
<1> QED BY <1>1, <1>2 DEF QueueTypes

LEMMA InitTypes == Init => QueueTypes /\ WireInv /\ Sent = {}
<1> SUFFICES ASSUME Init PROVE QueueTypes /\ WireInv /\ Sent = {}
  OBVIOUS
<1>1. ConnectionInv /\ realtime # "connected" /\ connectionState = "Disconnected"
  BY ConnectionInitInv DEF Init, ConnectionInit
<1>2. WriteTypes
  <2>1. issued \in Seq(Footprints) /\ putsToAck \in Seq(Issued) /\ completed \in Seq(Issued)
    BY EmptySeq DEF Init
  <2> QED BY <2>1 DEF Init, WriteTypes
<1>3. SessionTypes
  BY NoPuts DEF Init, SessionTypes
<1>4. Puts(answers) = {} /\ Puts(uplink) = {} /\ Ascending(answers) /\ Ascending(uplink)
  BY NoPuts DEF Init
<1>5. Sent = {}
  BY <1>4 DEF Sent
<1>6. WireInv
  BY <1>1, <1>4, <1>5 DEF Init, WireInv, Below, canSendWrites
<1> QED BY <1>1, <1>2, <1>3, <1>5, <1>6 DEF QueueTypes

-----------------------------------------------------------------------------
(* What is settled.                                                        *)

\* Steps after which no more can be settled or stored than before.
LEMMA SettledUnchanged ==
    ASSUME SettledInv, UNCHANGED <<issued, record, settled>>,
           Sent' \union outstandingPuts' \subseteq Sent \union outstandingPuts,
           Puts(answers') \subseteq Puts(answers)
    PROVE  SettledInv'
<1>1. UNCHANGED Issued /\ \A w : UNCHANGED Stores(w)
  BY DEF Issued, Stores
<1>2. Below(settled, Sent \union outstandingPuts)'
  BY DEF SettledInv, Below
<1>3. (\A w \in settled \union Puts(answers) : \A l \in Stores(w) : record[l] >= w)'
  BY <1>1 DEF SettledInv
<1>4. (\A l \in Leaves : record[l] = 0 \/ (record[l] \in Issued /\ l \in Stores(record[l])))'
  BY <1>1 DEF SettledInv
<1> QED BY <1>2, <1>3, <1>4 DEF SettledInv

LEMMA SetValueSettled ==
    ASSUME QueueTypes, WireInv, SettledInv, NEW footprint \in Footprints, SetValue(footprint)
    PROVE  SettledInv'
<1> DEFINE w == Len(issued) + 1
<1>1. /\ issued' = Append(issued, footprint) /\ UNCHANGED <<record, settled>>
      /\ outstandingPuts' = outstandingPuts \union {w}
  BY DEF SetValue, outcomeVars
<1>2. /\ Issued' = Issued \union {w} /\ Below(Issued, {w})
      /\ \A x \in Issued : Stores(x)' = Stores(x)
  BY <1>1, Issuing DEF QueueTypes
<1>3. Sent' \subseteq Sent \union {w} /\ Puts(answers') = Puts(answers)
  BY SetValueWire
<1> HIDE DEF w
<1>4. settled \subseteq Issued /\ Puts(answers) \subseteq Issued
  BY DEF QueueTypes, WriteTypes, WireInv, Sent
<1>5. Below(settled, Sent \union outstandingPuts)'
  BY <1>1, <1>2, <1>3, <1>4 DEF SettledInv, Below
<1>6. (\A x \in settled \union Puts(answers) : \A l \in Stores(x) : record[l] >= x)'
  BY <1>1, <1>2, <1>3, <1>4 DEF SettledInv
<1>7. (\A l \in Leaves : record[l] = 0 \/ (record[l] \in Issued /\ l \in Stores(record[l])))'
  BY <1>1, <1>2 DEF SettledInv
<1> QED BY <1>5, <1>6, <1>7 DEF SettledInv

LEMMA PutAnsweredSettled ==
    ASSUME QueueTypes, WireInv, SettledInv, PutAnswered
    PROVE  SettledInv'
<1> DEFINE w == Head(answers).id
<1>1. /\ Sent' \subseteq Sent /\ Puts(answers') \subseteq Puts(answers)
      /\ w \in Puts(answers) /\ Below({w}, Sent' \union outstandingPuts')
  BY PutAnsweredWire
<1>2. /\ outstandingPuts' = outstandingPuts \ {w} /\ UNCHANGED <<issued, record>>
      /\ settled' = settled \/ settled' = settled \union {w}
  BY DEF PutAnswered, outcomeVars
<1> HIDE DEF w
<1>3. UNCHANGED Issued /\ \A x : UNCHANGED Stores(x)
  BY <1>2 DEF Issued, Stores
<1>4. Below(settled, Sent \union outstandingPuts)'
  BY <1>1, <1>2 DEF SettledInv, Below
<1>5. (\A x \in settled \union Puts(answers) : \A l \in Stores(x) : record[l] >= x)'
  BY <1>1, <1>2, <1>3 DEF SettledInv
<1>6. (\A l \in Leaves : record[l] = 0 \/ (record[l] \in Issued /\ l \in Stores(record[l])))'
  BY <1>2, <1>3 DEF SettledInv
<1> QED BY <1>4, <1>5, <1>6 DEF SettledInv

LEMMA ReceivePutSettled ==
    ASSUME QueueTypes, WireInv, SettledInv, ReceivePut
    PROVE  SettledInv'
<1> DEFINE w == Head(uplink).id
<1>1. /\ Sent' \subseteq Sent /\ w \in Puts(uplink)
      /\ Puts(answers') \subseteq Puts(answers) \union {w}
  BY ReceivePutWire
<1>2. /\ UNCHANGED <<issued, settled, outstandingPuts>> /\ record' = Stored(w)
  BY DEF ReceivePut, writeVars, outcomeVars
<1> HIDE DEF w
<1>3. UNCHANGED Issued /\ \A x : UNCHANGED Stores(x)
  BY <1>2 DEF Issued, Stores
<1>4. w \in Issued
  BY <1>1 DEF WireInv, Sent
<1>5. \A l \in Leaves : record'[l] = IF l \in Stores(w) THEN w ELSE record[l]
  BY <1>2, <1>4, StoredTypes DEF QueueTypes
<1>6. Below(settled, Sent \union outstandingPuts)'
  BY <1>1, <1>2 DEF SettledInv, Below
<1>7. \A x \in settled \union Puts(answers) : x < w /\ x \in Issued
  BY <1>1 DEF SettledInv, WireInv, Sent, Below, QueueTypes, WriteTypes
<1>8. Issued \subseteq Nat /\ \A x \in Issued : Stores(x) \subseteq Leaves
  <2>1. Issued \subseteq Nat
    BY FiniteIssued DEF QueueTypes
  <2>2. \A x \in Issued : issued[x] \in Footprints
    BY ElementOfSeq, LenProperties DEF QueueTypes, WriteTypes, Issued
  <2> QED BY <2>1, <2>2, QueueAssumption DEF Stores
<1>9. ASSUME NEW x \in settled \union Puts(answers) \union {w}, NEW l \in Stores(x)
      PROVE  record'[l] >= x
  <2>1. x \in Issued /\ x \in Nat /\ w \in Nat /\ l \in Leaves
    BY <1>4, <1>7, <1>8
  <2>2. CASE x = w
    BY <1>5, <1>9, <2>1, <2>2
  <2>3. CASE x # w
    <3>1. x < w /\ record[l] >= x
      BY <1>7, <2>3 DEF SettledInv
    <3> QED BY <1>5, <2>1, <3>1
  <2> QED BY <2>2, <2>3
<1>10. (\A x \in settled \union Puts(answers) : \A l \in Stores(x) : record[l] >= x)'
  BY <1>1, <1>2, <1>3, <1>9
<1>11. (\A l \in Leaves : record[l] = 0 \/ (record[l] \in Issued /\ l \in Stores(record[l])))'
  BY <1>3, <1>4, <1>5 DEF SettledInv
<1> QED BY <1>6, <1>10, <1>11 DEF SettledInv

LEMMA SettledStep ==
    ASSUME QueueTypes, WireInv, SettledInv, [Next]_vars
    PROVE  SettledInv'
<1>1. ASSUME NEW footprint \in Footprints, SetValue(footprint) PROVE SettledInv'
  BY <1>1, SetValueSettled
<1>2. CASE \/ \E l \in listens : Unlisten(l)
           \/ PurgeOutstandingWrites
           \/ UNCHANGED vars
  <2>1. /\ Puts(answers') = Puts(answers) /\ UNCHANGED <<issued, record, settled>>
        /\ Sent' = Sent /\ outstandingPuts' \subseteq outstandingPuts
    BY <1>2, Untouched
  <2> QED BY <2>1, SettledUnchanged
<1>3. CASE Listen \/ ConnectionStep \/ ReceiveListen \/ \E m \in listening : AnswerListen(m)
  <2>1. Sent' = Sent /\ Puts(answers') = Puts(answers)
    BY <1>3, ConnectionPart, ListenWire, ConnectionStepWire, ReceiveListenWire, AnswerListenWire
  <2>2. UNCHANGED <<issued, record, settled, outstandingPuts>>
    BY <1>3 DEF Listen, ConnectionStep, ReceiveListen, AnswerListen, queueVars, writeVars,
                outcomeVars
  <2> QED BY <2>1, <2>2, SettledUnchanged
<1>4. CASE OnReady \/ OnAuthenticated \/ OnDisconnect
  <2>1. Sent' \subseteq Sent \union outstandingPuts
        /\ (answers' = <<>> \/ Puts(answers') = Puts(answers))
    BY <1>4, OnReadyWire, OnAuthenticatedWire, OnDisconnectWire
  <2>2. Puts(answers') \subseteq Puts(answers)
    BY <2>1, NoPuts
  <2>3. UNCHANGED <<issued, record, settled, outstandingPuts>>
    BY <1>4 DEF OnReady, OnAuthenticated, OnDisconnect, writeVars, outcomeVars
  <2> QED BY <2>1, <2>2, <2>3, SettledUnchanged
<1>5. CASE Restart
  <2>1. Sent' \subseteq Sent /\ Puts(answers') = {}
    BY <1>5, RestartWire, NoPuts
  <2>2. UNCHANGED <<issued, record, settled>> /\ outstandingPuts' = {}
    BY <1>5 DEF Restart
  <2> QED BY <2>1, <2>2, SettledUnchanged
<1>6. CASE PutAnswered
  BY <1>6, PutAnsweredSettled
<1>7. ASSUME NEW ok \in BOOLEAN, ListenAnswered(ok) PROVE SettledInv'
  <2>1. Sent' \subseteq Sent /\ Puts(answers') \subseteq Puts(answers)
    BY <1>7, ListenAnsweredWire
  <2>2. UNCHANGED <<issued, record, settled, outstandingPuts>>
    BY <1>7 DEF ListenAnswered
  <2> QED BY <2>1, <2>2, SettledUnchanged
<1>8. CASE ReceivePut
  BY <1>8, ReceivePutSettled
<1> QED BY <1>1, <1>2, <1>3, <1>4, <1>5, <1>6, <1>7, <1>8 DEF Next, Client, Server

-----------------------------------------------------------------------------
(* Completions.                                                            *)

LEMMA ToSetConcat ==
    ASSUME NEW S, NEW s \in Seq(S), NEW t \in Seq(S)
    PROVE  /\ ToSet(s \o t) = ToSet(s) \union ToSet(t)
           /\ Distinct(s) /\ Distinct(t) /\ ToSet(s) \cap ToSet(t) = {} => Distinct(s \o t)
           /\ ToSet(s) \subseteq S
<1> DEFINE u == s \o t
<1>1. /\ DOMAIN u = 1 .. Len(s) + Len(t) /\ DOMAIN s = 1 .. Len(s) /\ DOMAIN t = 1 .. Len(t)
      /\ Len(s) \in Nat /\ Len(t) \in Nat
      /\ \A i \in 1 .. Len(s) + Len(t) : u[i] = IF i =< Len(s) THEN s[i] ELSE t[i - Len(s)]
  BY ConcatProperties, LenProperties
<1> HIDE DEF u
<1>2. ASSUME NEW i \in DOMAIN s PROVE i \in DOMAIN u /\ u[i] = s[i]
  BY <1>1
<1>3. ASSUME NEW i \in DOMAIN t PROVE i + Len(s) \in DOMAIN u /\ u[i + Len(s)] = t[i]
  BY <1>1
<1>4. ASSUME NEW i \in DOMAIN u, i \notin DOMAIN s
      PROVE  i - Len(s) \in DOMAIN t /\ u[i] = t[i - Len(s)]
  BY <1>1, <1>4
<1>5. ToSet(u) = ToSet(s) \union ToSet(t)
  <2>1. ToSet(s) \subseteq ToSet(u)
    BY <1>2 DEF ToSet
  <2>2. ToSet(t) \subseteq ToSet(u)
    BY <1>3 DEF ToSet
  <2>3. ToSet(u) \subseteq ToSet(s) \union ToSet(t)
    BY <1>2, <1>4 DEF ToSet
  <2> QED BY <2>1, <2>2, <2>3
<1>6. ASSUME Distinct(s), Distinct(t), ToSet(s) \cap ToSet(t) = {},
             NEW i \in DOMAIN u, NEW j \in DOMAIN u, u[i] = u[j]
      PROVE  i = j
  <2>1. CASE i \in DOMAIN s /\ j \in DOMAIN s
    BY <1>2, <1>6, <2>1 DEF Distinct
  <2>2. CASE i \notin DOMAIN s /\ j \notin DOMAIN s
    <3>1. i - Len(s) = j - Len(s)
      BY <1>4, <1>6, <2>2 DEF Distinct
    <3> QED BY <1>1, <3>1
  <2>3. CASE i \in DOMAIN s /\ j \notin DOMAIN s
    <3>1. u[i] \in ToSet(s) /\ u[j] \in ToSet(t)
      BY <1>2, <1>4, <2>3 DEF ToSet
    <3> QED BY <1>6, <3>1
  <2>4. CASE i \notin DOMAIN s /\ j \in DOMAIN s
    <3>1. u[j] \in ToSet(s) /\ u[i] \in ToSet(t)
      BY <1>2, <1>4, <2>4 DEF ToSet
    <3> QED BY <1>6, <3>1
  <2> QED BY <2>1, <2>2, <2>3, <2>4
<1>7. Distinct(s) /\ Distinct(t) /\ ToSet(s) \cap ToSet(t) = {} => Distinct(u)
  BY <1>6 DEF Distinct
<1>8. ToSet(s) \subseteq S
  BY LenProperties, ElementOfSeq DEF ToSet
<1> QED BY <1>5, <1>7, <1>8 DEF u

LEMMA ToSetSmall ==
    /\ ToSet(<<>>) = {} /\ Distinct(<<>>)
    /\ \A w : ToSet(<<w>>) = {w} /\ Distinct(<<w>>)
<1>1. ToSet(<<>>) = {} /\ Distinct(<<>>)
  BY DEF ToSet, Distinct
<1>2. ASSUME NEW w PROVE ToSet(<<w>>) = {w} /\ Distinct(<<w>>)
  BY DEF ToSet, Distinct
<1> QED BY <1>1, <1>2

LEMMA ToSetAppend ==
    ASSUME NEW S, NEW s \in Seq(S), NEW w \in S
    PROVE  /\ s \o <<w>> \in Seq(S) /\ ToSet(s \o <<w>>) = ToSet(s) \union {w}
           /\ Distinct(s) /\ w \notin ToSet(s) => Distinct(s \o <<w>>)
<1> DEFINE t == <<w>>
<1>1. t \in Seq(S) /\ ToSet(t) = {w} /\ Distinct(t)
  BY ToSetSmall
<1> HIDE DEF t
<1>2. s \o t \in Seq(S)
  BY <1>1, ConcatProperties
<1>3. ToSet(s \o t) = ToSet(s) \union ToSet(t)
  BY <1>1, ToSetConcat
<1>4. ASSUME Distinct(s), w \notin ToSet(s) PROVE Distinct(s \o t)
  <2>1. ToSet(s) \cap ToSet(t) = {}
    BY <1>1, <1>4
  <2> QED BY <1>1, <1>4, <2>1, ToSetConcat, Zenon
<1> QED BY <1>1, <1>2, <1>3, <1>4 DEF t

LEMMA CompletionUnchanged ==
    ASSUME CompletionInv, UNCHANGED <<allWrites, outstandingPuts, putsToAck, outcomeVars>>
    PROVE  CompletionInv'
BY DEF CompletionInv, PendingIsOutstanding, outcomeVars

LEMMA SetValueCompletion ==
    ASSUME QueueTypes, CompletionInv, NEW footprint \in Footprints, SetValue(footprint)
    PROVE  CompletionInv'
<1> DEFINE w == Len(issued) + 1
<1>1. /\ allWrites' = allWrites \union {w} /\ outstandingPuts' = outstandingPuts \union {w}
      /\ UNCHANGED <<putsToAck, settled, completed, raised>>
  BY DEF SetValue, outcomeVars
<1>2. w \notin Issued
  BY FiniteIssued DEF QueueTypes
<1> HIDE DEF w
<1>3. w \notin ToSet(completed) /\ w \notin ToSet(putsToAck)
  BY <1>2, ToSetConcat DEF QueueTypes, WriteTypes
<1> QED BY <1>1, <1>3 DEF CompletionInv, PendingIsOutstanding

LEMMA PurgeCompletion ==
    ASSUME QueueTypes, CompletionInv, PurgeOutstandingWrites
    PROVE  CompletionInv'
<1>1. allWrites' = {} /\ UNCHANGED <<putsToAck, settled>>
  BY DEF PurgeOutstandingWrites
<1>2. CASE putsToAck = <<>>
  <2>1. PICK ps \in InOrder(outstandingPuts) : completed' = completed \o ps
    BY <1>2 DEF PurgeOutstandingWrites
  <2>2. outstandingPuts' = {} /\ UNCHANGED raised
    BY <1>2 DEF PurgeOutstandingWrites
  <2>3. ps \in Seq(outstandingPuts) /\ ToSet(ps) = outstandingPuts /\ Distinct(ps)
    BY SeqOfSet, FiniteIssued DEF InOrder, QueueTypes
  <2>4. ps \in Seq(Issued) /\ completed \in Seq(Issued)
    BY <2>3, SeqMonotonic DEF QueueTypes, WriteTypes
  <2>5. Distinct(completed) /\ ToSet(completed) \cap ToSet(ps) = {}
    BY <2>3 DEF CompletionInv
  <2>6. Distinct(completed')
    BY <2>1, <2>3, <2>4, <2>5, ToSetConcat
  <2>7. ToSet(putsToAck') = {}
    BY <1>1, <1>2, ToSetSmall
  <2> QED BY <1>1, <1>2, <2>2, <2>6, <2>7 DEF CompletionInv, PendingIsOutstanding
<1>3. CASE putsToAck # <<>>
  <2>1. raised' = TRUE /\ UNCHANGED <<completed, outstandingPuts>>
    BY <1>3 DEF PurgeOutstandingWrites
  <2> QED BY <1>1, <2>1 DEF CompletionInv, PendingIsOutstanding
<1> QED BY <1>2, <1>3

LEMMA PutAnsweredCompletion ==
    ASSUME QueueTypes, WireInv, CompletionInv, ~raised, PutAnswered
    PROVE  CompletionInv'
<1> DEFINE w == Head(answers).id
<1>1. w \in Issued
  BY FrontPut DEF PutAnswered, QueueTypes
<1>2. outstandingPuts' = outstandingPuts \ {w}
  BY DEF PutAnswered
<1>3. \/ /\ w \in outstandingPuts /\ settled' = settled \union {w}
         /\ Complete(<<w>>) /\ UNCHANGED putsToAck
      \/ /\ w \in outstandingPuts /\ settled' = settled \union {w}
         /\ putsToAck' = Append(putsToAck, w)
         /\ UNCHANGED <<allWrites, completed, raised>>
      \/ /\ w \notin outstandingPuts
         /\ UNCHANGED <<allWrites, putsToAck, settled, completed, raised>>
  BY DEF PutAnswered, outcomeVars
<1> HIDE DEF w
<1>4. <<w>> \in Seq(Issued) /\ ToSet(<<w>>) = {w} /\ Distinct(<<w>>)
  BY <1>1, ToSetSmall
<1>5. completed \in Seq(Issued) /\ putsToAck \in Seq(Issued)
  BY DEF QueueTypes, WriteTypes
<1>6. CASE w \in outstandingPuts /\ settled' = settled \union {w}
           /\ Complete(<<w>>) /\ UNCHANGED putsToAck
  <2>1. allWrites' = allWrites \ {w} /\ completed' = completed \o <<w>>
    BY <1>4, <1>6 DEF Complete
  <2>2. w \notin ToSet(completed) /\ Distinct(completed)
    BY <1>6 DEF CompletionInv
  <2>3. Distinct(completed') /\ ToSet(completed') = ToSet(completed) \union {w}
    BY <1>1, <1>5, <2>1, <2>2, ToSetAppend
  <2>4. w \notin ToSet(putsToAck)
    BY <1>6 DEF CompletionInv
  <2> QED BY <1>2, <1>6, <2>1, <2>3, <2>4 DEF CompletionInv, PendingIsOutstanding
<1>7. CASE w \in outstandingPuts /\ settled' = settled \union {w}
           /\ putsToAck' = Append(putsToAck, w) /\ UNCHANGED <<allWrites, completed, raised>>
  <2>1. putsToAck' = putsToAck \o <<w>>
    BY <1>1, <1>5, <1>7, AppendIsConcat
  <2>2. w \notin ToSet(putsToAck) /\ Distinct(putsToAck)
    BY <1>7 DEF CompletionInv
  <2>3. Distinct(putsToAck') /\ ToSet(putsToAck') = ToSet(putsToAck) \union {w}
    BY <1>1, <1>5, <2>1, <2>2, ToSetAppend
  <2> QED BY <1>2, <1>7, <2>3 DEF CompletionInv, PendingIsOutstanding
<1>8. CASE w \notin outstandingPuts /\ UNCHANGED <<allWrites, putsToAck, settled, completed, raised>>
  BY <1>2, <1>8 DEF CompletionInv, PendingIsOutstanding
<1> QED BY <1>3, <1>6, <1>7, <1>8

LEMMA ListenAnsweredCompletion ==
    ASSUME QueueTypes, CompletionInv, ~raised, NEW ok \in BOOLEAN, ListenAnswered(ok)
    PROVE  CompletionInv'
<1>1. UNCHANGED <<outstandingPuts, settled>>
  BY DEF ListenAnswered
<1>2. CASE UNCHANGED <<allWrites, putsToAck, completed, raised>>
  BY <1>1, <1>2 DEF CompletionInv, PendingIsOutstanding
<1>3. CASE Complete(putsToAck) /\ putsToAck' = <<>>
  <2>1. allWrites' = allWrites \ ToSet(putsToAck) /\ completed' = completed \o putsToAck
    BY <1>3 DEF Complete
  <2>2. completed \in Seq(Issued) /\ putsToAck \in Seq(Issued)
    BY DEF QueueTypes, WriteTypes
  <2>3. Distinct(completed') /\ ToSet(completed') = ToSet(completed) \union ToSet(putsToAck)
    BY <2>1, <2>2, ToSetConcat DEF CompletionInv
  <2>4. ToSet(putsToAck') = {} /\ Distinct(putsToAck')
    BY <1>3, ToSetSmall
  <2> QED BY <1>1, <2>1, <2>3, <2>4 DEF CompletionInv, PendingIsOutstanding
<1> QED BY <1>2, <1>3 DEF ListenAnswered

LEMMA CompletionStep ==
    ASSUME QueueTypes, WireInv, CompletionInv, [Next]_vars
    PROVE  CompletionInv'
<1>1. ASSUME NEW footprint \in Footprints, SetValue(footprint) PROVE CompletionInv'
  BY <1>1, SetValueCompletion
<1>2. CASE \/ Listen \/ \E l \in listens : Unlisten(l)
           \/ ConnectionStep \/ OnReady \/ OnAuthenticated \/ OnDisconnect
           \/ Server \/ UNCHANGED vars
  <2>1. UNCHANGED <<allWrites, outstandingPuts, putsToAck, outcomeVars>>
    BY <1>2 DEF Listen, Unlisten, ConnectionStep, OnReady, OnAuthenticated, OnDisconnect,
                Server, ReceivePut, ReceiveListen, AnswerListen, vars, queueVars, writeVars
  <2> QED BY <2>1, CompletionUnchanged
<1>3. CASE PurgeOutstandingWrites
  BY <1>3, PurgeCompletion
<1>4. CASE ~raised /\ PutAnswered
  BY <1>4, PutAnsweredCompletion
<1>5. ASSUME ~raised, NEW ok \in BOOLEAN, ListenAnswered(ok) PROVE CompletionInv'
  BY <1>5, ListenAnsweredCompletion
<1>6. CASE Restart
  <2>1. /\ allWrites' = {} /\ outstandingPuts' = {} /\ putsToAck' = <<>>
        /\ UNCHANGED <<settled, completed>>
    BY <1>6 DEF Restart
  <2>2. ToSet(putsToAck') = {} /\ Distinct(putsToAck')
    BY <2>1, ToSetSmall
  <2> QED BY <2>1, <2>2 DEF CompletionInv, PendingIsOutstanding
<1> QED BY <1>1, <1>2, <1>3, <1>4, <1>5, <1>6 DEF Next, Client

-----------------------------------------------------------------------------
(* The invariant and what follows from it.                                 *)

LEMMA InitQueueInv == Init => QueueInv
<1> SUFFICES ASSUME Init PROVE QueueInv
  OBVIOUS
<1>1. QueueTypes /\ WireInv /\ Sent = {}
  BY InitTypes
<1>2. /\ issued = <<>> /\ settled = {} /\ outstandingPuts = {} /\ allWrites = {}
      /\ putsToAck = <<>> /\ completed = <<>> /\ record = [l \in Leaves |-> 0]
  BY DEF Init
<1>3. Puts(answers) = {}
  BY <1>1 DEF Sent
<1>4. SettledInv
  BY <1>1, <1>2, <1>3 DEF SettledInv, Below
<1>5. CompletionInv
  BY <1>2, ToSetSmall DEF CompletionInv, PendingIsOutstanding
<1> QED BY <1>1, <1>4, <1>5 DEF QueueInv

LEMMA QueueStep == QueueInv /\ [Next]_vars => QueueInv'
BY WireStep, SettledStep, CompletionStep DEF QueueInv

LEMMA QueueInvariant == Spec => []QueueInv
BY InitQueueInv, QueueStep, PTL DEF Spec

(***************************************************************************)
(* What the server has acknowledged is not undone by an older write, over  *)
(* losses of the connection and restarts.                                  *)
(***************************************************************************)
THEOREM AcknowledgedStays == Spec => []SettledSurvives
<1>1. QueueInv => SettledSurvives
  BY DEF QueueInv, SettledInv, SettledSurvives
<1> QED BY <1>1, QueueInvariant, PTL

LEMMA GreatestIsMax ==
    ASSUME NEW S \in SUBSET Nat, NEW r \in S, \A x \in S : r >= x
    PROVE  Max(S) = r
<1>1. \A x \in S : (\A y \in S : x >= y) => x = r
  <2> TAKE x \in S
  <2>1. x \in Nat /\ r \in Nat /\ r >= x
    OBVIOUS
  <2> QED BY <2>1
<1> QED BY <1>1 DEF Max

(***************************************************************************)
(* When all writes are settled each leaf holds the last write to it.       *)
(***************************************************************************)
THEOREM LastOneWins == Spec => []LastWriteWins
<1>1. ASSUME QueueInv, settled = Issued, NEW l \in Leaves
      PROVE  record[l] = LastWrite(l)
  <2> DEFINE S == {0} \union {w \in Issued : l \in Stores(w)}
  <2>1. S \subseteq Nat
    BY <1>1, FiniteIssued DEF QueueInv, QueueTypes
  <2>2. record[l] \in S
    BY <1>1 DEF QueueInv, SettledInv
  <2>3. \A x \in S : record[l] >= x
    <3>1. ASSUME NEW x \in Issued, l \in Stores(x) PROVE record[l] >= x
      BY <1>1, <3>1 DEF QueueInv, SettledInv
    <3>2. record[l] >= 0
      BY <2>1, <2>2
    <3> QED BY <3>1, <3>2
  <2>4. LastWrite(l) = Max(S)
    BY DEF LastWrite
  <2> HIDE DEF S
  <2> QED BY <2>1, <2>2, <2>3, <2>4, GreatestIsMax
<1>2. QueueInv => LastWriteWins
  BY <1>1 DEF LastWriteWins
<1> QED BY <1>2, QueueInvariant, PTL

(***************************************************************************)
(* In a session that takes writes every outstanding put is on its way or   *)
(* answered, exactly once, and puts are in the order of the writes.        *)
(***************************************************************************)
THEOREM SentOnce == Spec => []SentOncePerSession
<1> DEFINE wire == answers \o uplink
<1>1. ASSUME QueueInv PROVE wire \in Seq(Request) /\ Puts(wire) = Sent /\ Ascending(wire)
  BY <1>1, PutsConcat DEF QueueInv, QueueTypes, SessionTypes, WireInv, Sent
<1> HIDE DEF wire
<1>2. ASSUME QueueInv, canSendWrites, NEW w \in outstandingPuts
      PROVE  \E i \in DOMAIN wire : wire[i].kind = "put" /\ wire[i].id = w
  <2>1. w \in Puts(wire)
    BY <1>1, <1>2 DEF QueueInv, WireInv
  <2> QED BY <2>1 DEF Puts
<1>3. QueueInv => SentOncePerSession
  BY <1>1, <1>2 DEF SentOncePerSession, Ascending, wire
<1> QED BY <1>3, QueueInvariant, PTL

(***************************************************************************)
(* No completion is called twice, none for a put that is outstanding.      *)
(***************************************************************************)
THEOREM OneCompletion == Spec => []CompletedOnce
<1> DEFINE done == completed \o putsToAck
<1>1. ASSUME QueueInv
      PROVE  Distinct(done) /\ ToSet(done) = ToSet(completed) \union ToSet(putsToAck)
  BY <1>1, ToSetConcat DEF QueueInv, QueueTypes, WriteTypes, CompletionInv
<1> HIDE DEF done
<1>2. ASSUME QueueInv, NEW i \in DOMAIN done PROVE done[i] \notin outstandingPuts
  <2>1. done[i] \in ToSet(done)
    BY DEF ToSet
  <2> QED BY <1>1, <1>2, <2>1 DEF QueueInv, CompletionInv
<1>3. QueueInv => CompletedOnce
  BY <1>1, <1>2 DEF CompletedOnce, Distinct, done
<1> QED BY <1>3, QueueInvariant, PTL

(***************************************************************************)
(* The pending writes of the local view are those of the connection.       *)
(***************************************************************************)
THEOREM ViewsAgree == Spec => []PendingIsOutstanding
BY QueueInvariant, PTL DEF QueueInv, CompletionInv

-----------------------------------------------------------------------------
(* The count of unanswered listens.                                        *)

LEMMA ToSetTail ==
    ASSUME NEW q \in Seq(Request), q # <<>>
    PROVE  ToSet(q) = ToSet(Tail(q)) \union {Head(q)} /\ Head(q) \in ToSet(q)
<1> DEFINE r == Tail(q)
           m == Head(q)
<1>1. /\ m = q[1] /\ DOMAIN r = 1 .. Len(q) - 1 /\ DOMAIN q = 1 .. Len(q)
      /\ Len(q) \in Nat \ {0} /\ \A i \in 1 .. Len(q) - 1 : r[i] = q[i + 1]
  BY HeadTailProperties, LenProperties, EmptySeq
<1> HIDE DEF r, m
<1>2. ASSUME NEW i \in DOMAIN q, i # 1 PROVE i - 1 \in DOMAIN r /\ r[i - 1] = q[i]
  BY <1>1, <1>2
<1>3. ASSUME NEW i \in DOMAIN r PROVE i + 1 \in DOMAIN q /\ r[i] = q[i + 1]
  BY <1>1
<1>4. m \in ToSet(q)
  BY <1>1 DEF ToSet
<1>5. ToSet(r) \subseteq ToSet(q)
  BY <1>3 DEF ToSet
<1>6. ToSet(q) \subseteq ToSet(r) \union {m}
  BY <1>1, <1>2 DEF ToSet
<1> QED BY <1>4, <1>5, <1>6 DEF r, m

LEMMA WireRequests ==
    ASSUME SessionTypes
    PROVE  Wire \subseteq Request
           /\ \A m \in Wire : m.rn \in Nat /\ m.kind \in {"put", "listen"}
<1>1. ToSet(answers) \subseteq Request /\ ToSet(uplink) \subseteq Request
  BY ToSetConcat DEF SessionTypes
<1>2. Wire \subseteq Request
  BY <1>1 DEF Wire, SessionTypes
<1> QED BY <1>2 DEF Request

OneKind(W) == \A m, r \in W : m.rn = r.rn => m.kind = r.kind

Numbers(W) == {m.rn : m \in W}

\* Requests with numbers up to n, each number of one kind.
Earlier(W, n) ==
    /\ \A m \in W : m.rn =< n
    /\ \A m, r \in W : m.rn = r.rn => m.kind = r.kind

\* Requests with numbers above n, of which the first k are listens.
Later(R, n, k) ==
    /\ \A m \in R : m.rn > n /\ (m.kind = "listen" <=> m.rn =< n + k)
    /\ \A j \in n + 1 .. n + k : \E m \in R : m.rn = j

LEMMA CountSent ==
    ASSUME NEW n \in Nat, NEW k \in Nat, NEW C \in SUBSET (0 .. n),
           NEW W \in SUBSET Request, NEW R \in SUBSET Request,
           Earlier(W, n), Later(R, n, k)
    PROVE  /\ Cardinality(ListenNumbers(W \union R) \cap (C \union Numbers(R)))
                 = Cardinality(ListenNumbers(W) \cap C) + k
           /\ OneKind(W \union R)
<1> DEFINE A == ListenNumbers(W) \cap C
           B == n + 1 .. n + k
           D == ListenNumbers(W \union R) \cap (C \union Numbers(R))
<1> USE DEF Earlier, Later, Numbers, OneKind
<1>1. \A m \in W \union R : m.rn \in Nat /\ m.kind \in {"put", "listen"}
  BY DEF Request
<1>2. ListenNumbers(W) \subseteq 0 .. n
  BY <1>1 DEF ListenNumbers
<1>3. ListenNumbers(R) = B
  <2>1. ASSUME NEW j \in ListenNumbers(R) PROVE j \in B
    <3>1. PICK m \in R : m.kind = "listen" /\ m.rn = j
      BY DEF ListenNumbers
    <3>2. m.rn > n /\ m.rn =< n + k /\ m.rn \in Nat
      BY <1>1, <3>1
    <3> QED BY <3>1, <3>2
  <2>2. ASSUME NEW j \in B PROVE j \in ListenNumbers(R)
    <3>1. PICK m \in R : m.rn = j
      OBVIOUS
    <3>2. m.kind = "listen"
      BY <3>1
    <3> QED BY <3>1, <3>2 DEF ListenNumbers
  <2> QED BY <2>1, <2>2
<1>4. ListenNumbers(W \union R) = ListenNumbers(W) \union B
  BY <1>3 DEF ListenNumbers
<1>5. \A j \in Numbers(R) : j > n /\ j \in Nat
  BY <1>1
<1>6. B \subseteq Numbers(R)
  OBVIOUS
<1>7. A \cap B = {} /\ C \cap B = {}
  BY <1>2
<1>8. D = A \union B
  <2>1. ListenNumbers(W) \cap Numbers(R) = {}
    BY <1>2, <1>5
  <2> QED BY <1>4, <1>6, <2>1
<1>9. IsFiniteSet(A) /\ IsFiniteSet(B) /\ Cardinality(B) = k
  <2>1. IsFiniteSet(0 .. n)
    BY FS_Interval
  <2>2. IsFiniteSet(A)
    BY <1>2, <2>1, FS_Subset
  <2>3. IsFiniteSet(B) /\ Cardinality(B) = IF n + 1 > n + k THEN 0 ELSE n + k - (n + 1) + 1
    BY FS_Interval
  <2> QED BY <2>2, <2>3
<1> HIDE DEF A, B, D
<1>10. Cardinality(D) = Cardinality(A) + k
  <2>1. Cardinality(A \union B) = Cardinality(A) + Cardinality(B) - Cardinality(A \cap B)
    BY <1>9, FS_Union
  <2>2. Cardinality(A \cap B) = 0
    BY <1>7, FS_EmptySet
  <2>3. Cardinality(A) \in Nat
    BY <1>9, FS_CardinalityType
  <2> QED BY <1>8, <1>9, <2>1, <2>2, <2>3
<1>11. ASSUME NEW m \in W \union R, NEW r \in W \union R, m.rn = r.rn PROVE m.kind = r.kind
  <2>1. CASE m \in R /\ r \in R
    BY <1>1, <1>11, <2>1
  <2>2. CASE m \notin R \/ r \notin R
    BY <1>1, <1>11, <2>2
  <2> QED BY <2>1, <2>2
<1> QED BY <1>10, <1>11 DEF A, D

\* Requests sent in a session: the first k are listens.
LEMMA CountAfterSend ==
    ASSUME NEW n \in Nat, NEW C \in SUBSET (0 .. n), NEW W \in SUBSET Request, NEW wire,
           Earlier(W, n), NEW reqs \in Seq(Request), NEW k \in 0 .. Len(reqs),
           \A i \in 1 .. Len(reqs) :
              reqs[i].rn = n + i /\ (reqs[i].kind = "listen" <=> i =< k),
           Send(n, C, wire, reqs), Wire' = W \union ToSet(reqs),
           unackedListensCount' = Cardinality(ListenNumbers(W) \cap C) + k,
           realtime' = "connected"
    PROVE  CountInv'
<1> DEFINE R == ToSet(reqs)
<1>1. Len(reqs) \in Nat /\ DOMAIN reqs = 1 .. Len(reqs) /\ k \in Nat
  BY LenProperties
<1>2. R \in SUBSET Request
  BY ToSetConcat
<1>3. ASSUME NEW m \in R
      PROVE  m.rn > n /\ m.rn =< n + Len(reqs) /\ (m.kind = "listen" <=> m.rn =< n + k)
  <2>1. PICK i \in 1 .. Len(reqs) : m = reqs[i]
    BY <1>1 DEF ToSet
  <2>2. m.rn = n + i /\ (m.kind = "listen" <=> i =< k) /\ i \in Nat /\ i >= 1 /\ i =< Len(reqs)
    BY <1>1, <2>1
  <2> QED BY ONLY n \in Nat, <1>1, <2>2
<1>4. ASSUME NEW j \in n + 1 .. n + k PROVE \E m \in R : m.rn = j
  <2>1. j - n \in 1 .. Len(reqs) /\ n + (j - n) = j
    BY <1>1
  <2>2. reqs[j - n].rn = j
    BY <2>1
  <2>3. reqs[j - n] \in R
    BY <1>1, <2>1 DEF ToSet
  <2> QED BY <2>2, <2>3
<1>5. {reqs[i].rn : i \in DOMAIN reqs} = Numbers(R)
  BY DEF ToSet, Numbers
<1> HIDE DEF R
<1>6. /\ Cardinality(ListenNumbers(W \union R) \cap (C \union Numbers(R)))
            = Cardinality(ListenNumbers(W) \cap C) + k
      /\ OneKind(W \union R)
  <2>1. Later(R, n, k)
    BY <1>3, <1>4 DEF Later
  <2>2. /\ n \in Nat /\ k \in Nat /\ C \in SUBSET (0 .. n) /\ W \in SUBSET Request
        /\ R \in SUBSET Request /\ Earlier(W, n)
    BY <1>1, <1>2
  <2> QED BY ONLY <2>1, <2>2, CountSent, Zenon
<1>7. /\ requestNumber' = n + Len(reqs) /\ requestCBHash' = C \union Numbers(R)
      /\ Wire' = W \union R
  BY <1>5 DEF Send, R
<1>8. Awaited' = ListenNumbers(W \union R) \cap (C \union Numbers(R))
  BY <1>7 DEF Awaited
<1>9. \A m \in W : m.rn =< n + Len(reqs)
  <2> TAKE m \in W
  <2>1. m.rn \in Nat /\ m.rn =< n
    BY DEF Request, Earlier
  <2> QED BY <1>1, <2>1
<1>10. \A m \in W \union R : m.rn =< n + Len(reqs)
  BY <1>3, <1>9
<1>11. \A j \in C \union Numbers(R) : j =< n + Len(reqs)
  BY <1>1, <1>3 DEF Numbers
<1> QED BY <1>6, <1>7, <1>8, <1>10, <1>11 DEF CountInv, OneKind

\* A session ends, or none goes on.
LEMMA CountCleared ==
    ASSUME CountInv, Wire' \subseteq Wire, requestCBHash' = {}, requestNumber' = 0,
           unackedListensCount' = 0, realtime' # "connected" \/ Wire' = {}
    PROVE  CountInv'
<1>1. Awaited' = {}
  BY DEF Awaited
<1>2. Cardinality({}) = 0
  BY FS_EmptySet
<1> QED BY <1>1, <1>2 DEF CountInv

\* Requests move, or are dropped while there is no session.
LEMMA CountKept ==
    ASSUME CountInv, Wire' \subseteq Wire, Wire' = Wire \/ requestCBHash = {},
           UNCHANGED <<requestCBHash, requestNumber, unackedListensCount>>,
           realtime' = "connected" <=> realtime = "connected"
    PROVE  CountInv'
<1>1. Awaited' = Awaited
  BY DEF Awaited
<1> QED BY <1>1 DEF CountInv

LEMMA CountBounds ==
    ASSUME SessionTypes, CountInv
    PROVE  /\ requestCBHash \in SUBSET (0 .. requestNumber)
           /\ IsFiniteSet(Awaited) /\ Cardinality(Awaited) \in Nat
           /\ requestCBHash = {} => unackedListensCount = 0
<1>1. requestCBHash \in SUBSET (0 .. requestNumber)
  BY DEF SessionTypes, CountInv
<1>2. IsFiniteSet(0 .. requestNumber)
  BY FS_Interval DEF SessionTypes
<1>3. Awaited \subseteq 0 .. requestNumber
  BY <1>1 DEF Awaited
<1>4. IsFiniteSet(Awaited)
  BY <1>2, <1>3, FS_Subset
<1>5. requestCBHash = {} => Awaited = {}
  BY DEF Awaited
<1>6. Cardinality({}) = 0
  BY FS_EmptySet
<1> QED BY <1>1, <1>4, <1>5, <1>6, FS_CardinalityType DEF CountInv

\* The requests that RestoreState sends.
LEMMA RestoredRequests ==
    ASSUME NEW n \in Nat, NEW ls \in Seq(Nat), NEW ps \in Seq(Nat), NEW reqs,
           reqs = Requests(n, "listen", ls) \o Requests(n + Len(ls), "put", ps)
    PROVE  /\ reqs \in Seq(Request) /\ Len(ls) \in 0 .. Len(reqs)
           /\ \A i \in 1 .. Len(reqs) :
                 reqs[i].rn = n + i /\ (reqs[i].kind = "listen" <=> i =< Len(ls))
<1> DEFINE L == Requests(n, "listen", ls)
           P == Requests(n + Len(ls), "put", ps)
<1>1. Len(ls) \in Nat /\ Len(ps) \in Nat /\ n + Len(ls) \in Nat
  BY LenProperties
<1>2. /\ L \in Seq(Request) /\ Len(L) = Len(ls)
      /\ \A i \in 1 .. Len(ls) : L[i] = [rn |-> n + i, kind |-> "listen", id |-> ls[i]]
  BY RequestsOfOneKind
<1>3. /\ P \in Seq(Request) /\ Len(P) = Len(ps)
      /\ \A i \in 1 .. Len(ps) :
            P[i] = [rn |-> n + Len(ls) + i, kind |-> "put", id |-> ps[i]]
  BY <1>1, RequestsOfOneKind
<1>4. reqs = L \o P
  OBVIOUS
<1> HIDE DEF L, P
<1>5. /\ reqs \in Seq(Request) /\ Len(reqs) = Len(ls) + Len(ps)
      /\ \A i \in 1 .. Len(ls) + Len(ps) :
            reqs[i] = IF i =< Len(ls) THEN L[i] ELSE P[i - Len(ls)]
  <2>1. /\ L \o P \in Seq(Request) /\ Len(L \o P) = Len(L) + Len(P)
        /\ \A i \in 1 .. Len(L) + Len(P) :
              (L \o P)[i] = IF i =< Len(L) THEN L[i] ELSE P[i - Len(L)]
    <3>1. L \in Seq(Request)
      BY <1>2
    <3>2. P \in Seq(Request)
      BY <1>3
    <3> QED BY <3>1, <3>2, ConcatProperties
  <2> QED BY <1>2, <1>3, <1>4, <2>1
<1>6. ASSUME NEW i \in 1 .. Len(reqs)
      PROVE  reqs[i].rn = n + i /\ (reqs[i].kind = "listen" <=> i =< Len(ls))
  <2>1. CASE i =< Len(ls)
    <3>1. reqs[i] = [rn |-> n + i, kind |-> "listen", id |-> ls[i]]
      <4>1. i \in 1 .. Len(ls) /\ i \in 1 .. Len(ls) + Len(ps)
        BY <1>1, <1>5, <2>1
      <4>2. reqs[i] = L[i]
        BY <1>5, <2>1, <4>1
      <4> QED BY <1>2, <4>1, <4>2
    <3> QED BY <2>1, <3>1
  <2>2. CASE ~(i =< Len(ls))
    <3>1. i - Len(ls) \in 1 .. Len(ps) /\ n + Len(ls) + (i - Len(ls)) = n + i
      BY <1>1, <1>5, <2>2
    <3>2. reqs[i] = [rn |-> n + i, kind |-> "put", id |-> ps[i - Len(ls)]]
      BY <1>3, <1>5, <2>2, <3>1
    <3> QED BY <2>2, <3>2
  <2> QED BY <2>1, <2>2
<1> QED BY <1>1, <1>5, <1>6

\* Requests sent on the wire.
LEMMA WireSent ==
    ASSUME NEW n, NEW C, NEW wire \in Seq(Request), NEW reqs \in Seq(Request),
           Send(n, C, wire, reqs), UNCHANGED <<answers, listening>>
    PROVE  Wire' = ToSet(answers) \union ToSet(wire) \union listening \union ToSet(reqs)
<1>1. ToSet(wire \o reqs) = ToSet(wire) \union ToSet(reqs)
  BY ToSetConcat
<1>2. uplink' = wire \o reqs /\ answers' = answers /\ listening' = listening
  BY DEF Send
<1> QED BY <1>1, <1>2 DEF Wire

\* One request sent in the session there is.
LEMMA OneSentCount ==
    ASSUME SessionTypes, CountInv, NEW kind \in {"put", "listen"}, NEW id \in Nat,
           Send(requestNumber, requestCBHash, uplink, Requests(requestNumber, kind, <<id>>)),
           UNCHANGED <<answers, listening, realtime>>, realtime = "connected",
           unackedListensCount' = unackedListensCount + (IF kind = "listen" THEN 1 ELSE 0)
    PROVE  CountInv'
<1> DEFINE reqs == Requests(requestNumber, kind, <<id>>)
           k == IF kind = "listen" THEN 1 ELSE 0
           n == requestNumber
           C == requestCBHash
           W == Wire
<1>1. /\ reqs \in Seq(Request) /\ Len(reqs) = 1
      /\ reqs[1] = [rn |-> n + 1, kind |-> kind, id |-> id]
  BY OneRequest DEF SessionTypes
<1>2. k \in 0 .. Len(reqs) /\ (kind = "listen" <=> 1 =< k)
  BY <1>1
<1>3. \A i \in 1 .. Len(reqs) : reqs[i].rn = n + i /\ (reqs[i].kind = "listen" <=> i =< k)
  BY <1>1, <1>2
<1>4. n \in Nat /\ C \in SUBSET (0 .. n) /\ W \in SUBSET Request /\ Earlier(W, n)
  BY CountBounds, WireRequests DEF SessionTypes, CountInv, Earlier
<1>5. Wire' = W \union ToSet(reqs)
  BY <1>1, WireSent DEF Wire, SessionTypes
<1>6. unackedListensCount' = Cardinality(ListenNumbers(W) \cap C) + k /\ realtime' = "connected"
  BY DEF CountInv, Awaited
<1>7. Send(n, C, uplink, reqs)
  OBVIOUS
<1> HIDE DEF reqs, k, n, C, W
<1> QED BY ONLY <1>1, <1>2, <1>3, <1>4, <1>5, <1>6, <1>7, CountAfterSend, Zenon

\* The state restored, after the requests of wire.
LEMMA RestoredCount ==
    ASSUME WriteTypes, SessionTypes, NEW n \in Nat, NEW C \in SUBSET (0 .. n),
           NEW wire \in Seq(Request), Puts(wire) = {}, Ascending(wire),
           NEW W \in SUBSET Request, W = ToSet(answers) \union ToSet(wire) \union listening,
           Earlier(W, n), RestoreState(n, C, wire), UNCHANGED <<answers, listening>>,
           unackedListensCount = Cardinality(ListenNumbers(W) \cap C),
           realtime' = "connected"
    PROVE  CountInv'
<1>1. /\ outstandingPuts \in SUBSET Nat /\ IsFiniteSet(outstandingPuts)
      /\ listens \in SUBSET Nat /\ IsFiniteSet(listens) /\ unackedListensCount \in Int
  BY FiniteIssued DEF SessionTypes
<1>2. C \in SUBSET Nat
  OBVIOUS
<1>3. PICK ls \in Seq(Nat), ps \in Seq(Nat) :
        /\ Len(ls) = Cardinality(listens)
        /\ Send(n, C, wire, Requests(n, "listen", ls) \o Requests(n + Len(ls), "put", ps))
  BY <1>1, <1>2, Restored, Zenon
<1>4. unackedListensCount' = unackedListensCount + Cardinality(listens)
  BY <1>1, <1>2, Restored, Zenon
<1> DEFINE reqs == Requests(n, "listen", ls) \o Requests(n + Len(ls), "put", ps)
           k == Len(ls)
<1>5. /\ reqs \in Seq(Request) /\ k \in 0 .. Len(reqs)
      /\ \A i \in 1 .. Len(reqs) :
            reqs[i].rn = n + i /\ (reqs[i].kind = "listen" <=> i =< k)
  BY RestoredRequests, ZenonT(60)
<1>6. Send(n, C, wire, reqs)
  BY <1>3
<1>7. unackedListensCount' = Cardinality(ListenNumbers(W) \cap C) + k
  BY <1>3, <1>4
<1> HIDE DEF reqs, k
<1>8. Wire' = W \union ToSet(reqs)
  BY <1>5, <1>6, WireSent
<1> QED BY ONLY <1>5, <1>6, <1>7, <1>8, CountAfterSend, Zenon,
           n \in Nat, C \in SUBSET (0 .. n), W \in SUBSET Request, Earlier(W, n),
           realtime' = "connected"

LEMMA SetValueCount ==
    ASSUME QueueTypes, CountInv, NEW footprint \in Footprints, SetValue(footprint)
    PROVE  CountInv'
<1> DEFINE w == Len(issued) + 1
<1>1. w \in Nat
  BY Issuing DEF SetValue, QueueTypes
<1>2. UNCHANGED <<connectionState, realtime, answers, listening, unackedListensCount>>
  BY DEF SetValue, connectionVars, listenVars
<1>3. CASE canSendWrites
  <2>1. Send(requestNumber, requestCBHash, uplink, Requests(requestNumber, "put", <<w>>))
    BY <1>3 DEF SetValue
  <2>2. realtime = "connected"
    BY <1>3 DEF canSendWrites, connected, QueueTypes, ConnectionInv, SocketMatchesState
  <2>3. unackedListensCount' = unackedListensCount + (IF "put" = "listen" THEN 1 ELSE 0)
    BY <1>2 DEF QueueTypes, SessionTypes
  <2> HIDE DEF w
  <2> QED BY <1>1, <1>2, <2>1, <2>2, <2>3, OneSentCount DEF QueueTypes
<1>4. CASE ~canSendWrites
  <2>1. UNCHANGED <<requestNumber, requestCBHash, uplink>>
    BY <1>4 DEF SetValue
  <2>2. Wire' = Wire
    BY <1>2, <2>1 DEF Wire
  <2> QED BY <1>2, <2>1, <2>2, CountKept
<1> QED BY <1>3, <1>4

LEMMA ListenCount ==
    ASSUME QueueTypes, CountInv, Listen
    PROVE  CountInv'
<1> DEFINE l == listened + 1
<1>1. l \in Nat
  BY DEF QueueTypes, SessionTypes
<1>2. UNCHANGED <<connectionState, realtime, answers, listening>>
  BY DEF Listen, connectionVars
<1>3. CASE connected
  <2>1. /\ Send(requestNumber, requestCBHash, uplink, Requests(requestNumber, "listen", <<l>>))
        /\ unackedListensCount' = unackedListensCount + (IF "listen" = "listen" THEN 1 ELSE 0)
    BY <1>3 DEF Listen
  <2>2. realtime = "connected"
    BY <1>3 DEF QueueTypes, ConnectionInv, SocketMatchesState
  <2> HIDE DEF l
  <2> QED BY <1>1, <1>2, <2>1, <2>2, OneSentCount DEF QueueTypes
<1>4. CASE ~connected
  <2>1. UNCHANGED <<requestNumber, requestCBHash, uplink, unackedListensCount>>
    BY <1>4 DEF Listen
  <2>2. Wire' = Wire
    BY <1>2, <2>1 DEF Wire
  <2> QED BY <1>2, <2>1, <2>2, CountKept
<1> QED BY <1>3, <1>4

LEMMA OnReadyCount ==
    ASSUME QueueTypes, WireInv, CountInv, OnReady
    PROVE  CountInv'
<1>1. /\ realtime = "connecting" /\ realtime' = "connected"
      /\ connectionState' \in {"Authenticating", "Connected"}
      /\ UNCHANGED <<listening, answers>>
  BY DEF OnReady, Handshake
<1>2. /\ answers = <<>> /\ listening = {} /\ requestCBHash = {} /\ requestNumber = 0
      /\ unackedListensCount = 0
  BY <1>1, CountBounds DEF WireInv, CountInv, QueueTypes
<1>3. ToSet(<<>>) = {} /\ Cardinality({}) = 0
  BY ToSetSmall, FS_EmptySet
<1>4. CASE connectionState' = "Connected"
  <2>1. RestoreState(0, {}, <<>>)
    BY <1>4 DEF OnReady
  <2>2. /\ 0 \in Nat /\ {} \in SUBSET (0 .. 0) /\ {} \in SUBSET Request
        /\ {} = ToSet(answers) \union ToSet(<<>>) \union listening
    BY <1>2, <1>3
  <2>3. Earlier({}, 0)
    BY DEF Earlier
  <2>4. unackedListensCount = Cardinality(ListenNumbers({}) \cap {})
    BY <1>2, <1>3
  <2> DEFINE n == 0
             C == {}
             wire == <<>>
             W == {}
  <2>5. /\ RestoreState(n, C, wire) /\ n \in Nat /\ C \in SUBSET (0 .. n)
        /\ W \in SUBSET Request /\ W = ToSet(answers) \union ToSet(wire) \union listening
        /\ Earlier(W, n) /\ unackedListensCount = Cardinality(ListenNumbers(W) \cap C)
        /\ wire \in Seq(Request) /\ Puts(wire) = {} /\ Ascending(wire)
    BY <2>1, <2>2, <2>3, <2>4, NoPuts
  <2> HIDE DEF n, C, wire, W
  <2> QED BY <1>1, <2>5, RestoredCount DEF QueueTypes
<1>5. CASE connectionState' = "Authenticating"
  <2>1. uplink' = <<>> /\ UNCHANGED <<requestNumber, requestCBHash, unackedListensCount>>
    BY <1>5 DEF OnReady
  <2>2. Wire' = {}
    BY <1>1, <1>2, <1>3, <2>1 DEF Wire
  <2> QED BY <1>2, <2>1, <2>2, CountCleared
<1> QED BY <1>1, <1>4, <1>5

LEMMA OnAuthenticatedCount ==
    ASSUME QueueTypes, WireInv, CountInv, OnAuthenticated
    PROVE  CountInv'
<1>1. /\ pendingAuths # <<>> /\ UNCHANGED realtime /\ realtime = "connected"
      /\ UNCHANGED <<listening, answers>>
  BY DEF OnAuthenticated, Authenticated, QueueTypes, ConnectionInv, SocketMatchesState
<1>2. CASE Head(pendingAuths)
  <2>1. connectionState = "Authenticating"
    <3>1. Head(pendingAuths) = pendingAuths[1] /\ 1 \in DOMAIN pendingAuths
      BY <1>1, HeadTailProperties, EmptySeq, LenProperties
         DEF QueueTypes, ConnectionInv, ConnectionTypeOK
    <3> QED BY <1>2, <3>1 DEF QueueTypes, ConnectionInv, NeverStranded
  <2>2. Puts(uplink) = {} /\ Ascending(uplink)
    BY <2>1 DEF WireInv, Sent
  <2>3. RestoreState(requestNumber, requestCBHash, uplink)
    BY <1>2 DEF OnAuthenticated
  <2>4. /\ requestNumber \in Nat /\ requestCBHash \in SUBSET (0 .. requestNumber)
        /\ uplink \in Seq(Request) /\ Wire \in SUBSET Request
    BY CountBounds, WireRequests DEF QueueTypes, SessionTypes
  <2>5. Earlier(Wire, requestNumber)
    BY <1>1 DEF CountInv, Earlier
  <2>6. /\ Wire = ToSet(answers) \union ToSet(uplink) \union listening
        /\ unackedListensCount = Cardinality(ListenNumbers(Wire) \cap requestCBHash)
    BY DEF CountInv, Awaited, Wire
  <2> QED BY <1>1, <2>2, <2>3, <2>4, <2>5, <2>6, RestoredCount DEF QueueTypes
<1>3. CASE ~Head(pendingAuths)
  <2>1. UNCHANGED <<requestNumber, requestCBHash, uplink, unackedListensCount>>
    BY <1>3 DEF OnAuthenticated
  <2>2. Wire' = Wire
    BY <1>1, <2>1 DEF Wire
  <2> QED BY <1>1, <2>1, <2>2, CountKept
<1> QED BY <1>2, <1>3

LEMMA OnDisconnectCount ==
    ASSUME QueueTypes, WireInv, CountInv, OnDisconnect
    PROVE  CountInv'
<1>1. realtime' = "none" /\ UNCHANGED uplink
  BY DEF OnDisconnect, Disconnecting, AuthFailed, AuthRevoked, Refuse, ConnectionLost,
         ServerKill, GoOffline, Interrupt, Close
<1>2. CASE realtime # "none"
  <2>1. /\ requestCBHash' = {} /\ unackedListensCount' = 0 /\ requestNumber' = 0
        /\ listening' = {} /\ answers' = <<>>
    BY <1>2 DEF OnDisconnect, EndSession
  <2>2. Wire' \subseteq Wire
    BY <1>1, <2>1, ToSetSmall DEF Wire
  <2> QED BY <1>1, <2>1, <2>2, CountCleared
<1>3. CASE realtime = "none"
  <2>1. UNCHANGED <<requestNumber, requestCBHash, listening, answers, unackedListensCount>>
    BY <1>3 DEF OnDisconnect, sessionVars
  <2>2. Wire' = Wire
    BY <1>1, <2>1 DEF Wire
  <2> QED BY <1>1, <1>3, <2>1, <2>2, CountKept
<1> QED BY <1>2, <1>3

LEMMA RestartCount ==
    ASSUME CountInv, Restart
    PROVE  CountInv'
<1>1. /\ realtime' = "none" /\ UNCHANGED uplink /\ answers' = <<>> /\ listening' = {}
      /\ requestNumber' = 0 /\ requestCBHash' = {} /\ unackedListensCount' = 0
  BY DEF Restart, Relaunch, EndSession
<1>2. Wire' \subseteq Wire
  BY <1>1, ToSetSmall DEF Wire
<1> QED BY <1>1, <1>2, CountCleared

\* An answer is taken: the number of a listen is no longer awaited.
LEMMA AnsweredCount ==
    ASSUME SessionTypes, WireInv, CountInv, NEW kind \in {"put", "listen"}, Answered(kind),
           UNCHANGED <<realtime, requestNumber, listening, uplink>>,
           unackedListensCount' = unackedListensCount - (IF kind = "listen" THEN 1 ELSE 0)
    PROVE  CountInv'
<1> DEFINE h == Head(answers)
<1>1. /\ answers # <<>> /\ h \in Request /\ h.kind = kind /\ answers' = Tail(answers)
      /\ requestCBHash' = requestCBHash \ {h.rn} /\ h.rn \in requestCBHash
  BY AnsweredTypes DEF Answered
<1>2. ToSet(answers) = ToSet(answers') \union {h} /\ h \in ToSet(answers)
  BY <1>1, ToSetTail DEF SessionTypes
<1> HIDE DEF h
<1>3. Wire = Wire' \union {h} /\ h \in Wire
  BY <1>2 DEF Wire
<1>4. Awaited' = Awaited \ {h.rn}
  <2>1. ListenNumbers(Wire) \ {h.rn} = ListenNumbers(Wire') \ {h.rn}
    BY <1>3 DEF ListenNumbers
  <2> QED BY <1>1, <2>1 DEF Awaited
<1>5. h.rn \in Awaited <=> kind = "listen"
  <2>1. ASSUME h.rn \in Awaited PROVE h.kind = "listen"
    <3>1. PICK m \in Wire : m.kind = "listen" /\ m.rn = h.rn
      BY <2>1 DEF Awaited, ListenNumbers
    <3> QED BY <1>3, <3>1 DEF CountInv
  <2>2. ASSUME h.kind = "listen" PROVE h.rn \in Awaited
    BY <1>1, <1>3, <2>2 DEF Awaited, ListenNumbers
  <2> QED BY <1>1, <2>1, <2>2
<1>6. unackedListensCount' = Cardinality(Awaited')
  <2>1. IsFiniteSet(Awaited) /\ Cardinality(Awaited) \in Nat
    BY CountBounds
  <2>2. Cardinality(Awaited \ {h.rn})
          = IF h.rn \in Awaited THEN Cardinality(Awaited) - 1 ELSE Cardinality(Awaited)
    BY <2>1, FS_RemoveElement
  <2> QED BY <1>4, <1>5, <2>1, <2>2 DEF CountInv
<1> QED BY <1>1, <1>3, <1>6 DEF CountInv

LEMMA ServerCount ==
    ASSUME QueueTypes, WireInv, CountInv, Server
    PROVE  CountInv'
<1>1. UNCHANGED <<realtime, requestNumber, requestCBHash, unackedListensCount>>
  BY DEF Server, ReceivePut, ReceiveListen, AnswerListen, connectionVars, listenVars
<1>2. answers \in Seq(Request) /\ uplink \in Seq(Request)
  BY DEF QueueTypes, SessionTypes
<1> DEFINE h == Head(uplink)
<1>3. ASSUME uplink # <<>>, uplink' = Tail(uplink)
      PROVE  ToSet(uplink) = ToSet(uplink') \union {h} /\ h \in ToSet(uplink) /\ h \in Request
  BY <1>2, <1>3, ToSetTail, PutsTail
<1> HIDE DEF h
<1>4. ASSUME NEW m \in Request, answers' = Append(answers, m)
      PROVE  ToSet(answers') = ToSet(answers) \union {m}
  <2>1. answers' = answers \o <<m>>
    BY <1>2, <1>4, AppendIsConcat
  <2> QED BY <1>2, <2>1, ToSetAppend
<1>5. CASE ReceivePut
  <2>1. uplink # <<>> /\ uplink' = Tail(uplink) /\ UNCHANGED listening
        /\ answers' = IF realtime = "connected" THEN Append(answers, h) ELSE answers
    BY <1>5 DEF ReceivePut, h
  <2>2. CASE realtime = "connected"
    <3>1. Wire' = Wire
      BY <1>3, <1>4, <2>1, <2>2 DEF Wire
    <3> QED BY <1>1, <3>1, CountKept
  <2>3. CASE realtime # "connected"
    <3>1. Wire' \subseteq Wire /\ requestCBHash = {}
      BY <1>3, <2>1, <2>3 DEF Wire, CountInv
    <3> QED BY <1>1, <3>1, CountKept
  <2> QED BY <2>2, <2>3
<1>6. CASE ReceiveListen
  <2>1. uplink # <<>> /\ uplink' = Tail(uplink) /\ UNCHANGED answers
        /\ listening' = IF realtime = "connected" THEN listening \union {h} ELSE listening
    BY <1>6 DEF ReceiveListen, h
  <2>2. CASE realtime = "connected"
    <3>1. Wire' = Wire
      BY <1>3, <2>1, <2>2 DEF Wire
    <3> QED BY <1>1, <3>1, CountKept
  <2>3. CASE realtime # "connected"
    <3>1. Wire' \subseteq Wire /\ requestCBHash = {}
      BY <1>3, <2>1, <2>3 DEF Wire, CountInv
    <3> QED BY <1>1, <3>1, CountKept
  <2> QED BY <2>2, <2>3
<1>7. ASSUME NEW m \in listening, AnswerListen(m) PROVE CountInv'
  <2>1. listening' = listening \ {m} /\ answers' = Append(answers, m) /\ UNCHANGED uplink
    BY <1>7 DEF AnswerListen
  <2>2. m \in Request
    BY DEF QueueTypes, SessionTypes
  <2>3. ToSet(answers') = ToSet(answers) \union {m}
    BY <1>4, <2>1, <2>2
  <2>4. Wire' = Wire
    BY <2>1, <2>3 DEF Wire
  <2> QED BY <1>1, <2>4, CountKept
<1> QED BY <1>5, <1>6, <1>7 DEF Server

LEMMA CountStep ==
    ASSUME QueueTypes, WireInv, CountInv, [Next]_vars
    PROVE  CountInv'
<1>1. ASSUME NEW footprint \in Footprints, SetValue(footprint) PROVE CountInv'
  BY <1>1, SetValueCount
<1>2. CASE PutAnswered
  <2>1. /\ Answered("put")
        /\ UNCHANGED <<realtime, requestNumber, listening, uplink, unackedListensCount>>
    BY <1>2 DEF PutAnswered, connectionVars, listenVars
  <2>2. unackedListensCount' = unackedListensCount - (IF "put" = "listen" THEN 1 ELSE 0)
    BY <2>1 DEF QueueTypes, SessionTypes
  <2> QED BY <2>1, <2>2, AnsweredCount DEF QueueTypes
<1>3. ASSUME NEW ok \in BOOLEAN, ListenAnswered(ok) PROVE CountInv'
  <2>1. /\ Answered("listen") /\ UNCHANGED <<realtime, requestNumber, listening, uplink>>
        /\ unackedListensCount' = unackedListensCount - (IF "listen" = "listen" THEN 1 ELSE 0)
    BY <1>3 DEF ListenAnswered, connectionVars
  <2> QED BY <2>1, AnsweredCount DEF QueueTypes
<1>4. CASE PurgeOutstandingWrites \/ UNCHANGED vars \/ \E l \in listens : Unlisten(l)
  <2>1. UNCHANGED <<realtime, answers, uplink, listening, requestNumber, requestCBHash,
                    unackedListensCount>>
    BY <1>4 DEF Unlisten, PurgeOutstandingWrites, vars, queueVars, connectionVars, sessionVars,
                listenVars
  <2>2. Wire' = Wire
    BY <2>1 DEF Wire
  <2> QED BY <2>1, <2>2, CountKept
<1>5. CASE ConnectionStep
  <2>1. UNCHANGED <<answers, uplink, listening, requestNumber, requestCBHash,
                    unackedListensCount>>
    BY <1>5 DEF ConnectionStep, queueVars, sessionVars, listenVars
  <2>2. Wire' = Wire
    BY <2>1 DEF Wire
  <2>3. realtime' = "connected" <=> realtime = "connected"
    BY <1>5 DEF ConnectionStep, Quiet, Open, GoOnline, Resume, Retry, OpenConnection,
         TokenFailed, StaleTokenFetched, BecameReachable, TokenFetched, RefreshAuthToken,
         QueueTypes, ConnectionInv, SocketMatchesState, FetchingOffline,
         RetriesFromDisconnected, connected
  <2> QED BY <2>1, <2>2, <2>3, CountKept
<1>6. CASE Listen \/ OnReady \/ OnAuthenticated \/ OnDisconnect \/ Restart \/ Server
  BY <1>6, ListenCount, OnReadyCount, OnAuthenticatedCount, OnDisconnectCount,
     RestartCount, ServerCount
<1> QED BY <1>1, <1>2, <1>3, <1>4, <1>5, <1>6 DEF Next, Client

LEMMA InitCount == Init => CountInv
<1> SUFFICES ASSUME Init PROVE CountInv
  OBVIOUS
<1>1. /\ answers = <<>> /\ uplink = <<>> /\ listening = {} /\ requestCBHash = {}
      /\ requestNumber = 0 /\ unackedListensCount = 0 /\ realtime = "none"
  BY DEF Init, ConnectionInit
<1>2. Wire = {}
  BY <1>1, ToSetSmall DEF Wire
<1>3. Awaited = {} /\ Cardinality({}) = 0
  BY <1>1, FS_EmptySet DEF Awaited
<1> QED BY <1>1, <1>2, <1>3 DEF CountInv

LEMMA CountInvariant == Spec => []CountInv
<1>1. QueueInv /\ CountInv /\ [Next]_vars => CountInv'
  BY CountStep DEF QueueInv
<1> QED BY InitCount, <1>1, QueueInvariant, PTL DEF Spec

(***************************************************************************)
(* Types; in particular the count of unanswered listens is never negative: *)
(* it is the number of listens that are sent and whose callback waits, in  *)
(* every session.                                                          *)
(***************************************************************************)
THEOREM QueueTypesHold == Spec => []TypeOK
<1>1. ASSUME QueueInv, CountInv PROVE TypeOK
  <2>1. unackedListensCount \in Nat
    BY <1>1, CountBounds DEF QueueInv, QueueTypes, CountInv
  <2>2. listens \in SUBSET Nat
    BY <1>1, FiniteIssued DEF QueueInv, QueueTypes
  <2> QED BY <1>1, <2>1, <2>2
          DEF TypeOK, QueueInv, QueueTypes, WriteTypes, SessionTypes, ConnectionInv
<1>2. QueueInv /\ CountInv => TypeOK
  BY <1>1
<1> QED BY <1>2, QueueInvariant, CountInvariant, PTL

-----------------------------------------------------------------------------
(* Completions in the order of the writes, when there are no listens.      *)

Increasing(s) == \A i, j \in DOMAIN s : i < j => s[i] < s[j]

LEMMA IncreasingConcat ==
    ASSUME NEW s \in Seq(Nat), NEW t \in Seq(Nat), Increasing(s), Increasing(t),
           Below(ToSet(s), ToSet(t))
    PROVE  Increasing(s \o t)
<1> DEFINE u == s \o t
<1>1. /\ DOMAIN u = 1 .. Len(s) + Len(t) /\ DOMAIN s = 1 .. Len(s) /\ DOMAIN t = 1 .. Len(t)
      /\ Len(s) \in Nat /\ Len(t) \in Nat
      /\ \A i \in 1 .. Len(s) + Len(t) : u[i] = IF i =< Len(s) THEN s[i] ELSE t[i - Len(s)]
  BY ConcatProperties, LenProperties
<1> HIDE DEF u
<1>2. ASSUME NEW i \in DOMAIN u, i =< Len(s)
      PROVE  i \in DOMAIN s /\ u[i] = s[i] /\ u[i] \in ToSet(s)
  BY <1>1, <1>2 DEF ToSet
<1>3. ASSUME NEW i \in DOMAIN u, ~(i =< Len(s))
      PROVE  i - Len(s) \in DOMAIN t /\ u[i] = t[i - Len(s)] /\ u[i] \in ToSet(t)
  BY <1>1, <1>3 DEF ToSet
<1>4. ASSUME NEW i \in DOMAIN u, NEW j \in DOMAIN u, i < j PROVE u[i] < u[j]
  <2>1. CASE i =< Len(s) /\ j =< Len(s)
    BY <1>2, <1>4, <2>1 DEF Increasing
  <2>2. CASE i =< Len(s) /\ ~(j =< Len(s))
    BY <1>2, <1>3, <2>2 DEF Below
  <2>3. CASE ~(i =< Len(s))
    <3>1. ~(j =< Len(s)) /\ i - Len(s) < j - Len(s)
      BY <1>1, <1>4, <2>3
    <3> QED BY <1>3, <2>3, <3>1 DEF Increasing
  <2> QED BY <2>1, <2>2, <2>3
<1> QED BY <1>4 DEF Increasing, u

\* NoListens with its parts named.
OnlyPuts == listened = 0 /\ unackedListensCount = 0 /\ \A m \in Wire : m.kind = "put"
InOrderSoFar ==
    /\ putsToAck = <<>>
    /\ Increasing(completed) /\ Below(ToSet(completed), outstandingPuts)

LEMMA NoListensParts == NoListens <=> (MaxListens = 0 => OnlyPuts /\ InOrderSoFar)
BY DEF NoListens, OnlyPuts, InOrderSoFar, Increasing

\* A restored state adds puts only.
LEMMA RestoredPuts ==
    ASSUME WriteTypes, SessionTypes, OnlyPuts, NEW n \in Nat, NEW C \in SUBSET Nat,
           NEW wire \in Seq(Request), Puts(wire) = {}, Ascending(wire),
           ToSet(wire) \subseteq ToSet(uplink),
           RestoreState(n, C, wire), UNCHANGED <<answers, listening, listened>>
    PROVE  OnlyPuts'
<1>1. listens = {} /\ Cardinality({}) = 0
  BY FS_EmptySet DEF OnlyPuts, SessionTypes
<1>2. /\ outstandingPuts \in SUBSET Nat /\ IsFiniteSet(outstandingPuts)
      /\ listens \in SUBSET Nat /\ IsFiniteSet(listens) /\ unackedListensCount \in Int
  BY FiniteIssued DEF SessionTypes
<1>3. PICK ls \in Seq(Nat), ps \in Seq(Nat) :
        /\ Len(ls) = Cardinality(listens)
        /\ Send(n, C, wire, Requests(n, "listen", ls) \o Requests(n + Len(ls), "put", ps))
  BY <1>2, Restored, Zenon
<1>4. unackedListensCount' = unackedListensCount + Cardinality(listens)
  BY <1>2, Restored, Zenon
<1> DEFINE reqs == Requests(n, "listen", ls) \o Requests(n + Len(ls), "put", ps)
<1>5. /\ reqs \in Seq(Request)
      /\ \A i \in 1 .. Len(reqs) : reqs[i].kind = "listen" <=> i =< Len(ls)
  BY RestoredRequests, ZenonT(60)
<1>6. Send(n, C, wire, reqs)
  BY <1>3
<1> HIDE DEF reqs
<1>7. ASSUME NEW m \in ToSet(reqs) PROVE m.kind = "put"
  <2>1. PICK i \in DOMAIN reqs : m = reqs[i]
    BY DEF ToSet
  <2>2. i \in 1 .. Len(reqs) /\ reqs[i].kind \in {"put", "listen"}
    BY <1>5, RequestMembers
  <2>3. ~(i =< Len(ls))
    BY <1>1, <1>3, <2>2
  <2> QED BY <1>5, <2>1, <2>2, <2>3
<1>8. Wire' = ToSet(answers) \union ToSet(wire) \union listening \union ToSet(reqs)
  BY <1>5, <1>6, WireSent
<1>9. \A m \in Wire' : m.kind = "put"
  BY <1>7, <1>8 DEF OnlyPuts, Wire
<1> QED BY <1>1, <1>4, <1>9 DEF OnlyPuts

LEMMA OnlyPutsKept ==
    ASSUME OnlyPuts, Wire' \subseteq Wire, UNCHANGED listened,
           unackedListensCount' = 0 \/ UNCHANGED unackedListensCount
    PROVE  OnlyPuts'
BY DEF OnlyPuts

LEMMA SetValuePuts ==
    ASSUME QueueTypes, OnlyPuts, NEW footprint \in Footprints, SetValue(footprint)
    PROVE  OnlyPuts'
<1> DEFINE w == Len(issued) + 1
<1>1. w \in Nat /\ requestNumber \in Nat /\ uplink \in Seq(Request)
  BY Issuing DEF SetValue, QueueTypes, SessionTypes
<1>2. UNCHANGED <<answers, listening, listened, unackedListensCount>>
  BY DEF SetValue, listenVars
<1>3. CASE canSendWrites
  <2> DEFINE reqs == Requests(requestNumber, "put", <<w>>)
  <2>1. /\ reqs \in Seq(Request) /\ Len(reqs) = 1
        /\ reqs[1] = [rn |-> requestNumber + 1, kind |-> "put", id |-> w]
    BY <1>1, OneRequest
  <2>2. Send(requestNumber, requestCBHash, uplink, reqs)
    BY <1>3 DEF SetValue
  <2> HIDE DEF reqs, w
  <2>3. \A m \in ToSet(reqs) : m.kind = "put"
    BY <2>1, LenProperties DEF ToSet
  <2>4. Wire' = Wire \union ToSet(reqs)
    BY <1>1, <1>2, <2>1, <2>2, WireSent DEF Wire
  <2> QED BY <1>2, <2>3, <2>4 DEF OnlyPuts
<1>4. CASE ~canSendWrites
  <2>1. UNCHANGED uplink
    BY <1>4 DEF SetValue
  <2>2. Wire' = Wire
    BY <1>2, <2>1 DEF Wire
  <2> QED BY <1>2, <2>2, OnlyPutsKept
<1> QED BY <1>3, <1>4

LEMMA OnReadyPuts ==
    ASSUME QueueTypes, WireInv, OnlyPuts, OnReady
    PROVE  OnlyPuts'
<1>1. UNCHANGED <<listening, answers, listened>>
  BY DEF OnReady
<1>2. ToSet(<<>>) = {}
  BY ToSetSmall
<1>3. CASE connectionState' = "Connected"
  <2> DEFINE n == 0
             C == {}
             wire == <<>>
  <2>1. /\ RestoreState(n, C, wire) /\ n \in Nat /\ C \in SUBSET Nat
        /\ wire \in Seq(Request) /\ Puts(wire) = {} /\ Ascending(wire)
        /\ ToSet(wire) \subseteq ToSet(uplink)
    BY <1>2, <1>3, NoPuts DEF OnReady
  <2> HIDE DEF n, C, wire
  <2> QED BY <1>1, <2>1, RestoredPuts DEF QueueTypes
<1>4. CASE connectionState' # "Connected"
  <2>1. uplink' = <<>> /\ UNCHANGED unackedListensCount
    BY <1>4 DEF OnReady
  <2>2. Wire' \subseteq Wire
    BY <1>1, <1>2, <2>1 DEF Wire
  <2> QED BY <1>1, <2>1, <2>2, OnlyPutsKept
<1> QED BY <1>3, <1>4

LEMMA OnAuthenticatedPuts ==
    ASSUME QueueTypes, WireInv, OnlyPuts, OnAuthenticated
    PROVE  OnlyPuts'
<1>1. pendingAuths # <<>> /\ UNCHANGED <<listening, answers, listened>>
  BY DEF OnAuthenticated, Authenticated
<1>2. CASE Head(pendingAuths)
  <2>1. connectionState = "Authenticating"
    <3>1. Head(pendingAuths) = pendingAuths[1] /\ 1 \in DOMAIN pendingAuths
      BY <1>1, HeadTailProperties, EmptySeq, LenProperties
         DEF QueueTypes, ConnectionInv, ConnectionTypeOK
    <3> QED BY <1>2, <3>1 DEF QueueTypes, ConnectionInv, NeverStranded
  <2>2. Puts(uplink) = {} /\ Ascending(uplink)
    BY <2>1 DEF WireInv, Sent
  <2>3. RestoreState(requestNumber, requestCBHash, uplink)
    BY <1>2 DEF OnAuthenticated
  <2>4. /\ requestNumber \in Nat /\ requestCBHash \in SUBSET Nat /\ uplink \in Seq(Request)
        /\ ToSet(uplink) \subseteq ToSet(uplink)
    BY DEF QueueTypes, SessionTypes
  <2> QED BY <1>1, <2>2, <2>3, <2>4, RestoredPuts DEF QueueTypes
<1>3. CASE ~Head(pendingAuths)
  <2>1. UNCHANGED <<uplink, unackedListensCount>>
    BY <1>3 DEF OnAuthenticated
  <2>2. Wire' = Wire
    BY <1>1, <2>1 DEF Wire
  <2> QED BY <1>1, <2>1, <2>2, OnlyPutsKept
<1> QED BY <1>2, <1>3

LEMMA ServerPuts ==
    ASSUME SessionTypes, OnlyPuts, Server
    PROVE  OnlyPuts'
<1>1. UNCHANGED <<listened, unackedListensCount>>
  BY DEF Server, ReceivePut, ReceiveListen, AnswerListen, listenVars
<1> DEFINE h == Head(uplink)
<1>2. ASSUME uplink # <<>>, uplink' = Tail(uplink)
      PROVE  ToSet(uplink) = ToSet(uplink') \union {h} /\ h \in ToSet(uplink) /\ h \in Request
  BY <1>2, ToSetTail, PutsTail DEF SessionTypes
<1> HIDE DEF h
<1>3. CASE ReceivePut
  <2>1. uplink # <<>> /\ uplink' = Tail(uplink) /\ UNCHANGED listening
        /\ (answers' = answers \/ answers' = Append(answers, h))
    BY <1>3 DEF ReceivePut, h
  <2>2. ToSet(answers') \subseteq ToSet(answers) \union {h}
    <3>1. ASSUME answers' = Append(answers, h) PROVE ToSet(answers') = ToSet(answers) \union {h}
      <4>1. answers' = answers \o <<h>>
        BY <1>2, <2>1, <3>1, AppendIsConcat DEF SessionTypes
      <4> QED BY <1>2, <2>1, <4>1, ToSetAppend DEF SessionTypes
    <3> QED BY <2>1, <3>1
  <2>3. Wire' \subseteq Wire
    BY <1>2, <2>1, <2>2 DEF Wire
  <2> QED BY <1>1, <2>3, OnlyPutsKept
<1>4. CASE ReceiveListen
  <2>1. uplink # <<>> /\ h.kind = "listen" /\ h \in ToSet(uplink)
    BY <1>2, <1>4 DEF ReceiveListen, h
  <2> QED BY <2>1 DEF OnlyPuts, Wire
<1>5. ASSUME NEW m \in listening, AnswerListen(m) PROVE OnlyPuts'
  <2>1. listening' = listening \ {m} /\ answers' = Append(answers, m) /\ UNCHANGED uplink
    BY <1>5 DEF AnswerListen
  <2>2. m \in Request
    BY DEF SessionTypes
  <2>3. ToSet(answers') = ToSet(answers) \union {m}
    <3>1. answers' = answers \o <<m>>
      BY <2>1, <2>2, AppendIsConcat DEF SessionTypes
    <3> QED BY <2>2, <3>1, ToSetAppend DEF SessionTypes
  <2>4. Wire' \subseteq Wire
    BY <2>1, <2>3 DEF Wire
  <2> QED BY <1>1, <2>4, OnlyPutsKept
<1> QED BY <1>3, <1>4, <1>5 DEF Server

\* No listen is registered and no answer to one comes.
LEMMA NeverListening ==
    ASSUME QueueTypes, WireInv, OnlyPuts, MaxListens = 0
    PROVE  ~Listen /\ \A ok \in BOOLEAN : ~ListenAnswered(ok)
<1>1. ~Listen
  BY DEF Listen, OnlyPuts
<1>2. ASSUME NEW ok \in BOOLEAN, ListenAnswered(ok) PROVE FALSE
  <2>1. answers # <<>> /\ Head(answers).kind = "listen"
    BY <1>2 DEF ListenAnswered, Answered
  <2>2. Head(answers) \in ToSet(answers)
    BY <2>1, ToSetTail DEF QueueTypes, SessionTypes
  <2> QED BY <2>1, <2>2 DEF OnlyPuts, Wire
<1> QED BY <1>1, <1>2

LEMMA OnlyPutsStep ==
    ASSUME QueueTypes, WireInv, OnlyPuts, MaxListens = 0, [Next]_vars
    PROVE  OnlyPuts'
<1>1. ASSUME NEW footprint \in Footprints, SetValue(footprint) PROVE OnlyPuts'
  BY <1>1, SetValuePuts
<1>2. CASE PurgeOutstandingWrites \/ ConnectionStep \/ UNCHANGED vars \/ \E l \in listens : Unlisten(l)
  <2>1. UNCHANGED <<answers, uplink, listening, listened, unackedListensCount>>
    BY <1>2 DEF Unlisten, PurgeOutstandingWrites, ConnectionStep, vars, queueVars, sessionVars,
                listenVars
  <2>2. Wire' = Wire
    BY <2>1 DEF Wire
  <2> QED BY <2>1, <2>2, OnlyPutsKept
<1>3. CASE OnDisconnect \/ Restart
  <2>1. /\ UNCHANGED <<uplink, listened>>
        /\ unackedListensCount' = 0 \/ UNCHANGED unackedListensCount
        /\ \/ answers' = <<>> /\ listening' = {}
           \/ UNCHANGED <<answers, listening>>
    BY <1>3 DEF OnDisconnect, Restart, EndSession, sessionVars
  <2>2. Wire' \subseteq Wire
    BY <2>1, ToSetSmall DEF Wire
  <2> QED BY <2>1, <2>2, OnlyPutsKept
<1>4. CASE PutAnswered
  <2>1. /\ answers # <<>> /\ answers' = Tail(answers) /\ UNCHANGED <<uplink, listening>>
        /\ UNCHANGED <<listened, unackedListensCount>>
    BY <1>4 DEF PutAnswered, Answered, listenVars
  <2>2. ToSet(answers') \subseteq ToSet(answers)
    BY <2>1, ToSetTail DEF QueueTypes, SessionTypes
  <2>3. Wire' \subseteq Wire
    BY <2>1, <2>2 DEF Wire
  <2> QED BY <2>1, <2>3, OnlyPutsKept
<1>5. CASE OnReady \/ OnAuthenticated \/ Server
  BY <1>5, OnReadyPuts, OnAuthenticatedPuts, ServerPuts DEF QueueTypes
<1> QED BY <1>1, <1>2, <1>3, <1>4, <1>5, NeverListening DEF Next, Client

LEMMA SetValueOrder ==
    ASSUME QueueTypes, InOrderSoFar, NEW footprint \in Footprints, SetValue(footprint)
    PROVE  InOrderSoFar'
<1> DEFINE w == Len(issued) + 1
<1>1. Below(Issued, {w})
  BY Issuing DEF SetValue, QueueTypes
<1>2. UNCHANGED <<completed, putsToAck>> /\ outstandingPuts' = outstandingPuts \union {w}
  BY DEF SetValue, outcomeVars
<1> HIDE DEF w
<1>3. ToSet(completed) \subseteq Issued
  BY ToSetConcat DEF QueueTypes, WriteTypes
<1> QED BY <1>1, <1>2, <1>3 DEF InOrderSoFar, Below

LEMMA PurgeOrder ==
    ASSUME QueueTypes, InOrderSoFar, PurgeOutstandingWrites
    PROVE  InOrderSoFar'
<1>1. /\ putsToAck = <<>> /\ UNCHANGED putsToAck /\ outstandingPuts' = {}
      /\ \E ps \in InOrder(outstandingPuts) : completed' = completed \o ps
  BY DEF PurgeOutstandingWrites, InOrderSoFar
<1>2. PICK ps \in InOrder(outstandingPuts) : completed' = completed \o ps
  BY <1>1
<1>3. Increasing(ps) /\ ps \in SetToSeqs(outstandingPuts)
  BY DEF InOrder, Increasing
<1>4. /\ outstandingPuts \in SUBSET Nat /\ IsFiniteSet(outstandingPuts) /\ Issued \subseteq Nat
  BY FiniteIssued DEF QueueTypes
<1>5. ps \in Seq(Nat) /\ ToSet(ps) = outstandingPuts
  BY <1>3, <1>4, SeqOfSet, SeqMonotonic
<1>6. completed \in Seq(Nat)
  BY <1>4, SeqMonotonic DEF QueueTypes, WriteTypes
<1>7. Increasing(completed')
  BY <1>2, <1>3, <1>5, <1>6, IncreasingConcat DEF InOrderSoFar
<1> QED BY <1>1, <1>7 DEF InOrderSoFar, Below

\* Puts are answered in the order in which they were sent.
LEMMA PutAnsweredOrder ==
    ASSUME QueueTypes, WireInv, OnlyPuts, InOrderSoFar, PutAnswered
    PROVE  InOrderSoFar'
<1> DEFINE w == Head(answers).id
<1>1. w \in Issued /\ Below({w}, outstandingPuts')
  BY FrontPut, PutAnsweredWire DEF PutAnswered, QueueTypes, Below
<1>2. outstandingPuts' = outstandingPuts \ {w} /\ UNCHANGED putsToAck
      /\ \/ w \in outstandingPuts /\ completed' = completed \o <<w>>
         \/ UNCHANGED completed
  BY DEF PutAnswered, Complete, OnlyPuts, outcomeVars
<1> HIDE DEF w
<1>3. CASE w \in outstandingPuts /\ completed' = completed \o <<w>>
  <2> DEFINE t == <<w>>
  <2>1. Issued \subseteq Nat
    BY FiniteIssued DEF QueueTypes
  <2>2. t \in Seq(Nat) /\ ToSet(t) = {w} /\ Increasing(t)
    BY <1>1, <2>1, ToSetSmall DEF Increasing
  <2>3. completed \in Seq(Nat) /\ completed' = completed \o t
    BY <1>3, <2>1, SeqMonotonic DEF QueueTypes, WriteTypes
  <2> HIDE DEF t
  <2>4. Below(ToSet(completed), ToSet(t))
    BY <1>3, <2>2 DEF InOrderSoFar, Below
  <2>5. Increasing(completed')
    BY <2>2, <2>3, <2>4, IncreasingConcat DEF InOrderSoFar
  <2>6. ToSet(completed') = ToSet(completed) \union {w}
    BY <2>2, <2>3, ToSetConcat
  <2> QED BY <1>1, <1>2, <2>5, <2>6 DEF InOrderSoFar, Below
<1>4. CASE UNCHANGED completed
  BY <1>2, <1>4 DEF InOrderSoFar, Below
<1> QED BY <1>2, <1>3, <1>4

LEMMA OrderStep ==
    ASSUME QueueTypes, WireInv, OnlyPuts, InOrderSoFar, MaxListens = 0, [Next]_vars
    PROVE  InOrderSoFar'
<1>1. ASSUME NEW footprint \in Footprints, SetValue(footprint) PROVE InOrderSoFar'
  BY <1>1, SetValueOrder
<1>2. CASE \/ ConnectionStep \/ OnReady \/ OnAuthenticated \/ OnDisconnect
           \/ Server \/ UNCHANGED vars \/ \E l \in listens : Unlisten(l)
  <2>1. UNCHANGED <<outstandingPuts, putsToAck, completed>>
    BY <1>2 DEF Unlisten, ConnectionStep, OnReady, OnAuthenticated, OnDisconnect,
                Server, ReceivePut, ReceiveListen, AnswerListen, vars, queueVars, writeVars,
                outcomeVars
  <2> QED BY <2>1 DEF InOrderSoFar
<1>3. CASE Restart
  BY <1>3 DEF Restart, InOrderSoFar, Below
<1>4. CASE PurgeOutstandingWrites \/ PutAnswered
  BY <1>4, PurgeOrder, PutAnsweredOrder
<1> QED BY <1>1, <1>2, <1>3, <1>4, NeverListening DEF Next, Client

LEMMA NoListensInvariant == Spec => []NoListens
<1>1. Init => NoListens
  <2> SUFFICES ASSUME Init PROVE OnlyPuts /\ InOrderSoFar
    BY NoListensParts
  <2>1. /\ answers = <<>> /\ uplink = <<>> /\ listening = {} /\ completed = <<>>
        /\ outstandingPuts = {} /\ putsToAck = <<>> /\ listened = 0 /\ unackedListensCount = 0
    BY DEF Init
  <2>2. Wire = {}
    BY <2>1, ToSetSmall DEF Wire
  <2> QED BY <2>1, <2>2, ToSetSmall DEF OnlyPuts, InOrderSoFar, Increasing, Below
<1>2. ASSUME QueueInv, NoListens, [Next]_vars PROVE NoListens'
  <2>1. ASSUME MaxListens = 0 PROVE OnlyPuts' /\ InOrderSoFar'
    BY <1>2, <2>1, NoListensParts, OnlyPutsStep, OrderStep DEF QueueInv
  <2> QED BY <2>1, NoListensParts DEF NoListens, OnlyPuts, InOrderSoFar, Increasing
<1>3. QueueInv /\ NoListens /\ [Next]_vars => NoListens'
  BY <1>2
<1> QED BY <1>1, <1>3, QueueInvariant, PTL DEF Spec

(***************************************************************************)
(* Without listens, as in the app, completions come in the order of the    *)
(* writes, over losses of the connection, cancellations and restarts.      *)
(***************************************************************************)
THEOREM CompletionsInOrder == Spec => []CompletedInOrder
<1>1. NoListens => CompletedInOrder
  BY DEF NoListens, CompletedInOrder
<1> QED BY <1>1, NoListensInvariant, PTL

-----------------------------------------------------------------------------
(* WriteQueue implements SettledWrites.                                    *)

\* The library's operators, as the instance of SettledWrites names them.
LEMMA SameOperators ==
    /\ \A s : Promise!ToSet(s) = ToSet(s)
    /\ \A S : Promise!SetToAllKPermutations(S) = UNION {SetToSeqs(s) : s \in SUBSET S}
<1>1. ASSUME NEW s PROVE Promise!ToSet(s) = ToSet(s)
  BY DEF Promise!ToSet, ToSet
<1>2. ASSUME NEW S PROVE Promise!Cardinality(S) = Cardinality(S)
  BY DEF Promise!Cardinality, Cardinality, Promise!IsFiniteSet, IsFiniteSet
<1>3. ASSUME NEW S PROVE Promise!SetToSeqs(S) = SetToSeqs(S)
  <2>1. Promise!Cardinality(S) = Cardinality(S)
    BY <1>2
  <2> QED BY <2>1 DEF Promise!SetToSeqs, SetToSeqs
<1>4. ASSUME NEW S
      PROVE  Promise!SetToAllKPermutations(S) = UNION {SetToSeqs(s) : s \in SUBSET S}
  BY <1>3 DEF Promise!SetToAllKPermutations
<1> QED BY <1>1, <1>4

\* A sequence without repetition is one of the permutations of its elements.
LEMMA DistinctIsPermutation ==
    ASSUME NEW S, NEW ws \in Seq(S), Distinct(ws)
    PROVE  ws \in SetToSeqs(ToSet(ws))
<1> DEFINE n == Len(ws)
           T == ToSet(ws)
<1>1. n \in Nat /\ DOMAIN ws = 1 .. n /\ ws \in [1 .. n -> S]
  BY LenProperties
<1> HIDE DEF n
<1>2. ws \in [1 .. n -> T]
  BY <1>1 DEF ToSet
<1>3. \A t \in T : \E i \in 1 .. n : ws[i] = t
  BY <1>1 DEF ToSet
<1>4. \A i, j \in 1 .. n : ws[i] = ws[j] => i = j
  BY <1>1 DEF Distinct
<1> HIDE DEF T
<1>5. ws \in Surjection(1 .. n, T)
  BY <1>2, <1>3, Fun_IsSurj
<1>6. ws \in Injection(1 .. n, T)
  BY <1>2, <1>4, Fun_IsInj
<1>7. IsFiniteSet(1 .. n) /\ Cardinality(1 .. n) = n
  <2>1. 1 \in Int /\ n \in Int /\ IF 1 > n THEN n = 0 ELSE n = n - 1 + 1
    BY <1>1
  <2> QED BY <1>1, <2>1, FS_Interval
<1>8. Cardinality(T) = n
  <2>1. Cardinality(T) = Cardinality(1 .. n)
    BY ONLY <1>5, <1>6, <1>7, FS_Surjection
  <2> QED BY <1>7, <2>1
<1>9. \A i, j \in 1 .. n : i # j => ws[i] # ws[j]
  BY <1>4
<1>10. ws \in SetToSeqs(T)
  BY <1>2, <1>8, <1>9 DEF SetToSeqs
<1> QED BY <1>10 DEF T

LEMMA Reported ==
    ASSUME NEW S, NEW ws \in Seq(Issued), Distinct(ws), ToSet(ws) \subseteq S,
           ToSet(ws) \cap ToSet(completed) = {}, completed' = completed \o ws
    PROVE  Promise!Report(S)
<1>1. ws \in SetToSeqs(ToSet(ws))
  BY DistinctIsPermutation
<1>2. ToSet(ws) \in SUBSET (S \ Promise!ToSet(completed))
  BY SameOperators
<1>3. ws \in Promise!SetToAllKPermutations(S \ Promise!ToSet(completed))
  BY <1>1, <1>2, SameOperators
<1> QED BY <1>3 DEF Promise!Report

LEMMA InitPromise == Init => Promise!Init
BY DEF Init, Promise!Init

LEMMA SettlePromise ==
    ASSUME QueueInv, ~raised, PutAnswered, Head(answers).id \in outstandingPuts
    PROVE  Promise!Settle(Head(answers).id) /\ Head(answers).id \in DOMAIN issued
<1> DEFINE w == Head(answers).id
<1>1. w \in Puts(answers)
  BY PutAnsweredWire DEF QueueInv
<1>2. /\ UNCHANGED <<issued, record>> /\ settled' = settled \union {w}
      /\ Complete(<<w>>) \/ UNCHANGED completed
  BY DEF PutAnswered
<1>3. w \in outstandingPuts
  OBVIOUS
<1> HIDE DEF w
<1>4. w \in Issued
  BY <1>1 DEF QueueInv, WireInv, Sent
<1>5. w \notin ToSet(completed) /\ \A s \in settled : s < w
  BY <1>1, <1>3 DEF QueueInv, CompletionInv, SettledInv, Below
<1>6. w \in Promise!Newer \ Promise!ToSet(completed)
  BY <1>4, <1>5, SameOperators DEF Promise!Newer, Issued
<1>7. \A l \in Promise!Covers(w) : record[l] >= w
  BY <1>1 DEF QueueInv, SettledInv, Promise!Covers, Stores
<1>8. Promise!Report({w})
  <2>1. CASE Complete(<<w>>)
    <3> DEFINE t == <<w>>
    <3>1. t \in Seq(Issued) /\ Distinct(t) /\ ToSet(t) = {w}
      BY <1>4, ToSetSmall
    <3>2. completed' = completed \o t
      BY <2>1 DEF Complete
    <3> HIDE DEF t
    <3>3. ToSet(t) \subseteq {w} /\ ToSet(t) \cap ToSet(completed) = {}
      BY <1>5, <3>1
    <3> QED BY <3>1, <3>2, <3>3, Reported
  <2>2. CASE UNCHANGED completed
    <3> DEFINE t == <<>>
    <3>1. t \in Seq(Issued) /\ Distinct(t) /\ ToSet(t) = {}
      BY ToSetSmall, EmptySeq
    <3>2. completed' = completed \o t
      BY <2>2, ConcatEmptySeq DEF QueueInv, QueueTypes, WriteTypes
    <3> HIDE DEF t
    <3>3. ToSet(t) \subseteq {w} /\ ToSet(t) \cap ToSet(completed) = {}
      BY <3>1
    <3> QED BY <3>1, <3>2, <3>3, Reported
  <2> QED BY <1>2, <2>1, <2>2
<1> QED BY <1>2, <1>4, <1>6, <1>7, <1>8 DEF Promise!Settle, w, Issued

LEMMA PurgePromise ==
    ASSUME QueueInv, PurgeOutstandingWrites
    PROVE  Promise!Cancel \/ UNCHANGED Promise!promiseVars
<1>1. UNCHANGED <<issued, record, settled>>
  BY DEF PurgeOutstandingWrites
<1>2. CASE putsToAck = <<>>
  <2>1. PICK ps \in InOrder(outstandingPuts) : completed' = completed \o ps
    BY <1>2 DEF PurgeOutstandingWrites
  <2>2. ps \in Seq(outstandingPuts) /\ ToSet(ps) = outstandingPuts /\ Distinct(ps)
    BY SeqOfSet, FiniteIssued DEF InOrder, QueueInv, QueueTypes
  <2>3. ps \in Seq(Issued)
    BY <2>2, SeqMonotonic DEF QueueInv, QueueTypes, WriteTypes
  <2>4. ToSet(ps) \subseteq Issued /\ ToSet(ps) \cap ToSet(completed) = {}
    BY <2>2 DEF QueueInv, QueueTypes, WriteTypes, CompletionInv
  <2>5. ToSet(ps) \cap settled = {}
    <3>1. Issued \subseteq Nat
      BY FiniteIssued DEF QueueInv, QueueTypes
    <3>2. ASSUME NEW x \in settled, x \in outstandingPuts PROVE FALSE
      <4>1. x < x
        BY <3>2 DEF QueueInv, SettledInv, Below
      <4>2. x \in Nat
        BY <2>2, <2>4, <3>1, <3>2
      <4> QED BY <4>1, <4>2
    <3> QED BY <2>2, <3>2
  <2>6. ToSet(ps) \subseteq DOMAIN issued \ settled
    BY <2>4, <2>5 DEF Issued
  <2>7. Promise!Report(DOMAIN issued \ settled)
    BY <2>1, <2>2, <2>3, <2>4, <2>6, Reported
  <2> QED BY <1>1, <2>7 DEF Promise!Cancel
<1>3. CASE putsToAck # <<>>
  BY <1>1, <1>3 DEF PurgeOutstandingWrites, Promise!promiseVars
<1> QED BY <1>2, <1>3

LEMMA AnswerPromise ==
    ASSUME QueueInv, NEW ok \in BOOLEAN, ListenAnswered(ok)
    PROVE  Promise!Answer \/ UNCHANGED Promise!promiseVars
<1>1. UNCHANGED <<issued, record, settled>>
  BY DEF ListenAnswered
<1>2. CASE Complete(putsToAck)
  <2>1. completed' = completed \o putsToAck
    BY <1>2 DEF Complete
  <2>2. /\ putsToAck \in Seq(Issued) /\ Distinct(putsToAck) /\ ToSet(putsToAck) \subseteq settled
        /\ ToSet(putsToAck) \cap ToSet(completed) = {}
    BY DEF QueueInv, QueueTypes, WriteTypes, CompletionInv
  <2>3. Promise!Report(settled)
    BY <2>1, <2>2, Reported
  <2> QED BY <1>1, <2>3 DEF Promise!Answer
<1>3. CASE UNCHANGED completed
  BY <1>1, <1>3 DEF Promise!promiseVars
<1> QED BY <1>2, <1>3 DEF ListenAnswered

LEMMA ReceivePromise ==
    ASSUME QueueInv, ReceivePut
    PROVE  Promise!Apply(Head(uplink).id) /\ Head(uplink).id \in DOMAIN issued
<1> DEFINE w == Head(uplink).id
<1>1. w \in Puts(uplink)
  BY ReceivePutWire DEF QueueInv
<1>2. UNCHANGED <<issued, settled, completed>> /\ record' = Stored(w)
  BY DEF ReceivePut, writeVars, outcomeVars
<1> HIDE DEF w
<1>3. w \in Issued /\ \A s \in settled : s < w
  BY <1>1 DEF QueueInv, WireInv, SettledInv, Sent, Below
<1>4. w \in Promise!Newer
  BY <1>3 DEF Promise!Newer, Issued
<1>5. record' = [l \in Leaves |-> IF l \in Promise!Covers(w) THEN w ELSE record[l]]
  BY <1>2 DEF Stored, Stores, Promise!Covers
<1> QED BY <1>2, <1>3, <1>4, <1>5 DEF Promise!Apply, w, Issued

LEMMA StepPromise ==
    ASSUME QueueInv, [Next]_vars
    PROVE  [Promise!Next]_(Promise!promiseVars)
<1>1. ASSUME NEW footprint \in Footprints, SetValue(footprint)
      PROVE  Promise!Issue(footprint)
  BY <1>1 DEF SetValue, outcomeVars, Promise!Issue
<1>2. CASE \/ Listen \/ \E l \in listens : Unlisten(l)
           \/ ConnectionStep \/ OnReady \/ OnAuthenticated \/ OnDisconnect
           \/ ReceiveListen \/ \E m \in listening : AnswerListen(m)
           \/ Restart \/ UNCHANGED vars
  BY <1>2 DEF Listen, Unlisten, ConnectionStep, OnReady, OnAuthenticated, OnDisconnect,
              ReceiveListen, AnswerListen, Restart, vars, queueVars, writeVars, outcomeVars,
              Promise!promiseVars
<1>3. CASE ~raised /\ PutAnswered
  <2>1. CASE Head(answers).id \in outstandingPuts
    BY <1>3, <2>1, SettlePromise DEF Promise!Next
  <2>2. CASE Head(answers).id \notin outstandingPuts
    BY <1>3, <2>2 DEF PutAnswered, outcomeVars, Promise!promiseVars
  <2> QED BY <2>1, <2>2
<1>4. CASE PurgeOutstandingWrites
  BY <1>4, PurgePromise DEF Promise!Next
<1>5. ASSUME NEW ok \in BOOLEAN, ListenAnswered(ok)
      PROVE  [Promise!Next]_(Promise!promiseVars)
  BY <1>5, AnswerPromise DEF Promise!Next
<1>6. CASE ReceivePut
  BY <1>6, ReceivePromise DEF Promise!Next
<1> QED BY <1>1, <1>2, <1>3, <1>4, <1>5, <1>6 DEF Next, Client, Server, Promise!Next

(***************************************************************************)
(* Whatever happens to connections, queue and process, setValue keeps the  *)
(* promise: every step of WriteQueue is a step of SettledWrites or none.   *)
(***************************************************************************)
THEOREM KeepsPromise == Spec => ImplementsPromise
<1>1. Init => Promise!Init
  BY InitPromise
<1>2. QueueInv /\ [Next]_vars => [Promise!Next]_(Promise!promiseVars)
  BY StepPromise
<1> QED BY <1>1, <1>2, QueueInvariant, PTL DEF Spec, ImplementsPromise, Promise!Spec

=============================================================================
