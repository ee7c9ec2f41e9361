----------------------------- MODULE DiskProofs -----------------------------
(***************************************************************************)
(* Proofs about what a node keeps on disk, wherever its process stops: its *)
(* key files with the registration they stand for, and its block database. *)
(*                                                                         *)
(* BlockStore, for any blocks and any number of operations and faults.  A  *)
(* key holds what its accessor stores there, and an entry stands in the    *)
(* queue of its operation after the body it points to.  So that body has   *)
(* been stored when the entry is, or is known to be gone.                  *)
(***************************************************************************)
EXTENDS Registering, Storage, Integers, Sequences, TLAPS

\* The three kinds of what is stored: bodies, lookup entries, and what belongs to headers.
BodyKey(b) == Store!blockBodyKey(b.number, b.hash)
Body(k, v) == \E b \in Blocks : k = BodyKey(b) /\ v = Store!Encode(b)
Entry(k, v) == \E b \in Blocks : \E i \in DOMAIN b.txs :
  k = Store!txLookupKey(Store!TxHash(b.txs[i])) /\ v = <<"entry", b.hash, b.number, i>>
Header(k, v) ==
  \/ \E n \in Numbers, h \in Store!Hashes :
       \/ k = Store!headerKey(n, h) /\ \E e \in Epochs : v = <<"header", h, n, e>>
       \/ k = Store!headerTDKey(n, h) /\ v = <<"td", n>>
       \/ k = Store!headerHashKey(n) /\ v = h
       \/ k = Store!headerNumberKey(h) /\ v = <<"number", n>>
  \/ k \in Store!HeadKeys /\ v \in Store!Hashes
Owned(k, v) == Body(k, v) \/ Entry(k, v) \/ Header(k, v)

\* A body that was stored, or was deleted or could not be stored.
Known(k) == Store!Found(k) \/ k \in gone
Target(v) == Store!blockBodyKey(v[3], v[2])

\* What is stored belongs to its key; an entry's body is known.
Held == \A k \in DOMAIN db : Owned(k, db[k]) /\ (k[1] = "l" => Known(Target(db[k])))

\* What an operation has to store or delete, in this order: an entry comes after its body.
Fine(w, i) ==
  /\ IF w[i][2] = Store!NoValue THEN w[i][1][1] # "l" ELSE Owned(w[i][1], w[i][2])
  /\ w[i][1][1] = "l" => \/ Known(Target(w[i][2]))
                         \/ \E j \in 1..(i - 1) : w[j][1] = Target(w[i][2])
Listed(w) == (\E S : w \in Seq(S)) /\ \A i \in 1..Len(w) : Fine(w, i)

Counted == ops \in 0..MaxOps /\ faults \in 0..MaxFaults

WInv == Held /\ Listed(writer) /\ Counted

\* The constants of BlockStore.
LEMMA StoreSetting ==
  /\ MaxOps \in Nat /\ MaxFaults \in Nat
  /\ \A b \in Blocks : b.number \in Numbers /\ b.hash[1] = "root" /\ DOMAIN b.txs = 1..Len(b.txs)
  /\ \A b, c \in Blocks : b.hash = c.hash => b.txs = c.txs
BY StoreOK, Zenon DEF Store!Setting

\* What a concatenation is.
LEMMA ConcatFacts ==
  ASSUME NEW S, NEW s \in Seq(S), NEW t \in Seq(S)
  PROVE  /\ s \o t \in Seq(S)
         /\ Len(s \o t) = Len(s) + Len(t)
         /\ \A i \in 1..(Len(s) + Len(t)) :
              (s \o t)[i] = IF i <= Len(s) THEN s[i] ELSE t[i - Len(s)]
OBVIOUS

\* Sequences of one length that agree everywhere are the same.
LEMMA SameSequence ==
  ASSUME NEW S, NEW s \in Seq(S), NEW t \in Seq(S), Len(s) = Len(t),
         \A i \in 1..Len(s) : s[i] = t[i]
  PROVE  s = t
OBVIOUS

\* Tail drops the first.
LEMMA TailFacts ==
  ASSUME NEW S, NEW s \in Seq(S), s # << >>
  PROVE  /\ Tail(s) \in Seq(S) /\ Len(Tail(s)) = Len(s) - 1
         /\ \A i \in 1..Len(Tail(s)) : Tail(s)[i] = s[i + 1]
OBVIOUS

\* The suffix is a piece of its own.
LEMMA Suffixed ==
  ASSUME NEW n, NEW h
  PROVE  Store!headerTDKey(n, h) = <<"h", n, h, <<"t">>>>
<1> DEFINE S == {"h", n, h, <<"t">>}
           s == <<"h", n, h>>
           t == <<<<"t">>>>
           u == <<"h", n, h, <<"t">>>>
<1>1. s \in Seq(S) /\ t \in Seq(S) /\ u \in Seq(S) /\ Len(s) = 3 /\ Len(t) = 1 /\ Len(u) = 4
  OBVIOUS
<1>2. /\ s[1] = u[1] /\ s[2] = u[2] /\ s[3] = u[3] /\ t[1] = u[4]
  OBVIOUS
<1> HIDE DEF s, t, u, S
<1>3. /\ s \o t \in Seq(S) /\ Len(s \o t) = Len(s) + Len(t)
      /\ \A i \in 1..(Len(s) + Len(t)) :
           (s \o t)[i] = IF i <= Len(s) THEN s[i] ELSE t[i - Len(s)]
  BY <1>1, ConcatFacts, Zenon
<1> DEFINE w == s \o t
<1> HIDE DEF w
<1>4. w \in Seq(S) /\ Len(w) = 4 /\ w[1] = s[1] /\ w[2] = s[2] /\ w[3] = s[3] /\ w[4] = t[1]
  BY <1>1, <1>3 DEF w
<1>5. Len(w) = Len(u) /\ \A i \in 1..Len(w) : w[i] = u[i]
  BY <1>1, <1>2, <1>4
<1>6. w = u
  BY <1>1, <1>4, <1>5, SameSequence, Zenon
<1> QED BY <1>6, Zenon DEF s, w, t, u, Store!headerTDKey, Store!headerKey

\* A hash is that of a block or none.
LEMMA HashShape == \A h \in Store!Hashes : h[1] \in {"root", "zero"}
BY StoreSetting DEF Store!Hashes, Store!Zero

\* The first piece of a key tells the kind.
LEMMA Kinds ==
  ASSUME NEW k, NEW v
  PROVE  /\ Body(k, v) => k[1] = "b"
         /\ Entry(k, v) => k[1] = "l"
         /\ Header(k, v) => k[1] \notin {"b", "l"}
<1>1. Body(k, v) => k[1] = "b"
  BY DEF Body, BodyKey, Store!blockBodyKey
<1>2. Entry(k, v) => k[1] = "l"
  BY DEF Entry, Store!txLookupKey
<1>3. Header(k, v) => k[1] \notin {"b", "l"}
  BY Suffixed DEF Header, Store!headerKey, Store!headerHashKey, Store!headerNumberKey,
                  Store!HeadKeys
<1> QED BY <1>1, <1>2, <1>3, Zenon

\* No value that is stored stands for a deletion.
LEMMA Present ==
  ASSUME NEW k, NEW v, Owned(k, v)
  PROVE  v # Store!NoValue
<1>1. ASSUME Body(k, v) PROVE v[1] = "body"
  BY <1>1 DEF Body, Store!Encode
<1>2. ASSUME Entry(k, v) PROVE v[1] = "entry"
  BY <1>2 DEF Entry
<1>3. ASSUME Header(k, v) PROVE v[1] \in {"header", "td", "number", "root", "zero"}
  BY <1>3, HashShape DEF Header
<1> QED BY <1>1, <1>2, <1>3 DEF Owned, Store!NoValue

\* What an entry points to is the body of its block.
LEMMA Points ==
  ASSUME NEW k, NEW v, Entry(k, v)
  PROVE  \E b \in Blocks : \E i \in DOMAIN b.txs :
           k[2] = Store!TxHash(b.txs[i]) /\ v[4] = i /\ Target(v) = BodyKey(b)
BY DEF Entry, Target, BodyKey, Store!txLookupKey

\* A transaction in a stored body has the hash it had.
LEMMA HashKept ==
  ASSUME NEW b \in Blocks, NEW i \in DOMAIN b.txs
  PROVE  /\ i \in DOMAIN Store!Encode(b)[4]
         /\ Store!TxHash(Store!Encode(b)[4][i]) = Store!TxHash(b.txs[i])
BY DEF Store!Encode, Store!TxHash, Store!Serialize, Store!Deserialize

\* The invariant is what ReadTransaction needs.
LEMMA HeldFinds == Held => LookupFinds
<1> SUFFICES ASSUME Held PROVE LookupFinds
  BY Zenon
<1> SUFFICES ASSUME NEW k \in DOMAIN db, k[1] = "l"
             PROVE  /\ Known(Target(db[k]))
                    /\ Store!Found(Target(db[k])) =>
                         /\ db[k][4] \in DOMAIN db[Target(db[k])][4]
                         /\ Store!TxHash(db[Target(db[k])][4][db[k][4]]) = k[2]
  BY Zenon DEF LookupFinds, Store!LookupSound, Store!EntryNeedsBody, Store!Entries, Store!BodyOf,
               Target, Known
<1>1. Known(Target(db[k])) /\ Owned(k, db[k])
  BY Zenon DEF Held
<1>2. Entry(k, db[k])
  BY <1>1, Kinds DEF Owned
<1>3. PICK b \in Blocks : \E i \in DOMAIN b.txs :
        k[2] = Store!TxHash(b.txs[i]) /\ db[k][4] = i /\ Target(db[k]) = BodyKey(b)
  BY <1>2, Points
<1>4. PICK i \in DOMAIN b.txs :
        k[2] = Store!TxHash(b.txs[i]) /\ db[k][4] = i /\ Target(db[k]) = BodyKey(b)
  BY <1>3, Zenon
<1>5. ASSUME Store!Found(BodyKey(b))
      PROVE  i \in DOMAIN db[BodyKey(b)][4] /\ Store!TxHash(db[BodyKey(b)][4][i]) = k[2]
  <2>1. Owned(BodyKey(b), db[BodyKey(b)])
    BY <1>5, Zenon DEF Held, Store!Found
  <2>2. BodyKey(b)[1] = "b"
    BY DEF BodyKey, Store!blockBodyKey
  <2>3. Body(BodyKey(b), db[BodyKey(b)])
    BY <2>1, <2>2, Kinds DEF Owned
  <2>4. PICK c \in Blocks : BodyKey(b) = BodyKey(c) /\ db[BodyKey(b)] = Store!Encode(c)
    BY <2>3, Zenon DEF Body
  <2>5. b.hash = c.hash
    BY <2>4 DEF BodyKey, Store!blockBodyKey
  <2>6. b.txs = c.txs
    BY <2>5, StoreSetting, Zenon
  <2> QED BY <1>4, <2>4, <2>6, HashKept, Zenon
<1> QED BY <1>1, <1>4, <1>5, Zenon

-----------------------------------------------------------------------------
\* A key of a body begins as one.
LEMMA TargetIsBody == ASSUME NEW v PROVE Target(v)[1] = "b"
BY DEF Target, Store!blockBodyKey

\* Nothing is stored at first.
LEMMA StoreInit == Store!Init => WInv
<1> SUFFICES ASSUME Store!Init PROVE WInv
  BY Zenon
<1>1. db = << >> /\ writer = << >> /\ ops = 0 /\ faults = 0
  BY Zenon DEF Store!Init
<1>2. DOMAIN db = {}
  BY <1>1
<1>3. writer \in Seq({}) /\ 1..Len(writer) = {}
  BY <1>1
<1>4. Counted
  BY <1>1, StoreSetting DEF Counted
<1> QED BY <1>2, <1>3, <1>4, Zenon DEF WInv, Held, Listed

\* An operation that has its Puts and Deletes in order starts.
LEMMA BeginKeeps ==
  ASSUME WInv, NEW puts, Store!Begin(puts), Listed(puts)
  PROVE  WInv'
<1>1. writer' = puts /\ ops < MaxOps /\ ops' = ops + 1 /\ UNCHANGED <<db, gone, faults>>
  BY Zenon DEF Store!Begin
<1>2. Held'
  BY <1>1, Zenon DEF WInv, Held, Known, Store!Found
<1>3. Listed(writer)'
  BY <1>1, Zenon DEF Listed, Fine, Known, Store!Found
<1>4. Counted'
  BY <1>1, StoreSetting DEF WInv, Counted
<1> QED BY <1>2, <1>3, <1>4, Zenon DEF WInv

\* What is not an entry may be stored or deleted at any time.
LEMMA OnePut ==
  ASSUME NEW k, NEW v, k[1] # "l", v = Store!NoValue \/ Owned(k, v)
  PROVE  Listed(<< <<k, v>> >>)
<1> DEFINE w == << <<k, v>> >>
<1>1. w \in Seq({<<k, v>>}) /\ Len(w) = 1 /\ w[1][1] = k /\ w[1][2] = v
  OBVIOUS
<1> HIDE DEF w
<1>2. Fine(w, 1)
  BY <1>1, Zenon DEF Fine
<1>3. \A i \in 1..Len(w) : i = 1
  BY <1>1
<1>4. Listed(w)
  BY <1>1, <1>2, <1>3, Zenon DEF Listed
<1> QED BY <1>4, Zenon DEF w

\* So may two of them, in either order.
LEMMA TwoPuts ==
  ASSUME NEW k, NEW v, k[1] # "l", v = Store!NoValue \/ Owned(k, v),
         NEW l, NEW u, l[1] # "l", u = Store!NoValue \/ Owned(l, u)
  PROVE  Listed(<< <<k, v>>, <<l, u>> >>)
<1> DEFINE w == << <<k, v>>, <<l, u>> >>
<1>1. /\ w \in Seq({<<k, v>>, <<l, u>>}) /\ Len(w) = 2
      /\ w[1][1] = k /\ w[1][2] = v /\ w[2][1] = l /\ w[2][2] = u
  OBVIOUS
<1> HIDE DEF w
<1>2. Fine(w, 1) /\ Fine(w, 2)
  BY <1>1, Zenon DEF Fine
<1>3. \A i \in 1..Len(w) : i = 1 \/ i = 2
  BY <1>1
<1>4. Listed(w)
  BY <1>1, <1>2, <1>3, Zenon DEF Listed
<1> QED BY <1>4, Zenon DEF w

\* A block is stored with its body first.
LEMMA BlockListed ==
  ASSUME NEW b \in Blocks
  PROVE  Listed(<< <<BodyKey(b), Store!Encode(b)>> >> \o Store!TxLookupEntries(b))
<1> DEFINE p == <<BodyKey(b), Store!Encode(b)>>
           e == Store!TxLookupEntries(b)
           N == Len(b.txs)
           q(i) == <<Store!txLookupKey(Store!TxHash(b.txs[i])), <<"entry", b.hash, b.number, i>>>>
           S == {p} \cup {q(i) : i \in 1..N}
           h == <<p>>
           w == h \o e
<1>1. DOMAIN b.txs = 1..N
  BY StoreSetting, Zenon
<1>2. e = [i \in 1..N |-> q(i)]
  BY <1>1, Zenon DEF Store!TxLookupEntries
<1>3. Body(p[1], p[2]) /\ p[1] = BodyKey(b)
  BY DEF Body
<1>4. \A i \in 1..N : Entry(q(i)[1], q(i)[2]) /\ Target(q(i)[2]) = BodyKey(b)
  BY <1>1 DEF Entry, Target, BodyKey
<1>5. N \in Nat
  BY StoreSetting
<1> HIDE DEF p, q, N
<1>6. h \in Seq(S) /\ e \in Seq(S) /\ Len(h) = 1 /\ Len(e) = N /\ h[1] = p
  BY <1>2, <1>5
<1>7. \A i \in 1..N : e[i] = q(i)
  BY <1>2, Zenon
<1> HIDE DEF h, e, S
<1>8. /\ w \in Seq(S) /\ Len(w) = Len(h) + Len(e)
      /\ \A i \in 1..(Len(h) + Len(e)) : w[i] = IF i <= Len(h) THEN h[i] ELSE e[i - Len(h)]
  BY <1>6, ConcatFacts, Zenon
<1> HIDE DEF w
<1>9. /\ w[1] = p
      /\ \A i \in 1..Len(w) : \/ i = 1
                              \/ i - 1 \in 1..N /\ w[i] = q(i - 1) /\ 1 \in 1..(i - 1)
  BY <1>5, <1>6, <1>7, <1>8
<1>10. Fine(w, 1)
  <2>1. Owned(p[1], p[2]) /\ p[2] # Store!NoValue /\ p[1][1] # "l"
    BY <1>3, Present, Kinds DEF Owned
  <2> QED BY <1>9, <2>1, Zenon DEF Fine
<1>11. ASSUME NEW i \in 1..Len(w), i # 1 PROVE Fine(w, i)
  <2> DEFINE r == q(i - 1)
  <2>1. w[i] = r /\ Entry(r[1], r[2]) /\ Target(r[2]) = w[1][1] /\ 1 \in 1..(i - 1)
    BY <1>3, <1>4, <1>9, <1>11, Zenon
  <2> HIDE DEF r
  <2>2. Owned(r[1], r[2]) /\ r[2] # Store!NoValue
    BY <2>1, Present, Zenon DEF Owned
  <2> QED BY <2>1, <2>2, Zenon DEF Fine
<1>12. Listed(w)
  BY <1>8, <1>10, <1>11, Zenon DEF Listed
<1> QED BY <1>12, Zenon DEF w, h, e, p

\* The first of the queue is dealt with.
LEMMA TailKeeps ==
  ASSUME Listed(writer), writer # << >>, writer' = Tail(writer),
         \A k : k[1] = "b" /\ (Known(k) \/ k = writer[1][1]) => Known(k)'
  PROVE  Listed(writer)'
<1>1. PICK S : writer \in Seq(S)
  BY Zenon DEF Listed
<1>2. /\ Tail(writer) \in Seq(S) /\ Len(Tail(writer)) = Len(writer) - 1
      /\ \A i \in 1..Len(Tail(writer)) : Tail(writer)[i] = writer[i + 1]
  BY <1>1, TailFacts, Zenon
<1>3. Len(writer) \in Nat
  BY <1>1
<1> SUFFICES ASSUME NEW i \in 1..Len(writer') PROVE Fine(writer, i)'
  BY <1>2, Zenon DEF Listed
<1>4. writer'[i] = writer[i + 1] /\ i + 1 \in 1..Len(writer)
  BY <1>2, <1>3
<1>5. Fine(writer, i + 1)
  BY <1>4, Zenon DEF Listed
<1>6. PICK T : T = Target(writer[i + 1][2]) /\ T[1] = "b"
  BY TargetIsBody, Zenon
<1>7. ASSUME writer[i + 1][1][1] = "l"
      PROVE  Known(T)' \/ \E j \in 1..(i - 1) : writer'[j][1] = T
  <2>1. CASE Known(T)
    BY <1>6, <2>1, Zenon
  <2>2. ASSUME NEW j \in 1..((i + 1) - 1), writer[j][1] = T
        PROVE  Known(T)' \/ \E l \in 1..(i - 1) : writer'[l][1] = T
    <3>1. CASE j = 1
      BY <1>6, <2>2, <3>1, Zenon
    <3>2. CASE j # 1
      <4>1. j - 1 \in 1..(i - 1) /\ j - 1 \in 1..Len(Tail(writer)) /\ (j - 1) + 1 = j
        BY <1>2, <1>3, <3>2
      <4>2. writer'[j - 1] = writer[j]
        BY <1>2, <4>1, Zenon
      <4> QED BY <2>2, <4>1, <4>2, Zenon
    <3> QED BY <3>1, <3>2, Zenon
  <2> QED BY <1>5, <1>6, <1>7, <2>1, <2>2, Zenon DEF Fine
<1>8. IF writer'[i][2] = Store!NoValue THEN writer'[i][1][1] # "l"
      ELSE Owned(writer'[i][1], writer'[i][2])
  BY <1>4, <1>5, Zenon DEF Fine
<1>9. Target(writer'[i][2]) = T
  BY <1>4, <1>6, Zenon
<1>10. ASSUME writer'[i][1][1] = "l"
       PROVE  \/ Known(Target(writer[i][2]))'
              \/ \E j \in 1..(i - 1) : writer'[j][1] = Target(writer'[i][2])
  BY <1>4, <1>7, <1>9, <1>10, Zenon DEF Known, Target, Store!Found
<1> QED BY <1>8, <1>10, Zenon DEF Fine, Owned, Body, Entry, Header, Target

\* Every operation has its Puts and Deletes in order.
LEMMA Operations ==
  ASSUME WInv,
         \/ \E b \in Blocks : Store!WriteBlock(b)
         \/ \E h \in Store!Hashes, n \in Numbers :
              \/ \E e \in Epochs : Store!WriteHeader(h, n, e)
              \/ Store!DeleteHeader(h, n)
              \/ Store!WriteCanonicalHash(h, n) \/ Store!WriteTd(h, n)
              \/ Store!DeleteTd(h, n) \/ Store!DeleteBody(h, n)
         \/ \E h \in Store!Hashes : Store!WriteHeadHash(h)
         \/ \E n \in Numbers : Store!DeleteCanonicalHash(n)
  PROVE  WInv'
<1> DEFINE Starts == \E puts : Store!Begin(puts) /\ Listed(puts)
<1> SUFFICES Starts
  BY BeginKeeps, Zenon
<1>1. ASSUME NEW b \in Blocks, Store!WriteBlock(b) PROVE Starts
  BY <1>1, BlockListed, Zenon DEF Store!WriteBlock, BodyKey
<1>2. ASSUME NEW h \in Store!Hashes, NEW n \in Numbers,
             \/ \E e \in Epochs : Store!WriteHeader(h, n, e)
             \/ Store!DeleteHeader(h, n)
             \/ Store!WriteCanonicalHash(h, n) \/ Store!WriteTd(h, n)
             \/ Store!DeleteTd(h, n) \/ Store!DeleteBody(h, n)
      PROVE  Starts
  <2>1. /\ Store!headerKey(n, h)[1] # "l" /\ Store!headerNumberKey(h)[1] # "l"
        /\ Store!headerHashKey(n)[1] # "l" /\ Store!blockBodyKey(n, h)[1] # "l"
    BY DEF Store!headerKey, Store!headerNumberKey, Store!headerHashKey, Store!blockBodyKey
  <2>2. Store!headerTDKey(n, h)[1] # "l"
    BY Suffixed
  <2>3. ASSUME NEW e \in Epochs, Store!WriteHeader(h, n, e) PROVE Starts
    <3>1. /\ Owned(Store!headerNumberKey(h), <<"number", n>>)
          /\ Owned(Store!headerKey(n, h), <<"header", h, n, e>>)
      BY Zenon DEF Owned, Header
    <3> QED BY <2>1, <2>3, <3>1, TwoPuts, Zenon DEF Store!WriteHeader
  <2>4. CASE Store!DeleteHeader(h, n)
    BY <2>1, <2>4, TwoPuts, Zenon DEF Store!DeleteHeader
  <2>5. CASE Store!WriteCanonicalHash(h, n)
    <3>1. Owned(Store!headerHashKey(n), h)
      BY Zenon DEF Owned, Header
    <3> QED BY <2>1, <2>5, <3>1, OnePut, Zenon DEF Store!WriteCanonicalHash
  <2>6. CASE Store!WriteTd(h, n)
    <3>1. Owned(Store!headerTDKey(n, h), <<"td", n>>)
      BY Zenon DEF Owned, Header
    <3> QED BY <2>2, <2>6, <3>1, OnePut, Zenon DEF Store!WriteTd
  <2>7. CASE Store!DeleteTd(h, n)
    BY <2>2, <2>7, OnePut, Zenon DEF Store!DeleteTd
  <2>8. CASE Store!DeleteBody(h, n)
    BY <2>1, <2>8, OnePut, Zenon DEF Store!DeleteBody
  <2> QED BY <1>2, <2>3, <2>4, <2>5, <2>6, <2>7, <2>8, Zenon
<1>3. ASSUME NEW h \in Store!Hashes, Store!WriteHeadHash(h) PROVE Starts
  <2>1. PICK k \in Store!HeadKeys : Store!Begin(<< <<k, h>> >>)
    BY <1>3, Zenon DEF Store!WriteHeadHash
  <2>2. k[1] # "l" /\ Owned(k, h)
    BY DEF Store!HeadKeys, Owned, Header
  <2> QED BY <2>1, <2>2, OnePut, Zenon
<1>4. ASSUME NEW n \in Numbers, Store!DeleteCanonicalHash(n) PROVE Starts
  <2>1. Store!headerHashKey(n)[1] # "l"
    BY DEF Store!headerHashKey
  <2> QED BY <1>4, <2>1, OnePut, Zenon DEF Store!DeleteCanonicalHash
<1> QED BY <1>1, <1>2, <1>3, <1>4, Zenon

\* A Put or Delete: what it stores belongs to its key, and the body of an entry is known.
LEMMA PutKeeps == ASSUME WInv, Store!Put PROVE WInv'
<1> DEFINE key == writer[1][1]
           value == writer[1][2]
<1>1. /\ writer # << >> /\ db' = Store!Changed(key, value)
      /\ gone' = IF key[1] # "b" THEN gone
                 ELSE IF value = Store!NoValue THEN gone \cup {key} ELSE gone \ {key}
      /\ writer' = Tail(writer) /\ UNCHANGED <<ops, faults>>
  BY Zenon DEF Store!Put
<1>2. Fine(writer, 1)
  <2>1. PICK S : writer \in Seq(S)
    BY Zenon DEF WInv, Listed
  <2>2. 1 \in 1..Len(writer)
    BY <1>1, <2>1
  <2> QED BY <2>2, Zenon DEF WInv, Listed
<1>3. PICK x, y : x = key /\ y = value
  OBVIOUS
<1> HIDE DEF key, value
<1>4. \A k \in DOMAIN db' : \/ k \in DOMAIN db /\ db'[k] = db[k]
                            \/ k = x /\ db'[k] = y /\ y # Store!NoValue
  BY <1>1, <1>3, Zenon DEF Store!Changed
<1>5. \A k : k \in DOMAIN db' <=> (k \in DOMAIN db /\ k # x) \/ (k = x /\ y # Store!NoValue)
  BY <1>1, <1>3, Zenon DEF Store!Changed
<1>6. \A k : k[1] = "b" /\ (Known(k) \/ k = x) => Known(k)'
  BY <1>1, <1>3, <1>5, Zenon DEF Known, Store!Found
<1>7. Held'
  <2> SUFFICES ASSUME NEW k \in DOMAIN db', NEW v, v = db'[k]
               PROVE  Owned(k, v) /\ (k[1] = "l" => Known(Target(v))')
    BY Zenon DEF Held, Known, Target, Store!Found
  <2>1. Owned(k, v) /\ (k[1] = "l" => Known(Target(v)))
    <3>1. CASE k \in DOMAIN db /\ v = db[k]
      BY <3>1, Zenon DEF WInv, Held
    <3>2. CASE k = x /\ v = y /\ y # Store!NoValue
      <4>1. \A j \in 1..(1 - 1) : FALSE
        OBVIOUS
      <4> QED BY <1>2, <1>3, <3>2, <4>1, Zenon DEF Fine, key, value
    <3> QED BY <1>4, <3>1, <3>2, Zenon
  <2>2. Target(v)[1] = "b"
    BY TargetIsBody, Zenon
  <2> QED BY <1>6, <2>1, <2>2, Zenon
<1>8. Listed(writer)'
  BY <1>1, <1>3, <1>6, TailKeeps, Zenon DEF WInv, key
<1> QED BY <1>1, <1>7, <1>8, Zenon DEF WInv, Counted

\* A Put that fails changes no value, and a body it should have stored is known to be gone.
LEMMA PutFailsKeeps == ASSUME WInv, Store!PutFails PROVE WInv'
<1> DEFINE key == writer[1][1]
<1>1. /\ writer # << >> /\ faults < MaxFaults /\ faults' = faults + 1
      /\ gone' = IF key[1] = "b" /\ ~Store!Found(key) THEN gone \cup {key} ELSE gone
      /\ writer' = Tail(writer) /\ UNCHANGED <<db, ops>>
  BY Zenon DEF Store!PutFails
<1>2. PICK x : x = key
  OBVIOUS
<1> HIDE DEF key
<1>3. \A k : k[1] = "b" /\ (Known(k) \/ k = x) => Known(k)'
  BY <1>1, <1>2, Zenon DEF Known, Store!Found
<1>4. \A k : Known(k) => Known(k)'
  BY <1>1, Zenon DEF Known, Store!Found
<1>5. Held'
  BY <1>1, <1>4, Zenon DEF WInv, Held, Target
<1>6. Listed(writer)'
  BY <1>1, <1>2, <1>3, TailKeeps, Zenon DEF WInv, key
<1>7. Counted'
  BY <1>1, StoreSetting DEF WInv, Counted
<1> QED BY <1>5, <1>6, <1>7, Zenon DEF WInv

\* A stop leaves what is stored.
LEMMA StopKeeps == ASSUME WInv, Store!Stop PROVE WInv'
<1>1. faults < MaxFaults /\ faults' = faults + 1 /\ writer' = << >> /\ UNCHANGED <<db, gone, ops>>
  BY Zenon DEF Store!Stop
<1>2. << >> \in Seq({}) /\ 1..Len(<< >>) = {}
  OBVIOUS
<1>3. Listed(writer)'
  BY <1>1, <1>2, Zenon DEF Listed
<1>4. Held'
  BY <1>1, Zenon DEF WInv, Held, Known, Store!Found
<1>5. Counted'
  BY <1>1, StoreSetting DEF WInv, Counted
<1> QED BY <1>3, <1>4, <1>5, Zenon DEF WInv

\* Every step keeps the invariant.
LEMMA StoreNext == WInv /\ [Store!Next]_store => WInv'
<1> SUFFICES ASSUME WInv, [Store!Next]_store PROVE WInv'
  BY Zenon
<1>1. CASE Store!Next
  BY <1>1, Operations, PutKeeps, PutFailsKeeps, StopKeeps, Zenon DEF Store!Next
<1>2. CASE UNCHANGED store
  BY <1>2, Zenon DEF store, WInv, Held, Listed, Fine, Known, Store!Found, Counted
<1> QED BY <1>1, <1>2, Zenon

\* The invariant of the store holds.
LEMMA StoreInvariance == Store!Spec => []WInv
BY StoreInit, StoreNext, PTL DEF Store!Spec, Store!vars, store

\* Whatever fails and wherever the process stops, ReadTransaction finds the transaction it
\* was asked for, and misses a body only if that was deleted or could not be stored
\* (indexes.go:36).
THEOREM StoredIsFound == Store!Spec => []LookupFinds
<1>1. WInv => LookupFinds
  BY HeldFinds, Zenon DEF WInv
<1> QED BY <1>1, StoreInvariance, PTL

\* No two accessors share a key (schema.go): every key holds a value of the accessor that
\* owns it.
THEOREM KeysAreApart == Store!Spec => []Store!TypeOK
<1>1. ASSUME NEW n \in Numbers, NEW h \in Store!Hashes, NEW v
      PROVE  /\ Header(Store!headerKey(n, h), v) => v \in { <<"header", h, n, e>> : e \in Epochs }
             /\ Header(Store!headerTDKey(n, h), v) => v = <<"td", n>>
             /\ Header(Store!headerHashKey(n), v) => v \in Store!Hashes
             /\ Header(Store!headerNumberKey(h), v) => v \in { <<"number", m>> : m \in Numbers }
  <2>1. h # <<"n">> /\ \A g \in Store!Hashes : g # <<"n">>
    BY HashShape
  <2> USE Suffixed DEF Header, Store!headerKey, Store!headerHashKey, Store!headerNumberKey,
                       Store!HeadKeys
  <2>2. Header(Store!headerKey(n, h), v) => v \in { <<"header", h, n, e>> : e \in Epochs }
    BY <2>1
  <2>3. Header(Store!headerTDKey(n, h), v) => v = <<"td", n>>
    BY <2>1
  <2>4. Header(Store!headerHashKey(n), v) => v \in Store!Hashes
    BY <2>1
  <2>5. Header(Store!headerNumberKey(h), v) => v \in { <<"number", m>> : m \in Numbers }
    BY <2>1
  <2> QED BY <2>2, <2>3, <2>4, <2>5, Zenon
<1>2. ASSUME WInv PROVE Store!TypeOK
  <2>1. ASSUME NEW k, Store!Found(k), k[1] = "h" \/ k[1] = "H" PROVE Header(k, db[k])
    <3>1. Owned(k, db[k])
      BY <1>2, <2>1, Zenon DEF WInv, Held, Store!Found
    <3> QED BY <2>1, <3>1, Kinds DEF Owned
  <2>2. ASSUME NEW k, Store!Found(k), k[1] = "b" PROVE db[k][1] = "body"
    <3>1. Owned(k, db[k])
      BY <1>2, <2>2, Zenon DEF WInv, Held, Store!Found
    <3>2. Body(k, db[k])
      BY <2>2, <3>1, Kinds DEF Owned
    <3>3. PICK b \in Blocks : db[k] = Store!Encode(b)
      BY <3>2, Zenon DEF Body
    <3> QED BY <3>3 DEF Store!Encode
  <2>3. ASSUME NEW n \in Numbers, NEW h \in Store!Hashes
        PROVE  /\ Store!Found(Store!headerKey(n, h)) =>
                    db[Store!headerKey(n, h)] \in { <<"header", h, n, e>> : e \in Epochs }
               /\ Store!Found(Store!headerTDKey(n, h)) => db[Store!headerTDKey(n, h)] = <<"td", n>>
               /\ Store!Found(Store!headerHashKey(n)) => db[Store!headerHashKey(n)] \in Store!Hashes
               /\ Store!Found(Store!headerNumberKey(h)) =>
                    db[Store!headerNumberKey(h)] \in { <<"number", m>> : m \in Numbers }
               /\ Store!Found(Store!blockBodyKey(n, h)) => db[Store!blockBodyKey(n, h)][1] = "body"
    <3>1. /\ Store!headerKey(n, h)[1] = "h" /\ Store!headerNumberKey(h)[1] = "H"
          /\ Store!headerHashKey(n)[1] = "h" /\ Store!blockBodyKey(n, h)[1] = "b"
      BY DEF Store!headerKey, Store!headerNumberKey, Store!headerHashKey, Store!blockBodyKey
    <3>2. Store!headerTDKey(n, h)[1] = "h"
      BY Suffixed
    <3>3. Store!Found(Store!headerKey(n, h)) =>
            db[Store!headerKey(n, h)] \in { <<"header", h, n, e>> : e \in Epochs }
      BY <1>1, <2>1, <3>1, Zenon
    <3>4. Store!Found(Store!headerTDKey(n, h)) => db[Store!headerTDKey(n, h)] = <<"td", n>>
      BY <1>1, <2>1, <3>2, Zenon
    <3>5. Store!Found(Store!headerHashKey(n)) => db[Store!headerHashKey(n)] \in Store!Hashes
      BY <1>1, <2>1, <3>1, Zenon
    <3>6. Store!Found(Store!headerNumberKey(h)) =>
            db[Store!headerNumberKey(h)] \in { <<"number", m>> : m \in Numbers }
      BY <1>1, <2>1, <3>1, Zenon
    <3> QED BY <2>2, <3>1, <3>3, <3>4, <3>5, <3>6, Zenon
  <2> QED BY <1>2, <2>3, Zenon DEF Store!TypeOK, WInv, Counted
<1> QED BY <1>2, StoreInvariance, PTL

-----------------------------------------------------------------------------
(* NodeRegistration. *)

\* Where a registration stands once it has read the three keys.
Registering == {"exists", "nonce", "send", "wait"}
KeyPair == Reg!Id > 0 /\ Reg!Owner > 0

PermitType == [nonce : Nat, value : BOOLEAN]
TxType == [id : Int, owner : Int, permit : PermitType,
           status : {"pending", "success", "reverted"}]
Types == /\ files \in [Reg!Files -> Int] /\ drawn \in Nat
         /\ permits \in [DOMAIN permits -> Nat] /\ funded \in BOOLEAN
         /\ permit \in PermitType
         /\ sent \in Seq(TxType)

\* Every transaction, and every node of the registry, is of the pair of keys in the files.
Chain == /\ \A k \in 1..Len(sent) :
              /\ KeyPair /\ sent[k].id = Reg!Id /\ sent[k].owner = Reg!Owner
              /\ sent[k].status = "success" => <<Reg!Id, Reg!Owner>> \in nodes
         /\ nodes \subseteq {<<Reg!Id, Reg!Owner>>}
         /\ nodes # {} => KeyPair

Process == /\ command \in Registering => KeyPair
           /\ command = "wait" => own \in 1..Len(sent)

RegInv == Types /\ Chain /\ Process /\ Reg!RegisteredIsRegistered

\* There are no keys, no transactions and no nodes at first.
LEMMA RegInit == Reg!Init => RegInv
<1> SUFFICES ASSUME Reg!Init PROVE RegInv
  BY Zenon
<1>1. files \in [Reg!Files -> Int] /\ drawn \in Nat
  BY DEF Reg!Init, Reg!Absent
<1>2. permits \in [DOMAIN permits -> Nat]
  BY DEF Reg!Init
<1>3. funded \in BOOLEAN /\ permit \in PermitType
  BY Zenon DEF Reg!Init, Reg!NoPermit, PermitType
<1>4. sent \in Seq(TxType) /\ 1..Len(sent) = {}
  BY DEF Reg!Init
<1>5. Chain /\ Process
  BY <1>4, Zenon DEF Reg!Init, Chain, Process, Registering
<1>6. Reg!RegisteredIsRegistered
  BY Zenon DEF Reg!Init, Reg!RegisteredIsRegistered, Reg!None
<1> QED
  BY <1>1, <1>2, <1>3, <1>4, <1>5, <1>6, Zenon DEF RegInv, Types

\* The steps of "bridge -init", a stop, and the beginning of a command: files are written
\* only where there was no key.
LEMMA FileInv ==
  ASSUME RegInv,
         files' \in [Reg!Files -> Int], drawn' \in Nat, permit' \in PermitType,
         \A f \in Reg!Files : files[f] > 0 => files'[f] = files[f],
         UNCHANGED Reg!chainvars, command' \notin Registering,
         ret' = ret \/ ret'.end \notin {"registered", "exists"}
  PROVE  RegInv'
<1>1. Types'
  BY Zenon DEF RegInv, Types, Reg!chainvars
<1>2. KeyPair => Reg!Id' = Reg!Id /\ Reg!Owner' = Reg!Owner
  BY Zenon DEF KeyPair, Reg!Id, Reg!Owner, Reg!Files
<1>3. UNCHANGED <<sent, nodes>>
  BY Zenon DEF Reg!chainvars
<1>4. Chain'
  BY <1>2, <1>3, Zenon DEF RegInv, Chain, KeyPair
<1>5. Process'
  BY Zenon DEF Process, Registering
<1>6. Reg!RegisteredIsRegistered'
  BY <1>2, <1>3, Zenon DEF RegInv, Chain, Reg!RegisteredIsRegistered
<1> QED
  BY <1>1, <1>4, <1>5, <1>6, Zenon DEF RegInv

\* The steps of a registration that leave the chain alone.
LEMMA ProcessInv ==
  ASSUME RegInv, UNCHANGED <<Reg!keyvars, Reg!chainvars>>, permit' \in PermitType,
         command' \in Registering => KeyPair,
         command' # "wait",
         Reg!RegisteredIsRegistered'
  PROVE  RegInv'
<1>1. Types'
  BY Zenon DEF RegInv, Types, Reg!chainvars, Reg!keyvars
<1>2. UNCHANGED <<files, sent, nodes>>
  BY Zenon DEF Reg!chainvars, Reg!keyvars
<1>3. Chain'
  BY <1>2, Zenon DEF RegInv, Chain, KeyPair, Reg!Id, Reg!Owner
<1>4. Process'
  BY <1>2, Zenon DEF Process, KeyPair, Reg!Id, Reg!Owner
<1> QED
  BY <1>1, <1>3, <1>4, Zenon DEF RegInv

\* A transaction is sent, of the keys in the files.
LEMMA SendInv ==
  ASSUME RegInv, command = "send", sent' = Append(sent, Reg!Tx),
         UNCHANGED <<Reg!keyvars, permit, permits, nodes, funded>>,
         (command' = "wait" /\ own' = Len(sent) + 1) \/ command' = "shell",
         Reg!RegisteredIsRegistered'
  PROVE  RegInv'
<1>1. KeyPair /\ Reg!Tx \in TxType
  BY Zenon DEF RegInv, Types, Process, Registering, Reg!Tx, TxType, KeyPair, Reg!Id, Reg!Owner,
               Reg!Files
<1>2. sent \in Seq(TxType)
  BY Zenon DEF RegInv, Types
<1>3. /\ sent' \in Seq(TxType) /\ Len(sent') = Len(sent) + 1
      /\ sent'[Len(sent) + 1] = Reg!Tx
      /\ \A k \in 1..Len(sent) : sent'[k] = sent[k]
  BY <1>1, <1>2
<1>4. UNCHANGED <<files, Reg!Id, Reg!Owner, nodes>>
  BY Zenon DEF Reg!keyvars, Reg!Id, Reg!Owner
<1>5. Types'
  BY <1>3, Zenon DEF RegInv, Types, Reg!keyvars
<1>6. Reg!Tx.id = Reg!Id /\ Reg!Tx.owner = Reg!Owner /\ Reg!Tx.status = "pending"
  BY Zenon DEF Reg!Tx
<1>7. ASSUME NEW k \in 1..Len(sent')
      PROVE  /\ KeyPair' /\ sent'[k].id = Reg!Id' /\ sent'[k].owner = Reg!Owner'
             /\ sent'[k].status = "success" => <<Reg!Id', Reg!Owner'>> \in nodes'
  <2>1. CASE k \in 1..Len(sent)
    BY <1>1, <1>3, <1>4, <2>1, Zenon DEF RegInv, Chain, KeyPair
  <2>2. CASE k = Len(sent) + 1
    BY <1>1, <1>3, <1>4, <1>6, <2>2, Zenon DEF KeyPair
  <2>3. Len(sent) \in Nat
    BY <1>2
  <2> QED
    BY <1>3, <2>1, <2>2, <2>3
<1>8. Chain'
  BY <1>1, <1>4, <1>7, Zenon DEF RegInv, Chain, KeyPair
<1>9. Len(sent) \in Nat
  BY <1>2
<1>10. Process'
  BY <1>1, <1>3, <1>4, <1>9 DEF Process, KeyPair, Registering
<1> QED
  BY <1>5, <1>8, <1>10, Zenon DEF RegInv

\* A transaction is mined; when it succeeds the registry has the pair of keys.
LEMMA MineInv ==
  ASSUME RegInv, NEW k \in DOMAIN sent, Reg!Mine(k)
  PROVE  RegInv'
<1> DEFINE tx == sent[k]
           ok == /\ \A o \in 1..drawn : <<tx.id, o>> \notin nodes
                 /\ tx.permit.nonce = Reg!NextPermit(tx.owner) /\ tx.permit.value
           st == IF ok THEN "success" ELSE "reverted"
<1>1. sent \in Seq(TxType) /\ DOMAIN sent = 1..Len(sent) /\ k \in 1..Len(sent) /\ tx \in TxType
  BY DEF RegInv, Types
<1>2. KeyPair /\ tx.id = Reg!Id /\ tx.owner = Reg!Owner
  BY <1>1, Zenon DEF RegInv, Chain
<1>3. /\ sent' = [sent EXCEPT ![k].status = st]
      /\ nodes' = IF ok THEN nodes \cup {<<tx.id, tx.owner>>} ELSE nodes
      /\ permits' = IF ok THEN [o \in DOMAIN permits \cup {tx.owner} |->
                                  IF o = tx.owner THEN Reg!NextPermit(o) + 1 ELSE permits[o]]
                    ELSE permits
      /\ UNCHANGED <<files, drawn, command, ret, permit, own, funded>>
  BY Zenon DEF Reg!Mine, Reg!keyvars
<1>4. permits' \in [DOMAIN permits' -> Nat]
  <2>1. Reg!NextPermit(tx.owner) \in Nat
    BY Zenon DEF RegInv, Types, Reg!NextPermit
  <2>2. CASE ok
    BY <1>3, <2>1, <2>2 DEF RegInv, Types
  <2>3. CASE ~ok
    BY <1>3, <2>3, Zenon DEF RegInv, Types
  <2> QED
    BY <2>2, <2>3, Zenon
<1>5. ok => nodes' = nodes \cup {<<Reg!Id, Reg!Owner>>}
  BY <1>2, <1>3, Zenon
<1>6. ~ok => nodes' = nodes
  BY <1>3, Zenon
<1>7. st \in {"success", "reverted"} /\ (st = "success" <=> ok)
  BY Zenon
<1> HIDE DEF ok, st
<1>8. /\ sent' \in Seq(TxType) /\ Len(sent') = Len(sent)
      /\ \A j \in 1..Len(sent) : /\ sent'[j].id = sent[j].id /\ sent'[j].owner = sent[j].owner
                                 /\ sent'[j].status = IF j = k THEN st ELSE sent[j].status
  <2> DEFINE new == [tx EXCEPT !.status = st]
  <2>1. /\ new \in TxType /\ new.id = tx.id /\ new.owner = tx.owner /\ new.status = st
    BY <1>1, <1>7, Zenon DEF TxType
  <2>2. sent' = [sent EXCEPT ![k] = new]
    BY <1>3, Zenon
  <2> HIDE DEF new
  <2>3. /\ sent' \in Seq(TxType) /\ Len(sent') = Len(sent)
        /\ \A j \in 1..Len(sent) : sent'[j] = IF j = k THEN new ELSE sent[j]
    BY <1>1, <2>1, <2>2
  <2> QED
    BY <1>1, <2>1, <2>3, Zenon
<1>9. Reg!Id' = Reg!Id /\ Reg!Owner' = Reg!Owner
  BY <1>3, Zenon DEF Reg!Id, Reg!Owner
<1>10. Chain'
  BY <1>2, <1>5, <1>6, <1>7, <1>8, <1>9, Zenon DEF RegInv, Chain, KeyPair
<1>11. Types'
  BY <1>3, <1>4, <1>8, Zenon DEF RegInv, Types
<1>12. Process'
  BY <1>3, <1>8, <1>9, Zenon DEF RegInv, Process, KeyPair
<1>13. Reg!RegisteredIsRegistered'
  BY <1>3, <1>5, <1>6, <1>9, Zenon DEF RegInv, Reg!RegisteredIsRegistered
<1> QED
  BY <1>10, <1>11, <1>12, <1>13, Zenon DEF RegInv

\* A permit is signed over the nonce the token has for the owner.
LEMMA PermitInv == ASSUME RegInv, Reg!SignPermit PROVE RegInv'
<1>1. Reg!SignErc20Permit(funded, Reg!NextPermit(Reg!Owner)) \in PermitType
  BY Zenon DEF RegInv, Types, Reg!SignErc20Permit, Reg!NextPermit, PermitType
<1>2. permit' \in PermitType
  BY <1>1, Zenon DEF Reg!SignPermit, RegInv, Types
<1>3. KeyPair
  BY Zenon DEF RegInv, Process, Reg!SignPermit, Registering
<1>4. Reg!RegisteredIsRegistered'
  BY DEF RegInv, Reg!RegisteredIsRegistered, Reg!SignPermit, Reg!Return, Reg!Goto, Reg!keyvars,
         Reg!chainvars, Reg!Owner
<1>5. command' # "wait"
  BY Zenon DEF Reg!SignPermit, Reg!Return, Reg!Goto
<1> QED
  BY <1>2, <1>3, <1>4, <1>5, ProcessInv, Zenon DEF Reg!SignPermit

\* A registration ends without an error only when the registry has the node.
LEMMA RegistrationInv ==
  ASSUME RegInv,
         \/ Reg!Prepare \/ Reg!PrepareFails \/ Reg!NodeExists
         \/ Reg!CreateRelayer \/ Reg!WaitTransaction
  PROVE  RegInv'
<1>1. UNCHANGED <<Reg!keyvars, Reg!chainvars, permit>> /\ command' # "wait"
  BY Zenon DEF Reg!Prepare, Reg!PrepareFails, Reg!NodeExists, Reg!CreateRelayer,
               Reg!WaitTransaction, Reg!Goto, Reg!Return
<1>2. permit' \in PermitType
  BY <1>1, Zenon DEF RegInv, Types
<1>3. command' \in Registering => KeyPair
  BY Zenon DEF RegInv, Process, Reg!Prepare, Reg!PrepareFails, Reg!NodeExists,
               Reg!CreateRelayer, Reg!WaitTransaction, Reg!Goto, Reg!Return, Registering,
               KeyPair, Reg!Id, Reg!Owner, Reg!Files
<1>4. UNCHANGED <<Reg!Id, Reg!Owner, nodes>>
  BY <1>1, Zenon DEF Reg!Id, Reg!Owner, Reg!keyvars, Reg!chainvars
<1>5. Reg!RegisteredIsRegistered'
  <2>1. CASE Reg!Prepare \/ Reg!PrepareFails \/ Reg!CreateRelayer
    BY <1>4, <2>1 DEF RegInv, Reg!RegisteredIsRegistered, Reg!Prepare, Reg!PrepareFails,
                      Reg!CreateRelayer, Reg!Return
  <2>2. CASE Reg!NodeExists
    <3>1. ASSUME NEW o \in 1..drawn, <<Reg!Id, o>> \in nodes PROVE <<Reg!Id, Reg!Owner>> \in nodes
      BY <3>1, Zenon DEF RegInv, Chain
    <3>2. CASE UNCHANGED ret
      BY <1>4, <3>2, Zenon DEF RegInv, Reg!RegisteredIsRegistered
    <3>3. CASE ret' = [end |-> "exists", id |-> Reg!Id] /\ \E o \in 1..drawn : <<Reg!Id, o>> \in nodes
      BY <1>4, <3>1, <3>3, Zenon DEF Reg!RegisteredIsRegistered
    <3> QED
      BY <2>2, <3>2, <3>3, Zenon DEF Reg!NodeExists, Reg!Return
  <2>3. CASE Reg!WaitTransaction
    BY <1>4, <2>3 DEF RegInv, Chain, Process, Reg!RegisteredIsRegistered, Reg!WaitTransaction,
                      Reg!Return
  <2> QED
    BY <2>1, <2>2, <2>3, Zenon
<1> QED
  BY <1>1, <1>2, <1>3, <1>5, ProcessInv, Zenon

\* The steps of the first lemma write no file that holds a key.
LEMMA FilesKept ==
  ASSUME RegInv, Reg!Stop \/ \E f \in Reg!Files : Reg!GenAndSave(f)
  PROVE  /\ files' \in [Reg!Files -> Int] /\ drawn' \in Nat
         /\ \A f \in Reg!Files : files[f] > 0 => files'[f] = files[f]
<1>1. CASE Reg!Stop
  BY <1>1 DEF RegInv, Types, Reg!Stop, Reg!Absent, Reg!Partial
<1>2. ASSUME NEW f \in Reg!Files, Reg!GenAndSave(f)
      PROVE  /\ files' \in [Reg!Files -> Int] /\ drawn' \in Nat
             /\ \A g \in Reg!Files : files[g] > 0 => files'[g] = files[g]
  BY <1>2 DEF RegInv, Types, Reg!GenAndSave, Reg!Absent, Reg!keyvars
<1> QED
  BY <1>1, <1>2, Zenon

\* Every step keeps the invariant.
LEMMA RegStep == RegInv /\ [Reg!Next]_registration => RegInv'
<1> SUFFICES ASSUME RegInv, [Reg!Next]_registration PROVE RegInv'
  BY Zenon
<1>1. ASSUME NEW c \in {"ecdsa", "register"}, Reg!Command(c) PROVE RegInv'
  <2>1. UNCHANGED <<files, drawn, Reg!chainvars>> /\ command' \notin Registering /\ ret'.end = "none"
    BY <1>1, Zenon DEF Reg!Command, Reg!Goto, Reg!None, Reg!keyvars, Registering
  <2>2. permit' \in PermitType
    BY <1>1, Zenon DEF Reg!Command, Reg!NoPermit, PermitType
  <2> QED
    BY <2>1, <2>2, FileInv, Zenon DEF RegInv, Types
<1>2. ASSUME NEW f \in Reg!Files, Reg!GenAndSave(f) PROVE RegInv'
  <2>1. UNCHANGED <<Reg!chainvars, ret, permit>> /\ command' \notin Registering
    BY <1>2 DEF Reg!GenAndSave, Reg!Following, Reg!Files, Registering
  <2> QED
    BY <1>2, <2>1, FilesKept, FileInv, Zenon DEF RegInv, Types
<1>3. CASE Reg!Stop
  <2>1. UNCHANGED <<Reg!chainvars, permit>> /\ command' \notin Registering /\ ret'.end = "none"
    BY <1>3, Zenon DEF Reg!Stop, Reg!Goto, Reg!None, Registering
  <2> QED
    BY <1>3, <2>1, FilesKept, FileInv, Zenon DEF RegInv, Types
<1>4. CASE Reg!CreateNode
  <2>1. Reg!RegisteredIsRegistered'
    BY <1>4, Zenon DEF RegInv, Reg!RegisteredIsRegistered, Reg!CreateNode, Reg!Owner,
                       Reg!keyvars
  <2> QED
    BY <1>4, <2>1, SendInv, Zenon DEF Reg!CreateNode, Reg!Goto
<1>5. CASE Reg!CreateNodeFails
  <2>1. Reg!RegisteredIsRegistered'
    BY <1>5, Zenon DEF Reg!RegisteredIsRegistered, Reg!CreateNodeFails, Reg!Return
  <2>2. CASE sent' = Append(sent, Reg!Tx)
    BY <1>5, <2>1, <2>2, SendInv, Zenon DEF Reg!CreateNodeFails, Reg!Return
  <2>3. CASE sent' = sent
    BY <1>5, <2>1, <2>3, ProcessInv, Zenon
       DEF Reg!CreateNodeFails, Reg!Return, Reg!chainvars, RegInv, Types, Registering
  <2> QED
    BY <1>5, <2>2, <2>3, Zenon DEF Reg!CreateNodeFails
<1>6. CASE Reg!Transfer
  BY <1>6, Zenon DEF Reg!Transfer, RegInv, Types, Chain, Process, Reg!RegisteredIsRegistered,
                     KeyPair, Reg!Id, Reg!Owner, Reg!keyvars
<1>7. CASE UNCHANGED registration
  BY <1>7, Zenon DEF registration, RegInv, Types, Chain, Process, Reg!RegisteredIsRegistered,
                     KeyPair, Reg!Id, Reg!Owner
<1> QED
  BY <1>1, <1>2, <1>3, <1>4, <1>5, <1>6, <1>7, MineInv, PermitInv, RegistrationInv,
      Zenon DEF Reg!Next

\* RegisterNode returns without an error only when the registry has this node under the
\* owner in the key file, however many commands were stopped, failed or repeated before.
THEOREM Registered == Reg!Spec => []RegisteredIsRegistered
<1>1. RegInv => RegisteredIsRegistered
  BY Zenon DEF RegInv, RegisteredIsRegistered
<1> QED
  BY <1>1, RegInit, RegStep, PTL DEF Reg!Spec, Reg!vars, registration

\* No step replaces a key that a file holds.
THEOREM KeysAreKept == Reg!Spec => KeysKept
<1>1. RegInv /\ [Reg!Next]_registration =>
        [\A f \in Reg!Files : files[f] > 0 => files'[f] = files[f]]_registration
  <2> SUFFICES ASSUME RegInv, Reg!Next
               PROVE  \A f \in Reg!Files : files[f] > 0 => files'[f] = files[f]
    BY Zenon
  <2>1. \/ UNCHANGED files \/ Reg!Stop \/ \E f \in Reg!Files : Reg!GenAndSave(f)
    BY Zenon DEF Reg!Next, Reg!Command, Reg!Prepare, Reg!PrepareFails, Reg!NodeExists,
                 Reg!SignPermit, Reg!CreateNode,
           Reg!CreateNodeFails, Reg!CreateRelayer, Reg!WaitTransaction, Reg!Transfer, Reg!Mine,
           Reg!keyvars
  <2> QED
    BY <2>1, FilesKept, Zenon
<1> QED
  BY <1>1, RegInit, RegStep, PTL DEF Reg!Spec, Reg!vars, registration, KeysKept, Reg!KeysKept
=============================================================================
