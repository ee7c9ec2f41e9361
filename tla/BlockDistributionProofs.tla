---------------------- MODULE BlockDistributionProofs -----------------------
(***************************************************************************)
(* Proofs about BlockDistribution for any number of nodes and events.      *)
(* What a ledger holds is a block some leader has created, or nothing, and *)
(* so is every part of it up to a height: ledgers that disagree show two   *)
(* created blocks of one height.  A leader's own ledger is never shorter   *)
(* than the blocks it has created, so one leader creates one at a height.  *)
(***************************************************************************)
EXTENDS BlockDistribution, FiniteSetTheorems, SequenceTheorems, TLAPS

Made == {c.block : c \in created}

\* Only created blocks are on their way.
Types ==
  /\ leader \in [Events -> Nodes] /\ done \in [Events -> SUBSET Nodes]
  /\ ledger \in [Nodes -> Seq(Events)]
  /\ created \subseteq [by : Nodes, block : Seq(Events)]
  /\ publish \subseteq [to : Nodes, block : Made]
  /\ queue \in [Nodes -> Seq(Made)] /\ saving \in [Nodes -> SUBSET Made]
  /\ loops \in [Nodes -> Nat] /\ down \subseteq Nodes

\* Blocks, what they extend, and the ledgers.
Chain ==
  /\ \A b \in Made : b # << >> /\ \A k \in 1..Len(b) : SubSeq(b, 1, k) \in Made
  /\ \A n \in Nodes : ledger[n] = << >> \/ ledger[n] \in Made
  /\ \A c \in created : Len(c.block) <= Len(ledger[c.by])
  /\ \A c, d \in created : c.by = d.by /\ Len(c.block) = Len(d.block) => c = d

Last(b) == b[Len(b)]

\* A block is created once, and reaches a subscription once.
Once ==
  /\ \A b \in Made : leader[Last(b)] \in done[Last(b)]
  /\ \A p \in publish : \A k \in DOMAIN queue[p.to] : queue[p.to][k] # p.block
  /\ \A n \in Nodes : /\ Len(queue[n]) <= Capacity
                      /\ \A k, l \in DOMAIN queue[n] : queue[n][k] = queue[n][l] => k = l

\* A loop is started for a session the node has followed.
Followed(n) == {e \in Events : n \in done[e]}
Loops == \A n \in Nodes : loops[n] <= Cardinality(Followed(n))

BInv == Types /\ Chain /\ Once /\ Loops

\* The last event of a block, and that of an appended one.
LEMMA LastOfBlock ==
  ASSUME Types
  PROVE  /\ \A b \in Made : b \in Seq(Events)
         /\ \A s \in Seq(Events), e \in Events : Last(Append(s, e)) = e
<1>1. \A b \in Made : b \in Seq(Events)
  BY DEF Types, Made
<1>2. ASSUME NEW s \in Seq(Events), NEW e \in Events PROVE Last(Append(s, e)) = e
  BY AppendProperties, LenProperties DEF Last
<1> QED BY <1>1, <1>2

\* Nothing has been created.
LEMMA InitBInv == Init => BInv
<1> SUFFICES ASSUME Init PROVE BInv
  BY Zenon
<1>1. Made = {}
  BY Zenon DEF Init, Made
<1>2. /\ ledger = [n \in Nodes |-> << >>] /\ queue = [n \in Nodes |-> << >>]
      /\ done = [e \in Events |-> {}] /\ loops = [n \in Nodes |-> 0]
      /\ saving = [n \in Nodes |-> {}] /\ created = {} /\ publish = {} /\ down = {}
      /\ leader \in [Events -> Nodes]
  BY Zenon DEF Init
<1>3. Types
  <2>1. << >> \in Seq(Events) /\ << >> \in Seq(Made)
    BY EmptySeq, Zenon
  <2> QED BY <1>2, <2>1 DEF Types
<1>4. Chain
  BY <1>1, <1>2, Zenon DEF Chain
<1>5. Once
  <2>1. Len(<< >>) = 0 /\ DOMAIN << >> = {}
    BY EmptySeq
  <2>2. \A n \in Nodes : queue[n] = << >>
    BY <1>2, Zenon
  <2> QED BY <1>1, <1>2, <2>1, <2>2, SizesAreFinite DEF Once
<1>6. Loops
  <2>1. \A n \in Nodes : Followed(n) = {}
    BY <1>2, Zenon DEF Followed
  <2>2. \A n \in Nodes : loops[n] = 0
    BY <1>2, Zenon
  <2> QED BY <2>1, <2>2, FS_EmptySet DEF Loops
<1> QED BY <1>3, <1>4, <1>5, <1>6 DEF BInv

\* A node that goes on with an event has not followed it before.
LEMMA LoopsKept ==
  ASSUME Types, Loops, NEW n \in Nodes, NEW e \in Events, Agreed(n, e),
         \A m \in Nodes : loops'[m] \in Nat /\ (loops'[m] <= loops[m] \/ (m = n /\ loops'[m] <= loops[m] + 1))
  PROVE  Loops' /\ done' \in [Events -> SUBSET Nodes]
<1>1. /\ done' \in [Events -> SUBSET Nodes] /\ n \notin done[e] /\ done'[e] = done[e] \cup {n}
      /\ \A f \in Events : f # e => done'[f] = done[f]
  BY Zenon DEF Agreed, Types
<1>2. ASSUME NEW m \in Nodes PROVE loops'[m] <= Cardinality(Followed(m)')
  <2>1. IsFiniteSet(Followed(m)) /\ Cardinality(Followed(m)) \in Nat
    BY SizesAreFinite, FS_Subset, FS_CardinalityType, Zenon DEF Followed
  <2>2. loops[m] <= Cardinality(Followed(m)) /\ loops[m] \in Nat
    BY Zenon DEF Loops, Types
  <2>3. CASE m = n
    <3>1. Followed(m)' = Followed(m) \cup {e} /\ e \notin Followed(m)
      BY <2>3, <1>1, Zenon DEF Followed
    <3>2. Cardinality(Followed(m)') = Cardinality(Followed(m)) + 1
      BY <3>1, <2>1, FS_AddElement, Zenon
    <3> QED BY <3>2, <2>1, <2>2
  <2>4. CASE m # n
    <3>1. Followed(m)' = Followed(m)
      BY <2>4, <1>1 DEF Followed
    <3> QED BY <2>4, <3>1, <2>1, <2>2
  <2> QED BY <2>3, <2>4
<1> QED BY <1>1, <1>2 DEF Loops

\* CreateBlockFromEvent and DistributeBlock: the new block is the leader's ledger
\* and the event, which no block had before.
LEMMA LeadKeeps == ASSUME BInv, NEW n \in Nodes, NEW e \in Events, Lead(n, e) PROVE BInv'
<1> DEFINE block == Append(ledger[n], e)
           c0 == [by |-> n, block |-> block]
<1>0. Types /\ Chain /\ Once /\ Loops
  BY Zenon DEF BInv
<1>1. /\ n \notin done[e] /\ leader[e] = n /\ Agreed(n, e)
      /\ ledger' = [ledger EXCEPT ![n] = block]
      /\ created' = created \cup {c0}
      /\ publish' = publish \cup {[to |-> m, block |-> block] : m \in Nodes}
      /\ UNCHANGED <<leader, queue, loops, saving, down>>
  BY Zenon DEF Lead, Agreed
<1>2. ledger[n] \in Seq(Events) /\ Len(ledger[n]) \in Nat
  BY <1>0, LenProperties, Zenon DEF Types
<1>3. /\ block \in Seq(Events) /\ block # << >> /\ Len(block) = Len(ledger[n]) + 1
      /\ \A i \in 1..Len(ledger[n]) : block[i] = ledger[n][i]
      /\ Last(block) = e
  BY <1>0, <1>2, AppendProperties, LastOfBlock
<1> HIDE DEF block
<1>4. Made' = Made \cup {block}
  <2>1. c0.block = block
    BY Zenon
  <2> HIDE DEF c0
  <2> QED BY <1>1, <2>1, Zenon DEF Made
<1>5. block \notin Made
  BY <1>0, <1>1, <1>3, Zenon DEF Once
<1>6. /\ ledger' \in [Nodes -> Seq(Events)] /\ ledger'[n] = block
      /\ \A m \in Nodes : m # n => ledger'[m] = ledger[m]
  BY <1>0, <1>1, <1>3, Zenon DEF Types
<1>7. Loops' /\ done' \in [Events -> SUBSET Nodes]
  <2>1. \A m \in Nodes : loops'[m] \in Nat /\ loops'[m] <= loops[m]
    BY <1>0, <1>1 DEF Types
  <2> QED BY <2>1, <1>0, <1>1, LoopsKept
<1>8. Types'
  <2>1. created' \subseteq [by : Nodes, block : Seq(Events)]
    BY <1>0, <1>1, <1>3 DEF Types
  <2>2. publish' \subseteq [to : Nodes, block : Made']
    BY <1>0, <1>1, <1>4 DEF Types
  <2>3. queue' \in [Nodes -> Seq(Made')] /\ saving' \in [Nodes -> SUBSET (Made')]
    <3>1. Seq(Made) \subseteq Seq(Made')
      BY <1>4, SeqMonotonic, Zenon
    <3> QED BY <3>1, <1>0, <1>1, <1>4 DEF Types
  <2> QED BY <1>0, <1>1, <1>6, <1>7, <2>1, <2>2, <2>3 DEF Types
<1>9. Chain'
  <2>1. \A b \in Made' : b # << >> /\ \A k \in 1..Len(b) : SubSeq(b, 1, k) \in Made'
    <3>1. ASSUME NEW k \in 1..Len(block) PROVE SubSeq(block, 1, k) \in Made'
      <4>1. CASE k = Len(block)
        BY <4>1, <1>3, <1>4, SubSeqFull, Zenon
      <4>2. CASE k # Len(block)
        <5>1. k \in 1..Len(ledger[n])
          BY <4>2, <1>2, <1>3
        <5>2. SubSeq(block, 1, k) = SubSeq(ledger[n], 1, k)
          <6>1. /\ SubSeq(block, 1, k) \in Seq(Events) /\ Len(SubSeq(block, 1, k)) = k
                /\ \A i \in 1..k : SubSeq(block, 1, k)[i] = block[i]
            <7>1. \A i \in 1..k : block[i] \in Events
              BY <1>3, <3>1, ElementOfSeq
            <7> QED BY <7>1, <5>1, SubSeqProperties
          <6>2. /\ SubSeq(ledger[n], 1, k) \in Seq(Events) /\ Len(SubSeq(ledger[n], 1, k)) = k
                /\ \A i \in 1..k : SubSeq(ledger[n], 1, k)[i] = ledger[n][i]
            <7>1. \A i \in 1..k : ledger[n][i] \in Events
              BY <1>2, <5>1, ElementOfSeq
            <7> QED BY <7>1, <5>1, SubSeqProperties
          <6>3. \A i \in 1..k : SubSeq(block, 1, k)[i] = SubSeq(ledger[n], 1, k)[i]
            BY <6>1, <6>2, <5>1, <1>2, <1>3
          <6> QED BY <6>1, <6>2, <6>3, SeqEqual
        <5>3. ledger[n] \in Made
          BY <5>1, <1>0, EmptySeq DEF Chain
        <5> QED BY <5>1, <5>2, <5>3, <1>0, <1>4, Zenon DEF Chain
      <4> QED BY <4>1, <4>2
    <3> QED BY <3>1, <1>0, <1>3, <1>4 DEF Chain
  <2>2. \A m \in Nodes : ledger'[m] = << >> \/ ledger'[m] \in Made'
    BY <1>0, <1>4, <1>6, Zenon DEF Chain
  <2>3. ASSUME NEW c \in created PROVE c.by = n => Len(c.block) < Len(block) /\ Len(c.block) \in Nat
    BY <1>0, <1>2, <1>3, LenProperties DEF Chain, Types
  <2>4. ASSUME NEW c \in created' PROVE Len(c.block) <= Len(ledger'[c.by])
    <3>1. CASE c = c0
      BY <3>1, <1>2, <1>3, <1>6
    <3>2. CASE c # c0 /\ c.by = n
      BY <3>2, <1>1, <1>2, <1>3, <1>6, <2>3
    <3>3. CASE c # c0 /\ c.by # n
      BY <3>3, <1>0, <1>1, <1>6, Zenon DEF Chain, Types
    <3> QED BY <3>1, <3>2, <3>3
  <2>5. ASSUME NEW c \in created', NEW d \in created', c.by = d.by, Len(c.block) = Len(d.block)
        PROVE  c = d
    <3>1. CASE c = c0 /\ d # c0
      BY <3>1, <2>5, <1>1, <1>3, <1>2, <2>3
    <3>2. CASE d = c0 /\ c # c0
      BY <3>2, <2>5, <1>1, <1>3, <1>2, <2>3
    <3>3. CASE c # c0 /\ d # c0
      BY <3>3, <2>5, <1>0, <1>1, Zenon DEF Chain
    <3> QED BY <3>1, <3>2, <3>3
  <2> QED BY <2>1, <2>2, <2>4, <2>5 DEF Chain
<1>10. Once'
  <2>1. \A f \in Events : done[f] \subseteq done'[f]
    BY <1>0, <1>1, Zenon DEF Agreed, Types
  <2>2. n \in done'[e]
    BY <1>0, <1>1, Zenon DEF Agreed, Types
  <2>3. ASSUME NEW b \in Made' PROVE leader'[Last(b)] \in done'[Last(b)]
    <3>1. CASE b = block
      BY <3>1, <1>1, <1>3, <2>2, Zenon
    <3>2. CASE b \in Made
      <4>1. Last(b) \in Events
        BY <3>2, <1>0, LastOfBlock, EmptySeq, ElementOfSeq DEF Last, Chain
      <4> QED BY <3>2, <4>1, <1>0, <1>1, <2>1 DEF Once
    <3> QED BY <3>1, <3>2, <1>4
  <2>4. ASSUME NEW p \in publish', NEW k \in DOMAIN queue'[p.to] PROVE queue'[p.to][k] # p.block
    <3>1. CASE p \in publish
      BY <3>1, <2>4, <1>0, <1>1, Zenon DEF Once
    <3>2. CASE p \notin publish
      <4>1. p.to \in Nodes /\ p.block = block
        BY <3>2, <1>1
      <4>2. queue[p.to][k] \in Made
        BY <4>1, <2>4, <1>0, <1>1, LenProperties, ElementOfSeq, Zenon DEF Types
      <4> QED BY <4>1, <4>2, <1>1, <1>5
    <3> QED BY <3>1, <3>2
  <2> QED BY <2>3, <2>4, <1>0, <1>1 DEF Once
<1> QED BY <1>7, <1>8, <1>9, <1>10 DEF BInv

\* The steps that create nothing and add nothing to a ledger or a queue.
LEMMA QuietKeeps ==
  ASSUME BInv, UNCHANGED <<leader, ledger, created>>, Types', Loops',
         \A e \in Events : done[e] \subseteq done'[e],
         publish' \subseteq publish,
         \A n \in Nodes : \/ queue'[n] = queue[n]
                          \/ queue'[n] = << >>
                          \/ queue[n] # << >> /\ queue'[n] = Tail(queue[n])
  PROVE  BInv'
<1>0. Types /\ Chain /\ Once /\ Made' = Made
  BY Zenon DEF BInv, Made
<1>1. Chain'
  BY <1>0, Zenon DEF Chain
<1>2. ASSUME NEW n \in Nodes
      PROVE  /\ Len(queue'[n]) <= Capacity
             /\ \A k \in DOMAIN queue'[n] : \E l \in DOMAIN queue[n] : queue'[n][k] = queue[n][l]
             /\ \A k, l \in DOMAIN queue'[n] : queue'[n][k] = queue'[n][l] => k = l
  <2>1. queue[n] \in Seq(Made) /\ DOMAIN queue[n] = 1..Len(queue[n]) /\ Len(queue[n]) \in Nat
    BY <1>0, LenProperties, Zenon DEF Types
  <2>2. CASE queue'[n] = queue[n]
    BY <2>2, <1>0, Zenon DEF Once
  <2>3. CASE queue'[n] = << >>
    <3>1. Len(<< >>) = 0 /\ DOMAIN << >> = {}
      BY EmptySeq
    <3> QED BY <2>3, <3>1, SizesAreFinite
  <2>4. CASE queue[n] # << >> /\ queue'[n] = Tail(queue[n])
    <3>1. /\ Tail(queue[n]) \in Seq(Made) /\ Len(Tail(queue[n])) = Len(queue[n]) - 1
          /\ \A i \in 1..Len(Tail(queue[n])) : Tail(queue[n])[i] = queue[n][i + 1]
      BY <2>1, <2>4, HeadTailProperties, Zenon
    <3>2. DOMAIN queue'[n] = 1..(Len(queue[n]) - 1)
      BY <2>4, <3>1, LenProperties, Zenon
    <3>3. \A k \in DOMAIN queue'[n] : k + 1 \in DOMAIN queue[n] /\ queue'[n][k] = queue[n][k + 1]
      BY <2>1, <2>4, <3>1, <3>2
    <3>4. Len(queue'[n]) <= Capacity
      BY <2>1, <2>4, <3>1, <1>0, SizesAreFinite DEF Once
    <3>5. ASSUME NEW k \in DOMAIN queue'[n], NEW l \in DOMAIN queue'[n], queue'[n][k] = queue'[n][l]
          PROVE  k = l
      <4>1. k + 1 = l + 1
        BY <3>3, <3>5, <1>0 DEF Once
      <4> QED BY <4>1, <3>2
    <3> QED BY <3>3, <3>4, <3>5
  <2> QED BY <2>2, <2>3, <2>4
<1>3. Once'
  <2>1. ASSUME NEW b \in Made PROVE leader'[Last(b)] \in done'[Last(b)]
    <3>1. Last(b) \in Events
      BY <1>0, LastOfBlock, EmptySeq, ElementOfSeq DEF Last, Chain
    <3> QED BY <3>1, <1>0 DEF Once
  <2>2. ASSUME NEW p \in publish', NEW k \in DOMAIN queue'[p.to] PROVE queue'[p.to][k] # p.block
    <3>1. p.to \in Nodes /\ p \in publish
      BY <1>0, Zenon DEF Types
    <3>2. PICK l \in DOMAIN queue[p.to] : queue'[p.to][k] = queue[p.to][l]
      BY <3>1, <2>2, <1>2, Zenon
    <3>3. queue[p.to][l] # p.block
      BY <3>1, <1>0, Zenon DEF Once
    <3> QED BY <3>2, <3>3
  <2> QED BY <1>0, <1>2, <2>1, <2>2 DEF Once
<1> QED BY <1>1, <1>3 DEF BInv

\* Gossipsub brings a block to a subscription.
LEMMA DeliverKeeps == ASSUME BInv, NEW p \in publish, Deliver(p) PROVE BInv'
<1> DEFINE n == p.to
<1>0. Types /\ Chain /\ Once /\ Loops
  BY Zenon DEF BInv
<1>1. /\ publish' = publish \ {p}
      /\ UNCHANGED <<leader, done, ledger, created, loops, saving, down>>
      /\ queue' = [queue EXCEPT ![n] = IF n \in down \/ Len(@) = Capacity THEN @ ELSE Append(@, p.block)]
  BY Zenon DEF Deliver
<1>2. Made' = Made /\ Loops' /\ n \in Nodes /\ p.block \in Made
  BY <1>0, <1>1, Zenon DEF Made, Loops, Followed, Types
<1>3. CASE n \in down \/ Len(queue[n]) = Capacity
  <2>1. queue' = queue
    BY <1>0, <1>1, <1>2, <1>3, Zenon DEF Types
  <2>2. Types'
    BY <2>1, <1>0, <1>1, <1>2, Zenon DEF Types
  <2> QED BY <2>1, <2>2, <1>1, <1>2, QuietKeeps
<1>4. CASE ~(n \in down \/ Len(queue[n]) = Capacity)
  <2> DEFINE q == queue[n]
             r == Append(q, p.block)
  <2>1. q \in Seq(Made) /\ DOMAIN q = 1..Len(q) /\ Len(q) \in Nat
    BY <1>0, <1>2, LenProperties, Zenon DEF Types
  <2>2. queue' = [queue EXCEPT ![n] = r]
    BY <1>1, <1>4, Zenon
  <2>3. /\ r \in Seq(Made) /\ Len(r) = Len(q) + 1
        /\ \A i \in 1..Len(q) : r[i] = q[i]
        /\ r[Len(q) + 1] = p.block
    BY <2>1, <1>2, AppendProperties
  <2>4. DOMAIN r = 1..(Len(q) + 1)
    BY <2>3, LenProperties, Zenon
  <2> HIDE DEF r
  <2>5. /\ queue' \in [Nodes -> Seq(Made)] /\ queue'[n] = r
        /\ \A m \in Nodes : m # n => queue'[m] = queue[m]
    BY <1>0, <1>2, <2>2, <2>3, Zenon DEF Types
  <2>6. Types'
    BY <2>5, <1>0, <1>1, <1>2, Zenon DEF Types
  <2>7. Chain'
    BY <1>0, <1>1, <1>2, Zenon DEF Chain
  <2>8. \A k \in 1..Len(q) : q[k] # p.block
    BY <1>0, <2>1, Zenon DEF Once
  <2>9. ASSUME NEW x \in publish', NEW k \in DOMAIN queue'[x.to] PROVE queue'[x.to][k] # x.block
    <3>1. x \in publish /\ x # p /\ x.to \in Nodes
      BY <1>0, <1>1, Zenon DEF Types
    <3>2. CASE x.to # n
      BY <3>1, <3>2, <2>5, <2>9, <1>0, Zenon DEF Once
    <3>3. CASE x.to = n
      <4>1. x.block # p.block
        <5>1. x \in [to : Nodes, block : Made] /\ p \in [to : Nodes, block : Made]
          BY <3>1, <1>0, Zenon DEF Types
        <5> QED BY <5>1, <3>1, <3>3
      <4>2. \A i \in 1..Len(q) : q[i] # x.block
        BY <3>1, <3>3, <1>0, <2>1, Zenon DEF Once
      <4>3. k \in 1..(Len(q) + 1)
        BY <3>3, <2>4, <2>5, <2>9, Zenon
      <4> QED BY <4>1, <4>2, <4>3, <3>3, <2>1, <2>3, <2>5
    <3> QED BY <3>2, <3>3
  <2>10. ASSUME NEW m \in Nodes
         PROVE  /\ Len(queue'[m]) <= Capacity
                /\ \A k, l \in DOMAIN queue'[m] : queue'[m][k] = queue'[m][l] => k = l
    <3>1. CASE m # n
      BY <3>1, <2>5, <1>0, Zenon DEF Once
    <3>2. CASE m = n
      <4>1. Len(r) <= Capacity
        BY <1>0, <1>2, <1>4, <2>1, <2>3, SizesAreFinite DEF Once
      <4>2. \A k, l \in 1..Len(q) : q[k] = q[l] => k = l
        BY <1>0, <1>2, <2>1, Zenon DEF Once
      <4>3. \A k, l \in 1..(Len(q) + 1) : r[k] = r[l] => k = l
        <5> TAKE k, l \in 1..(Len(q) + 1)
        <5>1. CASE k <= Len(q) /\ l <= Len(q)
          BY <5>1, <4>2, <2>1, <2>3
        <5>2. CASE k = Len(q) + 1 /\ l = Len(q) + 1
          BY <5>2, Zenon
        <5>3. CASE k = Len(q) + 1 /\ l <= Len(q)
          BY <5>3, <2>1, <2>3, <2>8
        <5>4. CASE k <= Len(q) /\ l = Len(q) + 1
          BY <5>4, <2>1, <2>3, <2>8, SMTT(30)
        <5> QED BY <5>1, <5>2, <5>3, <5>4, <2>1
      <4> QED BY <3>2, <4>1, <4>3, <2>4, <2>5
    <3> QED BY <3>1, <3>2
  <2>11. Once'
    BY <2>9, <2>10, <1>0, <1>1, <1>2, Zenon DEF Once
  <2> QED BY <2>6, <2>7, <2>11, <1>2 DEF BInv
<1> QED BY <1>3, <1>4

\* A goroutine saves a block that extends the ledger by one, or nothing.
LEMMA SaveKeeps == ASSUME BInv, NEW n \in Nodes, NEW b \in saving[n], ExecAndSaveBlock(n, b) PROVE BInv'
<1>0. Types /\ Chain /\ Once /\ Loops
  BY Zenon DEF BInv
<1>1. /\ saving' = [saving EXCEPT ![n] = @ \ {b}]
      /\ ledger' = [ledger EXCEPT ![n] = IF \E e \in Events : b = Append(@, e) THEN b ELSE @]
      /\ UNCHANGED <<leader, done, created, publish, queue, loops, down>>
  BY Zenon DEF ExecAndSaveBlock
<1>2. Made' = Made /\ Loops' /\ Once'
  BY <1>0, <1>1, Zenon DEF Made, Loops, Followed, Once
<1>3. b \in Made /\ b \in Seq(Events) /\ b # << >> /\ ledger[n] \in Seq(Events)
  BY <1>0, LastOfBlock, Zenon DEF Types, Chain
<1>4. /\ ledger' \in [Nodes -> Seq(Events)]
      /\ \A m \in Nodes : m # n => ledger'[m] = ledger[m]
      /\ ledger'[n] = IF \E e \in Events : b = Append(ledger[n], e) THEN b ELSE ledger[n]
  BY <1>0, <1>1, <1>3, Zenon DEF Types
<1>5. Types'
  <2>1. saving' \in [Nodes -> SUBSET Made]
    BY <1>0, <1>1, Zenon DEF Types
  <2> QED BY <2>1, <1>0, <1>1, <1>2, <1>4, Zenon DEF Types
<1>6. Len(ledger[n]) <= Len(ledger'[n]) /\ Len(ledger[n]) \in Nat /\ Len(ledger'[n]) \in Nat
  <2>1. Len(b) \in Nat /\ Len(ledger[n]) \in Nat
    BY <1>3, LenProperties, Zenon
  <2>2. ASSUME NEW e \in Events, b = Append(ledger[n], e) PROVE Len(b) = Len(ledger[n]) + 1
    BY <2>2, <1>3, AppendProperties
  <2> QED BY <2>1, <2>2, <1>4
<1>7. Chain'
  <2>1. \A m \in Nodes : ledger'[m] = << >> \/ ledger'[m] \in Made'
    BY <1>0, <1>2, <1>3, <1>4, Zenon DEF Chain
  <2>2. ASSUME NEW c \in created PROVE Len(c.block) <= Len(ledger'[c.by])
    <3>1. c.by \in Nodes /\ Len(c.block) \in Nat /\ Len(c.block) <= Len(ledger[c.by])
      BY <1>0, LenProperties, Zenon DEF Types, Chain
    <3>2. CASE c.by # n
      BY <3>1, <3>2, <1>4, Zenon
    <3>3. CASE c.by = n
      <4>1. Len(c.block) <= Len(ledger[n])
        BY <3>1, <3>3, Zenon
      <4>2. Len(c.block) <= Len(ledger'[n])
        BY <3>1, <4>1, <1>6
      <4> QED BY <3>3, <4>2, Zenon
    <3> QED BY <3>2, <3>3, Zenon
  <2> QED BY <2>1, <2>2, <1>0, <1>1, <1>2 DEF Chain
<1> QED BY <1>2, <1>5, <1>7 DEF BInv

\* Every step keeps the invariant.
LEMMA NextBInv == BInv /\ [Next]_vars => BInv'
<1> SUFFICES ASSUME BInv, [Next]_vars PROVE BInv'
  BY Zenon
<1>0. Types /\ Loops
  BY Zenon DEF BInv
<1>1. ASSUME NEW n \in Nodes, NEW e \in Events, LeadPanics(n, e) \/ ReceiveAndSaveBlock(n, e) PROVE BInv'
  <2>1. /\ Agreed(n, e) /\ UNCHANGED <<leader, ledger, created, publish>>
        /\ \/ /\ down' = down \cup {n} /\ queue' = [queue EXCEPT ![n] = << >>]
              /\ saving' = [saving EXCEPT ![n] = {}] /\ loops' = [loops EXCEPT ![n] = 0]
           \/ loops' = [loops EXCEPT ![n] = @ + 1] /\ UNCHANGED <<queue, saving, down>>
    BY <1>1, Zenon DEF LeadPanics, ReceiveAndSaveBlock
  <2>2. loops' \in [Nodes -> Nat] /\ \A m \in Nodes : loops'[m] <= loops[m] \/ (m = n /\ loops'[m] <= loops[m] + 1)
    <3>1. loops \in [Nodes -> Nat]
      BY <1>0, Zenon DEF Types
    <3>2. loops' = [loops EXCEPT ![n] = 0] \/ loops' = [loops EXCEPT ![n] = @ + 1]
      BY <2>1, Zenon
    <3> QED BY <3>1, <3>2
  <2>3. Loops' /\ done' \in [Events -> SUBSET Nodes]
    BY <1>0, <2>1, <2>2, LoopsKept, Zenon
  <2>4. << >> \in Seq(Made) /\ Made' = Made
    BY <2>1, EmptySeq, Zenon DEF Made
  <2>5. queue' \in [Nodes -> Seq(Made)] /\ saving' \in [Nodes -> SUBSET Made] /\ down' \subseteq Nodes
    <3>1. queue \in [Nodes -> Seq(Made)] /\ saving \in [Nodes -> SUBSET Made] /\ down \subseteq Nodes
      BY <1>0, Zenon DEF Types
    <3>2. CASE UNCHANGED <<queue, saving, down>>
      BY <3>1, <3>2, Zenon
    <3>3. CASE ~UNCHANGED <<queue, saving, down>>
      BY <3>1, <3>3, <2>1, <2>4, Zenon
    <3> QED BY <3>2, <3>3
  <2>6. Types'
    BY <1>0, <2>1, <2>2, <2>3, <2>4, <2>5, Zenon DEF Types
  <2>7. \A m \in Nodes : queue'[m] = queue[m] \/ queue'[m] = << >>
    BY <1>0, <2>1 DEF Types
  <2>8. \A f \in Events : done[f] \subseteq done'[f]
    BY <1>0, <2>1, Zenon DEF Agreed, Types
  <2> QED BY <2>1, <2>3, <2>6, <2>7, <2>8, QuietKeeps
<1>2. ASSUME NEW n \in Nodes, Receive(n) PROVE BInv'
  <2>1. /\ queue[n] # << >>
        /\ saving' = [saving EXCEPT ![n] = @ \cup {Head(queue[n])}]
        /\ queue' = [queue EXCEPT ![n] = Tail(@)]
        /\ UNCHANGED <<leader, done, ledger, created, publish, loops, down>>
    BY <1>2, Zenon DEF Receive
  <2>2. Head(queue[n]) \in Made /\ Tail(queue[n]) \in Seq(Made)
    BY <1>0, <2>1, HeadTailProperties, Zenon DEF Types
  <2>3. Made' = Made /\ Loops'
    BY <1>0, <2>1, Zenon DEF Made, Loops, Followed
  <2>4. saving' \in [Nodes -> SUBSET Made] /\ queue' \in [Nodes -> Seq(Made)]
    <3>1. queue \in [Nodes -> Seq(Made)] /\ saving \in [Nodes -> SUBSET Made]
      BY <1>0, Zenon DEF Types
    <3> QED BY <3>1, <2>1, <2>2
  <2>5. Types'
    BY <1>0, <2>1, <2>3, <2>4, Zenon DEF Types
  <2>6. \A m \in Nodes : queue'[m] = queue[m] \/ (queue[m] # << >> /\ queue'[m] = Tail(queue[m]))
    <3>1. /\ queue'[n] = Tail(queue[n])
          /\ \A m \in Nodes : m # n => queue'[m] = queue[m]
      BY <1>0, <2>1, Zenon DEF Types
    <3> TAKE m \in Nodes
    <3>2. CASE m = n
      BY <3>1, <3>2, <2>1, Zenon
    <3>3. CASE m # n
      BY <3>1, <3>3, Zenon
    <3> QED BY <3>2, <3>3
  <2> QED BY <2>1, <2>3, <2>5, <2>6, QuietKeeps
<1>3. CASE UNCHANGED vars
  <2>1. Types' /\ Loops'
    BY <1>0, <1>3, Zenon DEF vars, Types, Made, Loops, Followed
  <2> QED BY <1>3, <2>1, QuietKeeps, SMTT(30) DEF vars
<1> QED BY <1>1, <1>2, <1>3, LeadKeeps, DeliverKeeps, SaveKeeps DEF Next

\* The invariant holds in every reachable state.
LEMMA Invariance == Spec => []BInv
BY InitBInv, NextBInv, PTL DEF Spec

\* No block is twice in a subscription, and a node has no more loops than sessions
\* it has followed, whatever blocks the leaders distribute.
THEOREM TypeCorrect == Spec => []TypeOK
<1>1. BInv => TypeOK
  <2> SUFFICES ASSUME BInv PROVE TypeOK
    BY Zenon
  <2>1. ASSUME NEW n \in Nodes PROVE loops[n] \in 0..Cardinality(Events)
    <3>1. /\ Cardinality(Followed(n)) \in Nat /\ Cardinality(Events) \in Nat
          /\ Cardinality(Followed(n)) <= Cardinality(Events)
      BY SizesAreFinite, FS_Subset, FS_CardinalityType, Zenon DEF Followed
    <3> QED BY <3>1 DEF BInv, Types, Loops
  <2>2. \A n \in Nodes : \A b \in saving[n] : b # << >>
    BY Zenon DEF BInv, Types, Chain
  <2> QED BY <2>1, <2>2 DEF TypeOK, BInv, Types, Once
<1> QED BY <1>1, Invariance, PTL

\* Two ledgers disagree only if two leaders have each created a block of one
\* height: no order in which blocks are taken and saved makes a node save one in a
\* wrong place, and no leader puts two at a height.
THEOREM ForksHaveTwoLeaders == Spec => []ForkNeedsTwoLeaders
<1>1. ASSUME BInv, NEW n \in Nodes, NEW m \in Nodes,
             NEW k \in DOMAIN ledger[n] \cap DOMAIN ledger[m], ledger[n][k] # ledger[m][k]
      PROVE  \E c, d \in created : c.by # d.by /\ c.block # d.block /\ Len(c.block) = Len(d.block)
  <2> DEFINE x == SubSeq(ledger[n], 1, k)
             y == SubSeq(ledger[m], 1, k)
  <2>1. ledger[n] \in Seq(Events) /\ ledger[m] \in Seq(Events)
    BY <1>1, Zenon DEF BInv, Types
  <2>2. /\ Len(ledger[n]) \in Nat /\ k \in 1..Len(ledger[n])
        /\ Len(ledger[m]) \in Nat /\ k \in 1..Len(ledger[m])
    BY <1>1, <2>1, LenProperties, Zenon
  <2>3. ledger[n] \in Made /\ ledger[m] \in Made
    <3>1. ledger[n] # << >> /\ ledger[m] # << >>
      BY <2>2, EmptySeq
    <3> QED BY <1>1, <3>1 DEF BInv, Chain
  <2>4. x \in Made /\ y \in Made
    <3>1. \A b \in Made : \A i \in 1..Len(b) : SubSeq(b, 1, i) \in Made
      BY <1>1, Zenon DEF BInv, Chain
    <3> QED BY <2>2, <2>3, <3>1
  <2>5. Len(x) = k /\ Len(y) = k /\ x # y
    <3>1. (\A i \in 1..k : ledger[n][i] \in Events) /\ (\A i \in 1..k : ledger[m][i] \in Events)
      BY <2>1, <2>2, ElementOfSeq
    <3>2. Len(x) = k /\ Len(y) = k /\ x[k] = ledger[n][k] /\ y[k] = ledger[m][k]
      BY <3>1, <2>2, SubSeqProperties
    <3> QED BY <1>1, <3>2, Zenon
  <2> HIDE DEF x, y
  <2>6. PICK c \in created, d \in created : c.block = x /\ d.block = y
    BY <2>4, Zenon DEF Made
  <2>7. c.by # d.by
    BY <1>1, <2>5, <2>6, Zenon DEF BInv, Chain
  <2> QED BY <2>5, <2>6, <2>7
<1>2. BInv => ForkNeedsTwoLeaders
  BY <1>1, Zenon DEF ForkNeedsTwoLeaders, Agree
<1> QED BY <1>2, Invariance, PTL
=============================================================================
