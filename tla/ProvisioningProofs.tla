------------------------- MODULE ProvisioningProofs -------------------------
(***************************************************************************)
(* Theorems about Provisioning, for any number of Nodes, ports, plans,     *)
(* revisions, requests and faults and any window of claimed rows.          *)
(***************************************************************************)
EXTENDS Provisioning, SubsequenceProofs

-----------------------------------------------------------------------------
(* Rows.  What a step does to the list of rows: it keeps some in their     *)
(* order, and puts new ones behind them.                                   *)

(* A row that is kept may be given back, or be given another revision.     *)
Same(r, q) == /\ q.kind = r.kind /\ q.node = r.node /\ q.plan = r.plan
              /\ q.ports = r.ports /\ q.sent = r.sent
              /\ r.rev > 0 => q.rev > 0
              /\ q.running => r.running

(* What a row says of its kind. *)
Fits(r) ==
    /\ r.kind = "discover_host" => r.node = NoNode /\ r.plan \in Plans
    /\ r.kind \in {"reconcile_instance", "reconcile_certificate", "apply_config",
                   "stop_instance", "start_instance"} => r.node # NoNode
    /\ r.kind = "apply_config" => r.rev > 0

(* A row that a step has made.  An instance is created for a Node that is  *)
(* new or that is retried, unless the retry was raced.                     *)
New(k) ==
    LET r == rows'[k] IN
    /\ ~r.sent /\ ~r.running
    /\ r.node \in managed' \cup {NoNode}
    /\ Fits(r)
    /\ r.kind = "apply_config" => k = Len(rows')
    /\ r.kind = "reconcile_instance" =>
          \/ r.node \notin managed
          \/ Retryable(r.node) /\ r.ports = RetryPorts(r.node)
          \/ r.node \in raced'

(* The list q has rows of the list as it is, in its order. *)
Shortened(q) ==
    /\ q \in Seq(Row)
    /\ \A k \in DOMAIN q : \E i \in DOMAIN rows : Same(rows[i], q[k])
    /\ \A k, l \in DOMAIN q :
          k < l => \E i, j \in DOMAIN rows :
                      i < j /\ Same(rows[i], q[k]) /\ Same(rows[j], q[l])

Succession ==
    /\ rows' \in Seq(Row)
    /\ \A k \in DOMAIN rows' : New(k) \/ \E i \in DOMAIN rows : Same(rows[i], rows'[k])
    /\ \A k, l \in DOMAIN rows' :
          k < l => \/ New(l)
                   \/ \E i, j \in DOMAIN rows :
                         i < j /\ Same(rows[i], rows'[k]) /\ Same(rows[j], rows'[l])

(* New rows, no configuration among them, are put behind all others. *)
Grows == \E new \in Seq(Row) : /\ rows' = rows \o new
                               /\ \A k \in DOMAIN new : new[k].kind # "apply_config"

(* The list has an instance to create, or a configuration, of the Node.    *)
InstanceRow(r, n) == r.kind = "reconcile_instance" /\ r.node = n
ConfigRow(r, n)   == r.kind = "apply_config" /\ r.node = n
Creates(q, n)     == \E i \in DOMAIN q : InstanceRow(q[i], n)

LEMMA CommandType ==
  ASSUME NEW k \in Kinds, NEW n \in Nodes \cup {NoNode}
  PROVE  Command(k, n) \in Row
BY BoundsAssumption DEF Command, Row

(* All rows are rows in their order. *)
LEMMA AllRows ==
  ASSUME rows \in Seq(Row)
  PROVE  Shortened(rows)
BY DEF Shortened, Same

(* Taking out rows leaves rows in their order. *)
LEMMA SomeRows ==
  ASSUME rows \in Seq(Row), NEW q, Shortened(q), NEW I \in SUBSET DOMAIN q
  PROVE  Shortened(Subsequence(q, I))
<1> DEFINE s == Subsequence(q, I)
<1>1. /\ s \in Seq(Row)
      /\ \A k \in DOMAIN s : Position(I, k) \in I /\ s[k] = q[Position(I, k)]
      /\ \A k, l \in DOMAIN s : k < l <=> Position(I, k) < Position(I, l)
  BY SubsequenceProperties DEF Shortened
<1> HIDE DEF s
<1>2. \A k \in DOMAIN s : \E i \in DOMAIN rows : Same(rows[i], s[k])
  BY <1>1 DEF Shortened
<1>3. ASSUME NEW k \in DOMAIN s, NEW l \in DOMAIN s, k < l
      PROVE  \E i, j \in DOMAIN rows : i < j /\ Same(rows[i], s[k]) /\ Same(rows[j], s[l])
  <2>1. /\ Position(I, k) \in DOMAIN q /\ Position(I, l) \in DOMAIN q
        /\ Position(I, k) < Position(I, l)
        /\ s[k] = q[Position(I, k)] /\ s[l] = q[Position(I, l)]
    BY <1>1, <1>3
  <2> QED
    BY <2>1 DEF Shortened
<1>4. Shortened(s)
  BY <1>1, <1>2, <1>3 DEF Shortened
<1> QED
  BY <1>4 DEF s

LEMMA AllButOne ==
  ASSUME rows \in Seq(Row), NEW i \in DOMAIN rows
  PROVE  Shortened(Without(i))
<1> DEFINE s == Without(i)
<1>1. /\ s \in Seq(Row) /\ Len(s) = Len(rows) - 1
      /\ \A k \in 1 .. Len(rows) - 1 : s[k] = IF k < i THEN rows[k] ELSE rows[k + 1]
  BY RemoveAtProperties DEF Without
<1>2. /\ DOMAIN rows = 1 .. Len(rows) /\ Len(rows) \in Nat
      /\ DOMAIN s = 1 .. Len(rows) - 1
  BY <1>1, LenProperties
<1> HIDE DEF s
<1> DEFINE at(k) == IF k < i THEN k ELSE k + 1
<1>3. \A k \in DOMAIN s : at(k) \in DOMAIN rows /\ s[k] = rows[at(k)]
  BY <1>1, <1>2
<1>4. \A k, l \in DOMAIN s : k < l => at(k) < at(l)
  BY <1>2
<1> HIDE DEF at
<1>5. \A r : Same(r, r)
  BY DEF Same
<1>6. \A k \in DOMAIN s : \E j \in DOMAIN rows : Same(rows[j], s[k])
  BY <1>3, <1>5
<1>7. \A k, l \in DOMAIN s :
         k < l => \E m, j \in DOMAIN rows :
                     m < j /\ Same(rows[m], s[k]) /\ Same(rows[j], s[l])
  BY <1>3, <1>4, <1>5
<1> QED
  BY <1>1, <1>6, <1>7 DEF Shortened, s

(* Rows kept with new rows behind them are a succession. *)
LEMMA Appended ==
  ASSUME rows \in Seq(Row), NEW q, Shortened(q), NEW new \in Seq(Row),
         rows' = q \o new,
         \A k \in DOMAIN rows' : k > Len(q) => New(k)
  PROVE  Succession
<1>1. q \in Seq(Row)
  BY DEF Shortened
<1>2. /\ rows' \in Seq(Row) /\ Len(rows') = Len(q) + Len(new)
      /\ DOMAIN rows' = 1 .. Len(rows') /\ DOMAIN q = 1 .. Len(q)
      /\ Len(q) \in Nat /\ Len(new) \in Nat
      /\ \A k \in DOMAIN rows' : k <= Len(q) => rows'[k] = q[k] /\ k \in DOMAIN q
  <2>1. /\ q \o new \in Seq(Row) /\ Len(q \o new) = Len(q) + Len(new)
        /\ \A k \in 1 .. Len(q) + Len(new) :
              (q \o new)[k] = IF k <= Len(q) THEN q[k] ELSE new[k - Len(q)]
    BY <1>1, ConcatProperties
  <2>2. /\ DOMAIN (q \o new) = 1 .. Len(q \o new) /\ DOMAIN q = 1 .. Len(q)
        /\ Len(q) \in Nat /\ Len(new) \in Nat
    BY <1>1, <2>1, LenProperties
  <2> QED
    BY <2>1, <2>2
<1>3. \A k \in DOMAIN rows' : New(k) \/ \E i \in DOMAIN rows : Same(rows[i], rows'[k])
  BY <1>2 DEF Shortened
<1>4. ASSUME NEW k \in DOMAIN rows', NEW l \in DOMAIN rows', k < l
      PROVE  \/ New(l)
             \/ \E i, j \in DOMAIN rows :
                   i < j /\ Same(rows[i], rows'[k]) /\ Same(rows[j], rows'[l])
  <2>1. CASE l > Len(q)
    BY <2>1
  <2>2. CASE ~(l > Len(q))
    <3>1. /\ k \in DOMAIN q /\ l \in DOMAIN q
          /\ rows'[k] = q[k] /\ rows'[l] = q[l]
      BY <2>2, <1>2, <1>4
    <3> QED
      BY <3>1, <1>4 DEF Shortened
  <2> QED
    BY <2>1, <2>2
<1> QED
  BY <1>2, <1>3, <1>4 DEF Succession

(* Rows that are kept are a succession. *)
LEMMA OnlyKept ==
  ASSUME Shortened(rows')
  PROVE  Succession
BY DEF Shortened, Succession

LEMMA AppendedOne ==
  ASSUME rows \in Seq(Row), NEW q, Shortened(q), NEW r \in Row, rows' = Append(q, r),
         rows'[Len(rows')] = r => New(Len(rows'))
  PROVE  Succession
<1>1. q \in Seq(Row) /\ Len(q) \in Nat
  BY LenProperties DEF Shortened
<1>2. /\ <<r>> \in Seq(Row) /\ rows' = q \o <<r>>
      /\ Len(rows') = Len(q) + 1 /\ DOMAIN rows' = 1 .. Len(q) + 1
      /\ rows'[Len(q) + 1] = r
  BY <1>1
<1>3. \A k \in DOMAIN rows' : k > Len(q) => New(k)
  <2>1. \A k \in DOMAIN rows' : k > Len(q) => k = Len(rows')
    BY <1>1, <1>2
  <2> QED
    BY <2>1, <1>2
<1> QED
  BY <1>2, <1>3, Appended

(* The rows of several Nodes are the rows of each of them. *)
LEMMA InOrderProperties ==
  ASSUME NEW T, NEW order \in Seq(T), NEW rowsOf, \A n \in T : rowsOf[n] \in Seq(Row)
  PROVE  /\ InOrder(order, rowsOf) \in Seq(Row)
         /\ \A k \in DOMAIN InOrder(order, rowsOf) :
               \E n \in T : \E l \in DOMAIN rowsOf[n] :
                   InOrder(order, rowsOf)[k] = rowsOf[n][l]
<1> DEFINE node(k)  == order[(k + 2) \div 3]
           place(k) == ((k + 2) % 3) + 1
           taken    == {k \in 1 .. 3 * Len(order) : place(k) <= Len(rowsOf[node(k)])}
           e(k)     == rowsOf[node(Position(taken, k))][place(Position(taken, k))]
<1>1. Len(order) \in Nat /\ \A i \in 1 .. Len(order) : order[i] \in T
  BY LenProperties, ElementOfSeq
<1>2. \A k \in 1 .. 3 * Len(order) : (k + 2) \div 3 \in 1 .. Len(order)
  BY <1>1
<1>3. \A k \in 1 .. 3 * Len(order) : place(k) \in Nat \ {0}
  OBVIOUS
<1>4. taken \in SUBSET (1 .. 3 * Len(order)) /\ 3 * Len(order) \in Nat
  BY <1>1
<1>5. /\ Cardinality(taken) \in Nat
      /\ \A k \in 1 .. Cardinality(taken) : \E i \in taken : Rank(taken, i) = k
  <2> HIDE DEF taken
  <2> QED
    BY <1>4, RankIsBijection
<1>6. \A k \in 1 .. Cardinality(taken) : Position(taken, k) \in taken
  <2> HIDE DEF taken
  <2> SUFFICES ASSUME NEW k \in 1 .. Cardinality(taken) PROVE Position(taken, k) \in taken
    OBVIOUS
  <2>1. \E i \in taken : Rank(taken, i) = k
    BY <1>5
  <2> QED
    BY <2>1, Zenon DEF Position
<1>7. ASSUME NEW p \in taken
      PROVE  /\ node(p) \in T
             /\ place(p) \in DOMAIN rowsOf[node(p)]
             /\ rowsOf[node(p)][place(p)] \in Row
  <2>1. node(p) \in T
    BY <1>1, <1>2
  <2>2. rowsOf[node(p)] \in Seq(Row)
    BY <2>1
  <2>3. /\ Len(rowsOf[node(p)]) \in Nat
        /\ DOMAIN rowsOf[node(p)] = 1 .. Len(rowsOf[node(p)])
    BY <2>2, LenProperties
  <2>4. place(p) \in 1 .. Len(rowsOf[node(p)])
    BY <1>3, <2>3
  <2> QED
    BY <2>1, <2>2, <2>3, <2>4, ElementOfSeq
<1> HIDE DEF node, place, taken
<1>8. \A k \in 1 .. Cardinality(taken) :
         /\ e(k) \in Row
         /\ \E n \in T : \E l \in DOMAIN rowsOf[n] : e(k) = rowsOf[n][l]
  BY <1>6, <1>7
<1> HIDE DEF e
<1>9. [k \in 1 .. Cardinality(taken) |-> e(k)] \in Seq(Row)
  BY <1>5, <1>8, IsASeq
<1>10. InOrder(order, rowsOf) = [k \in 1 .. Cardinality(taken) |-> e(k)]
  BY DEF InOrder, e, taken, node, place
<1> QED
  BY <1>8, <1>9, <1>10

LEMMA Thirds ==
  ASSUME NEW i \in Nat, NEW j \in 0 .. 2, NEW k \in Nat, k = 3 * i + j
  PROVE  k \div 3 = i /\ k % 3 = j
OBVIOUS

(* None of the rows of a Node in the order is left out: not its second,    *)
(* the one that creates its instance.                                      *)
LEMMA InOrderIsWhole ==
  ASSUME NEW S, NEW order \in Seq(S), NEW rowsOf \in [S -> Seq(Row)],
         NEW i \in DOMAIN order, 2 <= Len(rowsOf[order[i]])
  PROVE  \E k \in DOMAIN InOrder(order, rowsOf) :
            InOrder(order, rowsOf)[k] = rowsOf[order[i]][2]
<1> DEFINE node(k)  == order[(k + 2) \div 3]
           place(k) == ((k + 2) % 3) + 1
           taken    == {k \in 1 .. 3 * Len(order) : place(k) <= Len(rowsOf[node(k)])}
           e(k)     == rowsOf[node(Position(taken, k))][place(Position(taken, k))]
           p        == 3 * (i - 1) + 2
<1>1. Len(order) \in Nat /\ DOMAIN order = 1 .. Len(order) /\ i \in 1 .. Len(order)
  BY LenProperties
<1>2. p \in 1 .. 3 * Len(order) /\ (p + 2) \div 3 = i /\ ((p + 2) % 3) + 1 = 2
  <2>1. p + 2 \in Nat /\ i \in Nat /\ 1 \in 0 .. 2 /\ p + 2 = 3 * i + 1
    BY <1>1
  <2>2. (p + 2) \div 3 = i /\ (p + 2) % 3 = 1
    <3> HIDE DEF p
    <3> QED
      BY ONLY <2>1, Thirds
  <2>3. p \in 1 .. 3 * Len(order)
    BY <1>1
  <2> QED
    BY <2>1, <2>2, <2>3
<1>3. p \in taken /\ node(p) = order[i] /\ place(p) = 2
  BY <1>2
<1>4. taken \in SUBSET (1 .. 3 * Len(order)) /\ 3 * Len(order) \in Nat
  BY <1>1
<1> HIDE DEF p, taken, node, place
<1>5. /\ Rank(taken, p) \in 1 .. Cardinality(taken)
      /\ \A a, b \in taken : a < b <=> Rank(taken, a) < Rank(taken, b)
      /\ \A a \in taken : Rank(taken, a) \in 1 .. Cardinality(taken)
      /\ Cardinality(taken) \in Nat
  BY <1>3, <1>4, RankIsBijection
<1>6. PICK k \in 1 .. Cardinality(taken) : k = Rank(taken, p)
  BY <1>5
<1>7. Position(taken, k) = p
  <2>1. Position(taken, k) \in taken /\ Rank(taken, Position(taken, k)) = k
    BY <1>3, <1>6, Zenon DEF Position
  <2>2. \A a \in taken : a \in Int
    BY <1>4
  <2> QED
    BY <1>3, <1>5, <1>6, <2>1, <2>2
<1>8. e(k) = rowsOf[order[i]][2]
  BY <1>3, <1>7
<1> HIDE DEF e
<1>9. InOrder(order, rowsOf) = [m \in 1 .. Cardinality(taken) |-> e(m)]
  BY DEF InOrder, e, taken, node, place
<1> QED
  BY <1>6, <1>8, <1>9

(* An order of a set of Nodes is a list of them, of all of them. *)
LEMMA OrderIsSeq ==
  ASSUME NEW S \in SUBSET Nodes, NEW order \in SetToSeqs(S)
  PROVE  order \in Seq(S) /\ \A n \in S : \E i \in DOMAIN order : order[i] = n
<1>1. Cardinality(S) \in Nat /\ IsFiniteSet(S)
  BY NodesAssumption, FS_Subset, FS_CardinalityType
<1>2. order \in [1 .. Cardinality(S) -> S]
  BY DEF SetToSeqs
<1>3. order \in Surjection(1 .. Cardinality(S), S)
  <2>1. order \in Injection(1 .. Cardinality(S), S)
    BY <1>2 DEF SetToSeqs, Injection, IsInjective
  <2>2. Cardinality(1 .. Cardinality(S)) = Cardinality(S)
    BY <1>1, FS_Interval
  <2> QED
    BY <1>1, <2>1, <2>2, FS_Injection
<1>4. \A n \in S : \E i \in 1 .. Cardinality(S) : order[i] = n
  BY <1>3 DEF Surjection
<1> QED
  BY <1>1, <1>2, <1>4

(* The rows that prepare, create and certify the instance of a Node. *)
InstanceCommands(n, ports) ==
    {r \in Row : /\ r.kind \in {"preflight", "reconcile_instance", "reconcile_certificate"}
                 /\ r.node = n /\ ~r.sent /\ ~r.running
                 /\ r.kind = "reconcile_instance" => r.ports = ports}

LEMMA NodeRows ==
  ASSUME NEW n \in Nodes, NEW ports \in SUBSET Ports,
         NEW cert \in {CertificateRow(n), <<>>}
  PROVE  /\ InstanceRows(n, ports) \o cert \in Seq(InstanceCommands(n, ports))
         /\ Len(InstanceRows(n, ports) \o cert) >= 2
         /\ InstanceRow((InstanceRows(n, ports) \o cert)[2], n)
<1> DEFINE a == Command("preflight", n)
           b == [Command("reconcile_instance", n) EXCEPT !.ports = ports]
           c == Command("reconcile_certificate", n)
           F == InstanceCommands(n, ports)
<1>1. a \in F /\ b \in F /\ c \in F /\ InstanceRow(b, n)
  <2>1. Command("reconcile_instance", n) \in Row
    BY CommandType DEF Kinds
  <2>2. b \in Row /\ a \in Row /\ c \in Row
    BY <2>1, CommandType DEF Row, Kinds
  <2> QED
    BY <2>2 DEF Command, InstanceCommands, InstanceRow
<1>2. InstanceRows(n, ports) = <<a, b>> /\ (cert = <<c>> \/ cert = <<>>)
  BY Zenon DEF InstanceRows, CertificateRow
<1> HIDE DEF a, b, c, F
<1>3. <<a, b>> \in Seq(F) /\ <<c>> \in Seq(F) /\ <<>> \in Seq(F)
  BY <1>1
<1>4. InstanceRows(n, ports) \in Seq(F) /\ cert \in Seq(F)
  BY <1>2, <1>3
<1>5. /\ Len(<<a, b>> \o cert) = Len(<<a, b>>) + Len(cert)
      /\ \A k \in 1 .. Len(<<a, b>>) + Len(cert) :
            (<<a, b>> \o cert)[k] = IF k <= Len(<<a, b>>) THEN <<a, b>>[k]
                                    ELSE cert[k - Len(<<a, b>>)]
  BY <1>3, <1>4, ConcatProperties
<1>6. /\ Len(InstanceRows(n, ports) \o cert) >= 2
      /\ InstanceRow((InstanceRows(n, ports) \o cert)[2], n)
  <2>1. Len(<<a, b>>) = 2 /\ <<a, b>>[2] = b /\ Len(cert) \in Nat
    BY <1>4, LenProperties
  <2> HIDE DEF InstanceRow
  <2>2. Len(<<a, b>> \o cert) >= 2 /\ (<<a, b>> \o cert)[2] = b
    BY <1>5, <2>1
  <2> QED
    BY <1>1, <1>2, <2>2
<1> QED
  BY <1>4, <1>6, ConcatProperties DEF F

LEMMA RowsAssociate ==
  \A s, t, u \in Seq(Row) : (s \o t) \o u = s \o (t \o u)
BY ConcatAssociative

(* Rows that a step makes, but for configurations. *)
Fresh(r) ==
    /\ ~r.sent /\ ~r.running
    /\ r.node \in managed' \cup {NoNode}
    /\ Fits(r)
    /\ r.kind # "apply_config"
    /\ r.kind = "reconcile_instance" =>
          \/ r.node \notin managed
          \/ Retryable(r.node) /\ r.ports = RetryPorts(r.node)
          \/ r.node \in raced'

LEMMA FreshAppended ==
  ASSUME rows \in Seq(Row), NEW q, Shortened(q),
         NEW F \in SUBSET Row, \A r \in F : Fresh(r),
         NEW new \in Seq(F), rows' = q \o new
  PROVE  Succession /\ (q = rows => Grows)
<1>1. q \in Seq(Row) /\ new \in Seq(Row)
  BY SeqMonotonic DEF Shortened
<1>2. /\ Len(q) \in Nat /\ Len(new) \in Nat
      /\ DOMAIN rows' = 1 .. Len(q) + Len(new)
      /\ \A k \in 1 .. Len(q) + Len(new) : k > Len(q) => rows'[k] = new[k - Len(q)]
  <2>1. /\ q \o new \in Seq(Row) /\ Len(q \o new) = Len(q) + Len(new)
        /\ \A k \in 1 .. Len(q) + Len(new) :
              (q \o new)[k] = IF k <= Len(q) THEN q[k] ELSE new[k - Len(q)]
    BY <1>1, ConcatProperties
  <2>2. /\ DOMAIN (q \o new) = 1 .. Len(q \o new)
        /\ Len(q) \in Nat /\ Len(new) \in Nat
    BY <1>1, <2>1, LenProperties
  <2> QED
    BY <2>1, <2>2
<1>3. ASSUME NEW k \in DOMAIN rows', k > Len(q)
      PROVE  New(k)
  <2>1. k - Len(q) \in 1 .. Len(new)
    BY <1>2, <1>3
  <2>2. rows'[k] \in F
    BY <2>1, <1>2, <1>3, ElementOfSeq
  <2> QED
    BY <2>2 DEF Fresh, New
<1>4. \A k \in DOMAIN new : new[k].kind # "apply_config"
  <2>1. \A k \in DOMAIN new : new[k] \in F
    BY LenProperties, ElementOfSeq
  <2> QED
    BY <2>1 DEF Fresh
<1> QED
  BY <1>1, <1>3, <1>4, Appended DEF Grows

LEMMA InstancesInOrder ==
  ASSUME NEW S \in SUBSET Nodes, NEW order \in SetToSeqs(S),
         NEW ports \in [S -> SUBSET Ports],
         NEW rowsOf \in [S -> Seq(Row)],
         \A n \in S : rowsOf[n] \in Seq(InstanceCommands(n, ports[n])),
         NEW F, F = UNION {InstanceCommands(n, ports[n]) : n \in S}
  PROVE  InOrder(order, rowsOf) \in Seq(F)
<1> DEFINE q == InOrder(order, rowsOf)
<1>1. order \in Seq(S) /\ \A n \in S : rowsOf[n] \in Seq(Row)
  BY OrderIsSeq
<1>2. /\ q \in Seq(Row)
      /\ \A k \in DOMAIN q : \E n \in S : \E l \in DOMAIN rowsOf[n] : q[k] = rowsOf[n][l]
  BY ONLY <1>1, InOrderProperties
<1> HIDE DEF q
<1>3. Len(q) \in Nat /\ DOMAIN q = 1 .. Len(q)
  BY <1>2, LenProperties
<1>4. \A n \in S : \A l \in DOMAIN rowsOf[n] : rowsOf[n][l] \in F
  <2> SUFFICES ASSUME NEW n \in S, NEW l \in DOMAIN rowsOf[n] PROVE rowsOf[n][l] \in F
    OBVIOUS
  <2>1. rowsOf[n][l] \in InstanceCommands(n, ports[n])
    <3> DEFINE C == InstanceCommands(n, ports[n])
    <3>1. rowsOf[n] \in Seq(C)
      OBVIOUS
    <3> HIDE DEF C
    <3> QED
      BY <3>1, LenProperties, ElementOfSeq DEF C
  <2> QED
    BY <2>1
<1>5. \A k \in 1 .. Len(q) : q[k] \in F
  BY <1>2, <1>3, <1>4
<1>6. q \in Seq(F)
  <2>1. q = [k \in 1 .. Len(q) |-> q[k]]
    BY <1>2, <1>3
  <2> QED
    BY <1>3, <1>5, <2>1
<1> QED
  BY <1>6 DEF q

(* An instance is created for each of the Nodes in the order. *)
LEMMA InstancesAreCreated ==
  ASSUME NEW S \in SUBSET Nodes, NEW order \in SetToSeqs(S),
         NEW rowsOf \in [S -> Seq(Row)],
         \A n \in S : Len(rowsOf[n]) >= 2 /\ InstanceRow(rowsOf[n][2], n),
         NEW q \in Seq(Row), InOrder(order, rowsOf) \in Seq(Row), NEW n \in S
  PROVE  Creates(q \o InOrder(order, rowsOf), n)
<1>1. /\ order \in Seq(S) /\ \A m \in S : rowsOf[m] \in Seq(Row)
      /\ \A m \in S : \E i \in DOMAIN order : order[i] = m
  BY OrderIsSeq
<1>2. PICK i \in DOMAIN order : order[i] = n
  BY <1>1
<1>3. 2 <= Len(rowsOf[order[i]])
  BY <1>2
<1> DEFINE c == InOrder(order, rowsOf)
<1>4. \E k \in DOMAIN InOrder(order, rowsOf) :
         InOrder(order, rowsOf)[k] = rowsOf[order[i]][2]
  <2>1. order \in Seq(S)
    BY <1>1
  <2> QED
    BY <2>1, <1>3, InOrderIsWhole
<1>5. PICK k \in DOMAIN c : InstanceRow(c[k], n)
  BY <1>2, <1>4
<1> HIDE DEF c
<1>6. c \in Seq(Row)
  BY DEF c
<1>7. /\ Len(q) \in Nat /\ Len(c) \in Nat /\ DOMAIN c = 1 .. Len(c)
      /\ q \o c \in Seq(Row) /\ Len(q \o c) = Len(q) + Len(c)
      /\ DOMAIN (q \o c) = 1 .. Len(q \o c)
      /\ \A l \in 1 .. Len(q) + Len(c) :
            (q \o c)[l] = IF l <= Len(q) THEN q[l] ELSE c[l - Len(q)]
  BY <1>6, ConcatProperties, LenProperties
<1>8. /\ Len(q) + k \in 1 .. Len(q) + Len(c)
      /\ ~(Len(q) + k <= Len(q)) /\ (Len(q) + k) - Len(q) = k
  BY <1>7
<1>9. Len(q) + k \in DOMAIN (q \o c) /\ (q \o c)[Len(q) + k] = c[k]
  BY <1>7, <1>8
<1> QED
  BY <1>5, <1>9 DEF Creates, c

LEMMA RetryRows ==
  ASSUME rows \in Seq(Row), NEW t,
         t.nodes \in SUBSET Nodes, t.nodes \subseteq managed, managed' = managed,
         t.ports \in [Nodes -> SUBSET Ports],
         \A n \in t.nodes : n \in raced' \/ (Retryable(n) /\ t.ports[n] = RetryPorts(n)),
         RetryWrites(t)
  PROVE  Succession /\ Grows /\ \A n \in t.nodes : Creates(rows', n)
<1> DEFINE S      == t.nodes
           ports  == [n \in S |-> t.ports[n]]
           rowsOf == [n \in S |-> InstanceRows(n, t.ports[n]) \o
                                  (IF n \in t.renew THEN CertificateRow(n) ELSE <<>>)]
           F      == UNION {InstanceCommands(n, ports[n]) : n \in S}
<1>1. PICK order \in SetToSeqs(S) : rows' = rows \o InOrder(order, rowsOf)
  BY DEF RetryWrites
<1>2. ports \in [S -> SUBSET Ports]
  OBVIOUS
<1>3. \A n \in S : /\ rowsOf[n] \in Seq(InstanceCommands(n, ports[n]))
                   /\ Len(rowsOf[n]) >= 2 /\ InstanceRow(rowsOf[n][2], n)
  <2> SUFFICES ASSUME NEW n \in S
               PROVE  /\ rowsOf[n] \in Seq(InstanceCommands(n, ports[n]))
                      /\ Len(rowsOf[n]) >= 2 /\ InstanceRow(rowsOf[n][2], n)
    OBVIOUS
  <2> DEFINE cert == IF n \in t.renew THEN CertificateRow(n) ELSE <<>>
  <2>1. /\ n \in Nodes /\ ports[n] \in SUBSET Ports /\ ports[n] = t.ports[n]
        /\ cert \in {CertificateRow(n), <<>>}
        /\ rowsOf[n] = InstanceRows(n, t.ports[n]) \o cert
    OBVIOUS
  <2> HIDE DEF cert
  <2> QED
    BY <2>1, NodeRows
<1>4. F \in SUBSET Row /\ \A r \in F : Fresh(r)
  <2>1. F \in SUBSET Row
    BY DEF InstanceCommands
  <2> SUFFICES ASSUME NEW n \in S, NEW r \in InstanceCommands(n, ports[n])
               PROVE  Fresh(r)
    BY <2>1
  <2>2. /\ r.kind \in {"preflight", "reconcile_instance", "reconcile_certificate"}
        /\ r.node = n /\ ~r.sent /\ ~r.running
        /\ r.kind = "reconcile_instance" => r.ports = t.ports[n]
    BY DEF InstanceCommands
  <2>3. n \in managed' /\ n # NoNode
    BY NodesAssumption
  <2>4. n \in raced' \/ (Retryable(n) /\ t.ports[n] = RetryPorts(n))
    OBVIOUS
  <2> QED
    BY <2>2, <2>3, <2>4 DEF Fresh, Fits
<1>5. rowsOf \in [S -> Seq(Row)]
  <2>1. \A n \in S : InstanceCommands(n, ports[n]) \subseteq Row
    BY DEF InstanceCommands
  <2>2. \A n \in S : rowsOf[n] \in Seq(Row)
    <3> HIDE DEF rowsOf, ports
    <3> QED
      BY <1>3, <2>1, SeqMonotonic
  <2> QED
    BY <2>2
<1>6. InOrder(order, rowsOf) \in Seq(F)
  <2> HIDE DEF ports, rowsOf, S
  <2>1. S \in SUBSET Nodes
    BY DEF S
  <2> QED
    BY <1>2, <1>3, <1>5, <2>1, InstancesInOrder
<1>7. ASSUME NEW n \in S
      PROVE  Creates(rows', n)
  <2> HIDE DEF ports, rowsOf, F
  <2>1. InOrder(order, rowsOf) \in Seq(Row)
    BY <1>4, <1>6, SeqMonotonic
  <2> QED
    BY <1>1, <1>3, <1>5, <2>1, InstancesAreCreated
<1> HIDE DEF rowsOf, ports, F
<1> QED
  BY <1>1, <1>4, <1>6, <1>7, AllRows, FreshAppended

LEMMA ProvisionRows ==
  ASSUME rows \in Seq(Row), planReady \in [Plans -> SUBSET Nodes],
         NEW p \in Plans, Provision(p)
  PROVE  Succession /\ Grows /\ \A n \in planReady[p] : Creates(rows', n)
<1> DEFINE S      == planReady[p]
           ports  == [n \in S |-> Ports]
           rowsOf == [n \in S |-> InstanceRows(n, Ports) \o CertificateRow(n)]
           a      == <<Command("preflight", NoNode)>>
<1>1. PICK order \in SetToSeqs(S), docker \in BOOLEAN :
          rows' = rows \o a \o (IF docker THEN <<Command("reconcile_dependency", NoNode)>>
                                          ELSE <<>>)
                       \o InOrder(order, rowsOf)
  BY DEF Provision
<1> DEFINE b == IF docker THEN <<Command("reconcile_dependency", NoNode)>> ELSE <<>>
           c == InOrder(order, rowsOf)
           G == UNION {InstanceCommands(n, ports[n]) : n \in S}
           F == G \cup {Command("preflight", NoNode),
                        Command("reconcile_dependency", NoNode)}
<1>2. /\ S \in SUBSET Nodes /\ S \cap managed = {} /\ managed' = managed \cup S
      /\ ports \in [S -> SUBSET Ports]
  BY DEF Provision
<1>3. \A n \in S : /\ rowsOf[n] \in Seq(InstanceCommands(n, ports[n]))
                   /\ Len(rowsOf[n]) >= 2 /\ InstanceRow(rowsOf[n][2], n)
  <2> SUFFICES ASSUME NEW n \in S
               PROVE  /\ rowsOf[n] \in Seq(InstanceCommands(n, ports[n]))
                      /\ Len(rowsOf[n]) >= 2 /\ InstanceRow(rowsOf[n][2], n)
    OBVIOUS
  <2>1. /\ n \in Nodes /\ ports[n] \in SUBSET Ports /\ ports[n] = Ports
        /\ CertificateRow(n) \in {CertificateRow(n), <<>>}
        /\ rowsOf[n] = InstanceRows(n, Ports) \o CertificateRow(n)
    OBVIOUS
  <2> QED
    BY <2>1, NodeRows
<1>4. rowsOf \in [S -> Seq(Row)]
  <2>1. \A n \in S : InstanceCommands(n, ports[n]) \subseteq Row
    BY DEF InstanceCommands
  <2>2. \A n \in S : rowsOf[n] \in Seq(Row)
    <3> HIDE DEF rowsOf, ports
    <3> QED
      BY <1>3, <2>1, SeqMonotonic
  <2> QED
    BY <2>2
<1>5. c \in Seq(G)
  <2> HIDE DEF ports, rowsOf, S
  <2> QED
    BY <1>2, <1>3, <1>4, InstancesInOrder
<1>6. F \in SUBSET Row /\ \A r \in F : Fresh(r)
  <2>1. Command("preflight", NoNode) \in Row /\ Command("reconcile_dependency", NoNode) \in Row
    BY CommandType DEF Kinds
  <2>2. /\ Fresh(Command("preflight", NoNode))
        /\ Fresh(Command("reconcile_dependency", NoNode))
    BY DEF Fresh, Fits, Command
  <2>3. G \in SUBSET Row /\ \A r \in G : Fresh(r)
    BY <1>2, NodesAssumption DEF InstanceCommands, Fresh, Fits
  <2> QED
    BY <2>1, <2>2, <2>3
<1>7. a \in Seq(F) /\ b \in Seq(F) /\ c \in Seq(F)
  <2>1. c \in Seq(F)
    <3> HIDE DEF c, G
    <3>1. G \subseteq F
      OBVIOUS
    <3> HIDE DEF F
    <3> QED
      BY <1>5, <3>1, SeqMonotonic
  <2>2. Command("preflight", NoNode) \in F /\ Command("reconcile_dependency", NoNode) \in F
    OBVIOUS
  <2> HIDE DEF F, c
  <2>3. a \in Seq(F) /\ b \in Seq(F)
    BY <2>2
  <2> QED
    BY <2>1, <2>3
<1>8. rows' = rows \o a \o b \o c
  BY <1>1
<1> HIDE DEF a, b, c, F
<1>9. b \o c \in Seq(F) /\ a \o (b \o c) \in Seq(F)
  BY <1>7, ConcatProperties
<1>10. PICK d : d = rows \o a
  OBVIOUS
<1>11. rows' = rows \o (a \o (b \o c))
  <2>1. a \in Seq(Row) /\ b \in Seq(Row) /\ c \in Seq(Row)
    BY <1>6, <1>7, SeqMonotonic
  <2>2. d \in Seq(Row) /\ b \o c \in Seq(Row)
    BY <2>1, <1>10, ConcatProperties
  <2>3. d \o (b \o c) = rows \o (a \o (b \o c))
    BY SMTT(40), <2>1, <2>2, <1>10, RowsAssociate
  <2>4. (d \o b) \o c = d \o (b \o c)
    BY SMTT(40), <2>1, <2>2, RowsAssociate
  <2>5. rows' = (d \o b) \o c
    BY <1>8, <1>10
  <2> QED
    BY <2>3, <2>4, <2>5
<1>12. ASSUME NEW n \in S
       PROVE  Creates(rows', n)
  <2>1. a \in Seq(Row) /\ b \in Seq(Row) /\ c \in Seq(Row)
    BY <1>6, <1>7, SeqMonotonic
  <2>2. d \o b \in Seq(Row) /\ rows' = (d \o b) \o c
    BY <2>1, <1>8, <1>10, ConcatProperties
  <2> HIDE DEF rowsOf
  <2>3. InOrder(order, rowsOf) \in Seq(Row) /\ rows' = (d \o b) \o InOrder(order, rowsOf)
    BY <2>1, <2>2 DEF c
  <2>4. Creates((d \o b) \o InOrder(order, rowsOf), n)
    BY <1>2, <1>3, <1>4, <2>2, <2>3, InstancesAreCreated
  <2> QED
    BY <2>3, <2>4
<1> QED
  BY <1>6, <1>9, <1>11, <1>12, AllRows, FreshAppended

-----------------------------------------------------------------------------
(* The invariant the others rest on: types, and that what is under way is  *)
(* about Nodes that exist.                                                 *)

RowsFit == \A i \in DOMAIN rows : Fits(rows[i]) /\ rows[i].node \in managed \cup {NoNode}

JobsFit == \A j \in jobs : j.node \in managed

RenewalFits == renewal # NoRenewal => renewal.node \in managed

(* A retry that was read is still about what was read, until it is         *)
(* overtaken; and what overtakes it cannot publish or move its Nodes.      *)
OpenFits ==
    /\ open.what \in {"retry", "publish"} => open.nodes \subseteq managed
    /\ open.what = "apply" => open.node \in managed /\ open.rev > 0
    /\ open.what = "retry" =>
          \A n \in open.nodes : /\ open.ports[n] = RetryPorts(n)
                                /\ ~open.overtaken => Retryable(n)

Base == TypeOK /\ RowsFit /\ JobsFit /\ RenewalFits /\ OpenFits

(* A row that is taken from the list fits. *)
LEMMA RowType ==
  ASSUME Base, NEW i \in DOMAIN rows
  PROVE  /\ rows[i] \in Row /\ Fits(rows[i]) /\ rows[i].node \in managed \cup {NoNode}
         /\ rows \in Seq(Row) /\ Shortened(Without(i)) /\ i \in 1 .. Len(rows)
BY LenProperties, ElementOfSeq, AllButOne DEF Base, TypeOK, RowsFit

(* What may be cancelled is taken out. *)
LEMMA KeptRows ==
  ASSUME rows \in Seq(Row), NEW q, Shortened(q), NEW n
  PROVE  Shortened(KeepRunning(q)) /\ Shortened(KeepRunningOf(q, n))
<1>1. {i \in DOMAIN q : q[i].running} \in SUBSET DOMAIN q
      /\ {i \in DOMAIN q : q[i].running \/ q[i].node # n} \in SUBSET DOMAIN q
  OBVIOUS
<1> QED
  BY <1>1, SomeRows DEF KeepRunning, KeepRunningOf

LEMMA UnchangedRows ==
  ASSUME rows \in Seq(Row), rows' = rows
  PROVE  Succession
BY AllRows, OnlyKept DEF Shortened

LEMMA Relabelled ==
  ASSUME rows \in Seq(Row), NEW q, q = [i \in DOMAIN rows |-> q[i]],
         \A i \in DOMAIN rows : q[i] \in Row
  PROVE  q \in Seq(Row) /\ DOMAIN q = DOMAIN rows
<1>1. Len(rows) \in Nat /\ DOMAIN rows = 1 .. Len(rows)
  BY LenProperties
<1>2. q \in [1 .. Len(rows) -> Row]
  BY <1>1
<1> QED
  BY <1>1, <1>2

LEMMA HelloRows ==
  ASSUME Base, HelloWrites
  PROVE  Succession
<1>1. /\ rows \in Seq(Row) /\ Len(rows) \in Nat /\ DOMAIN rows = 1 .. Len(rows)
      /\ \A i \in DOMAIN rows : rows[i] \in Row
  BY LenProperties, ElementOfSeq DEF Base, TypeOK
<1>2. rows' = [i \in DOMAIN rows |-> [rows[i] EXCEPT !.running = FALSE]]
  BY DEF HelloWrites
<1>3. \A i \in DOMAIN rows : rows'[i] \in Row /\ Same(rows[i], rows'[i])
  BY <1>1, <1>2 DEF Row, Same
<1>4. rows' \in Seq(Row) /\ DOMAIN rows' = DOMAIN rows
  <2>1. rows' = [i \in DOMAIN rows |-> rows'[i]]
    BY <1>2
  <2> QED
    BY <2>1, <1>1, <1>3, Relabelled
<1> QED
  BY <1>3, <1>4 DEF Succession

LEMMA PlanRows ==
  ASSUME Base, NEW t, PlanWrites(t)
  PROVE  Succession
<1>1. PICK p \in Plans,
           cancelled \in {t.live \cap {q \in Plans : Live(q)}, {q \in Plans : Live(q)}} :
          rows' = Append(Subsequence(rows, {i \in DOMAIN rows :
                                                \/ rows[i].running
                                                \/ rows[i].kind # "discover_host"
                                                \/ rows[i].plan \notin cancelled}),
                         [Command("discover_host", NoNode) EXCEPT !.plan = p])
  BY DEF PlanWrites
<1> DEFINE I == {i \in DOMAIN rows : \/ rows[i].running
                                     \/ rows[i].kind # "discover_host"
                                     \/ rows[i].plan \notin cancelled}
           r == [Command("discover_host", NoNode) EXCEPT !.plan = p]
<1>2. rows \in Seq(Row) /\ I \in SUBSET DOMAIN rows
  BY DEF Base, TypeOK
<1>3. r \in Row
  <2>1. Command("discover_host", NoNode) \in Row /\ p \in 0 .. MaxPlans
    BY CommandType, BoundsAssumption DEF Kinds, Plans
  <2> QED
    BY <2>1 DEF Row
<1>4. /\ r.kind = "discover_host" /\ r.node = NoNode /\ r.plan = p
      /\ ~r.sent /\ ~r.running
  BY DEF Command
<1>5. rows' = Append(Subsequence(rows, I), r)
  BY <1>1
<1> HIDE DEF I, r
<1>6. Shortened(Subsequence(rows, I))
  BY <1>2, AllRows, SomeRows
<1>7. rows'[Len(rows')] = r => New(Len(rows'))
  BY <1>4 DEF New, Fits
<1> QED
  BY <1>2, <1>3, <1>5, <1>6, <1>7, AppendedOne

LEMMA RetryRequestRows ==
  ASSUME Base, NEW S \in SUBSET Nodes, Retry(S)
  PROVE  Succession /\ Grows /\ \A n \in S : Creates(rows', n)
<1> DEFINE t == RetryRead(S)
<1>1. /\ S \subseteq managed /\ \A n \in S : Retryable(n)
      /\ RetryWrites(t) /\ managed' = managed
  BY DEF Retry, CanRetry, RetryWrites
<1>2. \A n \in Nodes : RetryPorts(n) \in SUBSET Ports
  BY DEF RetryPorts, Base, TypeOK
<1>3. /\ t.nodes = S /\ t.ports \in [Nodes -> SUBSET Ports]
      /\ \A n \in S : t.ports[n] = RetryPorts(n)
  BY <1>2 DEF RetryRead
<1> HIDE DEF t
<1> QED
  BY <1>1, <1>3, RetryRows DEF Base, TypeOK

LEMMA RetryWrittenRows ==
  ASSUME Base, TransactionWrites, open.what = "retry"
  PROVE  Succession /\ Grows /\ \A n \in open.nodes : Creates(rows', n)
<1>1. /\ open.nodes \in SUBSET Nodes /\ open.nodes \subseteq managed
      /\ open.ports \in [Nodes -> SUBSET Ports]
      /\ \A n \in open.nodes : open.ports[n] = RetryPorts(n)
  BY DEF Base, OpenFits, TypeOK, Transaction
<1>2. RetryWrites(open) /\ managed' = managed
  BY DEF TransactionWrites, RetryWrites
<1>3. raced' = raced \cup {n \in open.nodes : ~Retryable(n)}
  BY DEF TransactionWrites, Changed
<1> QED
  BY <1>1, <1>2, <1>3, RetryRows DEF Base, TypeOK

LEMMA StartRows ==
  ASSUME Base, NEW j \in Job, StartNode(j)
  PROVE  Succession
<1> DEFINE n == j.node
<1>1. /\ rows \in Seq(Row) /\ Len(rows) \in Nat /\ DOMAIN rows = 1 .. Len(rows)
      /\ \A i \in DOMAIN rows : rows[i] \in Row
  BY LenProperties, ElementOfSeq DEF Base, TypeOK
<1>2. /\ n \in Nodes /\ j.closed \in BOOLEAN /\ n \in managed /\ managed' = managed
      /\ n # NoNode
  BY NodesAssumption DEF Job, StartNode, Base, JobsFit
<1>3. CASE QueueConfig(n, j.closed)
  <2> DEFINE r == desiredRevision[n] + 1
  <2>1. r \in 0 .. MaxRevision /\ r > 0
    BY <1>2, <1>3, BoundsAssumption DEF QueueConfig, Base, TypeOK
  <2>2. CASE QueuedConfigs(n) # {}
    <3>1. PICK i \in DOMAIN rows :
              rows' = [rows EXCEPT ![i].rev = r, ![i].closed = @ \/ j.closed]
      BY <1>3, <2>2 DEF QueueConfig, QueuedConfigs, Active
    <3>2. \A k \in DOMAIN rows : rows'[k] \in Row /\ Same(rows[k], rows'[k])
      <4> SUFFICES ASSUME NEW k \in DOMAIN rows
                   PROVE  rows'[k] \in Row /\ Same(rows[k], rows'[k])
        OBVIOUS
      <4>1. rows[k] \in Row
        BY <1>1
      <4>2. CASE k = i
        <5>1. rows'[k] = [rows[k] EXCEPT !.rev = r, !.closed = rows[k].closed \/ j.closed]
          BY <3>1, <4>2
        <5>2. (rows[k].closed \/ j.closed) \in BOOLEAN
          OBVIOUS
        <5> QED
          BY <5>1, <5>2, <4>1, <2>1 DEF Row, Same
      <4>3. CASE k # i
        BY <3>1, <4>3, <4>1 DEF Same
      <4> QED
        BY <4>2, <4>3
    <3>3. rows' \in Seq(Row) /\ DOMAIN rows' = DOMAIN rows
      <4>1. rows' = [k \in DOMAIN rows |-> rows'[k]]
        BY <1>1, <3>1
      <4> QED
        BY <4>1, <1>1, <3>2, Relabelled
    <3> QED
      BY <3>2, <3>3 DEF Succession
  <2>3. CASE QueuedConfigs(n) = {}
    <3> DEFINE c == [Command("apply_config", n) EXCEPT !.rev = r, !.closed = j.closed]
    <3>1. rows' = Append(rows, c)
      BY <1>3, <2>3 DEF QueueConfig
    <3>2. c \in Row
      <4>1. Command("apply_config", n) \in Row
        BY <1>2, CommandType DEF Kinds
      <4> HIDE DEF r
      <4> QED
        BY <4>1, <1>2, <2>1 DEF Row
    <3>3. /\ c.kind = "apply_config" /\ c.node = n /\ c.rev > 0
          /\ ~c.sent /\ ~c.running
      BY <2>1 DEF Command
    <3> HIDE DEF c
    <3>4. rows'[Len(rows')] = c => New(Len(rows'))
      BY <3>3, <1>2 DEF New, Fits
    <3> QED
      BY <1>1, <3>1, <3>2, <3>4, AllRows, AppendedOne
  <2> QED
    BY <2>2, <2>3
<1>4. CASE QueueFails(n, j.closed)
  <2>1. rows' = rows \/ rows' = Append(rows, Command("stop_instance", n))
    BY <1>4 DEF QueueFails
  <2>2. /\ Command("stop_instance", n) \in Row
        /\ Command("stop_instance", n).kind = "stop_instance"
        /\ Command("stop_instance", n).node = n
        /\ ~Command("stop_instance", n).sent /\ ~Command("stop_instance", n).running
    <3>1. Command("stop_instance", n) \in Row
      BY <1>2, CommandType DEF Kinds
    <3> QED
      BY <3>1 DEF Command
  <2>3. rows'[Len(rows')] = Command("stop_instance", n) => New(Len(rows'))
    BY <2>2, <1>2 DEF New, Fits
  <2> QED
    BY <2>1, <2>2, <2>3, <1>1, AllRows, AppendedOne, UnchangedRows
<1> QED
  BY <1>3, <1>4 DEF StartNode

(* completeCommand. *)
LEMMA ResultRows ==
  ASSUME Base, NEW i \in DOMAIN rows, Succeeds(i) \/ Fails(i) \/ RollsBack(i),
         managed' = managed
  PROVE  Succession
<1>1. /\ rows[i] \in Row /\ Fits(rows[i]) /\ rows[i].node \in managed \cup {NoNode}
      /\ rows \in Seq(Row) /\ Shortened(Without(i))
  BY RowType
<1>2. CASE rows' = Without(i)
  BY <1>1, <1>2, OnlyKept
<1>3. CASE rows' = KeepRunning(Without(i)) \/ rows' = KeepRunningOf(Without(i), rows[i].node)
  <2>1. Shortened(rows')
    BY <1>1, <1>3, KeptRows
  <2> QED
    BY <2>1, OnlyKept
<1>4. CASE ClosedApplyFails(i)
  <2> DEFINE q == KeepRunningOf(Without(i), rows[i].node)
             c == Command("stop_instance", rows[i].node)
  <2>1. rows' = Append(q, c) /\ rows[i].node # NoNode /\ Shortened(q)
    BY <1>1, <1>4, KeptRows DEF ClosedApplyFails, Fits
  <2>2. c \in Row
    BY <1>1, CommandType DEF Row, Kinds
  <2>3. /\ c.kind = "stop_instance" /\ c.node = rows[i].node /\ ~c.sent /\ ~c.running
    BY DEF Command
  <2> HIDE DEF c, q
  <2>4. rows'[Len(rows')] = c => New(Len(rows'))
    BY <2>3, <1>1, <2>1 DEF New, Fits
  <2> QED
    BY <1>1, <2>1, <2>2, <2>4, AppendedOne
<1>5. \/ rows' = Without(i)
      \/ rows' = KeepRunning(Without(i)) \/ rows' = KeepRunningOf(Without(i), rows[i].node)
      \/ ClosedApplyFails(i)
  BY Zenon DEF Succeeds, Discovered, Reconciled, Certified, Applied, NothingElse, Fails,
         DiscoveryFails, CertificateFails, InstanceFails, MachineFails, RollsBack,
         ApplyRolledBack
<1> QED
  BY <1>2, <1>3, <1>4, <1>5

LEMMA RenewalRows ==
  ASSUME Base, RenewalQueues
  PROVE  Succession /\ (rows' = rows \/ Grows)
<1> DEFINE n     == renewal.node
           stop  == <<Command("stop_instance", n)>>
           renew == <<Command("reconcile_certificate", n)>>
           start == <<Command("start_instance", n)>>
           F     == {Command("stop_instance", n), Command("reconcile_certificate", n),
                     Command("start_instance", n)}
<1>1. /\ n \in managed /\ n \in Nodes /\ n # NoNode /\ managed' = managed
      /\ rows \in Seq(Row)
  BY NodesAssumption DEF RenewalQueues, Base, TypeOK, RenewalFits, nodeVars
<1>2. F \in SUBSET Row /\ \A r \in F : Fresh(r)
  <2>1. F \in SUBSET Row
    BY <1>1, CommandType DEF Kinds
  <2> QED
    BY <2>1, <1>1 DEF Fresh, Fits, Command
<1>3. stop \in Seq(F) /\ renew \in Seq(F) /\ start \in Seq(F)
  <2>1. /\ Command("stop_instance", n) \in F /\ Command("reconcile_certificate", n) \in F
        /\ Command("start_instance", n) \in F
    OBVIOUS
  <2> HIDE DEF F
  <2> QED
    BY <2>1
<1>4. \/ rows' = rows
      \/ rows' = rows \o (stop \o renew) \o start
      \/ rows' = rows \o (renew \o stop) \o start
  BY DEF RenewalQueues
<1> HIDE DEF stop, renew, start, F
<1>5. ASSUME NEW m \in Seq(F), rows' = rows \o m \o start
      PROVE  Succession /\ Grows
  <2>1. m \in Seq(Row) /\ start \in Seq(Row) /\ m \o start \in Seq(F)
    BY <1>2, <1>3, <1>5, SeqMonotonic, ConcatProperties
  <2>2. rows' = rows \o (m \o start)
    BY <1>1, <1>5, <2>1, RowsAssociate
  <2> QED
    BY <1>1, <1>2, <2>1, <2>2, AllRows, FreshAppended
<1>6. stop \o renew \in Seq(F) /\ renew \o stop \in Seq(F)
  BY <1>3, ConcatProperties
<1> QED
  BY <1>1, <1>4, <1>5, <1>6, UnchangedRows

(* Every step but a claim keeps rows in their order and puts new ones      *)
(* behind them.                                                            *)
LEMMA RowsSucceed ==
  ASSUME Base, Next
  PROVE  Claim \/ Succession
<1>0. rows \in Seq(Row)
  BY DEF Base, TypeOK
<1>1. CASE HelloReads \/ RenewalBlocks
  BY <1>0, <1>1, UnchangedRows DEF HelloReads, RenewalBlocks
<1>2. CASE HelloWrites
  BY <1>2, HelloRows
<1>3. ASSUME NEW S \in SUBSET Nodes, CreatePlan(S)
      PROVE  Succession
  BY <1>0, <1>3, PlanRows, UnchangedRows DEF CreatePlan
<1>4. ASSUME NEW S \in SUBSET Nodes, Retry(S)
      PROVE  Succession
  BY <1>4, RetryRequestRows
<1>5. ASSUME NEW S \in SUBSET Nodes, Publish(S)
      PROVE  Succession
  BY <1>0, <1>5, UnchangedRows DEF Publish, PublishWrites
<1>6. ASSUME NEW p \in Plans, PlanExpires(p) \/ GetPlan(p)
      PROVE  Succession
  BY <1>0, <1>6, UnchangedRows DEF PlanExpires, GetPlan
<1>7. ASSUME NEW p \in Plans, Provision(p)
      PROVE  Succession
  BY <1>0, <1>7, ProvisionRows DEF Base, TypeOK
<1>8. ASSUME NEW n \in Nodes, NEW closed \in BOOLEAN, Reconfigure(n, closed)
      PROVE  Succession
  BY <1>0, <1>8, UnchangedRows DEF Reconfigure
<1>9. ASSUME NEW j \in Job, StartNode(j)
      PROVE  Succession
  BY <1>9, StartRows
<1>10. ASSUME NEW i \in DOMAIN rows, Result(i) \/ DeadlineExceeded(i)
       PROVE  Succession
  BY <1>10, ResultRows DEF Result, DeadlineExceeded, Frame
<1>11. ASSUME NEW n \in Nodes, CertificateExpires(n) \/ RenewalReads(n)
       PROVE  Succession
  BY <1>0, <1>11, UnchangedRows DEF CertificateExpires, RenewalReads
<1>12. CASE RenewalQueues
  BY <1>12, RenewalRows
<1>13. CASE TransactionReads
  <2>1. CASE rows' = rows
    BY <1>0, <2>1, UnchangedRows
  <2>2. ASSUME NEW i \in DOMAIN rows, rows' = Without(i)
        PROVE  Succession
    BY <1>0, <2>2, AllButOne, OnlyKept
  <2> QED
    BY <1>13, <2>1, <2>2 DEF TransactionReads
<1>14. CASE TransactionWrites
  <2>1. CASE open.what = "plan"
    BY <1>14, <2>1, PlanRows DEF TransactionWrites
  <2>2. CASE open.what = "retry"
    BY <1>14, <2>2, RetryWrittenRows
  <2>3. CASE open.what = "publish" \/ open.what = "apply"
    BY <1>0, <1>14, <2>3, UnchangedRows DEF TransactionWrites, PublishWrites
  <2> QED
    BY <1>14, <2>1, <2>2, <2>3 DEF TransactionWrites
<1> QED
  BY <1>1, <1>2, <1>3, <1>4, <1>5, <1>6, <1>7, <1>8, <1>9, <1>10, <1>11, <1>12, <1>13,
     <1>14 DEF Next

-----------------------------------------------------------------------------
(* The base invariant is kept.                                             *)

LEMMA OvertakenStays ==
  ASSUME TypeOK, Overtakes
  PROVE  /\ open' \in Transaction /\ raced' = raced /\ raced' \subseteq Nodes
         /\ open'.what = open.what
         /\ open.what # "none" => ~open.overtaken /\ open'.overtaken
         /\ open.what \in {"plan", "retry", "publish"} => open'.nodes = open.nodes
         /\ open.what = "plan" => open'.live = open.live
         /\ open.what = "retry" => open'.ports = open.ports /\ open'.renew = open.renew
         /\ open.what = "apply" => /\ open'.node = open.node /\ open'.rev = open.rev
                                   /\ open'.caughtUp = open.caughtUp
                                   /\ open'.published = open.published
                                   /\ open'.ready = open.ready
<1>1. open \in Transaction /\ raced \subseteq Nodes
  BY DEF TypeOK
<1>2. CASE open = NoTransaction
  BY <1>1, <1>2 DEF Overtakes, NoTransaction
<1>3. CASE open # NoTransaction
  <2>1. /\ ~open.overtaken /\ open' = [open EXCEPT !.overtaken = TRUE]
        /\ raced' = raced
    BY <1>3 DEF Overtakes
  <2>2. open.what # "none"
    BY <1>1, <1>3 DEF Transaction, NoTransaction
  <2>3. open' \in Transaction
    <3>1. CASE open.what = "plan"
      BY <1>1, <2>1, <3>1 DEF Transaction
    <3>2. CASE open.what = "retry"
      BY <1>1, <2>1, <3>2 DEF Transaction
    <3>3. CASE open.what = "publish"
      BY <1>1, <2>1, <3>3 DEF Transaction
    <3>4. CASE open.what = "apply"
      BY <1>1, <2>1, <3>4 DEF Transaction
    <3> QED
      BY <1>1, <2>2, <3>1, <3>2, <3>3, <3>4 DEF Transaction
  <2>4. /\ open.what \in {"plan", "retry", "publish"} => open'.nodes = open.nodes
        /\ open.what = "plan" => open'.live = open.live
        /\ open.what = "retry" => open'.ports = open.ports /\ open'.renew = open.renew
        /\ open.what = "apply" => /\ open'.node = open.node /\ open'.rev = open.rev
                                  /\ open'.caughtUp = open.caughtUp
                                  /\ open'.published = open.published
                                  /\ open'.ready = open.ready
    BY <1>1, <2>1 DEF Transaction
  <2>5. open'.what = open.what /\ open'.overtaken
    BY <1>1, <2>1, <2>2 DEF Transaction
  <2> QED
    BY <1>1, <2>1, <2>2, <2>3, <2>4, <2>5
<1> QED
  BY <1>2, <1>3

(* Types of all but the rows and the open transaction. *)
DataTypes ==
    /\ planStatus \in [Plans -> PlanStatuses]
    /\ planNodes \in [Plans -> SUBSET Nodes]
    /\ planReady \in [Plans -> SUBSET Nodes]
    /\ planLate \in [Plans -> BOOLEAN]
    /\ managed \subseteq Nodes
    /\ lifecycleState \in [Nodes -> LifecycleStates]
    /\ isPublished \in [Nodes -> BOOLEAN]
    /\ desiredRevision \in [Nodes -> 0 .. MaxRevision]
    /\ appliedRevision \in [Nodes -> 0 .. MaxRevision]
    /\ externalPort \in [Nodes -> Ports]
    /\ hostEnabled \in [Nodes -> BOOLEAN]
    /\ certificateStatus \in [Nodes -> CertStatuses]
    /\ certificate \in [Nodes -> {"none", "valid", "expired"}]
    /\ certificateBlocked \in [Nodes -> BOOLEAN]
    /\ machineStatus \in MachineStatuses
    /\ jobs \subseteq Job
    /\ renewal \in {NoRenewal} \cup
            [node : CertNodes, expired : BOOLEAN, blocked : BOOLEAN, stage : {"block", "queue"}]
    /\ hello \in MachineStatuses \cup {NoHello}
    /\ requests \in 0 .. MaxRequests
    /\ faults \in 0 .. MaxFaults
    /\ lost \subseteq Nodes
    /\ swept \in BOOLEAN /\ clobbered \in BOOLEAN
    /\ jobFailed \in BOOLEAN /\ outlived \in BOOLEAN

LEMMA SpendType ==
  ASSUME BoundsAssumption
  PROVE  /\ requests \in 0 .. MaxRequests /\ Spend(requests) => requests' \in 0 .. MaxRequests
         /\ faults \in 0 .. MaxFaults /\ Spend(faults) => faults' \in 0 .. MaxFaults
BY BoundsAssumption DEF Spend

LEMMA EnqueueType ==
  ASSUME DataTypes, NEW J \in SUBSET Job, Enqueue(J)
  PROVE  /\ jobs' \subseteq jobs \cup J /\ jobs' \subseteq Job
         /\ lost' \subseteq Nodes
         /\ faults' \in 0 .. MaxFaults
<1>1. \A j \in J : j.node \in Nodes
  BY DEF Job
<1> QED
  BY <1>1, SpendType, BoundsAssumption DEF Enqueue, DataTypes

LEMMA ResultTypes ==
  ASSUME Base, DataTypes, NEW i \in DOMAIN rows, Frame,
         \/ Succeeds(i)
         \/ (Fails(i) \/ RollsBack(i)) /\ (faults' = faults \/ Spend(faults))
  PROVE  DataTypes'
<1> USE DEF DataTypes, Frame, planVars, nodeVars, hostVars, certVars, taskVars, histVars,
            PlanStatuses, LifecycleStates, MachineStatuses, CertStatuses
<1>1. /\ rows[i].node \in Nodes \cup {NoNode} /\ rows[i].plan \in 0 .. MaxPlans
      /\ rows[i].rev \in 0 .. MaxRevision /\ rows[i].ports \in SUBSET Ports
      /\ Fits(rows[i])
  BY RowType DEF Row
<1>2. CASE Discovered(i)
  <2>1. planStatus' \in [Plans -> PlanStatuses] /\ planReady' \in [Plans -> SUBSET Nodes]
    <3>1. \A s \in PlanStatuses : [planStatus EXCEPT ![rows[i].plan] = s] \in [Plans -> PlanStatuses]
      OBVIOUS
    <3>2. \A S \in SUBSET Nodes : [planReady EXCEPT ![rows[i].plan] = S] \in [Plans -> SUBSET Nodes]
      OBVIOUS
    <3>3. rows[i].plan \in Plans
      BY <1>1, <1>2 DEF Discovered, Fits
    <3>4. planNodes[rows[i].plan] \in SUBSET Nodes
      BY <3>3
    <3>5. \/ /\ \E S \in SUBSET planNodes[rows[i].plan] :
                  planReady' = [planReady EXCEPT ![rows[i].plan] = S]
             /\ \E s \in PlanStatuses : planStatus' = [planStatus EXCEPT ![rows[i].plan] = s]
          \/ /\ planReady' = planReady
             /\ \E s \in PlanStatuses : planStatus' = [planStatus EXCEPT ![rows[i].plan] = s]
      BY ZenonT(60), <1>2, <3>3 DEF Discovered
    <3>6. \E s \in PlanStatuses : planStatus' = [planStatus EXCEPT ![rows[i].plan] = s]
      BY <3>5
    <3>7. \/ planReady' = planReady
          \/ \E S \in SUBSET Nodes : planReady' = [planReady EXCEPT ![rows[i].plan] = S]
      BY <3>4, <3>5
    <3>8. planStatus' \in [Plans -> PlanStatuses]
      BY ONLY <3>1, <3>6
    <3>9. planReady' \in [Plans -> SUBSET Nodes]
      <4>1. planReady \in [Plans -> SUBSET Nodes]
        OBVIOUS
      <4> QED
        BY ONLY <3>2, <3>7, <4>1
    <3> QED
      BY <3>8, <3>9
  <2>2. outlived' \in BOOLEAN /\ machineStatus' \in MachineStatuses
    BY <1>2 DEF Discovered
  <2> QED
    BY <1>2, <2>1, <2>2 DEF Discovered
<1>3. CASE Reconciled(i)
  <2>1. {[node |-> rows[i].node, closed |-> FALSE]} \in SUBSET Job
    BY <1>1, <1>3 DEF Reconciled, Job, Fits
  <2> QED
    <3>1. jobs' \subseteq Job /\ lost' \subseteq Nodes /\ faults' \in 0 .. MaxFaults
      BY <1>3, <2>1, EnqueueType DEF Reconciled
    <3>2. externalPort' \in [Nodes -> Ports]
      BY <1>1, <1>3 DEF Reconciled
    <3> QED
      BY <1>3, <3>1, <3>2 DEF Reconciled
<1>4. CASE Certified(i)
  <2>1. /\ certificateStatus' \in [Nodes -> CertStatuses]
        /\ certificate' \in [Nodes -> {"none", "valid", "expired"}]
        /\ certificateBlocked' \in [Nodes -> BOOLEAN]
    BY <1>1, <1>4 DEF Certified
  <2>2. hostEnabled' \in [Nodes -> BOOLEAN]
    BY <1>4 DEF Certified
  <2> QED
    BY <1>4, <2>1, <2>2 DEF Certified
<1>5. CASE Applied(i)
  <2>1. appliedRevision' \in [Nodes -> 0 .. MaxRevision]
    BY <1>1, <1>5 DEF Applied, ApplyWrites, ApplyRead
  <2>2. lifecycleState' \in [Nodes -> LifecycleStates]
    BY <1>5 DEF Applied, ApplyWrites
  <2>3. hostEnabled' \in [Nodes -> BOOLEAN]
    BY <1>5 DEF Applied, ApplyWrites
  <2>4. machineStatus' \in MachineStatuses
    BY <1>5 DEF Applied, ApplyWrites, StatusAfterApply
  <2> QED
    BY <1>5, <2>1, <2>2, <2>3, <2>4 DEF Applied, ApplyWrites
<1>6. CASE NothingElse(i)
  BY <1>6 DEF NothingElse
<1>7. faults' = faults \/ Spend(faults) => faults' \in 0 .. MaxFaults
  BY SpendType, BoundsAssumption
<1>8. CASE RollsBack(i) /\ (faults' = faults \/ Spend(faults))
  <2>1. lifecycleState' \in [Nodes -> LifecycleStates] /\ machineStatus' \in MachineStatuses
    BY <1>8 DEF RollsBack, ApplyRolledBack, KeptState
  <2> QED
    BY <1>7, <1>8, <2>1 DEF RollsBack, ApplyRolledBack
<1>9. CASE Fails(i) /\ (faults' = faults \/ Spend(faults))
  <2> USE <1>1, <1>7, <1>9 DEF Fails
  <2>1. CASE DiscoveryFails(i)
    BY ZenonT(60), <2>1 DEF DiscoveryFails
  <2>2. CASE ClosedApplyFails(i)
    BY ZenonT(60), <2>2 DEF ClosedApplyFails, StatusAfterFailure
  <2>3. CASE CertificateFails(i)
    <3>1. /\ lifecycleState' \in [Nodes -> LifecycleStates]
          /\ certificateStatus' \in [Nodes -> CertStatuses]
          /\ machineStatus' \in MachineStatuses
      BY <2>3 DEF CertificateFails, StatusAfterFailure
    <3>2. /\ certificateBlocked' \in [Nodes -> BOOLEAN]
          /\ hostEnabled' \in [Nodes -> BOOLEAN]
      BY <2>3 DEF CertificateFails
    <3> QED
      BY <2>3, <3>1, <3>2 DEF CertificateFails
  <2>4. CASE InstanceFails(i)
    BY <2>4 DEF InstanceFails, StatusAfterFailure
  <2>5. CASE MachineFails(i)
    BY <2>5 DEF MachineFails
  <2> QED
    BY <2>1, <2>2, <2>3, <2>4, <2>5
<1> QED
  BY <1>2, <1>3, <1>4, <1>5, <1>6, <1>8, <1>9 DEF Succeeds

LEMMA RetryTypes ==
  ASSUME DataTypes, NEW t, RetryWrites(t)
  PROVE  /\ lifecycleState' \in [Nodes -> LifecycleStates]
         /\ certificateStatus' \in [Nodes -> CertStatuses]
         /\ machineStatus' \in MachineStatuses
BY DEF RetryWrites, DataTypes, LifecycleStates, CertStatuses, MachineStatuses

LEMMA PlanTypes ==
  ASSUME DataTypes, NEW t, t.nodes \in SUBSET Nodes, PlanWrites(t)
  PROVE  /\ planStatus' \in [Plans -> PlanStatuses]
         /\ planNodes' \in [Plans -> SUBSET Nodes]
         /\ machineStatus' \in MachineStatuses
<1>1. PICK p \in Plans,
           old \in {t.live \cap {q \in Plans : Live(q)}, {q \in Plans : Live(q)}} :
          /\ planStatus' = [q \in Plans |-> IF q = p THEN "PENDING"
                                            ELSE IF q \in old THEN "EXPIRED"
                                            ELSE planStatus[q]]
          /\ planNodes' = [planNodes EXCEPT ![p] = t.nodes]
          /\ machineStatus' = "PROVISIONING"
  BY DEF PlanWrites
<1> QED
  BY <1>1 DEF DataTypes, PlanStatuses, MachineStatuses

LEMMA PublishTypes ==
  ASSUME DataTypes, NEW t, t.nodes \in SUBSET Nodes, PublishWrites(t)
  PROVE  /\ lifecycleState' \in [Nodes -> LifecycleStates]
         /\ isPublished' \in [Nodes -> BOOLEAN]
         /\ machineStatus' \in MachineStatuses
         /\ jobs' \subseteq Job /\ lost' \subseteq Nodes /\ faults' \in 0 .. MaxFaults
         /\ \A j \in jobs' : j \in jobs \/ j.node \in t.nodes
<1> DEFINE J == [node : t.nodes, closed : {TRUE}]
<1>1. J \in SUBSET Job /\ \A j \in J : j.node \in t.nodes
  BY DEF Job
<1>2. Enqueue(J)
  BY DEF PublishWrites
<1> HIDE DEF J
<1>3. /\ jobs' \subseteq jobs \cup J /\ jobs' \subseteq Job
      /\ lost' \subseteq Nodes /\ faults' \in 0 .. MaxFaults
  BY <1>1, <1>2, EnqueueType
<1>4. /\ lifecycleState' \in [Nodes -> LifecycleStates]
      /\ isPublished' \in [Nodes -> BOOLEAN]
      /\ machineStatus' \in MachineStatuses
  BY DEF PublishWrites, DataTypes, LifecycleStates, MachineStatuses
<1> QED
  BY <1>1, <1>3, <1>4

(* What a transaction reads. *)
LEMMA ReadTypes ==
  ASSUME Base
  PROVE  /\ \A S \in SUBSET Nodes : /\ PlanRead(S) \in Transaction
                                    /\ RetryRead(S) \in Transaction
                                    /\ PublishRead(S) \in Transaction
         /\ \A i \in DOMAIN rows :
               rows[i].kind = "apply_config" => ApplyRead(i) \in Transaction
<1>1. ASSUME NEW S \in SUBSET Nodes
      PROVE  PlanRead(S) \in Transaction /\ PublishRead(S) \in Transaction
  BY DEF PlanRead, PublishRead, Transaction
<1>2. ASSUME NEW S \in SUBSET Nodes
      PROVE  RetryRead(S) \in Transaction
  <2>1. \A n \in Nodes : RetryPorts(n) \in SUBSET Ports
    BY DEF RetryPorts, Base, TypeOK
  <2>2. [n \in Nodes |-> IF n \in S THEN RetryPorts(n) ELSE {}] \in [Nodes -> SUBSET Ports]
    BY <2>1
  <2>3. {n \in S : ~CertificateUsable(n)} \in SUBSET Nodes
    OBVIOUS
  <2> QED
    BY <2>2, <2>3 DEF RetryRead, Transaction
<1>3. ASSUME NEW i \in DOMAIN rows, rows[i].kind = "apply_config"
      PROVE  ApplyRead(i) \in Transaction
  <2>1. rows[i] \in Row /\ rows[i].node \in Nodes
    <3>1. rows[i] \in Row /\ Fits(rows[i])
      BY RowType
    <3> QED
      BY <3>1, <1>3 DEF Row, Fits
  <2>2. /\ rows[i].rev \in 0 .. MaxRevision
        /\ (rows[i].rev = desiredRevision[rows[i].node]) \in BOOLEAN
        /\ isPublished[rows[i].node] \in BOOLEAN
        /\ CertificateReady(rows[i].node) \in BOOLEAN
    BY <2>1 DEF Row, Base, TypeOK, CertificateReady, CertificateUsable
  <2> QED
    BY <2>1, <2>2 DEF ApplyRead, Transaction
<1> QED
  BY <1>1, <1>2, <1>3

LEMMA DataTypesKept ==
  ASSUME Base, Next
  PROVE  DataTypes'
<1>0. DataTypes
  BY DEF Base, TypeOK, DataTypes
<1> USE <1>0
<1> USE DEF planVars, nodeVars, hostVars, certVars, taskVars, histVars
<1>1. CASE Claim
  BY <1>1 DEF Claim, DataTypes
<1>2. CASE HelloReads
  BY <1>2, SpendType, BoundsAssumption DEF HelloReads, DataTypes
<1>3. CASE HelloWrites
  <2>1. machineStatus' \in MachineStatuses /\ clobbered' \in BOOLEAN
        /\ hello' \in MachineStatuses \cup {NoHello}
    BY <1>3 DEF HelloWrites, DataTypes
  <2> QED
    BY <1>3, <2>1 DEF HelloWrites, DataTypes
<1>4. ASSUME NEW S \in SUBSET Nodes, CreatePlan(S)
      PROVE  DataTypes'
  <2>1. requests' \in 0 .. MaxRequests
    BY <1>4, SpendType, BoundsAssumption DEF CreatePlan, DataTypes
  <2>2. CASE PlanWrites(PlanRead(S))
    <3>1. PlanRead(S).nodes = S
      BY DEF PlanRead
    <3>2. /\ planStatus' \in [Plans -> PlanStatuses]
          /\ planNodes' \in [Plans -> SUBSET Nodes]
          /\ machineStatus' \in MachineStatuses
      BY <2>2, <3>1, PlanTypes
    <3>3. UNCHANGED <<planReady, planLate, nodeVars, certVars, jobs, taskVars, histVars>>
      BY <2>2 DEF PlanWrites
    <3> QED
      BY <1>4, <2>1, <3>2, <3>3 DEF CreatePlan, DataTypes
  <2> QED
    BY <1>4, <2>1, <2>2 DEF CreatePlan, DataTypes
<1>5. ASSUME NEW S \in SUBSET Nodes, Retry(S)
      PROVE  DataTypes'
  <2>1. requests' \in 0 .. MaxRequests
    BY <1>5, SpendType, BoundsAssumption DEF Retry, DataTypes
  <2>2. /\ lifecycleState' \in [Nodes -> LifecycleStates]
        /\ certificateStatus' \in [Nodes -> CertStatuses]
        /\ machineStatus' \in MachineStatuses
    BY <1>5, RetryTypes DEF Retry
  <2> QED
    BY <1>5, <2>1, <2>2 DEF Retry, RetryWrites, DataTypes
<1>6. ASSUME NEW S \in SUBSET Nodes, Publish(S)
      PROVE  DataTypes'
  <2>1. requests' \in 0 .. MaxRequests
    BY <1>6, SpendType, BoundsAssumption DEF Publish, DataTypes
  <2>2. PublishRead(S).nodes = S
    BY DEF PublishRead
  <2>3. /\ lifecycleState' \in [Nodes -> LifecycleStates]
        /\ isPublished' \in [Nodes -> BOOLEAN]
        /\ machineStatus' \in MachineStatuses
        /\ jobs' \subseteq Job /\ lost' \subseteq Nodes /\ faults' \in 0 .. MaxFaults
    BY <1>6, <2>2, PublishTypes DEF Publish
  <2> QED
    BY <1>6, <2>1, <2>3 DEF Publish, PublishWrites, DataTypes
<1>7. ASSUME NEW p \in Plans, PlanExpires(p)
      PROVE  DataTypes'
  BY <1>7, SpendType, BoundsAssumption DEF PlanExpires, DataTypes
<1>8. ASSUME NEW p \in Plans, GetPlan(p)
      PROVE  DataTypes'
  BY <1>8 DEF GetPlan, DataTypes, PlanStatuses
<1>9. ASSUME NEW p \in Plans, Provision(p)
      PROVE  DataTypes'
  BY <1>9 DEF Provision, DataTypes, PlanStatuses, MachineStatuses
<1>10. ASSUME NEW n \in Nodes, NEW closed \in BOOLEAN, Reconfigure(n, closed)
       PROVE  DataTypes'
  <2>1. [node |-> n, closed |-> closed] \in Job
    BY DEF Job
  <2> QED
    BY <1>10, <2>1, SpendType, BoundsAssumption DEF Reconfigure, DataTypes
<1>11. ASSUME NEW j \in Job, StartNode(j)
       PROVE  DataTypes'
  <2>1. j.node \in Nodes /\ j.closed \in BOOLEAN
    BY DEF Job
  <2>2. /\ UNCHANGED <<planVars, managed, appliedRevision, isPublished, externalPort, certVars,
                       taskVars, requests, swept, clobbered, outlived>>
        /\ jobs' \subseteq jobs /\ lost' \subseteq lost
    BY <1>11 DEF StartNode
  <2>3. CASE QueueConfig(j.node, j.closed)
    <3>1. desiredRevision' \in [Nodes -> 0 .. MaxRevision]
      BY <2>1, <2>3, BoundsAssumption DEF QueueConfig, DataTypes
    <3>2. lifecycleState' \in [Nodes -> LifecycleStates]
      BY <2>3 DEF QueueConfig, DataTypes, LifecycleStates
    <3> QED
      BY <2>2, <2>3, <3>1, <3>2 DEF QueueConfig, DataTypes
  <2>4. CASE QueueFails(j.node, j.closed)
    <3>1. faults' \in 0 .. MaxFaults
      BY <2>4, SpendType, BoundsAssumption DEF QueueFails, DataTypes
    <3>2. /\ lifecycleState' \in [Nodes -> LifecycleStates]
          /\ hostEnabled' \in [Nodes -> BOOLEAN]
          /\ machineStatus' \in MachineStatuses
      BY <2>4 DEF QueueFails, KeptState, DataTypes, LifecycleStates, MachineStatuses
    <3> QED
      BY <2>2, <2>4, <3>1, <3>2 DEF QueueFails, DataTypes
  <2> QED
    BY <1>11, <2>3, <2>4 DEF StartNode
<1>12. ASSUME NEW i \in DOMAIN rows, Result(i) \/ DeadlineExceeded(i)
       PROVE  DataTypes'
  BY <1>12, ResultTypes DEF Result, DeadlineExceeded
<1>13. ASSUME NEW n \in Nodes, CertificateExpires(n)
       PROVE  DataTypes'
  BY <1>13, SpendType, BoundsAssumption DEF CertificateExpires, DataTypes
<1>14. ASSUME NEW n \in Nodes, RenewalReads(n)
       PROVE  DataTypes'
  <2>1. renewal' \in [node : CertNodes, expired : BOOLEAN, blocked : BOOLEAN,
                      stage : {"block", "queue"}]
    BY <1>14 DEF RenewalReads, DataTypes
  <2> QED
    BY <1>14, <2>1, SpendType, BoundsAssumption DEF RenewalReads, DataTypes
<1>15. CASE RenewalBlocks
  <2>1. renewal' \in [node : CertNodes, expired : BOOLEAN, blocked : BOOLEAN,
                      stage : {"block", "queue"}]
    BY <1>15 DEF RenewalBlocks, DataTypes
  <2>2. /\ certificateBlocked' \in [Nodes -> BOOLEAN]
        /\ certificateStatus' \in [Nodes -> CertStatuses]
        /\ hostEnabled' \in [Nodes -> BOOLEAN]
    BY <1>15 DEF RenewalBlocks, DataTypes, CertStatuses
  <2> QED
    BY <1>15, <2>1, <2>2 DEF RenewalBlocks, DataTypes
<1>16. CASE RenewalQueues
  <2>1. /\ renewal' = NoRenewal
        /\ UNCHANGED <<planVars, nodeVars, certificate, certificateBlocked, machineStatus,
                       hello, requests, swept, clobbered, jobFailed, outlived>>
    BY <1>16 DEF RenewalQueues
  <2>2. CASE UNCHANGED <<certificateStatus, jobs, faults, lost>>
    BY <2>1, <2>2 DEF DataTypes
  <2>3. CASE /\ certificateStatus' = [certificateStatus EXCEPT ![renewal.node] = "RENEWING"]
             /\ Enqueue({[node |-> renewal.node, closed |-> FALSE]})
    <3>1. renewal.node \in Nodes
      BY <1>16, NodesAssumption DEF RenewalQueues, DataTypes
    <3>2. {[node |-> renewal.node, closed |-> FALSE]} \in SUBSET Job
      BY <3>1 DEF Job
    <3>3. jobs' \subseteq Job /\ lost' \subseteq Nodes /\ faults' \in 0 .. MaxFaults
      BY <2>3, <3>2, EnqueueType
    <3>4. certificateStatus' \in [Nodes -> CertStatuses]
      BY <2>3 DEF DataTypes, CertStatuses
    <3> QED
      BY <2>1, <3>3, <3>4 DEF DataTypes
  <2> QED
    BY <1>16, <2>2, <2>3 DEF RenewalQueues
<1>17. CASE TransactionReads
  <2>1. requests' \in 0 .. MaxRequests /\ faults' \in 0 .. MaxFaults
    BY <1>17, SpendType, BoundsAssumption DEF TransactionReads, DataTypes
  <2> QED
    BY <1>17, <2>1 DEF TransactionReads, DataTypes
<1>18. CASE TransactionWrites
  <2>0. open \in Transaction
    BY DEF Base, TypeOK
  <2>1. CASE open.what = "plan"
    <3>1. PlanWrites(open) /\ UNCHANGED <<faults, requests>>
      BY <1>18, <2>1 DEF TransactionWrites
    <3>2. open.nodes \in SUBSET Nodes
      BY <2>0, <2>1 DEF Transaction
    <3>3. /\ planStatus' \in [Plans -> PlanStatuses]
          /\ planNodes' \in [Plans -> SUBSET Nodes]
          /\ machineStatus' \in MachineStatuses
      BY <3>1, <3>2, PlanTypes
    <3>4. UNCHANGED <<planReady, planLate, nodeVars, certVars, jobs, taskVars, histVars>>
      BY <3>1 DEF PlanWrites
    <3> QED
      BY <3>1, <3>3, <3>4 DEF DataTypes
  <2>2. CASE open.what = "retry"
    <3>1. RetryWrites(open) /\ UNCHANGED <<faults, requests>>
      BY <1>18, <2>2 DEF TransactionWrites
    <3>2. /\ lifecycleState' \in [Nodes -> LifecycleStates]
          /\ certificateStatus' \in [Nodes -> CertStatuses]
          /\ machineStatus' \in MachineStatuses
      BY <3>1, RetryTypes
    <3> QED
      BY <3>1, <3>2 DEF RetryWrites, DataTypes
  <2>3. CASE open.what = "publish"
    <3>1. PublishWrites(open) /\ UNCHANGED requests
      BY <1>18, <2>3 DEF TransactionWrites
    <3>2. open.nodes \in SUBSET Nodes
      BY <2>0, <2>3 DEF Transaction
    <3>3. /\ lifecycleState' \in [Nodes -> LifecycleStates]
          /\ isPublished' \in [Nodes -> BOOLEAN]
          /\ machineStatus' \in MachineStatuses
          /\ jobs' \subseteq Job /\ lost' \subseteq Nodes /\ faults' \in 0 .. MaxFaults
      BY <3>1, <3>2, PublishTypes
    <3> QED
      BY <3>1, <3>3 DEF PublishWrites, DataTypes
  <2>4. CASE open.what = "apply"
    <3>1. /\ ApplyWrites(open)
          /\ UNCHANGED <<rows, faults, managed, desiredRevision, taskVars, clobbered,
                         jobFailed, requests>>
      BY <1>18, <2>4 DEF TransactionWrites
    <3>2. open.rev \in 0 .. MaxRevision
      BY <2>0, <2>4 DEF Transaction
    <3>3. /\ appliedRevision' \in [Nodes -> 0 .. MaxRevision]
          /\ lifecycleState' \in [Nodes -> LifecycleStates]
      BY <3>1, <3>2 DEF ApplyWrites, DataTypes, LifecycleStates
    <3>4. hostEnabled' \in [Nodes -> BOOLEAN] /\ machineStatus' \in MachineStatuses
      BY <3>1 DEF ApplyWrites, StatusAfterApply, DataTypes, MachineStatuses
    <3> QED
      BY <3>1, <3>3, <3>4 DEF ApplyWrites, DataTypes
  <2> QED
    BY <1>18, <2>1, <2>2, <2>3, <2>4 DEF TransactionWrites
<1> QED
  BY <1>1, <1>2, <1>3, <1>4, <1>5, <1>6, <1>7, <1>8, <1>9, <1>10, <1>11, <1>12, <1>13,
     <1>14, <1>15, <1>16, <1>17, <1>18 DEF Next

(* Every step but the two ends of a transaction overtakes the open one. *)
LEMMA OutrunTypeKept ==
  ASSUME Base, Next
  PROVE  outrun' \subseteq Nodes
<1>1. outrun \subseteq Nodes /\ Outrun \subseteq Nodes
  BY DEF Base, TypeOK, Outrun
<1>2. ASSUME NEW j \in Job, StartNode(j)
      PROVE  outrun' \subseteq outrun
  BY <1>2 DEF StartNode, QueueConfig, QueueFails
<1>3. ASSUME NEW i \in DOMAIN rows, Result(i) \/ DeadlineExceeded(i)
      PROVE  outrun' = outrun \cup Outrun
  BY <1>3 DEF Result, DeadlineExceeded
<1>4. CASE TransactionWrites
  <2>1. outrun' = outrun \/ outrun' = outrun \cup Outrun
    BY <1>4 DEF TransactionWrites, PlanWrites, RetryWrites, PublishWrites, histVars
  <2> QED
    BY <1>1, <2>1
<1>5. \/ outrun' = outrun
      \/ \E j \in Job : StartNode(j)
      \/ \E i \in DOMAIN rows : Result(i) \/ DeadlineExceeded(i)
      \/ TransactionWrites
  BY DEF Next, Claim, HelloReads, HelloWrites, CreatePlan, PlanWrites, Retry, RetryWrites,
     Publish, PublishWrites, PlanExpires, GetPlan, Provision, Reconfigure, CertificateExpires,
     RenewalReads, RenewalBlocks, RenewalQueues, TransactionReads, histVars
<1> QED
  BY <1>1, <1>2, <1>3, <1>4, <1>5

LEMMA StepOvertakes ==
  ASSUME Next
  PROVE  Overtakes \/ TransactionReads \/ TransactionWrites
BY DEF Next, Claim, HelloReads, HelloWrites, CreatePlan, Retry, Publish, PlanExpires, GetPlan,
       Provision, Reconfigure, StartNode, Result, DeadlineExceeded, Frame, CertificateExpires,
       RenewalReads, RenewalBlocks, RenewalQueues

LEMMA OpenTypesKept ==
  ASSUME Base, Next
  PROVE  open' \in Transaction /\ raced' \subseteq Nodes /\ raced \subseteq raced'
<1>0. open \in Transaction /\ raced \subseteq Nodes
  BY DEF Base, TypeOK
<1>1. CASE Overtakes
  BY <1>0, <1>1, OvertakenStays DEF Base
<1>2. CASE TransactionReads
  <2>1. raced' = raced
    BY <1>2 DEF TransactionReads
  <2>2. open' \in Transaction
    BY <1>2, ReadTypes DEF TransactionReads
  <2> QED
    BY <1>0, <2>1, <2>2
<1>3. CASE TransactionWrites
  <2>1. open' = NoTransaction /\ raced' = raced \cup Changed(open)
    BY <1>3 DEF TransactionWrites
  <2>2. Changed(open) \subseteq Nodes
    <3>1. CASE open.what = "apply"
      BY <1>0, <3>1 DEF Changed, Transaction
    <3>2. CASE open.what = "retry"
      BY <1>0, <3>2 DEF Changed, Transaction
    <3>3. CASE open.what = "publish"
      BY <1>0, <3>3 DEF Changed, Transaction
    <3>4. CASE open.what = "plan"
      BY <3>4 DEF Changed
    <3> QED
      BY <1>3, <3>1, <3>2, <3>3, <3>4 DEF TransactionWrites
  <2> QED
    BY <1>0, <2>1, <2>2 DEF NoTransaction, Transaction
<1> QED
  BY <1>1, <1>2, <1>3, StepOvertakes

LEMMA ManagedGrows ==
  ASSUME Next
  PROVE  managed \subseteq managed'
BY DEF Next, Claim, HelloReads, HelloWrites, CreatePlan, PlanWrites, Retry, RetryWrites, Publish,
       PublishWrites, PlanExpires, GetPlan, Provision, Reconfigure, StartNode, Result,
       DeadlineExceeded, Frame, CertificateExpires, RenewalReads, RenewalBlocks, RenewalQueues,
       TransactionReads, TransactionWrites, ApplyWrites, nodeVars

(* A claim marks one row, and no row before it is unmarked. *)
LEMMA ClaimMarks ==
  ASSUME Base, Claim
  PROVE  /\ rows' \in Seq(Row) /\ DOMAIN rows' = DOMAIN rows
         /\ \A k \in DOMAIN rows :
               /\ rows'[k].kind = rows[k].kind /\ rows'[k].node = rows[k].node
               /\ rows'[k].plan = rows[k].plan /\ rows'[k].ports = rows[k].ports
               /\ rows'[k].rev = rows[k].rev
         /\ \E i \in DOMAIN rows :
               /\ \A j \in DOMAIN rows : j < i => rows[j].running
               /\ \A k \in DOMAIN rows \ {i} : rows'[k] = rows[k]
               /\ rows'[i].sent
<1>1. /\ rows \in Seq(Row) /\ Len(rows) \in Nat /\ DOMAIN rows = 1 .. Len(rows)
      /\ \A i \in DOMAIN rows : rows[i] \in Row
  BY LenProperties, ElementOfSeq DEF Base, TypeOK
<1>2. PICK i \in DOMAIN rows :
          /\ \A j \in DOMAIN rows : j < i => rows[j].running
          /\ rows' = [rows EXCEPT ![i].running = TRUE, ![i].sent = TRUE]
  BY DEF Claim
<1>3. rows'[i] = [rows[i] EXCEPT !.running = TRUE, !.sent = TRUE]
  BY <1>1, <1>2
<1>4. \A k \in DOMAIN rows \ {i} : rows'[k] = rows[k]
  BY <1>1, <1>2
<1>5. /\ rows'[i] \in Row /\ rows'[i].sent
      /\ rows'[i].kind = rows[i].kind /\ rows'[i].node = rows[i].node
      /\ rows'[i].plan = rows[i].plan /\ rows'[i].ports = rows[i].ports
      /\ rows'[i].rev = rows[i].rev
  BY <1>1, <1>3 DEF Row
<1>6. rows' \in Seq(Row) /\ DOMAIN rows' = DOMAIN rows
  <2>1. rows' = [k \in DOMAIN rows |-> rows'[k]]
    BY <1>1, <1>2
  <2>2. \A k \in DOMAIN rows : rows'[k] \in Row
    BY <1>1, <1>4, <1>5
  <2> QED
    BY <2>1, <2>2, <1>1, Relabelled
<1> QED
  BY <1>2, <1>4, <1>5, <1>6

LEMMA RowsFitKept ==
  ASSUME Base, Next
  PROVE  rows' \in Seq(Row) /\ RowsFit'
<1>1. CASE Claim
  BY <1>1, ClaimMarks, ManagedGrows DEF Base, RowsFit, Fits
<1>2. CASE Succession
  <2>1. rows' \in Seq(Row)
    BY <1>2 DEF Succession
  <2>2. ASSUME NEW k \in DOMAIN rows'
        PROVE  Fits(rows'[k]) /\ rows'[k].node \in managed' \cup {NoNode}
    <3>1. CASE New(k)
      BY <3>1 DEF New
    <3>2. ASSUME NEW i \in DOMAIN rows, Same(rows[i], rows'[k])
          PROVE  Fits(rows'[k]) /\ rows'[k].node \in managed' \cup {NoNode}
      <4>1. Fits(rows[i]) /\ rows[i].node \in managed \cup {NoNode}
        BY DEF Base, RowsFit
      <4> QED
        BY <3>2, <4>1, ManagedGrows DEF Fits, Same
    <3> QED
      BY <1>2, <3>1, <3>2 DEF Succession
  <2> QED
    BY <2>1, <2>2 DEF RowsFit
<1> QED
  BY <1>1, <1>2, RowsSucceed

LEMMA EnqueueNodes ==
  ASSUME NEW J, Enqueue(J)
  PROVE  jobs' \subseteq jobs \cup J
BY DEF Enqueue

LEMMA JobsFitKept ==
  ASSUME Base, Next
  PROVE  JobsFit' /\ RenewalFits'
<1>0. managed \subseteq managed'
  BY ManagedGrows
<1>1. CASE jobs' \subseteq jobs /\ (renewal' = renewal \/ renewal' = NoRenewal)
  BY <1>0, <1>1 DEF Base, JobsFit, RenewalFits
<1>2. ASSUME NEW S \in SUBSET Nodes, NEW t, t.nodes = S, S \subseteq managed,
             PublishWrites(t)
      PROVE  JobsFit' /\ RenewalFits'
  <2>1. jobs' \subseteq jobs \cup [node : S, closed : {TRUE}] /\ renewal' = renewal
    BY <1>2, EnqueueNodes DEF PublishWrites, taskVars
  <2> QED
    BY <1>0, <1>2, <2>1 DEF Base, JobsFit, RenewalFits
<1>3. ASSUME NEW S \in SUBSET Nodes, Publish(S)
      PROVE  JobsFit' /\ RenewalFits'
  <2>1. S \subseteq managed /\ PublishWrites(PublishRead(S)) /\ PublishRead(S).nodes = S
    BY <1>3 DEF Publish, CanPublish, PublishRead
  <2> QED
    BY <2>1, <1>2
<1>4. ASSUME NEW n \in Nodes, NEW closed \in BOOLEAN, Reconfigure(n, closed)
      PROVE  JobsFit' /\ RenewalFits'
  BY <1>0, <1>4 DEF Reconfigure, taskVars, Base, JobsFit, RenewalFits
<1>5. ASSUME NEW i \in DOMAIN rows, Result(i) \/ DeadlineExceeded(i)
      PROVE  JobsFit' /\ RenewalFits'
  <2>1. renewal' = renewal
    BY <1>5 DEF Result, DeadlineExceeded, Frame, taskVars
  <2>2. CASE Reconciled(i)
    <3>1. rows[i].node \in managed
      BY <2>2, RowType DEF Reconciled, Fits
    <3>2. jobs' \subseteq jobs \cup {[node |-> rows[i].node, closed |-> FALSE]}
      BY <2>2, EnqueueNodes DEF Reconciled
    <3> QED
      BY <1>0, <2>1, <3>1, <3>2 DEF Base, JobsFit, RenewalFits
  <2>3. CASE ~Reconciled(i)
    <3>1. jobs' = jobs
      BY <1>5, <2>3 DEF Result, DeadlineExceeded, Succeeds, Discovered, Certified, Applied,
         ApplyWrites, NothingElse, Fails, RollsBack
    <3> QED
      BY <1>1, <2>1, <3>1
  <2> QED
    BY <2>2, <2>3
<1>6. ASSUME NEW n \in Nodes, RenewalReads(n)
      PROVE  JobsFit' /\ RenewalFits'
  BY <1>0, <1>6 DEF RenewalReads, Base, JobsFit, RenewalFits
<1>7. CASE RenewalBlocks
  <2>1. renewal'.node = renewal.node /\ jobs' = jobs /\ renewal # NoRenewal
    BY <1>7 DEF RenewalBlocks, Base, TypeOK
  <2> QED
    BY <1>0, <2>1 DEF Base, JobsFit, RenewalFits
<1>8. CASE RenewalQueues
  <2>1. renewal.node \in managed /\ renewal' = NoRenewal
    BY <1>8 DEF RenewalQueues, Base, RenewalFits
  <2>2. jobs' \subseteq jobs \cup {[node |-> renewal.node, closed |-> FALSE]}
    BY <1>8, EnqueueNodes DEF RenewalQueues
  <2> QED
    BY <1>0, <2>1, <2>2 DEF Base, JobsFit, RenewalFits
<1>9. CASE TransactionWrites
  <2>1. CASE open.what = "publish"
    <3>1. open.nodes \in SUBSET Nodes /\ open.nodes \subseteq managed /\ PublishWrites(open)
      BY <1>9, <2>1 DEF TransactionWrites, Base, TypeOK, OpenFits, Transaction
    <3> QED
      BY <3>1, <1>2
  <2>2. CASE open.what # "publish"
    <3>1. jobs' = jobs /\ renewal' = renewal
      BY <1>9, <2>2 DEF TransactionWrites, PlanWrites, RetryWrites, ApplyWrites, taskVars
    <3> QED
      BY <1>1, <3>1
  <2> QED
    BY <2>1, <2>2
<1>10. ASSUME NEW j \in Job, StartNode(j)
       PROVE  JobsFit' /\ RenewalFits'
  BY <1>1, <1>10 DEF StartNode, taskVars
<1>11. ASSUME NEW S \in SUBSET Nodes, CreatePlan(S) \/ Retry(S)
       PROVE  JobsFit' /\ RenewalFits'
  BY <1>1, <1>11 DEF CreatePlan, PlanWrites, Retry, RetryWrites, taskVars
<1>12. ASSUME NEW p \in Plans, PlanExpires(p) \/ GetPlan(p) \/ Provision(p)
       PROVE  JobsFit' /\ RenewalFits'
  BY <1>1, <1>12 DEF PlanExpires, GetPlan, Provision, taskVars
<1>13. CASE \/ Claim \/ HelloReads \/ HelloWrites \/ TransactionReads
            \/ \E n \in Nodes : CertificateExpires(n)
  BY <1>1, <1>13 DEF Claim, HelloReads, HelloWrites, TransactionReads, CertificateExpires,
     taskVars
<1> QED
  BY <1>3, <1>4, <1>5, <1>6, <1>7, <1>8, <1>9, <1>10, <1>11, <1>12, <1>13 DEF Next

(* What moves a Node to another port, and what publishes it. *)
LEMMA PortChanges ==
  ASSUME Base, Next, NEW n \in Nodes, externalPort'[n] # externalPort[n]
  PROVE  \E i \in DOMAIN rows : /\ Result(i) /\ Reconciled(i) /\ rows[i].node = n
                                /\ externalPort'[n] \in rows[i].ports
<1>0. externalPort' # externalPort
  OBVIOUS
<1>1. PICK i \in DOMAIN rows : Result(i) \/ DeadlineExceeded(i)
  BY <1>0 DEF Next, Claim, HelloReads, HelloWrites, CreatePlan, PlanWrites, Retry, RetryWrites,
     Publish, PublishWrites, PlanExpires, GetPlan, Provision, Reconfigure, StartNode,
     CertificateExpires, RenewalReads, RenewalBlocks, RenewalQueues, TransactionReads,
     TransactionWrites, ApplyWrites, nodeVars, hostVars
<1>2. Result(i) /\ Reconciled(i)
  BY <1>0, <1>1 DEF Result, DeadlineExceeded, Succeeds, Discovered, Certified, Applied,
     ApplyWrites, NothingElse, Fails, RollsBack, hostVars
<1>3. PICK port \in rows[i].ports : externalPort' = [externalPort EXCEPT ![rows[i].node] = port]
  BY <1>2 DEF Reconciled
<1>4. externalPort \in [Nodes -> Ports]
  BY DEF Base, TypeOK
<1>5. rows[i].node = n /\ externalPort'[n] = port
  BY <1>3, <1>4
<1> QED
  BY <1>2, <1>3, <1>5

LEMMA PublicationChanges ==
  ASSUME Base, Next, NEW n \in Nodes, isPublished'[n] # isPublished[n]
  PROVE  /\ isPublished'[n] /\ ~isPublished[n]
         /\ \/ \E S \in SUBSET Nodes : Publish(S) /\ n \in S
            \/ TransactionWrites /\ open.what = "publish" /\ n \in open.nodes
<1>0. isPublished' # isPublished
  OBVIOUS
<1>1. \/ \E S \in SUBSET Nodes : Publish(S)
      \/ \E i \in DOMAIN rows : Result(i) \/ DeadlineExceeded(i)
      \/ TransactionWrites
  BY <1>0 DEF Next, Claim, HelloReads, HelloWrites, CreatePlan, PlanWrites, Retry, RetryWrites,
     PlanExpires, GetPlan, Provision, Reconfigure, StartNode,
     CertificateExpires, RenewalReads, RenewalBlocks, RenewalQueues, TransactionReads,
     nodeVars, hostVars
<1>2. ~\E i \in DOMAIN rows : Result(i) \/ DeadlineExceeded(i)
  BY <1>0 DEF Result, DeadlineExceeded, Succeeds, Discovered, Reconciled, Certified, Applied,
     ApplyWrites, NothingElse, Fails, RollsBack, hostVars
<1>3. ASSUME NEW S \in SUBSET Nodes, Publish(S)
      PROVE  n \in S /\ isPublished'[n] /\ ~isPublished[n]
  <2>1. isPublished' = [m \in Nodes |-> m \in S \/ isPublished[m]]
    BY <1>3 DEF Publish, PublishWrites, PublishRead
  <2> QED
    BY <2>1 DEF Base, TypeOK
<1>4. ASSUME TransactionWrites
      PROVE  /\ open.what = "publish" /\ n \in open.nodes
             /\ isPublished'[n] /\ ~isPublished[n]
  <2>1. open.what = "publish" /\ PublishWrites(open)
    BY <1>0, <1>4 DEF TransactionWrites, PlanWrites, RetryWrites, ApplyWrites, nodeVars, hostVars
  <2>2. isPublished' = [m \in Nodes |-> m \in open.nodes \/ isPublished[m]]
    BY <2>1 DEF PublishWrites
  <2> QED
    BY <2>1, <2>2 DEF Base, TypeOK
<1> QED
  BY <1>1, <1>2, <1>3, <1>4

LEMMA OpenFitsKept ==
  ASSUME Base, Next
  PROVE  OpenFits'
<1>0. open \in Transaction /\ managed \subseteq managed' /\ OpenFits
  BY ManagedGrows DEF Base, TypeOK
<1>1. CASE Overtakes
  <2>1. /\ open'.what = open.what
        /\ open.what # "none" => ~open.overtaken /\ open'.overtaken
        /\ open.what \in {"plan", "retry", "publish"} => open'.nodes = open.nodes
        /\ open.what = "retry" => open'.ports = open.ports
        /\ open.what = "apply" => open'.node = open.node /\ open'.rev = open.rev
    BY <1>1, OvertakenStays DEF Base
  <2>2. ASSUME open.what = "retry", NEW n \in open.nodes
        PROVE  open'.ports[n] = RetryPorts(n)'
    <3>1. /\ n \in Nodes /\ open.ports[n] = RetryPorts(n) /\ Retryable(n)
      BY <1>0, <2>1, <2>2 DEF OpenFits, Transaction
    <3>2. externalPort'[n] = externalPort[n]
      <4> SUFFICES ASSUME externalPort'[n] # externalPort[n] PROVE FALSE
        OBVIOUS
      <4>1. \E i \in DOMAIN rows : rows[i].node = n
        BY <3>1, PortChanges
      <4> QED
        BY <3>1, <4>1 DEF Retryable, Idle, Active
    <3>3. isPublished'[n] = isPublished[n]
      <4> SUFFICES ASSUME isPublished'[n] # isPublished[n] PROVE FALSE
        OBVIOUS
      <4>1. \E S \in SUBSET Nodes : Publish(S) /\ n \in S
        BY <2>2, <3>1, PublicationChanges
      <4> QED
        BY <3>1, <4>1 DEF Retryable, Publish, CanPublish, Publishable
    <3> QED
      BY <2>1, <2>2, <3>1, <3>2, <3>3 DEF RetryPorts
  <2> QED
    BY <1>0, <2>1, <2>2 DEF OpenFits
<1>2. CASE TransactionReads
  <2>1. UNCHANGED <<externalPort, isPublished, managed>>
    BY <1>2 DEF TransactionReads, nodeVars, hostVars
  <2>2. ASSUME NEW S \in SUBSET Nodes, open' = PlanRead(S)
        PROVE  OpenFits'
    BY <2>2 DEF OpenFits, PlanRead
  <2>3. ASSUME NEW S \in SUBSET Nodes, CanPublish(S), open' = PublishRead(S)
        PROVE  OpenFits'
    BY <1>0, <2>3 DEF OpenFits, PublishRead, CanPublish
  <2>4. ASSUME NEW S \in SUBSET Nodes, CanRetry(S), open' = RetryRead(S), rows' = rows
        PROVE  OpenFits'
    <3>1. /\ open'.what = "retry" /\ open'.nodes = S /\ S \subseteq managed'
          /\ ~open'.overtaken
          /\ \A n \in S : open'.ports[n] = RetryPorts(n)
      BY <1>0, <2>4 DEF RetryRead, CanRetry
    <3>2. \A n \in S : RetryPorts(n)' = RetryPorts(n)
      BY <2>1 DEF RetryPorts
    <3>3. \A n \in S : lifecycleState'[n] = "FAILED" /\ Active(n)' = {}
      BY <1>2, <2>4 DEF TransactionReads, CanRetry, Retryable, Idle, Active, nodeVars
    <3>4. \A n \in S : Retryable(n)'
      BY <3>1, <3>3 DEF Retryable, Idle
    <3> QED
      BY <3>1, <3>2, <3>4 DEF OpenFits
  <2>5. ASSUME NEW i \in DOMAIN rows, rows[i].kind = "apply_config", open' = ApplyRead(i)
        PROVE  OpenFits'
    <3>1. rows[i].node \in managed /\ rows[i].rev > 0
      BY <2>5, RowType DEF Fits
    <3> QED
      BY <1>0, <2>5, <3>1 DEF OpenFits, ApplyRead
  <2> QED
    BY <1>2, <2>2, <2>3, <2>4, <2>5 DEF TransactionReads
<1>3. CASE TransactionWrites
  BY <1>3 DEF TransactionWrites, NoTransaction, OpenFits
<1> QED
  BY <1>1, <1>2, <1>3, StepOvertakes

LEMMA BaseInit ==
  ASSUME Init
  PROVE  Base
<1>1. TypeOK
  <2>1. \A n \in Nodes : (IF n \in CertNodes THEN "PENDING" ELSE "NOT_REQUIRED") \in CertStatuses
    BY DEF CertStatuses
  <2>2. /\ requests \in 0 .. MaxRequests /\ faults \in 0 .. MaxFaults
        /\ desiredRevision \in [Nodes -> 0 .. MaxRevision]
        /\ appliedRevision \in [Nodes -> 0 .. MaxRevision]
    BY BoundsAssumption DEF Init
  <2>3. rows \in Seq(Row) /\ open \in Transaction /\ jobs \subseteq Job
    BY DEF Init, NoTransaction, Transaction
  <2>4. /\ planStatus \in [Plans -> PlanStatuses] /\ lifecycleState \in [Nodes -> LifecycleStates]
        /\ certificateStatus \in [Nodes -> CertStatuses] /\ machineStatus \in MachineStatuses
    BY <2>1 DEF Init, PlanStatuses, LifecycleStates, MachineStatuses
  <2> QED
    BY <2>2, <2>3, <2>4 DEF Init, TypeOK
<1>2. RowsFit /\ JobsFit /\ RenewalFits /\ OpenFits
  BY DEF Init, RowsFit, JobsFit, RenewalFits, OpenFits, NoTransaction
<1> QED
  BY <1>1, <1>2 DEF Base

LEMMA BaseKept ==
  ASSUME Base, [Next]_vars
  PROVE  Base'
<1>1. CASE Next
  <2>1. TypeOK'
    BY <1>1, DataTypesKept, OutrunTypeKept, OpenTypesKept, RowsFitKept DEF TypeOK, DataTypes
  <2> QED
    BY <1>1, <2>1, RowsFitKept, JobsFitKept, OpenFitsKept DEF Base
<1>2. CASE UNCHANGED vars
  <2>1. TypeOK'
    BY <1>2 DEF vars, Base, TypeOK
  <2>2. RowsFit' /\ JobsFit' /\ RenewalFits'
    BY <1>2 DEF vars, Base, RowsFit, Fits, JobsFit, RenewalFits
  <2>3. OpenFits'
    <3>1. \A n : RetryPorts(n)' = RetryPorts(n) /\ Retryable(n)' = Retryable(n)
      BY <1>2 DEF vars, RetryPorts, Retryable, Idle, Active
    <3> QED
      BY <1>2, <3>1 DEF vars, Base, OpenFits
  <2> QED
    BY <2>1, <2>2, <2>3 DEF Base
<1> QED
  BY <1>1, <1>2

(* Every variable of a Machine's provisioning keeps its type; what is      *)
(* queued, asked for or being decided is about Nodes that exist.           *)
THEOREM BaseHolds == Spec => []Base
<1>1. Init => Base
  BY BaseInit
<1>2. Base /\ [Next]_vars => Base'
  BY BaseKept
<1> QED
  BY <1>1, <1>2, PTL DEF Spec

(* Every variable keeps its type: no command, job or transaction names a   *)
(* Node, plan, revision or port that does not exist.                       *)
THEOREM ProvisioningTypes == Spec => []TypeOK
<1>1. Base => TypeOK
  BY DEF Base
<1> QED
  BY <1>1, BaseHolds, PTL

-----------------------------------------------------------------------------
(* Hosts.                                                                  *)

Validated(n) == lifecycleState[n] \in {"CONFIG_VALIDATED", "PUBLISHED"}

(* A Node that was validated or published exists and has a configuration;  *)
(* a completion that read a published Node is of a published Node.         *)
ValidatedHasApplied ==
    \A n \in Nodes : isPublished[n] \/ Validated(n) => n \in managed /\ appliedRevision[n] > 0

OpenApplyFits ==
    /\ open.what = "apply" /\ open.published => isPublished[open.node]
    /\ open.what = "publish" => \A n \in open.nodes : appliedRevision[n] > 0

HostInv == ValidatedHasApplied /\ OpenApplyFits /\ EnabledHostIsServed

(* The completion of a configuration. *)
Completes(n, t) == t.node = n /\ t.rev > 0 /\ n \in managed /\ ApplyWrites(t)

LEMMA AppliedCompletes ==
  ASSUME Base, NEW i \in DOMAIN rows, Applied(i)
  PROVE  /\ Completes(rows[i].node, ApplyRead(i))
         /\ rows[i].node \in Nodes
         /\ ApplyRead(i).published = isPublished[rows[i].node]
         /\ ApplyRead(i).ready = CertificateReady(rows[i].node)
<1>1. rows[i].kind = "apply_config" /\ ApplyWrites(ApplyRead(i))
  BY DEF Applied
<1>2. rows[i].rev > 0 /\ rows[i].node \in managed /\ rows[i].node \in Nodes
  BY <1>1, RowType DEF Fits, Base, TypeOK
<1> QED
  BY <1>1, <1>2 DEF Completes, ApplyRead

LEMMA OpenCompletes ==
  ASSUME Base, TransactionWrites, open.what = "apply"
  PROVE  Completes(open.node, open) /\ open.node \in Nodes
BY DEF TransactionWrites, Completes, Base, OpenFits, TypeOK

(* What a step makes of a Node it leaves validated: it was so before, or   *)
(* is published, or has just completed a configuration.                    *)
StaysValidated(n) ==
    \/ Validated(n)
    \/ isPublished[n]
    \/ \E i \in DOMAIN rows : /\ Result(i) \/ DeadlineExceeded(i)
                             /\ Applied(i) /\ rows[i].node = n
    \/ TransactionWrites /\ open.what = "apply" /\ open.node = n

LEMMA ValidatedChanges ==
  ASSUME Base, Next, NEW n \in Nodes, Validated(n)'
  PROVE  StaysValidated(n)
<1>0. lifecycleState \in [Nodes -> LifecycleStates]
  BY DEF Base, TypeOK
<1>1. CASE lifecycleState'[n] = lifecycleState[n]
  BY <1>1 DEF Validated, StaysValidated
<1>2. lifecycleState'[n] \in {"CONFIG_VALIDATED", "PUBLISHED"}
  BY DEF Validated
<1>4. ASSUME NEW S, \/ lifecycleState' = [m \in Nodes |-> IF m \in S THEN "PROVISIONING"
                                                                    ELSE lifecycleState[m]]
                    \/ lifecycleState' = [m \in Nodes |-> IF m \in S THEN "FAILED"
                                                                    ELSE lifecycleState[m]]
      PROVE  StaysValidated(n)
  BY <1>2, <1>4 DEF Validated, StaysValidated
<1>5. ASSUME NEW m, \/ lifecycleState' = [lifecycleState EXCEPT ![m] = "PROVISIONING"]
                    \/ lifecycleState' = [lifecycleState EXCEPT ![m] = "FAILED"]
                    \/ lifecycleState' = [lifecycleState EXCEPT ![m] = KeptState(m)]
      PROVE  StaysValidated(n)
  BY <1>0, <1>2, <1>5 DEF Validated, KeptState, StaysValidated
<1>6. ASSUME NEW i \in DOMAIN rows, Result(i) \/ DeadlineExceeded(i)
      PROVE  StaysValidated(n)
  <2>1. CASE Succeeds(i)
    <3>1. CASE Applied(i)
      <4>1. CASE rows[i].node = n
        BY <1>6, <3>1, <4>1 DEF StaysValidated
      <4>2. CASE rows[i].node # n
        <5>1. lifecycleState'[n] = lifecycleState[n]
          BY <1>0, <3>1, <4>2 DEF Applied, ApplyRead, ApplyWrites
        <5> QED
          BY <1>1, <5>1
      <4> QED
        BY <4>1, <4>2
    <3>2. CASE ~Applied(i)
      BY <1>1, <2>1, <3>2 DEF Succeeds, Discovered, Reconciled, Certified, NothingElse
    <3> QED
      BY <3>1, <3>2
  <2>2. CASE Fails(i) \/ RollsBack(i)
    <3>1. CASE CertificateFails(i)
      <4>1. lifecycleState'[n] = lifecycleState[n] \/ isPublished[n]
        BY <1>0, <1>2, <3>1 DEF CertificateFails
      <4> QED
        BY <1>1, <4>1 DEF StaysValidated
    <3>2. CASE DiscoveryFails(i)
      BY <1>1, <3>2 DEF DiscoveryFails
    <3>3. CASE MachineFails(i)
      BY <1>4, <3>3 DEF MachineFails
    <3>4. CASE ClosedApplyFails(i) \/ InstanceFails(i) \/ ApplyRolledBack(i)
      BY <1>5, <3>4 DEF ClosedApplyFails, InstanceFails, ApplyRolledBack
    <3> QED
      BY <2>2, <3>1, <3>2, <3>3, <3>4 DEF Fails, RollsBack
  <2> QED
    BY <1>6, <2>1, <2>2 DEF Result, DeadlineExceeded
<1>7. CASE TransactionWrites
  <2>0. CASE open.what = "apply" /\ open.node = n
    BY <1>7, <2>0 DEF StaysValidated
  <2>1. CASE open.what = "apply" /\ open.node # n
    <3>1. lifecycleState'[n] = lifecycleState[n]
      BY <1>0, <1>7, <2>1 DEF TransactionWrites, ApplyWrites
    <3> QED
      BY <1>1, <3>1
  <2>2. CASE open.what = "plan"
    BY <1>1, <1>7, <2>2 DEF TransactionWrites, PlanWrites, nodeVars
  <2>3. CASE open.what = "retry"
    BY <1>4, <1>7, <2>3 DEF TransactionWrites, RetryWrites
  <2>4. CASE open.what = "publish"
    BY <1>4, <1>7, <2>4 DEF TransactionWrites, PublishWrites
  <2> QED
    BY <1>7, <2>0, <2>1, <2>2, <2>3, <2>4 DEF TransactionWrites
<1>8. ASSUME NEW S \in SUBSET Nodes, CreatePlan(S)
      PROVE  StaysValidated(n)
  BY <1>1, <1>8 DEF CreatePlan, PlanWrites, nodeVars
<1>9. ASSUME NEW S \in SUBSET Nodes, Retry(S)
      PROVE  StaysValidated(n)
  BY <1>4, <1>9 DEF Retry, RetryWrites
<1>10. ASSUME NEW S \in SUBSET Nodes, Publish(S)
       PROVE  StaysValidated(n)
  BY <1>4, <1>10 DEF Publish, PublishWrites
<1>11. ASSUME NEW j \in Job, StartNode(j)
       PROVE  StaysValidated(n)
  BY <1>5, <1>11 DEF StartNode, QueueConfig, QueueFails
<1>12. CASE \/ Claim \/ HelloReads \/ HelloWrites \/ TransactionReads
            \/ RenewalBlocks \/ RenewalQueues
  BY <1>1, <1>12 DEF Claim, HelloReads, HelloWrites, TransactionReads, RenewalBlocks,
     RenewalQueues, nodeVars
<1>13. ASSUME NEW m \in Nodes, CertificateExpires(m) \/ RenewalReads(m)
       PROVE  StaysValidated(n)
  BY <1>1, <1>13 DEF CertificateExpires, RenewalReads, nodeVars
<1>14. ASSUME NEW m \in Nodes, NEW closed \in BOOLEAN, Reconfigure(m, closed)
       PROVE  StaysValidated(n)
  BY <1>1, <1>14 DEF Reconfigure, nodeVars
<1>15. ASSUME NEW p \in Plans, PlanExpires(p) \/ GetPlan(p) \/ Provision(p)
       PROVE  StaysValidated(n)
  BY <1>1, <1>15 DEF PlanExpires, GetPlan, Provision, nodeVars
<1> QED
  BY <1>6, <1>7, <1>8, <1>9, <1>10, <1>11, <1>12, <1>13, <1>14, <1>15 DEF Next

LEMMA AppliedGrows ==
  ASSUME Base, Next, NEW n \in Nodes, appliedRevision[n] > 0
  PROVE  appliedRevision'[n] > 0
<1>0. appliedRevision \in [Nodes -> 0 .. MaxRevision]
  BY DEF Base, TypeOK
<1>1. CASE appliedRevision' = appliedRevision
  BY <1>1
<1>2. ASSUME NEW m, NEW t, Completes(m, t)
      PROVE  appliedRevision'[n] > 0
  BY <1>0, <1>2 DEF Completes, ApplyWrites
<1>3. ASSUME NEW i \in DOMAIN rows, Result(i) \/ DeadlineExceeded(i)
      PROVE  appliedRevision' = appliedRevision \/ Applied(i)
  BY <1>3 DEF Result, DeadlineExceeded, Succeeds, Discovered, Reconciled, Certified,
     NothingElse, Fails, RollsBack
<1>4. CASE TransactionWrites
  <2>1. appliedRevision' = appliedRevision \/ open.what = "apply"
    BY <1>4 DEF TransactionWrites, PlanWrites, RetryWrites, PublishWrites, nodeVars
  <2> QED
    BY <1>1, <1>2, <1>4, <2>1, OpenCompletes
<1>5. \/ appliedRevision' = appliedRevision
      \/ \E i \in DOMAIN rows : Result(i) \/ DeadlineExceeded(i)
      \/ TransactionWrites
  BY DEF Next, Claim, HelloReads, HelloWrites, CreatePlan, PlanWrites, Retry, RetryWrites,
     Publish, PublishWrites, PlanExpires, GetPlan, Provision, Reconfigure, StartNode,
     CertificateExpires, RenewalReads, RenewalBlocks, RenewalQueues, TransactionReads, nodeVars
<1> QED
  BY <1>1, <1>2, <1>3, <1>4, <1>5, AppliedCompletes

LEMMA PublishedStays ==
  ASSUME Base, Next, NEW n \in Nodes, isPublished[n]
  PROVE  isPublished'[n]
BY PublicationChanges

(* What a step makes of a Host it leaves enabled: it was so before and is  *)
(* not blocked now, or its Node is published and it is not blocked after   *)
(* what was read.                                                          *)
StaysEnabled(n) ==
    \/ hostEnabled[n] /\ (certificateBlocked'[n] => certificateBlocked[n])
    \/ isPublished[n] /\ (certificateBlocked'[n] => n \in raced')

LEMMA HostChanges ==
  ASSUME Base, OpenApplyFits, Next, NEW n \in Nodes, hostEnabled'[n]
  PROVE  StaysEnabled(n)
<1>0. /\ hostEnabled \in [Nodes -> BOOLEAN] /\ certificateBlocked \in [Nodes -> BOOLEAN]
      /\ isPublished \in [Nodes -> BOOLEAN]
  BY DEF Base, TypeOK
<1>1. CASE UNCHANGED <<hostEnabled, certificateBlocked>>
  BY <1>1 DEF StaysEnabled
<1>2. ASSUME NEW m, NEW b, hostEnabled' = [hostEnabled EXCEPT ![m] = hostEnabled[m] /\ b],
             certificateBlocked' = certificateBlocked
      PROVE  StaysEnabled(n)
  BY <1>0, <1>2 DEF StaysEnabled
<1>3. ASSUME NEW i \in DOMAIN rows, Result(i) \/ DeadlineExceeded(i)
      PROVE  StaysEnabled(n)
  <2>1. CASE Certified(i)
    <3>1. CASE rows[i].node = n
      BY <1>0, <2>1, <3>1 DEF Certified, StaysEnabled
    <3>2. CASE rows[i].node # n
      BY <1>0, <2>1, <3>2 DEF Certified, StaysEnabled
    <3> QED
      BY <3>1, <3>2
  <2>2. CASE Applied(i)
    <3>1. /\ ApplyRead(i).node = rows[i].node /\ ApplyWrites(ApplyRead(i))
          /\ ApplyRead(i).published = isPublished[rows[i].node]
          /\ ApplyRead(i).ready = CertificateReady(rows[i].node)
      BY <2>2 DEF Applied, ApplyRead
    <3>2. certificateBlocked' = certificateBlocked
      BY <3>1 DEF ApplyWrites, certVars
    <3>3. hostEnabled'[n] = hostEnabled[n] \/ rows[i].node = n
      BY <1>0, <3>1 DEF ApplyWrites
    <3>4. CASE rows[i].node = n /\ ~hostEnabled[n]
      <4>1. isPublished[n] /\ CertificateReady(n)
        BY <1>0, <3>1, <3>4 DEF ApplyWrites
      <4> QED
        BY <3>2, <4>1 DEF CertificateReady, StaysEnabled
    <3> QED
      BY <3>2, <3>3, <3>4 DEF StaysEnabled
  <2>3. CASE CertificateFails(i)
    <3>1. CASE rows[i].node = n
      BY <1>0, <2>3, <3>1 DEF CertificateFails, StaysEnabled
    <3>2. CASE rows[i].node # n
      BY <1>0, <2>3, <3>2 DEF CertificateFails, StaysEnabled
    <3> QED
      BY <3>1, <3>2
  <2>4. CASE InstanceFails(i)
    <3>1. /\ hostEnabled' = [hostEnabled EXCEPT ![rows[i].node] =
                               hostEnabled[rows[i].node] /\ rows[i].kind # "apply_config"]
          /\ certificateBlocked' = certificateBlocked
      BY <2>4 DEF InstanceFails, certVars
    <3> QED
      BY <3>1, <1>2
  <2>5. CASE ClosedApplyFails(i)
    BY <1>0, <2>5 DEF ClosedApplyFails, certVars, StaysEnabled
  <2>6. CASE \/ Discovered(i) \/ Reconciled(i) \/ NothingElse(i) \/ DiscoveryFails(i)
             \/ MachineFails(i) \/ RollsBack(i)
    BY <1>1, <2>6 DEF Discovered, Reconciled, NothingElse, DiscoveryFails, MachineFails,
       RollsBack, ApplyRolledBack, hostVars, certVars
  <2> QED
    BY <1>3, <2>1, <2>2, <2>3, <2>4, <2>5, <2>6 DEF Result, DeadlineExceeded, Succeeds, Fails
<1>4. CASE RenewalBlocks
  <2>1. CASE UNCHANGED <<hostEnabled, certificateBlocked>>
    BY <1>1, <2>1
  <2>2. CASE /\ certificateBlocked' = [certificateBlocked EXCEPT ![renewal.node] = TRUE]
             /\ hostEnabled' = [hostEnabled EXCEPT ![renewal.node] = FALSE]
    BY <1>0, <2>2 DEF StaysEnabled
  <2> QED
    BY <1>4, <2>1, <2>2 DEF RenewalBlocks
<1>5. CASE TransactionWrites
  <2>1. CASE open.what = "apply"
    <3>1. /\ ApplyWrites(open) /\ open.node \in Nodes
          /\ raced' = raced \cup (IF open.ready = CertificateReady(open.node) THEN {}
                                                                         ELSE {open.node})
      BY <1>5, <2>1, OpenCompletes DEF TransactionWrites, Changed
    <3>2. certificateBlocked' = certificateBlocked
      BY <3>1 DEF ApplyWrites, certVars
    <3>3. hostEnabled'[n] = hostEnabled[n] \/ open.node = n
      BY <1>0, <3>1 DEF ApplyWrites
    <3>4. CASE open.node = n /\ ~hostEnabled[n]
      <4>1. open.published /\ open.ready
        BY <1>0, <3>1, <3>4 DEF ApplyWrites
      <4>2. isPublished[n]
        BY <2>1, <3>4, <4>1 DEF OpenApplyFits
      <4>3. open.ready \in BOOLEAN
        BY <2>1 DEF Base, TypeOK, Transaction
      <4>4. CASE open.ready = CertificateReady(n)
        BY <3>2, <4>1, <4>2, <4>4 DEF CertificateReady, StaysEnabled
      <4>5. CASE open.ready # CertificateReady(n)
        BY <3>1, <3>4, <4>2, <4>5 DEF StaysEnabled
      <4> QED
        BY <4>4, <4>5
    <3> QED
      BY <3>2, <3>3, <3>4 DEF StaysEnabled
  <2>2. CASE open.what # "apply"
    BY <1>1, <1>5, <2>2 DEF TransactionWrites, PlanWrites, RetryWrites, PublishWrites,
       nodeVars, hostVars, certVars
  <2> QED
    BY <2>1, <2>2
<1>6. ASSUME NEW j \in Job, StartNode(j)
      PROVE  StaysEnabled(n)
  <2>1. certificateBlocked' = certificateBlocked
    BY <1>6 DEF StartNode, certVars
  <2>2. hostEnabled' = hostEnabled \/ hostEnabled' = [hostEnabled EXCEPT ![j.node] = FALSE]
    BY <1>6 DEF StartNode, QueueConfig, QueueFails
  <2> QED
    BY <1>0, <2>1, <2>2 DEF StaysEnabled
<1>7. \/ UNCHANGED <<hostEnabled, certificateBlocked>>
      \/ \E i \in DOMAIN rows : Result(i) \/ DeadlineExceeded(i)
      \/ \E j \in Job : StartNode(j)
      \/ RenewalBlocks
      \/ TransactionWrites
  BY ZenonT(60) DEF Next, Claim, HelloReads, HelloWrites, CreatePlan, PlanWrites, Retry, RetryWrites,
     Publish, PublishWrites, PlanExpires, GetPlan, Provision, Reconfigure,
     CertificateExpires, RenewalReads, RenewalQueues, TransactionReads, nodeVars, hostVars,
     certVars
<1> QED
  BY <1>1, <1>3, <1>4, <1>5, <1>6, <1>7

LEMMA HostInvKept ==
  ASSUME Base, HostInv, Next
  PROVE  HostInv'
<1>1. managed \subseteq managed' /\ raced \subseteq raced'
  BY ManagedGrows, OpenTypesKept
<1>2. \A n \in Nodes : isPublished[n] => isPublished'[n]
  BY PublishedStays
<1>3. \A n \in Nodes : appliedRevision[n] > 0 => appliedRevision'[n] > 0
  BY AppliedGrows
<1>4. ASSUME NEW n \in Nodes, isPublished[n] \/ Validated(n)
      PROVE  n \in managed' /\ appliedRevision'[n] > 0
  BY <1>1, <1>3, <1>4 DEF HostInv, ValidatedHasApplied
<1>5. ASSUME NEW n \in Nodes, isPublished'[n] \/ Validated(n)'
      PROVE  n \in managed' /\ appliedRevision'[n] > 0
  <2>1. CASE isPublished'[n] /\ ~isPublished[n]
    <3>1. CASE \E S \in SUBSET Nodes : Publish(S) /\ n \in S
      <4>1. Validated(n)
        BY <3>1 DEF Publish, CanPublish, Publishable, Validated
      <4> QED
        BY <4>1, <1>4
    <3>2. CASE TransactionWrites /\ open.what = "publish" /\ n \in open.nodes
      <4>1. n \in managed /\ appliedRevision[n] > 0
        BY <3>2 DEF Base, OpenFits, HostInv, OpenApplyFits
      <4> QED
        BY <1>1, <1>3, <4>1
    <3> QED
      BY <2>1, <3>1, <3>2, PublicationChanges
  <2>2. CASE isPublished[n]
    BY <1>4, <2>2
  <2>3. CASE Validated(n)' /\ ~isPublished'[n]
    <3>1. CASE Validated(n) \/ isPublished[n]
      BY <1>4, <3>1
    <3>2. ASSUME NEW i \in DOMAIN rows, Applied(i), rows[i].node = n
          PROVE  n \in managed' /\ appliedRevision'[n] > 0
      <4>1. Completes(n, ApplyRead(i))
        BY <3>2, AppliedCompletes
      <4> QED
        BY <1>1, <4>1 DEF Completes, ApplyWrites, Base, TypeOK
    <3>3. CASE TransactionWrites /\ open.what = "apply" /\ open.node = n
      <4>1. Completes(n, open)
        BY <3>3, OpenCompletes
      <4> QED
        BY <1>1, <4>1 DEF Completes, ApplyWrites, Base, TypeOK
    <3> QED
      BY <2>3, <3>1, <3>2, <3>3, ValidatedChanges DEF StaysValidated
  <2> QED
    BY <1>5, <2>1, <2>2, <2>3
<1>6. OpenApplyFits'
  <2>1. CASE Overtakes
    <3>1. /\ open'.what = open.what
          /\ open.what \in {"plan", "retry", "publish"} => open'.nodes = open.nodes
          /\ open.what = "apply" => open'.node = open.node /\ open'.published = open.published
      BY <2>1, OvertakenStays DEF Base
    <3>2. /\ open.what = "publish" => open.nodes \subseteq Nodes
          /\ open.what = "apply" => open.node \in Nodes
      BY DEF Base, TypeOK, Transaction
    <3> QED
      BY <1>2, <1>3, <3>1, <3>2 DEF HostInv, OpenApplyFits
  <2>2. CASE TransactionReads
    <3>1. UNCHANGED <<isPublished, appliedRevision>>
      BY <2>2 DEF TransactionReads, nodeVars, hostVars
    <3>2. ASSUME NEW S \in SUBSET Nodes, open' = PlanRead(S) \/ open' = RetryRead(S)
          PROVE  OpenApplyFits'
      BY <3>2 DEF OpenApplyFits, PlanRead, RetryRead
    <3>3. ASSUME NEW S \in SUBSET Nodes, CanPublish(S), open' = PublishRead(S)
          PROVE  OpenApplyFits'
      <4>1. \A n \in S : appliedRevision[n] > 0
        BY <3>3 DEF CanPublish, Publishable, Validated, HostInv, ValidatedHasApplied
      <4> QED
        BY <3>1, <3>3, <4>1 DEF OpenApplyFits, PublishRead
    <3>4. ASSUME NEW i \in DOMAIN rows, open' = ApplyRead(i)
          PROVE  OpenApplyFits'
      BY <3>1, <3>4 DEF OpenApplyFits, ApplyRead
    <3> QED
      BY <2>2, <3>2, <3>3, <3>4 DEF TransactionReads
  <2>3. CASE TransactionWrites
    BY <2>3 DEF TransactionWrites, NoTransaction, OpenApplyFits
  <2> QED
    BY <2>1, <2>2, <2>3, StepOvertakes
<1>7. ASSUME NEW n \in Nodes, hostEnabled'[n]
      PROVE  /\ n \in managed' /\ isPublished'[n] /\ appliedRevision'[n] > 0
             /\ certificateBlocked'[n] => n \in raced'
  <2>1. StaysEnabled(n)
    BY <1>7, HostChanges DEF HostInv
  <2>2. isPublished[n] /\ (certificateBlocked'[n] => n \in raced')
    BY <1>1, <2>1 DEF StaysEnabled, HostInv, EnabledHostIsServed
  <2> QED
    BY <1>2, <1>4, <2>2
<1> QED
  BY <1>5, <1>6, <1>7 DEF HostInv, ValidatedHasApplied, EnabledHostIsServed

(* A Host is enabled only for a Node that exists, is published and has     *)
(* applied a configuration, and not while its certificate is blocked,      *)
(* unless it was blocked under the transaction that enabled it.            *)
THEOREM OnlyServedHostsAreEnabled == Spec => []EnabledHostIsServed
<1>1. Init => HostInv
  BY DEF Init, HostInv, ValidatedHasApplied, Validated, OpenApplyFits, NoTransaction,
     EnabledHostIsServed
<1>2. Base /\ HostInv /\ [Next]_vars => HostInv'
  <2>1. CASE UNCHANGED vars
    BY <2>1 DEF vars, HostInv, ValidatedHasApplied, Validated, OpenApplyFits,
       EnabledHostIsServed
  <2> QED
    BY <2>1, HostInvKept
<1>3. HostInv => EnabledHostIsServed
  BY DEF HostInv
<1> QED
  BY <1>1, <1>2, <1>3, BaseHolds, PTL DEF Spec

-----------------------------------------------------------------------------
(* The Machine's status.                                                   *)

Whole(n) == isPublished[n] /\ lifecycleState[n] # "FAILED"

LEMMA WholeAfterApply ==
  ASSUME Base, PublishedMachineIsWhole, NEW t, t.node \in Nodes, ApplyWrites(t),
         managed' = managed, clobbered' = clobbered
  PROVE  PublishedMachineIsWhole'
<1>1. SUFFICES ASSUME machineStatus' = "PUBLISHED", ~clobbered, NEW n \in managed
               PROVE  Whole(n)'
  BY DEF PublishedMachineIsWhole, Whole
<1>2. isPublished' = isPublished /\ n \in Nodes
  BY DEF ApplyWrites, Base, TypeOK
<1>3. CASE \E m \in managed : Pending(m)
  <2>1. machineStatus = "PUBLISHED"
    BY <1>1, <1>3 DEF ApplyWrites
  <2>2. isPublished[n] /\ lifecycleState[n] # "FAILED"
    BY <1>1, <2>1 DEF PublishedMachineIsWhole
  <2>3. lifecycleState'[n] = lifecycleState[n] \/ lifecycleState'[n] # "FAILED"
    <3>1. lifecycleState' = [lifecycleState EXCEPT ![t.node] =
                              IF ~t.caughtUp THEN "PROVISIONING"
                              ELSE IF t.published THEN "PUBLISHED" ELSE "CONFIG_VALIDATED"]
      BY DEF ApplyWrites
    <3> QED
      BY <1>2, <3>1 DEF Base, TypeOK
  <2> QED
    BY <1>2, <2>2, <2>3 DEF Whole
<1>4. CASE ~\E m \in managed : Pending(m)
  <2>1. StatusAfterApply = "PUBLISHED"
    BY <1>1, <1>4 DEF ApplyWrites
  <2>2. ~Failed(n) /\ isPublished[n]
    BY <2>1 DEF StatusAfterApply
  <2> QED
    BY <1>2, <2>2 DEF Failed, Whole
<1> QED
  BY <1>3, <1>4

LEMMA PublishedMachineKept ==
  ASSUME Base, PublishedMachineIsWhole, Next
  PROVE  PublishedMachineIsWhole'
<1>0. managed \subseteq Nodes /\ lifecycleState \in [Nodes -> LifecycleStates]
  BY DEF Base, TypeOK
<1>1. CASE machineStatus' # "PUBLISHED"
  BY <1>1 DEF PublishedMachineIsWhole
<1>2. CASE UNCHANGED <<machineStatus, clobbered, managed, isPublished, lifecycleState>>
  BY <1>2 DEF PublishedMachineIsWhole
<1>3. CASE HelloWrites
  BY <1>3 DEF HelloWrites, PublishedMachineIsWhole, nodeVars, hostVars
<1>4. ASSUME NEW i \in DOMAIN rows, Result(i) \/ DeadlineExceeded(i)
      PROVE  PublishedMachineIsWhole'
  <2>1. managed' = managed /\ clobbered' = clobbered
    BY <1>4 DEF Result, DeadlineExceeded, Frame
  <2>2. CASE Applied(i)
    <3>1. Completes(rows[i].node, ApplyRead(i)) /\ rows[i].node \in Nodes
      BY <2>2, AppliedCompletes
    <3> QED
      BY <2>1, <3>1, WholeAfterApply DEF Completes
  <2>3. CASE Reconciled(i) \/ Certified(i) \/ NothingElse(i)
    BY <1>2, <2>1, <2>3 DEF Reconciled, Certified, NothingElse, hostVars
  <2>4. CASE Discovered(i)
    BY <1>1, <1>2, <2>1, <2>4 DEF Discovered, hostVars
  <2>5. CASE Fails(i) \/ RollsBack(i)
    <3>1. \A n : StatusAfterFailure(n) # "PUBLISHED"
      BY DEF StatusAfterFailure
    <3> QED
      BY <1>1, <2>5, <3>1 DEF Fails, RollsBack, DiscoveryFails, ClosedApplyFails, CertificateFails,
         InstanceFails, MachineFails, ApplyRolledBack
  <2> QED
    BY <1>4, <2>2, <2>3, <2>4, <2>5 DEF Result, DeadlineExceeded, Succeeds
<1>5. CASE TransactionWrites
  <2>1. CASE open.what = "apply"
    <3>1. Completes(open.node, open) /\ open.node \in Nodes
      BY <1>5, <2>1, OpenCompletes
    <3>2. managed' = managed /\ clobbered' = clobbered
      BY <1>5, <2>1 DEF TransactionWrites
    <3> QED
      BY <3>1, <3>2, WholeAfterApply DEF Completes
  <2>2. CASE open.what # "apply"
    BY <1>1, <1>5, <2>2 DEF TransactionWrites, PlanWrites, RetryWrites, PublishWrites
  <2> QED
    BY <2>1, <2>2
<1>6. ASSUME NEW j \in Job, StartNode(j)
      PROVE  PublishedMachineIsWhole'
  <2>1. /\ j.node \in Nodes
        /\ UNCHANGED <<managed, isPublished, clobbered>>
    BY <1>6 DEF StartNode, Job
  <2>2. CASE QueueConfig(j.node, j.closed)
    BY <1>0, <2>1, <2>2 DEF QueueConfig, PublishedMachineIsWhole
  <2>3. CASE QueueFails(j.node, j.closed) /\ j.closed
    BY <1>1, <2>3 DEF QueueFails
  <2>4. CASE QueueFails(j.node, j.closed) /\ ~j.closed
    <3>1. /\ machineStatus' = machineStatus
          /\ lifecycleState' = [lifecycleState EXCEPT ![j.node] =
                                  IF isPublished[j.node] THEN "PUBLISHED" ELSE "FAILED"]
      BY <2>4 DEF QueueFails, KeptState
    <3>2. j.node \in managed
      BY <1>6 DEF StartNode, Base, JobsFit
    <3> QED
      BY <1>0, <2>1, <3>1, <3>2 DEF PublishedMachineIsWhole
  <2> QED
    BY <1>6, <2>2, <2>3, <2>4 DEF StartNode
<1>7. ASSUME NEW S \in SUBSET Nodes, CreatePlan(S) \/ Retry(S) \/ Publish(S)
      PROVE  PublishedMachineIsWhole'
  BY <1>1, <1>2, <1>7 DEF CreatePlan, PlanWrites, Retry, RetryWrites, Publish, PublishWrites,
     nodeVars, hostVars, histVars
<1>8. ASSUME NEW p \in Plans, PlanExpires(p) \/ GetPlan(p) \/ Provision(p)
      PROVE  PublishedMachineIsWhole'
  BY <1>1, <1>2, <1>8 DEF PlanExpires, GetPlan, Provision, nodeVars, hostVars, histVars
<1>9. \/ UNCHANGED <<machineStatus, clobbered, managed, isPublished, lifecycleState>>
      \/ HelloWrites
      \/ \E S \in SUBSET Nodes : CreatePlan(S) \/ Retry(S) \/ Publish(S)
      \/ \E p \in Plans : PlanExpires(p) \/ GetPlan(p) \/ Provision(p)
      \/ \E j \in Job : StartNode(j)
      \/ \E i \in DOMAIN rows : Result(i) \/ DeadlineExceeded(i)
      \/ TransactionWrites
  BY DEF Next, Claim, HelloReads, Reconfigure, CertificateExpires, RenewalReads, RenewalBlocks,
     RenewalQueues, TransactionReads, nodeVars, hostVars, histVars
<1> QED
  BY <1>2, <1>3, <1>4, <1>5, <1>6, <1>7, <1>8, <1>9

(* A Machine shown as published has only published Nodes, none of them     *)
(* failed, unless a hello put an older status back.                        *)
THEOREM OnlyWholeMachinesArePublished == Spec => []PublishedMachineIsWhole
<1>1. Init => PublishedMachineIsWhole
  BY DEF Init, PublishedMachineIsWhole
<1>2. Base /\ PublishedMachineIsWhole /\ [Next]_vars => PublishedMachineIsWhole'
  <2>1. CASE UNCHANGED vars
    BY <2>1 DEF vars, PublishedMachineIsWhole
  <2> QED
    BY <2>1, PublishedMachineKept
<1> QED
  BY <1>1, <1>2, BaseHolds, PTL DEF Spec

-----------------------------------------------------------------------------
(* Plans.                                                                  *)

(* The discovery of a plan survives a list of rows that is shortened by    *)
(* positions which are not those of its row.                               *)
Discovers(q, p) == \E i \in DOMAIN q : q[i].kind = "discover_host" /\ q[i].plan = p

LEMMA DiscoveryKept ==
  ASSUME NEW q \in Seq(Row), NEW p, Discovers(q, p), NEW I \in SUBSET DOMAIN q,
         \A i \in DOMAIN q : q[i].kind = "discover_host" /\ q[i].plan = p => i \in I
  PROVE  Discovers(Subsequence(q, I), p)
<1>1. PICK i \in I : q[i].kind = "discover_host" /\ q[i].plan = p
  BY DEF Discovers
<1> DEFINE s == Subsequence(q, I)
<1>2. \E k \in DOMAIN s : s[k] = q[i]
  BY SubsequenceProperties
<1> HIDE DEF s
<1>3. Discovers(s, p)
  BY <1>1, <1>2 DEF Discovers
<1> QED
  BY <1>3 DEF s

LEMMA DiscoveryAppended ==
  ASSUME NEW q \in Seq(Row), NEW p, Discovers(q, p), NEW new \in Seq(Row)
  PROVE  Discovers(q \o new, p)
<1>1. PICK i \in DOMAIN q : q[i].kind = "discover_host" /\ q[i].plan = p
  BY DEF Discovers
<1>2. Len(q) \in Nat /\ Len(new) \in Nat /\ i \in 1 .. Len(q) /\ DOMAIN q = 1 .. Len(q)
  BY LenProperties
<1> DEFINE s == q \o new
<1>3. DOMAIN s = 1 .. Len(q) + Len(new) /\ s[i] = q[i]
  BY <1>2
<1> HIDE DEF s
<1>4. i \in DOMAIN s /\ s[i].kind = "discover_host" /\ s[i].plan = p
  BY <1>1, <1>2, <1>3
<1>5. Discovers(s, p)
  BY <1>4 DEF Discovers
<1> QED
  BY <1>5 DEF s

LEMMA DiscoveryAppendedOne ==
  ASSUME NEW q \in Seq(Row), NEW p, NEW r \in Row,
         \/ Discovers(q, p)
         \/ r.kind = "discover_host" /\ r.plan = p
  PROVE  Discovers(Append(q, r), p)
<1>1. Len(q) \in Nat /\ DOMAIN q = 1 .. Len(q)
  BY LenProperties
<1> DEFINE s == Append(q, r)
<1>2. /\ DOMAIN s = 1 .. Len(q) + 1
      /\ \A i \in DOMAIN q : s[i] = q[i]
      /\ s[Len(q) + 1] = r
  BY <1>1
<1> HIDE DEF s
<1>3. CASE Discovers(q, p)
  <2>1. PICK i \in DOMAIN q : q[i].kind = "discover_host" /\ q[i].plan = p
    BY <1>3 DEF Discovers
  <2>2. i \in DOMAIN s /\ s[i].kind = "discover_host" /\ s[i].plan = p
    BY <1>1, <1>2, <2>1
  <2> QED
    BY <2>2 DEF Discovers, s
<1>4. CASE r.kind = "discover_host" /\ r.plan = p
  <2>1. Len(q) + 1 \in DOMAIN s
    BY <1>1, <1>2
  <2> QED
    BY <1>2, <1>4, <2>1 DEF Discovers, s
<1> QED
  BY <1>3, <1>4

(* Taking out another row leaves the discovery of a plan under way, and so *)
(* does cancelling what is queued for a Node.                              *)
LEMMA DiscoveryNotTaken ==
  ASSUME Base, NEW p, Discovers(rows, p), NEW i \in DOMAIN rows,
         ~(rows[i].kind = "discover_host" /\ rows[i].plan = p)
  PROVE  /\ Discovers(Without(i), p)
         /\ \A n : n # NoNode => Discovers(KeepRunningOf(Without(i), n), p)
<1> DEFINE q == Without(i)
<1>1. /\ q \in Seq(Row) /\ Len(q) = Len(rows) - 1
      /\ \A k \in 1 .. Len(rows) - 1 : q[k] = IF k < i THEN rows[k] ELSE rows[k + 1]
  BY RowType, RemoveAtProperties DEF Without
<1>2. /\ DOMAIN rows = 1 .. Len(rows) /\ Len(rows) \in Nat
      /\ DOMAIN q = 1 .. Len(rows) - 1
  BY <1>1, RowType, LenProperties
<1> HIDE DEF q
<1>3. PICK j \in DOMAIN rows : rows[j].kind = "discover_host" /\ rows[j].plan = p
  BY DEF Discovers
<1>4. \E k \in DOMAIN q : q[k] = rows[j]
  <2>1. CASE j < i
    BY <2>1, <1>1, <1>2
  <2>2. CASE i < j
    <3>1. j - 1 \in DOMAIN q /\ ~(j - 1 < i) /\ (j - 1) + 1 = j
      BY <2>2, <1>2
    <3>2. q[j - 1] = rows[j]
      BY <3>1, <1>1, <1>2
    <3> QED
      BY <3>1, <3>2
  <2>3. j # i
    BY <1>3
  <2> QED
    BY <2>1, <2>2, <2>3, <1>2
<1>5. Discovers(q, p)
  BY <1>3, <1>4 DEF Discovers
<1>6. ASSUME NEW n, n # NoNode
      PROVE  Discovers(KeepRunningOf(q, n), p)
  <2> DEFINE I == {k \in DOMAIN q : q[k].running \/ q[k].node # n}
  <2>1. \A k \in DOMAIN q : \E m \in DOMAIN rows : q[k] = rows[m]
    BY <1>1, <1>2
  <2>2. \A k \in DOMAIN q : q[k].kind = "discover_host" => q[k].node = NoNode
    BY <2>1, RowType DEF Fits
  <2>3. \A k \in DOMAIN q : q[k].kind = "discover_host" /\ q[k].plan = p => k \in I
    BY <1>6, <2>2
  <2>4. I \in SUBSET DOMAIN q
    OBVIOUS
  <2> HIDE DEF I
  <2>5. Discovers(Subsequence(q, I), p)
    BY <1>1, <1>5, <2>3, <2>4, DiscoveryKept
  <2> QED
    BY <2>5 DEF KeepRunningOf, I
<1> QED
  BY <1>5, <1>6 DEF q

LEMMA DiscoveryAfterPlan ==
  ASSUME Base, NEW p \in Plans, planStatus[p] = "PENDING" => Discovers(rows, p),
         NEW t, PlanWrites(t), planStatus'[p] = "PENDING"
  PROVE  Discovers(rows', p)
<1> DEFINE now  == {q \in Plans : Live(q)}
           then == t.live \cap now
<1>1. PICK new \in Plans, old \in {then, now}, cancelled \in {then, now} :
          /\ planStatus[new] = "NONE" /\ cancelled \subseteq old
          /\ planStatus' = [q \in Plans |-> IF q = new THEN "PENDING"
                                            ELSE IF q \in old THEN "EXPIRED"
                                            ELSE planStatus[q]]
          /\ rows' = Append(Subsequence(rows, {i \in DOMAIN rows :
                                                   \/ rows[i].running
                                                   \/ rows[i].kind # "discover_host"
                                                   \/ rows[i].plan \notin cancelled}),
                            [Command("discover_host", NoNode) EXCEPT !.plan = new])
  BY ZenonT(60) DEF PlanWrites
<1> HIDE DEF now, then
<1> DEFINE I == {i \in DOMAIN rows : \/ rows[i].running
                                     \/ rows[i].kind # "discover_host"
                                     \/ rows[i].plan \notin cancelled}
           r == [Command("discover_host", NoNode) EXCEPT !.plan = new]
<1>2. rows \in Seq(Row) /\ I \in SUBSET DOMAIN rows
  BY DEF Base, TypeOK
<1>3. r \in Row /\ r.kind = "discover_host" /\ r.plan = new
  <2>1. Command("discover_host", NoNode) \in Row /\ new \in 0 .. MaxPlans
    BY CommandType, BoundsAssumption DEF Kinds, Plans
  <2> QED
    BY <2>1 DEF Row, Command
<1>4. p \notin cancelled =>
         \A i \in DOMAIN rows : rows[i].kind = "discover_host" /\ rows[i].plan = p => i \in I
  OBVIOUS
<1>5. rows' = Append(Subsequence(rows, I), r)
  BY <1>1
<1> HIDE DEF I, r
<1>6. Subsequence(rows, I) \in Seq(Row)
  BY <1>2, SubsequenceProperties
<1>7. CASE p = new
  BY <1>3, <1>5, <1>6, <1>7, DiscoveryAppendedOne
<1>8. CASE p # new
  <2>1. planStatus[p] = "PENDING" /\ p \notin cancelled
    BY <1>1, <1>8
  <2>2. Discovers(Subsequence(rows, I), p)
    BY <1>2, <1>4, <2>1, DiscoveryKept
  <2> QED
    BY <1>3, <1>5, <1>6, <2>2, DiscoveryAppendedOne
<1> QED
  BY <1>7, <1>8

LEMMA DiscoveryAfterResult ==
  ASSUME Base, NEW p \in Plans, Discovers(rows, p), planStatus[p] = "PENDING",
         NEW i \in DOMAIN rows, Succeeds(i) \/ Fails(i) \/ RollsBack(i),
         planStatus'[p] = "PENDING", ~swept'
  PROVE  Discovers(rows', p)
<1>0. planStatus \in [Plans -> PlanStatuses]
  BY DEF Base, TypeOK
<1>1. ~(rows[i].kind = "discover_host" /\ rows[i].plan = p)
  <2> SUFFICES ASSUME rows[i].kind = "discover_host", rows[i].plan = p PROVE FALSE
    OBVIOUS
  <2>1. Discovered(i) \/ DiscoveryFails(i)
    BY DEF Succeeds, Reconciled, Certified, Applied, NothingElse, Fails, ClosedApplyFails,
       CertificateFails, InstanceFails, MachineFails, RollsBack, ApplyRolledBack
  <2> QED
    BY <1>0, <2>1 DEF Discovered, DiscoveryFails
<1>2. /\ Discovers(Without(i), p)
      /\ \A n : n # NoNode => Discovers(KeepRunningOf(Without(i), n), p)
  BY <1>1, DiscoveryNotTaken
<1>3. CASE rows' = Without(i)
  BY <1>2, <1>3
<1>4. CASE rows' = KeepRunningOf(Without(i), rows[i].node) /\ rows[i].node # NoNode
  BY <1>2, <1>4
<1>5. CASE ClosedApplyFails(i)
  <2> DEFINE q == KeepRunningOf(Without(i), rows[i].node)
             c == Command("stop_instance", rows[i].node)
  <2>1. rows' = Append(q, c) /\ rows[i].node # NoNode /\ q \in Seq(Row)
    BY <1>5, RowType, KeptRows DEF ClosedApplyFails, Fits, Shortened
  <2>2. c \in Row
    BY RowType, CommandType DEF Row, Kinds
  <2>3. Discovers(q, p)
    BY <1>2, <2>1
  <2> HIDE DEF q, c
  <2> QED
    BY <2>1, <2>2, <2>3, DiscoveryAppendedOne
<1>6. \/ rows' = Without(i)
      \/ rows' = KeepRunningOf(Without(i), rows[i].node) /\ rows[i].node # NoNode
      \/ ClosedApplyFails(i)
  <2>1. ~MachineFails(i)
    BY DEF MachineFails
  <2>2. CASE CertificateFails(i)
    BY <2>2, RowType DEF CertificateFails, Fits
  <2>3. CASE InstanceFails(i)
    BY <2>3 DEF InstanceFails
  <2> QED
    BY <2>1, <2>2, <2>3 DEF Succeeds, Discovered, Reconciled, Certified, Applied, NothingElse,
       Fails, DiscoveryFails, RollsBack, ApplyRolledBack
<1> QED
  BY <1>3, <1>4, <1>5, <1>6

LEMMA DiscoveryAfterStart ==
  ASSUME Base, NEW p, Discovers(rows, p), NEW j \in Job, StartNode(j)
  PROVE  Discovers(rows', p)
<1>0. rows \in Seq(Row) /\ j.node \in Nodes /\ j.closed \in BOOLEAN
  BY DEF Base, TypeOK, Job
<1>1. PICK k \in DOMAIN rows : rows[k].kind = "discover_host" /\ rows[k].plan = p
  BY DEF Discovers
<1>2. CASE QueueConfig(j.node, j.closed)
  <2> DEFINE r == desiredRevision[j.node] + 1
             c == [Command("apply_config", j.node) EXCEPT !.rev = r, !.closed = j.closed]
  <2>1. CASE rows' = Append(rows, c)
    <3>1. r \in 0 .. MaxRevision
      BY <1>0, <1>2, BoundsAssumption DEF QueueConfig, Base, TypeOK
    <3>2. Command("apply_config", j.node) \in Row
      BY <1>0, CommandType DEF Kinds
    <3> HIDE DEF r
    <3>3. c \in Row
      BY <1>0, <3>1, <3>2 DEF Row
    <3> HIDE DEF c
    <3> QED
      BY <1>0, <2>1, <3>3, DiscoveryAppendedOne
  <2>2. ASSUME NEW i \in QueuedConfigs(j.node),
               rows' = [rows EXCEPT ![i].rev = r, ![i].closed = @ \/ j.closed]
        PROVE  Discovers(rows', p)
    <3>1. k # i /\ DOMAIN rows' = DOMAIN rows
      BY <1>1, <2>2 DEF QueuedConfigs
    <3>2. rows'[k] = rows[k]
      BY <2>2, <3>1
    <3> QED
      BY <1>1, <3>1, <3>2 DEF Discovers
  <2> QED
    BY <1>2, <2>1, <2>2 DEF QueueConfig
<1>3. CASE QueueFails(j.node, j.closed)
  <2>1. rows' = rows \/ rows' = Append(rows, Command("stop_instance", j.node))
    BY <1>3 DEF QueueFails
  <2>2. Command("stop_instance", j.node) \in Row
    BY <1>0, CommandType DEF Kinds
  <2> QED
    BY <1>0, <2>1, <2>2, DiscoveryAppendedOne
<1> QED
  BY <1>2, <1>3 DEF StartNode

LEMMA PendingPlanKept ==
  ASSUME Base, PendingPlanIsDiscovered, Next, NEW p \in Plans,
         planStatus'[p] = "PENDING", ~planLate'[p], ~swept'
  PROVE  Discovers(rows', p)
<1>0. /\ planStatus \in [Plans -> PlanStatuses] /\ planLate \in [Plans -> BOOLEAN]
      /\ rows \in Seq(Row)
  BY DEF Base, TypeOK
<1>1. ~planLate[p]
  <2>1. planLate' = planLate \/ \E q \in Plans : planLate' = [planLate EXCEPT ![q] = TRUE]
    BY ZenonT(60) DEF Next, Claim, HelloReads, HelloWrites, CreatePlan, PlanWrites, Retry, RetryWrites,
       Publish, PublishWrites, PlanExpires, GetPlan, Provision, Reconfigure, StartNode, Result,
       DeadlineExceeded, Succeeds, Discovered, Reconciled, Certified, Applied, NothingElse,
       Fails, DiscoveryFails, ClosedApplyFails, CertificateFails, InstanceFails, MachineFails,
       RollsBack, ApplyRolledBack, CertificateExpires, RenewalReads, RenewalBlocks,
       RenewalQueues, TransactionReads, TransactionWrites, ApplyWrites, planVars
  <2> QED
    BY <1>0, <2>1
<1>2. ~swept
  BY ZenonT(60) DEF Next, Claim, HelloReads, HelloWrites, CreatePlan, PlanWrites, Retry, RetryWrites,
     Publish, PublishWrites, PlanExpires, GetPlan, Provision, Reconfigure, StartNode, Result,
     DeadlineExceeded, Succeeds, Discovered, Reconciled, Certified, Applied, NothingElse,
     Fails, DiscoveryFails, ClosedApplyFails, CertificateFails, InstanceFails, MachineFails,
     RollsBack, ApplyRolledBack, CertificateExpires, RenewalReads, RenewalBlocks,
     RenewalQueues, TransactionReads, TransactionWrites, ApplyWrites, histVars
<1>3. planStatus[p] = "PENDING" => Discovers(rows, p)
  BY <1>1, <1>2 DEF PendingPlanIsDiscovered, Discovers
<1>4. ASSUME NEW t, PlanWrites(t)
      PROVE  Discovers(rows', p)
  BY <1>3, <1>4, DiscoveryAfterPlan
<1>5. CASE planStatus[p] = "PENDING" /\ (rows' = rows \/ Grows)
  BY <1>0, <1>3, <1>5, DiscoveryAppended DEF Grows
<1>6. CASE Claim
  <2>1. planStatus[p] = "PENDING"
    BY <1>6 DEF Claim, planVars
  <2> QED
    BY <1>3, <1>6, <2>1, ClaimMarks DEF Discovers
<1>7. CASE HelloWrites
  <2>1. planStatus[p] = "PENDING"
    BY <1>7 DEF HelloWrites, planVars
  <2>2. PICK k \in DOMAIN rows : rows[k].kind = "discover_host" /\ rows[k].plan = p
    BY <1>3, <2>1 DEF Discovers
  <2>3. /\ DOMAIN rows' = DOMAIN rows
        /\ rows'[k] = [rows[k] EXCEPT !.running = FALSE]
    BY <1>7, <2>2 DEF HelloWrites
  <2>4. rows'[k].kind = rows[k].kind /\ rows'[k].plan = rows[k].plan
    BY <2>2, <2>3, RowType DEF Row
  <2> QED
    BY <2>2, <2>3, <2>4 DEF Discovers
<1>8. ASSUME NEW S \in SUBSET Nodes, CreatePlan(S) \/ Retry(S) \/ Publish(S)
      PROVE  Discovers(rows', p)
  <2>1. CASE Retry(S)
    <3>1. planStatus[p] = "PENDING" /\ Grows
      BY <2>1, RetryRequestRows DEF Retry, RetryWrites, planVars
    <3> QED
      BY <3>1, <1>5
  <2>2. CASE Publish(S)
    BY <1>5, <2>2 DEF Publish, PublishWrites, planVars
  <2>3. CASE CreatePlan(S)
    BY <1>4, <1>5, <2>3 DEF CreatePlan, planVars
  <2> QED
    BY <1>8, <2>1, <2>2, <2>3
<1>9. ASSUME NEW q \in Plans, PlanExpires(q) \/ GetPlan(q) \/ Provision(q)
      PROVE  Discovers(rows', p)
  <2>1. CASE Provision(q)
    <3>1. planStatus[p] = "PENDING"
      BY <1>0, <2>1 DEF Provision
    <3>2. Grows
      BY <2>1, ProvisionRows DEF Base, TypeOK
    <3> QED
      BY <3>1, <3>2, <1>5
  <2>2. CASE PlanExpires(q) \/ GetPlan(q)
    BY <1>0, <1>5, <2>2 DEF PlanExpires, GetPlan
  <2> QED
    BY <1>9, <2>1, <2>2
<1>10. ASSUME NEW j \in Job, StartNode(j)
       PROVE  Discovers(rows', p)
  <2>1. planStatus[p] = "PENDING"
    BY <1>10 DEF StartNode, planVars
  <2> QED
    BY <1>3, <1>10, <2>1, DiscoveryAfterStart
<1>11. ASSUME NEW i \in DOMAIN rows, Result(i) \/ DeadlineExceeded(i)
       PROVE  Discovers(rows', p)
  <2>1. planStatus[p] = "PENDING"
    BY <1>0, <1>11 DEF Result, DeadlineExceeded, Succeeds, Discovered, Reconciled, Certified,
       Applied, ApplyWrites, NothingElse, Fails, DiscoveryFails, ClosedApplyFails,
       CertificateFails, InstanceFails, MachineFails, RollsBack, ApplyRolledBack, planVars
  <2>2. Succeeds(i) \/ Fails(i) \/ RollsBack(i)
    BY <1>11 DEF Result, DeadlineExceeded
  <2> QED
    BY <1>3, <2>1, <2>2, DiscoveryAfterResult
<1>12. CASE RenewalQueues
  <2>1. planStatus[p] = "PENDING" /\ (rows' = rows \/ Grows)
    BY <1>12, RenewalRows DEF RenewalQueues, planVars
  <2> QED
    BY <2>1, <1>5
<1>13. CASE TransactionReads
  <2>1. planStatus[p] = "PENDING"
    BY <1>13 DEF TransactionReads, planVars
  <2>2. ASSUME NEW i \in DOMAIN rows, rows[i].kind = "apply_config", rows' = Without(i)
        PROVE  Discovers(rows', p)
    BY <1>3, <2>1, <2>2, DiscoveryNotTaken
  <2> QED
    BY <1>5, <1>13, <2>1, <2>2 DEF TransactionReads
<1>14. CASE TransactionWrites
  <2>1. CASE open.what = "plan"
    BY <1>4, <1>14, <2>1 DEF TransactionWrites
  <2>2. CASE open.what = "retry"
    <3>1. planStatus[p] = "PENDING" /\ Grows
      BY <1>14, <2>2, RetryWrittenRows DEF TransactionWrites, RetryWrites, planVars
    <3> QED
      BY <3>1, <1>5
  <2>3. CASE open.what = "publish" \/ open.what = "apply"
    BY <1>5, <1>14, <2>3 DEF TransactionWrites, PublishWrites, ApplyWrites, planVars
  <2> QED
    BY <1>14, <2>1, <2>2, <2>3 DEF TransactionWrites
<1>15. \/ planStatus[p] = "PENDING" /\ rows' = rows
       \/ Claim \/ HelloWrites
       \/ \E S \in SUBSET Nodes : CreatePlan(S) \/ Retry(S) \/ Publish(S)
       \/ \E q \in Plans : PlanExpires(q) \/ GetPlan(q) \/ Provision(q)
       \/ \E j \in Job : StartNode(j)
       \/ \E i \in DOMAIN rows : Result(i) \/ DeadlineExceeded(i)
       \/ RenewalQueues \/ TransactionReads \/ TransactionWrites
  BY DEF Next, HelloReads, Reconfigure, CertificateExpires, RenewalReads, RenewalBlocks,
     planVars
<1> QED
  BY <1>5, <1>6, <1>7, <1>8, <1>9, <1>10, <1>11, <1>12, <1>13, <1>14, <1>15

(* A plan that is pending and in time has its discovery under way, unless  *)
(* the queue was cancelled for the whole Machine: superseding other plans, *)
(* failures of Nodes and reconnections do not lose it.                     *)
THEOREM PendingPlansAreDiscovered == Spec => []PendingPlanIsDiscovered
<1>1. Init => PendingPlanIsDiscovered
  BY DEF Init, PendingPlanIsDiscovered
<1>2. Base /\ PendingPlanIsDiscovered /\ [Next]_vars => PendingPlanIsDiscovered'
  <2>1. CASE UNCHANGED vars
    BY <2>1 DEF vars, PendingPlanIsDiscovered
  <2> QED
    BY <2>1, PendingPlanKept DEF PendingPlanIsDiscovered, Discovers
<1> QED
  BY <1>1, <1>2, BaseHolds, PTL DEF Spec

-----------------------------------------------------------------------------
(* Ports.                                                                  *)

(* The rows that were sent come before those that were not. *)
SentFirst ==
    /\ \A i \in DOMAIN rows : rows[i].running => rows[i].sent
    /\ \A i, j \in DOMAIN rows : i < j /\ rows[j].sent => rows[i].sent

(* A Node's instance is created before it is configured, so that none is   *)
(* created any more for a Node that was validated but by retrying it, with *)
(* the port it has if it is published.                                     *)
PortsFit(n) ==
    /\ isPublished[n] =>
          \A i \in DOMAIN rows : InstanceRow(rows[i], n) => rows[i].ports = {externalPort[n]}
    /\ \/ Validated(n) /\ ~isPublished[n]
       \/ open.what = "apply" /\ open.node = n
       => \A i \in DOMAIN rows : ~InstanceRow(rows[i], n)
    /\ \A i, j \in DOMAIN rows : InstanceRow(rows[i], n) /\ ConfigRow(rows[j], n) => i < j

PortInv == SentFirst /\ \A n \in Nodes \ raced : PortsFit(n)

LEMMA SentFirstKept ==
  ASSUME Base, SentFirst, Next
  PROVE  SentFirst'
<1>0. DOMAIN rows \subseteq Int
  BY LenProperties DEF Base, TypeOK
<1>1. CASE Claim
  <2>1. DOMAIN rows' = DOMAIN rows
    BY <1>1, ClaimMarks
  <2>2. PICK i \in DOMAIN rows : /\ \A j \in DOMAIN rows : j < i => rows[j].running
                                 /\ \A k \in DOMAIN rows \ {i} : rows'[k] = rows[k]
                                 /\ rows'[i].sent
    BY <1>1, ClaimMarks
  <2>3. \A k \in DOMAIN rows : rows'[k].running => rows'[k].sent
    BY <2>2 DEF SentFirst
  <2>4. ASSUME NEW k \in DOMAIN rows, NEW l \in DOMAIN rows, k < l, rows'[l].sent
        PROVE  rows'[k].sent
    BY <2>2, <2>4 DEF SentFirst
  <2> QED
    BY <2>1, <2>3, <2>4 DEF SentFirst
<1>2. CASE Succession
  <2>1. \A k \in DOMAIN rows' : rows'[k].running => rows'[k].sent
    BY <1>2 DEF Succession, New, Same, SentFirst
  <2>2. ASSUME NEW k \in DOMAIN rows', NEW l \in DOMAIN rows', k < l, rows'[l].sent
        PROVE  rows'[k].sent
    BY <1>2, <2>2 DEF Succession, New, Same, SentFirst
  <2> QED
    BY <2>1, <2>2 DEF SentFirst
<1> QED
  BY <1>1, <1>2, RowsSucceed

(* The row whose answer comes is the first of the list. *)
LEMMA FirstIsAnswered ==
  ASSUME Base, SentFirst, NEW i \in DOMAIN rows, Answered(i)
  PROVE  i = 1
<1>1. Len(rows) \in Nat /\ DOMAIN rows = 1 .. Len(rows)
  BY LenProperties DEF Base, TypeOK
<1>2. ASSUME i # 1
      PROVE  FALSE
  <2>1. 1 \in DOMAIN rows /\ 1 < i
    BY <1>1, <1>2
  <2> QED
    BY <2>1 DEF Answered, SentFirst
<1> QED
  BY <1>2

(* So a Node that completes a configuration has no instance to create. *)
LEMMA ConfiguredAreCreated ==
  ASSUME Base, SentFirst, NEW i \in DOMAIN rows, Answered(i),
         NEW n, PortsFit(n), ConfigRow(rows[i], n)
  PROVE  \A k \in DOMAIN rows : ~InstanceRow(rows[k], n)
<1>1. i = 1 /\ DOMAIN rows \subseteq Nat \ {0}
  BY FirstIsAnswered, LenProperties DEF Base, TypeOK
<1> QED
  BY <1>1 DEF PortsFit

(* What a step leaves of the instances to create of a Node that exists: it *)
(* adds none unless it retries the Node.                                   *)
LEMMA InstanceRowsKept ==
  ASSUME Base, Next, NEW n \in managed, n \notin raced',
         NEW k \in DOMAIN rows', InstanceRow(rows'[k], n)
  PROVE  \/ Retryable(n) /\ rows'[k].ports = RetryPorts(n)
         \/ \E i \in DOMAIN rows : InstanceRow(rows[i], n) /\ rows[i].ports = rows'[k].ports
<1>1. CASE Claim
  BY <1>1, ClaimMarks DEF InstanceRow
<1>2. CASE Succession
  <2>1. CASE New(k)
    BY <2>1 DEF New, InstanceRow
  <2>2. ASSUME NEW i \in DOMAIN rows, Same(rows[i], rows'[k])
        PROVE  InstanceRow(rows[i], n) /\ rows[i].ports = rows'[k].ports
    BY <2>2 DEF Same, InstanceRow
  <2> QED
    BY <1>2, <2>1, <2>2 DEF Succession
<1> QED
  BY <1>1, <1>2, RowsSucceed

LEMMA PublishedPortStays ==
  ASSUME Base, Next, NEW n \in Nodes, PortsFit(n), isPublished[n]
  PROVE  externalPort'[n] = externalPort[n]
<1> SUFFICES ASSUME externalPort'[n] # externalPort[n] PROVE FALSE
  OBVIOUS
<1>1. PICK i \in DOMAIN rows : /\ Reconciled(i) /\ rows[i].node = n
                               /\ externalPort'[n] \in rows[i].ports
  BY PortChanges
<1>2. InstanceRow(rows[i], n)
  BY <1>1 DEF Reconciled, InstanceRow
<1> QED
  BY <1>1, <1>2 DEF PortsFit

LEMMA PublishedPortsKept ==
  ASSUME Base, HostInv, PortInv, Next, NEW n \in Nodes \ raced', isPublished'[n]
  PROVE  /\ isPublished[n] => externalPort'[n] = externalPort[n]
         /\ \A k \in DOMAIN rows' :
               InstanceRow(rows'[k], n) => rows'[k].ports = {externalPort'[n]}
<1>0. n \notin raced /\ PortsFit(n)
  BY OpenTypesKept DEF PortInv
<1>1. CASE isPublished[n]
  <2>1. n \in managed
    BY <1>1 DEF HostInv, ValidatedHasApplied
  <2>2. \A i \in DOMAIN rows : InstanceRow(rows[i], n) => rows[i].ports = {externalPort[n]}
    BY <1>0, <1>1 DEF PortsFit
  <2>3. externalPort'[n] = externalPort[n]
    BY <1>0, <1>1, PublishedPortStays
  <2>4. RetryPorts(n) = {externalPort[n]}
    BY <1>1 DEF RetryPorts
  <2> QED
    BY <2>1, <2>2, <2>3, <2>4, InstanceRowsKept
<1>2. CASE ~isPublished[n]
  <2>1. Validated(n) /\ rows' = rows
    <3>1. ASSUME NEW S \in SUBSET Nodes, Publish(S), n \in S
          PROVE  Validated(n) /\ rows' = rows
      BY <3>1 DEF Publish, CanPublish, PublishWrites, Publishable, Validated
    <3>2. ASSUME TransactionWrites, open.what = "publish", n \in open.nodes
          PROVE  Validated(n) /\ rows' = rows
      <4>1. n \notin Changed(open)
        BY <3>2 DEF TransactionWrites
      <4>2. Publishable(n)
        BY <3>2, <4>1 DEF Changed
      <4> QED
        BY <3>2, <4>2 DEF TransactionWrites, PublishWrites, Publishable, Validated
    <3> QED
      BY <1>2, <3>1, <3>2, PublicationChanges
  <2>2. \A i \in DOMAIN rows : ~InstanceRow(rows[i], n)
    BY <1>0, <1>2, <2>1 DEF PortsFit
  <2> QED
    BY <1>2, <2>1, <2>2
<1> QED
  BY <1>1, <1>2

LEMMA ValidatedAreCreated ==
  ASSUME Base, HostInv, PortInv, Next, NEW n \in Nodes \ raced',
         Validated(n)', ~isPublished'[n], NEW k \in DOMAIN rows', InstanceRow(rows'[k], n)
  PROVE  FALSE
<1>0. PortsFit(n) /\ ~isPublished[n] /\ SentFirst
  BY OpenTypesKept, PublishedStays DEF PortInv
<1>1. CASE Validated(n)
  <2>1. n \in managed /\ ~Retryable(n)
    BY <1>1 DEF HostInv, ValidatedHasApplied, Validated, Retryable
  <2> QED
    BY <1>0, <1>1, <2>1, InstanceRowsKept DEF PortsFit
<1>2. ASSUME NEW i \in DOMAIN rows, Result(i) \/ DeadlineExceeded(i), Applied(i),
             rows[i].node = n
      PROVE  FALSE
  <2>0. Answered(i)
    <3>1. faults \in Nat /\ faults' = faults
      BY <1>2, BoundsAssumption DEF Applied, Base, TypeOK
    <3>2. ~DeadlineExceeded(i)
      BY <3>1 DEF DeadlineExceeded, Spend
    <3> QED
      BY <1>2, <3>2 DEF Result
  <2>1. ConfigRow(rows[i], n) /\ n \in managed /\ ~Retryable(n)
    BY <1>2, RowType, AppliedCompletes
       DEF Result, Applied, ConfigRow, Completes, Retryable, Idle, Active
  <2>2. \A j \in DOMAIN rows : ~InstanceRow(rows[j], n)
    BY <1>0, <2>0, <2>1, ConfiguredAreCreated
  <2> QED
    BY <2>1, <2>2, InstanceRowsKept
<1>3. CASE open.what = "apply" /\ open.node = n
  <2>1. n \in managed /\ ~Retryable(n)
    BY <1>3 DEF Base, OpenFits, Retryable, Idle
  <2> QED
    BY <1>0, <1>3, <2>1, InstanceRowsKept DEF PortsFit
<1> QED
  BY <1>0, <1>1, <1>2, <1>3, ValidatedChanges DEF StaysValidated

LEMMA ReadAreCreated ==
  ASSUME Base, PortInv, Next, NEW n \in Nodes \ raced',
         open'.what = "apply", open'.node = n,
         NEW k \in DOMAIN rows', InstanceRow(rows'[k], n)
  PROVE  FALSE
<1>0. PortsFit(n) /\ SentFirst
  BY OpenTypesKept DEF PortInv
<1>1. CASE Overtakes
  <2>1. open.what = "apply" /\ open.node = n
    BY <1>1, OvertakenStays DEF Base
  <2>2. n \in managed /\ ~Retryable(n)
    BY <2>1 DEF Base, OpenFits, Retryable, Idle
  <2> QED
    BY <1>0, <2>1, <2>2, InstanceRowsKept DEF PortsFit
<1>2. CASE TransactionReads
  <2>1. PICK i \in DOMAIN rows :
            /\ Answered(i) /\ rows[i].kind = "apply_config" /\ open' = ApplyRead(i)
    BY <1>2 DEF TransactionReads, PlanRead, RetryRead, PublishRead
  <2>2. ConfigRow(rows[i], n) /\ n \in managed /\ ~Retryable(n)
    BY <2>1, RowType, NodesAssumption
       DEF ConfigRow, ApplyRead, Fits, Retryable, Idle, Active
  <2>3. \A j \in DOMAIN rows : ~InstanceRow(rows[j], n)
    BY <1>0, <2>1, <2>2, ConfiguredAreCreated
  <2> QED
    BY <2>2, <2>3, InstanceRowsKept
<1>3. CASE TransactionWrites
  BY <1>3 DEF TransactionWrites, NoTransaction
<1> QED
  BY <1>1, <1>2, <1>3, StepOvertakes

LEMMA CreatedBeforeConfigured ==
  ASSUME Base, PortInv, Next, NEW n \in Nodes \ raced',
         NEW k \in DOMAIN rows', InstanceRow(rows'[k], n),
         NEW l \in DOMAIN rows', ConfigRow(rows'[l], n)
  PROVE  k < l
<1>0. PortsFit(n)
  BY OpenTypesKept DEF PortInv
<1>1. CASE Claim
  BY <1>0, <1>1, ClaimMarks DEF PortsFit, InstanceRow, ConfigRow
<1>2. CASE Succession
  <2>1. Len(rows') \in Nat /\ DOMAIN rows' = 1 .. Len(rows') /\ k # l
    BY <1>2, LenProperties DEF Succession, InstanceRow, ConfigRow
  <2> SUFFICES ASSUME l < k PROVE FALSE
    BY <2>1
  <2>2. ~New(l)
    BY <2>1 DEF New, ConfigRow
  <2>3. PICK i \in DOMAIN rows : Same(rows[i], rows'[l])
    BY <1>2, <2>2 DEF Succession
  <2>4. n \in managed /\ ~Retryable(n)
    BY <2>3, RowType DEF Same, ConfigRow, Fits, Retryable, Idle, Active
  <2>5. ~New(k)
    BY <2>4 DEF New, InstanceRow
  <2>6. PICK i1, j1 \in DOMAIN rows :
            i1 < j1 /\ Same(rows[i1], rows'[l]) /\ Same(rows[j1], rows'[k])
    BY <1>2, <2>5 DEF Succession
  <2>7. InstanceRow(rows[j1], n) /\ ConfigRow(rows[i1], n)
    BY <2>6 DEF Same, InstanceRow, ConfigRow
  <2>8. j1 < i1 /\ i1 \in Int /\ j1 \in Int
    BY <1>0, <2>7, LenProperties DEF PortsFit, Base, TypeOK
  <2> QED
    BY <2>6, <2>8
<1> QED
  BY <1>1, <1>2, RowsSucceed

LEMMA PortInvKept ==
  ASSUME Base, HostInv, PortInv, Next
  PROVE  PortInv'
<1>1. SentFirst'
  BY SentFirstKept DEF PortInv
<1>2. ASSUME NEW n \in Nodes \ raced'
      PROVE  PortsFit(n)'
  BY <1>2, PublishedPortsKept, ValidatedAreCreated, ReadAreCreated, CreatedBeforeConfigured
     DEF PortsFit
<1> QED
  BY <1>1, <1>2 DEF PortInv

(* A published Node keeps its external port, whatever is retried,          *)
(* restarted or reconnected, unless a retry of it was overtaken by another *)
(* start of it.                                                            *)
THEOREM PublishedPortsAreFixed == Spec => PublishedPortFixed
<1>1. Init => HostInv /\ PortInv
  BY DEF Init, HostInv, ValidatedHasApplied, Validated, OpenApplyFits, NoTransaction,
     EnabledHostIsServed, PortInv, SentFirst, PortsFit
<1>2. Base /\ HostInv /\ PortInv /\ [Next]_vars => (HostInv /\ PortInv)'
  <2>1. CASE UNCHANGED vars
    BY <2>1 DEF vars, HostInv, ValidatedHasApplied, Validated, OpenApplyFits,
       EnabledHostIsServed, PortInv, SentFirst, PortsFit
  <2> QED
    BY <2>1, HostInvKept, PortInvKept
<1>3. Base /\ PortInv /\ [Next]_vars =>
         [\A n \in Nodes \ raced : isPublished[n] => externalPort'[n] = externalPort[n]]_vars
  BY PublishedPortStays DEF PortInv
<1> QED
  BY <1>1, <1>2, <1>3, BaseHolds, PTL DEF Spec, PublishedPortFixed

-----------------------------------------------------------------------------
(* Nothing is left waiting: the Node and the Machine that are provisioning *)
(* have something under way that will decide them.                         *)

(* What a list of rows has for a Node: the configuration d.                *)
Configures(q, n, d) == \E i \in DOMAIN q : ConfigRow(q[i], n) /\ q[i].rev = d

(* The list s has what the list q has for the Node. *)
Carries(q, s, n) == /\ Creates(q, n) => Creates(s, n)
                    /\ \A d : Configures(q, n, d) <=> Configures(s, n, d)

LEMMA SubsequenceCarries ==
  ASSUME NEW q \in Seq(Row), NEW n, NEW I \in SUBSET DOMAIN q
  PROVE  /\ \A d : Configures(Subsequence(q, I), n, d) => Configures(q, n, d)
         /\ (\A i \in DOMAIN q : InstanceRow(q[i], n) \/ ConfigRow(q[i], n) => i \in I)
               => Carries(q, Subsequence(q, I), n)
<1> DEFINE s == Subsequence(q, I)
           at(k) == Position(I, k)
           to(i) == Rank(I, i)
<1>1. /\ \A k \in DOMAIN s : at(k) \in I /\ s[k] = q[at(k)]
      /\ \A i \in I : to(i) \in DOMAIN s /\ s[to(i)] = q[i]
  BY SubsequenceProperties
<1> HIDE DEF s, at, to
<1>2. \A d : Configures(s, n, d) => Configures(q, n, d)
  BY <1>1 DEF Configures
<1>3. ASSUME \A i \in DOMAIN q : InstanceRow(q[i], n) \/ ConfigRow(q[i], n) => i \in I
      PROVE  Carries(q, s, n)
  <2>1. Creates(q, n) => Creates(s, n)
    BY <1>1, <1>3 DEF Creates
  <2>2. \A d : Configures(q, n, d) => Configures(s, n, d)
    BY <1>1, <1>3 DEF Configures
  <2> QED
    BY <1>2, <2>1, <2>2 DEF Carries
<1> QED
  BY <1>2, <1>3 DEF s

LEMMA ConcatCarries ==
  ASSUME NEW q \in Seq(Row), NEW new \in Seq(Row), NEW n,
         \A i \in DOMAIN new : ~ConfigRow(new[i], n)
  PROVE  Carries(q, q \o new, n)
<1> DEFINE s == q \o new
<1>1. /\ Len(q) \in Nat /\ Len(new) \in Nat
      /\ DOMAIN q = 1 .. Len(q) /\ DOMAIN new = 1 .. Len(new)
      /\ DOMAIN s = 1 .. Len(q) + Len(new)
      /\ \A k \in DOMAIN s : s[k] = IF k <= Len(q) THEN q[k] ELSE new[k - Len(q)]
  <2>1. /\ q \o new \in Seq(Row) /\ Len(q \o new) = Len(q) + Len(new)
        /\ \A k \in 1 .. Len(q) + Len(new) :
              (q \o new)[k] = IF k <= Len(q) THEN q[k] ELSE new[k - Len(q)]
    BY ConcatProperties
  <2>2. /\ DOMAIN (q \o new) = 1 .. Len(q \o new) /\ DOMAIN q = 1 .. Len(q)
        /\ DOMAIN new = 1 .. Len(new) /\ Len(q) \in Nat /\ Len(new) \in Nat
    BY <2>1, LenProperties
  <2> QED
    BY <2>1, <2>2
<1> HIDE DEF s
<1>2. \A i \in DOMAIN q : i \in DOMAIN s /\ s[i] = q[i]
  BY <1>1
<1>3. \A k \in DOMAIN s : ConfigRow(s[k], n) => k \in DOMAIN q
  <2> SUFFICES ASSUME NEW k \in DOMAIN s, ConfigRow(s[k], n), ~(k <= Len(q)) PROVE FALSE
    BY <1>1
  <2>1. k - Len(q) \in DOMAIN new /\ s[k] = new[k - Len(q)]
    BY <1>1
  <2> QED
    BY <2>1
<1>4. Creates(q, n) => Creates(s, n)
  BY <1>2 DEF Creates
<1>5. \A d : Configures(q, n, d) <=> Configures(s, n, d)
  BY <1>2, <1>3 DEF Configures
<1> QED
  BY <1>4, <1>5 DEF Carries, s

LEMMA AppendCarries ==
  ASSUME NEW q \in Seq(Row), NEW r \in Row, NEW n, ~ConfigRow(r, n)
  PROVE  Carries(q, Append(q, r), n)
<1>1. <<r>> \in Seq(Row) /\ Append(q, r) = q \o <<r>>
      /\ \A i \in DOMAIN <<r>> : ~ConfigRow(<<r>>[i], n)
  OBVIOUS
<1> QED
  BY <1>1, ConcatCarries

(* A list in which nothing but the claims is different. *)
LEMMA RelabelCarries ==
  ASSUME NEW q, NEW s, DOMAIN s = DOMAIN q, NEW n,
         \A i \in DOMAIN q : /\ s[i].kind = q[i].kind /\ s[i].node = q[i].node
                             /\ s[i].rev = q[i].rev
  PROVE  Carries(q, s, n)
<1>1. \A i \in DOMAIN q : /\ InstanceRow(s[i], n) <=> InstanceRow(q[i], n)
                          /\ ConfigRow(s[i], n) <=> ConfigRow(q[i], n)
  BY DEF InstanceRow, ConfigRow
<1> QED
  BY <1>1 DEF Carries, Creates, Configures

(* What is left when a row is taken: all but the row itself. *)
LEMMA TakenRows ==
  ASSUME rows \in Seq(Row), NEW i \in DOMAIN rows, NEW n
  PROVE  /\ Without(i) \in Seq(Row)
         /\ ~InstanceRow(rows[i], n) /\ ~ConfigRow(rows[i], n) => Carries(rows, Without(i), n)
         /\ \A d : /\ Configures(Without(i), n, d) => Configures(rows, n, d)
                   /\ Configures(rows, n, d) =>
                         Configures(Without(i), n, d) \/ (ConfigRow(rows[i], n) /\ rows[i].rev = d)
<1> DEFINE s == Without(i)
<1>1. /\ s \in Seq(Row) /\ Len(s) = Len(rows) - 1
      /\ \A k \in 1 .. Len(rows) - 1 : s[k] = IF k < i THEN rows[k] ELSE rows[k + 1]
  BY RemoveAtProperties DEF Without
<1>2. /\ DOMAIN rows = 1 .. Len(rows) /\ Len(rows) \in Nat
      /\ DOMAIN s = 1 .. Len(rows) - 1
  BY <1>1, LenProperties
<1> HIDE DEF s
<1>3. \A k \in DOMAIN s : \E j \in DOMAIN rows : s[k] = rows[j]
  <2> TAKE k \in DOMAIN s
  <2>1. CASE k < i
    BY <2>1, <1>1, <1>2
  <2>2. CASE ~(k < i)
    <3>1. k + 1 \in DOMAIN rows /\ s[k] = rows[k + 1]
      BY <2>2, <1>1, <1>2
    <3> QED
      BY <3>1
  <2> QED
    BY <2>1, <2>2
<1>4. \A j \in DOMAIN rows : j # i => \E k \in DOMAIN s : s[k] = rows[j]
  <2> SUFFICES ASSUME NEW j \in DOMAIN rows, j # i
               PROVE  \E k \in DOMAIN s : s[k] = rows[j]
    OBVIOUS
  <2>1. CASE j < i
    BY <2>1, <1>1, <1>2
  <2>2. CASE ~(j < i)
    <3>1. j - 1 \in DOMAIN s /\ ~(j - 1 < i) /\ (j - 1) + 1 = j
      BY <2>2, <1>2
    <3> QED
      BY <3>1, <1>1, <1>2
  <2> QED
    BY <2>1, <2>2
<1>5. \A d : Configures(s, n, d) => Configures(rows, n, d)
  BY <1>3 DEF Configures
<1>6. \A d : Configures(rows, n, d) =>
                Configures(s, n, d) \/ (ConfigRow(rows[i], n) /\ rows[i].rev = d)
  BY <1>4 DEF Configures
<1>7. ~InstanceRow(rows[i], n) => (Creates(rows, n) => Creates(s, n))
  BY <1>4 DEF Creates
<1> QED
  BY <1>1, <1>5, <1>6, <1>7 DEF Carries, s

LEMMA CancelledOf ==
  ASSUME NEW q \in Seq(Row), NEW m
  PROVE  /\ KeepRunningOf(q, m) \in Seq(Row)
         /\ \A n, d : Configures(KeepRunningOf(q, m), n, d) => Configures(q, n, d)
         /\ \A n : n # m => Carries(q, KeepRunningOf(q, m), n)
<1> DEFINE I == {i \in DOMAIN q : q[i].running \/ q[i].node # m}
<1>1. I \in SUBSET DOMAIN q
  OBVIOUS
<1>2. \A n : n # m =>
         \A i \in DOMAIN q : InstanceRow(q[i], n) \/ ConfigRow(q[i], n) => i \in I
  BY DEF InstanceRow, ConfigRow
<1> HIDE DEF I
<1>3. Subsequence(q, I) \in Seq(Row)
  BY <1>1, SubsequenceProperties
<1>4. \A n : /\ \A d : Configures(Subsequence(q, I), n, d) => Configures(q, n, d)
             /\ n # m => Carries(q, Subsequence(q, I), n)
  BY <1>1, <1>2, SubsequenceCarries
<1> QED
  BY <1>3, <1>4 DEF KeepRunningOf, I

LEMMA CancelledAll ==
  ASSUME NEW q \in Seq(Row)
  PROVE  \A n, d : Configures(KeepRunning(q), n, d) => Configures(q, n, d)
<1>1. {i \in DOMAIN q : q[i].running} \in SUBSET DOMAIN q
  OBVIOUS
<1> QED
  BY <1>1, SubsequenceCarries DEF KeepRunning

LEMMA ClaimCarries ==
  ASSUME Base, Claim \/ HelloWrites, NEW n
  PROVE  Carries(rows, rows', n)
<1>1. CASE Claim
  BY <1>1, ClaimMarks, RelabelCarries
<1>2. CASE HelloWrites
  <2>1. rows' = [i \in DOMAIN rows |-> [rows[i] EXCEPT !.running = FALSE]]
    BY <1>2 DEF HelloWrites
  <2>2. /\ DOMAIN rows' = DOMAIN rows
        /\ \A i \in DOMAIN rows : rows'[i] = [rows[i] EXCEPT !.running = FALSE]
    BY <2>1
  <2>3. \A i \in DOMAIN rows : /\ rows'[i].kind = rows[i].kind
                               /\ rows'[i].node = rows[i].node /\ rows'[i].rev = rows[i].rev
    BY <2>2, RowType DEF Row
  <2> QED
    BY <2>2, <2>3, RelabelCarries
<1> QED
  BY <1>1, <1>2

LEMMA SameCarries ==
  ASSUME NEW q, NEW n
  PROVE  Carries(q, q, n)
BY DEF Carries

LEMMA GrowsCarries ==
  ASSUME Base, Grows, NEW n
  PROVE  Carries(rows, rows', n)
<1>1. PICK new \in Seq(Row) : /\ rows' = rows \o new
                             /\ \A k \in DOMAIN new : new[k].kind # "apply_config"
  BY DEF Grows
<1>2. \A k \in DOMAIN new : ~ConfigRow(new[k], n)
  BY <1>1 DEF ConfigRow
<1>3. rows \in Seq(Row)
  BY DEF Base, TypeOK
<1> QED
  BY <1>1, <1>2, <1>3, ConcatCarries

LEMMA PlanCarries ==
  ASSUME Base, NEW t, PlanWrites(t), NEW n \in Nodes
  PROVE  Carries(rows, rows', n)
<1>1. PICK p \in Plans,
           cancelled \in {t.live \cap {q \in Plans : Live(q)}, {q \in Plans : Live(q)}} :
          rows' = Append(Subsequence(rows, {i \in DOMAIN rows :
                                                \/ rows[i].running
                                                \/ rows[i].kind # "discover_host"
                                                \/ rows[i].plan \notin cancelled}),
                         [Command("discover_host", NoNode) EXCEPT !.plan = p])
  BY DEF PlanWrites
<1> DEFINE I == {i \in DOMAIN rows : \/ rows[i].running
                                     \/ rows[i].kind # "discover_host"
                                     \/ rows[i].plan \notin cancelled}
           r == [Command("discover_host", NoNode) EXCEPT !.plan = p]
           s == Subsequence(rows, I)
<1>2. rows \in Seq(Row) /\ I \in SUBSET DOMAIN rows
  BY DEF Base, TypeOK
<1>3. r \in Row /\ ~ConfigRow(r, n)
  <2>1. Command("discover_host", NoNode) \in Row /\ p \in 0 .. MaxPlans
    BY CommandType, BoundsAssumption DEF Kinds, Plans
  <2> QED
    BY <2>1 DEF Row, Command, ConfigRow
<1>4. rows' = Append(s, r)
  BY <1>1
<1>5. \A i \in DOMAIN rows : InstanceRow(rows[i], n) \/ ConfigRow(rows[i], n) => i \in I
  BY DEF InstanceRow, ConfigRow
<1> HIDE DEF I, r
<1>6. s \in Seq(Row) /\ Carries(rows, s, n)
  BY <1>2, <1>5, SubsequenceProperties, SubsequenceCarries
<1>7. Carries(s, rows', n)
  BY <1>3, <1>4, <1>6, AppendCarries
<1> QED
  BY <1>6, <1>7 DEF Carries

Completing(n) == open.what = "apply" /\ open.node = n

(* Something is under way that will decide the Node. *)
Worked(n) == \/ \E j \in jobs : j.node = n
             \/ Creates(rows, n)
             \/ desiredRevision[n] \in Configs(n)

(* Every configuration of a Node was asked for, and a completion that has  *)
(* read the last of them knows it.                                         *)
ConfigsAsked(n) == /\ \A r \in Configs(n) : r <= desiredRevision[n]
                   /\ Completing(n) /\ open.rev = desiredRevision[n] => open.caughtUp

(* Unless one ended while an older one was under way, the last asked for   *)
(* is under way while any is; and the Node is not left provisioning.       *)
LastIsUnderWay(n) == Configs(n) # {} => desiredRevision[n] \in Configs(n)
ProvisioningIsWorked(n) ==
    n \in managed \ lost /\ lifecycleState[n] = "PROVISIONING" => Worked(n)

NodeWaits(n) == n \notin outrun => LastIsUnderWay(n) /\ ProvisioningIsWorked(n)

NodeInv == \A n \in Nodes : ConfigsAsked(n) /\ NodeWaits(n)

LEMMA InConfigs ==
  ASSUME NEW n, NEW r
  PROVE  /\ r \in Configs(n) <=> Configures(rows, n, r) \/ (Completing(n) /\ open.rev = r)
         /\ r \in Configs(n)' <=>
               Configures(rows', n, r) \/ (Completing(n)' /\ open'.rev = r)
BY DEF Configs, Active, Configures, ConfigRow, Completing

LEMMA OvertakesCompletes ==
  ASSUME Base, Overtakes, NEW n
  PROVE  /\ Completing(n)' <=> Completing(n)
         /\ Completing(n) => open'.caughtUp = open.caughtUp /\ open'.rev = open.rev
<1>1. TypeOK
  BY DEF Base
<1>2. /\ open'.what = open.what
      /\ open.what = "apply" => /\ open'.node = open.node /\ open'.caughtUp = open.caughtUp
                                /\ open'.rev = open.rev
  BY <1>1, OvertakenStays
<1> QED
  BY <1>2 DEF Completing

LEMMA RevisionTypes ==
  ASSUME Base, NEW n \in Nodes, ConfigsAsked(n)
  PROVE  /\ desiredRevision[n] \in Nat /\ Configs(n) \subseteq Nat
         /\ \A r \in Configs(n) : r <= desiredRevision[n]
<1>1. desiredRevision[n] \in Nat
  BY BoundsAssumption DEF Base, TypeOK
<1>2. ASSUME NEW r, Configures(rows, n, r)
      PROVE  r \in Nat
  <2>1. PICK i \in DOMAIN rows : rows[i].rev = r
    BY <1>2 DEF Configures
  <2> QED
    BY <2>1, RowType, BoundsAssumption DEF Row
<1>3. ASSUME Completing(n)
      PROVE  open.rev \in Nat
  <2>1. open.rev \in 0 .. MaxRevision
    BY <1>3 DEF Completing, Base, TypeOK, Transaction
  <2> QED
    BY <2>1, BoundsAssumption
<1> QED
  BY <1>1, <1>2, <1>3, InConfigs DEF ConfigsAsked

(* A step that keeps what is under way for the Node. *)
LEMMA NodeStays ==
  ASSUME Base, NEW n \in Nodes, ConfigsAsked(n), NodeWaits(n), Carries(rows, rows', n),
         desiredRevision'[n] = desiredRevision[n], n \in outrun => n \in outrun',
         \/ Overtakes
         \/ ~Completing(n) /\ ~Completing(n)',
         n \in managed' \ lost' /\ lifecycleState'[n] = "PROVISIONING"
            => \/ Worked(n)'
               \/ /\ n \in managed \ lost /\ lifecycleState[n] = "PROVISIONING"
                  /\ \A j \in jobs : j.node = n => j \in jobs'
  PROVE  ConfigsAsked(n)' /\ NodeWaits(n)'
<1>1. /\ Completing(n)' <=> Completing(n)
      /\ Completing(n) => open'.caughtUp = open.caughtUp /\ open'.rev = open.rev
  BY OvertakesCompletes
<1>2. \A r : Configures(rows', n, r) <=> Configures(rows, n, r)
  BY DEF Carries
<1>3. Configs(n)' = Configs(n)
  <2>1. \A r : r \in Configs(n)' <=> r \in Configs(n)
    BY <1>1, <1>2, InConfigs
  <2>2. \A r \in Configs(n)' : r \in Configs(n)
    BY <2>1
  <2>3. \A r \in Configs(n) : r \in Configs(n)'
    BY <2>1
  <2> QED
    BY <2>2, <2>3
<1>4. ConfigsAsked(n)'
  BY <1>1, <1>3 DEF ConfigsAsked
<1>5. Creates(rows, n) => Creates(rows', n)
  BY DEF Carries
<1>6. Worked(n) /\ (\A j \in jobs : j.node = n => j \in jobs') => Worked(n)'
  BY <1>3, <1>5 DEF Worked
<1>7. NodeWaits(n)'
  BY <1>3, <1>6 DEF NodeWaits, LastIsUnderWay, ProvisioningIsWorked
<1> QED
  BY <1>4, <1>7

(* A step that ends configurations of the Node, and decides it or leaves   *)
(* it a job or another configuration.                                      *)
LEMMA NodeEnds ==
  ASSUME Base, NEW n \in Nodes, ConfigsAsked(n), NodeWaits(n),
         \A r : Configures(rows', n, r) => Configures(rows, n, r),
         Overtakes \/ ~Completing(n)',
         desiredRevision'[n] = desiredRevision[n], outrun' = outrun \cup Outrun,
         n \in managed' \ (lost' \cup outrun) /\ lifecycleState'[n] = "PROVISIONING"
            => (\E j \in jobs' : j.node = n) \/ Configs(n)' # {}
  PROVE  ConfigsAsked(n)' /\ NodeWaits(n)'
<1> DEFINE d == desiredRevision[n]
<1>1. Completing(n)' => /\ Completing(n) /\ open'.caughtUp = open.caughtUp
                        /\ open'.rev = open.rev
  BY OvertakesCompletes
<1>2. \A r \in Configs(n)' : r \in Configs(n)
  BY <1>1, InConfigs
<1>3. ConfigsAsked(n)'
  BY <1>1, <1>2 DEF ConfigsAsked
<1>4. ASSUME n \notin outrun', NEW s \in Configs(n)'
      PROVE  d \in Configs(n)'
  <2>1. s \in Configs(n) /\ n \notin outrun
    BY <1>2, <1>4
  <2>2. d \in Configs(n)
    BY <2>1 DEF NodeWaits, LastIsUnderWay
  <2>3. s \in Nat /\ d \in Nat /\ s <= d
    BY <2>1, RevisionTypes
  <2> SUFFICES ASSUME d \notin Configs(n)' PROVE FALSE
    OBVIOUS
  <2>4. d \in Configs(n) \ Configs(n)' /\ s < d
    BY <1>4, <2>2, <2>3
  <2>5. n \in Outrun
    <3> HIDE DEF d
    <3> QED
      BY <1>4, <2>4 DEF Outrun
  <2> QED
    BY <1>4, <2>5
<1>5. n \notin outrun' => LastIsUnderWay(n)'
  BY <1>4 DEF LastIsUnderWay
<1>6. n \notin outrun' => ProvisioningIsWorked(n)'
  BY <1>4 DEF ProvisioningIsWorked, Worked
<1> QED
  BY <1>3, <1>5, <1>6 DEF NodeWaits

LEMMA NodeUntouched ==
  ASSUME Base, NEW n \in Nodes, ConfigsAsked(n), NodeWaits(n), Carries(rows, rows', n), Overtakes,
         UNCHANGED <<managed, desiredRevision, lifecycleState, outrun>>,
         lost \subseteq lost', jobs \subseteq jobs'
  PROVE  ConfigsAsked(n)' /\ NodeWaits(n)'
<1>1. /\ desiredRevision'[n] = desiredRevision[n] /\ (n \in outrun => n \in outrun')
      /\ n \in managed' \ lost' /\ lifecycleState'[n] = "PROVISIONING"
            => /\ n \in managed \ lost /\ lifecycleState[n] = "PROVISIONING"
               /\ \A j \in jobs : j.node = n => j \in jobs'
  OBVIOUS
<1> QED
  BY <1>1, NodeStays

LEMMA EnqueueKeeps ==
  ASSUME NEW J, Enqueue(J)
  PROVE  /\ jobs \subseteq jobs' /\ lost \subseteq lost'
         /\ \A j \in J : j \in jobs' \/ j.node \in lost'
BY Zenon DEF Enqueue

(* Steps that are about no Node, or only ask something of it. *)
LEMMA NodeWaitsElsewhere ==
  ASSUME Base, NEW n \in Nodes, ConfigsAsked(n), NodeWaits(n),
         \/ Claim \/ HelloReads \/ HelloWrites \/ RenewalBlocks \/ RenewalQueues
         \/ \E S \in SUBSET Nodes : CreatePlan(S)
         \/ \E p \in Plans : PlanExpires(p) \/ GetPlan(p)
         \/ \E m \in Nodes, closed \in BOOLEAN : Reconfigure(m, closed)
         \/ \E m \in Nodes : CertificateExpires(m) \/ RenewalReads(m)
  PROVE  ConfigsAsked(n)' /\ NodeWaits(n)'
<1>1. CASE Claim \/ HelloWrites
  <2>1. Carries(rows, rows', n)
    BY <1>1, ClaimCarries
  <2>2. /\ Overtakes
        /\ UNCHANGED <<managed, desiredRevision, lifecycleState, outrun, lost, jobs>>
    BY <1>1 DEF Claim, HelloWrites, nodeVars, histVars
  <2> QED
    BY <2>1, <2>2, NodeUntouched
<1>2. ASSUME NEW S \in SUBSET Nodes, CreatePlan(S)
      PROVE  ConfigsAsked(n)' /\ NodeWaits(n)'
  <2>1. Carries(rows, rows', n)
    BY <1>2, SameCarries, PlanCarries DEF CreatePlan
  <2>2. /\ Overtakes
        /\ UNCHANGED <<managed, desiredRevision, lifecycleState, outrun, lost, jobs>>
    BY <1>2 DEF CreatePlan, PlanWrites, nodeVars, histVars
  <2> QED
    BY <2>1, <2>2, NodeUntouched
<1>3. CASE RenewalQueues
  <2>1. Carries(rows, rows', n)
    BY <1>3, RenewalRows, SameCarries, GrowsCarries
  <2>2. /\ Overtakes
        /\ UNCHANGED <<managed, desiredRevision, lifecycleState, outrun>>
        /\ lost \subseteq lost' /\ jobs \subseteq jobs'
    BY <1>3, EnqueueKeeps DEF RenewalQueues, nodeVars
  <2> QED
    BY <2>1, <2>2, NodeUntouched
<1>4. ASSUME \/ HelloReads \/ RenewalBlocks
             \/ \E p \in Plans : PlanExpires(p) \/ GetPlan(p)
             \/ \E m \in Nodes, closed \in BOOLEAN : Reconfigure(m, closed)
             \/ \E m \in Nodes : CertificateExpires(m) \/ RenewalReads(m)
      PROVE  ConfigsAsked(n)' /\ NodeWaits(n)'
  <2>1. /\ Overtakes /\ rows' = rows
        /\ UNCHANGED <<managed, desiredRevision, lifecycleState, outrun, lost>>
        /\ jobs \subseteq jobs'
    BY <1>4 DEF HelloReads, RenewalBlocks, PlanExpires, GetPlan, Reconfigure,
       CertificateExpires, RenewalReads, nodeVars, histVars
  <2>2. Carries(rows, rows', n)
    BY <2>1, SameCarries
  <2> QED
    BY <2>1, <2>2, NodeUntouched
<1> QED
  BY <1>1, <1>2, <1>3, <1>4

(* Nodes that are made, retried or published are worked on. *)
LEMMA NodeRetried ==
  ASSUME Base, NEW n \in Nodes, ConfigsAsked(n), NodeWaits(n), Grows,
         Overtakes \/ (~Completing(n) /\ ~Completing(n)'),
         NEW S, \A m \in S : Creates(rows', m),
         n \notin S => /\ lifecycleState'[n] = lifecycleState[n]
                       /\ n \in managed' => n \in managed,
         UNCHANGED <<desiredRevision, jobs, lost, outrun>>
  PROVE  ConfigsAsked(n)' /\ NodeWaits(n)'
<1>1. Carries(rows, rows', n)
  BY GrowsCarries
<1>2. n \in S => Worked(n)'
  BY DEF Worked
<1>3. /\ desiredRevision'[n] = desiredRevision[n] /\ (n \in outrun => n \in outrun')
      /\ n \in managed' \ lost' /\ lifecycleState'[n] = "PROVISIONING"
            => \/ Worked(n)'
               \/ /\ n \in managed \ lost /\ lifecycleState[n] = "PROVISIONING"
                  /\ \A j \in jobs : j.node = n => j \in jobs'
  BY <1>2
<1> QED
  BY <1>1, <1>3, NodeStays

LEMMA NodePublished ==
  ASSUME Base, NEW n \in Nodes, ConfigsAsked(n), NodeWaits(n), NEW t, PublishWrites(t),
         Overtakes \/ (~Completing(n) /\ ~Completing(n)')
  PROVE  ConfigsAsked(n)' /\ NodeWaits(n)'
<1>1. /\ UNCHANGED <<rows, managed, desiredRevision, outrun>>
      /\ lifecycleState' = [m \in Nodes |-> IF m \in t.nodes THEN "PROVISIONING"
                                                             ELSE lifecycleState[m]]
      /\ Enqueue([node : t.nodes, closed : {TRUE}])
  BY DEF PublishWrites
<1>2. /\ jobs \subseteq jobs' /\ lost \subseteq lost'
      /\ \A j \in [node : t.nodes, closed : {TRUE}] : j \in jobs' \/ j.node \in lost'
  BY <1>1, EnqueueKeeps
<1>3. ASSUME n \in t.nodes
      PROVE  n \in lost' \/ Worked(n)'
  <2> DEFINE j == [node |-> n, closed |-> TRUE]
  <2>1. j \in [node : t.nodes, closed : {TRUE}] /\ j.node = n
    BY <1>3
  <2> HIDE DEF j
  <2>2. j \in jobs' \/ n \in lost'
    BY <1>2, <2>1
  <2> QED
    BY <2>1, <2>2 DEF Worked
<1>4. n \notin t.nodes => lifecycleState'[n] = lifecycleState[n]
  BY <1>1
<1>5. /\ desiredRevision'[n] = desiredRevision[n] /\ (n \in outrun => n \in outrun')
      /\ n \in managed' \ lost' /\ lifecycleState'[n] = "PROVISIONING"
            => \/ Worked(n)'
               \/ /\ n \in managed \ lost /\ lifecycleState[n] = "PROVISIONING"
                  /\ \A j \in jobs : j.node = n => j \in jobs'
  BY <1>1, <1>2, <1>3, <1>4
<1>6. Carries(rows, rows', n)
  BY <1>1, SameCarries
<1> QED
  BY <1>5, <1>6, NodeStays

LEMMA NodeWaitsAfterRequest ==
  ASSUME Base, NEW n \in Nodes, ConfigsAsked(n), NodeWaits(n),
         \/ \E S \in SUBSET Nodes : Retry(S) \/ Publish(S)
         \/ \E p \in Plans : Provision(p)
  PROVE  ConfigsAsked(n)' /\ NodeWaits(n)'
<1>1. ASSUME NEW S \in SUBSET Nodes, Retry(S)
      PROVE  ConfigsAsked(n)' /\ NodeWaits(n)'
  <2>1. Grows /\ \A m \in S : Creates(rows', m)
    BY <1>1, RetryRequestRows
  <2>2. /\ Overtakes
        /\ UNCHANGED <<managed, desiredRevision, jobs, lost, outrun>>
        /\ n \notin S => lifecycleState'[n] = lifecycleState[n]
    BY <1>1 DEF Retry, RetryWrites, RetryRead, histVars
  <2> QED
    BY <2>1, <2>2, NodeRetried
<1>2. ASSUME NEW S \in SUBSET Nodes, Publish(S)
      PROVE  ConfigsAsked(n)' /\ NodeWaits(n)'
  BY <1>2, NodePublished DEF Publish
<1>3. ASSUME NEW p \in Plans, Provision(p)
      PROVE  ConfigsAsked(n)' /\ NodeWaits(n)'
  <2> DEFINE S == planReady[p]
  <2>1. Grows /\ \A m \in S : Creates(rows', m)
    BY <1>3, ProvisionRows DEF Base, TypeOK
  <2>2. /\ Overtakes
        /\ UNCHANGED <<lifecycleState, desiredRevision, jobs, lost, outrun>>
        /\ n \notin S => (n \in managed' => n \in managed)
    BY <1>3 DEF Provision, histVars
  <2> HIDE DEF S
  <2> QED
    BY <2>1, <2>2, NodeRetried
<1> QED
  BY <1>1, <1>2, <1>3

(* The next configuration is the last of its Node, in a row that is queued *)
(* or in a new one; other Nodes keep theirs.                               *)
LEMMA QueuedIsLast ==
  ASSUME Base, NEW n \in Nodes, NEW closed \in BOOLEAN, QueueConfig(n, closed)
  PROVE  /\ desiredRevision'[n] = desiredRevision[n] + 1
         /\ Configures(rows', n, desiredRevision'[n])
         /\ \A r : Configures(rows', n, r) => Configures(rows, n, r) \/ r = desiredRevision'[n]
         /\ \A m \in Nodes : m # n => Carries(rows, rows', m)
<1> DEFINE r == desiredRevision[n] + 1
<1>1. /\ rows \in Seq(Row) /\ Len(rows) \in Nat /\ DOMAIN rows = 1 .. Len(rows)
      /\ \A i \in DOMAIN rows : rows[i] \in Row
  BY LenProperties, ElementOfSeq DEF Base, TypeOK
<1>2. r \in 0 .. MaxRevision /\ desiredRevision'[n] = r
  BY BoundsAssumption DEF QueueConfig, Base, TypeOK
<1>3. CASE QueuedConfigs(n) # {}
  <2>1. PICK i \in QueuedConfigs(n) :
            rows' = [rows EXCEPT ![i].rev = r, ![i].closed = @ \/ closed]
    BY <1>3 DEF QueueConfig
  <2>2. i \in DOMAIN rows /\ ConfigRow(rows[i], n)
    BY <2>1 DEF QueuedConfigs, Active, ConfigRow
  <2> HIDE DEF r
  <2>3. /\ DOMAIN rows' = DOMAIN rows
        /\ rows'[i].rev = r /\ rows'[i].kind = rows[i].kind /\ rows'[i].node = rows[i].node
        /\ \A k \in DOMAIN rows : k # i => rows'[k] = rows[k]
    <3>1. rows'[i] = [rows[i] EXCEPT !.rev = r, !.closed = rows[i].closed \/ closed]
      BY <2>1, <2>2
    <3>2. rows[i] \in Row
      BY <1>1, <2>2
    <3>3. rows'[i].rev = r /\ rows'[i].kind = rows[i].kind /\ rows'[i].node = rows[i].node
      BY <3>1, <3>2 DEF Row
    <3>4. DOMAIN rows' = DOMAIN rows /\ \A k \in DOMAIN rows : k # i => rows'[k] = rows[k]
      BY <2>1
    <3> QED
      BY <3>3, <3>4
  <2>4. ConfigRow(rows'[i], n)
    BY <2>2, <2>3 DEF ConfigRow
  <2>5. /\ Configures(rows', n, r)
        /\ \A s : Configures(rows', n, s) => Configures(rows, n, s) \/ s = r
    BY <2>2, <2>3, <2>4 DEF Configures
  <2>6. ASSUME NEW m \in Nodes, m # n
        PROVE  Carries(rows, rows', m)
    <3>1. \A k \in DOMAIN rows : /\ InstanceRow(rows'[k], m) <=> InstanceRow(rows[k], m)
                                 /\ ConfigRow(rows'[k], m) <=> ConfigRow(rows[k], m)
      BY <2>2, <2>3, <2>6 DEF InstanceRow, ConfigRow
    <3>2. \A k \in DOMAIN rows : ConfigRow(rows[k], m) => rows'[k] = rows[k]
      BY <2>2, <2>3, <2>6 DEF ConfigRow
    <3>3. Creates(rows, m) => Creates(rows', m)
      BY <2>3, <3>1 DEF Creates
    <3>4. \A d : Configures(rows, m, d) <=> Configures(rows', m, d)
      BY <2>3, <3>1, <3>2 DEF Configures
    <3> QED
      BY <3>3, <3>4 DEF Carries
  <2> QED
    BY <1>2, <2>5, <2>6 DEF r
<1>4. CASE QueuedConfigs(n) = {}
  <2> DEFINE c == [Command("apply_config", n) EXCEPT !.rev = r, !.closed = closed]
  <2>1. rows' = Append(rows, c)
    BY <1>4 DEF QueueConfig
  <2>2. c \in Row
    <3>1. Command("apply_config", n) \in Row
      BY CommandType DEF Kinds
    <3> QED
      BY <3>1, <1>2 DEF Row
  <2>3. c.kind = "apply_config" /\ c.node = n /\ c.rev = r
    BY DEF Command
  <2> HIDE DEF c, r
  <2>4. /\ DOMAIN rows' = 1 .. Len(rows) + 1
        /\ \A k \in DOMAIN rows : rows'[k] = rows[k]
        /\ rows'[Len(rows) + 1] = c
    BY <1>1, <2>1, <2>2
  <2>5. /\ Len(rows) + 1 \in DOMAIN rows' /\ ConfigRow(rows'[Len(rows) + 1], n)
        /\ \A k \in DOMAIN rows' : k # Len(rows) + 1 => k \in DOMAIN rows
    BY <1>1, <2>3, <2>4 DEF ConfigRow
  <2>6. /\ Configures(rows', n, r)
        /\ \A s : Configures(rows', n, s) => Configures(rows, n, s) \/ s = r
    BY <2>3, <2>4, <2>5 DEF Configures
  <2>7. ASSUME NEW m \in Nodes, m # n
        PROVE  Carries(rows, rows', m)
    <3>1. ~ConfigRow(c, m)
      BY <2>3, <2>7 DEF ConfigRow
    <3> QED
      BY <1>1, <2>1, <2>2, <3>1, AppendCarries
  <2> QED
    BY <1>2, <2>6, <2>7 DEF r
<1> QED
  BY <1>3, <1>4

LEMMA NodeWaitsAfterStart ==
  ASSUME Base, NEW n \in Nodes, ConfigsAsked(n), NodeWaits(n), NEW j \in Job, StartNode(j)
  PROVE  ConfigsAsked(n)' /\ NodeWaits(n)'
<1>1. /\ j.node \in Nodes /\ j.closed \in BOOLEAN /\ Overtakes
      /\ managed' = managed /\ jobs' = jobs \ {j} /\ lost' = lost \ {j.node}
      /\ lifecycleState \in [Nodes -> LifecycleStates]
      /\ desiredRevision \in [Nodes -> 0 .. MaxRevision]
  BY DEF StartNode, Job, Base, TypeOK
<1>2. CASE QueueConfig(j.node, j.closed) /\ n = j.node
  <2> DEFINE d == desiredRevision[n]
  <2>1. /\ desiredRevision'[n] = d + 1 /\ Configures(rows', n, d + 1)
        /\ \A r : Configures(rows', n, r) => Configures(rows, n, r) \/ r = d + 1
    BY <1>1, <1>2, QueuedIsLast
  <2>2. d \in Nat /\ \A r \in Configs(n) : r \in Nat /\ r <= d
    BY RevisionTypes
  <2>3. /\ Completing(n)' => Completing(n)
        /\ Completing(n) => open'.rev = open.rev
    BY <1>1, OvertakesCompletes
  <2>4. \A r \in Configs(n)' : r \in Configs(n) \/ r = d + 1
    BY <2>1, <2>3, InConfigs
  <2>5. Completing(n)' => open'.rev \in Configs(n)
    BY <2>3, InConfigs
  <2> HIDE DEF d
  <2>6. \A r \in Configs(n)' : r <= d + 1
    BY <2>2, <2>4
  <2>7. ~(Completing(n)' /\ open'.rev = d + 1)
    BY <2>2, <2>5
  <2>8. ConfigsAsked(n)'
    BY <2>1, <2>6, <2>7 DEF ConfigsAsked
  <2>9. d + 1 \in Configs(n)'
    BY <2>1, InConfigs
  <2> QED
    BY <2>1, <2>8, <2>9 DEF NodeWaits, LastIsUnderWay, ProvisioningIsWorked, Worked
<1>3. CASE QueueConfig(j.node, j.closed) /\ n # j.node
  <2>1. Carries(rows, rows', n)
    BY <1>1, <1>3, QueuedIsLast
  <2>2. /\ lifecycleState'[n] = lifecycleState[n]
        /\ desiredRevision'[n] = desiredRevision[n]
        /\ n \in outrun => n \in outrun'
    BY <1>1, <1>3 DEF QueueConfig
  <2>3. n \in managed' \ lost' /\ lifecycleState'[n] = "PROVISIONING"
            => /\ n \in managed \ lost /\ lifecycleState[n] = "PROVISIONING"
               /\ \A k \in jobs : k.node = n => k \in jobs'
    BY <1>1, <1>3, <2>2
  <2> QED
    BY <1>1, <2>1, <2>2, <2>3, NodeStays
<1>4. CASE QueueFails(j.node, j.closed)
  <2>1. rows' = rows \/ rows' = Append(rows, Command("stop_instance", j.node))
    BY <1>4 DEF QueueFails
  <2>2. /\ Command("stop_instance", j.node) \in Row
        /\ ~ConfigRow(Command("stop_instance", j.node), n)
    <3>1. Command("stop_instance", j.node) \in Row
      BY <1>1, CommandType DEF Kinds
    <3> QED
      BY <3>1 DEF Command, ConfigRow
  <2>3. Carries(rows, rows', n)
    <3>1. rows \in Seq(Row)
      BY DEF Base, TypeOK
    <3>2. Carries(rows, rows, n)
      BY SameCarries
    <3>3. Carries(rows, Append(rows, Command("stop_instance", j.node)), n)
      BY <2>2, <3>1, AppendCarries
    <3> QED
      BY <2>1, <3>2, <3>3
  <2>4. /\ desiredRevision'[n] = desiredRevision[n] /\ outrun' = outrun
        /\ n = j.node => lifecycleState'[n] # "PROVISIONING"
        /\ n # j.node => lifecycleState'[n] = lifecycleState[n]
    BY <1>1, <1>4 DEF QueueFails, KeptState
  <2>5. n \in managed' \ lost' /\ lifecycleState'[n] = "PROVISIONING"
            => /\ n \in managed \ lost /\ lifecycleState[n] = "PROVISIONING"
               /\ \A k \in jobs : k.node = n => k \in jobs'
    BY <1>1, <2>4
  <2> QED
    BY <1>1, <2>3, <2>4, <2>5, NodeStays
<1> QED
  BY <1>2, <1>3, <1>4 DEF StartNode

(* A result takes its row, and may cancel others; it adds at the most the  *)
(* stop of an instance.                                                    *)
LEMMA ResultLeaves ==
  ASSUME Base, NEW i \in DOMAIN rows, Succeeds(i) \/ Fails(i) \/ RollsBack(i)
  PROVE  \/ rows' = Without(i)
         \/ rows' = KeepRunningOf(Without(i), rows[i].node)
         \/ /\ rows[i].node # NoNode
            /\ rows' = Append(KeepRunningOf(Without(i), rows[i].node),
                              Command("stop_instance", rows[i].node))
         \/ MachineFails(i) /\ rows' = KeepRunning(Without(i))
<1>1. CASE ClosedApplyFails(i)
  BY <1>1, RowType DEF ClosedApplyFails, Fits
<1>2. CASE ~ClosedApplyFails(i)
  BY <1>2 DEF Succeeds, Discovered, Reconciled, Certified, Applied, NothingElse, Fails,
     DiscoveryFails, CertificateFails, InstanceFails, MachineFails, RollsBack, ApplyRolledBack
<1> QED
  BY <1>1, <1>2

LEMMA StopAppended ==
  ASSUME Base, NEW i \in DOMAIN rows, rows[i].node # NoNode, NEW q \in Seq(Row), NEW n
  PROVE  Carries(q, Append(q, Command("stop_instance", rows[i].node)), n)
<1> DEFINE c == Command("stop_instance", rows[i].node)
<1>1. c \in Row
  BY RowType, CommandType DEF Kinds, Row
<1>2. ~ConfigRow(c, n)
  BY DEF Command, ConfigRow
<1> HIDE DEF c
<1>3. Carries(q, Append(q, c), n)
  BY <1>1, <1>2, AppendCarries
<1> QED
  BY <1>3 DEF c

LEMMA ResultShrinks ==
  ASSUME Base, NEW i \in DOMAIN rows, Succeeds(i) \/ Fails(i) \/ RollsBack(i), NEW n
  PROVE  \A r : Configures(rows', n, r) => Configures(rows, n, r)
<1> DEFINE q == Without(i)
           s == KeepRunningOf(q, rows[i].node)
<1>1. /\ q \in Seq(Row)
      /\ \A r : Configures(q, n, r) => Configures(rows, n, r)
  BY TakenRows DEF Base, TypeOK
<1>2. s \in Seq(Row) /\ \A r : Configures(s, n, r) => Configures(q, n, r)
  BY <1>1, CancelledOf
<1>3. \A r : Configures(KeepRunning(q), n, r) => Configures(q, n, r)
  BY <1>1, CancelledAll
<1>4. rows[i].node # NoNode =>
         Carries(s, Append(s, Command("stop_instance", rows[i].node)), n)
  BY <1>2, StopAppended
<1>5. \/ rows' = q \/ rows' = s \/ rows' = KeepRunning(q)
      \/ /\ rows[i].node # NoNode
         /\ rows' = Append(s, Command("stop_instance", rows[i].node))
  BY ResultLeaves
<1> HIDE DEF q, s
<1>6. CASE rows' = q \/ rows' = s \/ rows' = KeepRunning(q)
  BY <1>1, <1>2, <1>3, <1>6
<1>7. CASE /\ rows[i].node # NoNode
           /\ rows' = Append(s, Command("stop_instance", rows[i].node))
  BY <1>1, <1>2, <1>4, <1>7 DEF Carries
<1> QED
  BY <1>5, <1>6, <1>7

(* A result that is not about the Node. *)
LEMMA NodeWaitsBesideResult ==
  ASSUME Base, NEW n \in Nodes, ConfigsAsked(n), NodeWaits(n),
         NEW i \in DOMAIN rows, Frame, outrun \subseteq outrun',
         Succeeds(i) \/ Fails(i) \/ RollsBack(i), ~MachineFails(i),
         \/ rows[i].node # n
         \/ Discovered(i) \/ Certified(i) \/ NothingElse(i) \/ DiscoveryFails(i)
  PROVE  ConfigsAsked(n)' /\ NodeWaits(n)'
<1> DEFINE m == rows[i].node
           q == Without(i)
           s == KeepRunningOf(q, m)
<1>1. lifecycleState \in [Nodes -> LifecycleStates] /\ rows \in Seq(Row)
  BY DEF Base, TypeOK
<1>2. ~InstanceRow(rows[i], n) /\ ~ConfigRow(rows[i], n)
  BY DEF InstanceRow, ConfigRow, Discovered, Certified, NothingElse, DiscoveryFails
<1>3. q \in Seq(Row) /\ Carries(rows, q, n)
  BY <1>1, <1>2, TakenRows
<1>4. ASSUME rows' = q
      PROVE  Carries(rows, rows', n)
  BY <1>3, <1>4
<1>5. ASSUME rows' # q
      PROVE  Carries(rows, rows', n)
  <2>1. m # n
    BY <1>5 DEF Discovered, Certified, NothingElse, DiscoveryFails
  <2>2. s \in Seq(Row) /\ Carries(q, s, n)
    BY <1>3, <2>1, CancelledOf
  <2>3. m # NoNode => Carries(s, Append(s, Command("stop_instance", m)), n)
    BY <2>2, StopAppended
  <2>4. rows' = s \/ (m # NoNode /\ rows' = Append(s, Command("stop_instance", m)))
    BY <1>5, ResultLeaves
  <2> HIDE DEF m, q, s
  <2> QED
    BY <1>3, <2>2, <2>3, <2>4 DEF Carries
<1>6. Carries(rows, rows', n)
  BY <1>4, <1>5
<1>7. lifecycleState'[n] = lifecycleState[n]
  <2>1. CASE Discovered(i) \/ Reconciled(i) \/ Certified(i) \/ NothingElse(i) \/ DiscoveryFails(i)
    BY <2>1 DEF Discovered, Reconciled, Certified, NothingElse, DiscoveryFails
  <2>2. CASE m # n
    BY <1>1, <2>1, <2>2 DEF Succeeds, Applied, ApplyRead, ApplyWrites, Fails, ClosedApplyFails,
       CertificateFails, InstanceFails, RollsBack, ApplyRolledBack
  <2> QED
    BY <2>1, <2>2
<1>8. jobs \subseteq jobs' /\ lost \subseteq lost'
  BY EnqueueKeeps DEF Succeeds, Discovered, Reconciled, Certified, Applied, ApplyWrites,
     NothingElse, Fails, RollsBack
<1>9. /\ Overtakes /\ managed' = managed
      /\ desiredRevision'[n] = desiredRevision[n] /\ (n \in outrun => n \in outrun')
      /\ n \in managed' \ lost' /\ lifecycleState'[n] = "PROVISIONING"
            => /\ n \in managed \ lost /\ lifecycleState[n] = "PROVISIONING"
               /\ \A j \in jobs : j.node = n => j \in jobs'
  BY <1>7, <1>8 DEF Frame
<1> QED
  BY <1>6, <1>9, NodeStays

(* A result that is about the Node decides it, or leaves it worked on. *)
LEMMA NodeWaitsAfterResult ==
  ASSUME Base, NEW n \in Nodes, ConfigsAsked(n), NodeWaits(n),
         NEW i \in DOMAIN rows, Frame, outrun' = outrun \cup Outrun,
         Succeeds(i) \/ Fails(i) \/ RollsBack(i)
  PROVE  ConfigsAsked(n)' /\ NodeWaits(n)'
<1> DEFINE d == desiredRevision[n]
<1>1. /\ lifecycleState \in [Nodes -> LifecycleStates] /\ rows \in Seq(Row)
      /\ Overtakes /\ desiredRevision' = desiredRevision /\ managed' = managed
      /\ managed \subseteq Nodes
  BY DEF Frame, Base, TypeOK
<1>2. \A r : Configures(rows', n, r) => Configures(rows, n, r)
  BY ResultShrinks
<1>3. ASSUME n \in managed' \ (lost' \cup outrun) /\ lifecycleState'[n] = "PROVISIONING"
                => (\E j \in jobs' : j.node = n) \/ Configs(n)' # {}
      PROVE  ConfigsAsked(n)' /\ NodeWaits(n)'
  BY <1>1, <1>2, <1>3, NodeEnds
<1>4. CASE MachineFails(i)
  <2>1. ~(n \in managed' /\ lifecycleState'[n] = "PROVISIONING")
    BY <1>1, <1>4 DEF MachineFails, SweptNodes
  <2> QED
    BY <1>3, <2>1
<1>5. CASE /\ ~MachineFails(i)
           /\ \/ rows[i].node # n
              \/ Discovered(i) \/ Certified(i) \/ NothingElse(i) \/ DiscoveryFails(i)
  BY <1>5, NodeWaitsBesideResult
<1>6. CASE rows[i].node = n /\ Reconciled(i)
  <2> DEFINE j == [node |-> n, closed |-> FALSE]
  <2>1. Enqueue({j})
    BY <1>6 DEF Reconciled
  <2>2. j \in jobs' \/ n \in lost'
    BY <2>1, EnqueueKeeps
  <2>3. (\E k \in jobs' : k.node = n) \/ n \in lost'
    BY <2>2
  <2> QED
    BY <1>3, <2>3
<1>7. CASE rows[i].node = n /\ Applied(i)
  <2>1. /\ rows' = Without(i) /\ ConfigRow(rows[i], n)
        /\ rows[i].rev = d => lifecycleState'[n] # "PROVISIONING"
    BY <1>1, <1>7 DEF Applied, ConfigRow, ApplyRead, ApplyWrites
  <2> HIDE DEF d
  <2>2. ASSUME rows[i].rev # d, n \notin outrun
        PROVE  d \in Configs(n)'
    <3>1. rows[i].rev \in Configs(n)
      BY <2>1, InConfigs DEF Configures
    <3>2. d \in Configs(n)
      BY <2>2, <3>1 DEF NodeWaits, LastIsUnderWay, d
    <3>3. Configures(rows, n, d) => Configures(rows', n, d)
      BY <1>1, <2>1, <2>2, TakenRows
    <3>4. Completing(n) => Completing(n)' /\ open'.rev = open.rev
      BY <1>1, OvertakesCompletes
    <3> QED
      BY <3>2, <3>3, <3>4, InConfigs
  <2> QED
    BY <1>3, <2>1, <2>2
<1>8. CASE /\ rows[i].node = n
           /\ \/ ClosedApplyFails(i) \/ CertificateFails(i) \/ InstanceFails(i)
              \/ ApplyRolledBack(i)
  <2>1. lifecycleState'[n] # "PROVISIONING"
    BY <1>1, <1>8 DEF ClosedApplyFails, CertificateFails, InstanceFails, ApplyRolledBack, KeptState
  <2> QED
    BY <1>3, <2>1
<1> QED
  BY <1>4, <1>5, <1>6, <1>7, <1>8 DEF Succeeds, Fails, RollsBack

LEMMA NodeWaitsAfterReads ==
  ASSUME Base, NEW n \in Nodes, ConfigsAsked(n), NodeWaits(n), TransactionReads
  PROVE  ConfigsAsked(n)' /\ NodeWaits(n)'
<1>1. /\ open = NoTransaction /\ rows \in Seq(Row)
      /\ UNCHANGED <<managed, lifecycleState, desiredRevision, jobs, lost, outrun>>
  BY DEF TransactionReads, nodeVars, histVars, Base, TypeOK
<1>2. ~Completing(n)
  BY <1>1 DEF Completing, NoTransaction
<1>3. ASSUME Carries(rows, rows', n), ~Completing(n)'
      PROVE  ConfigsAsked(n)' /\ NodeWaits(n)'
  <2>1. /\ desiredRevision'[n] = desiredRevision[n] /\ (n \in outrun => n \in outrun')
        /\ n \in managed' \ lost' /\ lifecycleState'[n] = "PROVISIONING"
              => /\ n \in managed \ lost /\ lifecycleState[n] = "PROVISIONING"
                 /\ \A j \in jobs : j.node = n => j \in jobs'
    BY <1>1
  <2> QED
    BY <1>2, <1>3, <2>1, NodeStays
<1>4. CASE rows' = rows /\ open'.what # "apply"
  <2>1. Carries(rows, rows', n) /\ ~Completing(n)'
    BY <1>4, SameCarries DEF Completing
  <2> QED
    BY <1>3, <2>1
<1>5. ASSUME NEW i \in DOMAIN rows, rows[i].kind = "apply_config",
             open' = ApplyRead(i), rows' = Without(i)
      PROVE  ConfigsAsked(n)' /\ NodeWaits(n)'
  <2>1. /\ open'.what = "apply" /\ open'.node = rows[i].node /\ open'.rev = rows[i].rev
        /\ open'.caughtUp <=> rows[i].rev = desiredRevision[rows[i].node]
    BY <1>5 DEF ApplyRead
  <2>2. CASE rows[i].node # n
    <3>1. ~InstanceRow(rows[i], n) /\ ~ConfigRow(rows[i], n)
      BY <2>2 DEF InstanceRow, ConfigRow
    <3>2. Carries(rows, rows', n)
      BY <1>1, <1>5, <3>1, TakenRows
    <3>3. ~Completing(n)'
      BY <2>1, <2>2 DEF Completing
    <3> QED
      BY <1>3, <3>2, <3>3
  <2>3. CASE rows[i].node = n
    <3>1. ConfigRow(rows[i], n) /\ Completing(n)'
      BY <1>5, <2>1, <2>3 DEF ConfigRow, Completing
    <3>2. \A r : /\ Configures(rows', n, r) => Configures(rows, n, r)
                 /\ Configures(rows, n, r) => Configures(rows', n, r) \/ rows[i].rev = r
      BY <1>1, <1>5, TakenRows
    <3>3. Configures(rows, n, rows[i].rev)
      BY <3>1 DEF Configures
    <3>4. \A r : r \in Configs(n)' <=> r \in Configs(n)
      BY <1>2, <2>1, <3>1, <3>2, <3>3, InConfigs
    <3>5. Configs(n)' = Configs(n)
      <4>1. \A r \in Configs(n)' : r \in Configs(n)
        BY <3>4
      <4>2. \A r \in Configs(n) : r \in Configs(n)'
        BY <3>4
      <4> QED
        BY <4>1, <4>2
    <3>6. ConfigsAsked(n)'
      BY <1>1, <2>1, <2>3, <3>5 DEF ConfigsAsked
    <3>7. Configs(n) # {}
      BY <3>3, InConfigs
    <3>8. NodeWaits(n)'
      BY <1>1, <3>5, <3>7 DEF NodeWaits, LastIsUnderWay, ProvisioningIsWorked, Worked
    <3> QED
      BY <3>6, <3>8
  <2> QED
    BY <2>2, <2>3
<1> QED
  BY <1>4, <1>5 DEF TransactionReads, PlanRead, RetryRead, PublishRead

LEMMA NodeWaitsAfterWrites ==
  ASSUME Base, NEW n \in Nodes, ConfigsAsked(n), NodeWaits(n), TransactionWrites
  PROVE  ConfigsAsked(n)' /\ NodeWaits(n)'
<1>1. ~Completing(n)'
  BY DEF TransactionWrites, NoTransaction, Completing
<1>2. ASSUME ~Completing(n), Carries(rows, rows', n), n \in outrun => n \in outrun',
             lifecycleState'[n] = lifecycleState[n],
             UNCHANGED <<managed, desiredRevision, jobs, lost>>
      PROVE  ConfigsAsked(n)' /\ NodeWaits(n)'
  <2>1. /\ desiredRevision'[n] = desiredRevision[n]
        /\ n \in managed' \ lost' /\ lifecycleState'[n] = "PROVISIONING"
              => /\ n \in managed \ lost /\ lifecycleState[n] = "PROVISIONING"
                 /\ \A j \in jobs : j.node = n => j \in jobs'
    BY <1>2
  <2> QED
    BY <1>1, <1>2, <2>1, NodeStays
<1>3. CASE open.what = "plan"
  <2>1. Carries(rows, rows', n)
    BY <1>3, PlanCarries DEF TransactionWrites
  <2>2. /\ ~Completing(n)
        /\ UNCHANGED <<managed, desiredRevision, lifecycleState, jobs, lost, outrun>>
    BY <1>3 DEF TransactionWrites, PlanWrites, nodeVars, histVars, Completing
  <2> QED
    BY <1>2, <2>1, <2>2
<1>4. CASE open.what = "retry"
  <2>1. Grows /\ \A m \in open.nodes : Creates(rows', m)
    BY <1>4, RetryWrittenRows
  <2>2. /\ ~Completing(n)
        /\ UNCHANGED <<managed, desiredRevision, jobs, lost, outrun>>
        /\ n \notin open.nodes => lifecycleState'[n] = lifecycleState[n]
    BY <1>4 DEF TransactionWrites, RetryWrites, histVars, Completing
  <2> QED
    BY <1>1, <2>1, <2>2, NodeRetried
<1>5. CASE open.what = "publish"
  BY <1>1, <1>5, NodePublished DEF TransactionWrites, Completing
<1>6. CASE open.what = "apply"
  <2>1. /\ ApplyWrites(open) /\ outrun' = outrun \cup Outrun
        /\ UNCHANGED <<rows, managed, desiredRevision, jobs, lost>>
        /\ lifecycleState \in [Nodes -> LifecycleStates]
    BY <1>6 DEF TransactionWrites, ApplyWrites, Base, TypeOK
  <2>2. CASE open.node # n
    <3>1. Carries(rows, rows', n)
      BY <2>1, SameCarries
    <3>2. ~Completing(n) /\ lifecycleState'[n] = lifecycleState[n]
      BY <2>1, <2>2 DEF ApplyWrites, Completing
    <3> QED
      BY <1>2, <2>1, <3>1, <3>2
  <2>3. CASE open.node = n
    <3>1. Completing(n)
      BY <1>6, <2>3 DEF Completing
    <3>2. open.caughtUp => lifecycleState'[n] # "PROVISIONING"
      BY <2>1, <2>3 DEF ApplyWrites
    <3>3. ASSUME ~open.caughtUp, n \notin outrun
          PROVE  Configs(n)' # {}
      <4>1. open.rev # desiredRevision[n]
        BY <3>1, <3>3 DEF ConfigsAsked
      <4>2. desiredRevision[n] \in Configs(n)
        BY <3>1, <3>3, InConfigs DEF NodeWaits, LastIsUnderWay
      <4>3. Configures(rows', n, desiredRevision[n])
        BY <2>1, <4>1, <4>2, InConfigs
      <4> QED
        BY <4>3, InConfigs
    <3>4. \A r : Configures(rows', n, r) => Configures(rows, n, r)
      BY <2>1
    <3> QED
      BY <1>1, <2>1, <3>2, <3>3, <3>4, NodeEnds
  <2> QED
    BY <2>2, <2>3
<1> QED
  BY <1>3, <1>4, <1>5, <1>6 DEF TransactionWrites

LEMMA NodeInvKept ==
  ASSUME Base, NodeInv, [Next]_vars
  PROVE  NodeInv'
<1> SUFFICES ASSUME NEW n \in Nodes
             PROVE  ConfigsAsked(n)' /\ NodeWaits(n)'
  BY DEF NodeInv
<1>0. ConfigsAsked(n) /\ NodeWaits(n)
  BY DEF NodeInv
<1>1. CASE UNCHANGED vars
  BY <1>0, <1>1 DEF vars, ConfigsAsked, NodeWaits, LastIsUnderWay, ProvisioningIsWorked,
     Completing, Worked, Configs, Active
<1>2. CASE \/ Claim \/ HelloReads \/ HelloWrites \/ RenewalBlocks \/ RenewalQueues
           \/ \E S \in SUBSET Nodes : CreatePlan(S)
           \/ \E p \in Plans : PlanExpires(p) \/ GetPlan(p)
           \/ \E m \in Nodes, closed \in BOOLEAN : Reconfigure(m, closed)
           \/ \E m \in Nodes : CertificateExpires(m) \/ RenewalReads(m)
  BY <1>0, <1>2, NodeWaitsElsewhere
<1>3. CASE \/ \E S \in SUBSET Nodes : Retry(S) \/ Publish(S)
           \/ \E p \in Plans : Provision(p)
  BY <1>0, <1>3, NodeWaitsAfterRequest
<1>4. ASSUME NEW j \in Job, StartNode(j)
      PROVE  ConfigsAsked(n)' /\ NodeWaits(n)'
  BY <1>0, <1>4, NodeWaitsAfterStart
<1>5. ASSUME NEW i \in DOMAIN rows, Result(i) \/ DeadlineExceeded(i)
      PROVE  ConfigsAsked(n)' /\ NodeWaits(n)'
  <2>1. /\ Frame /\ outrun' = outrun \cup Outrun
        /\ Succeeds(i) \/ Fails(i) \/ RollsBack(i)
    BY <1>5 DEF Result, DeadlineExceeded
  <2> QED
    BY <1>0, <2>1, NodeWaitsAfterResult
<1>6. CASE TransactionReads \/ TransactionWrites
  BY <1>0, <1>6, NodeWaitsAfterReads, NodeWaitsAfterWrites
<1> QED
  BY <1>1, <1>2, <1>3, <1>4, <1>5, <1>6 DEF Next

LEMMA NodeInvInit ==
  ASSUME Init
  PROVE  NodeInv
<1>1. DOMAIN rows = {} /\ open = NoTransaction /\ managed = {}
  BY DEF Init
<1>2. \A n \in Nodes : Configs(n) = {} /\ ~Completing(n)
  BY <1>1 DEF Configs, Active, Completing, NoTransaction
<1> QED
  BY <1>1, <1>2 DEF NodeInv, ConfigsAsked, NodeWaits, LastIsUnderWay, ProvisioningIsWorked

(* A Node that is provisioning has a start-node job, an instance to create *)
(* or its last configuration under way: what failures cancel, retries      *)
(* queue and later configurations replace never leaves it waiting for      *)
(* nothing, unless its job was lost or a configuration of it failed or     *)
(* ended while an older one was still under way.                           *)
THEOREM WaitingNodesAreWorkedOn == Spec => []NodeInv
<1>1. Init => NodeInv
  BY NodeInvInit
<1>2. Base /\ NodeInv /\ [Next]_vars => NodeInv'
  BY NodeInvKept
<1> QED
  BY <1>1, <1>2, BaseHolds, PTL DEF Spec

(* So when nothing is left to do, only such a Node is left provisioning,   *)
(* whatever number of commands is under way and whatever fails.            *)
THEOREM NodesAreDecided == Spec => []QuietNodesAreDecided
<1>1. Base /\ NodeInv => QuietNodesAreDecided
  <2> SUFFICES ASSUME Base, NodeInv, Quiet, NEW n \in managed \ (lost \cup outrun),
                      lifecycleState[n] = "PROVISIONING"
               PROVE  FALSE
    BY DEF QuietNodesAreDecided
  <2>1. n \in Nodes
    BY DEF Base, TypeOK
  <2>2. Worked(n)
    BY <2>1 DEF NodeInv, NodeWaits, ProvisioningIsWorked
  <2>3. jobs = {} /\ DOMAIN rows = {} /\ open.what = "none"
    BY DEF Quiet, NoTransaction
  <2>4. ~Creates(rows, n) /\ Configs(n) = {}
    BY <2>3 DEF Creates, Configs, Active
  <2> QED
    BY <2>2, <2>3, <2>4 DEF Worked
<1> QED
  BY <1>1, WaitingNodesAreWorkedOn, BaseHolds, PTL

-----------------------------------------------------------------------------
(* The Machine that is provisioning has a discovery under way or a Node    *)
(* that is provisioning.  Here any number of commands may be under way.    *)
MachineWorked == \/ \E p \in Plans : Discovers(rows, p)
                 \/ \E n \in managed : lifecycleState[n] = "PROVISIONING"
MachineWaits ==
    machineStatus = "PROVISIONING" /\ ~clobbered /\ ~jobFailed /\ ~outlived => MachineWorked

(* A Node is provisioning from the moment it is made; a plan that is ready *)
(* has Nodes to make, and a request that was read is about some.           *)
Unmade     == \A n \in Nodes \ managed : lifecycleState[n] = "PROVISIONING"
ReadyPlans == \A p \in Plans : planStatus[p] = "READY" => planReady[p] # {}
OpenNodes  == open.what \in {"retry", "publish"} => open.nodes # {}

MachineInv == Unmade /\ ReadyPlans /\ OpenNodes /\ MachineWaits

LEMMA UnmadeKept ==
  ASSUME Base, Unmade, Next
  PROVE  Unmade'
<1> SUFFICES ASSUME NEW n \in Nodes \ managed'
             PROVE  lifecycleState'[n] = "PROVISIONING"
  BY DEF Unmade
<1>1. /\ n \in Nodes \ managed /\ lifecycleState[n] = "PROVISIONING"
      /\ lifecycleState \in [Nodes -> LifecycleStates]
  BY ManagedGrows DEF Unmade, Base, TypeOK
<1>2. CASE lifecycleState' = lifecycleState
  BY <1>1, <1>2
<1>3. ASSUME NEW m, m \in managed \/ m = NoNode,
             NEW s, lifecycleState' = [lifecycleState EXCEPT ![m] = s]
      PROVE  lifecycleState'[n] = "PROVISIONING"
  BY <1>1, <1>3, NodesAssumption
<1>4. ASSUME NEW S, lifecycleState' = [m \in Nodes |-> IF m \in S THEN "PROVISIONING"
                                                                  ELSE lifecycleState[m]]
      PROVE  lifecycleState'[n] = "PROVISIONING"
  BY <1>1, <1>4
<1>5. ASSUME NEW i \in DOMAIN rows, Result(i) \/ DeadlineExceeded(i)
      PROVE  lifecycleState'[n] = "PROVISIONING"
  <2>1. rows[i].node \in managed \/ rows[i].node = NoNode
    BY RowType
  <2>2. CASE Applied(i)
    <3>1. \E s : lifecycleState' = [lifecycleState EXCEPT ![rows[i].node] = s]
      BY <2>2 DEF Applied, ApplyRead, ApplyWrites
    <3> QED
      BY <1>3, <2>1, <3>1
  <2>3. CASE Discovered(i) \/ Reconciled(i) \/ Certified(i) \/ NothingElse(i) \/ DiscoveryFails(i)
    BY <1>2, <2>3 DEF Discovered, Reconciled, Certified, NothingElse, DiscoveryFails
  <2>4. CASE ClosedApplyFails(i) \/ CertificateFails(i) \/ InstanceFails(i) \/ ApplyRolledBack(i)
    <3>1. \E s : lifecycleState' = [lifecycleState EXCEPT ![rows[i].node] = s]
      BY <2>4 DEF ClosedApplyFails, CertificateFails, InstanceFails, ApplyRolledBack
    <3> QED
      BY <1>3, <2>1, <3>1
  <2>5. CASE MachineFails(i)
    <3>1. n \notin SweptNodes(i)
      BY <1>1 DEF SweptNodes
    <3> QED
      BY <1>1, <2>5, <3>1 DEF MachineFails
  <2> QED
    BY <1>5, <2>2, <2>3, <2>4, <2>5 DEF Result, DeadlineExceeded, Succeeds, Fails, RollsBack
<1>6. CASE TransactionWrites
  <2>1. CASE open.what = "plan"
    BY <1>2, <1>6, <2>1 DEF TransactionWrites, PlanWrites, nodeVars
  <2>2. CASE open.what = "retry" \/ open.what = "publish"
    BY <1>4, <1>6, <2>2 DEF TransactionWrites, RetryWrites, PublishWrites
  <2>3. CASE open.what = "apply"
    <3>1. open.node \in managed
      BY <2>3 DEF Base, OpenFits
    <3>2. \E s : lifecycleState' = [lifecycleState EXCEPT ![open.node] = s]
      BY <1>6, <2>3 DEF TransactionWrites, ApplyWrites
    <3> QED
      BY <1>3, <3>1, <3>2
  <2> QED
    BY <1>6, <2>1, <2>2, <2>3 DEF TransactionWrites
<1>7. ASSUME NEW S \in SUBSET Nodes, CreatePlan(S) \/ Retry(S) \/ Publish(S)
      PROVE  lifecycleState'[n] = "PROVISIONING"
  BY <1>2, <1>4, <1>7 DEF CreatePlan, PlanWrites, Retry, RetryWrites, Publish, PublishWrites,
     nodeVars
<1>8. ASSUME NEW j \in Job, StartNode(j)
      PROVE  lifecycleState'[n] = "PROVISIONING"
  <2>1. j.node \in managed
    BY <1>8 DEF StartNode, Base, JobsFit
  <2>2. \E s : lifecycleState' = [lifecycleState EXCEPT ![j.node] = s]
    BY <1>8 DEF StartNode, QueueConfig, QueueFails
  <2> QED
    BY <1>3, <2>1, <2>2
<1>9. \/ lifecycleState' = lifecycleState
      \/ \E S \in SUBSET Nodes : CreatePlan(S) \/ Retry(S) \/ Publish(S)
      \/ \E j \in Job : StartNode(j)
      \/ \E i \in DOMAIN rows : Result(i) \/ DeadlineExceeded(i)
      \/ TransactionWrites
  BY DEF Next, Claim, HelloReads, HelloWrites, PlanExpires, GetPlan, Provision, Reconfigure,
     CertificateExpires, RenewalReads, RenewalBlocks, RenewalQueues, TransactionReads, nodeVars
<1> QED
  BY <1>2, <1>5, <1>6, <1>7, <1>8, <1>9

LEMMA ReadyPlansKept ==
  ASSUME Base, ReadyPlans, Next
  PROVE  ReadyPlans'
<1> SUFFICES ASSUME NEW p \in Plans, planStatus'[p] = "READY"
             PROVE  planReady'[p] # {}
  BY DEF ReadyPlans
<1>0. /\ planStatus \in [Plans -> PlanStatuses] /\ planReady \in [Plans -> SUBSET Nodes]
  BY DEF Base, TypeOK
<1>1. CASE planStatus[p] = "READY" /\ planReady' = planReady
  BY <1>1 DEF ReadyPlans
<1>2. ASSUME NEW i \in DOMAIN rows, Discovered(i)
      PROVE  planReady'[p] # {}
  <2> DEFINE o == rows[i].plan
  <2>1. CASE planStatus[o] = "PENDING" /\ ~planLate[o]
    <3>1. PICK R \in SUBSET planNodes[o] :
              /\ planReady' = [planReady EXCEPT ![o] = R]
              /\ planStatus' = [planStatus EXCEPT ![o] = IF R = {} THEN "BLOCKED" ELSE "READY"]
      BY <1>2, <2>1 DEF Discovered
    <3> HIDE DEF o
    <3>2. CASE o = p
      BY <1>0, <3>1, <3>2
    <3>3. CASE o # p
      <4>1. planStatus[p] = "READY" /\ planReady'[p] = planReady[p]
        BY <1>0, <3>1, <3>3
      <4> QED
        BY <4>1 DEF ReadyPlans
    <3> QED
      BY <3>2, <3>3
  <2>2. CASE ~(planStatus[o] = "PENDING" /\ ~planLate[o])
    <3>1. /\ planReady' = planReady
          /\ planStatus' = [planStatus EXCEPT ![o] = IF @ = "PENDING" THEN "EXPIRED" ELSE @]
      BY <1>2, <2>2 DEF Discovered
    <3>2. planStatus[p] = "READY"
      BY <1>0, <3>1
    <3> QED
      BY <1>1, <3>1, <3>2
  <2> QED
    BY <2>1, <2>2
<1>3. ASSUME NEW t, PlanWrites(t)
      PROVE  planReady'[p] # {}
  <2>1. planStatus[p] = "READY" /\ planReady' = planReady
    BY <1>3 DEF PlanWrites
  <2> QED
    BY <1>1, <2>1
<1>4. ASSUME NEW q \in Plans, PlanExpires(q) \/ GetPlan(q) \/ Provision(q)
      PROVE  planReady'[p] # {}
  <2>1. planStatus[p] = "READY" /\ planReady' = planReady
    BY <1>0, <1>4 DEF PlanExpires, GetPlan, Provision
  <2> QED
    BY <1>1, <2>1
<1>5. ASSUME NEW i \in DOMAIN rows, Result(i) \/ DeadlineExceeded(i)
      PROVE  planReady'[p] # {}
  <2>1. CASE DiscoveryFails(i)
    <3>1. planStatus[p] = "READY" /\ planReady' = planReady
      BY <1>0, <2>1 DEF DiscoveryFails
    <3> QED
      BY <1>1, <3>1
  <2>2. CASE ~DiscoveryFails(i) /\ ~Discovered(i)
    <3>1. planStatus[p] = "READY" /\ planReady' = planReady
      BY <1>5, <2>2 DEF Result, DeadlineExceeded, Succeeds, Reconciled, Certified, Applied,
         ApplyWrites, NothingElse, Fails, ClosedApplyFails, CertificateFails, InstanceFails,
         MachineFails, RollsBack, ApplyRolledBack, planVars
    <3> QED
      BY <1>1, <3>1
  <2> QED
    BY <1>2, <2>1, <2>2
<1>6. \/ planStatus[p] = "READY" /\ planReady' = planReady
      \/ \E t : PlanWrites(t)
      \/ \E q \in Plans : PlanExpires(q) \/ GetPlan(q) \/ Provision(q)
      \/ \E i \in DOMAIN rows : Result(i) \/ DeadlineExceeded(i)
  BY DEF Next, Claim, HelloReads, HelloWrites, CreatePlan, Retry, RetryWrites, Publish,
     PublishWrites, Reconfigure, StartNode, CertificateExpires, RenewalReads, RenewalBlocks,
     RenewalQueues, TransactionReads, TransactionWrites, ApplyWrites, planVars
<1> QED
  BY <1>1, <1>3, <1>4, <1>5, <1>6

LEMMA OpenNodesKept ==
  ASSUME Base, OpenNodes, Next
  PROVE  OpenNodes'
<1>1. CASE Overtakes
  <2>1. TypeOK
    BY DEF Base
  <2>2. /\ open'.what = open.what
        /\ open.what \in {"plan", "retry", "publish"} => open'.nodes = open.nodes
    BY <1>1, <2>1, OvertakenStays
  <2> QED
    BY <2>2 DEF OpenNodes
<1>2. CASE TransactionReads
  BY <1>2 DEF TransactionReads, PlanRead, CanRetry, RetryRead, CanPublish, PublishRead, ApplyRead,
     OpenNodes
<1>3. CASE TransactionWrites
  BY <1>3 DEF TransactionWrites, NoTransaction, OpenNodes
<1> QED
  BY <1>1, <1>2, <1>3, StepOvertakes

(* A step that leaves the Machine's status keeps what it waits for. *)
LEMMA MachineStays ==
  ASSUME MachineWaits, machineStatus' = machineStatus,
         \/ UNCHANGED <<clobbered, jobFailed, outlived>>
         \/ clobbered' \/ jobFailed' \/ outlived',
         MachineWorked => MachineWorked'
  PROVE  MachineWaits'
BY DEF MachineWaits

LEMMA MachineWorkedKept ==
  ASSUME MachineWorked, \A p \in Plans : Discovers(rows, p) => Discovers(rows', p),
         \A n \in managed : lifecycleState[n] = "PROVISIONING"
            => n \in managed' /\ lifecycleState'[n] = "PROVISIONING"
  PROVE  MachineWorked'
<1>1. CASE \E p \in Plans : Discovers(rows, p)
  BY <1>1 DEF MachineWorked
<1>2. CASE \E n \in managed : lifecycleState[n] = "PROVISIONING"
  BY <1>2 DEF MachineWorked
<1> QED
  BY <1>1, <1>2 DEF MachineWorked

LEMMA DiscoveryRelabelled ==
  ASSUME Base, Claim \/ HelloWrites, NEW p, Discovers(rows, p)
  PROVE  Discovers(rows', p)
<1>1. PICK k \in DOMAIN rows : rows[k].kind = "discover_host" /\ rows[k].plan = p
  BY DEF Discovers
<1>2. CASE Claim
  BY <1>1, <1>2, ClaimMarks DEF Discovers
<1>3. CASE HelloWrites
  <2>1. /\ DOMAIN rows' = DOMAIN rows
        /\ rows'[k] = [rows[k] EXCEPT !.running = FALSE]
    BY <1>1, <1>3 DEF HelloWrites
  <2>2. rows'[k].kind = rows[k].kind /\ rows'[k].plan = rows[k].plan
    BY <1>1, <2>1, RowType DEF Row
  <2> QED
    BY <1>1, <2>1, <2>2 DEF Discovers
<1> QED
  BY <1>2, <1>3

LEMMA MachineAfterPlan ==
  ASSUME Base, NEW t, PlanWrites(t)
  PROVE  MachineWaits'
<1>1. PICK p \in Plans,
           cancelled \in {t.live \cap {q \in Plans : Live(q)}, {q \in Plans : Live(q)}} :
          rows' = Append(Subsequence(rows, {i \in DOMAIN rows :
                                                \/ rows[i].running
                                                \/ rows[i].kind # "discover_host"
                                                \/ rows[i].plan \notin cancelled}),
                         [Command("discover_host", NoNode) EXCEPT !.plan = p])
  BY DEF PlanWrites
<1> DEFINE I == {i \in DOMAIN rows : \/ rows[i].running
                                     \/ rows[i].kind # "discover_host"
                                     \/ rows[i].plan \notin cancelled}
           r == [Command("discover_host", NoNode) EXCEPT !.plan = p]
<1>2. rows \in Seq(Row) /\ I \in SUBSET DOMAIN rows
  BY DEF Base, TypeOK
<1>3. r \in Row /\ r.kind = "discover_host" /\ r.plan = p
  <2>1. Command("discover_host", NoNode) \in Row /\ p \in 0 .. MaxPlans
    BY CommandType, BoundsAssumption DEF Kinds, Plans
  <2> QED
    BY <2>1 DEF Row, Command
<1>4. rows' = Append(Subsequence(rows, I), r)
  BY <1>1
<1> HIDE DEF I, r
<1>5. Discovers(rows', p)
  BY <1>2, <1>3, <1>4, SubsequenceProperties, DiscoveryAppendedOne
<1> QED
  BY <1>5 DEF MachineWaits, MachineWorked

(* Requests about Nodes, of which there are some, leave them provisioning. *)
LEMMA MachineAfterRequest ==
  ASSUME managed' = managed, NEW S \in SUBSET managed, S # {}, managed \subseteq Nodes,
         lifecycleState' = [n \in Nodes |-> IF n \in S THEN "PROVISIONING" ELSE lifecycleState[n]]
  PROVE  MachineWaits'
<1>1. PICK n \in S : TRUE
  OBVIOUS
<1>2. n \in managed' /\ lifecycleState'[n] = "PROVISIONING"
  BY <1>1
<1> QED
  BY <1>2 DEF MachineWaits, MachineWorked

(* The statuses that are counted from the Nodes. *)
LEMMA MachineAfterCount ==
  ASSUME managed' = managed,
         \/ \E n : machineStatus' = StatusAfterFailure(n)
         \/ machineStatus' = "PROVISIONING" => \E m \in managed : Pending(m)
  PROVE  MachineWaits'
<1>1. machineStatus' = "PROVISIONING" => \E m \in managed : Pending(m)
  BY DEF StatusAfterFailure
<1> QED
  BY <1>1 DEF MachineWaits, MachineWorked, Pending

LEMMA ApplyCounts ==
  ASSUME NEW t, ApplyWrites(t)
  PROVE  machineStatus' = "PROVISIONING" => \E m \in managed : Pending(m)
<1>1. StatusAfterApply # "PROVISIONING"
  BY DEF StatusAfterApply
<1> QED
  BY <1>1 DEF ApplyWrites

LEMMA MachineAfterResult ==
  ASSUME Base, MachineWaits, NEW i \in DOMAIN rows, Result(i) \/ DeadlineExceeded(i)
  PROVE  MachineWaits'
<1>1. managed' = managed /\ clobbered' = clobbered /\ jobFailed' = jobFailed
  BY DEF Result, DeadlineExceeded, Frame
<1>2. CASE Discovered(i)
  <2>1. machineStatus' # "PROVISIONING" \/ outlived'
    BY <1>2 DEF Discovered
  <2> QED
    BY <2>1 DEF MachineWaits
<1>3. CASE Reconciled(i) \/ Certified(i) \/ NothingElse(i)
  <2>1. /\ UNCHANGED <<machineStatus, lifecycleState, outlived>>
        /\ rows' = Without(i) /\ rows[i].kind # "discover_host"
    BY <1>3 DEF Reconciled, Certified, NothingElse
  <2>2. \A p \in Plans : Discovers(rows, p) => Discovers(rows', p)
    BY <2>1, DiscoveryNotTaken
  <2>3. MachineWorked => MachineWorked'
    BY <1>1, <2>1, <2>2, MachineWorkedKept
  <2> QED
    BY <1>1, <2>1, <2>3, MachineStays
<1>4. CASE Applied(i)
  BY <1>1, <1>4, ApplyCounts, MachineAfterCount DEF Applied
<1>5. CASE ClosedApplyFails(i) \/ InstanceFails(i)
  BY <1>1, <1>5, MachineAfterCount DEF ClosedApplyFails, InstanceFails
<1>6. CASE CertificateFails(i)
  <2>1. \/ machineStatus' = StatusAfterFailure(rows[i].node)
        \/ machineStatus' = "DEGRADED"
    BY <1>6 DEF CertificateFails
  <2> QED
    BY <1>1, <2>1, MachineAfterCount
<1>7. CASE DiscoveryFails(i) \/ MachineFails(i) \/ ApplyRolledBack(i)
  <2>1. machineStatus' # "PROVISIONING"
    BY <1>7 DEF DiscoveryFails, MachineFails, ApplyRolledBack
  <2> QED
    BY <2>1 DEF MachineWaits
<1> QED
  BY <1>2, <1>3, <1>4, <1>5, <1>6, <1>7 DEF Result, DeadlineExceeded, Succeeds, Fails, RollsBack

LEMMA MachineWaitsKept ==
  ASSUME Base, MachineInv, Next
  PROVE  MachineWaits'
<1>0. /\ MachineWaits /\ managed \subseteq Nodes /\ rows \in Seq(Row)
      /\ lifecycleState \in [Nodes -> LifecycleStates]
      /\ planReady \in [Plans -> SUBSET Nodes]
  BY DEF MachineInv, Base, TypeOK
<1>1. ASSUME UNCHANGED <<machineStatus, managed, lifecycleState, clobbered, jobFailed, outlived>>,
             \A p \in Plans : Discovers(rows, p) => Discovers(rows', p)
      PROVE  MachineWaits'
  <2>1. MachineWorked => MachineWorked'
    BY <1>1, MachineWorkedKept
  <2> QED
    BY <1>0, <1>1, <2>1, MachineStays
<1>2. CASE Claim
  <2>1. \A p \in Plans : Discovers(rows, p) => Discovers(rows', p)
    BY <1>2, DiscoveryRelabelled
  <2> QED
    BY <1>1, <1>2, <2>1 DEF Claim, nodeVars, histVars
<1>3. CASE HelloWrites
  <2>1. \A p \in Plans : Discovers(rows, p) => Discovers(rows', p)
    BY <1>3, DiscoveryRelabelled
  <2>2. CASE hello = machineStatus
    <3>1. /\ UNCHANGED <<machineStatus, managed, lifecycleState, jobFailed, outlived>>
          /\ clobbered' = clobbered
      BY <1>3, <2>2 DEF HelloWrites, nodeVars, Base, TypeOK
    <3> QED
      BY <1>1, <2>1, <3>1
  <2>3. CASE hello # machineStatus
    BY <1>3, <2>3 DEF HelloWrites, MachineWaits
  <2> QED
    BY <2>2, <2>3
<1>4. CASE RenewalQueues
  <2>1. rows' = rows \/ Grows
    BY <1>4, RenewalRows
  <2>2. \A p \in Plans : Discovers(rows, p) => Discovers(rows', p)
    BY <1>0, <2>1, DiscoveryAppended DEF Grows
  <2>3. UNCHANGED <<machineStatus, managed, lifecycleState, clobbered, jobFailed, outlived>>
    BY <1>4 DEF RenewalQueues, nodeVars
  <2> QED
    BY <1>1, <2>2, <2>3
<1>5. ASSUME NEW S \in SUBSET Nodes, CreatePlan(S) \/ Retry(S) \/ Publish(S)
      PROVE  MachineWaits'
  <2>1. CASE CreatePlan(S)
    <3>1. CASE PlanWrites(PlanRead(S))
      BY <3>1, MachineAfterPlan
    <3>2. CASE ~PlanWrites(PlanRead(S))
      BY <1>1, <2>1, <3>2 DEF CreatePlan, nodeVars, histVars
    <3> QED
      BY <3>1, <3>2
  <2>2. CASE Retry(S)
    <3>1. /\ S \in SUBSET managed /\ S # {} /\ managed' = managed
          /\ lifecycleState' = [n \in Nodes |-> IF n \in S THEN "PROVISIONING"
                                                           ELSE lifecycleState[n]]
      BY <2>2 DEF Retry, CanRetry, RetryWrites, RetryRead
    <3> QED
      BY <1>0, <3>1, MachineAfterRequest
  <2>3. CASE Publish(S)
    <3>1. /\ S \in SUBSET managed /\ S # {} /\ managed' = managed
          /\ lifecycleState' = [n \in Nodes |-> IF n \in S THEN "PROVISIONING"
                                                           ELSE lifecycleState[n]]
      BY <2>3 DEF Publish, CanPublish, PublishWrites, PublishRead
    <3> QED
      BY <1>0, <3>1, MachineAfterRequest
  <2> QED
    BY <1>5, <2>1, <2>2, <2>3
<1>6. ASSUME NEW p \in Plans, Provision(p)
      PROVE  MachineWaits'
  <2>1. /\ planReady[p] # {} /\ planReady[p] \subseteq Nodes /\ planReady[p] \cap managed = {}
        /\ managed' = managed \cup planReady[p] /\ lifecycleState' = lifecycleState
    BY <1>0, <1>6 DEF Provision, MachineInv, ReadyPlans
  <2>2. PICK n \in planReady[p] : TRUE
    BY <2>1
  <2>3. n \in managed' /\ lifecycleState'[n] = "PROVISIONING"
    BY <2>1, <2>2 DEF MachineInv, Unmade
  <2> QED
    BY <2>3 DEF MachineWaits, MachineWorked
<1>7. ASSUME NEW j \in Job, StartNode(j)
      PROVE  MachineWaits'
  <2>1. CASE QueueConfig(j.node, j.closed)
    <3>1. \A p \in Plans : Discovers(rows, p) => Discovers(rows', p)
      BY <1>7, DiscoveryAfterStart
    <3>2. /\ UNCHANGED <<machineStatus, managed, clobbered, jobFailed, outlived>>
          /\ lifecycleState' = [lifecycleState EXCEPT ![j.node] = "PROVISIONING"]
      BY <1>7, <2>1 DEF StartNode, QueueConfig
    <3>3. MachineWorked => MachineWorked'
      BY <1>0, <3>1, <3>2, MachineWorkedKept
    <3> QED
      BY <1>0, <3>2, <3>3, MachineStays
  <2>2. CASE QueueFails(j.node, j.closed)
    BY <2>2 DEF QueueFails, MachineWaits
  <2> QED
    BY <1>7, <2>1, <2>2 DEF StartNode
<1>8. CASE TransactionReads
  <2>1. UNCHANGED <<machineStatus, managed, lifecycleState, clobbered, jobFailed, outlived>>
    BY <1>8 DEF TransactionReads, nodeVars, histVars
  <2>2. ASSUME NEW i \in DOMAIN rows, rows[i].kind = "apply_config", rows' = Without(i)
        PROVE  \A p \in Plans : Discovers(rows, p) => Discovers(rows', p)
    BY <2>2, DiscoveryNotTaken
  <2>3. \A p \in Plans : Discovers(rows, p) => Discovers(rows', p)
    BY <1>8, <2>2 DEF TransactionReads
  <2> QED
    BY <1>1, <2>1, <2>3
<1>9. CASE TransactionWrites
  <2>1. CASE open.what = "plan"
    BY <1>9, <2>1, MachineAfterPlan DEF TransactionWrites
  <2>2. CASE open.what = "retry" \/ open.what = "publish"
    <3>1. /\ open.nodes \in SUBSET managed /\ open.nodes # {} /\ managed' = managed
          /\ lifecycleState' = [n \in Nodes |-> IF n \in open.nodes THEN "PROVISIONING"
                                                                    ELSE lifecycleState[n]]
      BY <1>9, <2>2 DEF TransactionWrites, RetryWrites, PublishWrites, MachineInv, OpenNodes,
         Base, OpenFits
    <3> QED
      BY <1>0, <3>1, MachineAfterRequest
  <2>3. CASE open.what = "apply"
    BY <1>9, <2>3, ApplyCounts, MachineAfterCount DEF TransactionWrites
  <2> QED
    BY <1>9, <2>1, <2>2, <2>3 DEF TransactionWrites
<1>10. CASE rows' = rows /\ UNCHANGED <<machineStatus, managed, lifecycleState, clobbered,
                                        jobFailed, outlived>>
  BY <1>1, <1>10
<1>11. \/ rows' = rows /\ UNCHANGED <<machineStatus, managed, lifecycleState, clobbered,
                                      jobFailed, outlived>>
       \/ Claim \/ HelloWrites \/ RenewalQueues
       \/ \E S \in SUBSET Nodes : CreatePlan(S) \/ Retry(S) \/ Publish(S)
       \/ \E p \in Plans : Provision(p)
       \/ \E j \in Job : StartNode(j)
       \/ \E i \in DOMAIN rows : Result(i) \/ DeadlineExceeded(i)
       \/ TransactionReads \/ TransactionWrites
  BY DEF Next, HelloReads, PlanExpires, GetPlan, Reconfigure, CertificateExpires, RenewalReads,
     RenewalBlocks, nodeVars, histVars
<1> QED
  BY <1>0, <1>2, <1>3, <1>4, <1>5, <1>6, <1>7, <1>8, <1>9, <1>10, <1>11, MachineAfterResult

LEMMA MachineInvKept ==
  ASSUME Base, MachineInv, [Next]_vars
  PROVE  MachineInv'
<1>1. CASE UNCHANGED vars
  BY <1>1 DEF vars, MachineInv, Unmade, ReadyPlans, OpenNodes, MachineWaits, MachineWorked,
     Discovers
<1>2. CASE Next
  BY <1>2, UnmadeKept, ReadyPlansKept, OpenNodesKept, MachineWaitsKept DEF MachineInv
<1> QED
  BY <1>1, <1>2

(* A Machine shown as provisioning has a discovery under way or a Node     *)
(* that is provisioning, whatever number of commands is under way and      *)
(* whatever fails, unless a hello put an older status back, a job could    *)
(* make no configuration or a plan outlived its time.                      *)
THEOREM WaitingMachineIsWorkedOn == Spec => []MachineWaits
<1>1. Init => MachineInv
  BY DEF Init, MachineInv, Unmade, ReadyPlans, OpenNodes, NoTransaction, MachineWaits
<1>2. Base /\ MachineInv /\ [Next]_vars => MachineInv'
  BY MachineInvKept
<1>3. MachineInv => MachineWaits
  BY DEF MachineInv
<1> QED
  BY <1>1, <1>2, <1>3, BaseHolds, PTL DEF Spec

(* So when nothing is left to do, a Machine is left provisioning only by a *)
(* Node whose job was lost, or of which a configuration failed or ended    *)
(* while an older one was still under way.                                 *)
THEOREM MachineIsDecided == Spec => []QuietMachineIsDecided
<1>1. MachineWaits /\ QuietNodesAreDecided => QuietMachineIsDecided
  <2> SUFFICES ASSUME MachineWaits, QuietNodesAreDecided, Quiet, machineStatus = "PROVISIONING",
                      ~clobbered, ~jobFailed, ~outlived
               PROVE  \E n \in managed \cap (lost \cup outrun) :
                         lifecycleState[n] = "PROVISIONING"
    BY DEF QuietMachineIsDecided
  <2>1. MachineWorked
    BY DEF MachineWaits
  <2>2. DOMAIN rows = {}
    BY DEF Quiet
  <2>3. PICK n \in managed : lifecycleState[n] = "PROVISIONING"
    BY <2>1, <2>2 DEF MachineWorked, Discovers
  <2> QED
    BY <2>3 DEF QuietNodesAreDecided
<1> QED
  BY <1>1, NodesAreDecided, WaitingMachineIsWorkedOn, PTL
=============================================================================
