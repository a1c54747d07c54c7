--------------------------- MODULE SnapshotsProofs ---------------------------
(***************************************************************************)
(* Proofs about the sequences of snapshot rows and what a client is told   *)
(* of the changes since it began, for any number of clients and any        *)
(* transactions.                                                           *)
(***************************************************************************)
EXTENDS Snapshots, TLAPS

Kinds == {"initial", "main", "view", "drop", "metadata", "register", "data", "macro"}
Change == [kind : Kinds, facts : SUBSET Facts]
LogRow == [sequence : Nat, change : Change, base : Nat]
Attempt == [since : Nat, base : Nat, id : Int, rows : Seq(Change), fenced : BOOLEAN,
            staged : Int, published : BOOLEAN, listing : SUBSET Nat]

\* The log and the attempts stay in their types; the main schema is always there.
LogTyped ==
    /\ log \in Seq(LogRow) /\ Len(log) >= 2
    /\ attempt \in [Clients -> Attempt]

\* An attempt proposes the sequence after the one it began at, and stages one above
\* that of a row that was the latest since then.
Proposes(a) ==
    /\ a.since \in 2 .. Latest
    /\ a.base \in 2 .. Latest
    /\ a.id = Sequence(a.base) + 1
    /\ a.staged # None => a.rows # <<>> /\ \E s \in a.base .. Latest : a.staged > Sequence(s)
ProposesTheNext == \A c \in Clients : attempt[c] # Idle => Proposes(attempt[c])

\* A row with a sequence no higher than that of an earlier row b rests on a row after b
\* whose attempt began before b.
OldRowsExplained ==
    \A b \in 2 .. Latest : \A o \in b + 1 .. Latest :
        Sequence(o) <= Sequence(b) =>
            \E p \in b + 1 .. o : Sequence(p) <= Sequence(b) /\ log[p].base < b

\* A list that a read context has kept has all the rows up to its last that have not
\* expired.
WholeUpToLast(listed) == \A p \in listed : \A o \in 1 .. p : o \in listed \/ o \in expired
ListingsWhole == \A c \in Clients : WholeUpToLast(attempt[c].listing)

\* The inductive strengthening of ChangesAreTold.
IInv == LogTyped /\ ProposesTheNext /\ OldRowsExplained /\ ListingsWhole

-----------------------------------------------------------------------------
LEMMA RowType ==
    ASSUME NEW kind \in Kinds, NEW facts \in SUBSET Facts
    PROVE  <<Row(kind, facts)>> \in Seq(Change)
<1>1. Row(kind, facts) \in Change
  BY Zenon DEF Row, Change
<1> QED
  BY <1>1

LEMMA RowIfType ==
    ASSUME NEW facts \in SUBSET Facts, NEW kind \in Kinds
    PROVE  RowIf(facts, kind) \in Seq(Change)
<1>1. <<Row(kind, facts)>> \in Seq(Change)
  BY RowType, Zenon
<1>2. CASE facts = {}
  BY <1>2 DEF RowIf
<1>3. CASE facts # {}
  BY <1>1, <1>3, Zenon DEF RowIf
<1> QED
  BY <1>2, <1>3, Zenon

\* What a client publishes are rows.
LEMMA RowsType ==
    ASSUME NEW t \in Transactions
    PROVE  AllRows(t) \in Seq(Change)
<1>1. /\ t.views \in Nat /\ t.facts \in SUBSET Facts /\ t.macros \in BOOLEAN
      /\ t.compactions \in Seq(SUBSET Facts)
  BY SnapshotsAssumption, Zenon DEF Transaction
<1>c. ASSUME NEW p \in Seq(Change), NEW q \in Seq(Change) PROVE p \o q \in Seq(Change)
  OBVIOUS
<1>f. ASSUME NEW names PROVE FactsOf(t, names) \in SUBSET Facts
  BY <1>1, Zenon DEF FactsOf
<1>r. ASSUME NEW names, NEW kind \in Kinds
      PROVE  RowIf(FactsOf(t, names), kind) \in Seq(Change)
  BY <1>f, RowIfType, Zenon
<1>2. [i \in 1 .. t.views |-> Row("view", {})] \in Seq(Change)
  <2>1. Row("view", {}) \in Change
    BY Zenon DEF Row, Change, Kinds
  <2> QED
    BY <1>1, <2>1
<1>3. RowsBefore(t) \in Seq(Change)
  <2> DEFINE drop == IF FactsOf(t, {"creates"}) = {}
                     THEN RowIf(FactsOf(t, {"drops"}), "drop") ELSE <<>>
  <2>1. drop \in Seq(Change)
    <3>1. RowIf(FactsOf(t, {"drops"}), "drop") \in Seq(Change)
      BY <1>r, Zenon DEF Kinds
    <3> QED
      BY <3>1
  <2>2. RowsBefore(t) = [i \in 1 .. t.views |-> Row("view", {})] \o drop
    BY Zenon DEF RowsBefore
  <2> HIDE DEF drop
  <2> QED
    BY <1>2, <1>c, <2>1, <2>2, Zenon
<1>4. [i \in 1 .. Len(t.compactions) |-> Row("data", t.compactions[i])] \in Seq(Change)
  <2>1. ASSUME NEW i \in 1 .. Len(t.compactions) PROVE Row("data", t.compactions[i]) \in Change
    <3>1. t.compactions[i] \in SUBSET Facts
      BY <1>1
    <3> QED
      BY <3>1, Zenon DEF Row, Change, Kinds
  <2>2. Len(t.compactions) \in Nat
    BY <1>1
  <2> QED
    BY <2>1, <2>2
<1>5. Rows(t) \in Seq(Change)
  <2> DEFINE replaced == IF FactsOf(t, {"creates"}) = {} THEN {} ELSE {"drops"}
  <2> DEFINE compacts == [i \in 1 .. Len(t.compactions) |-> Row("data", t.compactions[i])]
  <2>1. /\ RowIf(FactsOf(t, {"creates", "alters"} \union replaced), "metadata") \in Seq(Change)
        /\ RowIf(FactsOf(t, {"replaces"}), "register") \in Seq(Change)
        /\ RowIf(FactsOf(t, DataFacts \union OperationFacts), "data") \in Seq(Change)
    BY <1>r, Zenon DEF Kinds
  <2>2. Rows(t) = RowIf(FactsOf(t, {"creates", "alters"} \union replaced), "metadata")
                  \o RowIf(FactsOf(t, {"replaces"}), "register") \o compacts
                  \o RowIf(FactsOf(t, DataFacts \union OperationFacts), "data")
    BY Zenon DEF Rows
  <2>3. compacts \in Seq(Change)
    BY <1>4, Zenon
  <2> HIDE DEF replaced, compacts
  <2> QED
    BY <1>c, <2>1, <2>2, <2>3, Zenon
<1>6. RowsAfter(t) \in Seq(Change)
  <2>1. <<Row("macro", {})>> \in Seq(Change)
    BY RowType, Zenon DEF Kinds
  <2> QED
    BY <2>1 DEF RowsAfter
<1> QED
  BY <1>3, <1>5, <1>6, <1>c, Zenon DEF AllRows

LEMMA IdleType ==
    Idle \in Attempt /\ Idle.staged = None /\ Idle.rows = <<>> /\ Idle.listing = {}
  BY DEF Idle, Attempt, None

\* A row that has committed: its sequence is above that of a row that was the latest since
\* its attempt began, so the rows it is behind of are explained by its own attempt or by
\* what explains that row.
LEMMA PublishStep ==
    ASSUME IInv, NEW c \in Clients, NEW sequence \in Nat, attempt[c] # Idle,
           attempt[c].rows # <<>>, Publish(c, sequence),
           NEW s \in attempt[c].base .. Latest, sequence > Sequence(s)
    PROVE  IInv'
<1> DEFINE a == attempt[c]
<1> DEFINE row == [sequence |-> sequence, change |-> Head(a.rows), base |-> a.base]
<1>1. /\ a \in Attempt /\ log \in Seq(LogRow) /\ Len(log) \in Nat /\ Len(log) >= 2
      /\ attempt \in [Clients -> Attempt]
  BY DEF IInv, LogTyped
<1>2. /\ a.rows \in Seq(Change) /\ Head(a.rows) \in Change /\ Tail(a.rows) \in Seq(Change)
      /\ a.base \in Nat
  BY <1>1 DEF Attempt
<1>3. row \in LogRow /\ row.sequence = sequence /\ row.base = a.base
  BY <1>2, Zenon DEF LogRow
<1>4. log' = Append(log, row)
  BY Zenon DEF Publish
<1>5. /\ a.since \in 2 .. Len(log) /\ a.base \in 2 .. Len(log)
      /\ a.id = log[a.base].sequence + 1
      /\ s \in a.base .. Len(log) /\ s \in 2 .. Len(log) /\ sequence > log[s].sequence
  <2>1. /\ a.since \in 2 .. Len(log) /\ a.base \in 2 .. Len(log)
        /\ a.id = log[a.base].sequence + 1
        /\ s \in a.base .. Len(log) /\ sequence > log[s].sequence
    BY Zenon DEF IInv, ProposesTheNext, Proposes, Sequence, Latest
  <2> QED
    BY <1>1, <2>1
<1> HIDE DEF row, a
<1>6. /\ log' \in Seq(LogRow) /\ Len(log') = Len(log) + 1
      /\ log'[Len(log) + 1] = row
      /\ \A o \in 1 .. Len(log) : log'[o] = log[o]
  BY <1>1, <1>3, <1>4
<1>7. /\ attempt' \in [Clients -> Attempt]
      /\ \A d \in Clients \ {c} : attempt'[d] = attempt[d]
      /\ attempt'[c] # Idle =>
            /\ attempt'[c].since = a.since /\ attempt'[c].base = a.base
            /\ attempt'[c].id = a.id /\ attempt'[c].staged = None
      /\ attempt'[c].listing \in {a.listing, {}}
  <2>1. CASE Len(a.rows) = 1
    <3>1. attempt' = [attempt EXCEPT ![c] = Idle]
      BY <2>1, Zenon DEF Publish, a
    <3> QED
      BY <1>1, <3>1, IdleType, Zenon
  <2>2. CASE Len(a.rows) # 1
    <3> DEFINE next == [a EXCEPT !.rows = Tail(a.rows), !.staged = None, !.published = TRUE]
    <3>1. attempt' = [attempt EXCEPT ![c] = next]
      BY <1>1, <2>2, Zenon DEF Publish, a
    <3>2. next \in Attempt
      <4>1. None \in Int
        BY DEF None
      <4> QED
        BY <1>1, <1>2, <4>1, Zenon DEF Attempt
    <3>3. /\ next.since = a.since /\ next.base = a.base /\ next.id = a.id
          /\ next.staged = None /\ next.listing = a.listing
      BY <1>1, Zenon DEF Attempt
    <3> HIDE DEF next
    <3>4. attempt'[c] = next
      BY <1>1, <3>1, Zenon
    <3> QED
      BY <1>1, <3>1, <3>2, <3>3, <3>4, Zenon
  <2> QED
    BY <2>1, <2>2, Zenon
<1>8. LogTyped'
  BY <1>1, <1>6, <1>7 DEF LogTyped
<1>9. ProposesTheNext'
  <2> DEFINE Fits(d) ==
         LET x == attempt'[d]
         IN  /\ x.since \in 2 .. Len(log') /\ x.base \in 2 .. Len(log')
             /\ x.id = log'[x.base].sequence + 1
             /\ x.staged # None =>
                   x.rows # <<>> /\ \E n \in x.base .. Len(log') : x.staged > log'[n].sequence
  <2> SUFFICES ASSUME NEW d \in Clients, attempt'[d] # Idle
               PROVE  Fits(d)
    BY Zenon DEF ProposesTheNext, Proposes, Latest, Sequence
  <2>1. CASE d = c
    BY <1>1, <1>5, <1>6, <1>7, <2>1
  <2>2. CASE d # c
    <3>1. attempt'[d] = attempt[d]
      BY <1>7, <2>2, Zenon
    <3>2. Proposes(attempt[d])
      BY <3>1, Zenon DEF IInv, ProposesTheNext
    <3> DEFINE x == attempt[d]
    <3>3. /\ x.since \in 2 .. Len(log) /\ x.base \in 2 .. Len(log)
          /\ x.id = log[x.base].sequence + 1
          /\ x.staged # None =>
                x.rows # <<>> /\ \E n \in x.base .. Len(log) : x.staged > log[n].sequence
      BY <3>2, Zenon DEF Proposes, Latest, Sequence
    <3> HIDE DEF x
    <3>4. /\ x.since \in 2 .. Len(log') /\ x.base \in 2 .. Len(log')
          /\ log'[x.base] = log[x.base]
          /\ \A n \in x.base .. Len(log) : n \in x.base .. Len(log') /\ log'[n] = log[n]
      BY <1>1, <1>6, <3>3
    <3>5. attempt'[d] = x
      BY <3>1, Zenon DEF x
    <3> QED
      BY <3>3, <3>4, <3>5, Zenon
  <2> QED
    BY <2>1, <2>2, Zenon
<1>10. OldRowsExplained'
  <2> SUFFICES ASSUME NEW b \in 2 .. Len(log'), NEW o \in b + 1 .. Len(log'),
                      log'[o].sequence <= log'[b].sequence
               PROVE  \E p \in b + 1 .. o :
                         log'[p].sequence <= log'[b].sequence /\ log'[p].base < b
    BY Zenon DEF OldRowsExplained, Latest, Sequence
  <2>1. b \in 2 .. Len(log) /\ log'[b] = log[b]
    BY <1>1, <1>6
  <2>2. \A n \in b + 1 .. Len(log) : log[n].sequence <= log[b].sequence =>
           \E p \in b + 1 .. n : log[p].sequence <= log[b].sequence /\ log[p].base < b
    BY <2>1, Zenon DEF IInv, OldRowsExplained, Latest, Sequence
  <2>3. CASE o \in b + 1 .. Len(log)
    <3>1. log'[o] = log[o]
      BY <1>1, <1>6, <2>1, <2>3
    <3>2. PICK p \in b + 1 .. o : log[p].sequence <= log[b].sequence /\ log[p].base < b
      BY <2>1, <2>2, <2>3, <3>1, Zenon
    <3>3. log'[p] = log[p]
      BY <1>1, <1>6, <2>1, <2>3
    <3> QED
      BY <2>1, <3>2, <3>3, Zenon
  <2>4. CASE o = Len(log) + 1
    <3>1. log'[o].sequence = sequence /\ log'[o].base = a.base
      BY <1>3, <1>6, <2>4, Zenon
    <3>2. CASE a.base < b
      BY <1>1, <2>1, <2>4, <3>1, <3>2
    <3>3. CASE a.base >= b
      <4>1. /\ log[s].sequence \in Nat /\ log[b].sequence \in Nat
        <5>1. log[s] \in LogRow /\ log[b] \in LogRow
          BY <1>1, <1>5, <2>1
        <5> QED
          BY <5>1, Zenon DEF LogRow
      <4>2. log[s].sequence < log[b].sequence
        BY <1>5, <2>1, <3>1, <4>1
      <4>3. s \in b + 1 .. Len(log)
        <5>1. s # b
          BY <4>1, <4>2
        <5> QED
          BY <1>1, <1>2, <1>5, <2>1, <3>3, <5>1
      <4>4. PICK p \in b + 1 .. s : log[p].sequence <= log[b].sequence /\ log[p].base < b
        BY <2>2, <4>1, <4>2, <4>3
      <4>5. log'[p] = log[p] /\ p \in b + 1 .. o
        BY <1>1, <1>5, <1>6, <2>1, <2>4
      <4> QED
        BY <2>1, <4>4, <4>5, Zenon
    <3> QED
      BY <1>2, <2>1, <3>2, <3>3
  <2> QED
    BY <1>1, <1>6, <2>1, <2>3, <2>4
<1>11. ListingsWhole'
  <2> SUFFICES ASSUME NEW d \in Clients, NEW p \in attempt'[d].listing, NEW o \in 1 .. p
               PROVE  o \in attempt'[d].listing \/ o \in expired'
    BY Zenon DEF ListingsWhole, WholeUpToLast
  <2>1. attempt'[d].listing = attempt[d].listing /\ expired' = expired
    BY <1>7, Zenon DEF Publish, a
  <2> QED
    BY <2>1, Zenon DEF IInv, ListingsWhole, WholeUpToLast
<1> QED
  BY <1>8, <1>9, <1>10, <1>11, Zenon DEF IInv

\* A step that publishes nothing answers for the attempts alone.
LEMMA NothingPublished ==
    ASSUME IInv, log' = log, expired' = expired, NEW c \in Clients, NEW a \in Attempt,
           attempt' = [attempt EXCEPT ![c] = a],
           a # Idle => Proposes(a),
           WholeUpToLast(a.listing)
    PROVE  IInv'
<1>1. attempt \in [Clients -> Attempt]
  BY Zenon DEF IInv, LogTyped
<1>2. LogTyped' /\ OldRowsExplained'
  BY <1>1, Zenon DEF IInv, LogTyped, OldRowsExplained, Latest, Sequence
<1>3. ProposesTheNext'
  BY <1>1, Zenon DEF IInv, ProposesTheNext, Proposes, Latest, Sequence
<1>4. ListingsWhole'
  BY <1>1, Zenon DEF IInv, ListingsWhole, WholeUpToLast
<1> QED
  BY <1>2, <1>3, <1>4, Zenon DEF IInv

LEMMA InitInv == Init => IInv
<1> SUFFICES ASSUME Init PROVE IInv
  BY Zenon
<1> DEFINE first == [sequence |-> 0, change |-> Row("initial", {}), base |-> 0]
<1> DEFINE second == [sequence |-> 1, change |-> Row("main", {}), base |-> 0]
<1>1. first \in LogRow /\ second \in LogRow
  BY Zenon DEF LogRow, Change, Row, Kinds
<1>2. log = <<first, second>> /\ first.sequence = 0 /\ second.sequence = 1
  BY Zenon DEF Init
<1> HIDE DEF first, second
<1>3. log \in Seq(LogRow) /\ Len(log) = 2
  BY <1>1, <1>2
<1>4. attempt \in [Clients -> Attempt] /\ \A c \in Clients : attempt[c] = Idle
  BY IdleType, Zenon DEF Init
<1>5. LogTyped
  BY <1>3, <1>4 DEF LogTyped
<1>6. ProposesTheNext
  BY <1>4, Zenon DEF ProposesTheNext
<1>7. OldRowsExplained
  BY <1>3 DEF OldRowsExplained, Latest
<1>8. ListingsWhole
  BY <1>4, IdleType, Zenon DEF ListingsWhole, WholeUpToLast
<1> QED
  BY <1>5, <1>6, <1>7, <1>8, Zenon DEF IInv

LEMMA NextInv == IInv /\ [Next]_vars => IInv'
<1> SUFFICES ASSUME IInv, [Next]_vars PROVE IInv'
  BY Zenon
<1>t. /\ log \in Seq(LogRow) /\ Len(log) \in Nat /\ Len(log) >= 2
      /\ attempt \in [Clients -> Attempt]
  BY DEF IInv, LogTyped
<1>s. ASSUME NEW o \in 1 .. Len(log) PROVE Sequence(o) \in Nat
  <2>1. log[o] \in LogRow
    BY <1>t
  <2> QED
    BY <2>1, Zenon DEF LogRow, Sequence
<1>p. ASSUME NEW c \in Clients, attempt[c] # Idle
      PROVE  /\ Proposes(attempt[c])
             /\ attempt[c].base \in attempt[c].base .. Latest
             /\ attempt[c].id \in Nat /\ attempt[c].id > Sequence(attempt[c].base)
  <2>1. Proposes(attempt[c])
    BY <1>p, Zenon DEF IInv, ProposesTheNext
  <2>2. attempt[c].base \in 2 .. Latest /\ attempt[c].id = Sequence(attempt[c].base) + 1
    BY <2>1, Zenon DEF Proposes
  <2> QED
    BY <1>t, <1>s, <2>1, <2>2 DEF Latest
<1>w. ASSUME NEW c \in Clients PROVE WholeUpToLast(attempt[c].listing)
  BY Zenon DEF IInv, ListingsWhole
<1>l. LatestSequence \in Nat /\ Latest \in Nat /\ None \in Int
  BY <1>t, <1>s DEF LatestSequence, Latest, None
<1>b. Latest \in 2 .. Latest /\ LatestSequence = Sequence(Latest)
  BY <1>t DEF Latest, LatestSequence
<1>1. ASSUME NEW c \in Clients, NEW t \in Transactions, Begin(c, t) PROVE IInv'
  <2> DEFINE a == [Idle EXCEPT !.since = Latest, !.base = Latest, !.id = LatestSequence + 1,
                               !.rows = AllRows(t), !.fenced = t.fenced]
  <2>1. attempt' = [attempt EXCEPT ![c] = a] /\ log' = log /\ expired' = expired
    BY <1>1, Zenon DEF Begin
  <2>2. t.fenced \in BOOLEAN /\ LatestSequence + 1 \in Int
    BY <1>l, SnapshotsAssumption DEF Transaction
  <2>3. /\ a \in Attempt /\ a.since = Latest /\ a.base = Latest /\ a.id = LatestSequence + 1
        /\ a.staged = None /\ a.listing = {}
    BY <1>l, <2>2, RowsType, IdleType, Zenon DEF Attempt
  <2> HIDE DEF a
  <2>4. Proposes(a) /\ WholeUpToLast(a.listing)
    BY <1>b, <2>3, Zenon DEF Proposes, WholeUpToLast
  <2> QED
    BY <2>1, <2>3, <2>4, NothingPublished, Zenon
<1>2. ASSUME NEW c \in Clients, Retry(c) PROVE IInv'
  <2>1. PICK listed \in {list_snapshots(attempt[c]), StoredSnapshots} :
           attempt' = [attempt EXCEPT ![c].listing = listed, ![c].base = Latest,
                           ![c].id = LatestSequence + 1, ![c].staged = None]
    BY <1>2, Zenon DEF Retry
  <2>2. /\ attempt[c] # Idle /\ log' = log /\ expired' = expired
        /\ attempt[c] \in Attempt
    BY <1>t, <1>2, Zenon DEF Retry
  <2>3. StoredSnapshots \in SUBSET Nat /\ WholeUpToLast(StoredSnapshots)
    <3>1. StoredSnapshots \in SUBSET (1 .. Latest)
      BY Zenon DEF StoredSnapshots
    <3>2. \A p \in 1 .. Latest : \A o \in 1 .. p : o \in 1 .. Latest
      BY <1>l
    <3>3. WholeUpToLast(StoredSnapshots)
      BY <3>1, <3>2, Zenon DEF StoredSnapshots, WholeUpToLast
    <3>4. 1 .. Latest \subseteq Nat
      BY <1>l
    <3> QED
      BY <3>1, <3>3, <3>4, Zenon
  <2>4. listed \in SUBSET Nat /\ WholeUpToLast(listed)
    BY <1>w, <2>2, <2>3, Zenon DEF list_snapshots, Attempt
  <2> DEFINE a == [attempt[c] EXCEPT !.listing = listed, !.base = Latest,
                                     !.id = LatestSequence + 1, !.staged = None]
  <2>5. attempt' = [attempt EXCEPT ![c] = a]
    BY <1>t, <2>1, Zenon
  <2>6. LatestSequence + 1 \in Int
    BY <1>l
  <2>7. /\ a \in Attempt /\ a.since = attempt[c].since /\ a.base = Latest
        /\ a.id = LatestSequence + 1 /\ a.staged = None /\ a.listing = listed
    BY <1>l, <2>2, <2>4, <2>6, Zenon DEF Attempt
  <2> HIDE DEF a
  <2>8. attempt[c].since \in 2 .. Latest
    BY <1>p, <2>2, Zenon DEF Proposes
  <2>9. Proposes(a) /\ WholeUpToLast(a.listing)
    BY <1>b, <2>4, <2>7, <2>8, Zenon DEF Proposes
  <2> QED
    BY <2>2, <2>5, <2>7, <2>9, NothingPublished, Zenon
<1>3. ASSUME NEW c \in Clients,
             DropTables(c) \/ CommitMetadata(c) \/ RegisterInlineTables(c) \/ CommitMacros(c)
      PROVE  IInv'
  <2>1. attempt[c].rows # <<>> /\ Publish(c, attempt[c].id)
    BY <1>3, Zenon DEF DropTables, CommitMetadata, RegisterInlineTables, CommitMacros, Sends
  <2>2. attempt[c] # Idle
    BY <2>1, IdleType, Zenon
  <2> QED
    BY <1>p, <2>1, <2>2, PublishStep, Zenon
<1>4. ASSUME NEW c \in Clients, NEW sequence \in Int, Stage(c, sequence),
             attempt[c].rows # <<>>, NEW s \in attempt[c].base .. Latest, sequence > Sequence(s)
      PROVE  IInv'
  <2> DEFINE a == [attempt[c] EXCEPT !.staged = sequence]
  <2>1. attempt' = [attempt EXCEPT ![c] = a] /\ log' = log /\ expired' = expired
    BY <1>t, <1>4, Zenon DEF Stage
  <2>2. attempt[c] # Idle /\ attempt[c] \in Attempt
    BY <1>t, <1>4, IdleType, Zenon
  <2>3. /\ a \in Attempt /\ a.since = attempt[c].since /\ a.base = attempt[c].base
        /\ a.id = attempt[c].id /\ a.staged = sequence
        /\ a.rows = attempt[c].rows /\ a.listing = attempt[c].listing
    BY <2>2, Zenon DEF Attempt
  <2> HIDE DEF a
  <2>4. Proposes(attempt[c])
    BY <1>p, <2>2, Zenon
  <2>5. Proposes(a) /\ WholeUpToLast(a.listing)
    BY <1>4, <1>w, <2>3, <2>4, Zenon DEF Proposes
  <2> QED
    BY <2>1, <2>3, <2>5, NothingPublished, Zenon
<1>5. ASSUME NEW c \in Clients, StageView(c) PROVE IInv'
  <2>1. attempt[c].rows # <<>> /\ Stage(c, LatestSequence + 1)
    BY <1>5, Zenon DEF StageView, Sends
  <2>2. attempt[c] # Idle
    BY <2>1, IdleType, Zenon
  <2>3. attempt[c].base \in 2 .. Latest
    BY <1>p, <2>2, Zenon DEF Proposes
  <2>4. /\ Latest \in attempt[c].base .. Latest /\ LatestSequence + 1 \in Int
        /\ LatestSequence + 1 > Sequence(Latest)
    BY <1>l, <1>b, <2>3
  <2> QED
    BY <1>4, <2>1, <2>4, Zenon
<1>6. ASSUME NEW c \in Clients, StageData(c) PROVE IInv'
  <2> DEFINE q == IF attempt[c].id >= LatestSequence THEN attempt[c].id ELSE LatestSequence + 1
  <2>1. attempt[c].rows # <<>> /\ Stage(c, q)
    BY <1>6, Zenon DEF StageData, Sends
  <2>2. attempt[c] # Idle
    BY <2>1, IdleType, Zenon
  <2>3. /\ attempt[c].base \in attempt[c].base .. Latest
        /\ attempt[c].base \in 1 .. Len(log)
        /\ attempt[c].id \in Nat /\ attempt[c].id > Sequence(attempt[c].base)
    BY <1>l, <1>p, <2>2 DEF Proposes, Latest
  <2>4. Sequence(attempt[c].base) \in Nat
    BY <1>s, <2>3, Zenon
  <2>5. q \in Int /\ q > Sequence(attempt[c].base)
    BY <1>l, <2>3, <2>4
  <2> HIDE DEF q
  <2> QED
    BY <1>4, <2>1, <2>3, <2>5, Zenon
<1>7. ASSUME NEW c \in Clients, CommitView(c) \/ CommitData(c) PROVE IInv'
  <2>1. attempt[c].staged # None /\ Publish(c, attempt[c].staged)
    BY <1>7, Zenon DEF CommitView, CommitData
  <2>2. attempt[c] # Idle
    BY <2>1, IdleType, Zenon
  <2>3. attempt[c].staged \in Int
    BY <1>t, Zenon DEF Attempt
  <2>4. /\ attempt[c].rows # <<>> /\ attempt[c].base \in 2 .. Latest
        /\ \E s \in attempt[c].base .. Latest : attempt[c].staged > Sequence(s)
    BY <1>p, <2>1, <2>2, Zenon DEF Proposes
  <2>5. PICK s \in attempt[c].base .. Latest : attempt[c].staged > Sequence(s)
    BY <2>4, Zenon
  <2>6. s \in 1 .. Len(log)
    BY <1>l, <2>4 DEF Latest
  <2>7. attempt[c].staged \in Nat
    BY <1>s, <2>3, <2>5, <2>6
  <2> QED
    BY <2>1, <2>2, <2>4, <2>5, <2>7, PublishStep, Zenon
<1>8. ASSUME NEW c \in Clients, Abandon(c) PROVE IInv'
  <2>1. WholeUpToLast(Idle.listing)
    BY IdleType, Zenon DEF WholeUpToLast
  <2> QED
    BY <1>8, <2>1, IdleType, NothingPublished, Zenon DEF Abandon
<1>9. CASE LoadContext \/ ExpireDuckLake \/ ExpirePublic \/ UNCHANGED vars
  <2>1. log' = log /\ attempt' = attempt /\ expired \subseteq expired'
    BY <1>9, Zenon DEF LoadContext, ExpireDuckLake, ExpirePublic, Expire, vars
  <2>2. LogTyped' /\ OldRowsExplained'
    BY <2>1, Zenon DEF IInv, LogTyped, OldRowsExplained, Latest, Sequence
  <2>3. ProposesTheNext'
    BY <2>1, Zenon DEF IInv, ProposesTheNext, Proposes, Latest, Sequence
  <2>4. ListingsWhole'
    BY <2>1, Zenon DEF IInv, ListingsWhole, WholeUpToLast
  <2> QED
    BY <2>2, <2>3, <2>4, Zenon DEF IInv
<1> QED
  BY <1>1, <1>2, <1>3, <1>5, <1>6, <1>7, <1>8, <1>9, Zenon DEF Next

LEMMA Invariance == Spec => []IInv
  BY InitInv, NextInv, PTL DEF Spec

\* Every fact a row carries that a client has to know of has a name in what is told of
\* the row: no combination of facts of one table hides another one.
LEMMA RowIsTold ==
    ASSUME NEW o, NEW f \in log[o].change.facts, Tells(f[1]) # {}
    PROVE  \E name \in Tells(f[1]) : <<name, f[2]>> \in snapshot_changes_made(o)
<1> DEFINE t == f[2]
<1> DEFINE made == snapshot_changes_made(o)
<1> DEFINE facts == FactsAt(o)
<1> DEFINE flushed == facts["flush"] \intersect facts["added"]
<1> DEFINE rewrites == facts["added"] \intersect facts["removed"]
<1> DEFINE rewrite_deletes ==
              rewrites \intersect (facts["marked"] \union facts["file_rows"] \union facts["rewrite"])
<1>1. ASSUME NEW n \in DataFacts \union OperationFacts
      PROVE  facts[n] = Touched(o, {n})
  BY Zenon DEF FactsAt
<1>2. ASSUME NEW n \in MetadataFacts
      PROVE  EventsAt(o)[n] = Touched(o, {n})
  BY Zenon DEF EventsAt
<1>3. t \in Touched(o, {f[1]})
  BY Zenon DEF Touched
<1>4. /\ changes_at(o) \subseteq made
      /\ t \in facts["inserted"] => <<"inlined_insert", t>> \in made
      /\ t \in facts["deleted"] \union facts["file_rows"] => <<"inlined_delete", t>> \in made
      /\ t \in flushed => <<"flushed_inlined", t>> \in made
      /\ t \in facts["added"] \ (rewrites \union flushed) => <<"inserted_into_table", t>> \in made
      /\ t \in (facts["marked"] \union (facts["removed"] \ rewrites)) \ rewrite_deletes =>
            <<"deleted_from_table", t>> \in made
      /\ t \in rewrites \ rewrite_deletes => <<"merge_adjacent", t>> \in made
      /\ t \in rewrite_deletes => <<"rewrite_delete", t>> \in made
  BY Zenon DEF snapshot_changes_made
<1> HIDE DEF made, facts, t
<1>5. CASE f[1] \in {"creates", "alters", "drops"}
  <2>1. t \in EventsAt(o)[f[1]]
    BY <1>2, <1>3, <1>5, Zenon DEF MetadataFacts
  <2>2. PICK name \in Tells(f[1]) : <<name, t>> \in changes_at(o)
    BY <1>5, <2>1, Zenon DEF Tells, changes_at
  <2> QED
    BY <1>4, <2>2, Zenon DEF made, t
<1>6. CASE f[1] \in {"inserted", "deleted", "file_rows"}
  <2>1. t \in facts[f[1]]
    BY <1>1, <1>3, <1>6, Zenon DEF DataFacts
  <2>2. CASE f[1] = "inserted"
    BY <1>4, <2>1, <2>2, Zenon DEF Tells, made, t
  <2>3. CASE f[1] \in {"deleted", "file_rows"}
    BY <1>4, <2>1, <2>3, Zenon DEF Tells, made, t
  <2> QED
    BY <1>6, <2>2, <2>3, Zenon
<1>7. CASE f[1] = "added"
  <2>1. t \in facts["added"]
    BY <1>1, <1>3, <1>7, Zenon DEF DataFacts
  <2>2. \E name \in {"inserted_into_table", "flushed_inlined", "merge_adjacent", "rewrite_delete"} :
           <<name, t>> \in made
    BY <1>4, <2>1, Zenon
  <2> QED
    BY <1>7, <2>2, Zenon DEF Tells, made, t
<1>8. CASE f[1] \in {"removed", "marked"}
  <2>1. t \in facts[f[1]]
    BY <1>1, <1>3, <1>8, Zenon DEF DataFacts
  <2>2. \E name \in {"deleted_from_table", "merge_adjacent", "rewrite_delete"} :
           <<name, t>> \in made
    BY <1>4, <1>8, <2>1, Zenon
  <2> QED
    BY <1>8, <2>2, Zenon DEF Tells, made, t
<1> QED
  BY <1>5, <1>6, <1>7, <1>8, Zenon DEF Tells

\* The conflict check of a client misses nothing of what was there when its read context
\* first listed the snapshots but rows with an old sequence, and those only once an attempt
\* that began before the client's snapshot has published one: so the first check of a
\* client that shares the catalog with no such attempt is told of everything.
THEOREM ChangesAreToldHolds == Spec => []ChangesAreTold
<1>1. ASSUME IInv PROVE ChangesAreTold
  <2> SUFFICES ASSUME NEW c \in Clients, attempt[c] # Idle,
                      NEW o \in attempt[c].since + 1 .. Latest, o \notin expired,
                      ~\A p \in list_snapshots(attempt[c]) : p < o,
                      ~(/\ Sequence(o) <= Sequence(attempt[c].since)
                        /\ \E p \in attempt[c].since + 1 .. o :
                              /\ Sequence(p) <= Sequence(attempt[c].since)
                              /\ log[p].base < attempt[c].since),
                      NEW f \in log[o].change.facts, Tells(f[1]) # {}
               PROVE  \E name \in Tells(f[1]) :
                         <<name, f[2]>> \in snapshot_changes_after(list_snapshots(attempt[c]),
                                                                  Sequence(attempt[c].since))
    BY Zenon DEF ChangesAreTold
  <2> DEFINE b == attempt[c].since
  <2> DEFINE listed == list_snapshots(attempt[c])
  <2>t. log \in Seq(LogRow) /\ attempt[c] \in Attempt
    BY <1>1, Zenon DEF IInv, LogTyped
  <2>b. b \in 2 .. Latest
    BY <1>1, Zenon DEF IInv, ProposesTheNext, Proposes
  <2>1. Latest \in Nat /\ o \in 1 .. Latest
    BY <2>t, <2>b DEF Latest
  <2>2. Sequence(o) \in Nat /\ Sequence(b) \in Nat
    <3>1. log[o] \in LogRow /\ log[b] \in LogRow
      BY <2>t, <2>b, <2>1 DEF Latest
    <3> QED
      BY <3>1, Zenon DEF LogRow, Sequence
  <2>3. Sequence(o) > Sequence(b)
    <3>1. ~(Sequence(o) <= Sequence(b))
      BY <1>1, <2>b, Zenon DEF IInv, OldRowsExplained
    <3> QED
      BY <2>2, <3>1
  <2>4. o \in listed
    <3>1. CASE attempt[c].listing = {}
      BY <2>1, <3>1, Zenon DEF list_snapshots, StoredSnapshots
    <3>2. CASE attempt[c].listing # {}
      <4>1. listed = attempt[c].listing /\ WholeUpToLast(listed) /\ listed \subseteq Nat
        BY <1>1, <2>t, <3>2, Zenon DEF list_snapshots, IInv, ListingsWhole, Attempt
      <4>2. PICK p \in listed : ~(p < o)
        BY Zenon
      <4>3. o \in 1 .. p
        BY <2>1, <4>1, <4>2
      <4> QED
        BY <4>1, <4>2, <4>3, Zenon DEF WholeUpToLast
    <3> QED
      BY <3>1, <3>2, Zenon
  <2>5. snapshot_changes_made(o) \subseteq snapshot_changes_after(listed, Sequence(b))
    BY <2>3, <2>4, Zenon DEF snapshot_changes_after
  <2>6. PICK name \in Tells(f[1]) : <<name, f[2]>> \in snapshot_changes_made(o)
    BY RowIsTold, Zenon
  <2> QED
    BY <2>5, <2>6, Zenon
<1> QED
  BY <1>1, Invariance, PTL
=============================================================================
