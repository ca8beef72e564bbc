--------------------------- MODULE Iastat_proofs ---------------------------
(***************************************************************************)
(* Proofs about Iastat, for any command line, lists of cpus and sockets,   *)
(* number of units and of rounds: what parseEvents makes of the line, that *)
(* cleanUp reaches every counter, and that what a round prints is what its *)
(* counters have counted.                                                  *)
(*                                                                         *)
(* What is known of the maps that main builds is where each counter has    *)
(* its entry: one that is open has one, in the list of its event's name,   *)
(* and one that is not has none.  What is known of a round is how far each *)
(* name's lines have come: so many times its counters' estimates as the    *)
(* name is among those printed.                                            *)
(***************************************************************************)
EXTENDS Iastat, Counting

CounterValue == [Raw : Nat, Enabled : Nat, Running : Nat]

\* An eventValue or eventMultiValue.
Entry == [position : Positions, place : STRING, values : Seq(CounterValue)]

\* What the list of a name holds.
EntryOf(name, e) ==
  /\ e \in Entry
  /\ line[e.position].name = name
  /\ e.place \in Places(e.position)
  /\ Len(e.values) \in {0, Width(name)}

\* What activeEvents and activeMultiEvents may hold together.
Maps == UNION {[S -> Seq(Entry)] : S \in SUBSET STRING}

MapOK(map) ==
  /\ map \in Maps
  /\ \A name \in DOMAIN map : /\ map[name] \in Seq(Entry) \ {<<>>}
                              /\ \A k \in DOMAIN map[name] : EntryOf(name, map[name][k])

\* An entry for the event at position p in one place.
At(e, p, place) == e.position = p /\ e.place = place

\* The pairs of a position and a place in D have an entry each, and no other has one.
Registered(map, D) ==
  \A p \in Positions, c \in STRING :
    IF <<p, c>> \in D
    THEN /\ line[p].name \in DOMAIN map
         /\ \E k \in DOMAIN map[line[p].name] :
              \A j \in DOMAIN map[line[p].name] : At(map[line[p].name][j], p, c) <=> j = k
    ELSE \A name \in DOMAIN map : \A k \in DOMAIN map[name] : ~At(map[name][k], p, c)
-----------------------------------------------------------------------------
LEMMA LineFacts ==
  ASSUME line \in CommandLines
  PROVE  /\ line \in Seq(Token) /\ Len(line) \in Nat /\ Positions = 1 .. Len(line)
         /\ \A p \in Positions : line[p] \in Token /\ p \in Nat
<1>1. line \in Seq(Token)
  BY IastatAssumption
<1> QED
  BY <1>1 DEF Positions

LEMMA PlaceFacts ==
  /\ Cpus \in Seq(STRING) \ {<<>>} /\ Sockets \in Seq(STRING) \ {<<>>}
  /\ \A i, j \in DOMAIN Cpus : Cpus[i] = Cpus[j] => i = j
  /\ \A i, j \in DOMAIN Sockets : Sockets[i] = Sockets[j] => i = j
  /\ Units \in Nat \ {0} /\ \A name : Width(name) \in Nat \ {0}
  /\ \A p : Places(p) \subseteq STRING
<1>1. \A places \in {Cpus, Sockets} : places \in Seq(STRING) \ {<<>>} /\ IsInjective(places)
  BY IastatAssumption
<1>2. Cpus \in Seq(STRING) \ {<<>>} /\ Sockets \in Seq(STRING) \ {<<>>}
  BY <1>1
<1>3. /\ \A i, j \in DOMAIN Cpus : Cpus[i] = Cpus[j] => i = j
      /\ \A i, j \in DOMAIN Sockets : Sockets[i] = Sockets[j] => i = j
  BY <1>1 DEF IsInjective
<1>4. Units \in Nat \ {0} /\ \A name : Width(name) \in Nat \ {0}
  BY IastatAssumption DEF Width
<1>5. \A p : Places(p) \subseteq STRING
  BY <1>2 DEF Places, ToSet
<1> QED
  BY <1>2, <1>3, <1>4, <1>5

\* Entries of the event at p, in different places.
EntriesAt(p, list) ==
  /\ list \in Seq(Entry) \ {<<>>}
  /\ \A k \in DOMAIN list : EntryOf(line[p].name, list[k]) /\ list[k].position = p
  /\ \A i, j \in DOMAIN list : list[i].place = list[j].place => i = j

Spots(list) == {<<list[k].position, list[k].place>> : k \in DOMAIN list}

\* New entries of one event, in places where it has none.
LEMMA AddRegisters ==
  ASSUME line \in CommandLines, NEW map, MapOK(map), NEW D, Registered(map, D),
         NEW p \in Positions, NEW list, EntriesAt(p, list), Spots(list) \cap D = {}
  PROVE  /\ MapOK(Add(map, line[p].name, list))
         /\ Registered(Add(map, line[p].name, list), D \cup Spots(list))
         /\ DOMAIN Add(map, line[p].name, list) = DOMAIN map \cup {line[p].name}
<1>0. /\ list \in Seq(Entry) /\ list # <<>>
      /\ \A k \in DOMAIN list : EntryOf(line[p].name, list[k]) /\ list[k].position = p
      /\ \A i, j \in DOMAIN list : list[i].place = list[j].place => i = j
      /\ \A k \in DOMAIN list : <<p, list[k].place>> \notin D
      /\ Spots(list) = {<<p, list[k].place>> : k \in DOMAIN list}
  BY DEF EntriesAt, Spots
<1> USE <1>0
<1> DEFINE name == line[p].name
           old == IF name \in DOMAIN map THEN map[name] ELSE <<>>
           new == Add(map, name, list)
           E == {<<p, list[k].place>> : k \in DOMAIN list}
<1>1. \A n \in DOMAIN map : map[n] \in Seq(Entry)
  BY DEF MapOK
<1>2. /\ DOMAIN new = DOMAIN map \cup {name}
      /\ \A n \in DOMAIN map : n # name => new[n] = map[n]
      /\ old \in Seq(Entry) /\ new[name] = old \o list
  <2>1. DOMAIN new = DOMAIN map \cup {name}
    BY DEF Add
  <2>2. ASSUME NEW n \in DOMAIN map, n # name
        PROVE  new[n] = map[n]
    <3>1. new[n] = map[n] \o <<>>
      BY <2>2 DEF Add
    <3>2. map[n] \in Seq(Entry)
      BY <1>1
    <3> QED
      BY <3>1, <3>2, ConcatEmptySeq
  <2>3. old \in Seq(Entry)
    BY <1>1
  <2>4. new[name] = old \o list
    BY DEF Add
  <2> QED
    BY <2>1, <2>2, <2>3, <2>4
<1> DEFINE m == Len(old)
           l == Len(list)
<1>3. /\ m \in Nat /\ l \in Nat \ {0} /\ DOMAIN old = 1 .. m /\ DOMAIN list = 1 .. l
      /\ new[name] \in Seq(Entry) /\ Len(new[name]) = m + l
      /\ DOMAIN new[name] = 1 .. m + l
      /\ \A k \in 1 .. m : new[name][k] = old[k]
      /\ \A k \in 1 .. l : new[name][m + k] = list[k]
  <2> HIDE DEF name, old, new
  <2>1. m \in Nat /\ l \in Nat \ {0} /\ DOMAIN old = 1 .. m /\ DOMAIN list = 1 .. l
    BY <1>2
  <2>2. /\ old \o list \in Seq(Entry) /\ Len(old \o list) = m + l
        /\ DOMAIN (old \o list) = 1 .. m + l
        /\ \A k \in 1 .. m : (old \o list)[k] = old[k]
        /\ \A k \in 1 .. l : (old \o list)[m + k] = list[k]
    BY <1>2
  <2> QED
    BY <1>2, <2>1, <2>2
<1>4. \A k \in 1 .. m : EntryOf(name, old[k])
  BY <1>3 DEF MapOK
<1>5. \A k \in 1 .. m + l : k \in 1 .. m \/ (k - m \in 1 .. l /\ k = m + (k - m))
  <2> HIDE DEF m, l
  <2> QED
    BY <1>3
<1> HIDE DEF m, l
<1>6. MapOK(new)
  <2>3. new \in Maps
    <3>1. DOMAIN map \in SUBSET STRING /\ name \in STRING
      BY LineFacts DEF MapOK, Maps, Token
    <3>2. \A n \in DOMAIN new : new[n] \in Seq(Entry)
      <4> HIDE DEF name, new, old
      <4> QED
        BY <1>1, <1>2, <1>3
    <3>3. new = [n \in DOMAIN new |-> new[n]]
      BY DEF Add
    <3> HIDE DEF name, new
    <3>4. new \in [DOMAIN new -> Seq(Entry)]
      BY <3>2, <3>3
    <3>5. DOMAIN new \in SUBSET STRING
      BY <1>2, <3>1
    <3> QED
      BY <3>4, <3>5 DEF Maps
  <2> SUFFICES ASSUME NEW n \in DOMAIN new
               PROVE  /\ new[n] \in Seq(Entry) \ {<<>>}
                      /\ \A k \in DOMAIN new[n] : EntryOf(n, new[n][k])
    BY <2>3 DEF MapOK
  <2>1. CASE n = name
    <3>1. \A k \in 1 .. m + l : EntryOf(name, new[name][k])
      <4>1. \A k \in 1 .. l : EntryOf(name, list[k])
        BY <1>3
      <4> HIDE DEF name, new, old
      <4> TAKE k \in 1 .. m + l
      <4>2. CASE k \in 1 .. m
        BY <1>3, <1>4, <4>2
      <4>3. CASE k \notin 1 .. m
        <5>1. k - m \in 1 .. l /\ new[name][k] = list[k - m]
          BY <1>3, <1>5, <4>3
        <5> QED
          BY <4>1, <5>1
      <4> QED
        BY <4>2, <4>3
    <3>2. new[name] # <<>>
      <4> HIDE DEF name, new
      <4> QED
        BY <1>3
    <3> HIDE DEF name, new
    <3> QED
      BY <1>3, <2>1, <3>1, <3>2
  <2>2. CASE n # name
    BY <1>2, <2>2 DEF MapOK
  <2> QED
    BY <2>1, <2>2
<1>7. Registered(new, D \cup E)
  <2> SUFFICES ASSUME NEW q \in Positions, NEW c \in STRING
               PROVE  IF <<q, c>> \in D \cup E
                      THEN /\ line[q].name \in DOMAIN new
                           /\ \E k \in DOMAIN new[line[q].name] :
                                \A j \in DOMAIN new[line[q].name] : At(new[line[q].name][j], q, c) <=> j = k
                      ELSE \A n \in DOMAIN new : \A k \in DOMAIN new[n] : ~At(new[n][k], q, c)
    BY DEF Registered
  <2>1. CASE <<q, c>> \in D
    <3>1. <<q, c>> \notin E
      BY <2>1
    <3>2. \A k \in 1 .. l : ~At(list[k], q, c)
      BY <1>3, <3>1 DEF At
    <3>3. /\ line[q].name \in DOMAIN map
          /\ \E k \in DOMAIN map[line[q].name] :
               \A j \in DOMAIN map[line[q].name] : At(map[line[q].name][j], q, c) <=> j = k
      BY <2>1 DEF Registered
    <3>4. CASE line[q].name = name
      <4>1. old = map[name]
        BY <3>3, <3>4
      <4>2. \E k \in DOMAIN map[name] : \A j \in DOMAIN map[name] : At(map[name][j], q, c) <=> j = k
        BY <3>3, <3>4
      <4> HIDE DEF name, new, old
      <4>3. PICK k \in 1 .. m : \A j \in 1 .. m : At(old[j], q, c) <=> j = k
        <5>1. DOMAIN old = 1 .. m
          BY <1>3
        <5> QED
          BY <4>1, <4>2, <5>1
      <4>4. \A j \in 1 .. m + l : At(new[name][j], q, c) <=> j = k
        <5> TAKE j \in 1 .. m + l
        <5>1. CASE j \in 1 .. m
          BY <1>3, <4>3, <5>1
        <5>2. CASE j \notin 1 .. m
          <6>1. j - m \in 1 .. l /\ new[name][j] = list[j - m]
            BY <1>3, <1>5, <5>2
          <6> QED
            BY <3>2, <4>3, <5>2, <6>1
        <5> QED
          BY <5>1, <5>2
      <4>5. k \in 1 .. m + l
        BY <1>3
      <4>6. \E i \in DOMAIN new[name] : \A j \in DOMAIN new[name] : At(new[name][j], q, c) <=> j = i
        <5>1. DOMAIN new[name] = 1 .. m + l
          BY <1>3
        <5> QED
          BY <4>4, <4>5, <5>1
      <4> HIDE DEF E
      <4> QED
        BY <1>2, <2>1, <3>4, <4>6
    <3>5. CASE line[q].name # name
      <4>1. line[q].name \in DOMAIN new /\ new[line[q].name] = map[line[q].name]
        BY <1>2, <3>3, <3>5
      <4> HIDE DEF name, new, E
      <4> QED
        BY <2>1, <3>3, <4>1
    <3> QED
      BY <3>4, <3>5
  <2>2. CASE <<q, c>> \in E
    <3>1. PICK i \in 1 .. l : q = p /\ c = list[i].place
      BY <1>3, <2>2
    <3>2. <<q, c>> \notin D
      BY <1>3, <3>1
    <3>3. \A n \in DOMAIN map : \A k \in DOMAIN map[n] : ~At(map[n][k], q, c)
      BY <3>2 DEF Registered
    <3>4. \A k \in 1 .. m : ~At(old[k], q, c)
      BY <1>3, <3>3
    <3>5. \A j \in 1 .. l : At(list[j], q, c) <=> j = i
      BY <1>3, <3>1 DEF At
    <3> HIDE DEF name, new, old
    <3>6. \A j \in 1 .. m + l : At(new[name][j], q, c) <=> j = m + i
      <4> TAKE j \in 1 .. m + l
      <4>1. CASE j \in 1 .. m
        BY <1>3, <3>4, <4>1
      <4>2. CASE j \notin 1 .. m
        <5>1. j - m \in 1 .. l /\ new[name][j] = list[j - m]
          BY <1>3, <1>5, <4>2
        <5>2. j - m = i <=> j = m + i
          BY <1>3
        <5> QED
          BY <3>5, <5>1, <5>2
      <4> QED
        BY <4>1, <4>2
    <3>7. m + i \in 1 .. m + l
      BY <1>3
    <3>8. line[q].name = name
      BY <3>1 DEF name
    <3>9. \E k \in DOMAIN new[name] : \A j \in DOMAIN new[name] : At(new[name][j], q, c) <=> j = k
      <4>1. DOMAIN new[name] = 1 .. m + l
        BY <1>3
      <4> QED
        BY <3>6, <3>7, <4>1
    <3> HIDE DEF E
    <3> QED
      BY <1>2, <2>2, <3>8, <3>9
  <2>3. CASE <<q, c>> \notin D \cup E
    <3>1. \A n \in DOMAIN map : \A k \in DOMAIN map[n] : ~At(map[n][k], q, c)
      BY <2>3 DEF Registered
    <3>2. \A k \in 1 .. l : ~At(list[k], q, c)
      BY <1>3, <2>3 DEF At
    <3>3. \A k \in 1 .. m : ~At(old[k], q, c)
      BY <1>3, <3>1
    <3> HIDE DEF name, new, old
    <3>4. \A j \in 1 .. m + l : ~At(new[name][j], q, c)
      BY <1>3, <1>5, <3>2, <3>3
    <3>5. \A n \in DOMAIN new : \A k \in DOMAIN new[n] : ~At(new[n][k], q, c)
      BY <1>2, <1>3, <3>1, <3>4
    <3> HIDE DEF E
    <3> QED
      BY <2>3, <3>5
  <2> QED
    BY <2>1, <2>2, <2>3
<1> QED
  BY <1>2, <1>6, <1>7
-----------------------------------------------------------------------------
\* The types, in full.
Typed ==
  /\ line \in CommandLines /\ aggr \in BOOLEAN /\ merge \in BOOLEAN
  /\ pc \in {"parse", "resolve", "singles", "groups", "sleep", "read", "print", "returned", "exited"}
  /\ at \in Nat \ {0}
  /\ singles \in Seq(Positions) /\ groups \in Seq(Seq(Positions)) /\ current \in Seq(Positions)
  /\ inGroup \in BOOLEAN
  /\ MapOK(active)
  /\ activeEventNames \in Seq(CoreEvents) /\ activeMultiEventNames \in Seq(UncoreEvents)
  /\ ToSet(activeEventNames) \cup ToSet(activeMultiEventNames) \subseteq DOMAIN active
  /\ open \subseteq Counters /\ dead \subseteq Positions
  /\ round \in Nat /\ (Count > 0 => round <= Count)
  /\ unread \subseteq DOMAIN active /\ announced \subseteq DOMAIN active
  /\ output \in Seq([name : DOMAIN active, value : Nat])
  /\ failures \in 0 .. MaxFailures
  /\ pc \notin {"parse", "resolve", "exited"} => Known

\* How many elements of the line have been parsed.
Seen == IF pc = "parse" THEN at - 1 ELSE Len(line)

\* Position p stands in the n-th braces.
InGroup(p, n) == Opened(p) = n /\ Closed(p - 1) = n - 1

\* The braces of the elements that have been seen, in whole groups but the one
\* that is open.
BracesSoFar ==
  /\ Seen \in 0 .. Len(line)
  /\ Opened(Seen) = Closed(Seen) + (IF inGroup THEN 1 ELSE 0)
  /\ \A p \in 1 .. Seen : Opened(p) - Closed(p) \in {0, 1} /\ Opened(p) - Closed(p - 1) \in {0, 1}
  /\ pc # "parse" => ~inGroup

ParsedSoFar ==
  /\ BracesSoFar
  /\ InLineOrder(singles, {p \in 1 .. Seen : Opened(p) = Closed(p - 1)})
  /\ Len(groups) = Closed(Seen)
  /\ \A g \in DOMAIN groups : InLineOrder(groups[g], {p \in 1 .. Seen : InGroup(p, g)})
  /\ InLineOrder(current, {p \in 1 .. Seen : inGroup /\ InGroup(p, Closed(Seen) + 1)})

LEMMA BraceFacts ==
  ASSUME line \in CommandLines
  PROVE  /\ Opened(0) = 0 /\ Closed(0) = 0
         /\ \A p \in 0 .. Len(line) : Opened(p) \in Nat /\ Closed(p) \in Nat
         /\ \A p \in 1 .. Len(line) : /\ Opened(p) = Opened(p - 1) + (IF line[p].opens THEN 1 ELSE 0)
                                      /\ Closed(p) = Closed(p - 1) + (IF line[p].closes THEN 1 ELSE 0)
         /\ \A p \in 0 .. Len(line) : \A q \in 0 .. p : Opened(q) <= Opened(p)
<1> DEFINE O(p) == {q \in 1 .. p : line[q].opens}
           C(p) == {q \in 1 .. p : line[q].closes}
<1>1. Len(line) \in Nat
  BY LineFacts
<1>2. ASSUME NEW p \in 0 .. Len(line)
      PROVE  /\ IsFiniteSet(O(p)) /\ Cardinality(O(p)) \in Nat
             /\ IsFiniteSet(C(p)) /\ Cardinality(C(p)) \in Nat
  <2>1. IsFiniteSet(1 .. p)
    <3>1. 1 \in Int /\ p \in Int
      BY <1>1
    <3> QED
      BY <3>1, FS_Interval, Zenon
  <2>2. O(p) \in SUBSET (1 .. p) /\ C(p) \in SUBSET (1 .. p)
    OBVIOUS
  <2> HIDE DEF O, C
  <2> QED
    BY <2>1, <2>2, FS_Subset, FS_CardinalityType
<1>3. O(0) = {} /\ C(0) = {}
  OBVIOUS
<1>4. ASSUME NEW p \in 1 .. Len(line)
      PROVE  /\ O(p) = IF line[p].opens THEN O(p - 1) \cup {p} ELSE O(p - 1)
             /\ C(p) = IF line[p].closes THEN C(p - 1) \cup {p} ELSE C(p - 1)
             /\ p \notin O(p - 1) /\ p \notin C(p - 1) /\ p - 1 \in 0 .. Len(line)
  <2>1. 1 .. p = (1 .. p - 1) \cup {p}
    BY <1>1
  <2> QED
    BY <1>1, <2>1
<1>5. \A p \in 0 .. Len(line) : \A q \in 0 .. p : O(q) \in SUBSET O(p)
  BY <1>1
<1>6. \A p \in 0 .. Len(line) : Opened(p) = Cardinality(O(p)) /\ Closed(p) = Cardinality(C(p))
  BY DEF Opened, Closed
<1> HIDE DEF O, C
<1>7. Opened(0) = 0 /\ Closed(0) = 0
  <2>1. 0 \in 0 .. Len(line)
    BY <1>1
  <2>2. Cardinality(O(0)) = 0 /\ Cardinality(C(0)) = 0
    BY <1>3, FS_EmptySet
  <2> QED
    BY <1>6, <2>1, <2>2
<1>8. ASSUME NEW p \in 1 .. Len(line)
      PROVE  /\ Opened(p) = Opened(p - 1) + (IF line[p].opens THEN 1 ELSE 0)
             /\ Closed(p) = Closed(p - 1) + (IF line[p].closes THEN 1 ELSE 0)
  <2>1. p \in 0 .. Len(line) /\ p - 1 \in 0 .. Len(line)
    BY <1>1
  <2>2. IsFiniteSet(O(p - 1)) /\ IsFiniteSet(C(p - 1))
    BY <1>2, <2>1
  <2>3. /\ Cardinality(O(p - 1) \cup {p}) = Cardinality(O(p - 1)) + 1
        /\ Cardinality(C(p - 1) \cup {p}) = Cardinality(C(p - 1)) + 1
    BY <1>4, <2>2, FS_AddElement
  <2>4. Cardinality(O(p - 1)) \in Nat /\ Cardinality(C(p - 1)) \in Nat
    BY <1>2, <2>1
  <2>5. /\ Opened(p) = Cardinality(O(p)) /\ Closed(p) = Cardinality(C(p))
        /\ Opened(p - 1) = Cardinality(O(p - 1)) /\ Closed(p - 1) = Cardinality(C(p - 1))
    BY <1>6, <2>1
  <2>6. Opened(p) = Opened(p - 1) + (IF line[p].opens THEN 1 ELSE 0)
    <3>1. O(p) = IF line[p].opens THEN O(p - 1) \cup {p} ELSE O(p - 1)
      BY <1>4
    <3> QED
      BY <2>3, <2>4, <2>5, <3>1
  <2>7. Closed(p) = Closed(p - 1) + (IF line[p].closes THEN 1 ELSE 0)
    <3>1. C(p) = IF line[p].closes THEN C(p - 1) \cup {p} ELSE C(p - 1)
      BY <1>4
    <3> QED
      BY <2>3, <2>4, <2>5, <3>1
  <2> QED
    BY <2>6, <2>7
<1>9. ASSUME NEW p \in 0 .. Len(line), NEW q \in 0 .. p
      PROVE  Opened(q) <= Opened(p)
  <2>1. q \in 0 .. Len(line)
    BY <1>1
  <2>2. Cardinality(O(q)) <= Cardinality(O(p))
    BY <1>2, <1>5, FS_Subset
  <2> QED
    BY <1>6, <2>1, <2>2
<1> QED
  BY <1>2, <1>6, <1>7, <1>8, <1>9

\* The next position at the end of a list.
LEMMA OrderExtends ==
  ASSUME NEW n \in Nat, NEW list \in Seq(1 .. n), NEW S, InLineOrder(list, S)
  PROVE  InLineOrder(list \o <<n + 1>>, S \cup {n + 1})
<1> DEFINE new == list \o <<n + 1>>
           l == Len(list)
<1>1. /\ l \in Nat /\ DOMAIN list = 1 .. l /\ DOMAIN new = 1 .. l + 1
      /\ \A k \in 1 .. l : new[k] = list[k] /\ list[k] \in 1 .. n
      /\ new[l + 1] = n + 1
  OBVIOUS
<1>2. S = {list[i] : i \in 1 .. l} /\ \A i, j \in 1 .. l : i < j => list[i] < list[j]
  BY <1>1 DEF InLineOrder, ToSet
<1> HIDE DEF new, l
<1>3. {new[i] : i \in 1 .. l + 1} = S \cup {n + 1}
  <2>1. \A i \in 1 .. l + 1 : i \in 1 .. l \/ i = l + 1
    BY <1>1
  <2>2. \A i \in 1 .. l : i \in 1 .. l + 1
    BY <1>1
  <2>3. l + 1 \in 1 .. l + 1
    BY <1>1
  <2> QED
    BY <1>1, <1>2, <2>1, <2>2, <2>3
<1>4. \A i, j \in 1 .. l + 1 : i < j => new[i] < new[j]
  BY <1>1, <1>2
<1>5. ToSet(new) = S \cup {n + 1}
  BY <1>1, <1>3 DEF ToSet
<1>6. \A i, j \in DOMAIN new : i < j => new[i] < new[j]
  BY <1>1, <1>4
<1> QED
  BY <1>5, <1>6 DEF InLineOrder, new

LEMMA OrderOfNone == \A S : S = {} => InLineOrder(<<>>, S)
BY DEF InLineOrder, ToSet

LEMMA SmallerElements ==
  ASSUME NEW X, NEW list \in Seq(X), NEW Y, ToSet(list) \subseteq Y
  PROVE  list \in Seq(Y)
<1>1. Len(list) \in Nat /\ list \in [1 .. Len(list) -> X] /\ DOMAIN list = 1 .. Len(list)
  OBVIOUS
<1>2. \A i \in 1 .. Len(list) : list[i] \in Y
  BY <1>1 DEF ToSet
<1>3. list \in [1 .. Len(list) -> Y]
  BY <1>1, <1>2
<1> QED
  BY <1>1, <1>3

\* parseEvents goes on to the next element.
LEMMA ParseKeeps ==
  ASSUME Typed, ParsedSoFar, Parse
  PROVE  ParsedSoFar'
<1> DEFINE n == at - 1
           O == Opened(n)
           C == Closed(n)
           token == line[at]
           list == (IF token.opens THEN <<>> ELSE current) \o <<at>>
           Single(m) == {p \in 1 .. m : Opened(p) = Closed(p - 1)}
           Group(m, g) == {p \in 1 .. m : InGroup(p, g)}
<1>1. /\ at \in Nat /\ Len(line) \in Nat /\ n \in Nat /\ at = n + 1 /\ at \in 1 .. Len(line)
      /\ line \in CommandLines /\ Seen = n /\ n \in 0 .. Len(line) /\ token \in Token
  BY LineFacts DEF Typed, Parse, Seen
<1>2. line' = line /\ pc' = pc /\ at' = at + 1 /\ Seen' = at
  BY <1>1 DEF Parse, Seen, lineVars
<1>3. \A p : (Opened(p))' = Opened(p) /\ (Closed(p))' = Closed(p)
  BY <1>2 DEF Opened, Closed
<1>4. /\ O \in Nat /\ C \in Nat /\ Closed(at - 1) = C
      /\ Opened(at) = O + (IF token.opens THEN 1 ELSE 0)
      /\ Closed(at) = C + (IF token.closes THEN 1 ELSE 0)
      /\ \A p \in 1 .. n : Opened(p) \in Nat /\ Opened(p) <= O
  <2>1. \A p \in 1 .. n : p \in 0 .. n /\ p \in 0 .. Len(line)
    BY <1>1
  <2> QED
    BY <1>1, <2>1, BraceFacts
<1>5. /\ O = C + (IF inGroup THEN 1 ELSE 0)
      /\ \A p \in 1 .. n : Opened(p) - Closed(p) \in {0, 1} /\ Opened(p) - Closed(p - 1) \in {0, 1}
  BY <1>1 DEF ParsedSoFar, BracesSoFar
<1>6. ~(token.opens /\ inGroup) /\ ~(token.closes /\ ~(inGroup \/ token.opens))
  BY DEF Parse, Misplaced
<1>7. /\ InLineOrder(singles, Single(n))
      /\ Len(groups) = C
      /\ \A g \in DOMAIN groups : InLineOrder(groups[g], Group(n, g))
      /\ InLineOrder(current, {p \in 1 .. n : inGroup /\ InGroup(p, C + 1)})
  BY <1>1 DEF ParsedSoFar
<1>8. groups \in Seq(Seq(Positions)) /\ singles \in Seq(1 .. n) /\ current \in Seq(1 .. n)
  <2>1. ToSet(singles) \subseteq 1 .. n /\ ToSet(current) \subseteq 1 .. n
    BY <1>7 DEF InLineOrder
  <2> QED
    BY <2>1, SmallerElements DEF Typed
<1>9. 1 .. at = (1 .. n) \cup {at} /\ at \notin 1 .. n
  BY <1>1
<1>10. /\ Single(at) = IF Opened(at) = C THEN Single(n) \cup {at} ELSE Single(n)
       /\ \A g : Group(at, g) = IF Opened(at) = g /\ C = g - 1 THEN Group(n, g) \cup {at} ELSE Group(n, g)
  BY <1>4, <1>9 DEF InGroup
<1>11. SUFFICES /\ Opened(at) = Closed(at) + (IF inGroup' THEN 1 ELSE 0)
                /\ Opened(at) - Closed(at) \in {0, 1} /\ Opened(at) - C \in {0, 1}
                /\ InLineOrder(singles', Single(at))
                /\ Len(groups') = Closed(at)
                /\ \A g \in DOMAIN groups' : InLineOrder(groups'[g], Group(at, g))
                /\ InLineOrder(current', {p \in 1 .. at : inGroup' /\ InGroup(p, Closed(at) + 1)})
  <2>1. \A p, g : InGroup(p, g)' = InGroup(p, g)
    BY <1>3 DEF InGroup
  <2>2. BracesSoFar'
    <3>1. Seen' \in 0 .. Len(line)
      BY <1>1, <1>2
    <3>2. \A p \in 1 .. at : Opened(p) - Closed(p) \in {0, 1} /\ Opened(p) - Closed(p - 1) \in {0, 1}
      BY <1>4, <1>5, <1>9, <1>11
    <3>3. pc' = "parse"
      BY <1>2 DEF Parse
    <3> HIDE DEF O, C
    <3> QED
      BY <1>2, <1>3, <1>11, <3>1, <3>2, <3>3 DEF BracesSoFar
  <2> HIDE DEF O, C
  <2> QED
    BY <1>2, <1>3, <1>11, <2>1, <2>2 DEF ParsedSoFar
<1> HIDE DEF n, O, C
<1>12. CASE ~(inGroup \/ token.opens)
  <2>1. singles' = Append(singles, at) /\ groups' = groups /\ current' = current /\ inGroup' = inGroup
    BY <1>6, <1>12 DEF Parse
  <2>2. inGroup = FALSE /\ ~token.closes /\ ~token.opens
    BY <1>6, <1>12 DEF Typed
  <2>3. Opened(at) = C /\ Closed(at) = C /\ O = C
    BY <1>4, <1>5, <2>2
  <2>4. InLineOrder(singles', Single(at))
    <3>1. singles' = singles \o <<at>>
      BY <1>8, <2>1
    <3> HIDE DEF Single
    <3>2. InLineOrder(singles \o <<n + 1>>, Single(n) \cup {n + 1})
      BY <1>1, <1>7, <1>8, OrderExtends
    <3> QED
      BY <1>1, <1>10, <2>3, <3>1, <3>2
  <2>5. \A g \in DOMAIN groups : g \in Int /\ Group(at, g) = Group(n, g)
    <3>1. \A g \in DOMAIN groups : g \in Int
      BY <1>8
    <3> HIDE DEF Group
    <3> QED
      BY <1>4, <1>10, <2>3, <3>1
  <2>6. current = <<>>
    BY <1>7, <1>8, <2>2 DEF InLineOrder, ToSet
  <2> HIDE DEF Group, Single
  <2> QED
    BY <1>4, <1>7, <2>1, <2>2, <2>3, <2>4, <2>5, <2>6, OrderOfNone
<1>13. CASE inGroup \/ token.opens
  <2>1. Opened(at) = C + 1
    BY <1>4, <1>5, <1>6, <1>13
  <2>2. list \in Seq(1 .. at) /\ InLineOrder(list, Group(at, C + 1))
    <3> DEFINE before == IF token.opens THEN <<>> ELSE current
    <3>1. before \in Seq(1 .. n) /\ InLineOrder(before, Group(n, C + 1))
      <4>1. CASE token.opens
        <5>1. O = C /\ C + 1 > O
          BY <1>4, <1>5, <1>6, <4>1
        <5>2. Group(n, C + 1) = {}
          BY <1>4, <5>1 DEF InGroup
        <5> HIDE DEF Group
        <5> QED
          BY <4>1, <5>2, OrderOfNone
      <4>2. CASE ~token.opens
        <5>1. inGroup
          BY <1>13, <4>2
        <5> QED
          BY <1>7, <1>8, <4>2, <5>1
      <4> QED
        BY <4>1, <4>2
    <3>2. Group(at, C + 1) = Group(n, C + 1) \cup {at}
      <4>1. C = (C + 1) - 1
        BY <1>4
      <4> HIDE DEF Group
      <4> QED
        BY <1>10, <2>1, <4>1
    <3> HIDE DEF before, Group
    <3>3. InLineOrder(before \o <<n + 1>>, Group(n, C + 1) \cup {n + 1})
      BY <1>1, <3>1, OrderExtends
    <3>4. InLineOrder(before \o <<at>>, Group(at, C + 1))
      BY <1>1, <3>2, <3>3
    <3>5. before \o <<at>> \in Seq(1 .. at)
      <4>1. before \in Seq(1 .. at) /\ <<at>> \in Seq(1 .. at)
        <5>1. ToSet(before) \subseteq 1 .. at
          <6>1. \A i \in DOMAIN before : before[i] \in 1 .. n
            BY <3>1, SequenceDomain
          <6> QED
            BY <1>9, <6>1 DEF ToSet
        <5> QED
          BY <1>1, <3>1, <5>1, SmallerElements
      <4> QED
        BY <4>1
    <3> QED
      BY <3>4, <3>5 DEF before
  <2> HIDE DEF list
  <2>3. InLineOrder(singles, Single(at))
    <3> HIDE DEF Single
    <3>1. C + 1 # C
      BY <1>4
    <3> QED
      BY <1>7, <1>10, <2>1, <3>1
  <2>4. \A g \in DOMAIN groups : g \in 1 .. C /\ InLineOrder(groups[g], Group(at, g))
    <3>1. \A g \in DOMAIN groups : g \in 1 .. C
      BY <1>7, <1>8
    <3> HIDE DEF Group
    <3>2. \A g \in 1 .. C : g # C + 1
      BY <1>4
    <3> QED
      BY <1>7, <1>10, <2>1, <3>1, <3>2
  <2>5. CASE ~token.closes
    <3>1. singles' = singles /\ groups' = groups /\ current' = list /\ inGroup' = TRUE
      BY <1>13, <2>5 DEF Parse, list
    <3>2. Closed(at) = C
      BY <1>4, <2>5
    <3>3. {p \in 1 .. at : inGroup' /\ InGroup(p, Closed(at) + 1)} = Group(at, C + 1)
      BY <3>1, <3>2
    <3>4. Opened(at) - Closed(at) \in {0, 1} /\ Opened(at) - C \in {0, 1}
      BY <1>4, <2>1, <3>2
    <3> HIDE DEF Group, Single
    <3> QED
      BY <1>4, <1>7, <2>1, <2>2, <2>3, <2>4, <3>1, <3>2, <3>3, <3>4
  <2>6. CASE token.closes
    <3>1. singles' = singles /\ groups' = Append(groups, list) /\ current' = <<>> /\ inGroup' = FALSE
      BY <1>13, <2>6 DEF Parse, list
    <3>2. Closed(at) = C + 1
      BY <1>4, <2>6
    <3>3. {p \in 1 .. at : inGroup' /\ InGroup(p, Closed(at) + 1)} = {}
      BY <3>1
    <3>4. Opened(at) - Closed(at) \in {0, 1} /\ Opened(at) - C \in {0, 1}
      BY <1>4, <2>1, <3>2
    <3> HIDE DEF Group, Single
    <3>5. /\ Len(groups') = C + 1 /\ DOMAIN groups' = 1 .. C + 1 /\ DOMAIN groups = 1 .. C
          /\ groups'[C + 1] = list /\ \A g \in 1 .. C : groups'[g] = groups[g]
      BY <1>7, <1>8, <3>1
    <3>6. \A g \in DOMAIN groups' : InLineOrder(groups'[g], Group(at, g))
      <4>1. \A g \in 1 .. C + 1 : g \in 1 .. C \/ g = C + 1
        BY <1>4
      <4> QED
        BY <2>2, <2>4, <3>5, <4>1
    <3>7. InLineOrder(current', {p \in 1 .. at : inGroup' /\ InGroup(p, Closed(at) + 1)})
      BY <3>1, <3>3, OrderOfNone
    <3> QED
      BY <1>4, <2>1, <2>3, <3>1, <3>2, <3>4, <3>5, <3>6, <3>7
  <2> QED
    BY <2>5, <2>6
<1> QED
  BY <1>12, <1>13

\* What comes before the activation, and what it does not touch.
LEMMA ParseHolds ==
  ASSUME Typed, ParsedSoFar,
         UNCHANGED <<line, singles, groups, current, inGroup>>,
         pc' = "parse" => pc = "parse" /\ at' = at,
         pc = "parse" /\ pc' # "parse" => at > Len(line) /\ ~inGroup
  PROVE  ParsedSoFar'
<1>1. Seen' = Seen
  <2>1. CASE pc' = "parse"
    BY <2>1 DEF Seen
  <2>2. CASE pc' # "parse" /\ pc = "parse"
    <3>1. at \in Nat /\ Len(line) \in Nat /\ at - 1 <= Len(line) /\ at > Len(line)
      BY <2>2, LineFacts DEF Typed, ParsedSoFar, BracesSoFar, Seen
    <3> QED
      BY <2>2, <3>1 DEF Seen
  <2>3. CASE pc # "parse"
    BY <2>3 DEF Seen
  <2> QED
    BY <2>1, <2>2, <2>3
<1>2. \A p : (Opened(p))' = Opened(p) /\ (Closed(p))' = Closed(p)
  BY DEF Opened, Closed
<1>3. \A p, g : InGroup(p, g)' = InGroup(p, g)
  BY <1>2 DEF InGroup
<1>4. pc' # "parse" => ~inGroup
  BY DEF ParsedSoFar, BracesSoFar
<1>5. BracesSoFar'
  BY <1>1, <1>2, <1>4 DEF ParsedSoFar, BracesSoFar
<1> QED
  BY <1>1, <1>2, <1>3, <1>5 DEF ParsedSoFar

LEMMA ParseStarts ==
  ASSUME Init
  PROVE  ParsedSoFar
<1>1. Seen = 0 /\ line \in CommandLines
  BY DEF Init, Seen
<1>2. Opened(0) = 0 /\ Closed(0) = 0 /\ Len(line) \in Nat
  BY <1>1, BraceFacts, LineFacts
<1> QED
  BY <1>1, <1>2, OrderOfNone DEF Init, ParsedSoFar, BracesSoFar

\* What the line says, from what was found.
LEMMA ParsedIsWritten ==
  ASSUME Typed, pc # "exited" => ParsedSoFar
  PROVE  ParsedAsWritten
<1>1. line \in CommandLines /\ Len(line) \in Nat /\ Positions = 1 .. Len(line)
  BY LineFacts DEF Typed
<1>2. ASSUME pc \notin {"parse", "exited"}
      PROVE  /\ Balanced
             /\ InLineOrder(singles, {p \in Positions : Opened(p) = Closed(p - 1)})
             /\ Len(groups) = Opened(Len(line))
             /\ \A g \in DOMAIN groups :
                  InLineOrder(groups[g], {p \in Positions : Opened(p) = g /\ Closed(p - 1) = g - 1})
  <2>1. ParsedSoFar /\ Seen = Len(line) /\ ~inGroup
    BY <1>2 DEF Seen, ParsedSoFar, BracesSoFar
  <2>2. Opened(Len(line)) = Closed(Len(line))
    <3>1. Closed(Len(line)) \in Nat
      BY <1>1, BraceFacts
    <3> QED
      BY <2>1, <3>1 DEF ParsedSoFar, BracesSoFar
  <2> QED
    BY <1>1, <2>1, <2>2 DEF ParsedSoFar, BracesSoFar, Balanced, InGroup
<1>3. ASSUME pc = "parse", Balanced, ParseError
      PROVE  FALSE
  <2> DEFINE n == at - 1
  <2>1. /\ ParsedSoFar /\ Seen = n /\ at \in Nat /\ n \in 0 .. Len(line)
        /\ inGroup \in BOOLEAN /\ Opened(n) = Closed(n) + (IF inGroup THEN 1 ELSE 0)
    BY <1>3 DEF Seen, ParsedSoFar, BracesSoFar, Typed
  <2>2. Opened(n) \in Nat /\ Closed(n) \in Nat
    BY <2>1, <1>1, BraceFacts
  <2>3. CASE at <= Len(line)
    <3>1. at \in 1 .. Len(line)
      BY <1>1, <2>1, <2>3
    <3>2. /\ Opened(at) = Opened(n) + (IF line[at].opens THEN 1 ELSE 0)
          /\ Closed(at) = Closed(n) + (IF line[at].closes THEN 1 ELSE 0)
      BY <1>1, <3>1, BraceFacts
    <3>3. Opened(at) - Closed(at) \in {0, 1} /\ Opened(at) - Closed(n) \in {0, 1}
      BY <1>1, <1>3, <3>1 DEF Balanced
    <3>4. Misplaced(line[at])
      BY <1>3, <2>3 DEF ParseError
    <3> QED
      BY <2>1, <2>2, <3>2, <3>3, <3>4 DEF Misplaced
  <2>4. CASE ~(at <= Len(line))
    <3>1. n = Len(line) /\ inGroup
      BY <1>1, <1>3, <2>1, <2>4 DEF ParseError
    <3>2. Opened(n) = Closed(n)
      BY <1>3, <3>1 DEF Balanced
    <3> QED
      BY <2>1, <2>2, <3>1, <3>2
  <2> QED
    BY <2>3, <2>4
<1> QED
  BY <1>2, <1>3 DEF ParsedAsWritten
-----------------------------------------------------------------------------
\* The pairs of a position in P and a place of its event.
Placed(P) == {d \in P \X STRING : d[2] \in Places(d[1])}

CountersOf(P) == UNION {{p} \X Places(p) \X (1 .. Width(line[p].name)) : p \in P}

LEMMA CounterFacts ==
  /\ Counters = CountersOf(Positions)
  /\ CountersOf({}) = {} /\ \A P, Q : CountersOf(P \cup Q) = CountersOf(P) \cup CountersOf(Q)
  /\ Placed({}) = {} /\ \A P, Q : Placed(P \cup Q) = Placed(P) \cup Placed(Q)
  /\ \A positions : OpenCounters(positions) => open' = open \cup CountersOf(positions)
<1>1. Counters = CountersOf(Positions)
  BY DEF Counters, CountersOf
<1>2. CountersOf({}) = {} /\ Placed({}) = {}
  BY DEF CountersOf, Placed
<1>3. \A P, Q : CountersOf(P \cup Q) = CountersOf(P) \cup CountersOf(Q)
  BY Zenon DEF CountersOf
<1>4. \A P, Q : Placed(P \cup Q) = Placed(P) \cup Placed(Q)
  BY DEF Placed
<1>5. \A positions : OpenCounters(positions) => open' = open \cup CountersOf(positions)
  BY DEF CountersOf, OpenCounters
<1> QED
  BY <1>1, <1>2, <1>3, <1>4, <1>5

LEMMA CounterOf ==
  ASSUME NEW P, NEW c \in CountersOf(P)
  PROVE  /\ c[1] \in P /\ c[2] \in Places(c[1]) /\ c[2] \in STRING /\ <<c[1], c[2]>> \in Placed(P)
         /\ c[3] \in 1 .. Width(line[c[1]].name) /\ c = <<c[1], c[2], c[3]>>
<1>1. PICK p \in P : c \in {p} \X Places(p) \X (1 .. Width(line[p].name))
  BY DEF CountersOf
<1>2. /\ c[1] \in P /\ c[2] \in Places(c[1]) /\ c[3] \in 1 .. Width(line[c[1]].name)
      /\ c = <<c[1], c[2], c[3]>>
  BY <1>1
<1>3. c[2] \in STRING
  BY <1>2, PlaceFacts
<1> QED
  BY <1>2, <1>3 DEF Placed

\* A value that is new.
LEMMA NewEntry ==
  ASSUME line \in CommandLines, NEW p \in Positions, NEW place \in Places(p)
  PROVE  /\ NewValue(p, place) \in Entry /\ EntryOf(line[p].name, NewValue(p, place))
         /\ NewValue(p, place).position = p /\ NewValue(p, place).place = place
<1> DEFINE e == NewValue(p, place)
           values == IF line[p].name \in CoreEvents THEN <<Zero>> ELSE <<>>
<1>1. e = [position |-> p, place |-> place, values |-> values]
  BY DEF NewValue
<1>2. Zero \in CounterValue
  BY DEF Zero, CounterValue
<1>3. values \in Seq(CounterValue) /\ Len(values) \in {0, Width(line[p].name)}
  BY <1>2 DEF Width
<1>4. place \in STRING
  BY PlaceFacts
<1> HIDE DEF values
<1>5. e \in Entry /\ e.position = p /\ e.place = place /\ e.values = values
  BY <1>1, <1>3, <1>4 DEF Entry
<1> HIDE DEF e
<1>6. EntryOf(line[p].name, e)
  BY <1>3, <1>5 DEF EntryOf
<1> QED
  BY <1>5, <1>6 DEF e

\* activateEvent: the event at p gets a value in each of its places.
LEMMA EventRegisters ==
  ASSUME line \in CommandLines, NEW map, MapOK(map), NEW P \in SUBSET Positions, Registered(map, Placed(P)),
         NEW p \in Positions \ P
  PROVE  /\ MapOK(Add(map, line[p].name, ActivateEvent(p)))
         /\ Registered(Add(map, line[p].name, ActivateEvent(p)), Placed(P \cup {p}))
         /\ DOMAIN Add(map, line[p].name, ActivateEvent(p)) = DOMAIN map \cup {line[p].name}
<1> DEFINE places == IF line[p].name \in CoreEvents THEN Cpus ELSE Sockets
           list == ActivateEvent(p)
           D == Placed(P)
           new == Add(map, line[p].name, list)
<1>1. list = [k \in DOMAIN places |-> NewValue(p, places[k])]
  BY DEF ActivateEvent
<1>2. /\ places \in Seq(STRING) /\ places # <<>> /\ Places(p) = {places[k] : k \in DOMAIN places}
      /\ \A i, j \in DOMAIN places : places[i] = places[j] => i = j
  BY PlaceFacts DEF Places, ToSet
<1>3. Len(places) \in Nat /\ DOMAIN places = 1 .. Len(places) /\ DOMAIN places # {}
  BY <1>2
<1> HIDE DEF places
<1>4. \A k \in DOMAIN places : /\ list[k] \in Entry /\ EntryOf(line[p].name, list[k])
                               /\ list[k].position = p /\ list[k].place = places[k]
  BY <1>1, <1>2, NewEntry
<1>5. list \in Seq(Entry) /\ DOMAIN list = DOMAIN places /\ list # <<>>
  BY <1>1, <1>3, <1>4
<1> HIDE DEF list, D
<1>6. Spots(list) = Placed({p})
  <2>1. Spots(list) = {<<p, places[k]>> : k \in DOMAIN places}
    BY <1>4, <1>5 DEF Spots
  <2>2. {<<p, places[k]>> : k \in DOMAIN places} = {<<p, c>> : c \in Places(p)}
    BY <1>2
  <2>3. {<<p, c>> : c \in Places(p)} = Placed({p})
    BY PlaceFacts DEF Placed
  <2> QED
    BY <2>1, <2>2, <2>3
<1>7. Spots(list) \cap D = {}
  BY <1>6 DEF D, Placed
<1>8. EntriesAt(p, list)
  BY <1>2, <1>4, <1>5 DEF EntriesAt
<1>9. Registered(map, D)
  BY DEF D
<1>10. /\ MapOK(new) /\ Registered(new, D \cup Spots(list))
       /\ DOMAIN new = DOMAIN map \cup {line[p].name}
  BY <1>7, <1>8, <1>9, AddRegisters
<1>11. D \cup Placed({p}) = Placed(P \cup {p})
  BY CounterFacts DEF D
<1> QED
  BY <1>6, <1>10, <1>11 DEF list

\* The new values of different events.
EntriesOf(values) ==
  /\ values \in Seq(Entry)
  /\ \A k \in DOMAIN values : EntryOf(line[values[k].position].name, values[k])
  /\ \A i, j \in DOMAIN values : values[i].position = values[j].position => i = j

NamesOf(values) == {line[values[k].position].name : k \in DOMAIN values}

\* One value more.
LEMMA OneRegisters ==
  ASSUME line \in CommandLines, NEW map, MapOK(map), NEW D, Registered(map, D),
         NEW e, e \in Entry, EntryOf(line[e.position].name, e), <<e.position, e.place>> \notin D
  PROVE  /\ MapOK(Add(map, line[e.position].name, <<e>>))
         /\ Registered(Add(map, line[e.position].name, <<e>>), D \cup {<<e.position, e.place>>})
         /\ DOMAIN Add(map, line[e.position].name, <<e>>) = DOMAIN map \cup {line[e.position].name}
<1> DEFINE p == e.position
           list == <<e>>
           new == Add(map, line[p].name, list)
<1>1. p \in Positions
  BY DEF Entry
<1>2. list \in Seq(Entry) \ {<<>>} /\ DOMAIN list = {1} /\ list[1] = e
  OBVIOUS
<1> HIDE DEF list
<1>3. EntriesAt(p, list)
  BY <1>2 DEF EntriesAt
<1>4. Spots(list) = {<<e.position, e.place>>}
  BY <1>2 DEF Spots
<1> HIDE DEF p
<1>5. Spots(list) \cap D = {}
  BY <1>4
<1>6. /\ MapOK(new) /\ Registered(new, D \cup Spots(list))
      /\ DOMAIN new = DOMAIN map \cup {line[p].name}
  BY <1>1, <1>3, <1>5, AddRegisters
<1> QED
  BY <1>4, <1>6 DEF p, list

LEMMA AddType ==
  ASSUME NEW map \in Maps, NEW name \in STRING, NEW list \in Seq(Entry)
  PROVE  Add(map, name, list) \in Maps
<1>1. PICK S \in SUBSET STRING : map \in [S -> Seq(Entry)]
  BY DEF Maps
<1>2. ASSUME NEW n \in S \cup {name}
      PROVE  (IF n \in DOMAIN map THEN map[n] ELSE <<>>) \o (IF n = name THEN list ELSE <<>>) \in Seq(Entry)
  <2> DEFINE a == IF n \in DOMAIN map THEN map[n] ELSE <<>>
             b == IF n = name THEN list ELSE <<>>
  <2>1. a \in Seq(Entry)
    <3>1. CASE n \in DOMAIN map
      BY <1>1, <3>1
    <3>2. CASE n \notin DOMAIN map
      BY <3>2, EmptySeq
    <3> QED
      BY <3>1, <3>2
  <2>0. b \in Seq(Entry)
    BY EmptySeq
  <2> HIDE DEF a, b
  <2>2. a \o b \in Seq(Entry)
    BY <2>0, <2>1
  <2> QED
    BY <2>2 DEF a, b
<1>3. DOMAIN map = S
  BY <1>1
<1>4. Add(map, name, list) \in [S \cup {name} -> Seq(Entry)]
  BY <1>2, <1>3 DEF Add
<1>5. S \cup {name} \in SUBSET STRING
  OBVIOUS
<1> QED
  BY <1>4, <1>5 DEF Maps

\* One value after the other.
LEMMA AddEachSteps ==
  ASSUME line \in CommandLines, NEW map \in Maps, NEW values, EntriesOf(values)
  PROVE  \E added : /\ AddEach(map, values) = added[Len(values)] /\ added[0] = map
                    /\ \A n \in 1 .. Len(values) :
                         added[n] = Add(added[n - 1], line[values[n].position].name, <<values[n]>>)
                    /\ AddEach(map, values) \in Maps
<1> DEFINE l == Len(values)
           name(n) == line[values[n].position].name
           one(n) == <<values[n]>>
           Added(f) == f = [n \in 0 .. l |-> IF n = 0 THEN map ELSE Add(f[n - 1], name(n), one(n))]
           step == [x \in Nat \X Maps |-> IF x[1] \in 1 .. l THEN Add(x[2], name(x[1]), one(x[1])) ELSE x[2]]
<1>1. l \in Nat /\ \A n \in 1 .. l : name(n) \in STRING /\ one(n) \in Seq(Entry)
  <2>1. l \in Nat /\ DOMAIN values = 1 .. l /\ \A n \in 1 .. l : values[n] \in Entry
    BY DEF EntriesOf
  <2>2. \A n \in 1 .. l : line[values[n].position] \in Token
    BY <2>1, LineFacts DEF Entry
  <2> QED
    BY <2>1, <2>2 DEF Token
<1> HIDE DEF l, name, one
<1>2. step \in [Nat \X Maps -> Maps] /\ \A n \in 1 .. l, m \in Maps : step[<<n, m>>] = Add(m, name(n), one(n))
  <2>1. \A n \in 1 .. l, m \in Maps : Add(m, name(n), one(n)) \in Maps
    BY <1>1, AddType, Zenon
  <2>2. \A x \in Nat \X Maps : x[1] \in Nat /\ x[2] \in Maps
    OBVIOUS
  <2>3. \A n \in 1 .. l, m \in Maps : step[<<n, m>>] = Add(m, name(n), one(n))
    <3>1. \A n \in 1 .. l : n \in Nat
      BY <1>1
    <3> QED
      BY <3>1
  <2> QED
    BY <2>1, <2>2, <2>3
<1> HIDE DEF step
<1>3. PICK f : RecursiveUpTo(f, l, Maps, map, step)
  BY <1>1, <1>2, BoundedRecursion
<1>4. f \in [0 .. l -> Maps] /\ f = [n \in 0 .. l |-> IF n = 0 THEN map ELSE step[<<n, f[n - 1]>>]]
  BY <1>3 DEF RecursiveUpTo
<1>5. ASSUME NEW n \in 0 .. l, n # 0
      PROVE  step[<<n, f[n - 1]>>] = Add(f[n - 1], name(n), one(n))
  <2>1. n \in 1 .. l /\ n - 1 \in 0 .. l
    BY <1>1, <1>5
  <2> QED
    BY <1>2, <1>4, <2>1
<1>6. Added(f)
  BY <1>4, <1>5
<1> DEFINE added == CHOOSE g : Added(g)
<1>7. Added(added)
  <2> HIDE DEF Added
  <2> QED
    BY <1>6
<1>8. AddEach(map, values) = added[l]
  BY DEF AddEach, l, name, one
<1> HIDE DEF added
<1>9. added[0] = map /\ \A n \in 1 .. l : added[n] = Add(added[n - 1], name(n), one(n))
  <2>1. 0 \in 0 .. l /\ \A n \in 1 .. l : n \in 0 .. l /\ n # 0
    BY <1>1
  <2> QED
    BY <1>7, <2>1
<1>10. added[l] \in Maps
  <2> DEFINE N == {n \in Nat : n <= l => added[n] \in Maps}
  <2>1. 0 \in N
    BY <1>9
  <2>2. ASSUME NEW n \in Nat, n \in N
        PROVE  n + 1 \in N
    <3> SUFFICES ASSUME n + 1 <= l PROVE added[n + 1] \in Maps
      OBVIOUS
    <3>1. n + 1 \in 1 .. l /\ (n + 1) - 1 = n /\ added[n] \in Maps
      BY <1>1, <2>2
    <3>2. added[n + 1] = Add(added[n], name(n + 1), one(n + 1))
      BY <1>9, <3>1
    <3> QED
      BY <1>1, <3>1, <3>2, AddType
  <2> HIDE DEF N
  <2>3. l \in N
    BY <1>1, <2>1, <2>2, Induct
  <2> QED
    BY <1>1, <2>3 DEF N
<1> QED
  BY <1>8, <1>9, <1>10 DEF l, name, one

LEMMA EachRegisters ==
  ASSUME line \in CommandLines, NEW map, MapOK(map), NEW D, Registered(map, D),
         NEW values, EntriesOf(values), Spots(values) \cap D = {}
  PROVE  /\ MapOK(AddEach(map, values))
         /\ Registered(AddEach(map, values), D \cup Spots(values))
         /\ DOMAIN AddEach(map, values) = DOMAIN map \cup NamesOf(values)
<1> DEFINE l == Len(values)
           SpotsOf(n) == {<<values[k].position, values[k].place>> : k \in 1 .. n}
           Named(n) == {line[values[k].position].name : k \in 1 .. n}
<1>1. PICK added : /\ AddEach(map, values) = added[l] /\ added[0] = map
                   /\ \A n \in 1 .. l : added[n] = Add(added[n - 1], line[values[n].position].name, <<values[n]>>)
  BY AddEachSteps DEF MapOK
<1>2. /\ l \in Nat /\ DOMAIN values = 1 .. l
      /\ \A k \in 1 .. l : values[k] \in Entry /\ EntryOf(line[values[k].position].name, values[k])
      /\ \A i, j \in 1 .. l : values[i].position = values[j].position => i = j
  BY DEF EntriesOf
<1> DEFINE N == {n \in Nat : n <= l => /\ MapOK(added[n]) /\ Registered(added[n], D \cup SpotsOf(n))
                                       /\ DOMAIN added[n] = DOMAIN map \cup Named(n)}
<1>3. 0 \in N
  <2>1. SpotsOf(0) = {} /\ Named(0) = {}
    OBVIOUS
  <2>2. D \cup {} = D /\ DOMAIN map \cup {} = DOMAIN map
    OBVIOUS
  <2> HIDE DEF SpotsOf, Named
  <2> QED
    BY <1>1, <2>1, <2>2
<1>4. ASSUME NEW n \in Nat, n \in N
      PROVE  n + 1 \in N
  <2> SUFFICES ASSUME n + 1 <= l
               PROVE  /\ MapOK(added[n + 1]) /\ Registered(added[n + 1], D \cup SpotsOf(n + 1))
                      /\ DOMAIN added[n + 1] = DOMAIN map \cup Named(n + 1)
    OBVIOUS
  <2> DEFINE e == values[n + 1]
             before == added[n]
             E == D \cup SpotsOf(n)
  <2>1. n + 1 \in 1 .. l /\ (n + 1) - 1 = n /\ n <= l /\ 1 .. n + 1 = (1 .. n) \cup {n + 1}
        /\ \A k \in 1 .. n : k \in 1 .. l /\ k # n + 1
    BY <1>2
  <2>2. e \in Entry /\ EntryOf(line[e.position].name, e)
    BY <1>2, <2>1
  <2>3. /\ SpotsOf(n + 1) = SpotsOf(n) \cup {<<e.position, e.place>>}
        /\ Named(n + 1) = Named(n) \cup {line[e.position].name}
    BY <2>1
  <2>4. <<e.position, e.place>> \notin E
    <3>1. <<e.position, e.place>> \in Spots(values)
      BY <1>2, <2>1 DEF Spots
    <3>2. <<e.position, e.place>> \notin SpotsOf(n)
      BY <1>2, <2>1
    <3> QED
      BY <3>1, <3>2
  <2>5. MapOK(before) /\ Registered(before, E) /\ DOMAIN before = DOMAIN map \cup Named(n)
    BY <1>4, <2>1
  <2>6. added[n + 1] = Add(before, line[e.position].name, <<e>>)
    BY <1>1, <2>1
  <2> HIDE DEF e, before, E, SpotsOf, Named
  <2>7. /\ MapOK(Add(before, line[e.position].name, <<e>>))
        /\ Registered(Add(before, line[e.position].name, <<e>>), E \cup {<<e.position, e.place>>})
        /\ DOMAIN Add(before, line[e.position].name, <<e>>) = DOMAIN before \cup {line[e.position].name}
    BY <2>2, <2>4, <2>5, OneRegisters
  <2>8. E \cup {<<e.position, e.place>>} = D \cup SpotsOf(n + 1)
    BY <2>3 DEF E
  <2>9. DOMAIN before \cup {line[e.position].name} = DOMAIN map \cup Named(n + 1)
    BY <2>3, <2>5
  <2> QED
    BY <2>6, <2>7, <2>8, <2>9
<1>5. l \in N
  <2> HIDE DEF N
  <2> QED
    BY <1>2, <1>3, <1>4, Induct
<1>6. SpotsOf(l) = Spots(values) /\ Named(l) = NamesOf(values)
  BY <1>2 DEF Spots, NamesOf
<1> HIDE DEF SpotsOf, Named
<1> QED
  BY <1>1, <1>2, <1>5, <1>6

\* The values that activateGroup makes on the n-th cpu.
OnCpu(group, n) == [k \in DOMAIN group |-> NewValue(group[k], Cpus[n])]

\* A group of core events that are not active.
CoreGroup(group) ==
  /\ group \in Seq(Positions)
  /\ \A i, j \in DOMAIN group : group[i] = group[j] => i = j
  /\ \A k \in DOMAIN group : line[group[k]].name \in CoreEvents

LEMMA OnCpuFacts ==
  ASSUME line \in CommandLines, NEW group, CoreGroup(group), NEW n \in DOMAIN Cpus
  PROVE  /\ EntriesOf(OnCpu(group, n))
         /\ Spots(OnCpu(group, n)) = ToSet(group) \X {Cpus[n]}
         /\ NamesOf(OnCpu(group, n)) = {line[p].name : p \in ToSet(group)}
<1> DEFINE values == OnCpu(group, n)
           l == Len(group)
<1>1. /\ l \in Nat /\ DOMAIN group = 1 .. l /\ \A k \in 1 .. l : group[k] \in Positions
      /\ \A i, j \in 1 .. l : group[i] = group[j] => i = j
  BY DEF CoreGroup
<1>2. DOMAIN values = 1 .. l /\ \A k \in 1 .. l : values[k] = NewValue(group[k], Cpus[n])
  BY <1>1 DEF OnCpu
<1>3. \A k \in 1 .. l : Cpus[n] \in Places(group[k])
  BY <1>1 DEF CoreGroup, Places, ToSet
<1>4. \A k \in 1 .. l : /\ values[k] \in Entry /\ EntryOf(line[group[k]].name, values[k])
                        /\ values[k].position = group[k] /\ values[k].place = Cpus[n]
  BY <1>1, <1>2, <1>3, NewEntry
<1>5. values \in Seq(Entry)
  <2>1. values = [k \in 1 .. l |-> values[k]]
    BY <1>1 DEF OnCpu
  <2> HIDE DEF values
  <2>2. values \in [1 .. l -> Entry]
    BY <1>4, <2>1
  <2> QED
    BY <1>1, <2>2
<1> HIDE DEF values, l
<1>6. EntriesOf(values)
  BY <1>1, <1>2, <1>4, <1>5 DEF EntriesOf
<1>7. Spots(values) = ToSet(group) \X {Cpus[n]}
  BY <1>1, <1>2, <1>4 DEF Spots, ToSet
<1>8. NamesOf(values) = {line[p].name : p \in ToSet(group)}
  BY <1>1, <1>2, <1>4 DEF NamesOf, ToSet
<1> QED
  BY <1>6, <1>7, <1>8 DEF values

LEMMA AddGroupSteps ==
  ASSUME line \in CommandLines, NEW map \in Maps, NEW group, CoreGroup(group)
  PROVE  \E added : /\ AddGroup(map, group) = added[Len(Cpus)] /\ added[0] = map
                    /\ \A n \in 1 .. Len(Cpus) : added[n] = AddEach(added[n - 1], OnCpu(group, n))
<1> DEFINE l == Len(Cpus)
           Added(f) == f = [n \in 0 .. l |-> IF n = 0 THEN map ELSE AddEach(f[n - 1], OnCpu(group, n))]
           step == [x \in Nat \X Maps |-> IF x[1] \in 1 .. l THEN AddEach(x[2], OnCpu(group, x[1])) ELSE x[2]]
<1>1. l \in Nat /\ DOMAIN Cpus = 1 .. l
  BY PlaceFacts
<1> HIDE DEF l
<1>2. step \in [Nat \X Maps -> Maps]
      /\ \A n \in 1 .. l, m \in Maps : step[<<n, m>>] = AddEach(m, OnCpu(group, n))
  <2>1. ASSUME NEW n \in 1 .. l, NEW m \in Maps
        PROVE  AddEach(m, OnCpu(group, n)) \in Maps
    <3>1. EntriesOf(OnCpu(group, n))
      BY <1>1, OnCpuFacts
    <3> QED
      BY <3>1, AddEachSteps
  <2>2. \A x \in Nat \X Maps : x[1] \in Nat /\ x[2] \in Maps
    OBVIOUS
  <2>3. \A n \in 1 .. l, m \in Maps : step[<<n, m>>] = AddEach(m, OnCpu(group, n))
    <3>1. \A n \in 1 .. l : n \in Nat
      BY <1>1
    <3> QED
      BY <3>1
  <2> QED
    BY <2>1, <2>2, <2>3
<1> HIDE DEF step
<1>3. PICK f : RecursiveUpTo(f, l, Maps, map, step)
  BY <1>1, <1>2, BoundedRecursion
<1>4. f \in [0 .. l -> Maps] /\ f = [n \in 0 .. l |-> IF n = 0 THEN map ELSE step[<<n, f[n - 1]>>]]
  BY <1>3 DEF RecursiveUpTo
<1>5. ASSUME NEW n \in 0 .. l, n # 0
      PROVE  step[<<n, f[n - 1]>>] = AddEach(f[n - 1], OnCpu(group, n))
  <2>1. n \in 1 .. l /\ n - 1 \in 0 .. l
    BY <1>1, <1>5
  <2> QED
    BY <1>2, <1>4, <2>1
<1>6. Added(f)
  BY <1>4, <1>5
<1> DEFINE added == CHOOSE g : Added(g)
<1>7. Added(added)
  <2> HIDE DEF Added
  <2> QED
    BY <1>6
<1>8. AddGroup(map, group) = added[l]
  BY DEF AddGroup, OnCpu, l
<1> HIDE DEF added
<1>9. added[0] = map /\ \A n \in 1 .. l : added[n] = AddEach(added[n - 1], OnCpu(group, n))
  <2>1. 0 \in 0 .. l /\ \A n \in 1 .. l : n \in 0 .. l /\ n # 0
    BY <1>1
  <2> QED
    BY <1>7, <2>1
<1> QED
  BY <1>8, <1>9 DEF l

\* activateGroup: each event of a group gets a value on each cpu.
LEMMA GroupRegisters ==
  ASSUME line \in CommandLines, NEW map, MapOK(map), NEW P \in SUBSET Positions, Registered(map, Placed(P)),
         NEW group, CoreGroup(group), ToSet(group) \cap P = {}
  PROVE  /\ MapOK(AddGroup(map, group))
         /\ Registered(AddGroup(map, group), Placed(P \cup ToSet(group)))
         /\ DOMAIN AddGroup(map, group) = DOMAIN map \cup {line[p].name : p \in ToSet(group)}
<1> DEFINE l == Len(Cpus)
           G == ToSet(group)
           SpotsOf(n) == G \X {Cpus[k] : k \in 1 .. n}
           Named == {line[p].name : p \in G}
<1>1. PICK added : /\ AddGroup(map, group) = added[l] /\ added[0] = map
                   /\ \A n \in 1 .. l : added[n] = AddEach(added[n - 1], OnCpu(group, n))
  BY AddGroupSteps DEF MapOK
<1>2. l \in Nat /\ l >= 1 /\ DOMAIN Cpus = 1 .. l /\ \A i, j \in 1 .. l : Cpus[i] = Cpus[j] => i = j
  BY PlaceFacts
<1> HIDE DEF l, G
<1> DEFINE N == {n \in Nat : n <= l => /\ MapOK(added[n]) /\ Registered(added[n], Placed(P) \cup SpotsOf(n))
                                       /\ DOMAIN added[n] = DOMAIN map \cup (IF n = 0 THEN {} ELSE Named)}
<1>3. 0 \in N
  <2>1. SpotsOf(0) = {} /\ Placed(P) \cup {} = Placed(P) /\ DOMAIN map \cup {} = DOMAIN map
    OBVIOUS
  <2> HIDE DEF SpotsOf, Named
  <2> QED
    BY <1>1, <2>1
<1>4. ASSUME NEW n \in Nat, n \in N
      PROVE  n + 1 \in N
  <2> SUFFICES ASSUME n + 1 <= l
               PROVE  /\ MapOK(added[n + 1]) /\ Registered(added[n + 1], Placed(P) \cup SpotsOf(n + 1))
                      /\ DOMAIN added[n + 1] = DOMAIN map \cup Named
    BY <1>2
  <2> DEFINE values == OnCpu(group, n + 1)
             before == added[n]
             E == Placed(P) \cup SpotsOf(n)
  <2>1. n + 1 \in 1 .. l /\ (n + 1) - 1 = n /\ n <= l /\ 1 .. n + 1 = (1 .. n) \cup {n + 1}
        /\ \A k \in 1 .. n : k \in 1 .. l /\ k # n + 1
    BY <1>2
  <2>2. EntriesOf(values) /\ Spots(values) = G \X {Cpus[n + 1]} /\ NamesOf(values) = Named
    BY <1>2, <2>1, OnCpuFacts DEF G
  <2>3. SpotsOf(n + 1) = SpotsOf(n) \cup (G \X {Cpus[n + 1]})
    BY <2>1
  <2>4. Spots(values) \cap E = {}
    <3>1. Cpus[n + 1] \notin {Cpus[k] : k \in 1 .. n}
      BY <1>2, <2>1
    <3>2. Placed(P) \cap (G \X {Cpus[n + 1]}) = {}
      BY DEF Placed, G
    <3> QED
      BY <2>2, <3>1, <3>2
  <2>5. /\ MapOK(before) /\ Registered(before, E)
        /\ DOMAIN before = DOMAIN map \cup (IF n = 0 THEN {} ELSE Named)
    BY <1>4, <2>1
  <2>6. added[n + 1] = AddEach(before, values)
    BY <1>1, <2>1
  <2> HIDE DEF values, before, E, SpotsOf, Named
  <2>7. /\ MapOK(AddEach(before, values))
        /\ Registered(AddEach(before, values), E \cup Spots(values))
        /\ DOMAIN AddEach(before, values) = DOMAIN before \cup NamesOf(values)
    BY <2>2, <2>4, <2>5, EachRegisters
  <2>8. E \cup Spots(values) = Placed(P) \cup SpotsOf(n + 1)
    BY <2>2, <2>3 DEF E
  <2>9. DOMAIN before \cup NamesOf(values) = DOMAIN map \cup Named
    BY <2>2, <2>5
  <2> QED
    BY <2>6, <2>7, <2>8, <2>9
<1>5. l \in N
  <2> HIDE DEF N
  <2> QED
    BY <1>2, <1>3, <1>4, Induct
<1>6. Placed(P) \cup SpotsOf(l) = Placed(P \cup G)
  <2>1. \A p \in G : Places(p) = {Cpus[k] : k \in 1 .. l}
    BY <1>2 DEF CoreGroup, Places, ToSet, G
  <2>2. {Cpus[k] : k \in 1 .. l} \subseteq STRING
    BY <1>2, PlaceFacts
  <2>3. SpotsOf(l) = Placed(G)
    BY <2>1, <2>2 DEF Placed
  <2> QED
    BY <2>3, CounterFacts
<1>7. l # 0
  BY <1>2
<1> HIDE DEF SpotsOf, Named
<1>8. MapOK(added[l]) /\ Registered(added[l], Placed(P) \cup SpotsOf(l)) /\ DOMAIN added[l] = DOMAIN map \cup Named
  BY <1>2, <1>5, <1>7
<1> QED
  BY <1>1, <1>6, <1>8 DEF G, Named
-----------------------------------------------------------------------------
LEMMA LineStays ==
  ASSUME line' = line
  PROVE  /\ Positions' = Positions /\ Counters' = Counters /\ Known' = Known
         /\ \A P : (Placed(P))' = Placed(P) /\ (CountersOf(P))' = CountersOf(P)
         /\ MapOK(active') => MapOK(active)'
         /\ \A D : Registered(active', D) => Registered(active, D)'
<1>1. Positions' = Positions /\ Entry' = Entry
  BY DEF Positions, Entry
<1>2. Maps' = Maps
  BY <1>1 DEF Maps
<1>3. \A p : (Places(p))' = Places(p)
  BY DEF Places
<1>4. Counters' = Counters
  BY <1>1, <1>3 DEF Counters, Width
<1>5. Known' = Known
  BY <1>1 DEF Known
<1>6. \A P : (Placed(P))' = Placed(P)
  BY <1>3 DEF Placed
<1>7. \A P : (CountersOf(P))' = CountersOf(P)
  BY <1>3 DEF CountersOf, Width
<1>8. \A name, e : EntryOf(name, e)' <=> EntryOf(name, e)
  BY <1>1, <1>3 DEF EntryOf, Width
<1>9. MapOK(active') => MapOK(active)'
  BY <1>1, <1>2, <1>8 DEF MapOK
<1>10. ASSUME NEW D, Registered(active', D)
       PROVE  Registered(active, D)'
  <2>1. \A p \in Positions', c \in STRING :
          IF <<p, c>> \in D
          THEN /\ line'[p].name \in DOMAIN active'
               /\ \E k \in DOMAIN active'[line'[p].name] :
                    \A j \in DOMAIN active'[line'[p].name] : At(active'[line'[p].name][j], p, c) <=> j = k
          ELSE \A name \in DOMAIN active' : \A k \in DOMAIN active'[name] : ~At(active'[name][k], p, c)
    <3>1. \A p \in Positions, c \in STRING :
            IF <<p, c>> \in D
            THEN /\ line[p].name \in DOMAIN active'
                 /\ \E k \in DOMAIN active'[line[p].name] :
                      \A j \in DOMAIN active'[line[p].name] : At(active'[line[p].name][j], p, c) <=> j = k
            ELSE \A name \in DOMAIN active' : \A k \in DOMAIN active'[name] : ~At(active'[name][k], p, c)
      BY <1>10 DEF Registered
    <3> TAKE p \in Positions', c \in STRING
    <3>2. p \in Positions /\ line'[p].name = line[p].name
      BY <1>1
    <3> DEFINE name == line[p].name
    <3>3. IF <<p, c>> \in D
          THEN /\ name \in DOMAIN active'
               /\ \E k \in DOMAIN active'[name] :
                    \A j \in DOMAIN active'[name] : At(active'[name][j], p, c) <=> j = k
          ELSE \A n \in DOMAIN active' : \A k \in DOMAIN active'[n] : ~At(active'[n][k], p, c)
      BY <3>1, <3>2
    <3> HIDE DEF name
    <3>4. line'[p].name = name
      BY <3>2 DEF name
    <3> QED
      BY <3>3, <3>4
  <2> QED
    BY <2>1 DEF Registered
<1> QED
  BY <1>1, <1>4, <1>5, <1>6, <1>7, <1>9, <1>10

\* Each position is in one place of what was parsed.
LEMMA PositionsOnce ==
  ASSUME Typed, ParsedSoFar, pc # "parse"
  PROVE  /\ \A i, j \in DOMAIN singles : singles[i] = singles[j] => i = j
         /\ ToSet(singles) \subseteq Positions
         /\ \A g \in DOMAIN groups :
              /\ groups[g] \in Seq(Positions)
              /\ \A i, j \in DOMAIN groups[g] : groups[g][i] = groups[g][j] => i = j
              /\ ToSet(groups[g]) \cap ToSet(singles) = {}
              /\ \A h \in DOMAIN groups : h # g => ToSet(groups[g]) \cap ToSet(groups[h]) = {}
         /\ Positions = ToSet(singles) \cup UNION {ToSet(groups[g]) : g \in 1 .. Len(groups)}
<1> DEFINE L == Len(line)
           Single == {p \in 1 .. L : Opened(p) = Closed(p - 1)}
           Group(g) == {p \in 1 .. L : InGroup(p, g)}
<1>1. L \in Nat /\ Positions = 1 .. L /\ Seen = L /\ line \in CommandLines
  BY LineFacts DEF Typed, Seen
<1>2. InLineOrder(singles, Single) /\ \A g \in DOMAIN groups : InLineOrder(groups[g], Group(g))
  BY <1>1 DEF ParsedSoFar
<1>3. /\ Opened(L) = Closed(L) /\ Len(groups) = Closed(L)
      /\ \A p \in 1 .. L : Opened(p) - Closed(p - 1) \in {0, 1}
  <2>1. Closed(L) \in Nat
    BY <1>1, BraceFacts
  <2> QED
    BY <1>1, <2>1 DEF ParsedSoFar, BracesSoFar
<1>4. /\ groups \in Seq(Seq(Positions)) /\ DOMAIN groups = 1 .. Len(groups)
      /\ \A g \in DOMAIN groups : groups[g] \in Seq(Positions)
  BY DEF Typed
<1>5. singles \in Seq(Positions)
  BY DEF Typed
<1>6. \A p \in 1 .. L : Opened(p) \in Nat /\ Closed(p - 1) \in Nat /\ Opened(p) <= Opened(L)
  <2> TAKE p \in 1 .. L
  <2>1. p \in 0 .. L /\ p - 1 \in 0 .. L /\ L \in 0 .. L
    BY <1>1
  <2> QED
    BY <1>1, <2>1, BraceFacts
<1> HIDE DEF L
<1>7. ASSUME NEW list \in Seq(Positions), NEW S, InLineOrder(list, S)
      PROVE  \A i, j \in DOMAIN list : list[i] = list[j] => i = j
  <2>1. \A i \in DOMAIN list : i \in Nat /\ list[i] \in Nat
    BY <1>1
  <2>2. \A i, j \in DOMAIN list : i < j => list[i] < list[j]
    BY <1>7 DEF InLineOrder
  <2> QED
    BY <2>1, <2>2
<1>8. ToSet(singles) = Single /\ \A g \in DOMAIN groups : ToSet(groups[g]) = Group(g)
  BY <1>2 DEF InLineOrder
<1>9. \A g \in DOMAIN groups : /\ Group(g) \cap Single = {}
                               /\ \A h \in DOMAIN groups : h # g => Group(g) \cap Group(h) = {}
  BY <1>4, <1>6 DEF InGroup
<1>10. \A p \in 1 .. L : p \in Single \/ \E g \in DOMAIN groups : p \in Group(g)
  <2> TAKE p \in 1 .. L
  <2>1. CASE Opened(p) = Closed(p - 1)
    BY <2>1
  <2>2. CASE Opened(p) # Closed(p - 1)
    <3>1. Opened(p) = Closed(p - 1) + 1 /\ Opened(p) \in 1 .. Len(groups)
      BY <1>3, <1>6, <2>2
    <3>2. Closed(p - 1) = Opened(p) - 1
      BY <1>6, <3>1
    <3> QED
      BY <1>4, <3>1, <3>2 DEF InGroup
  <2> QED
    BY <2>1, <2>2
<1> HIDE DEF Single, Group
<1>11. Positions = ToSet(singles) \cup UNION {ToSet(groups[g]) : g \in 1 .. Len(groups)}
  <2>1. Single \subseteq 1 .. L /\ \A g : Group(g) \subseteq 1 .. L
    BY DEF Single, Group
  <2> QED
    BY <1>1, <1>4, <1>8, <1>10, <2>1
<1>12. \A g \in DOMAIN groups : \A i, j \in DOMAIN groups[g] : groups[g][i] = groups[g][j] => i = j
  BY <1>2, <1>4, <1>7
<1>13. \A i, j \in DOMAIN singles : singles[i] = singles[j] => i = j
  BY <1>2, <1>5, <1>7
<1> QED
  BY <1>4, <1>8, <1>9, <1>11, <1>12, <1>13

LEMMA ReadTypes ==
  ASSUME Typed, NEW name, NEW e, EntryOf(name, e)
  PROVE  /\ EntryOf(name, Refreshed(e)) /\ EntryOf(name, Failed(e))
         /\ Refreshed(e).position = e.position /\ Refreshed(e).place = e.place
         /\ Failed(e).position = e.position /\ Failed(e).place = e.place
         /\ Refreshed(e).values = [i \in 1 .. Width(name) |-> ReadActiveEventValues(e)]
         /\ ReadActiveEventValues(e) \in CounterValue
<1>1. /\ e \in Entry /\ e.position \in Positions /\ line[e.position].name = name
      /\ e.place \in Places(e.position) /\ Width(name) \in Nat
  BY PlaceFacts DEF EntryOf, Entry
<1>2. round \in Nat /\ line \in CommandLines
  BY DEF Typed
<1>3. Sharing[e.place] \in {"alone", "shared", "starved"}
  <2>1. e.place \in ToSet(Cpus) \cup ToSet(Sockets)
    BY <1>1 DEF Places
  <2> QED
    BY <2>1, IastatAssumption
<1>4. ReadActiveEventValues(e) \in CounterValue
  <2>1. Zero \in CounterValue
    BY DEF Zero, CounterValue
  <2>2. Shows(e.place, round) \in CounterValue
    <3>1. 3 * round \in Nat /\ 2 * round \in Nat /\ 0 \in Nat
      BY <1>2
    <3> QED
      BY <1>2, <1>3, <3>1 DEF Shows, CounterValue
  <2> QED
    BY <2>1, <2>2 DEF ReadActiveEventValues
<1> DEFINE read == [i \in 1 .. Width(name) |-> ReadActiveEventValues(e)]
           none == NewValue(e.position, e.place).values
<1>5. read \in Seq(CounterValue) /\ Len(read) = Width(name)
  BY <1>1, <1>4
<1>6. none \in Seq(CounterValue) /\ Len(none) \in {0, Width(name)}
  BY <1>1, <1>2, NewEntry DEF EntryOf, Entry
<1>7. Refreshed(e) = [e EXCEPT !.values = read] /\ Failed(e) = [e EXCEPT !.values = none]
  BY <1>1 DEF Refreshed, Failed
<1> HIDE DEF read, none
<1>8. /\ Refreshed(e) \in Entry /\ Refreshed(e).position = e.position /\ Refreshed(e).place = e.place
      /\ Refreshed(e).values = read
      /\ Failed(e) \in Entry /\ Failed(e).position = e.position /\ Failed(e).place = e.place
      /\ Failed(e).values = none
  BY <1>1, <1>5, <1>6, <1>7 DEF Entry
<1>9. EntryOf(name, Refreshed(e)) /\ EntryOf(name, Failed(e))
  BY <1>1, <1>5, <1>6, <1>8 DEF EntryOf
<1> QED
  BY <1>4, <1>8, <1>9 DEF read

\* Reading changes only the values.
LEMMA ReadKeeps ==
  ASSUME Typed, NEW name \in DOMAIN active, NEW n,
         active' = [active EXCEPT ![name] = ReadN(active[name], n)],
         NEW D, Registered(active, D)
  PROVE  MapOK(active') /\ Registered(active', D) /\ DOMAIN active' = DOMAIN active
         /\ active'[name] = ReadN(active[name], n)
         /\ \A m \in DOMAIN active : m # name => active'[m] = active[m]
<1> DEFINE old == active[name]
           new == ReadN(old, n)
<1>1. /\ active \in Maps /\ old \in Seq(Entry) \ {<<>>} /\ \A k \in DOMAIN old : EntryOf(name, old[k])
  BY DEF Typed, MapOK
<1>2. PICK S \in SUBSET STRING : active \in [S -> Seq(Entry)]
  BY <1>1 DEF Maps
<1>3. /\ DOMAIN active' = DOMAIN active /\ active'[name] = new
      /\ \A m \in DOMAIN active : m # name => active'[m] = active[m]
  BY <1>2
<1>4. DOMAIN new = DOMAIN old
  BY DEF ReadN
<1>5. \A k \in DOMAIN old : EntryOf(name, new[k]) /\ new[k].position = old[k].position /\ new[k].place = old[k].place
  <2> TAKE k \in DOMAIN old
  <2>1. new[k] \in {Refreshed(old[k]), Failed(old[k]), old[k]}
    BY DEF ReadN
  <2>2. EntryOf(name, old[k])
    BY <1>1
  <2> HIDE DEF old, new
  <2>3. /\ EntryOf(name, Refreshed(old[k])) /\ EntryOf(name, Failed(old[k]))
        /\ Refreshed(old[k]).position = old[k].position /\ Refreshed(old[k]).place = old[k].place
        /\ Failed(old[k]).position = old[k].position /\ Failed(old[k]).place = old[k].place
    BY <2>2, ReadTypes
  <2> QED
    BY <2>1, <2>2, <2>3
<1>6. new \in Seq(Entry) \ {<<>>}
  <2>1. Len(old) \in Nat /\ DOMAIN old = 1 .. Len(old) /\ Len(old) # 0
    BY <1>1
  <2>2. new = [k \in DOMAIN old |-> new[k]]
    BY DEF ReadN
  <2> HIDE DEF new, old
  <2>3. new \in [1 .. Len(old) -> Entry]
    BY <1>5, <2>1, <2>2 DEF EntryOf
  <2> QED
    BY <2>1, <2>3
<1> HIDE DEF new
<1>7. MapOK(active')
  <2>1. active' \in [S -> Seq(Entry)]
    BY <1>2, <1>3, <1>6
  <2> QED
    BY <1>3, <1>4, <1>5, <1>6, <2>1 DEF MapOK, Maps, Typed
<1>8. Registered(active', D)
  <2>1. \A m \in DOMAIN active : /\ DOMAIN active'[m] = DOMAIN active[m]
                                 /\ \A k \in DOMAIN active[m] : \A p, c :
                                      At(active'[m][k], p, c) <=> At(active[m][k], p, c)
    BY <1>3, <1>4, <1>5 DEF At
  <2> SUFFICES ASSUME NEW p \in Positions, NEW c \in STRING
               PROVE  IF <<p, c>> \in D
                      THEN /\ line[p].name \in DOMAIN active'
                           /\ \E k \in DOMAIN active'[line[p].name] :
                                \A j \in DOMAIN active'[line[p].name] : At(active'[line[p].name][j], p, c) <=> j = k
                      ELSE \A m \in DOMAIN active' : \A k \in DOMAIN active'[m] : ~At(active'[m][k], p, c)
    BY DEF Registered
  <2>2. CASE <<p, c>> \in D
    <3>1. /\ line[p].name \in DOMAIN active
          /\ \E k \in DOMAIN active[line[p].name] :
               \A j \in DOMAIN active[line[p].name] : At(active[line[p].name][j], p, c) <=> j = k
      BY <2>2 DEF Registered
    <3> QED
      BY <1>3, <2>1, <2>2, <3>1
  <2>3. CASE <<p, c>> \notin D
    <3>1. \A m \in DOMAIN active : \A k \in DOMAIN active[m] : ~At(active[m][k], p, c)
      BY <2>3 DEF Registered
    <3> QED
      BY <1>3, <2>1, <2>3, <3>1
  <2> QED
    BY <2>2, <2>3
<1> QED
  BY <1>3, <1>7, <1>8 DEF new
-----------------------------------------------------------------------------
\* What eventScaledValue makes of each value, and a number of itself.
Scaled == [v \in CounterValue |-> EventScaledValue(v)]
Numbers == [n \in Nat |-> n]

\* The totals of some sequences, together.
TotalOfEach(F, seqs) == SumFunctionOnSet([k \in DOMAIN seqs |-> Total(F, seqs[k])], DOMAIN seqs)

LEMMA ScaledType ==
  /\ Scaled \in [CounterValue -> Nat] /\ Scaled \in [CounterValue -> Int]
  /\ \A v \in CounterValue : Scaled[v] = EventScaledValue(v)
  /\ Numbers \in [Nat -> Nat] /\ Numbers \in [Nat -> Int] /\ \A n \in Nat : Numbers[n] = n
<1>1. ASSUME NEW v \in CounterValue
      PROVE  EventScaledValue(v) \in Nat
  <2>1. v.Raw \in Nat /\ v.Enabled \in Nat /\ v.Running \in Nat
    BY DEF CounterValue
  <2> DEFINE product == v.Raw * v.Enabled
             running == v.Running
  <2>2. product \in Nat
    BY <2>1
  <2> HIDE DEF product
  <2>3. running # 0 => product \div running \in Nat
    BY <2>1, <2>2
  <2> QED
    BY <2>1, <2>3 DEF EventScaledValue, product
<1> QED
  BY <1>1 DEF Scaled, Numbers

LEMMA MergeType ==
  ASSUME NEW values, IsFiniteSet(DOMAIN values), \A k \in DOMAIN values : values[k] \in CounterValue
  PROVE  MergeValues(values) \in Nat
<1> DEFINE f == [k \in DOMAIN values |-> EventScaledValue(values[k])]
<1>1. \A k \in DOMAIN values : f[k] \in Nat
  BY ScaledType
<1>2. DOMAIN f = DOMAIN values
  OBVIOUS
<1>3. MergeValues(values) = SumFunctionOnSet(f, DOMAIN f)
  BY DEF MergeValues, SumFunction
<1> HIDE DEF f
<1> QED
  BY <1>1, <1>2, <1>3, SumOfNaturals

LEMMA MergeFacts ==
  ASSUME NEW values \in Seq(CounterValue)
  PROVE  MergeValues(values) \in Nat /\ MergeValues(values) = Total(Scaled, values)
<1>1. IsFiniteSet(DOMAIN values) /\ \A k \in DOMAIN values : values[k] \in CounterValue
  BY SequenceDomain
<1> DEFINE f == [k \in DOMAIN values |-> EventScaledValue(values[k])]
           g == [k \in DOMAIN values |-> Scaled[values[k]]]
<1>2. f = g /\ DOMAIN f = DOMAIN values
  BY <1>1, ScaledType
<1>3. MergeValues(values) = SumFunctionOnSet(f, DOMAIN f) /\ Total(Scaled, values) = SumFunctionOnSet(g, DOMAIN values)
  BY DEF MergeValues, SumFunction, Total
<1> HIDE DEF f, g
<1>4. MergeValues(values) = Total(Scaled, values)
  BY <1>2, <1>3
<1> QED
  BY <1>1, <1>4, MergeType

\* The values one by one.
LEMMA ApartFacts ==
  ASSUME NEW values \in Seq(CounterValue)
  PROVE  EachApart(values) \in Seq(Nat) /\ Total(Numbers, EachApart(values)) = Total(Scaled, values)
<1> DEFINE apart == EachApart(values)
           n == Len(values)
<1>1. n \in Nat /\ DOMAIN values = 1 .. n /\ \A k \in 1 .. n : values[k] \in CounterValue
  OBVIOUS
<1>2. \A k \in 1 .. n : MergeValues(<<values[k]>>) = Scaled[values[k]] /\ Scaled[values[k]] \in Nat
  <2> TAKE k \in 1 .. n
  <2>1. <<values[k]>> \in Seq(CounterValue) /\ values[k] \in CounterValue
    BY <1>1
  <2>2. MergeValues(<<values[k]>>) = Total(Scaled, <<values[k]>>)
    BY <2>1, MergeFacts
  <2>3. Total(Scaled, <<values[k]>>) = Scaled[values[k]]
    BY <2>1, ScaledType, TotalOfOne
  <2>4. Scaled[values[k]] \in Nat
    BY <2>1, ScaledType
  <2> QED
    BY <2>2, <2>3, <2>4
<1>3. apart = [k \in 1 .. n |-> Scaled[values[k]]]
  BY <1>1, <1>2 DEF EachApart
<1>4. apart \in Seq(Nat) /\ DOMAIN apart = 1 .. n
  <2>1. apart \in [1 .. n -> Nat]
    BY <1>2, <1>3
  <2> HIDE DEF n, apart
  <2> QED
    BY <1>1, <2>1
<1>5. [k \in DOMAIN apart |-> Numbers[apart[k]]] = [k \in DOMAIN values |-> Scaled[values[k]]]
  BY <1>1, <1>2, <1>3, <1>4, ScaledType
<1> QED
  BY <1>1, <1>4, <1>5 DEF Total

\* Sequences one after the other.
LEMMA FlattenSteps ==
  ASSUME NEW V, NEW seqs \in Seq(Seq(V)), seqs # <<>>
  PROVE  \E flat : /\ FlattenSeq(seqs) = flat[Len(seqs)] /\ flat[1] = seqs[1]
                   /\ \A n \in 1 .. Len(seqs) : n # 1 => flat[n] = flat[n - 1] \o seqs[n]
<1> DEFINE l == Len(seqs)
           Flat(f) == f = [n \in 1 .. l |-> IF n = 1 THEN seqs[n] ELSE f[n - 1] \o seqs[n]]
           step == [x \in Nat \X Seq(V) |-> IF x[1] \in 1 .. l THEN x[2] \o seqs[x[1]] ELSE x[2]]
           none == <<>>
<1>1. l \in Nat /\ l # 0 /\ \A n \in 1 .. l : seqs[n] \in Seq(V)
  OBVIOUS
<1> HIDE DEF l
<1>2. step \in [Nat \X Seq(V) -> Seq(V)] /\ \A n \in 1 .. l, s \in Seq(V) : step[<<n, s>>] = s \o seqs[n]
  <2>1. ASSUME NEW n \in 1 .. l, NEW s \in Seq(V)
        PROVE  s \o seqs[n] \in Seq(V) /\ n \in Nat
    <3>1. seqs[n] \in Seq(V)
      BY <1>1
    <3>2. n \in Nat
      BY <1>1
    <3> QED
      BY <3>1, <3>2
  <2>2. \A x \in Nat \X Seq(V) : x[1] \in Nat /\ x[2] \in Seq(V)
    OBVIOUS
  <2> QED
    BY <2>1, <2>2
<1>3. none \in Seq(V)
  OBVIOUS
<1> HIDE DEF step, none
<1>4. PICK g : RecursiveUpTo(g, l, Seq(V), none, step)
  BY <1>1, <1>2, <1>3, BoundedRecursion
<1>5. g \in [0 .. l -> Seq(V)] /\ g = [n \in 0 .. l |-> IF n = 0 THEN none ELSE step[<<n, g[n - 1]>>]]
  BY <1>4 DEF RecursiveUpTo
<1>6. g[0] = none /\ \A n \in 1 .. l : n - 1 \in 0 .. l /\ g[n - 1] \in Seq(V) /\ g[n] = g[n - 1] \o seqs[n]
  <2>1. 0 \in 0 .. l /\ \A n \in 1 .. l : n \in 0 .. l /\ n # 0 /\ n - 1 \in 0 .. l
    BY <1>1
  <2>2. g[0] = none
    BY <1>5, <2>1
  <2>3. \A n \in 1 .. l : g[n] = step[<<n, g[n - 1]>>]
    BY <1>5, <2>1
  <2> QED
    BY <1>2, <1>5, <2>1, <2>2, <2>3
<1>7. g[1] = seqs[1]
  <2>1. 1 \in 1 .. l /\ 1 - 1 = 0 /\ seqs[1] \in Seq(V)
    BY <1>1
  <2>2. g[1] = <<>> \o seqs[1]
    BY <1>6, <2>1 DEF none
  <2> QED
    BY <2>1, <2>2, ConcatEmptySeq
<1> DEFINE f == [n \in 1 .. l |-> g[n]]
<1>8. Flat(f)
  <2>1. ASSUME NEW n \in 1 .. l, n # 1
        PROVE  f[n] = f[n - 1] \o seqs[n]
    <3>1. n - 1 \in 1 .. l
      BY <1>1, <2>1
    <3> QED
      BY <1>6, <3>1
  <2>2. f[1] = seqs[1]
    BY <1>1, <1>7
  <2> QED
    BY <2>1, <2>2
<1> DEFINE flat == CHOOSE h : Flat(h)
<1>9. Flat(flat)
  <2> HIDE DEF Flat, f
  <2> QED
    BY <1>8
<1>10. FlattenSeq(seqs) = flat[l]
  BY <1>1 DEF FlattenSeq, l
<1> HIDE DEF flat
<1>11. flat[1] = seqs[1] /\ \A n \in 1 .. l : n # 1 => flat[n] = flat[n - 1] \o seqs[n]
  <2>1. 1 \in 1 .. l
    BY <1>1
  <2>2. \A n \in 1 .. l : flat[n] = IF n = 1 THEN seqs[n] ELSE flat[n - 1] \o seqs[n]
    BY <1>9
  <2> QED
    BY <2>1, <2>2
<1> QED
  BY <1>10, <1>11 DEF l

LEMMA FlattenFacts ==
  ASSUME NEW V, NEW F \in [V -> Int], NEW seqs \in Seq(Seq(V))
  PROVE  FlattenSeq(seqs) \in Seq(V) /\ Total(F, FlattenSeq(seqs)) = TotalOfEach(F, seqs)
<1> DEFINE l == Len(seqs)
           t == [k \in DOMAIN seqs |-> Total(F, seqs[k])]
<1>1. l \in Nat /\ DOMAIN seqs = 1 .. l /\ \A n \in 1 .. l : seqs[n] \in Seq(V)
  OBVIOUS
<1>2. \A n \in 1 .. l : t[n] = Total(F, seqs[n]) /\ t[n] \in Int
  <2> TAKE n \in 1 .. l
  <2>1. seqs[n] \in Seq(V) /\ n \in DOMAIN seqs
    BY <1>1
  <2> QED
    BY <2>1, TotalType
<1>3. TotalOfEach(F, seqs) = SumFunctionOnSet(t, 1 .. l)
  BY <1>1 DEF TotalOfEach
<1> HIDE DEF t
<1>4. CASE seqs = <<>>
  <2>1. FlattenSeq(seqs) = seqs /\ l = 0 /\ seqs \in Seq(V)
    BY <1>4 DEF FlattenSeq
  <2>2. Total(F, seqs) = 0
    BY <1>4, <2>1, TotalType
  <2>3. 1 .. l = {}
    BY <2>1
  <2>4. SumFunctionOnSet(t, {}) = 0
    <3>1. \A x \in {} : t[x] \in Int
      OBVIOUS
    <3> QED
      BY <3>1, SumType, FS_EmptySet
  <2> QED
    BY <1>3, <2>1, <2>2, <2>3, <2>4
<1>5. CASE seqs # <<>>
  <2>1. PICK flat : /\ FlattenSeq(seqs) = flat[l] /\ flat[1] = seqs[1]
                    /\ \A n \in 1 .. l : n # 1 => flat[n] = flat[n - 1] \o seqs[n]
    BY <1>5, FlattenSteps
  <2>2. l # 0
    BY <1>5
  <2> HIDE DEF l
  <2> DEFINE N == {n \in Nat : n + 1 <= l => /\ flat[n + 1] \in Seq(V)
                                            /\ Total(F, flat[n + 1]) = SumFunctionOnSet(t, 1 .. n + 1)}
  <2>3. 0 \in N
    <3>1. 1 \in 1 .. l /\ 1 .. 0 + 1 = {} \cup {1} /\ 0 + 1 = 1
      BY <1>1, <2>2
    <3>2. \A x \in {} \cup {1} : t[x] \in Int
      BY <1>2, <3>1
    <3>3. SumFunctionOnSet(t, {} \cup {1}) = t[1] + SumFunctionOnSet(t, {})
      BY <3>2, SumAdds, FS_EmptySet
    <3>4. SumFunctionOnSet(t, {}) = 0
      BY SumType, FS_EmptySet
    <3>5. t[1] \in Int /\ t[1] = Total(F, flat[1]) /\ flat[1] \in Seq(V)
      BY <1>1, <1>2, <2>1, <3>1
    <3>6. SumFunctionOnSet(t, 1 .. 0 + 1) = Total(F, flat[0 + 1]) /\ flat[0 + 1] \in Seq(V)
      BY <3>1, <3>3, <3>4, <3>5
    <3> QED
      BY <3>6
  <2>4. ASSUME NEW n \in Nat, n \in N
        PROVE  n + 1 \in N
    <3> SUFFICES ASSUME (n + 1) + 1 <= l
                 PROVE  /\ flat[(n + 1) + 1] \in Seq(V)
                        /\ Total(F, flat[(n + 1) + 1]) = SumFunctionOnSet(t, 1 .. (n + 1) + 1)
      OBVIOUS
    <3> DEFINE m == (n + 1) + 1
               before == flat[n + 1]
               D == 1 .. n + 1
    <3>1. /\ m \in 1 .. l /\ m # 1 /\ m - 1 = n + 1 /\ 1 .. m = D \cup {m} /\ m \notin D
          /\ \A x \in D \cup {m} : x \in 1 .. l
      BY <1>1
    <3>2. before \in Seq(V) /\ Total(F, before) = SumFunctionOnSet(t, D)
      <4>1. n + 1 <= l
        BY <1>1
      <4> QED
        BY <2>4, <4>1
    <3>3. IsFiniteSet(D)
      <4>1. 1 \in Int /\ n + 1 \in Int
        OBVIOUS
      <4> QED
        BY <4>1, FS_Interval, Zenon
    <3>4. flat[m] = before \o seqs[m]
      BY <2>1, <3>1
    <3> HIDE DEF m, before, D
    <3>5. seqs[m] \in Seq(V) /\ t[m] = Total(F, seqs[m]) /\ t[m] \in Int
      BY <1>1, <1>2, <3>1
    <3>6. SumFunctionOnSet(t, D \cup {m}) = t[m] + SumFunctionOnSet(t, D)
      <4>1. \A x \in D \cup {m} : t[x] \in Int
        BY <1>2, <3>1
      <4> QED
        BY <3>1, <3>3, <4>1, SumAdds
    <3>7. Total(F, before \o seqs[m]) = Total(F, before) + Total(F, seqs[m])
      BY <3>2, <3>5, TotalOfBoth
    <3>8. before \o seqs[m] \in Seq(V)
      BY <3>2, <3>5
    <3>9. Total(F, before) \in Int
      BY <3>2, TotalType
    <3>10. Total(F, flat[m]) = SumFunctionOnSet(t, 1 .. m) /\ flat[m] \in Seq(V)
      <4> DEFINE a == Total(F, before)
                 b == t[m]
      <4>1. a \in Int /\ b \in Int /\ Total(F, flat[m]) = a + b /\ SumFunctionOnSet(t, D \cup {m}) = b + a
        BY <3>2, <3>4, <3>5, <3>6, <3>7, <3>9
      <4> HIDE DEF a, b
      <4>2. a + b = b + a
        BY <4>1
      <4>3. 1 .. m = D \cup {m}
        BY <3>1
      <4> QED
        BY <3>4, <3>8, <4>1, <4>2, <4>3
    <3> QED
      BY <3>10 DEF m
  <2>5. l - 1 \in N
    <3> HIDE DEF N
    <3>1. l - 1 \in Nat
      BY <1>1, <2>2
    <3> QED
      BY <2>3, <2>4, <3>1, Induct
  <2>6. (l - 1) + 1 = l
    BY <1>1
  <2> QED
    BY <1>1, <1>3, <2>1, <2>5, <2>6
<1> QED
  BY <1>4, <1>5

\* What the values of a list come to.
Estimates(list) == TotalOfEach(Scaled, ValuesOf(list))

LEMMA ValuesFacts ==
  ASSUME NEW list \in Seq(Entry)
  PROVE  /\ ValuesOf(list) \in Seq(Seq(CounterValue)) /\ DOMAIN ValuesOf(list) = DOMAIN list
         /\ FlattenSeq(ValuesOf(list)) \in Seq(CounterValue)
         /\ Total(Scaled, FlattenSeq(ValuesOf(list))) = Estimates(list)
<1> DEFINE n == Len(list)
           values == ValuesOf(list)
<1>1. n \in Nat /\ DOMAIN list = 1 .. n /\ \A k \in 1 .. n : list[k] \in Entry
  OBVIOUS
<1>2. values = [k \in 1 .. n |-> list[k].values] /\ \A k \in 1 .. n : list[k].values \in Seq(CounterValue)
  BY <1>1 DEF ValuesOf, Entry
<1> HIDE DEF n, values
<1>3. values \in [1 .. n -> Seq(CounterValue)]
  BY <1>2
<1>4. values \in Seq(Seq(CounterValue)) /\ DOMAIN values = DOMAIN list
  BY <1>1, <1>3
<1>5. FlattenSeq(values) \in Seq(CounterValue) /\ Total(Scaled, FlattenSeq(values)) = TotalOfEach(Scaled, values)
  BY <1>4, FlattenFacts, ScaledType
<1> QED
  BY <1>4, <1>5 DEF values, Estimates

LEMMA OneLine ==
  ASSUME NEW n \in Nat
  PROVE  <<n>> \in Seq(Nat) /\ Total(Numbers, <<n>>) = n
BY ScaledType, TotalOfOne

\* printCoreEvent and printCoreEventAggr, and where they print alike, printUncore.
LEMMA CorePrinted ==
  ASSUME NEW list \in Seq(Entry)
  PROVE  /\ PrintCore(list) \in Seq(Nat) /\ Total(Numbers, PrintCore(list)) = Estimates(list)
         /\ MergeValues(FlattenSeq(ValuesOf(list))) = Estimates(list) /\ Estimates(list) \in Nat
<1> DEFINE all == FlattenSeq(ValuesOf(list))
<1>1. all \in Seq(CounterValue) /\ Total(Scaled, all) = Estimates(list)
  BY ValuesFacts
<1> HIDE DEF all
<1>2. MergeValues(all) \in Nat /\ MergeValues(all) = Estimates(list)
  BY <1>1, MergeFacts
<1>3. <<MergeValues(all)>> \in Seq(Nat) /\ Total(Numbers, <<MergeValues(all)>>) = MergeValues(all)
  BY <1>2, OneLine
<1>4. EachApart(all) \in Seq(Nat) /\ Total(Numbers, EachApart(all)) = Estimates(list)
  BY <1>1, ApartFacts
<1>5. PrintCore(list) = IF aggr THEN <<MergeValues(all)>> ELSE EachApart(all)
  BY DEF PrintCore, all
<1> QED
  BY <1>2, <1>3, <1>4, <1>5 DEF all
-----------------------------------------------------------------------------
\* The list of an uncore event; a list that was read without an error.
UncoreList(list) ==
  /\ list \in Seq(Entry) \ {<<>>}
  /\ \A k \in DOMAIN list : Len(list[k].values) \in {0, Units}
WholeList(list) == \A k \in DOMAIN list : Len(list[k].values) = Units

LEMMA UncoreListFacts ==
  ASSUME NEW list, UncoreList(list)
  PROVE  /\ list \in Seq(Entry) /\ Len(list) \in Nat /\ DOMAIN list = 1 .. Len(list) /\ 1 \in DOMAIN list
         /\ \A k \in DOMAIN list : /\ list[k].values \in Seq(CounterValue)
                                   /\ DOMAIN list[k].values = 1 .. Len(list[k].values)
<1>1. list \in Seq(Entry) /\ list # <<>>
  BY DEF UncoreList
<1>2. Len(list) \in Nat /\ DOMAIN list = 1 .. Len(list) /\ Len(list) # 0 /\ \A k \in DOMAIN list : list[k] \in Entry
  BY <1>1
<1>3. 1 \in DOMAIN list
  BY <1>2
<1>4. \A k \in DOMAIN list : list[k].values \in Seq(CounterValue)
  BY <1>2 DEF Entry
<1>5. \A k \in DOMAIN list : DOMAIN list[k].values = 1 .. Len(list[k].values)
  BY <1>4
<1> QED
  BY <1>1, <1>2, <1>3, <1>4, <1>5

\* One line for each socket.
LEMMA MergedPrinted ==
  ASSUME NEW list \in Seq(Entry)
  PROVE  /\ [k \in DOMAIN list |-> MergeValues(list[k].values)] \in Seq(Nat)
         /\ Total(Numbers, [k \in DOMAIN list |-> MergeValues(list[k].values)]) = Estimates(list)
<1> DEFINE n == Len(list)
           merged == [k \in DOMAIN list |-> MergeValues(list[k].values)]
           values == ValuesOf(list)
<1>1. n \in Nat /\ DOMAIN list = 1 .. n /\ \A k \in 1 .. n : list[k] \in Entry
  OBVIOUS
<1>2. \A k \in 1 .. n : list[k].values \in Seq(CounterValue)
  BY <1>1 DEF Entry
<1>3. \A k \in 1 .. n : /\ MergeValues(list[k].values) \in Nat
                       /\ MergeValues(list[k].values) = Total(Scaled, list[k].values)
  BY <1>2, MergeFacts
<1>4. merged \in Seq(Nat) /\ DOMAIN merged = 1 .. n
  <2>1. merged \in [1 .. n -> Nat]
    BY <1>1, <1>3
  <2> HIDE DEF n, merged
  <2> QED
    BY <1>1, <2>1
<1>5. DOMAIN values = 1 .. n /\ \A k \in 1 .. n : values[k] = list[k].values
  BY <1>1 DEF ValuesOf
<1>6. [k \in DOMAIN merged |-> Numbers[merged[k]]] = [k \in DOMAIN values |-> Total(Scaled, values[k])]
  <2>1. \A k \in 1 .. n : Numbers[merged[k]] = Total(Scaled, values[k])
    BY <1>1, <1>3, <1>5, ScaledType
  <2> HIDE DEF merged, values
  <2> QED
    BY <1>4, <1>5, <2>1
<1> QED
  BY <1>4, <1>5, <1>6 DEF Total, Estimates, TotalOfEach

\* One line for each socket and unit.
LEMMA EventPrinted ==
  ASSUME NEW list, UncoreList(list)
  PROVE  /\ PrintUncoreEvent(list) \in Seq(Nat)
         /\ WholeList(list) => Total(Numbers, PrintUncoreEvent(list)) = Estimates(list)
<1> DEFINE n == Len(list)
           whole == {k \in DOMAIN list : \A j \in 1 .. k : Len(list[j].values) = Units}
           m == Cardinality(whole)
           apart == [k \in 1 .. m |-> EachApart(list[k].values)]
           values == ValuesOf(list)
<1>1. /\ n \in Nat /\ DOMAIN list = 1 .. n /\ \A k \in 1 .. n : list[k].values \in Seq(CounterValue)
      /\ IsFiniteSet(1 .. n) /\ Cardinality(1 .. n) = n
  <2>1. 1 \in Int /\ Len(list) \in Nat /\ Len(list) \in Int
    BY UncoreListFacts
  <2>2. IsFiniteSet(1 .. Len(list))
    BY <2>1, FS_Interval, Zenon
  <2>3. Cardinality(1 .. Len(list)) = IF 1 > Len(list) THEN 0 ELSE Len(list) - 1 + 1
    BY <2>1, FS_Interval, Zenon
  <2>4. Cardinality(1 .. Len(list)) = Len(list)
    BY <2>1, <2>3
  <2> QED
    BY <2>2, <2>4, UncoreListFacts
<1>2. PrintUncoreEvent(list) = FlattenSeq(apart)
  BY DEF PrintUncoreEvent
<1>3. m \in Nat /\ m <= n /\ (WholeList(list) => m = n)
  <2>1. whole \in SUBSET (1 .. n)
    BY <1>1
  <2>2. WholeList(list) => whole = 1 .. n
    BY <1>1 DEF WholeList
  <2> HIDE DEF whole, n
  <2> QED
    BY <1>1, <2>1, <2>2, FS_Subset, FS_CardinalityType
<1> HIDE DEF m, n
<1>4. \A k \in 1 .. m : /\ k \in 1 .. n /\ EachApart(list[k].values) \in Seq(Nat)
                        /\ Total(Numbers, EachApart(list[k].values)) = Total(Scaled, list[k].values)
  <2>1. \A k \in 1 .. m : k \in 1 .. n
    BY <1>1, <1>3
  <2> QED
    BY <1>1, <2>1, ApartFacts
<1>5. apart \in Seq(Seq(Nat)) /\ DOMAIN apart = 1 .. m
  <2>1. apart \in [1 .. m -> Seq(Nat)]
    BY <1>4
  <2> HIDE DEF apart
  <2> QED
    BY <1>3, <2>1
<1>6. \A k \in 1 .. m : apart[k] = EachApart(list[k].values)
  OBVIOUS
<1> HIDE DEF apart
<1>7. FlattenSeq(apart) \in Seq(Nat) /\ Total(Numbers, FlattenSeq(apart)) = TotalOfEach(Numbers, apart)
  BY <1>5, FlattenFacts, ScaledType
<1>8. ASSUME WholeList(list)
      PROVE  TotalOfEach(Numbers, apart) = Estimates(list)
  <2>1. DOMAIN values = 1 .. n /\ \A k \in 1 .. n : values[k] = list[k].values
    BY <1>1 DEF ValuesOf
  <2>2. m = n
    BY <1>3, <1>8
  <2> HIDE DEF values
  <2>3. [k \in DOMAIN apart |-> Total(Numbers, apart[k])] = [k \in DOMAIN values |-> Total(Scaled, values[k])]
    BY <1>4, <1>5, <1>6, <2>1, <2>2
  <2> QED
    BY <1>5, <2>1, <2>2, <2>3 DEF Estimates, TotalOfEach, values
<1> QED
  BY <1>2, <1>7, <1>8

\* One line for each unit.
LEMMA AggrPrinted ==
  ASSUME NEW list, UncoreList(list)
  PROVE  /\ PrintUncoreEventAggr(list) \in Seq(Nat)
         /\ WholeList(list) => Total(Numbers, PrintUncoreEventAggr(list)) = Estimates(list)
<1> DEFINE n == Len(list)
           I == DOMAIN list[1].values
           whole == {k \in DOMAIN list : Len(list[k].values) = Units}
           of(i) == [k \in whole |-> list[k].values[i]]
           printed == [i \in I |-> MergeValues(of(i))]
<1>1. /\ n \in Nat /\ DOMAIN list = 1 .. n /\ 1 \in DOMAIN list
      /\ \A k \in DOMAIN list : list[k].values \in Seq(CounterValue)
      /\ \A k \in DOMAIN list : DOMAIN list[k].values = 1 .. Len(list[k].values)
      /\ \A k \in DOMAIN list : Len(list[k].values) \in {0, Units}
      /\ Units \in Nat \ {0}
  BY UncoreListFacts, PlaceFacts DEF UncoreList
<1>2. PrintUncoreEventAggr(list) = printed
  BY DEF PrintUncoreEventAggr
<1>3. IsFiniteSet(DOMAIN list) /\ IsFiniteSet(whole) /\ whole \subseteq DOMAIN list
  <2>1. IsFiniteSet(DOMAIN list)
    BY UncoreListFacts, SequenceDomain
  <2>2. whole \in SUBSET DOMAIN list
    OBVIOUS
  <2> HIDE DEF whole
  <2> QED
    BY <2>1, <2>2, FS_Subset
<1>4. \A i \in I, k \in whole : list[k].values[i] \in CounterValue
  <2> TAKE i \in I, k \in whole
  <2>1. i \in 1 .. Units /\ k \in DOMAIN list /\ Len(list[k].values) = Units
    BY <1>1
  <2>2. i \in DOMAIN list[k].values /\ list[k].values \in Seq(CounterValue)
    BY <1>1, <2>1
  <2> QED
    BY <2>2, SequenceDomain
<1>5. \A i \in I : MergeValues(of(i)) \in Nat
  <2> TAKE i \in I
  <2>1. DOMAIN of(i) = whole /\ \A k \in whole : of(i)[k] \in CounterValue
    BY <1>4
  <2> HIDE DEF of, whole
  <2> QED
    BY <1>3, <2>1, MergeType
<1>6. printed \in Seq(Nat) /\ DOMAIN printed = I
  <2>1. I = 1 .. Len(list[1].values) /\ Len(list[1].values) \in Nat
    BY <1>1
  <2>2. printed \in [1 .. Len(list[1].values) -> Nat]
    BY <1>5, <2>1
  <2> HIDE DEF printed
  <2> QED
    BY <2>1, <2>2
<1>7. ASSUME WholeList(list)
      PROVE  Total(Numbers, printed) = Estimates(list)
  <2> DEFINE K == DOMAIN list
             row == [k \in K |-> [i \in DOMAIN list[k].values |-> Scaled[list[k].values[i]]]]
             column == [i \in I |-> [k \in K |-> EventScaledValue(of(i)[k])]]
             r == [k \in K |-> Total(Scaled, list[k].values)]
             c == [i \in I |-> Numbers[printed[i]]]
  <2>1. whole = K /\ I = 1 .. Units /\ \A k \in K : DOMAIN list[k].values = I
    BY <1>1, <1>7 DEF WholeList
  <2>2. IsFiniteSet(K) /\ IsFiniteSet(I)
    <3>1. list[1].values \in Seq(CounterValue)
      BY <1>1
    <3> QED
      BY <1>3, <3>1, SequenceDomain
  <2>3. \A i \in I, k \in K : /\ list[k].values[i] \in CounterValue
                              /\ Scaled[list[k].values[i]] = EventScaledValue(list[k].values[i])
                              /\ Scaled[list[k].values[i]] \in Int
    <3> TAKE i \in I, k \in K
    <3>1. list[k].values[i] \in CounterValue
      BY <1>4, <2>1
    <3> QED
      BY <3>1, ScaledType
  <2>4. \A k \in K : /\ row[k] = [i \in DOMAIN list[k].values |-> Scaled[list[k].values[i]]]
                     /\ \A i \in I : row[k][i] = Scaled[list[k].values[i]]
    BY <2>1
  <2>5. \A i \in I : \A k \in K : column[i][k] = EventScaledValue(list[k].values[i])
    BY <2>1
  <2>6. RowSums(row, K, I, r)
    <3>1. \A k \in K : r[k] = SumFunctionOnSet(row[k], I)
      <4> TAKE k \in K
      <4>1. Total(Scaled, list[k].values) = SumFunctionOnSet(row[k], DOMAIN list[k].values)
        BY <2>4 DEF Total
      <4> QED
        BY <2>1, <4>1
    <3> HIDE DEF row, r, K, I
    <3> QED
      BY <2>2, <2>3, <2>4, <3>1 DEF RowSums
  <2>7. RowSums(column, I, K, c)
    <3>1. \A i \in I : c[i] = SumFunctionOnSet(column[i], K)
      <4> TAKE i \in I
      <4>1. c[i] = MergeValues(of(i))
        BY <1>5, ScaledType
      <4>2. column[i] = [k \in DOMAIN of(i) |-> EventScaledValue(of(i)[k])] /\ DOMAIN column[i] = K
        BY <2>1
      <4>3. MergeValues(of(i)) = SumFunctionOnSet(column[i], K)
        BY <4>2 DEF MergeValues, SumFunction
      <4> QED
        BY <4>1, <4>3
    <3> HIDE DEF column, c, K, I
    <3> QED
      BY <2>2, <2>3, <2>5, <3>1 DEF RowSums
  <2>8. \A i \in I : \A k \in K : column[i][k] = row[k][i]
    <3> HIDE DEF row, column, K, I
    <3> TAKE i \in I
    <3> TAKE k \in K
    <3>1. row[k][i] = Scaled[list[k].values[i]]
      BY <2>4
    <3>2. column[i][k] = EventScaledValue(list[k].values[i])
      BY <2>5
    <3>3. Scaled[list[k].values[i]] = EventScaledValue(list[k].values[i])
      BY <2>3
    <3> QED
      BY <3>1, <3>2, <3>3
  <2>9. SumFunctionOnSet(r, K) = SumFunctionOnSet(c, I)
    <3> HIDE DEF row, column, r, c, K, I
    <3> QED
      BY <2>6, <2>7, <2>8, SumByColumns
  <2>10. Total(Numbers, printed) = SumFunctionOnSet(c, I)
    BY <1>6 DEF Total
  <2>11. Estimates(list) = SumFunctionOnSet(r, K)
    <3>1. DOMAIN ValuesOf(list) = K /\ \A k \in K : ValuesOf(list)[k] = list[k].values
      BY DEF ValuesOf
    <3>2. r = [k \in DOMAIN ValuesOf(list) |-> Total(Scaled, ValuesOf(list)[k])]
      BY <3>1
    <3> QED
      BY <3>1, <3>2 DEF Estimates, TotalOfEach
  <2> QED
    BY <2>9, <2>10, <2>11
<1> QED
  BY <1>2, <1>6, <1>7

LEMMA UncorePrinted ==
  ASSUME Typed, NEW list, UncoreList(list)
  PROVE  /\ PrintUncore(list) \in Seq(Nat)
         /\ WholeList(list) => Total(Numbers, PrintUncore(list)) = Estimates(list)
<1>1. aggr \in BOOLEAN /\ merge \in BOOLEAN /\ list \in Seq(Entry)
  BY DEF Typed, UncoreList
<1> DEFINE all == MergeValues(FlattenSeq(ValuesOf(list)))
           merged == [k \in DOMAIN list |-> MergeValues(list[k].values)]
<1>2. PrintUncore(list) \in {merged, <<all>>, PrintUncoreEvent(list), PrintUncoreEventAggr(list)}
  BY <1>1 DEF PrintUncore
<1>3. all \in Nat /\ all = Estimates(list)
  BY <1>1, CorePrinted
<1>4. merged \in Seq(Nat) /\ Total(Numbers, merged) = Estimates(list)
  BY <1>1, MergedPrinted
<1> HIDE DEF all, merged
<1>5. <<all>> \in Seq(Nat) /\ Total(Numbers, <<all>>) = Estimates(list)
  BY <1>3, OneLine
<1> QED
  BY <1>2, <1>4, <1>5, EventPrinted, AggrPrinted
-----------------------------------------------------------------------------
\* What the estimate of a counter in Measured is.
EstimateOf(c) ==
  IF c[1] \in dead THEN 0
  ELSE (CASE Sharing[c[2]] = "alone" -> 3 [] Sharing[c[2]] = "shared" -> 6 [] Sharing[c[2]] = "starved" -> 0) * round

CountersNamed(name) == {c \in open : line[c[1]].name = name}

Copies(n, value) == [i \in 1 .. n |-> value]

\* The values of a list are those of its counters in this round.
FreshList(name, list) ==
  \A k \in DOMAIN list : list[k].values = Copies(Width(name), ReadActiveEventValues(list[k]))

\* eventScaledValue takes from what is read what the counter has counted.
LEMMA ScaledEstimate ==
  ASSUME Typed, round > 0, NEW name, NEW e, EntryOf(name, e), NEW i
  PROVE  EventScaledValue(ReadActiveEventValues(e)) = EstimateOf(<<e.position, e.place, i>>)
         /\ EstimateOf(<<e.position, e.place, i>>) \in Nat
<1>1. round \in Nat /\ round # 0
  BY DEF Typed
<1>2. Sharing[e.place] \in {"alone", "shared", "starved"}
  <2>1. e.place \in ToSet(Cpus) \cup ToSet(Sockets)
    BY DEF EntryOf, Places
  <2> QED
    BY <2>1, IastatAssumption
<1> DEFINE c == <<e.position, e.place, i>>
<1>3. c[1] = e.position /\ c[2] = e.place
  OBVIOUS
<1> HIDE DEF c
<1>4. CASE e.position \in dead
  <2>1. EstimateOf(c) = 0
    BY <1>3, <1>4 DEF EstimateOf
  <2>2. EventScaledValue(ReadActiveEventValues(e)) = 0
    BY <1>4 DEF ReadActiveEventValues, Zero, EventScaledValue
  <2> QED
    BY <2>1, <2>2 DEF c
<1>5. CASE e.position \notin dead
  <2>1. ReadActiveEventValues(e) = Shows(e.place, round)
    BY <1>5 DEF ReadActiveEventValues
  <2>2. CASE Sharing[e.place] = "alone"
    <3>1. EstimateOf(c) = 3 * round
      BY <1>3, <1>5, <2>2 DEF EstimateOf
    <3>2. Shows(e.place, round) = [Raw |-> 3 * round, Enabled |-> round, Running |-> round]
      BY <2>2 DEF Shows
    <3>3. EventScaledValue(Shows(e.place, round)) = 3 * round
      BY <3>2 DEF EventScaledValue
    <3> QED
      BY <1>1, <2>1, <3>1, <3>3 DEF c
  <2>3. CASE Sharing[e.place] = "shared"
    <3>1. EstimateOf(c) = 6 * round
      BY <1>3, <1>5, <2>3 DEF EstimateOf
    <3>2. Shows(e.place, round) = [Raw |-> 2 * round, Enabled |-> 3 * round, Running |-> round]
      BY <2>3 DEF Shows
    <3>3. EventScaledValue(Shows(e.place, round)) = ((2 * round) * (3 * round)) \div round
      <4>1. 3 * round # round
        BY <1>1
      <4> QED
        BY <1>1, <3>2, <4>1 DEF EventScaledValue
    <3>4. ((2 * round) * (3 * round)) \div round = 6 * round
      <4>1. (2 * round) * (3 * round) = (6 * round) * round
        BY <1>1
      <4>2. \A q \in Nat : (q * round) \div round = q
        BY <1>1
      <4>3. 6 * round \in Nat
        BY <1>1
      <4> QED
        BY <4>1, <4>2, <4>3
    <3> QED
      BY <1>1, <2>1, <3>1, <3>3, <3>4 DEF c
  <2>4. CASE Sharing[e.place] = "starved"
    <3>1. EstimateOf(c) = 0
      BY <1>1, <1>3, <1>5, <2>4 DEF EstimateOf
    <3>2. EventScaledValue(Shows(e.place, round)) = 0
      BY <2>4 DEF Shows, EventScaledValue
    <3> QED
      BY <2>1, <3>1, <3>2 DEF c
  <2> QED
    BY <1>2, <2>2, <2>3, <2>4
<1> QED
  BY <1>4, <1>5

LEMMA MeasuredFacts ==
  ASSUME Typed, NEW name
  PROVE  Measured(name) = SumFunctionOnSet([c \in CountersNamed(name) |-> EstimateOf(c)], CountersNamed(name))
BY DEF Measured, SumFunction, EstimateOf, CountersNamed

\* What the list of a name comes to is what the counters of its events have
\* counted, if all was read.
LEMMA FreshEstimates ==
  ASSUME Typed, round > 0, open = Counters, Registered(active, Placed(Positions)),
         NEW name \in DOMAIN active, FreshList(name, active[name])
  PROVE  Estimates(active[name]) = Measured(name)
<1> DEFINE list == active[name]
           K == DOMAIN list
           I == 1 .. Width(name)
           C == CountersNamed(name)
           row == [k \in K |-> [i \in DOMAIN list[k].values |-> Scaled[list[k].values[i]]]]
           r == [k \in K |-> Total(Scaled, list[k].values)]
           f == Cells(row, K, I)
           g == [c \in C |-> EstimateOf(c)]
           h == [x \in K \X I |-> <<list[x[1]].position, list[x[1]].place, x[2]>>]
<1>1. /\ list \in Seq(Entry) /\ \A k \in K : EntryOf(name, list[k]) /\ list[k] \in Entry
      /\ IsFiniteSet(K)
  <2>1. list \in Seq(Entry) /\ \A k \in K : EntryOf(name, list[k])
    BY DEF Typed, MapOK
  <2>2. IsFiniteSet(K)
    BY <2>1, SequenceDomain
  <2> QED
    BY <2>1, <2>2 DEF EntryOf
<1>2. IsFiniteSet(I) /\ Width(name) \in Nat
  <2>1. 1 \in Int /\ Width(name) \in Int /\ Width(name) \in Nat
    BY PlaceFacts
  <2> QED
    BY <2>1, FS_Interval, Zenon
<1>3. /\ \A k \in K : /\ list[k].values \in Seq(CounterValue) /\ DOMAIN list[k].values = I
                      /\ list[k].position \in Positions /\ line[list[k].position].name = name
                      /\ list[k].place \in Places(list[k].position) /\ list[k].place \in STRING
      /\ \A k \in K : \A i \in I : list[k].values[i] = ReadActiveEventValues(list[k])
  <2>1. \A k \in K : DOMAIN list[k].values = I /\ \A i \in I : list[k].values[i] = ReadActiveEventValues(list[k])
    BY DEF FreshList, Copies
  <2> QED
    BY <1>1, <2>1 DEF EntryOf, Entry
<1> HIDE DEF list, I
<1>4. \A k \in K : \A i \in I : /\ list[k].values[i] \in CounterValue
                               /\ row[k][i] = EstimateOf(<<list[k].position, list[k].place, i>>)
                               /\ row[k][i] \in Int
  <2> TAKE k \in K
  <2> TAKE i \in I
  <2>1. list[k].values[i] \in CounterValue
    BY <1>3, SequenceDomain
  <2>2. row[k][i] = Scaled[list[k].values[i]]
    BY <1>3
  <2>3. Scaled[list[k].values[i]] = EventScaledValue(ReadActiveEventValues(list[k]))
    BY <1>3, <2>1, ScaledType
  <2>4. /\ EventScaledValue(ReadActiveEventValues(list[k])) = EstimateOf(<<list[k].position, list[k].place, i>>)
        /\ EstimateOf(<<list[k].position, list[k].place, i>>) \in Nat
    BY <1>1, ScaledEstimate
  <2> HIDE DEF row
  <2> QED
    BY <2>1, <2>2, <2>3, <2>4
<1>5. RowSums(row, K, I, r)
  <2>1. \A k \in K : r[k] = SumFunctionOnSet(row[k], I)
    BY <1>3 DEF Total
  <2> HIDE DEF row, r, K
  <2> QED
    BY <1>1, <1>2, <1>4, <2>1 DEF RowSums, K
<1>6. Estimates(list) = SumFunctionOnSet(r, K)
  <2>1. DOMAIN ValuesOf(list) = K /\ \A k \in K : ValuesOf(list)[k] = list[k].values
    BY DEF ValuesOf
  <2>2. r = [k \in DOMAIN ValuesOf(list) |-> Total(Scaled, ValuesOf(list)[k])]
    BY <2>1
  <2> QED
    BY <2>1, <2>2 DEF Estimates, TotalOfEach
<1>7. IsFiniteSet(K \X I) /\ SumFunctionOnSet(r, K) = SumFunctionOnSet(f, K \X I)
  <2> HIDE DEF row, r, K
  <2>1. IsFiniteSet(K \X I)
    BY <1>5, SumOfTable
  <2>2. SumFunctionOnSet(r, K) = SumFunctionOnSet(f, K \X I)
    BY <1>5, SumOfTable
  <2> QED
    BY <2>1, <2>2
<1>8. \A k \in K, i \in I : <<list[k].position, list[k].place, i>> \in C
  <2> TAKE k \in K, i \in I
  <2> DEFINE p == list[k].position
             c == <<p, list[k].place, i>>
  <2>1. p \in Positions /\ line[p].name = name /\ list[k].place \in Places(p)
    BY <1>3
  <2> HIDE DEF p
  <2>2. c \in {p} \X Places(p) \X (1 .. Width(line[p].name))
    BY <2>1 DEF I
  <2>3. c \in Counters
    BY <2>1, <2>2 DEF Counters
  <2>4. line[c[1]].name = name
    BY <2>1
  <2> HIDE DEF c
  <2> QED
    BY <2>3, <2>4 DEF CountersNamed, c, p
<1>9. \A c \in C : \E k \in K, i \in I :
        /\ c = <<list[k].position, list[k].place, i>>
        /\ \A j \in K : list[j].position = c[1] /\ list[j].place = c[2] => j = k
  <2> TAKE c \in C
  <2>1. c \in CountersOf(Positions) /\ line[c[1]].name = name
    BY CounterFacts DEF CountersNamed
  <2>2. /\ c[1] \in Positions /\ c[2] \in STRING /\ <<c[1], c[2]>> \in Placed(Positions)
        /\ c[3] \in I /\ c = <<c[1], c[2], c[3]>>
    BY <2>1, CounterOf DEF I
  <2>3. PICK k \in K : \A j \in K : At(list[j], c[1], c[2]) <=> j = k
    <3>1. \E k \in DOMAIN active[line[c[1]].name] :
            \A j \in DOMAIN active[line[c[1]].name] : At(active[line[c[1]].name][j], c[1], c[2]) <=> j = k
      BY <2>2 DEF Registered
    <3> QED
      BY <2>1, <3>1 DEF list
  <2>4. list[k].position = c[1] /\ list[k].place = c[2]
    BY <2>3 DEF At
  <2>5. c = <<list[k].position, list[k].place, c[3]>>
    BY <2>2, <2>4
  <2> QED
    BY <2>2, <2>3, <2>5 DEF At
<1>10. h \in [K \X I -> C] /\ \A z \in C : \E x \in K \X I : h[x] = z
  <2>1. h \in [K \X I -> C]
    BY <1>8
  <2>2. \A z \in C : \E x \in K \X I : h[x] = z
    <3> TAKE z \in C
    <3>1. PICK k \in K, i \in I : z = <<list[k].position, list[k].place, i>>
      BY <1>9
    <3>2. <<k, i>> \in K \X I /\ h[<<k, i>>] = z
      BY <3>1
    <3> QED
      BY <3>2
  <2> QED
    BY <2>1, <2>2
<1>11. \A x, y \in K \X I : h[x] = h[y] => x = y
  <2> TAKE x, y \in K \X I
  <2> SUFFICES ASSUME h[x] = h[y] PROVE x = y
    OBVIOUS
  <2>1. PICK k \in K, i \in I, j \in K, m \in I : x = <<k, i>> /\ y = <<j, m>>
    OBVIOUS
  <2>2. <<list[k].position, list[k].place, i>> = <<list[j].position, list[j].place, m>>
    BY <2>1
  <2> DEFINE c == <<list[k].position, list[k].place, i>>
  <2>3. PICK n \in K : \A o \in K : list[o].position = c[1] /\ list[o].place = c[2] => o = n
    <3>1. c \in C
      BY <1>8
    <3> HIDE DEF c
    <3> QED
      BY <1>9, <3>1
  <2>4. k = n /\ j = n /\ i = m
    BY <2>2, <2>3
  <2> QED
    BY <2>1, <2>4
<1>12. \A x \in K \X I : f[x] \in Int /\ g[h[x]] = f[x]
  <2> TAKE x \in K \X I
  <2>1. PICK k \in K, i \in I : x = <<k, i>>
    OBVIOUS
  <2>2. f[x] = row[k][i]
    BY <2>1 DEF Cells
  <2>3. h[x] = <<list[k].position, list[k].place, i>> /\ h[x] \in C
    BY <1>10, <2>1
  <2>4. g[h[x]] = EstimateOf(<<list[k].position, list[k].place, i>>)
    BY <2>3
  <2> HIDE DEF f, g, h, row
  <2> QED
    BY <1>4, <2>2, <2>4
<1>13. SumFunctionOnSet(f, K \X I) = SumFunctionOnSet(g, C)
  <2> DEFINE A == K \X I
  <2>1. /\ IsFiniteSet(A) /\ h \in [A -> C] /\ \A x, y \in A : h[x] = h[y] => x = y
        /\ \A z \in C : \E x \in A : h[x] = z
        /\ \A x \in A : f[x] \in Int /\ g[h[x]] = f[x]
    BY <1>7, <1>10, <1>11, <1>12
  <2> HIDE DEF A, C, f, g, h
  <2>2. SumFunctionOnSet(f, A) = SumFunctionOnSet(g, C)
    BY <2>1, SumReindexed
  <2> QED
    BY <2>2 DEF A
<1> QED
  BY <1>6, <1>7, <1>13, MeasuredFacts DEF list
-----------------------------------------------------------------------------
\* The positions whose events are active, until main returns.
Activated ==
  CASE pc \in {"parse", "resolve"} -> {}
    [] pc = "singles" -> {singles[k] : k \in 1 .. at - 1}
    [] pc = "groups" -> ToSet(singles) \cup UNION {ToSet(groups[g]) : g \in 1 .. at - 1}
    [] OTHER -> Positions

ActiveSoFar ==
  /\ Registered(active, Placed(Activated))
  /\ open = IF pc = "returned" THEN {} ELSE CountersOf(Activated)

\* How many positions of P have a name, and how many elements of a list of names are it.
Marks(name) == [p \in Positions |-> IF line[p].name = name THEN 1 ELSE 0]
CountIn(P, name) == SumFunctionOnSet(Marks(name), P)
One(name) == [n \in STRING |-> IF n = name THEN 1 ELSE 0]
Times(name, list) == Total(One(name), list)

NamedSoFar ==
  \A name \in STRING :
    Times(name, activeEventNames) + Times(name, activeMultiEventNames) = CountIn(Activated, name)

\* How often a name is among the first n of Names, and what its lines add up to.
TimesUpTo(name, n) == SumFunctionOnSet([k \in DOMAIN Names |-> One(name)[Names[k]]], 1 .. n)
Lines == [name : STRING, value : Nat]
Shown(name) == [o \in Lines |-> IF o.name = name THEN o.value ELSE 0]

AtSoFar ==
  /\ pc = "singles" => at <= Len(singles) + 1
  /\ pc = "groups" => at <= Len(groups) + 1
  /\ pc = "print" => at <= Len(Names) + 1

RoundSoFar ==
  /\ pc \in {"parse", "resolve", "singles", "groups"} => round = 0
  /\ pc \in {"read", "print"} => round > 0
  /\ pc = "read" =>
       /\ output = <<>>
       /\ \A name \in DOMAIN active \ (unread \cup announced) : FreshList(name, active[name])
  /\ pc = "print" =>
       /\ unread = {}
       /\ \A name \in DOMAIN active \ announced :
            /\ FreshList(name, active[name])
            /\ Total(Shown(name), output) = TimesUpTo(name, at - 1) * Measured(name)
  /\ pc = "sleep" /\ round > 0 =>
       \A name \in DOMAIN active \ announced : Total(Shown(name), output) = TimesNamed(name) * Measured(name)

SoFar == ParsedSoFar /\ AtSoFar /\ ActiveSoFar /\ NamedSoFar /\ RoundSoFar

IastatInv == Typed /\ (pc # "exited" => SoFar)

-----------------------------------------------------------------------------
\* The types after a step.
LEMMA TypesStep ==
  ASSUME line \in CommandLines, UNCHANGED <<line, aggr, merge>>, aggr \in BOOLEAN, merge \in BOOLEAN,
         pc' \in {"parse", "resolve", "singles", "groups", "sleep", "read", "print", "returned", "exited"},
         at' \in Nat \ {0},
         singles' \in Seq(Positions), groups' \in Seq(Seq(Positions)), current' \in Seq(Positions),
         inGroup' \in BOOLEAN,
         MapOK(active'), activeEventNames' \in Seq(CoreEvents), activeMultiEventNames' \in Seq(UncoreEvents),
         ToSet(activeEventNames') \cup ToSet(activeMultiEventNames') \subseteq DOMAIN active',
         open' \subseteq Counters, dead' \subseteq Positions,
         round' \in Nat, Count > 0 => round' <= Count,
         unread' \subseteq DOMAIN active', announced' \subseteq DOMAIN active',
         output' \in Seq([name : DOMAIN active', value : Nat]), failures' \in 0 .. MaxFailures,
         pc' \notin {"parse", "resolve", "exited"} => Known
  PROVE  Typed'
<1>1. Positions' = Positions /\ Counters' = Counters /\ Known' = Known /\ MapOK(active)'
  BY LineStays
<1> QED
  BY <1>1 DEF Typed

\* Steps that leave most as it is.
LEMMA TypesHold ==
  ASSUME Typed, UNCHANGED <<lineVars, parseVars, activeVars, roundVars>>, at' \in Nat \ {0},
         pc' \in {"parse", "resolve", "singles", "groups", "sleep", "read", "print", "returned", "exited"},
         pc' \notin {"parse", "resolve", "exited"} => Known
  PROVE  Typed'
<1>1. line' = line
  BY DEF lineVars
<1>2. Positions' = Positions /\ Counters' = Counters /\ Known' = Known /\ (MapOK(active') => MapOK(active)')
  BY <1>1, LineStays
<1> QED
  BY <1>2 DEF Typed, lineVars, parseVars, activeVars, roundVars

LEMMA ActiveHolds ==
  ASSUME ActiveSoFar, NamedSoFar, line' = line, UNCHANGED <<active, activeEventNames, activeMultiEventNames, open>>,
         Activated' = Activated, pc' = "returned" <=> pc = "returned"
  PROVE  ActiveSoFar' /\ NamedSoFar'
<1>1. \A P : (Placed(P))' = Placed(P) /\ (CountersOf(P))' = CountersOf(P)
  BY LineStays
<1>2. Placed(Activated)' = Placed(Activated) /\ CountersOf(Activated)' = CountersOf(Activated)
  BY <1>1
<1>3. Registered(active', Placed(Activated))
  BY DEF ActiveSoFar
<1>4. Registered(active, Placed(Activated))'
  BY <1>2, <1>3, LineStays
<1>5. ActiveSoFar'
  BY <1>2, <1>4 DEF ActiveSoFar
<1>6. \A name : Marks(name)' = Marks(name)
  BY DEF Marks, Positions
<1>7. NamedSoFar'
  BY <1>6 DEF NamedSoFar, Times, CountIn
<1> QED
  BY <1>5, <1>7

LEMMA NothingNamed ==
  \A name : CountIn({}, name) = 0 /\ Times(name, <<>>) = 0
<1> TAKE name
<1>1. CountIn({}, name) = 0
  <2> DEFINE marks == Marks(name)
  <2>1. \A x \in {} : marks[x] \in Int
    OBVIOUS
  <2> HIDE DEF marks
  <2>2. SumFunctionOnSet(marks, {}) = 0
    BY <2>1, SumType, FS_EmptySet
  <2> QED
    BY <2>2 DEF CountIn, marks
<1>2. Times(name, <<>>) = 0
  <2>1. One(name) \in [STRING -> Int] /\ <<>> \in Seq(STRING)
    BY DEF One
  <2> QED
    BY <2>1, TotalType DEF Times
<1> QED
  BY <1>1, <1>2

LEMMA InitHolds ==
  ASSUME Init
  PROVE  IastatInv
<1>1. line \in CommandLines /\ active = [name \in {} |-> <<>>] /\ DOMAIN active = {}
  BY DEF Init
<1>2. MapOK(active)
  <2>1. active \in [{} -> Seq(Entry)]
    BY <1>1
  <2>2. {} \in SUBSET STRING
    OBVIOUS
  <2>3. active \in Maps
    BY <2>1, <2>2 DEF Maps
  <2> QED
    BY <1>1, <2>3 DEF MapOK
<1>3. Typed
  <2>1. MaxFailures \in Nat /\ Count \in Nat
    BY IastatAssumption
  <2>2. /\ singles \in Seq(Positions) /\ groups \in Seq(Seq(Positions)) /\ current \in Seq(Positions)
        /\ activeEventNames \in Seq(CoreEvents) /\ activeMultiEventNames \in Seq(UncoreEvents)
        /\ output \in Seq([name : DOMAIN active, value : Nat])
    BY DEF Init
  <2>3. ToSet(activeEventNames) = {} /\ ToSet(activeMultiEventNames) = {}
    BY DEF Init, ToSet
  <2>4. open = {} /\ dead = {} /\ unread = {} /\ announced = {} /\ round = 0 /\ failures = 0
    BY DEF Init
  <2>5. pc = "parse" /\ at = 1 /\ inGroup = FALSE /\ aggr \in BOOLEAN /\ merge \in BOOLEAN
    BY DEF Init
  <2>6. 0 \in Nat /\ 0 \in 0 .. MaxFailures /\ (Count > 0 => 0 <= Count) /\ 1 \in Nat \ {0}
    BY <2>1
  <2>7. ToSet(activeEventNames) \cup ToSet(activeMultiEventNames) \subseteq DOMAIN active
    BY <2>3
  <2> QED
    BY <1>1, <1>2, <2>2, <2>4, <2>5, <2>6, <2>7 DEF Typed
<1>4. Activated = {} /\ pc = "parse"
  BY DEF Init, Activated
<1>5. ActiveSoFar
  <2>1. Registered(active, {})
    BY <1>1 DEF Registered
  <2> QED
    BY <1>4, <2>1, CounterFacts DEF Init, ActiveSoFar
<1>6. NamedSoFar
  BY <1>4, NothingNamed DEF Init, NamedSoFar
<1>7. AtSoFar /\ RoundSoFar
  BY DEF Init, AtSoFar, RoundSoFar
<1> QED
  BY <1>3, <1>5, <1>6, <1>7, ParseStarts DEF IastatInv, SoFar

LEMMA ExitHolds ==
  ASSUME Typed, Exit
  PROVE  IastatInv'
<1>1. line' = line
  BY DEF Exit, lineVars
<1>2. Positions' = Positions /\ Counters' = Counters /\ (MapOK(active') => MapOK(active)')
  BY <1>1, LineStays
<1>3. Typed'
  BY <1>2 DEF Typed, Exit, lineVars, parseVars, roundVars
<1> QED
  BY <1>3 DEF IastatInv, Exit

LEMMA ParseKeepsAll ==
  ASSUME Typed, SoFar, Parse
  PROVE  IastatInv'
<1>1. /\ line' = line /\ pc = "parse" /\ pc' = "parse" /\ at \in Nat \ {0} /\ at' = at + 1
      /\ at \in Positions
  BY LineFacts DEF Parse, Typed, lineVars
<1>2. Typed'
  <2>1. /\ singles' \in Seq(Positions) /\ groups' \in Seq(Seq(Positions)) /\ current' \in Seq(Positions)
        /\ inGroup' \in BOOLEAN
    <3> DEFINE list == (IF line[at].opens THEN <<>> ELSE current) \o <<at>>
    <3>1. /\ singles \in Seq(Positions) /\ groups \in Seq(Seq(Positions)) /\ current \in Seq(Positions)
          /\ inGroup \in BOOLEAN
      BY DEF Typed
    <3>2. list \in Seq(Positions)
      BY <1>1, <3>1
    <3> HIDE DEF list
    <3>3. \/ singles' = Append(singles, at) /\ UNCHANGED <<groups, current, inGroup>>
          \/ current' = list /\ inGroup' = TRUE /\ UNCHANGED <<singles, groups>>
          \/ groups' = Append(groups, list) /\ current' = <<>> /\ inGroup' = FALSE /\ UNCHANGED singles
      BY DEF Parse, list
    <3>4. /\ Append(singles, at) \in Seq(Positions) /\ Append(groups, list) \in Seq(Seq(Positions))
          /\ <<>> \in Seq(Positions)
      BY <1>1, <3>1, <3>2, AppendProperties, EmptySeq
    <3> HIDE DEF Positions
    <3>5. CASE singles' = Append(singles, at) /\ UNCHANGED <<groups, current, inGroup>>
      BY <3>1, <3>4, <3>5
    <3>6. CASE current' = list /\ inGroup' = TRUE /\ UNCHANGED <<singles, groups>>
      BY <3>1, <3>2, <3>6
    <3>7. CASE groups' = Append(groups, list) /\ current' = <<>> /\ inGroup' = FALSE /\ UNCHANGED singles
      BY <3>1, <3>4, <3>7
    <3> QED
      BY <3>3, <3>5, <3>6, <3>7
  <2>2. UNCHANGED <<aggr, merge, activeVars, roundVars>>
    BY DEF Parse, lineVars
  <2>3. at' \in Nat \ {0}
    BY <1>1
  <2> QED
    BY <1>1, <2>1, <2>2, <2>3, TypesStep DEF Typed, activeVars, roundVars
<1>3. ParsedSoFar'
  BY ParseKeeps DEF SoFar
<1>4. ActiveSoFar' /\ NamedSoFar'
  <2>1. Activated' = Activated
    BY <1>1 DEF Activated
  <2>2. ActiveSoFar /\ NamedSoFar
    BY DEF SoFar
  <2>3. UNCHANGED <<active, activeEventNames, activeMultiEventNames, open>>
    BY DEF Parse, activeVars
  <2> QED
    BY <1>1, <2>1, <2>2, <2>3, ActiveHolds
<1>5. AtSoFar' /\ RoundSoFar'
  BY <1>1 DEF SoFar, AtSoFar, RoundSoFar, Parse, roundVars
<1> QED
  BY <1>2, <1>3, <1>4, <1>5 DEF IastatInv, SoFar
-----------------------------------------------------------------------------
\* From one phase of main to the next.
LEMMA PhaseKeeps ==
  ASSUME Typed, SoFar, UNCHANGED <<lineVars, parseVars, activeVars, roundVars>>, at' \in Nat \ {0},
         pc # "returned", pc' \in {"resolve", "singles", "groups", "sleep", "print"},
         pc' # "resolve" => Known, Activated' = Activated, AtSoFar', RoundSoFar',
         pc = "parse" => at > Len(line) /\ ~inGroup
  PROVE  IastatInv'
<1>1. line' = line /\ UNCHANGED <<line, singles, groups, current, inGroup>>
      /\ UNCHANGED <<active, activeEventNames, activeMultiEventNames, open>>
  BY DEF lineVars, parseVars, activeVars
<1>2. Typed'
  BY TypesHold
<1>3. ParsedSoFar'
  BY <1>1, ParseHolds DEF SoFar
<1>4. ActiveSoFar' /\ NamedSoFar'
  BY <1>1, ActiveHolds DEF SoFar
<1> QED
  BY <1>2, <1>3, <1>4 DEF IastatInv, SoFar

LEMMA ParsedKeeps ==
  ASSUME Typed, SoFar, Parsed
  PROVE  IastatInv'
<1>1. /\ UNCHANGED <<lineVars, parseVars, activeVars, roundVars>> /\ at' = at /\ at \in Nat \ {0}
      /\ pc = "parse" /\ pc' = "resolve" /\ at > Len(line) /\ ~inGroup
  BY DEF Parsed, Typed
<1>2. Activated' = Activated
  BY <1>1 DEF Activated
<1>3. AtSoFar' /\ RoundSoFar'
  BY <1>1 DEF SoFar, AtSoFar, RoundSoFar, roundVars
<1> QED
  BY <1>1, <1>2, <1>3, PhaseKeeps

LEMMA ResolveKeeps ==
  ASSUME Typed, SoFar, Resolve
  PROVE  IastatInv'
<1>1. /\ UNCHANGED <<lineVars, parseVars, activeVars, roundVars>> /\ at' = 1
      /\ pc = "resolve" /\ pc' = "singles" /\ Known
  BY DEF Resolve
<1>2. Activated' = Activated
  <2>1. Activated = {}
    BY <1>1 DEF Activated
  <2>2. {singles[k] : k \in 1 .. 1 - 1} = {}
    OBVIOUS
  <2>3. Activated' = {singles[k] : k \in 1 .. 1 - 1}
    BY <1>1 DEF Activated, parseVars
  <2> QED
    BY <2>1, <2>2, <2>3
<1>3. Len(singles') \in Nat
  BY <1>1 DEF Typed, parseVars
<1>4. AtSoFar' /\ RoundSoFar'
  BY <1>1, <1>3 DEF SoFar, AtSoFar, RoundSoFar, roundVars
<1> QED
  BY <1>1, <1>2, <1>4, PhaseKeeps

\* What the loops over singles and groups activate.
LEMMA ActivatedFacts ==
  ASSUME Typed, SoFar
  PROVE  /\ Activated \subseteq Positions
         /\ pc = "singles" /\ at > Len(singles) => Activated = ToSet(singles)
         /\ pc = "groups" /\ at > Len(groups) => Activated = Positions
<1>1. /\ singles \in Seq(Positions) /\ groups \in Seq(Seq(Positions)) /\ at \in Nat
      /\ Len(singles) \in Nat /\ DOMAIN singles = 1 .. Len(singles)
      /\ Len(groups) \in Nat /\ DOMAIN groups = 1 .. Len(groups)
  BY DEF Typed
<1>2. CASE pc \in {"parse", "resolve"}
  BY <1>2 DEF Activated
<1>3. CASE pc = "singles"
  <2>1. at <= Len(singles) + 1
    BY <1>3 DEF SoFar, AtSoFar
  <2>2. Activated = {singles[k] : k \in 1 .. at - 1}
    BY <1>3 DEF Activated
  <2>3. \A k \in 1 .. at - 1 : k \in 1 .. Len(singles)
    BY <1>1, <2>1
  <2>4. \A k \in 1 .. Len(singles) : singles[k] \in Positions
    BY <1>1
  <2>5. at > Len(singles) => at - 1 = Len(singles)
    BY <1>1, <2>1
  <2>6. ToSet(singles) = {singles[k] : k \in 1 .. Len(singles)}
    BY <1>1 DEF ToSet
  <2> HIDE DEF Positions
  <2> QED
    BY <1>3, <2>2, <2>3, <2>4, <2>5, <2>6
<1>4. CASE pc = "groups"
  <2>1. at <= Len(groups) + 1
    BY <1>4 DEF SoFar, AtSoFar
  <2>2. Activated = ToSet(singles) \cup UNION {ToSet(groups[g]) : g \in 1 .. at - 1}
    BY <1>4 DEF Activated
  <2>3. Positions = ToSet(singles) \cup UNION {ToSet(groups[g]) : g \in 1 .. Len(groups)}
    BY <1>4, PositionsOnce DEF SoFar
  <2>4. \A g \in 1 .. at - 1 : g \in 1 .. Len(groups)
    BY <1>1, <2>1
  <2>5. at > Len(groups) => at - 1 = Len(groups)
    BY <1>1, <2>1
  <2> HIDE DEF Positions
  <2>6. Activated \subseteq Positions
    BY <2>2, <2>3, <2>4
  <2> QED
    BY <1>4, <2>2, <2>3, <2>5, <2>6
<1>5. CASE pc \notin {"parse", "resolve", "singles", "groups"}
  BY <1>5 DEF Activated
<1> QED
  BY <1>2, <1>3, <1>4, <1>5

LEMMA SinglesDoneKeeps ==
  ASSUME Typed, SoFar, SinglesDone
  PROVE  IastatInv'
<1>1. /\ UNCHANGED <<lineVars, parseVars, activeVars, roundVars>> /\ at' = 1
      /\ pc = "singles" /\ pc' = "groups" /\ at > Len(singles)
  BY DEF SinglesDone
<1>2. Activated' = Activated
  <2>1. Activated = ToSet(singles)
    BY <1>1, ActivatedFacts
  <2>2. UNION {ToSet(groups[g]) : g \in 1 .. 1 - 1} = {}
    OBVIOUS
  <2>3. Activated' = ToSet(singles) \cup UNION {ToSet(groups[g]) : g \in 1 .. 1 - 1}
    BY <1>1 DEF Activated, parseVars
  <2> QED
    BY <2>1, <2>2, <2>3
<1>3. Len(groups') \in Nat /\ Known
  BY <1>1 DEF Typed, parseVars
<1>4. AtSoFar' /\ RoundSoFar'
  BY <1>1, <1>3 DEF SoFar, AtSoFar, RoundSoFar, roundVars
<1> QED
  BY <1>1, <1>2, <1>3, <1>4, PhaseKeeps

LEMMA GroupsDoneKeeps ==
  ASSUME Typed, SoFar, GroupsDone
  PROVE  IastatInv'
<1>1. /\ UNCHANGED <<lineVars, parseVars, activeVars, roundVars>> /\ at' = at /\ at \in Nat \ {0}
      /\ pc = "groups" /\ pc' = "sleep" /\ at > Len(groups)
  BY DEF GroupsDone, Typed
<1>2. Activated' = Activated
  <2>1. Activated = Positions
    BY <1>1, ActivatedFacts
  <2>2. Activated' = Positions
    BY <1>1 DEF Activated, Positions, lineVars
  <2> QED
    BY <2>1, <2>2
<1>3. round' = 0 /\ Known
  BY <1>1 DEF SoFar, RoundSoFar, roundVars, Typed
<1>4. AtSoFar' /\ RoundSoFar'
  BY <1>1, <1>3 DEF AtSoFar, RoundSoFar
<1> QED
  BY <1>1, <1>2, <1>3, <1>4, PhaseKeeps
-----------------------------------------------------------------------------
LEMMA NamesTyped ==
  ASSUME Typed
  PROVE  /\ DOMAIN active \subseteq STRING
         /\ activeEventNames \in Seq(STRING) /\ activeMultiEventNames \in Seq(STRING) /\ Names \in Seq(STRING)
         /\ ToSet(Names) \subseteq DOMAIN active
<1>1. DOMAIN active \subseteq STRING
  BY DEF Typed, MapOK, Maps
<1>2. ToSet(activeEventNames) \subseteq DOMAIN active /\ ToSet(activeMultiEventNames) \subseteq DOMAIN active
  BY DEF Typed
<1>3. activeEventNames \in Seq(DOMAIN active) /\ activeMultiEventNames \in Seq(DOMAIN active)
  BY <1>2, SmallerElements DEF Typed
<1>4. Names \in Seq(DOMAIN active)
  BY <1>3 DEF Names
<1>5. activeEventNames \in Seq(STRING) /\ activeMultiEventNames \in Seq(STRING) /\ Names \in Seq(STRING)
  BY <1>1, <1>3, <1>4
<1>6. \A i \in DOMAIN Names : Names[i] \in DOMAIN active
  BY <1>4, SequenceDomain
<1>7. ToSet(Names) \subseteq DOMAIN active
  BY <1>6 DEF ToSet
<1> QED
  BY <1>1, <1>5, <1>7

LEMMA TimesFacts ==
  ASSUME NEW name, NEW list \in Seq(STRING), NEW more \in Seq(STRING)
  PROVE  /\ Times(name, list) \in Int /\ Times(name, more) \in Int
         /\ Times(name, list \o more) = Times(name, list) + Times(name, more)
<1>1. One(name) \in [STRING -> Int]
  BY DEF One
<1> QED
  BY <1>1, TotalType, TotalOfBoth DEF Times

LEMMA TimesOfOne ==
  ASSUME NEW name, NEW n \in STRING
  PROVE  Times(name, <<n>>) = IF n = name THEN 1 ELSE 0
<1>1. One(name) \in [STRING -> Int] /\ One(name)[n] = IF n = name THEN 1 ELSE 0
  BY DEF One
<1>2. Times(name, <<n>>) = One(name)[n]
  BY <1>1, TotalOfOne DEF Times
<1> QED
  BY <1>1, <1>2

LEMMA CountFacts ==
  ASSUME line \in CommandLines, NEW name, NEW P \in SUBSET Positions, NEW Q \in SUBSET Positions
  PROVE  /\ IsFiniteSet(P) /\ CountIn(P, name) \in Int /\ CountIn(Q, name) \in Int
         /\ P \cap Q = {} => CountIn(P \cup Q, name) = CountIn(P, name) + CountIn(Q, name)
<1>1. IsFiniteSet(Positions)
  BY LineFacts, SequenceDomain DEF Positions
<1>2. IsFiniteSet(P) /\ IsFiniteSet(Q)
  BY <1>1, FS_Subset
<1>3. \A p \in Positions : Marks(name)[p] \in Int
  BY DEF Marks
<1> HIDE DEF Positions
<1>4. CountIn(P, name) \in Int /\ CountIn(Q, name) \in Int
  BY <1>2, <1>3, SumType DEF CountIn
<1>5. ASSUME P \cap Q = {}
      PROVE  CountIn(P \cup Q, name) = CountIn(P, name) + CountIn(Q, name)
  <2>1. \A p \in P \cup Q : Marks(name)[p] \in Int
    BY <1>3
  <2> QED
    BY <1>2, <1>5, <2>1, SumOfBoth DEF CountIn
<1> QED
  BY <1>2, <1>4, <1>5

LEMMA CountOfOne ==
  ASSUME line \in CommandLines, NEW name, NEW p \in Positions
  PROVE  CountIn({p}, name) = IF line[p].name = name THEN 1 ELSE 0
<1> DEFINE marks == Marks(name)
<1>1. marks[p] = (IF line[p].name = name THEN 1 ELSE 0) /\ marks[p] \in Int
  BY DEF Marks
<1> HIDE DEF marks
<1>2. IsFiniteSet({}) /\ {} \cup {p} = {p} /\ p \notin {}
  BY FS_EmptySet
<1>3. \A y \in {} \cup {p} : marks[y] \in Int
  BY <1>1
<1>4. SumFunctionOnSet(marks, {} \cup {p}) = marks[p] + SumFunctionOnSet(marks, {})
  BY <1>2, <1>3, SumAdds
<1>5. SumFunctionOnSet(marks, {}) = 0
  BY <1>2, SumType
<1> QED
  BY <1>1, <1>2, <1>4, <1>5 DEF CountIn, marks

\* The events at the positions in Q become active.
LEMMA ActivatesMore ==
  ASSUME Typed, SoFar, UNCHANGED <<lineVars, pc, parseVars, roundVars>>, at' = at + 1,
         pc \in {"singles", "groups"}, AtSoFar',
         NEW Q \in SUBSET Positions, Activated' = Activated \cup Q,
         MapOK(active'), Registered(active', Placed(Activated \cup Q)), DOMAIN active \subseteq DOMAIN active',
         OpenCounters(Q),
         activeEventNames' \in Seq(CoreEvents), activeMultiEventNames' \in Seq(UncoreEvents),
         ToSet(activeEventNames') \cup ToSet(activeMultiEventNames') \subseteq DOMAIN active',
         \A name \in STRING : Times(name, activeEventNames') + Times(name, activeMultiEventNames')
                                = CountIn(Activated \cup Q, name)
  PROVE  IastatInv'
<1>1. /\ line' = line /\ line \in CommandLines /\ pc' = pc /\ at \in Nat /\ at' \in Nat \ {0} /\ Known
      /\ Activated \subseteq Positions
  BY ActivatedFacts DEF Typed, lineVars
<1>2. \A P : (Placed(P))' = Placed(P) /\ (CountersOf(P))' = CountersOf(P)
  BY <1>1, LineStays
<1>3. open' = open \cup CountersOf(Q) /\ dead' \subseteq Positions
  <2>1. open' = open \cup CountersOf(Q)
    BY CounterFacts
  <2>2. dead \subseteq Positions
    BY DEF Typed
  <2>3. PICK lost \in SUBSET {p \in Q : line[p].pinned} : dead' = dead \cup lost
    BY DEF OpenCounters
  <2> HIDE DEF Positions
  <2> QED
    BY <2>1, <2>2, <2>3
<1>4. open = CountersOf(Activated)
  BY <1>1 DEF SoFar, ActiveSoFar
<1>5. open' = CountersOf(Activated \cup Q)
  BY <1>3, <1>4, CounterFacts
<1>6. open' \subseteq Counters
  <2>1. (Activated \cup Q) \cup Positions = Positions
    BY <1>1
  <2> HIDE DEF Positions
  <2>2. CountersOf(Activated \cup Q) \cup CountersOf(Positions) = CountersOf(Positions)
    BY <2>1, CounterFacts
  <2> QED
    BY <1>5, <2>2, CounterFacts
<1>7. Typed'
  <2>1. output' \in Seq([name : DOMAIN active', value : Nat])
    <3>1. output' = output /\ output \in Seq([name : DOMAIN active, value : Nat])
      BY DEF Typed, roundVars
    <3>2. [name : DOMAIN active, value : Nat] \subseteq [name : DOMAIN active', value : Nat]
      OBVIOUS
    <3> DEFINE X == [name : DOMAIN active, value : Nat]
               Y == [name : DOMAIN active', value : Nat]
    <3> HIDE DEF X, Y
    <3>3. ToSet(output) \subseteq Y
      <4>1. \A i \in DOMAIN output : output[i] \in X
        BY <3>1, SequenceDomain DEF X
      <4> QED
        BY <3>2, <4>1 DEF ToSet, X, Y
    <3> QED
      BY <3>1, <3>3, SmallerElements DEF Y
  <2>2. /\ aggr \in BOOLEAN /\ merge \in BOOLEAN /\ UNCHANGED <<aggr, merge, parseVars>>
        /\ singles \in Seq(Positions) /\ groups \in Seq(Seq(Positions)) /\ current \in Seq(Positions)
        /\ inGroup \in BOOLEAN
    BY DEF Typed, lineVars
  <2>3. /\ round' \in Nat /\ (Count > 0 => round' <= Count) /\ failures' \in 0 .. MaxFailures
        /\ unread' \subseteq DOMAIN active' /\ announced' \subseteq DOMAIN active'
    BY DEF Typed, roundVars
  <2> HIDE DEF Positions
  <2> QED
    BY <1>1, <1>3, <1>6, <2>1, <2>2, <2>3, TypesStep DEF parseVars
<1>8. ParsedSoFar'
  <2>1. ParsedSoFar /\ UNCHANGED <<line, singles, groups, current, inGroup>>
    BY DEF SoFar, lineVars, parseVars
  <2> QED
    BY <1>1, <2>1, ParseHolds
<1>9. ActiveSoFar'
  <2>1. (Placed(Activated))' = Placed(Activated \cup Q) /\ (CountersOf(Activated))' = CountersOf(Activated \cup Q)
    BY <1>2
  <2> DEFINE D == Placed(Activated \cup Q)
  <2> HIDE DEF D
  <2>2. Registered(active, D)'
    BY <1>1, LineStays DEF D
  <2> QED
    BY <1>1, <1>5, <2>1, <2>2 DEF ActiveSoFar, D
<1>10. NamedSoFar'
  <2>1. \A name : Marks(name)' = Marks(name)
    BY <1>1 DEF Marks, Positions
  <2> QED
    BY <2>1 DEF NamedSoFar, Times, CountIn
<1>11. RoundSoFar'
  BY <1>1 DEF SoFar, RoundSoFar, roundVars
<1> QED
  BY <1>7, <1>8, <1>9, <1>10, <1>11 DEF IastatInv, SoFar
-----------------------------------------------------------------------------
LEMMA AppendedElements ==
  ASSUME NEW V, NEW list \in Seq(V), NEW more \in Seq(V)
  PROVE  ToSet(list \o more) = ToSet(list) \cup ToSet(more)
<1> DEFINE m == Len(list)
           l == Len(more)
           both == list \o more
<1>1. /\ m \in Nat /\ l \in Nat /\ DOMAIN list = 1 .. m /\ DOMAIN more = 1 .. l /\ DOMAIN both = 1 .. m + l
      /\ \A k \in 1 .. m : both[k] = list[k]
      /\ \A k \in 1 .. l : both[m + k] = more[k]
  OBVIOUS
<1> HIDE DEF both, m, l
<1>2. ToSet(both) = {both[k] : k \in 1 .. m + l}
      /\ ToSet(list) = {list[k] : k \in 1 .. m} /\ ToSet(more) = {more[k] : k \in 1 .. l}
  BY <1>1 DEF ToSet
<1>3. \A k \in 1 .. m + l : k \in 1 .. m \/ (k - m \in 1 .. l /\ k = m + (k - m))
  BY <1>1
<1>4. (\A k \in 1 .. m : k \in 1 .. m + l) /\ (\A k \in 1 .. l : m + k \in 1 .. m + l)
  BY <1>1
<1>5. ToSet(both) \subseteq ToSet(list) \cup ToSet(more)
  <2> SUFFICES ASSUME NEW k \in 1 .. m + l
               PROVE  both[k] \in ToSet(list) \cup ToSet(more)
    BY <1>2
  <2>1. CASE k \in 1 .. m
    BY <1>1, <1>2, <2>1
  <2>2. CASE k - m \in 1 .. l /\ k = m + (k - m)
    <3>1. both[k] = more[k - m]
      BY <1>1, <2>2
    <3> QED
      BY <1>2, <2>2, <3>1
  <2> QED
    BY <1>3, <2>1, <2>2
<1>6. ToSet(list) \cup ToSet(more) \subseteq ToSet(both)
  BY <1>1, <1>2, <1>4
<1> QED
  BY <1>5, <1>6 DEF both

LEMMA OneElement ==
  ASSUME NEW V, NEW v \in V
  PROVE  <<v>> \in Seq(V) /\ ToSet(<<v>>) = {v}
<1>1. <<v>> \in Seq(V) /\ DOMAIN <<v>> = {1} /\ <<v>>[1] = v
  OBVIOUS
<1> QED
  BY <1>1 DEF ToSet

LEMMA ActivateSingleKeeps ==
  ASSUME Typed, SoFar, ActivateSingle
  PROVE  IastatInv'
<1> DEFINE p == singles[at]
           name == line[p].name
           A == Activated
<1>1. /\ pc = "singles" /\ pc' = pc /\ at \in 1 .. Len(singles) /\ at' = at + 1 /\ at \in Nat
      /\ line \in CommandLines /\ Known
      /\ UNCHANGED <<lineVars, parseVars, roundVars>>
      /\ singles \in Seq(Positions) /\ Len(singles) \in Nat /\ DOMAIN singles = 1 .. Len(singles)
  BY DEF ActivateSingle, Typed
<1>2. p \in Positions
  BY <1>1
<1>3. A = {singles[k] : k \in 1 .. at - 1} /\ A \subseteq Positions
  BY <1>1, ActivatedFacts DEF Activated
<1>4. p \notin A
  <2>1. \A i, j \in DOMAIN singles : singles[i] = singles[j] => i = j
    BY <1>1, PositionsOnce DEF SoFar
  <2>2. \A k \in 1 .. at - 1 : k \in DOMAIN singles /\ k # at
    BY <1>1
  <2>3. at \in DOMAIN singles
    BY <1>1
  <2> QED
    BY <1>3, <2>1, <2>2, <2>3
<1>5. Activated' = A \cup {p}
  <2>1. Activated' = {singles[k] : k \in 1 .. (at + 1) - 1}
    BY <1>1 DEF Activated, parseVars
  <2>2. 1 .. (at + 1) - 1 = (1 .. at - 1) \cup {at}
    BY <1>1
  <2> QED
    BY <1>3, <2>1, <2>2
<1>6. active' = Add(active, name, ActivateEvent(p)) /\ OpenCounters({p})
  BY DEF ActivateSingle
<1>7. MapOK(active) /\ Registered(active, Placed(A))
  BY DEF Typed, SoFar, ActiveSoFar
<1> HIDE DEF p, A
<1>8. /\ MapOK(active') /\ Registered(active', Placed(A \cup {p}))
      /\ DOMAIN active' = DOMAIN active \cup {name}
  BY <1>1, <1>2, <1>3, <1>4, <1>6, <1>7, EventRegisters
<1>9. name \in STRING /\ name \in CoreEvents \cup UncoreEvents
  BY <1>1, <1>2, LineFacts DEF Known, Token
<1>10. /\ activeEventNames \in Seq(STRING) /\ activeMultiEventNames \in Seq(STRING)
       /\ activeEventNames \in Seq(CoreEvents) /\ activeMultiEventNames \in Seq(UncoreEvents)
       /\ ToSet(activeEventNames) \cup ToSet(activeMultiEventNames) \subseteq DOMAIN active
  BY NamesTyped DEF Typed
<1>11. \/ /\ name \in UncoreEvents /\ activeEventNames' = activeEventNames
          /\ activeMultiEventNames' = activeMultiEventNames \o <<name>>
       \/ /\ name \in CoreEvents /\ activeMultiEventNames' = activeMultiEventNames
          /\ activeEventNames' = activeEventNames \o <<name>>
  <2>1. /\ activeMultiEventNames \o <<name>> = Append(activeMultiEventNames, name)
        /\ activeEventNames \o <<name>> = Append(activeEventNames, name)
    BY <1>9, <1>10
  <2>2. IF name \in UncoreEvents
        THEN /\ activeMultiEventNames' = Append(activeMultiEventNames, name)
             /\ activeEventNames' = activeEventNames
        ELSE /\ activeEventNames' = Append(activeEventNames, name)
             /\ activeMultiEventNames' = activeMultiEventNames
    BY DEF ActivateSingle, p
  <2> HIDE DEF name
  <2> QED
    BY <1>9, <2>1, <2>2
<1> HIDE DEF name
<1>12. <<name>> \in Seq(STRING) /\ (name \in UncoreEvents => <<name>> \in Seq(UncoreEvents))
       /\ (name \in CoreEvents => <<name>> \in Seq(CoreEvents)) /\ ToSet(<<name>>) = {name}
  BY <1>9, OneElement
<1>13. activeEventNames' \in Seq(CoreEvents) /\ activeMultiEventNames' \in Seq(UncoreEvents)
  BY <1>10, <1>11, <1>12, ConcatProperties
<1>14. ToSet(activeEventNames') \cup ToSet(activeMultiEventNames') \subseteq DOMAIN active'
  <2> DEFINE one == <<name>>
  <2>2. one \in Seq(STRING) /\ ToSet(one) = {name}
    BY <1>12
  <2> HIDE DEF one
  <2>3. /\ ToSet(activeEventNames \o one) = ToSet(activeEventNames) \cup ToSet(one)
        /\ ToSet(activeMultiEventNames \o one) = ToSet(activeMultiEventNames) \cup ToSet(one)
    BY <1>10, <2>2, AppendedElements
  <2>1. /\ ToSet(activeEventNames \o <<name>>) = ToSet(activeEventNames) \cup {name}
        /\ ToSet(activeMultiEventNames \o <<name>>) = ToSet(activeMultiEventNames) \cup {name}
    BY <2>2, <2>3 DEF one
  <2> QED
    BY <1>8, <1>10, <1>11, <2>1
<1>15. \A n \in STRING : Times(n, activeEventNames') + Times(n, activeMultiEventNames') = CountIn(A \cup {p}, n)
  <2> TAKE n \in STRING
  <2> DEFINE one == IF name = n THEN 1 ELSE 0
  <2>1. /\ Times(n, activeEventNames \o <<name>>) = Times(n, activeEventNames) + one
        /\ Times(n, activeMultiEventNames \o <<name>>) = Times(n, activeMultiEventNames) + one
        /\ Times(n, activeEventNames) \in Int /\ Times(n, activeMultiEventNames) \in Int
    <3>1. Times(n, <<name>>) = one
      BY <1>9, TimesOfOne
    <3> DEFINE list == <<name>>
    <3>2. list \in Seq(STRING)
      BY <1>12
    <3> HIDE DEF list, one
    <3>3. /\ Times(n, activeEventNames \o list) = Times(n, activeEventNames) + Times(n, list)
          /\ Times(n, activeEventNames) \in Int
      BY <1>10, <3>2, TimesFacts
    <3>4. /\ Times(n, activeMultiEventNames \o list) = Times(n, activeMultiEventNames) + Times(n, list)
          /\ Times(n, activeMultiEventNames) \in Int
      BY <1>10, <3>2, TimesFacts
    <3> QED
      BY <3>1, <3>3, <3>4 DEF list
  <2>2. CountIn(A \cup {p}, n) = CountIn(A, n) + one /\ CountIn(A, n) \in Int
    <3>1. CountIn({p}, n) = one
      BY <1>1, <1>2, CountOfOne DEF name
    <3>2. {p} \in SUBSET Positions /\ A \cap {p} = {}
      BY <1>2, <1>4
    <3> QED
      BY <1>1, <1>3, <3>1, <3>2, CountFacts
  <2>3. Times(n, activeEventNames) + Times(n, activeMultiEventNames) = CountIn(A, n)
    BY DEF SoFar, NamedSoFar, A
  <2>4. one \in Int
    OBVIOUS
  <2> HIDE DEF one
  <2>5. CASE /\ activeEventNames' = activeEventNames
             /\ activeMultiEventNames' = activeMultiEventNames \o <<name>>
    <3>1. /\ Times(n, activeEventNames') = Times(n, activeEventNames)
          /\ Times(n, activeMultiEventNames') = Times(n, activeMultiEventNames) + one
      BY <2>1, <2>5
    <3> DEFINE a == Times(n, activeEventNames)
               b == Times(n, activeMultiEventNames)
               c == CountIn(A, n)
    <3>2. a \in Int /\ b \in Int /\ a + b = c /\ c \in Int
      BY <2>1, <2>2, <2>3
    <3>3. CountIn(A \cup {p}, n) = c + one
      BY <2>2
    <3>4. Times(n, activeEventNames') + Times(n, activeMultiEventNames') = a + (b + one)
      BY <3>1
    <3> HIDE DEF a, b, c
    <3>5. a + (b + one) = c + one
      BY <2>4, <3>2
    <3> QED
      BY <3>3, <3>4, <3>5
  <2>6. CASE /\ activeMultiEventNames' = activeMultiEventNames
             /\ activeEventNames' = activeEventNames \o <<name>>
    <3>1. /\ Times(n, activeEventNames') = Times(n, activeEventNames) + one
          /\ Times(n, activeMultiEventNames') = Times(n, activeMultiEventNames)
      BY <2>1, <2>6
    <3> DEFINE a == Times(n, activeEventNames)
               b == Times(n, activeMultiEventNames)
               c == CountIn(A, n)
    <3>2. a \in Int /\ b \in Int /\ a + b = c /\ c \in Int
      BY <2>1, <2>2, <2>3
    <3>3. CountIn(A \cup {p}, n) = c + one
      BY <2>2
    <3>4. Times(n, activeEventNames') + Times(n, activeMultiEventNames') = (a + one) + b
      BY <3>1
    <3> HIDE DEF a, b, c
    <3>5. (a + one) + b = c + one
      BY <2>4, <3>2
    <3> QED
      BY <3>3, <3>4, <3>5
  <2> QED
    BY <1>11, <2>5, <2>6
<1>16. AtSoFar'
  BY <1>1 DEF AtSoFar, parseVars
<1>17. {p} \in SUBSET Positions /\ DOMAIN active \subseteq DOMAIN active'
  BY <1>2, <1>8
<1>18. A = Activated
  BY DEF A
<1> QED
  BY <1>1, <1>5, <1>6, <1>8, <1>13, <1>14, <1>15, <1>16, <1>17, <1>18, ActivatesMore
-----------------------------------------------------------------------------
\* The names that activateGroup appends.
GroupNames(group) == [k \in DOMAIN group |-> line[group[k]].name]

LEMMA GroupNamesFacts ==
  ASSUME line \in CommandLines, NEW group, CoreGroup(group)
  PROVE  /\ GroupNames(group) \in Seq(CoreEvents) /\ GroupNames(group) \in Seq(STRING)
         /\ ToSet(GroupNames(group)) = {line[p].name : p \in ToSet(group)}
         /\ ToSet(group) \subseteq Positions
         /\ \A name : Times(name, GroupNames(group)) = CountIn(ToSet(group), name)
<1> DEFINE names == GroupNames(group)
           K == DOMAIN group
           G == ToSet(group)
<1>1. /\ \A i, j \in K : group[i] = group[j] => i = j
      /\ \A k \in K : line[group[k]].name \in CoreEvents /\ group[k] \in Positions
      /\ Len(group) \in Nat /\ K = 1 .. Len(group) /\ IsFiniteSet(K)
  BY SequenceDomain DEF CoreGroup
<1>2. \A k \in K : line[group[k]].name \in STRING
  BY <1>1, LineFacts DEF Token
<1>3. G = {group[k] : k \in K}
  BY <1>1 DEF ToSet
<1>4. names = [k \in K |-> line[group[k]].name]
  BY DEF GroupNames
<1> HIDE DEF names, K, G
<1>5. names \in Seq(CoreEvents) /\ names \in Seq(STRING) /\ DOMAIN names = K
  <2>1. names \in [1 .. Len(group) -> CoreEvents] /\ names \in [1 .. Len(group) -> STRING]
    BY <1>1, <1>2, <1>4
  <2> QED
    BY <1>1, <1>4, <2>1
<1>6. ToSet(names) = {line[p].name : p \in G}
  BY <1>3, <1>4, <1>5 DEF ToSet
<1>7. G \subseteq Positions
  BY <1>1, <1>3
<1>8. ASSUME NEW name
      PROVE  Times(name, names) = CountIn(G, name)
  <2> DEFINE f == [i \in K |-> One(name)[names[i]]]
             g == Marks(name)
             h == [k \in K |-> group[k]]
  <2>1. Times(name, names) = SumFunctionOnSet(f, K)
    BY <1>5 DEF Times, Total
  <2>2. h \in [K -> G] /\ (\A x, y \in K : h[x] = h[y] => x = y) /\ (\A z \in G : \E x \in K : h[x] = z)
    BY <1>1, <1>3
  <2>3. \A x \in K : f[x] \in Int /\ g[h[x]] = f[x]
    <3> TAKE x \in K
    <3>1. f[x] = IF line[group[x]].name = name THEN 1 ELSE 0
      BY <1>2, <1>4 DEF One
    <3>2. g[h[x]] = IF line[group[x]].name = name THEN 1 ELSE 0
      BY <1>1 DEF Marks
    <3> QED
      BY <3>1, <3>2
  <2> HIDE DEF f, g, h
  <2>4. SumFunctionOnSet(f, K) = SumFunctionOnSet(g, G)
    BY <1>1, <2>2, <2>3, SumReindexed
  <2> QED
    BY <2>1, <2>4 DEF CountIn, g
<1> QED
  BY <1>5, <1>6, <1>7, <1>8 DEF names, G

LEMMA ActivateGroupKeeps ==
  ASSUME Typed, SoFar, ActivateGroup
  PROVE  IastatInv'
<1> DEFINE group == groups[at]
           G == ToSet(group)
           A == Activated
           names == GroupNames(group)
<1>1. /\ pc = "groups" /\ pc' = pc /\ at \in 1 .. Len(groups) /\ at' = at + 1 /\ at \in Nat
      /\ line \in CommandLines /\ Known
      /\ UNCHANGED <<lineVars, parseVars, roundVars>>
      /\ Len(groups) \in Nat /\ DOMAIN groups = 1 .. Len(groups)
  BY DEF ActivateGroup, Typed
<1>2. A = ToSet(singles) \cup UNION {ToSet(groups[g]) : g \in 1 .. at - 1} /\ A \subseteq Positions
  BY <1>1, ActivatedFacts DEF Activated
<1>3. /\ groups[at] \in Seq(Positions)
      /\ \A i, j \in DOMAIN groups[at] : groups[at][i] = groups[at][j] => i = j
      /\ ToSet(groups[at]) \cap ToSet(singles) = {}
      /\ \A h \in DOMAIN groups : h # at => ToSet(groups[at]) \cap ToSet(groups[h]) = {}
  BY <1>1, PositionsOnce DEF SoFar
<1>4. G \cap A = {}
  <2>1. \A g \in 1 .. at - 1 : g \in DOMAIN groups /\ g # at
    BY <1>1
  <2> QED
    BY <1>2, <1>3, <2>1
<1>5. Activated' = A \cup G
  <2>1. Activated' = ToSet(singles) \cup UNION {ToSet(groups[g]) : g \in 1 .. (at + 1) - 1}
    BY <1>1 DEF Activated, parseVars
  <2>2. 1 .. (at + 1) - 1 = (1 .. at - 1) \cup {at}
    BY <1>1
  <2> HIDE DEF A
  <2> QED
    BY <1>2, <2>1, <2>2
<1>6. active' = AddGroup(active, group) /\ OpenCounters(G)
      /\ activeEventNames' = activeEventNames \o names /\ activeMultiEventNames' = activeMultiEventNames
  BY DEF ActivateGroup, GroupNames
<1>7. CoreGroup(group)
  <2>1. \A p \in G : line[p].name \notin UncoreEvents
    BY DEF ActivateGroup
  <2>2. \A k \in DOMAIN group : group[k] \in Positions /\ group[k] \in G
    BY <1>3, SequenceDomain DEF ToSet
  <2> HIDE DEF G, Positions
  <2> QED
    BY <1>1, <1>3, <2>1, <2>2 DEF CoreGroup, Known
<1>8. MapOK(active) /\ Registered(active, Placed(A))
  BY DEF Typed, SoFar, ActiveSoFar
<1>9. /\ names \in Seq(CoreEvents) /\ names \in Seq(STRING)
      /\ ToSet(names) = {line[p].name : p \in G} /\ G \subseteq Positions
      /\ \A name : Times(name, names) = CountIn(G, name)
  BY <1>1, <1>7, GroupNamesFacts
<1> HIDE DEF A, group, names
<1>10. /\ MapOK(active') /\ Registered(active', Placed(A \cup G))
       /\ DOMAIN active' = DOMAIN active \cup {line[p].name : p \in G}
  BY <1>1, <1>2, <1>4, <1>6, <1>7, <1>8, GroupRegisters
<1> HIDE DEF G
<1>11. /\ activeEventNames \in Seq(STRING) /\ activeMultiEventNames \in Seq(STRING)
       /\ activeEventNames \in Seq(CoreEvents) /\ activeMultiEventNames \in Seq(UncoreEvents)
       /\ ToSet(activeEventNames) \cup ToSet(activeMultiEventNames) \subseteq DOMAIN active
  BY NamesTyped DEF Typed
<1>12. activeEventNames' \in Seq(CoreEvents) /\ activeMultiEventNames' \in Seq(UncoreEvents)
  BY <1>6, <1>9, <1>11, ConcatProperties
<1>13. ToSet(activeEventNames') \cup ToSet(activeMultiEventNames') \subseteq DOMAIN active'
  <2>1. ToSet(activeEventNames') = ToSet(activeEventNames) \cup ToSet(names)
    BY <1>6, <1>9, <1>11, AppendedElements
  <2> QED
    BY <1>6, <1>9, <1>10, <1>11, <2>1
<1>14. \A n \in STRING : Times(n, activeEventNames') + Times(n, activeMultiEventNames') = CountIn(A \cup G, n)
  <2> TAKE n \in STRING
  <2> DEFINE a == Times(n, activeEventNames)
             b == Times(n, activeMultiEventNames)
             c == CountIn(A, n)
             d == CountIn(G, n)
  <2>1. a \in Int /\ Times(n, activeEventNames') = a + Times(n, names)
    BY <1>6, <1>9, <1>11, TimesFacts
  <2>2. b \in Int /\ Times(n, activeMultiEventNames') = b
    BY <1>6, <1>11, TimesFacts
  <2>3. CountIn(A \cup G, n) = c + d /\ c \in Int /\ d \in Int
    BY <1>1, <1>2, <1>4, <1>9, CountFacts
  <2>4. a + b = c
    BY DEF SoFar, NamedSoFar, A
  <2>5. Times(n, names) = d
    BY <1>9
  <2>6. Times(n, activeEventNames') + Times(n, activeMultiEventNames') = (a + d) + b
    BY <2>1, <2>2, <2>5
  <2> HIDE DEF a, b, c, d
  <2>7. (a + d) + b = c + d
    BY <2>1, <2>2, <2>3, <2>4
  <2> QED
    BY <2>3, <2>6, <2>7
<1>15. AtSoFar'
  BY <1>1 DEF AtSoFar, parseVars
<1>16. G \in SUBSET Positions /\ DOMAIN active \subseteq DOMAIN active' /\ A = Activated
  BY <1>9, <1>10 DEF A
<1> QED
  BY <1>1, <1>5, <1>6, <1>10, <1>12, <1>13, <1>14, <1>15, <1>16, ActivatesMore
-----------------------------------------------------------------------------
\* What is read and what is printed stays what it is worth.
LEMMA RoundStays ==
  ASSUME UNCHANGED <<line, dead, round, open, activeEventNames, activeMultiEventNames>>
  PROVE  /\ \A name : Measured(name)' = Measured(name) /\ TimesNamed(name)' = TimesNamed(name)
         /\ \A name, n : TimesUpTo(name, n)' = TimesUpTo(name, n)
         /\ Names' = Names
         /\ \A name : FreshList(name, active'[name]) => FreshList(name, active[name])'
<1>1. \A name : Measured(name)' = Measured(name)
  BY DEF Measured
<1>2. \A name : TimesNamed(name)' = TimesNamed(name)
  BY DEF TimesNamed, Positions
<1>3. Names' = Names
  BY DEF Names
<1>4. \A name, n : TimesUpTo(name, n)' = TimesUpTo(name, n)
  BY <1>3 DEF TimesUpTo
<1>5. \A e : ReadActiveEventValues(e)' = ReadActiveEventValues(e)
  BY DEF ReadActiveEventValues
<1>6. ASSUME NEW name, FreshList(name, active'[name])
      PROVE  FreshList(name, active[name])'
  BY <1>6 DEF FreshList, ReadActiveEventValues, Width
<1> QED
  BY <1>1, <1>2, <1>3, <1>4, <1>6

\* A step of the rounds.
LEMMA RoundKeeps ==
  ASSUME Typed, SoFar, UNCHANGED <<lineVars, parseVars, activeEventNames, activeMultiEventNames, open, dead>>,
         pc \in {"sleep", "read", "print"}, pc' \in {"sleep", "read", "print"}, at' \in Nat \ {0},
         MapOK(active'), DOMAIN active' = DOMAIN active, Registered(active', Placed(Positions)),
         round' \in Nat, Count > 0 => round' <= Count, unread' \subseteq DOMAIN active,
         announced' \subseteq DOMAIN active, failures' \in 0 .. MaxFailures,
         output' \in Seq([name : DOMAIN active, value : Nat]),
         AtSoFar', RoundSoFar'
  PROVE  IastatInv'
<1>1. /\ line' = line /\ line \in CommandLines /\ Known
      /\ UNCHANGED <<line, singles, groups, current, inGroup>>
  BY DEF Typed, lineVars, parseVars
<1>2. Typed'
  <2>1. /\ aggr \in BOOLEAN /\ merge \in BOOLEAN /\ UNCHANGED <<aggr, merge, parseVars>>
        /\ singles \in Seq(Positions) /\ groups \in Seq(Seq(Positions)) /\ current \in Seq(Positions)
        /\ inGroup \in BOOLEAN
    BY DEF Typed, lineVars
  <2>2. /\ activeEventNames \in Seq(CoreEvents) /\ activeMultiEventNames \in Seq(UncoreEvents)
        /\ ToSet(activeEventNames) \cup ToSet(activeMultiEventNames) \subseteq DOMAIN active
        /\ open \subseteq Counters /\ dead \subseteq Positions
    BY DEF Typed
  <2> QED
    BY <1>1, <2>1, <2>2, TypesStep DEF parseVars
<1>3. ParsedSoFar'
  BY <1>1, ParseHolds DEF SoFar
<1>4. Activated = Positions /\ Activated' = Positions
  BY <1>1 DEF Activated, Positions
<1>5. ActiveSoFar'
  <2>1. Placed(Activated)' = Placed(Activated) /\ (CountersOf(Activated))' = CountersOf(Positions)
    BY <1>1, <1>4, LineStays
  <2>2. Registered(active', Placed(Activated))
    BY <1>4
  <2>3. Registered(active, Placed(Activated))'
    BY <1>1, <2>1, <2>2, LineStays
  <2>4. open' = CountersOf(Positions) /\ pc' # "returned"
    BY <1>4 DEF SoFar, ActiveSoFar
  <2> QED
    BY <2>1, <2>3, <2>4 DEF ActiveSoFar
<1>6. NamedSoFar'
  <2>1. \A name : Marks(name)' = Marks(name)
    BY <1>1 DEF Marks, Positions
  <2> QED
    BY <1>4, <2>1 DEF SoFar, NamedSoFar, Times, CountIn
<1> QED
  BY <1>2, <1>3, <1>5, <1>6 DEF IastatInv, SoFar

\* In the rounds everything is active.
LEMMA AllActive ==
  ASSUME Typed, SoFar, pc \in {"sleep", "read", "print"}
  PROVE  Activated = Positions /\ MapOK(active) /\ Registered(active, Placed(Positions)) /\ open = Counters
<1>1. Activated = Positions
  BY DEF Activated
<1> QED
  BY <1>1, CounterFacts DEF SoFar, ActiveSoFar, Typed

LEMMA BeginRoundKeeps ==
  ASSUME Typed, SoFar, BeginRound
  PROVE  IastatInv'
<1>1. /\ pc = "sleep" /\ pc' = "read" /\ round' = round + 1 /\ round \in Nat /\ GoesOn(round)
      /\ at' = at /\ at \in Nat \ {0} /\ output' = <<>> /\ announced' = {} /\ unread' = DOMAIN active
      /\ failures' = failures /\ failures \in 0 .. MaxFailures
      /\ UNCHANGED <<lineVars, parseVars, activeVars>>
  BY DEF BeginRound, Typed
<1>2. round' \in Nat /\ round' > 0 /\ (Count > 0 => round' <= Count)
  BY <1>1, IastatAssumption DEF GoesOn
<1>3. UNCHANGED <<active, activeEventNames, activeMultiEventNames, open, dead>>
  BY <1>1 DEF activeVars
<1>4. AtSoFar'
  BY <1>1 DEF AtSoFar
<1>5. RoundSoFar'
  BY <1>1, <1>2, <1>3 DEF RoundSoFar
<1>6. MapOK(active') /\ Registered(active', Placed(Positions))
  BY <1>1, <1>3, AllActive
<1>7. output' \in Seq([name : DOMAIN active, value : Nat])
  BY <1>1
<1> QED
  BY <1>1, <1>2, <1>3, <1>4, <1>5, <1>6, <1>7, RoundKeeps

\* Reading the list of a name to its end or up to an error.
LEMMA ReadsKeep ==
  ASSUME Typed, SoFar, pc = "read", NEW name \in unread, NEW n,
         active' = [active EXCEPT ![name] = ReadN(active[name], n)], unread' = unread \ {name},
         \/ announced' = announced /\ failures' = failures /\ n = Len(active[name])
         \/ announced' = announced \cup {name} /\ failures' = failures + 1 /\ failures < MaxFailures,
         UNCHANGED <<lineVars, pc, at, parseVars, activeEventNames, activeMultiEventNames, open, dead, round, output>>
  PROVE  IastatInv'
<1>1. name \in DOMAIN active /\ unread \subseteq DOMAIN active /\ announced \subseteq DOMAIN active
  BY DEF Typed
<1>2. MapOK(active) /\ Registered(active, Placed(Positions))
  BY AllActive
<1>3. /\ MapOK(active') /\ Registered(active', Placed(Positions)) /\ DOMAIN active' = DOMAIN active
      /\ active'[name] = ReadN(active[name], n)
      /\ \A m \in DOMAIN active : m # name => active'[m] = active[m]
  BY <1>1, <1>2, ReadKeeps
<1>4. /\ at \in Nat \ {0} /\ round \in Nat /\ (Count > 0 => round <= Count)
      /\ output \in Seq([name : DOMAIN active, value : Nat])
      /\ failures \in 0 .. MaxFailures /\ MaxFailures \in Nat
  BY IastatAssumption DEF Typed
<1>5. failures' \in 0 .. MaxFailures
  BY <1>4
<1>6. unread' \subseteq DOMAIN active /\ announced' \subseteq DOMAIN active
  BY <1>1
<1>7. ASSUME n = Len(active[name])
      PROVE  FreshList(name, active'[name])
  <2> DEFINE list == active[name]
  <2>1. list \in Seq(Entry) /\ \A k \in DOMAIN list : EntryOf(name, list[k])
    BY <1>1, <1>2 DEF MapOK
  <2>2. Len(list) \in Nat /\ DOMAIN list = 1 .. Len(list)
    BY <2>1
  <2>3. DOMAIN ReadN(list, n) = DOMAIN list /\ \A k \in DOMAIN list : ReadN(list, n)[k] = Refreshed(list[k])
    BY <1>7, <2>2 DEF ReadN
  <2> HIDE DEF list
  <2>4. \A k \in DOMAIN list :
          Refreshed(list[k]).values = Copies(Width(name), ReadActiveEventValues(Refreshed(list[k])))
    <3> TAKE k \in DOMAIN list
    <3> DEFINE e == list[k]
    <3>1. EntryOf(name, e)
      BY <2>1
    <3> HIDE DEF e
    <3>2. /\ Refreshed(e).position = e.position /\ Refreshed(e).place = e.place
          /\ Refreshed(e).values = Copies(Width(name), ReadActiveEventValues(e))
      BY <3>1, ReadTypes DEF Copies
    <3>3. ReadActiveEventValues(Refreshed(e)) = ReadActiveEventValues(e)
      BY <3>2 DEF ReadActiveEventValues
    <3> QED
      BY <3>2, <3>3 DEF e
  <2>5. FreshList(name, ReadN(list, n))
    <3> DEFINE new == ReadN(list, n)
    <3> HIDE DEF new
    <3>1. \A k \in DOMAIN new : new[k].values = Copies(Width(name), ReadActiveEventValues(new[k]))
      BY <2>3, <2>4 DEF new
    <3> QED
      BY <3>1 DEF FreshList, new
  <2> QED
    BY <1>3, <2>5 DEF list
<1>8. RoundSoFar'
  <2>1. /\ round > 0 /\ output = <<>>
        /\ \A m \in DOMAIN active \ (unread \cup announced) : FreshList(m, active[m])
    BY DEF SoFar, RoundSoFar
  <2>2. \A m \in DOMAIN active' \ (unread' \cup announced') : FreshList(m, active'[m])
    <3> TAKE m \in DOMAIN active' \ (unread' \cup announced')
    <3>1. CASE m = name
      BY <1>7, <3>1
    <3>2. CASE m # name
      BY <1>3, <2>1, <3>2
    <3> QED
      BY <3>1, <3>2
  <2>3. \A m \in DOMAIN active' \ (unread' \cup announced') : FreshList(m, active[m])'
    BY <2>2, RoundStays DEF lineVars
  <2> QED
    BY <2>1, <2>3 DEF RoundSoFar
<1>9. AtSoFar'
  BY DEF AtSoFar
<1> QED
  BY <1>3, <1>4, <1>5, <1>6, <1>8, <1>9, RoundKeeps
-----------------------------------------------------------------------------
LEMMA ReadKeepsAll ==
  ASSUME Typed, SoFar, NEW name \in unread, Read(name) \/ ReadFails(name)
  PROVE  IastatInv'
<1>1. CASE Read(name)
  BY <1>1, ReadsKeep DEF Read
<1>2. CASE ReadFails(name)
  <2>1. PICK n \in 0 .. Len(active[name]) - 1 : active' = [active EXCEPT ![name] = ReadN(active[name], n)]
    BY <1>2 DEF ReadFails
  <2> QED
    BY <1>2, <2>1, ReadsKeep DEF ReadFails
<1> QED
  BY <1>1, <1>2

\* What a line adds to the total of a name.
LEMMA ShownFacts ==
  ASSUME NEW name
  PROVE  /\ Shown(name) \in [Lines -> Int]
         /\ \A o \in Lines : Shown(name)[o] = IF o.name = name THEN o.value ELSE 0
BY DEF Shown, Lines

\* The lines that are printed for one name.
NewLines(name, values) == [k \in DOMAIN values |-> [name |-> name, value |-> values[k]]]

LEMMA NewLinesFacts ==
  ASSUME NEW S, S \subseteq STRING, NEW name \in S, NEW values \in Seq(Nat)
  PROVE  /\ NewLines(name, values) \in Seq([name : S, value : Nat])
         /\ NewLines(name, values) \in Seq(Lines)
         /\ \A n : Total(Shown(n), NewLines(name, values)) = IF n = name THEN Total(Numbers, values) ELSE 0
<1> DEFINE new == NewLines(name, values)
           K == DOMAIN values
<1>1. /\ Len(values) \in Nat /\ K = 1 .. Len(values) /\ IsFiniteSet(K) /\ \A k \in K : values[k] \in Nat
  BY SequenceDomain
<1>2. new = [k \in K |-> [name |-> name, value |-> values[k]]]
  BY DEF NewLines
<1> HIDE DEF new, K
<1>3. new \in [1 .. Len(values) -> [name : S, value : Nat]]
  BY <1>1, <1>2
<1>4. new \in Seq([name : S, value : Nat])
  <2> DEFINE X == [name : S, value : Nat]
  <2> HIDE DEF X
  <2>1. new \in [1 .. Len(values) -> X]
    BY <1>3 DEF X
  <2>2. new \in Seq(X)
    BY <1>1, <2>1
  <2> QED
    BY <2>2 DEF X
<1>5. new \in Seq(Lines)
  <2>1. new \in [1 .. Len(values) -> Lines]
    BY <1>1, <1>2 DEF Lines
  <2> QED
    BY <1>1, <2>1
<1>6. ASSUME NEW n
      PROVE  Total(Shown(n), new) = IF n = name THEN Total(Numbers, values) ELSE 0
  <2> DEFINE f == [i \in K |-> Shown(n)[new[i]]]
             g == [i \in K |-> Numbers[values[i]]]
  <2>1. Total(Shown(n), new) = SumFunctionOnSet(f, K) /\ Total(Numbers, values) = SumFunctionOnSet(g, K)
    BY <1>2 DEF Total, K
  <2>2. \A i \in K : f[i] = IF n = name THEN values[i] ELSE 0
    <3> TAKE i \in K
    <3>1. new[i] = [name |-> name, value |-> values[i]] /\ new[i] \in Lines
      BY <1>1, <1>2 DEF Lines
    <3>2. Shown(n)[new[i]] = IF new[i].name = n THEN new[i].value ELSE 0
      BY <3>1, ShownFacts
    <3> QED
      BY <3>1, <3>2
  <2>3. \A i \in K : g[i] = values[i]
    BY <1>1, ScaledType
  <2> HIDE DEF f, g
  <2>4. CASE n = name
    <3>1. \A x \in K : f[x] \in Int /\ g[x] = f[x]
      BY <1>1, <2>2, <2>3, <2>4
    <3> QED
      BY <1>1, <2>1, <2>4, <3>1, SumSame
  <2>5. CASE n # name
    <3>1. \A x \in K : f[x] = 0
      BY <2>2, <2>5
    <3>2. SumFunctionOnSet(f, K) = Cardinality(K) * 0
      BY <1>1, <3>1, SumOfEquals
    <3>3. Cardinality(K) \in Nat
      BY <1>1, FS_CardinalityType
    <3> QED
      BY <2>1, <2>5, <3>2, <3>3
  <2> QED
    BY <2>4, <2>5
<1> QED
  BY <1>4, <1>5, <1>6 DEF new

\* How often a name is among the first of the names.
LEMMA TimesUpToFacts ==
  ASSUME Typed, NEW name
  PROVE  /\ TimesUpTo(name, 0) = 0 /\ TimesUpTo(name, Len(Names)) = Times(name, Names)
         /\ \A n \in 0 .. Len(Names) : TimesUpTo(name, n) \in Int
         /\ \A n \in 1 .. Len(Names) :
              TimesUpTo(name, n) = TimesUpTo(name, n - 1) + IF Names[n] = name THEN 1 ELSE 0
<1> DEFINE f == [k \in DOMAIN Names |-> One(name)[Names[k]]]
           l == Len(Names)
<1>1. Names \in Seq(STRING) /\ l \in Nat /\ DOMAIN Names = 1 .. l
  BY NamesTyped
<1>2. \A k \in 1 .. l : f[k] \in Int /\ f[k] = IF Names[k] = name THEN 1 ELSE 0
  BY <1>1 DEF One
<1>3. \A n : TimesUpTo(name, n) = SumFunctionOnSet(f, 1 .. n)
  BY DEF TimesUpTo
<1>4. Times(name, Names) = SumFunctionOnSet(f, 1 .. l)
  BY <1>1 DEF Times, Total
<1> HIDE DEF f, l
<1>5. ASSUME NEW n \in 0 .. l
      PROVE  IsFiniteSet(1 .. n) /\ 1 .. n \subseteq 1 .. l
  <2>1. 1 \in Int /\ n \in Int
    BY <1>1
  <2>2. IsFiniteSet(1 .. n)
    BY <2>1, FS_Interval, Zenon
  <2> QED
    BY <1>1, <2>2
<1>6. ASSUME NEW n \in 0 .. l
      PROVE  TimesUpTo(name, n) \in Int
  <2>1. \A x \in 1 .. n : f[x] \in Int
    BY <1>2, <1>5
  <2> QED
    BY <1>3, <1>5, <2>1, SumType
<1>7. TimesUpTo(name, 0) = 0
  <2>1. 1 .. 0 = {} /\ 0 \in 0 .. l
    BY <1>1
  <2>2. SumFunctionOnSet(f, {}) = 0
    BY FS_EmptySet, SumType
  <2> QED
    BY <1>3, <2>1, <2>2
<1>8. ASSUME NEW n \in 1 .. l
      PROVE  TimesUpTo(name, n) = TimesUpTo(name, n - 1) + IF Names[n] = name THEN 1 ELSE 0
  <2>1. n - 1 \in 0 .. l /\ 1 .. n = (1 .. n - 1) \cup {n} /\ n \notin 1 .. n - 1 /\ n \in 0 .. l
    BY <1>1
  <2>2. IsFiniteSet(1 .. n - 1)
    BY <1>5, <2>1
  <2>3. \A y \in (1 .. n - 1) \cup {n} : f[y] \in Int
    BY <1>2, <1>5, <2>1
  <2>4. SumFunctionOnSet(f, (1 .. n - 1) \cup {n}) = f[n] + SumFunctionOnSet(f, 1 .. n - 1)
    BY <2>1, <2>2, <2>3, SumAdds
  <2>5. TimesUpTo(name, n) = f[n] + TimesUpTo(name, n - 1) /\ TimesUpTo(name, n - 1) \in Int
    BY <1>3, <1>6, <2>1, <2>4
  <2> QED
    BY <1>2, <2>5
<1> QED
  BY <1>3, <1>4, <1>6, <1>7, <1>8 DEF l

\* A name comes as often as its events are in the line.
LEMMA NamedAsOften ==
  ASSUME Typed, SoFar, Activated = Positions, NEW name \in STRING
  PROVE  Times(name, Names) = TimesNamed(name)
<1> DEFINE P == Positions
           T == {p \in P : line[p].name = name}
           marks == Marks(name)
<1>1. Times(name, Names) = CountIn(P, name)
  <2>1. Times(name, Names) = Times(name, activeEventNames) + Times(name, activeMultiEventNames)
    BY NamesTyped, TimesFacts DEF Names
  <2> QED
    BY <2>1 DEF SoFar, NamedSoFar
<1>2. line \in CommandLines
  BY DEF Typed
<1>3. IsFiniteSet(P)
  BY <1>2, LineFacts, SequenceDomain DEF Positions
<1>4. \A p \in P : marks[p] = IF line[p].name = name THEN 1 ELSE 0
  BY DEF Marks
<1>5. T \in SUBSET P /\ IsFiniteSet(T)
  BY <1>3, FS_Subset
<1>6. TimesNamed(name) = Cardinality(T)
  BY DEF TimesNamed
<1>7. (\A x \in T : marks[x] = 1) /\ (\A x \in P \ T : marks[x] = 0) /\ (\A x \in P : marks[x] \in Int)
  BY <1>4
<1> HIDE DEF P, T, marks
<1>8. SumFunctionOnSet(marks, P) = SumFunctionOnSet(marks, T)
  BY <1>3, <1>5, <1>7, SumOfTheRest
<1>9. SumFunctionOnSet(marks, T) = Cardinality(T) * 1
  BY <1>5, <1>7, SumOfEquals
<1>10. Cardinality(T) \in Nat
  BY <1>5, FS_CardinalityType
<1> QED
  BY <1>1, <1>6, <1>8, <1>9, <1>10 DEF CountIn, marks
-----------------------------------------------------------------------------
\* What was read without an error can be summed up.
LEMMA FreshFacts ==
  ASSUME Typed, SoFar, pc \in {"read", "print"}, NEW name \in DOMAIN active
  PROVE  /\ name \in CoreEvents => /\ PrintCore(active[name]) \in Seq(Nat)
                                   /\ Total(Numbers, PrintCore(active[name])) = Estimates(active[name])
         /\ name \notin CoreEvents =>
              /\ PrintUncore(active[name]) \in Seq(Nat)
              /\ FreshList(name, active[name]) =>
                   Total(Numbers, PrintUncore(active[name])) = Estimates(active[name])
         /\ FreshList(name, active[name]) => Estimates(active[name]) = Measured(name) /\ Measured(name) \in Nat
<1> DEFINE list == active[name]
<1>1. /\ list \in Seq(Entry) \ {<<>>} /\ \A k \in DOMAIN list : EntryOf(name, list[k])
  BY DEF Typed, MapOK
<1>2. PrintCore(list) \in Seq(Nat) /\ Total(Numbers, PrintCore(list)) = Estimates(list) /\ Estimates(list) \in Nat
  BY <1>1, CorePrinted
<1>3. ASSUME name \notin CoreEvents
      PROVE  UncoreList(list)
  BY <1>1, <1>3 DEF UncoreList, EntryOf, Width
<1>4. ASSUME name \notin CoreEvents, FreshList(name, list)
      PROVE  WholeList(list)
  <2> SUFFICES ASSUME NEW k \in DOMAIN list
               PROVE  Len(list[k].values) = Units
    BY DEF WholeList
  <2>1. list[k].values = Copies(Units, ReadActiveEventValues(list[k])) /\ Units \in Nat
    BY <1>4, PlaceFacts DEF FreshList, Width
  <2> HIDE DEF list
  <2> QED
    BY <2>1 DEF Copies
<1>5. ASSUME FreshList(name, list)
      PROVE  Estimates(list) = Measured(name)
  <2>1. round > 0
    BY DEF SoFar, RoundSoFar
  <2>2. open = Counters /\ Registered(active, Placed(Positions))
    BY AllActive
  <2> QED
    BY <1>5, <2>1, <2>2, FreshEstimates
<1> QED
  BY <1>2, <1>3, <1>4, <1>5, UncorePrinted DEF list

LEMMA AllReadKeeps ==
  ASSUME Typed, SoFar, AllRead
  PROVE  IastatInv'
<1>1. /\ pc = "read" /\ pc' = "print" /\ unread = {} /\ at' = 1
      /\ UNCHANGED <<lineVars, parseVars, activeVars, roundVars>> /\ line' = line /\ Known
  BY DEF AllRead, lineVars, Typed
<1>2. Activated' = Activated
  BY <1>1 DEF Activated, Positions
<1>3. Names' = Names /\ Len(Names) \in Nat
  BY <1>1, NamesTyped DEF Names, activeVars
<1>4. AtSoFar'
  BY <1>1, <1>3 DEF AtSoFar
<1>5. RoundSoFar'
  <2>1. /\ round > 0 /\ output = <<>>
        /\ \A name \in DOMAIN active \ announced : FreshList(name, active[name])
    BY <1>1 DEF SoFar, RoundSoFar
  <2>2. UNCHANGED <<line, dead, round, open, activeEventNames, activeMultiEventNames,
                    active, announced, output, unread>>
    BY <1>1 DEF activeVars, roundVars
  <2>3. ASSUME NEW name \in DOMAIN active \ announced
        PROVE  /\ FreshList(name, active[name])'
               /\ Total(Shown(name), output) = TimesUpTo(name, 1 - 1) * Measured(name)
    <3>1. FreshList(name, active'[name])
      BY <2>1, <2>2
    <3>2. FreshList(name, active[name])'
      BY <2>2, <3>1, RoundStays
    <3>3. Total(Shown(name), output) = 0
      <4> DEFINE F == Shown(name)
      <4>1. F \in [Lines -> Int] /\ output \in Seq(Lines)
        BY <2>1, ShownFacts
      <4> HIDE DEF F
      <4> QED
        BY <2>1, <4>1, TotalType DEF F
    <3>4. TimesUpTo(name, 0) = 0
      BY TimesUpToFacts
    <3>5. Measured(name) \in Nat
      BY <1>1, <2>1, FreshFacts
    <3> QED
      BY <3>2, <3>3, <3>4, <3>5
  <2>4. \A name \in DOMAIN active \ announced :
          Total(Shown(name), output)' = TimesUpTo(name, 1 - 1)' * Measured(name)'
    BY <2>2, <2>3, RoundStays
  <2> QED
    BY <1>1, <2>1, <2>2, <2>3, <2>4 DEF RoundSoFar
<1> QED
  BY <1>1, <1>2, <1>4, <1>5, PhaseKeeps

LEMMA PrintedKeeps ==
  ASSUME Typed, SoFar, Printed
  PROVE  IastatInv'
<1>1. /\ pc = "print" /\ pc' = "sleep" /\ at > Len(Names) /\ at' = at /\ at \in Nat \ {0}
      /\ UNCHANGED <<lineVars, parseVars, activeVars, roundVars>> /\ line' = line /\ Known
  BY DEF Printed, lineVars, Typed
<1>2. Activated = Positions /\ Activated' = Activated
  BY <1>1 DEF Activated, Positions
<1>3. at - 1 = Len(Names)
  <2>1. at <= Len(Names) + 1 /\ Len(Names) \in Nat
    BY <1>1, NamesTyped DEF SoFar, AtSoFar
  <2> QED
    BY <1>1, <2>1
<1>4. AtSoFar'
  BY <1>1 DEF AtSoFar
<1>5. RoundSoFar'
  <2>1. \A name \in DOMAIN active \ announced :
          Total(Shown(name), output) = TimesUpTo(name, at - 1) * Measured(name)
    BY <1>1 DEF SoFar, RoundSoFar
  <2>2. \A name \in DOMAIN active : TimesUpTo(name, at - 1) = TimesNamed(name)
    <3> TAKE name \in DOMAIN active
    <3>1. name \in STRING
      BY NamesTyped
    <3>2. TimesUpTo(name, Len(Names)) = Times(name, Names)
      BY TimesUpToFacts
    <3> QED
      BY <1>2, <1>3, <3>1, <3>2, NamedAsOften
  <2>3. \A name \in DOMAIN active \ announced :
          Total(Shown(name), output) = TimesNamed(name) * Measured(name)
    BY <2>1, <2>2
  <2>4. UNCHANGED <<line, dead, round, open, activeEventNames, activeMultiEventNames, active, announced, output>>
    BY <1>1 DEF activeVars, roundVars
  <2>5. \A name \in DOMAIN active \ announced :
          Total(Shown(name), output)' = TimesNamed(name)' * Measured(name)'
    BY <2>3, <2>4, RoundStays
  <2> QED
    BY <1>1, <2>4, <2>5 DEF RoundSoFar
<1> QED
  BY <1>1, <1>2, <1>4, <1>5, PhaseKeeps

LEMMA PrintNameKeeps ==
  ASSUME Typed, SoFar, PrintName
  PROVE  IastatInv'
<1> DEFINE name == Names[at]
           values == IF name \in CoreEvents THEN PrintCore(active[name]) ELSE PrintUncore(active[name])
           new == NewLines(name, values)
<1>1. /\ pc = "print" /\ pc' = "print" /\ at \in 1 .. Len(Names) /\ at' = at + 1 /\ at \in Nat /\ Len(Names) \in Nat
      /\ UNCHANGED <<lineVars, parseVars, activeVars, round, unread, announced, failures>>
  BY NamesTyped DEF PrintName, Typed
<1>2. UNCHANGED <<line, dead, round, open, activeEventNames, activeMultiEventNames,
                  active, announced, unread, failures>>
  BY <1>1 DEF activeVars, lineVars
<1>3. name \in DOMAIN active /\ DOMAIN active \subseteq STRING
  <2>1. name \in ToSet(Names)
    BY <1>1, NamesTyped DEF ToSet
  <2> QED
    BY <2>1, NamesTyped
<1>4. output' = output \o new
  BY DEF PrintName, NewLines
<1>5. values \in Seq(Nat)
  BY <1>1, <1>3, FreshFacts
<1>6. FreshList(name, active[name]) => Total(Numbers, values) = Measured(name)
  BY <1>1, <1>3, FreshFacts
<1> HIDE DEF values, name
<1>7. /\ new \in Seq([name : DOMAIN active, value : Nat]) /\ new \in Seq(Lines)
      /\ \A n : Total(Shown(n), new) = IF n = name THEN Total(Numbers, values) ELSE 0
  <2> DEFINE S == DOMAIN active
  <2>1. S \subseteq STRING /\ name \in S
    BY <1>3
  <2> HIDE DEF S
  <2>2. /\ new \in Seq([name : S, value : Nat]) /\ new \in Seq(Lines)
        /\ \A n : Total(Shown(n), new) = IF n = name THEN Total(Numbers, values) ELSE 0
    BY <1>5, <2>1, NewLinesFacts
  <2> QED
    BY <2>2 DEF S
<1> HIDE DEF new
<1>8. output \in Seq([name : DOMAIN active, value : Nat]) /\ output \in Seq(Lines)
  <2>1. output \in Seq([name : DOMAIN active, value : Nat])
    BY DEF Typed
  <2>2. [name : DOMAIN active, value : Nat] \subseteq Lines
    BY <1>3 DEF Lines
  <2> DEFINE X == [name : DOMAIN active, value : Nat]
  <2> HIDE DEF X
  <2>3. \A i \in DOMAIN output : output[i] \in X
    BY <2>1, SequenceDomain DEF X
  <2>4. ToSet(output) \subseteq Lines
    BY <2>2, <2>3 DEF ToSet, X
  <2>5. output \in Seq(Lines)
    BY <2>1, <2>4, SmallerElements
  <2> QED
    BY <2>1, <2>5
<1>9. output' \in Seq([name : DOMAIN active, value : Nat])
  BY <1>4, <1>7, <1>8, ConcatProperties
<1>10. AtSoFar'
  <2>1. Names' = Names
    BY <1>2 DEF Names
  <2> QED
    BY <1>1, <2>1 DEF AtSoFar
<1>11. RoundSoFar'
  <2>1. /\ unread = {} /\ round > 0
        /\ \A n \in DOMAIN active \ announced :
             /\ FreshList(n, active[n])
             /\ Total(Shown(n), output) = TimesUpTo(n, at - 1) * Measured(n)
    BY <1>1 DEF SoFar, RoundSoFar
  <2>2. ASSUME NEW n \in DOMAIN active \ announced
        PROVE  /\ FreshList(n, active[n])'
               /\ Total(Shown(n), output') = TimesUpTo(n, at) * Measured(n)
    <3>1. FreshList(n, active[n])'
      <4>1. FreshList(n, active'[n])
        BY <1>2, <2>1
      <4> QED
        BY <1>2, <4>1, RoundStays
    <3> DEFINE m == Measured(n)
               t == TimesUpTo(n, at - 1)
               one == IF name = n THEN 1 ELSE 0
    <3>2. m \in Nat
      BY <1>1, <2>1, FreshFacts
    <3>3. t \in Int /\ TimesUpTo(n, at) = t + one
      <4>1. at - 1 \in 0 .. Len(Names)
        BY <1>1
      <4> QED
        BY <1>1, <4>1, TimesUpToFacts DEF name
    <3>4. Total(Shown(n), output') = Total(Shown(n), output) + Total(Shown(n), new)
      <4> DEFINE F == Shown(n)
      <4>1. F \in [Lines -> Int]
        BY ShownFacts
      <4> HIDE DEF F
      <4>2. Total(F, output \o new) = Total(F, output) + Total(F, new)
        BY <1>7, <1>8, <4>1, TotalOfBoth
      <4> QED
        BY <1>4, <4>2 DEF F
    <3>5. Total(Shown(n), new) = one * m
      <4>1. CASE n = name
        BY <1>6, <1>7, <2>1, <3>2, <4>1
      <4>2. CASE n # name
        BY <1>7, <3>2, <4>2
      <4> QED
        BY <4>1, <4>2
    <3>6. Total(Shown(n), output) = t * m
      BY <2>1
    <3>7. one \in Int
      OBVIOUS
    <3> HIDE DEF t, m, one
    <3>8. t * m + one * m = (t + one) * m
      BY <3>2, <3>3, <3>7
    <3>9. Total(Shown(n), output') = (t + one) * m
      BY <3>4, <3>5, <3>6, <3>8
    <3> QED
      BY <3>1, <3>3, <3>9 DEF m
  <2>3. \A n \in DOMAIN active \ announced :
          Total(Shown(n), output)' = TimesUpTo(n, at - 1)' * Measured(n)'
    <3>1. at' - 1 = at
      BY <1>1
    <3>2. \A n : TimesUpTo(n, at - 1)' = TimesUpTo(n, at) /\ Measured(n)' = Measured(n)
      BY <1>2, <3>1, RoundStays
    <3> QED
      BY <2>2, <3>2
  <2> QED
    BY <1>1, <1>2, <2>1, <2>2, <2>3 DEF RoundSoFar
<1>12. MapOK(active') /\ Registered(active', Placed(Positions))
  BY <1>1, <1>2, AllActive
<1>13. /\ round' \in Nat /\ (Count > 0 => round' <= Count) /\ failures' \in 0 .. MaxFailures /\ at' \in Nat \ {0}
       /\ unread' \subseteq DOMAIN active /\ announced' \subseteq DOMAIN active
  BY <1>1 DEF Typed
<1> QED
  BY <1>1, <1>2, <1>9, <1>10, <1>11, <1>12, <1>13, RoundKeeps
-----------------------------------------------------------------------------
\* An open counter has one entry, in the list of its event's name.
LEMMA OpenHasEntry ==
  ASSUME Typed, Registered(active, Placed(Positions)), NEW c \in Counters
  PROVE  \E k \in DOMAIN active[line[c[1]].name] :
           \A j \in DOMAIN active[line[c[1]].name] : At(active[line[c[1]].name][j], c[1], c[2]) <=> j = k
<1>1. /\ c[1] \in Positions /\ c[2] \in STRING /\ <<c[1], c[2]>> \in Placed(Positions)
  BY CounterFacts, CounterOf
<1> QED
  BY <1>1 DEF Registered

LEMMA CleanUpKeeps ==
  ASSUME Typed, SoFar, CleanUp
  PROVE  IastatInv'
<1>1. /\ pc = "sleep" /\ pc' = "returned" /\ open' = open \ Reachable /\ line' = line /\ at' = at
      /\ UNCHANGED <<lineVars, parseVars, active, activeEventNames, activeMultiEventNames, dead, roundVars>>
      /\ UNCHANGED <<line, singles, groups, current, inGroup>>
      /\ line \in CommandLines /\ at \in Nat \ {0} /\ Known
  BY DEF CleanUp, lineVars, parseVars, Typed
<1>2. Activated = Positions /\ MapOK(active) /\ Registered(active, Placed(Positions)) /\ open = Counters
  BY <1>1, AllActive
<1>3. open' = {}
  <2> SUFFICES ASSUME NEW c \in open
               PROVE  c \in Reachable
    BY <1>1
  <2>1. c \in Counters
    BY <1>2
  <2>2. PICK k \in DOMAIN active[line[c[1]].name] :
          \A j \in DOMAIN active[line[c[1]].name] : At(active[line[c[1]].name][j], c[1], c[2]) <=> j = k
    BY <1>2, <2>1, OpenHasEntry
  <2>3. At(active[line[c[1]].name][k], c[1], c[2])
    BY <2>2
  <2> QED
    BY <2>1, <2>3 DEF Reachable, At
<1>4. Typed'
  <2>1. /\ aggr \in BOOLEAN /\ merge \in BOOLEAN /\ UNCHANGED <<aggr, merge, parseVars>>
        /\ singles \in Seq(Positions) /\ groups \in Seq(Seq(Positions)) /\ current \in Seq(Positions)
        /\ inGroup \in BOOLEAN
    BY <1>1 DEF Typed, lineVars
  <2>2. /\ activeEventNames \in Seq(CoreEvents) /\ activeMultiEventNames \in Seq(UncoreEvents)
        /\ ToSet(activeEventNames) \cup ToSet(activeMultiEventNames) \subseteq DOMAIN active
        /\ dead \subseteq Positions /\ round \in Nat /\ (Count > 0 => round <= Count)
        /\ unread \subseteq DOMAIN active /\ announced \subseteq DOMAIN active
        /\ output \in Seq([name : DOMAIN active, value : Nat]) /\ failures \in 0 .. MaxFailures
    BY DEF Typed
  <2>3. open' \subseteq Counters /\ MapOK(active')
    BY <1>1, <1>2, <1>3
  <2> QED
    BY <1>1, <2>1, <2>2, <2>3, TypesStep DEF parseVars, roundVars
<1>5. ParsedSoFar'
  BY <1>1, ParseHolds DEF SoFar
<1>6. Activated' = Activated
  BY <1>1, <1>2 DEF Activated, Positions
<1>7. ActiveSoFar'
  <2>1. Placed(Activated)' = Placed(Activated)
    BY <1>1, <1>6, LineStays
  <2>2. Registered(active', Placed(Activated))
    BY <1>1, <1>2
  <2>3. Registered(active, Placed(Activated))'
    BY <1>1, <2>1, <2>2, LineStays
  <2> QED
    BY <1>1, <1>3, <2>3 DEF ActiveSoFar
<1>8. NamedSoFar'
  <2>1. \A name : Marks(name)' = Marks(name)
    BY <1>1 DEF Marks, Positions
  <2> QED
    BY <1>1, <1>6, <2>1 DEF SoFar, NamedSoFar, Times, CountIn
<1>9. AtSoFar' /\ RoundSoFar'
  BY <1>1 DEF AtSoFar, RoundSoFar
<1> QED
  BY <1>4, <1>5, <1>7, <1>8, <1>9 DEF IastatInv, SoFar

LEMMA StutterKeeps ==
  ASSUME IastatInv, UNCHANGED vars
  PROVE  IastatInv'
<1>1. /\ line' = line /\ pc' = pc /\ at' = at /\ Typed
      /\ UNCHANGED <<lineVars, parseVars, activeVars, roundVars>>
      /\ UNCHANGED <<line, singles, groups, current, inGroup>>
      /\ UNCHANGED <<active, activeEventNames, activeMultiEventNames, open>>
      /\ UNCHANGED <<dead, round, announced, output, unread>>
  BY DEF vars, lineVars, parseVars, activeVars, roundVars, IastatInv
<1>2. Typed'
  BY <1>1, TypesHold DEF Typed
<1>3. ASSUME pc # "exited"
      PROVE  SoFar'
  <2>1. SoFar
    BY <1>3 DEF IastatInv
  <2>2. ParsedSoFar'
    BY <1>1, <2>1, ParseHolds DEF SoFar
  <2>3. Activated' = Activated
    BY <1>1 DEF Activated, Positions
  <2>4. ActiveSoFar' /\ NamedSoFar'
    BY <1>1, <2>1, <2>3, ActiveHolds DEF SoFar
  <2>5. AtSoFar'
    BY <1>1, <2>1, RoundStays DEF SoFar, AtSoFar
  <2>6. RoundSoFar'
    <3>1. \A name : FreshList(name, active[name]) => FreshList(name, active[name])'
      <4> TAKE name
      <4>1. FreshList(name, active[name]) => FreshList(name, active'[name])
        BY <1>1
      <4> QED
        BY <1>1, <4>1, RoundStays
    <3>2. \A name : TimesUpTo(name, at - 1)' = TimesUpTo(name, at - 1)
      BY <1>1, RoundStays
    <3>3. \A name : Measured(name)' = Measured(name) /\ TimesNamed(name)' = TimesNamed(name)
      BY <1>1, RoundStays
    <3>4. \A name : Total(Shown(name), output)' = Total(Shown(name), output)
      BY <1>1
    <3> QED
      BY <1>1, <2>1, <3>1, <3>2, <3>3, <3>4 DEF SoFar, RoundSoFar
  <2> QED
    BY <2>2, <2>4, <2>5, <2>6 DEF SoFar
<1> QED
  BY <1>1, <1>2, <1>3 DEF IastatInv

LEMMA StepKeeps ==
  ASSUME IastatInv, [Next]_vars
  PROVE  IastatInv'
<1>1. Typed /\ (pc # "exited" => SoFar)
  BY DEF IastatInv
<1>2. CASE UNCHANGED vars
  BY <1>2, StutterKeeps
<1>3. CASE Exit
  BY <1>1, <1>3, ExitHolds
<1>4. CASE Parse
  BY <1>1, <1>4, ParseKeepsAll DEF Parse
<1>5. CASE Parsed
  BY <1>1, <1>5, ParsedKeeps DEF Parsed
<1>6. CASE Resolve
  BY <1>1, <1>6, ResolveKeeps DEF Resolve
<1>7. CASE ActivateSingle
  BY <1>1, <1>7, ActivateSingleKeeps DEF ActivateSingle
<1>8. CASE SinglesDone
  BY <1>1, <1>8, SinglesDoneKeeps DEF SinglesDone
<1>9. CASE ActivateGroup
  BY <1>1, <1>9, ActivateGroupKeeps DEF ActivateGroup
<1>10. CASE GroupsDone
  BY <1>1, <1>10, GroupsDoneKeeps DEF GroupsDone
<1>11. CASE BeginRound
  BY <1>1, <1>11, BeginRoundKeeps DEF BeginRound
<1>12. CASE \E name \in unread : Read(name) \/ ReadFails(name)
  <2>1. PICK name \in unread : Read(name) \/ ReadFails(name)
    BY <1>12
  <2>2. SoFar
    BY <1>1, <2>1 DEF Read, ReadFails
  <2> QED
    BY <1>1, <2>1, <2>2, ReadKeepsAll
<1>13. CASE AllRead
  BY <1>1, <1>13, AllReadKeeps DEF AllRead
<1>14. CASE PrintName
  BY <1>1, <1>14, PrintNameKeeps DEF PrintName
<1>15. CASE Printed
  BY <1>1, <1>15, PrintedKeeps DEF Printed
<1>16. CASE CleanUp
  BY <1>1, <1>16, CleanUpKeeps DEF CleanUp
<1>17. CASE ParseFails \/ ResolveFails \/ ActivationFails \/ Interrupt
  BY <1>3, <1>17 DEF ParseFails, ResolveFails, ActivationFails, Interrupt
<1> QED
  BY <1>2, <1>4, <1>5, <1>6, <1>7, <1>8, <1>9, <1>10, <1>11, <1>12, <1>13, <1>14, <1>15, <1>16, <1>17
  DEF Next, Step

\* What holds throughout: the types, and until the program exits what the
\* line says of the elements that have been seen, the entries and the counters
\* of the events that are active, their names, and what a round has read and
\* printed so far.
THEOREM Inductive == Spec => []IastatInv
<1>1. Init => IastatInv
  BY InitHolds
<1>2. IastatInv /\ [Next]_vars => IastatInv'
  BY StepKeeps
<1> QED
  BY <1>1, <1>2, PTL DEF Spec

LEMMA TypedIsTypeOK == Typed => TypeOK
<1> SUFFICES ASSUME Typed
             PROVE  TypeOK
  OBVIOUS
<1>1. \A name \in DOMAIN active : \A k \in DOMAIN active[name] :
        /\ active[name][k].position \in Positions
        /\ active[name][k].place \in Places(active[name][k].position)
        /\ Len(active[name][k].values) \in {0, Width(name)}
  BY DEF Typed, MapOK, EntryOf, Entry
<1>2. \A k \in DOMAIN output : output[k].name \in DOMAIN active /\ output[k].value \in Nat
  <2> DEFINE X == [name : DOMAIN active, value : Nat]
  <2>1. \A o \in X : o.name \in DOMAIN active /\ o.value \in Nat
    OBVIOUS
  <2>2. output \in Seq(X)
    BY DEF Typed
  <2> HIDE DEF X
  <2>3. \A k \in DOMAIN output : output[k] \in X
    BY <2>2, SequenceDomain
  <2> QED
    BY <2>1, <2>3
<1>3. ToSet(activeEventNames) \subseteq CoreEvents /\ ToSet(activeMultiEventNames) \subseteq UncoreEvents
  BY SequenceDomain DEF Typed, ToSet
<1> QED
  BY <1>1, <1>2, <1>3 DEF Typed, TypeOK

LEMMA OnceReached ==
  ASSUME IastatInv
  PROVE  CleanUpReaches
<1>1. ASSUME pc \in {"sleep", "read", "print"}, NEW c \in open
      PROVE  Cardinality({k \in DOMAIN active[line[c[1]].name] :
                            active[line[c[1]].name][k].position = c[1]
                              /\ active[line[c[1]].name][k].place = c[2]}) = 1
  <2>1. Typed /\ SoFar
    BY <1>1 DEF IastatInv
  <2>2. Registered(active, Placed(Positions)) /\ c \in Counters
    BY <1>1, <2>1, AllActive
  <2>3. PICK k \in DOMAIN active[line[c[1]].name] :
          \A j \in DOMAIN active[line[c[1]].name] : At(active[line[c[1]].name][j], c[1], c[2]) <=> j = k
    BY <2>1, <2>2, OpenHasEntry
  <2> DEFINE those == {j \in DOMAIN active[line[c[1]].name] :
                         active[line[c[1]].name][j].position = c[1]
                           /\ active[line[c[1]].name][j].place = c[2]}
  <2>4. those = {k}
    BY <2>3 DEF At
  <2> HIDE DEF those
  <2>5. Cardinality(those) = 1
    BY <2>4, FS_Singleton
  <2> QED
    BY <2>5 DEF those
<1>2. ASSUME pc = "returned"
      PROVE  open = {}
  BY <1>2 DEF IastatInv, SoFar, ActiveSoFar
<1> QED
  BY <1>1, <1>2 DEF CleanUpReaches

LEMMA AddsUp ==
  ASSUME IastatInv
  PROVE  PrintedIsMeasured
<1> SUFFICES ASSUME pc = "sleep", round > 0, NEW name \in DOMAIN active \ announced
             PROVE  SumFunction([k \in {k \in DOMAIN output : output[k].name = name} |-> output[k].value])
                      = TimesNamed(name) * Measured(name)
  BY DEF PrintedIsMeasured
<1>1. Typed /\ SoFar
  BY DEF IastatInv
<1>2. Total(Shown(name), output) = TimesNamed(name) * Measured(name)
  BY <1>1 DEF SoFar, RoundSoFar
<1> DEFINE K == DOMAIN output
           T == {k \in K : output[k].name = name}
           f == [k \in T |-> output[k].value]
           g == [i \in K |-> Shown(name)[output[i]]]
<1>3. IsFiniteSet(K) /\ \A k \in K : output[k] \in Lines /\ output[k].value \in Nat
  <2> DEFINE X == [name : DOMAIN active, value : Nat]
  <2>1. DOMAIN active \subseteq STRING
    BY <1>1, NamesTyped
  <2>2. \A o \in X : o \in Lines /\ o.value \in Nat
    BY <2>1 DEF Lines
  <2>3. output \in Seq(X)
    BY <1>1 DEF Typed
  <2> HIDE DEF X
  <2>4. IsFiniteSet(K) /\ \A k \in K : output[k] \in X
    BY <2>3, SequenceDomain
  <2> QED
    BY <2>2, <2>4
<1>4. \A k \in K : g[k] = IF output[k].name = name THEN output[k].value ELSE 0
  BY <1>3, ShownFacts
<1>5. T \in SUBSET K /\ IsFiniteSet(T) /\ DOMAIN f = T
  BY <1>3, FS_Subset
<1>6. (\A x \in K : g[x] \in Int) /\ (\A x \in K \ T : g[x] = 0) /\ (\A x \in T : g[x] \in Int /\ f[x] = g[x])
  BY <1>3, <1>4
<1>7. Total(Shown(name), output) = SumFunctionOnSet(g, K)
  BY DEF Total
<1>8. SumFunction(f) = SumFunctionOnSet(f, DOMAIN f)
  BY DEF SumFunction
<1> HIDE DEF K, T, f, g
<1>9. SumFunctionOnSet(g, K) = SumFunctionOnSet(g, T)
  BY <1>3, <1>5, <1>6, SumOfTheRest
<1>10. SumFunctionOnSet(g, T) = SumFunctionOnSet(f, T)
  BY <1>5, <1>6, SumSame
<1>11. SumFunction(f) = TimesNamed(name) * Measured(name)
  BY <1>2, <1>5, <1>7, <1>8, <1>9, <1>10
<1> QED
  BY <1>11 DEF f, T, K

\* Each variable has its type, for any command line, cpus, sockets and units
\* (main.go's variables and those of its loops).
THEOREM TypeCorrect == Spec => []TypeOK
<1>1. IastatInv => TypeOK
  BY TypedIsTypeOK DEF IastatInv
<1> QED
  BY <1>1, Inductive, PTL

\* parseEvents takes a line of any length for what its braces say (main.go:77).
THEOREM LinesAreParsed == Spec => []ParsedAsWritten
<1>1. IastatInv => ParsedAsWritten
  BY ParsedIsWritten DEF IastatInv, SoFar
<1> QED
  BY <1>1, Inductive, PTL

\* While main is in its rounds each counter that is open has one entry in the
\* maps, and cleanUp closes them all, however often a name is in the line (main.go:281).
THEOREM CleanUpReachesAll == Spec => []CleanUpReaches
<1>1. IastatInv => CleanUpReaches
  BY OnceReached
<1> QED
  BY <1>1, Inductive, PTL

\* The lines of a name add up to what its counters have counted in the round,
\* once for each time it is in the line, with any number of cpus, sockets and
\* units and any mix of the options -no-aggr and -merge (main.go:308).
THEOREM PrintedAddsUp == Spec => []PrintedIsMeasured
<1>1. IastatInv => PrintedIsMeasured
  BY AddsUp
<1> QED
  BY <1>1, Inductive, PTL
=============================================================================
