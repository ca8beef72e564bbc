------------------------ MODULE EventTransform_proofs ------------------------
(***************************************************************************)
(* Proofs about EventTransform: whatever PMUs there are, whatever comes or *)
(* goes and whatever a batch holds, each matching event is answered once,  *)
(* with PMUs of its unit, with its own terms, and as a steady sysfs says.  *)
(***************************************************************************)
EXTENDS EventTransform, TLAPS

Resolving == pc \notin {"idle", "next"}
Glob      == Globbed[Event.unit]
Dirs      == {pt[1] : pt \in Range(pmus)}

\* Only an event that matches and parses is resolved.
Current == Resolving => at <= Len(batch) /\ Match(Event) /\ Parses(Event)

\* Between two events nothing of the last one is left.
Clean ==
  ~Resolving => /\ paths = {} /\ pmus = <<>> /\ uncore = FALSE
                /\ attr = {} /\ seen = {} /\ stayed = {}

\* What stayed is there, and what is there was seen.
History == Resolving => stayed \subseteq Present(sysfs) /\ Present(sysfs) \subseteq seen

\* findPMUs among the numbered PMUs: none is found twice, one that stayed is
\* found or still to be read, and the first that was read comes first.
NumberedSoFar ==
  /\ \A i \in paths : i \in DOMAIN Glob /\ Glob[i] \in OnlyDigits
  /\ Dirs \subseteq Numbered(Event.unit)
  /\ \A i \in paths : Glob[i] \notin Dirs
  /\ \A pt \in stayed : pt[1] \in Numbered(Event.unit) =>
       pt \in Range(pmus) \/ \E i \in paths : Glob[i] = pt[1]
  /\ pmus # <<>> =>
       \E j \in DOMAIN Glob :
         /\ Glob[j] = RealPMU
         /\ \A i \in DOMAIN Glob : i \in paths \/ Glob[i] \in Dirs => j <= i

OneNamed == Len(pmus) = 1 /\ RealPMU \in {Exact[Event.unit], Single[Event.unit]}

Found ==
  Resolving =>
    /\ Range(pmus) \subseteq seen
    /\ \A j, k \in DOMAIN pmus : pmus[j][1] = pmus[k][1] => j = k
    /\ pc \in {"exact", "single", "glob"} => pmus = <<>> /\ paths = {}
    /\ pc = "types" => paths # {} /\ NumberedSoFar
    /\ pc \in {"cpumask", "scan", "terms"} =>
         pmus # <<>> /\ paths = {} /\ (OneNamed \/ NumberedSoFar)

\* parseTerms has placed every term but those in terms.
AttrSoFar ==
  Resolving =>
    /\ terms \subseteq TermsOf(Event)
    /\ pc # "terms" => terms = TermsOf(Event) /\ attr = {} /\ uncore = FALSE
    /\ pc = "terms" =>
         /\ terms # {}
         /\ attr = {Place(RealPMU, t) : t \in TermsOf(Event) \ terms}
         /\ pmus[1] \in stayed => uncore = (Cpumask[RealPMU] = "zero")

Base == TypeOK /\ Current /\ Clean /\ History /\ Found /\ AttrSoFar

\* p comes before all other numbered PMUs that are chosen.
First(u, p) ==
  \A i \in DOMAIN Globbed[u] :
    Globbed[u][i] \in Chosen(u) => \E j \in 1 .. i : Globbed[u][j] = p

\* In a sysfs that has not changed, the steps so far found what is there.
SteadySoFar ==
  Resolving /\ stayed = seen =>
    /\ pc \in {"single", "glob", "types"} => sysfs[Exact[Event.unit]] = Gone
    /\ pc \in {"glob", "types"} => sysfs[Single[Event.unit]] = Gone
    /\ pc = "types" => Dirs \cup {Glob[i] : i \in paths} = Here(Numbered(Event.unit))
    /\ pc \in {"cpumask", "scan", "terms"} => Dirs = Chosen(Event.unit) /\ First(Event.unit, RealPMU)
    /\ pc \in {"scan", "terms"} => Cpumask[RealPMU] # "unreadable"
    /\ pc = "terms" =>
         /\ \A t \in TermsOf(Event) \ terms : Places(RealPMU, t)
         /\ terms # TermsOf(Event) => Splits(Event)

TransformInv == Base /\ Answered /\ SteadySoFar
-----------------------------------------------------------------------------
\* What the definitions of events give to one that is being resolved.
LEMMA EventKnown ==
  ASSUME TypeOK, at \in 1 .. Len(batch), Match(Event)
  PROVE  /\ Event \in JSONEvents /\ Event \in JSONEvent
         /\ at \in 1 .. MaxBatch
         /\ TermsOf(Event) \in SUBSET Terms /\ TermsOf(Event) # {}
         /\ Parses(Event) => Event.unit \in Units
<1> USE TransformAssumption
<1>1. batch \in Seq(JSONEvents \cup {Null}) /\ Len(batch) <= MaxBatch  BY DEF TypeOK
<1>2. Event \in JSONEvents \cup {Null}  BY <1>1 DEF Event
<1>3. Event # Null  BY DEF Match
<1>4. Event \in JSONEvent  BY <1>2, <1>3
<1>5. Event.fixed \in {"no", "event", "any"} /\ Event.fields \in SUBSET (Terms \ {"event"})
      /\ Event.unit \in Units \cup {BadUnit}
  BY <1>4 DEF JSONEvent
<1>6. TermsOf(Event) \in SUBSET Terms /\ TermsOf(Event) # {}
  <2>1. "event" \in Terms /\ "any" \in Terms  BY DEF Terms
  <2>2. CASE Event.fixed = "event"  BY <2>1, <2>2 DEF TermsOf
  <2>3. CASE Event.fixed = "any"  BY <2>1, <2>3 DEF TermsOf
  <2>4. CASE Event.fixed = "no"  BY <2>1, <2>4, <1>5 DEF TermsOf
  <2> QED  BY <1>5, <2>2, <2>3, <2>4
<1>7. Parses(Event) => Event.unit \in Units  BY <1>5 DEF Parses
<1>8. at \in 1 .. MaxBatch  BY <1>1
<1> QED  BY <1>2, <1>3, <1>4, <1>6, <1>7, <1>8

\* The facts a step of resolve starts from.
LEMMA ResolvingKnown ==
  ASSUME Base, Resolving
  PROVE  /\ at \in 1 .. Len(batch) /\ at \in 1 .. MaxBatch
         /\ Match(Event) /\ Parses(Event)
         /\ Event \in JSONEvents
         /\ Event.unit \in Units
         /\ TermsOf(Event) \in SUBSET Terms /\ TermsOf(Event) # {}
         /\ Exact[Event.unit] \in Pmus /\ Single[Event.unit] \in Pmus
         /\ Glob \in Seq(Pmus)
<1> USE TransformAssumption
<1>1. at <= Len(batch) /\ Match(Event) /\ Parses(Event)  BY DEF Base, Current
<1>2. TypeOK  BY DEF Base
<1>3. at \in Nat /\ 1 <= at /\ Len(batch) \in Nat  BY <1>2 DEF TypeOK
<1>4. at \in 1 .. Len(batch)  BY <1>1, <1>3
<1>5. /\ Event \in JSONEvents /\ at \in 1 .. MaxBatch
      /\ TermsOf(Event) \in SUBSET Terms /\ TermsOf(Event) # {}
      /\ Event.unit \in Units
  BY <1>1, <1>2, <1>4, EventKnown
<1>6. Exact[Event.unit] \in Pmus /\ Single[Event.unit] \in Pmus /\ Glob \in Seq(Pmus)
  BY <1>5 DEF Glob
<1> QED  BY <1>1, <1>4, <1>5, <1>6

\* A path that findPMUs looks at is a PMU.
LEMMA GlobKnown ==
  ASSUME Base, Resolving, NEW i \in DOMAIN Glob
  PROVE  Glob[i] \in Pmus /\ i \in Nat
<1>1. Glob \in Seq(Pmus)  BY ResolvingKnown
<1>2. i \in 1 .. Len(Glob) /\ Len(Glob) \in Nat  BY <1>1
<1> QED  BY <1>1, <1>2

\* The first PMU of an event, once it has one.
LEMMA FirstPMU ==
  ASSUME TypeOK, pmus # <<>>
  PROVE  /\ pmus[1] \in Named /\ RealPMU \in Pmus /\ pmus[1][2] \in Types
         /\ 1 \in DOMAIN pmus
         /\ pmus[1] \in Range(pmus) /\ RealPMU \in Dirs
<1>1. pmus \in Seq(Named)  BY DEF TypeOK
<1>2. 1 \in DOMAIN pmus  BY <1>1
<1>3. pmus[1] \in Named  BY <1>1, <1>2
<1>4. pmus[1] \in Range(pmus)  BY <1>2 DEF Range
<1>5. RealPMU \in Dirs  BY <1>4 DEF RealPMU, Dirs
<1> QED  BY <1>2, <1>3, <1>4, <1>5 DEF Named, RealPMU

\* What is present has its type, and the other way round.
LEMMA PresentIs ==
  ASSUME TypeOK, NEW p \in Pmus
  PROVE  /\ sysfs[p] \in Types \cup {Gone}
         /\ sysfs[p] # Gone => <<p, sysfs[p]>> \in Named /\ <<p, sysfs[p]>> \in Present(sysfs)
         /\ \A pt \in Present(sysfs) : pt[1] = p => pt = <<p, sysfs[p]>> /\ sysfs[p] # Gone
<1> USE TransformAssumption
<1>1. sysfs[p] \in Types \cup {Gone}  BY DEF TypeOK
<1>2. sysfs[p] # Gone => <<p, sysfs[p]>> \in Named /\ <<p, sysfs[p]>> \in Present(sysfs)
  BY <1>1 DEF Named, Present
<1>3. ASSUME NEW pt \in Present(sysfs), pt[1] = p  PROVE pt = <<p, sysfs[p]>> /\ sysfs[p] # Gone
  <2>1. pt \in Pmus \X Types /\ sysfs[pt[1]] = pt[2]  BY DEF Present, Named
  <2> QED  BY <2>1, <1>3
<1> QED  BY <1>1, <1>2, <1>3
-----------------------------------------------------------------------------
\* What Append does to a sequence and to its range.
LEMMA AppendKnown ==
  ASSUME NEW S, NEW s \in Seq(S), NEW e \in S
  PROVE  /\ Append(s, e) \in Seq(S) /\ Append(s, e) # <<>>
         /\ Len(s) \in Nat /\ Len(Append(s, e)) = Len(s) + 1
         /\ DOMAIN s = 1 .. Len(s) /\ DOMAIN Append(s, e) = 1 .. Len(s) + 1
         /\ Append(s, e)[Len(s) + 1] = e
         /\ \A k \in 1 .. Len(s) : Append(s, e)[k] = s[k]
         /\ Range(Append(s, e)) = Range(s) \cup {e}
<1> DEFINE w == Append(s, e)
<1>1. /\ w \in Seq(S) /\ w # <<>>
      /\ Len(s) \in Nat /\ Len(w) = Len(s) + 1
      /\ DOMAIN s = 1 .. Len(s) /\ DOMAIN w = 1 .. Len(s) + 1
      /\ w[Len(s) + 1] = e
      /\ \A k \in 1 .. Len(s) : w[k] = s[k]
  OBVIOUS
<1> HIDE DEF w
<1>2. Range(w) = Range(s) \cup {e}
  <2>1. ASSUME NEW x \in Range(w)  PROVE x \in Range(s) \cup {e}
    <3>1. PICK k \in DOMAIN w : w[k] = x  BY <2>1 DEF Range
    <3> QED  BY <1>1, <3>1 DEF Range
  <2>2. ASSUME NEW x \in Range(s)  PROVE x \in Range(w)
    <3>1. PICK k \in DOMAIN s : s[k] = x  BY <2>2 DEF Range
    <3>2. k \in DOMAIN w /\ w[k] = x  BY <1>1, <3>1
    <3> QED  BY <3>2 DEF Range
  <2>3. e \in Range(w)
    <3>1. Len(s) + 1 \in DOMAIN w  BY <1>1
    <3> QED  BY <1>1, <3>1 DEF Range
  <2> QED  BY <2>1, <2>2, <2>3
<1> QED  BY <1>1, <1>2 DEF w

\* Numbers are appended in increasing order.
LEMMA AppendIncreases ==
  ASSUME NEW s, s \in Seq(Nat), NEW n \in Nat, Increasing(s), \A m \in Range(s) : m < n
  PROVE  Increasing(Append(s, n)) /\ Range(Append(s, n)) = Range(s) \cup {n}
<1> DEFINE w == Append(s, n)
<1>1. /\ w \in Seq(Nat) /\ Len(w) = Len(s) + 1 /\ Len(s) \in Nat
      /\ DOMAIN s = 1 .. Len(s) /\ DOMAIN w = 1 .. Len(s) + 1
      /\ w[Len(s) + 1] = n
      /\ \A k \in 1 .. Len(s) : w[k] = s[k]
  OBVIOUS
<1> HIDE DEF w
<1>2. \A k \in DOMAIN s : s[k] < n /\ s[k] \in Nat  BY DEF Range
<1>3. ASSUME NEW j \in DOMAIN w, NEW k \in DOMAIN w, j < k  PROVE w[j] < w[k]
  <2>1. j \in DOMAIN s /\ w[j] = s[j]  BY <1>1, <1>3
  <2>2. CASE k = Len(s) + 1  BY <1>1, <1>2, <2>1, <2>2
  <2>3. CASE k # Len(s) + 1
    <3>1. k \in DOMAIN s /\ w[k] = s[k]  BY <1>1, <2>3
    <3> QED  BY <2>1, <3>1, <1>3 DEF Increasing
  <2> QED  BY <2>2, <2>3
<1>4. Increasing(w)  BY <1>3 DEF Increasing
<1>5. Range(w) = Range(s) \cup {n}  BY <1>1 DEF Range
<1> QED  BY <1>4, <1>5 DEF w

\* The positions of the events resolved so far.
LEMMA PositionsKnown ==
  ASSUME TypeOK, NEW r \in [of : 1 .. MaxBatch, pmus : Seq(Named), uncore : BOOLEAN, attr : Attrs]
  PROVE  /\ Positions(perfEvents) \in Seq(Nat)
         /\ errors \in Seq(Nat)
         /\ Positions(Append(perfEvents, r)) = Append(Positions(perfEvents), r.of)
<1> USE TransformAssumption
<1> DEFINE R == [of : 1 .. MaxBatch, pmus : Seq(Named), uncore : BOOLEAN, attr : Attrs]
           s == perfEvents
           w == Append(s, r)
           P == [k \in 1 .. Len(s) |-> s[k].of]
<1>1. s \in Seq(R) /\ errors \in Seq(1 .. MaxBatch)  BY DEF TypeOK
<1>2. \A q \in R : q.of \in Nat  OBVIOUS
<1> r \in R  OBVIOUS
<1> HIDE DEF R
<1>3. /\ DOMAIN s = 1 .. Len(s) /\ Len(s) \in Nat /\ \A k \in 1 .. Len(s) : s[k] \in R
      /\ DOMAIN w = 1 .. Len(s) + 1 /\ w[Len(s) + 1] = r
      /\ \A k \in 1 .. Len(s) : w[k] = s[k]
  BY <1>1
<1> HIDE DEF s, w
<1>4. P \in Seq(Nat) /\ Len(P) = Len(s)
  <2>1. \A k \in 1 .. Len(s) : s[k].of \in Nat  BY <1>2, <1>3
  <2> QED  BY <2>1, <1>3
<1>5. Positions(s) = P  BY <1>3 DEF Positions
<1>6. r.of \in Nat  OBVIOUS
<1>7. Positions(w) = [k \in 1 .. Len(s) + 1 |-> w[k].of]  BY <1>3 DEF Positions
<1>8. Append(P, r.of) = [k \in 1 .. Len(s) + 1 |-> IF k = Len(s) + 1 THEN r.of ELSE P[k]]
  BY <1>4, <1>6, <1>3
<1>9. \A k \in 1 .. Len(s) + 1 : w[k].of = IF k = Len(s) + 1 THEN r.of ELSE P[k]
  BY <1>3
<1>10. Positions(w) = Append(P, r.of)  BY <1>7, <1>8, <1>9
<1>11. errors \in Seq(Nat)  BY <1>1
<1> QED  BY <1>4, <1>5, <1>10, <1>11 DEF s, w

\* An event that is done leaves nothing behind for the next one.
LEMMA NothingKept ==
  ASSUME NewPerfEvent, pc' \in {"idle", "next"}
  PROVE  Current' /\ Clean' /\ History' /\ Found' /\ AttrSoFar' /\ SteadySoFar'
<1>1. ~Resolving'  BY DEF Resolving
<1> QED  BY <1>1 DEF NewPerfEvent, Current, Clean, History, Found, AttrSoFar, SteadySoFar

\* An event that matches and that is answered at last: by an error ...
LEMMA CollectAnswers ==
  ASSUME TypeOK, Answered, at \in 1 .. Len(batch), Match(Event), Collect
  PROVE  TypeOK' /\ Answered' /\ pc' = "next" /\ NewPerfEvent
<1> USE TransformAssumption
<1>1. /\ errors' = Append(errors, at) /\ at' = at + 1 /\ pc' = "next" /\ NewPerfEvent
      /\ UNCHANGED <<sysfs, changes, batch, names, perfEvents>>
  BY DEF Collect
<1>2. /\ at \in 1 .. MaxBatch /\ at \in Nat /\ Len(batch) \in Nat /\ Len(batch) <= MaxBatch
      /\ errors \in Seq(1 .. MaxBatch) /\ DOMAIN batch = 1 .. Len(batch)
  BY DEF TypeOK
<1>3. TypeOK'
  <2>1. errors' \in Seq(1 .. MaxBatch)  BY <1>1, <1>2
  <2>2. at' \in 1 .. (MaxBatch + 1)  BY <1>1, <1>2
  <2>3. /\ paths' \in SUBSET Nat /\ uncore' \in BOOLEAN /\ attr' \in Attrs /\ terms' \in SUBSET Terms
        /\ seen' \in SUBSET Named /\ stayed' \in SUBSET Named
    BY <1>1 DEF NewPerfEvent, Attrs
  <2>4. pmus' \in Seq(Named)  BY <1>1 DEF NewPerfEvent
  <2> QED  BY <1>1, <2>1, <2>2, <2>3, <2>4 DEF TypeOK
<1>4. Answered'
  <2> DEFINE done == Range(Positions(perfEvents))
             Upto(n) == {i \in 1 .. n - 1 : i \in DOMAIN batch /\ Match(batch[i])}
  <2>1. /\ Increasing(Positions(perfEvents)) /\ Increasing(errors)
        /\ done \cap Range(errors) = {}
        /\ done \cup Range(errors) = Upto(at)
    BY DEF Answered
  <2>2. \A m \in Range(errors) : m < at  BY <2>1, <1>2
  <2>3. at \notin done /\ at \notin Range(errors)  BY <2>1, <1>2
  <2>4. errors \in Seq(Nat)  BY <1>2
  <2>5. Increasing(errors') /\ Range(errors') = Range(errors) \cup {at}
    BY <2>1, <2>2, <2>4, <1>1, <1>2, AppendIncreases
  <2>6. Upto(at + 1) = Upto(at) \cup {at}  BY <1>2 DEF Event
  <2>7. done' = done /\ Positions(perfEvents)' = Positions(perfEvents)  BY <1>1
  <2>8. Upto(at + 1) = {i \in 1 .. at' - 1 : i \in DOMAIN batch' /\ Match(batch[i])'}
    BY <1>1 DEF Match
  <2> HIDE DEF done, Upto
  <2>9. done' \cap Range(errors') = {}  BY <2>1, <2>3, <2>5, <2>7
  <2>10. done' \cup Range(errors') = Upto(at + 1)  BY <2>1, <2>5, <2>6, <2>7
  <2> QED  BY <2>1, <2>5, <2>7, <2>8, <2>9, <2>10 DEF Answered, done
<1> QED  BY <1>1, <1>3, <1>4

\* ... or as a PerfEvent.
LEMMA AddEventAnswers ==
  ASSUME TypeOK, Answered, at \in 1 .. Len(batch), Match(Event), NEW a \in Attrs,
         AddEvent(a), UNCHANGED <<sysfs, changes, batch, names, errors>>
  PROVE  /\ TypeOK' /\ Answered' /\ pc' = "next" /\ NewPerfEvent
         /\ Len(perfEvents') = Len(perfEvents) + 1
         /\ Result = [of |-> at, pmus |-> pmus, uncore |-> uncore, attr |-> a]
<1> USE TransformAssumption
<1> DEFINE r == [of |-> at, pmus |-> pmus, uncore |-> uncore, attr |-> a]
           R == [of : 1 .. MaxBatch, pmus : Seq(Named), uncore : BOOLEAN, attr : Attrs]
<1>1. perfEvents' = Append(perfEvents, r) /\ at' = at + 1 /\ pc' = "next" /\ NewPerfEvent
  BY DEF AddEvent
<1>2. /\ at \in 1 .. MaxBatch /\ at \in Nat /\ Len(batch) \in Nat /\ Len(batch) <= MaxBatch
      /\ perfEvents \in Seq(R) /\ DOMAIN batch = 1 .. Len(batch)
      /\ errors \in Seq(1 .. MaxBatch)
  BY DEF TypeOK
<1>3. r \in R  BY <1>2 DEF TypeOK
<1>4. TypeOK'
  <2>1. perfEvents' \in Seq(R)  BY <1>1, <1>2, <1>3
  <2>2. at' \in 1 .. (MaxBatch + 1)  BY <1>1, <1>2
  <2>3. /\ paths' \in SUBSET Nat /\ uncore' \in BOOLEAN /\ attr' \in Attrs /\ terms' \in SUBSET Terms
        /\ seen' \in SUBSET Named /\ stayed' \in SUBSET Named
    BY <1>1 DEF NewPerfEvent, Attrs
  <2>4. pmus' \in Seq(Named)  BY <1>1 DEF NewPerfEvent
  <2> QED  BY <1>1, <2>1, <2>2, <2>3, <2>4 DEF TypeOK
<1>5. Answered'
  <2> DEFINE done == Range(Positions(perfEvents))
             Upto(n) == {i \in 1 .. n - 1 : i \in DOMAIN batch /\ Match(batch[i])}
  <2>1. /\ Increasing(Positions(perfEvents)) /\ Increasing(errors)
        /\ done \cap Range(errors) = {}
        /\ done \cup Range(errors) = Upto(at)
    BY DEF Answered
  <2>2. \A m \in done : m < at  BY <2>1, <1>2
  <2>3. at \notin done /\ at \notin Range(errors)  BY <2>1, <1>2
  <2>4. /\ Positions(perfEvents) \in Seq(Nat)
        /\ Positions(perfEvents') = Append(Positions(perfEvents), r.of)
    BY <1>1, <1>3, PositionsKnown
  <2>5. r.of = at  OBVIOUS
  <2>6. Increasing(Positions(perfEvents')) /\ Range(Positions(perfEvents')) = done \cup {at}
    BY <2>1, <2>2, <2>4, <2>5, <1>2, AppendIncreases
  <2>7. Upto(at + 1) = Upto(at) \cup {at}  BY <1>2 DEF Event
  <2>8. Upto(at + 1) = {i \in 1 .. at' - 1 : i \in DOMAIN batch' /\ Match(batch[i])'}
    BY <1>1 DEF Match
  <2>9. errors' = errors  OBVIOUS
  <2> HIDE DEF done, Upto
  <2>10. Range(Positions(perfEvents')) \cap Range(errors') = {}  BY <2>1, <2>3, <2>6, <2>9
  <2>11. Range(Positions(perfEvents')) \cup Range(errors') = Upto(at + 1)  BY <2>1, <2>6, <2>7, <2>9
  <2> QED  BY <2>1, <2>6, <2>8, <2>9, <2>10, <2>11 DEF Answered, done
<1>6. Len(perfEvents') = Len(perfEvents) + 1 /\ Result = r
  <2>1. /\ Len(perfEvents') = Len(perfEvents) + 1
        /\ perfEvents'[Len(perfEvents) + 1] = r
    BY <1>1, <1>2, <1>3
  <2> QED  BY <2>1 DEF Result
<1> QED  BY <1>1, <1>4, <1>5, <1>6
-----------------------------------------------------------------------------
\* A step within resolve keeps the event, its history and what was answered.
LEMMA SameEvent ==
  ASSUME Base, Answered, Resolving, pc' \in {"single", "glob", "types", "cpumask", "scan", "terms"},
         UNCHANGED <<sysfs, changes, batch, names, at, perfEvents, errors, seen, stayed>>
  PROVE  /\ Resolving' /\ Event' = Event /\ Glob' = Glob
         /\ Current' /\ Clean' /\ History' /\ Answered'
<1>1. Resolving'  BY DEF Resolving
<1>2. Event' = Event /\ Glob' = Glob  BY DEF Event, Glob
<1>3. Current'
  <2>1. at <= Len(batch) /\ Match(Event) /\ Parses(Event)  BY DEF Base, Current
  <2>2. Match(Event)' /\ Parses(Event)'  BY <2>1, <1>2 DEF Match, Parses
  <2> QED  BY <2>1, <2>2 DEF Current
<1>4. Clean'  BY <1>1 DEF Clean
<1>5. History'
  <2>1. stayed \subseteq Present(sysfs) /\ Present(sysfs) \subseteq seen  BY DEF Base, History
  <2>2. Present(sysfs)' = Present(sysfs)  BY DEF Present
  <2> QED  BY <2>1, <2>2 DEF History
<1>6. Answered'  BY DEF Answered, Positions, Increasing, Match
<1> QED  BY <1>1, <1>2, <1>3, <1>4, <1>5, <1>6

\* One of the two names of a PMU without a number.
LEMMA TryKeeps ==
  ASSUME Base, Answered, pc \in {"exact", "single"},
         NEW dir \in {Exact[Event.unit], Single[Event.unit]},
         NEW otherwise \in {"single", "glob"},
         Try(dir, otherwise)
  PROVE  Base' /\ Answered'
<1>1. Resolving  BY DEF Resolving
<1>2. dir \in Pmus  BY <1>1, ResolvingKnown
<1>3. TypeOK /\ pmus = <<>> /\ paths = {} /\ terms = TermsOf(Event) /\ attr = {} /\ uncore = FALSE
  BY <1>1 DEF Base, Found, AttrSoFar
<1>4. /\ UNCHANGED <<sysfs, changes, batch, names, at, paths, uncore, attr, terms,
                      perfEvents, errors, seen, stayed>>
      /\ pc' \in {"single", "glob", "cpumask"}
  BY DEF Try
<1>5. Resolving' /\ Event' = Event /\ Current' /\ Clean' /\ History' /\ Answered'
  BY <1>1, <1>4, SameEvent
<1>6. AttrSoFar'
  <2>1. TermsOf(Event)' = TermsOf(Event)  BY <1>5
  <2> QED  BY <1>3, <1>4, <1>5, <2>1 DEF AttrSoFar
<1>7. CASE sysfs[dir] # Gone
  <2>1. pmus' = <<<<dir, sysfs[dir]>>>> /\ pc' = "cpumask"  BY <1>7 DEF Try
  <2>2. <<dir, sysfs[dir]>> \in Named /\ <<dir, sysfs[dir]>> \in Present(sysfs)
    BY <1>2, <1>3, <1>7, PresentIs
  <2>3. /\ pmus' \in Seq(Named) /\ Len(pmus') = 1 /\ pmus'[1] = <<dir, sysfs[dir]>>
        /\ DOMAIN pmus' = {1} /\ pmus' # <<>>
    BY <2>1, <2>2
  <2>4. Range(pmus') \subseteq seen'
    BY <1>1, <1>4, <2>2, <2>3 DEF Range, Base, History
  <2>5. OneNamed'  BY <1>5, <2>3 DEF OneNamed, RealPMU
  <2>6. Found'  BY <1>3, <1>4, <2>1, <2>3, <2>4, <2>5 DEF Found
  <2>7. TypeOK'  BY <1>3, <1>4, <2>3 DEF TypeOK
  <2> QED  BY <1>5, <1>6, <2>6, <2>7 DEF Base
<1>8. CASE sysfs[dir] = Gone
  <2>1. pmus' = <<>> /\ pc' = otherwise  BY <1>3, <1>8 DEF Try
  <2>2. Range(pmus') = {}  BY <2>1 DEF Range
  <2>3. Found'  BY <1>3, <1>4, <2>1, <2>2 DEF Found
  <2>4. TypeOK'  BY <1>3, <1>4, <2>1 DEF TypeOK
  <2> QED  BY <1>5, <1>6, <2>3, <2>4 DEF Base
<1> QED  BY <1>7, <1>8

LEMMA FindExactKeeps ==
  ASSUME Base, Answered, FindExact  PROVE Base' /\ Answered'
BY TryKeeps DEF FindExact

LEMMA FindSingleKeeps ==
  ASSUME Base, Answered, FindSingle  PROVE Base' /\ Answered'
BY TryKeeps DEF FindSingle

\* glob found numbered PMUs; an event without one is answered by an error.
LEMMA FindNumberedKeeps ==
  ASSUME Base, Answered, FindNumbered  PROVE Base' /\ Answered'
<1> DEFINE found == Verified(Glob)
<1>1. Resolving /\ pc = "glob"  BY DEF FindNumbered, Resolving
<1>2. TypeOK /\ pmus = <<>> /\ paths = {} /\ terms = TermsOf(Event) /\ attr = {} /\ uncore = FALSE
  BY <1>1 DEF Base, Found, AttrSoFar
<1>3. CASE found = {}
  <2>1. Collect  BY <1>3 DEF FindNumbered, Glob
  <2>2. TypeOK' /\ Answered' /\ pc' = "next" /\ NewPerfEvent
    BY <1>1, <1>2, <2>1, ResolvingKnown, CollectAnswers
  <2> QED  BY <2>2, NothingKept DEF Base
<1>4. CASE found # {}
  <2>1. /\ paths' = found /\ pc' = "types"
        /\ UNCHANGED <<sysfs, changes, batch, names, at, pmus, uncore, attr, terms,
                        perfEvents, errors, seen, stayed>>
    BY <1>4 DEF FindNumbered, Glob
  <2>2. Resolving' /\ Event' = Event /\ Glob' = Glob /\ Current' /\ Clean' /\ History' /\ Answered'
    BY <1>1, <2>1, SameEvent
  <2>3. AttrSoFar'  BY <1>2, <2>1, <2>2 DEF AttrSoFar
  <2>4. Glob \in Seq(Pmus) /\ \A i \in DOMAIN Glob : Glob[i] \in Pmus /\ i \in Nat
    BY <1>1, ResolvingKnown, GlobKnown
  <2>5. TypeOK'
    <3>1. paths' \in SUBSET Nat  BY <2>1, <2>4 DEF Verified
    <3> QED  BY <1>2, <2>1, <3>1 DEF TypeOK
  <2>6. NumberedSoFar'
    <3>1. pmus' = <<>> /\ Dirs' = {}  BY <1>2, <2>1 DEF Dirs, Range
    <3>2. \A i \in paths' : i \in DOMAIN Glob' /\ Glob'[i] \in OnlyDigits
      BY <2>1, <2>2 DEF Verified
    <3>3. ASSUME NEW pt \in stayed', pt[1] \in Numbered(Event'.unit)
          PROVE  \E i \in paths' : Glob'[i] = pt[1]
      <4>1. pt \in Present(sysfs)  BY <1>1, <2>1 DEF Base, History
      <4>2. pt[1] \in Range(Glob) /\ pt[1] \in OnlyDigits  BY <2>2, <3>3 DEF Numbered, Glob
      <4>3. PICK i \in DOMAIN Glob : Glob[i] = pt[1]  BY <4>2 DEF Range
      <4>4. sysfs[Glob[i]] # Gone  BY <1>2, <2>4, <4>1, <4>3, PresentIs
      <4> QED  BY <2>1, <2>2, <4>2, <4>3, <4>4 DEF Verified
    <3> QED  BY <3>1, <3>2, <3>3 DEF NumberedSoFar
  <2>7. Found'
    <3>1. pmus' = <<>> /\ Range(pmus') = {}  BY <1>2, <2>1 DEF Range
    <3> QED  BY <1>4, <2>1, <2>6, <3>1 DEF Found
  <2> QED  BY <2>2, <2>3, <2>5, <2>7 DEF Base
<1> QED  BY <1>3, <1>4
\* The type of the next numbered PMU.
LEMMA AddPMUKeeps ==
  ASSUME Base, Answered, pc = "types",
         NEW i \in paths, \A j \in paths : i <= j,
         sysfs[Glob[i]] # Gone, AddPMU(i, Glob[i])
  PROVE  /\ Base' /\ Answered'
         /\ Dirs' = Dirs \cup {Glob[i]}
         /\ NumberedSoFar' /\ Event' = Event /\ Glob' = Glob
<1> USE TransformAssumption
<1> DEFINE dir == Glob[i]
           pmu == <<dir, sysfs[dir]>>
<1>1. Resolving  BY DEF Resolving
<1>2. /\ TypeOK /\ NumberedSoFar /\ terms = TermsOf(Event) /\ attr = {} /\ uncore = FALSE
      /\ Range(pmus) \subseteq seen
      /\ \A j, k \in DOMAIN pmus : pmus[j][1] = pmus[k][1] => j = k
  BY <1>1 DEF Base, Found, AttrSoFar
<1>3. /\ pmus' = Append(pmus, pmu) /\ paths' = paths \ {i}
      /\ pc' = IF paths = {i} THEN "cpumask" ELSE "types"
      /\ UNCHANGED <<sysfs, changes, batch, names, at, uncore, attr, terms,
                      perfEvents, errors, seen, stayed>>
  BY DEF AddPMU
<1>4. Resolving' /\ Event' = Event /\ Glob' = Glob /\ Current' /\ Clean' /\ History' /\ Answered'
  BY <1>1, <1>3, SameEvent
<1>5. AttrSoFar'  BY <1>2, <1>3, <1>4 DEF AttrSoFar
<1>6. i \in DOMAIN Glob /\ dir \in OnlyDigits  BY <1>2 DEF NumberedSoFar
<1>7. /\ dir \in Pmus /\ Glob \in Seq(Pmus) /\ Event.unit \in Units
      /\ \A j \in DOMAIN Glob : j \in Nat
  BY <1>1, <1>6, GlobKnown, ResolvingKnown
<1>8. \A j, k \in DOMAIN Glob : Glob[j] = Glob[k] => j = k  BY <1>7 DEF IsInjective, Glob
<1>9. pmu \in Named /\ pmu \in Present(sysfs)  BY <1>2, <1>7, PresentIs
<1>10. /\ pmus \in Seq(Named) /\ pmus' \in Seq(Named) /\ pmus' # <<>>
       /\ Len(pmus') = Len(pmus) + 1 /\ Len(pmus) \in Nat
       /\ DOMAIN pmus = 1 .. Len(pmus) /\ DOMAIN pmus' = 1 .. Len(pmus) + 1
       /\ pmus'[Len(pmus) + 1] = pmu
       /\ \A k \in 1 .. Len(pmus) : pmus'[k] = pmus[k]
       /\ Range(pmus') = Range(pmus) \cup {pmu}
  <2>1. pmus \in Seq(Named)  BY <1>2 DEF TypeOK
  <2> HIDE DEF pmu
  <2> QED  BY ONLY <2>1, <1>3, <1>9, AppendKnown
<1> HIDE DEF dir, pmu
<1>11. Range(pmus') = Range(pmus) \cup {pmu}  BY <1>10
<1>12. pmu[1] = dir  BY DEF pmu
<1>13. Dirs' = Dirs \cup {dir}  BY <1>11, <1>12 DEF Dirs
<1>14. dir \notin Dirs /\ Dirs \subseteq Numbered(Event.unit)  BY <1>2 DEF NumberedSoFar, dir
<1>15. \A k \in DOMAIN pmus : pmus[k][1] \in Dirs  BY DEF Dirs, Range
<1>16. dir \in Numbered(Event.unit)  BY <1>6 DEF Numbered, Range, Glob, dir
<1>17. NumberedSoFar'
  <2>1. \A k \in paths' : k \in DOMAIN Glob' /\ Glob'[k] \in OnlyDigits
    BY <1>2, <1>3, <1>4 DEF NumberedSoFar
  <2>2. Dirs' \subseteq Numbered(Event'.unit)  BY <1>4, <1>13, <1>14, <1>16
  <2>3. \A k \in paths' : Glob'[k] \notin Dirs'
    <3> TAKE k \in paths'
    <3>1. k \in paths /\ k # i /\ k \in DOMAIN Glob  BY <1>2, <1>3 DEF NumberedSoFar
    <3>2. Glob[k] \notin Dirs  BY <1>2, <3>1 DEF NumberedSoFar
    <3>3. Glob[k] # dir  BY <1>6, <1>8, <3>1 DEF dir
    <3> QED  BY <1>4, <1>13, <3>2, <3>3
  <2>4. ASSUME NEW pt \in stayed', pt[1] \in Numbered(Event'.unit)
        PROVE  pt \in Range(pmus') \/ \E k \in paths' : Glob'[k] = pt[1]
    <3>1. pt \in stayed /\ pt[1] \in Numbered(Event.unit)  BY <1>3, <1>4, <2>4
    <3>2. CASE pt \in Range(pmus)  BY <1>11, <3>2
    <3>3. CASE \E k \in paths : Glob[k] = pt[1]
      <4>1. PICK k \in paths : Glob[k] = pt[1]  BY <3>3
      <4>2. CASE k = i
        <5>1. pt \in Present(sysfs)  BY <1>1, <3>1 DEF Base, History
        <5>2. pt = pmu  BY <1>2, <1>7, <4>1, <4>2, <5>1, PresentIs DEF dir, pmu
        <5> QED  BY <1>11, <5>2
      <4>3. CASE k # i  BY <1>3, <1>4, <4>1, <4>3
      <4> QED  BY <4>2, <4>3
    <3> QED  BY <1>2, <3>1, <3>2, <3>3 DEF NumberedSoFar
  <2>5. \E j \in DOMAIN Glob' :
          /\ Glob'[j] = RealPMU'
          /\ \A k \in DOMAIN Glob' : k \in paths' \/ Glob'[k] \in Dirs' => j <= k
    <3>1. CASE pmus = <<>>
      <4>1. RealPMU' = dir /\ Dirs = {}  BY <1>10, <1>12, <3>1 DEF RealPMU, Dirs, Range
      <4>2. ASSUME NEW k \in DOMAIN Glob, k \in paths' \/ Glob[k] \in Dirs'  PROVE i <= k
        <5>1. CASE k \in paths'  BY <1>3, <5>1
        <5>2. CASE Glob[k] \in Dirs'
          <6>1. k = i  BY <1>6, <1>8, <1>13, <4>1, <5>2 DEF dir
          <6> QED  BY <1>6, <1>7, <6>1
        <5> QED  BY <4>2, <5>1, <5>2
      <4> QED  BY <1>4, <1>6, <4>1, <4>2 DEF dir
    <3>2. CASE pmus # <<>>
      <4>1. PICK j \in DOMAIN Glob :
              /\ Glob[j] = RealPMU
              /\ \A k \in DOMAIN Glob : k \in paths \/ Glob[k] \in Dirs => j <= k
        BY <1>2, <3>2 DEF NumberedSoFar
      <4>2. RealPMU' = RealPMU  BY <1>10, <3>2 DEF RealPMU
      <4>3. ASSUME NEW k \in DOMAIN Glob, k \in paths' \/ Glob[k] \in Dirs'  PROVE j <= k
        <5>1. CASE k \in paths' \/ Glob[k] \in Dirs  BY <1>3, <4>1, <5>1
        <5>2. CASE Glob[k] = dir
          <6>1. k = i  BY <1>6, <1>8, <5>2 DEF dir
          <6> QED  BY <4>1, <6>1
        <5> QED  BY <1>13, <4>3, <5>1, <5>2
      <4> QED  BY <1>4, <4>1, <4>2, <4>3
    <3> QED  BY <3>1, <3>2
  <2> QED  BY <2>1, <2>2, <2>3, <2>4, <2>5 DEF NumberedSoFar
<1>18. Found'
  <2>1. Range(pmus') \subseteq seen'  BY <1>1, <1>2, <1>3, <1>9, <1>11 DEF Base, History
  <2>2. \A j, k \in DOMAIN pmus' : pmus'[j][1] = pmus'[k][1] => j = k
    BY <1>2, <1>10, <1>12, <1>14, <1>15
  <2>3. paths' = {} <=> pc' # "types"  BY <1>3
  <2>4. pc' \in {"types", "cpumask"}  BY <1>3
  <2> QED  BY <1>10, <1>17, <2>1, <2>2, <2>3, <2>4 DEF Found
<1>19. TypeOK'
  <2>1. paths' \in SUBSET Nat  BY <1>2, <1>3 DEF TypeOK
  <2> QED  BY <1>2, <1>3, <1>10, <2>1 DEF TypeOK
<1> QED  BY <1>4, <1>5, <1>13, <1>17, <1>18, <1>19 DEF Base, dir

LEMMA ReadTypeKeeps ==
  ASSUME Base, Answered, ReadType  PROVE Base' /\ Answered'
<1>1. pc = "types" /\ Resolving  BY DEF ReadType, Resolving
<1>2. PICK i \in paths :
        /\ \A j \in paths : i <= j
        /\ IF sysfs[Glob[i]] = Gone THEN Collect ELSE AddPMU(i, Glob[i])
  BY DEF ReadType, Glob
<1>3. CASE sysfs[Glob[i]] = Gone
  <2>1. Collect  BY <1>2, <1>3
  <2>2. TypeOK' /\ Answered' /\ pc' = "next" /\ NewPerfEvent
    BY <1>1, <2>1, ResolvingKnown, CollectAnswers DEF Base
  <2> QED  BY <2>2, NothingKept DEF Base
<1>4. CASE sysfs[Glob[i]] # Gone
  <2>1. AddPMU(i, Glob[i])  BY <1>2, <1>4
  <2> QED  BY <1>1, <1>2, <1>4, <2>1, AddPMUKeeps
<1> QED  BY <1>3, <1>4
-----------------------------------------------------------------------------
\* What findPMUs found stays as it was in the steps after it.
LEMMA FoundKept ==
  ASSUME Base, pc \in {"cpumask", "scan", "terms"}, pc' \in {"scan", "terms"}, Event' = Event,
         UNCHANGED <<paths, pmus, seen, stayed>>
  PROVE  Found' /\ RealPMU' = RealPMU /\ pmus # <<>>
<1>1. Resolving  BY DEF Resolving
<1>2. Found  BY DEF Base
<1>3. RealPMU' = RealPMU /\ Dirs' = Dirs /\ Glob' = Glob  BY DEF RealPMU, Dirs, Glob
<1>4. (OneNamed => OneNamed') /\ (NumberedSoFar => NumberedSoFar')
  BY <1>3 DEF OneNamed, NumberedSoFar
<1>5. pmus # <<>> /\ paths = {} /\ (OneNamed \/ NumberedSoFar)  BY <1>1, <1>2 DEF Found
<1> QED  BY <1>1, <1>2, <1>3, <1>4, <1>5 DEF Found

LEMMA ValidateCpumaskKeeps ==
  ASSUME Base, Answered, ValidateCpumask  PROVE Base' /\ Answered'
<1>1. Resolving /\ pc = "cpumask"  BY DEF ValidateCpumask, Resolving
<1>2. /\ TypeOK /\ terms = TermsOf(Event) /\ attr = {} /\ uncore = FALSE /\ pmus # <<>>
      /\ TermsOf(Event) # {}
  BY <1>1, ResolvingKnown DEF Base, Found, AttrSoFar
<1>3. CASE sysfs[RealPMU] # Gone /\ Cpumask[RealPMU] = "unreadable"
  <2>1. Collect  BY <1>3 DEF ValidateCpumask
  <2>2. TypeOK' /\ Answered' /\ pc' = "next" /\ NewPerfEvent
    BY <1>1, <2>1, ResolvingKnown, CollectAnswers DEF Base
  <2> QED  BY <2>2, NothingKept DEF Base
<1>4. CASE ~(sysfs[RealPMU] # Gone /\ Cpumask[RealPMU] = "unreadable")
  <2>1. /\ pc' = IF sysfs[RealPMU] = Gone \/ Cpumask[RealPMU] = "missing" THEN "terms" ELSE "scan"
        /\ UNCHANGED <<sysfs, changes, batch, names, at, resolveVars, perfEvents, errors, seen, stayed>>
    BY <1>4 DEF ValidateCpumask
  <2>2. UNCHANGED <<paths, pmus, uncore, attr, terms, seen, stayed>>  BY <2>1 DEF resolveVars
  <2>3. pc' \in {"scan", "terms"}  BY <2>1
  <2>4. Resolving' /\ Event' = Event /\ Current' /\ Clean' /\ History' /\ Answered'
    BY <1>1, <2>1, <2>3, SameEvent
  <2>5. Found' /\ RealPMU' = RealPMU  BY <1>1, <2>2, <2>3, <2>4, FoundKept
  <2>6. TypeOK'  BY <1>2, <2>1, <2>2, <2>3 DEF TypeOK
  <2>7. AttrSoFar'
    <3>1. CASE pc' = "scan"  BY <1>2, <2>2, <2>4, <3>1 DEF AttrSoFar
    <3>2. CASE pc' = "terms"
      <4>1. sysfs[RealPMU] = Gone \/ Cpumask[RealPMU] = "missing"  BY <2>1, <3>2
      <4>2. pmus[1] \in stayed => Cpumask[RealPMU] = "missing"
        <5>1. stayed \subseteq Present(sysfs)  BY <1>1 DEF Base, History
        <5>2. RealPMU \in Pmus  BY <1>2, FirstPMU
        <5>3. pmus[1] \in Present(sysfs) => sysfs[RealPMU] # Gone
          BY <1>2, <5>2, PresentIs DEF RealPMU
        <5> QED  BY <4>1, <5>1, <5>3
      <4>3. TermsOf(Event)' = TermsOf(Event)  BY <2>4
      <4>4. attr' = {Place(RealPMU', t) : t \in TermsOf(Event') \ terms'}
        BY <1>2, <2>2, <4>3
      <4> QED  BY <1>2, <2>2, <2>4, <2>5, <3>2, <4>2, <4>3, <4>4 DEF AttrSoFar
    <3> QED  BY <2>3, <3>1, <3>2
  <2> QED  BY <2>4, <2>5, <2>6, <2>7 DEF Base
<1> QED  BY <1>3, <1>4

LEMMA ScanCpumaskKeeps ==
  ASSUME Base, Answered, ScanCpumask  PROVE Base' /\ Answered'
<1>1. Resolving /\ pc = "scan"  BY DEF ScanCpumask, Resolving
<1>2. /\ TypeOK /\ terms = TermsOf(Event) /\ attr = {} /\ pmus # <<>>
      /\ TermsOf(Event) # {}
  BY <1>1, ResolvingKnown DEF Base, Found, AttrSoFar
<1>3. CASE sysfs[RealPMU] = Gone
  <2>1. Collect  BY <1>3 DEF ScanCpumask
  <2>2. TypeOK' /\ Answered' /\ pc' = "next" /\ NewPerfEvent
    BY <1>1, <2>1, ResolvingKnown, CollectAnswers DEF Base
  <2> QED  BY <2>2, NothingKept DEF Base
<1>4. CASE sysfs[RealPMU] # Gone
  <2>1. /\ uncore' = (Cpumask[RealPMU] = "zero")
        /\ pc' = "terms"
        /\ UNCHANGED <<sysfs, changes, batch, names, at, paths, pmus, attr, terms,
                        perfEvents, errors, seen, stayed>>
    BY <1>4 DEF ScanCpumask
  <2>2. Resolving' /\ Event' = Event /\ Current' /\ Clean' /\ History' /\ Answered'
    BY <1>1, <2>1, SameEvent
  <2>3. Found' /\ RealPMU' = RealPMU  BY <1>1, <2>1, <2>2, FoundKept
  <2>4. TypeOK'
    <3>1. uncore' \in BOOLEAN  BY <2>1
    <3> QED  BY <1>2, <2>1, <3>1 DEF TypeOK
  <2>5. AttrSoFar'
    <3>1. TermsOf(Event)' = TermsOf(Event)  BY <2>2
    <3>2. attr' = {Place(RealPMU', t) : t \in TermsOf(Event') \ terms'}
      BY <1>2, <2>1, <3>1
    <3>3. uncore' = (Cpumask[RealPMU'] = "zero")  BY <2>1, <2>3
    <3> QED  BY <1>2, <2>1, <2>2, <3>1, <3>2, <3>3 DEF AttrSoFar
  <2> QED  BY <2>2, <2>3, <2>4, <2>5 DEF Base
<1> QED  BY <1>3, <1>4

\* Where a term goes is a field of Attr.
LEMMA PlaceKnown ==
  ASSUME NEW p \in Pmus, NEW t \in Terms, Places(p, t)
  PROVE  Place(p, t) \in {"config", "config1", "config2", "sample"} \X Terms
<1>1. CASE t = "period"  BY <1>1 DEF Place
<1>2. CASE t # "period"
  <2>1. t \in DOMAIN Format[p] /\ Format[p][t] # "bad"  BY <1>2 DEF Places, HasFormat
  <2>2. Format[p] \in [DOMAIN Format[p] -> Configs]  BY TransformAssumption
  <2>3. Format[p][t] \in Configs  BY <2>1, <2>2
  <2> QED  BY <1>2, <2>1, <2>3 DEF Place, Configs
<1> QED  BY <1>1, <1>2

LEMMA ParseTermKeeps ==
  ASSUME Base, Answered, ParseTerm  PROVE Base' /\ Answered'
<1>1. Resolving /\ pc = "terms"  BY DEF ParseTerm, Resolving
<1>2. /\ TypeOK /\ terms \subseteq TermsOf(Event) /\ pmus # <<>>
      /\ attr = {Place(RealPMU, t) : t \in TermsOf(Event) \ terms}
      /\ pmus[1] \in stayed => uncore = (Cpumask[RealPMU] = "zero")
      /\ TermsOf(Event) \in SUBSET Terms
  BY <1>1, ResolvingKnown DEF Base, Found, AttrSoFar
<1> DEFINE A(t) == attr \cup {Place(RealPMU, t)}
<1>3. PICK t \in terms :
        IF ~Splits(Event) \/ ~Places(RealPMU, t)
        THEN Collect
        ELSE /\ IF terms = {t}
                THEN AddEvent(A(t))
                ELSE /\ attr' = A(t)
                     /\ terms' = terms \ {t}
                     /\ UNCHANGED <<pc, at, paths, pmus, uncore, seen, stayed, perfEvents>>
             /\ UNCHANGED <<sysfs, changes, batch, names, errors>>
  BY DEF ParseTerm
<1>4. CASE ~Splits(Event) \/ ~Places(RealPMU, t)
  <2>1. Collect  BY <1>3, <1>4
  <2>2. TypeOK' /\ Answered' /\ pc' = "next" /\ NewPerfEvent
    BY <1>1, <2>1, ResolvingKnown, CollectAnswers DEF Base
  <2> QED  BY <2>2, NothingKept DEF Base
<1>5. CASE Splits(Event) /\ Places(RealPMU, t)
  <2>1. A(t) \in Attrs
    <3>1. RealPMU \in Pmus  BY <1>2, FirstPMU
    <3>2. Place(RealPMU, t) \in {"config", "config1", "config2", "sample"} \X Terms
      BY <1>2, <1>5, <3>1, PlaceKnown
    <3>3. attr \in Attrs  BY <1>2 DEF TypeOK
    <3> QED  BY <3>2, <3>3 DEF Attrs
  <2>2. CASE terms = {t}
    <3>1. AddEvent(A(t)) /\ UNCHANGED <<sysfs, changes, batch, names, errors>>
      BY <1>3, <1>5, <2>2
    <3> HIDE DEF A
    <3>2. TypeOK' /\ Answered' /\ pc' = "next" /\ NewPerfEvent
      BY <1>1, <1>2, <2>1, <3>1, ResolvingKnown, AddEventAnswers
    <3> QED  BY <3>2, NothingKept DEF Base
  <2>3. CASE terms # {t}
    <3>1. /\ attr' = A(t) /\ terms' = terms \ {t}
          /\ UNCHANGED <<pc, at, paths, pmus, uncore, seen, stayed, perfEvents,
                          sysfs, changes, batch, names, errors>>
      BY <1>3, <1>5, <2>3
    <3>2. Resolving' /\ Event' = Event /\ Current' /\ Clean' /\ History' /\ Answered'
      BY <1>1, <3>1, SameEvent
    <3>3. Found' /\ RealPMU' = RealPMU  BY <1>1, <3>1, <3>2, FoundKept
    <3>4. TypeOK'  BY <1>2, <2>1, <3>1 DEF TypeOK
    <3>5. AttrSoFar'
      <4>1. TermsOf(Event)' = TermsOf(Event)  BY <3>2
      <4>2. terms' # {} /\ terms' \subseteq TermsOf(Event')  BY <1>2, <2>3, <3>1, <4>1
      <4>3. TermsOf(Event') \ terms' = (TermsOf(Event) \ terms) \cup {t}  BY <1>2, <3>1, <4>1
      <4>4. attr' = {Place(RealPMU, s) : s \in TermsOf(Event') \ terms'}
        BY <1>2, <3>1, <4>3
      <4> QED  BY <1>1, <1>2, <3>1, <3>3, <4>1, <4>2, <4>4 DEF AttrSoFar
    <3> QED  BY <3>2, <3>3, <3>4, <3>5 DEF Base
  <2> QED  BY <2>2, <2>3
<1> QED  BY <1>4, <1>5
-----------------------------------------------------------------------------
\* A driver that comes or goes changes sysfs, and nothing of an event but what
\* was seen and what stayed.
LEMMA PlugKeeps ==
  ASSUME Base, Answered, Plug
  PROVE  /\ Base' /\ Answered'
         /\ Resolving => ~(stayed' = seen')
<1> USE TransformAssumption
<1>1. PICK p \in DOMAIN BootType, t \in Types \cup {Gone} :
        t # sysfs[p] /\ sysfs' = [sysfs EXCEPT ![p] = t]
  BY DEF Plug
<1>2. /\ changes < MaxChanges /\ changes' = changes + 1 /\ pc # "idle"
      /\ seen' = IF pc = "next" THEN seen ELSE seen \cup Present(sysfs')
      /\ stayed' = stayed \cap Present(sysfs')
      /\ UNCHANGED <<pc, batch, names, at, paths, pmus, uncore, attr, terms, perfEvents, errors>>
  BY DEF Plug
<1>3. TypeOK /\ p \in Pmus  BY DEF Base
<1>4. TypeOK'
  <2>1. sysfs' \in [Pmus -> Types \cup {Gone}]  BY <1>1, <1>3 DEF TypeOK
  <2>2. changes' \in 0 .. MaxChanges  BY <1>2, <1>3 DEF TypeOK
  <2>3. seen' \in SUBSET Named /\ stayed' \in SUBSET Named  BY <1>2, <1>3 DEF TypeOK, Present
  <2> QED  BY <1>2, <1>3, <2>1, <2>2, <2>3 DEF TypeOK
<1>5. /\ Event' = Event /\ RealPMU' = RealPMU /\ Dirs' = Dirs /\ Glob' = Glob
      /\ (Resolving' <=> Resolving)
  BY <1>2 DEF Event, RealPMU, Dirs, Glob, Resolving
<1>6. Current'
  <2>1. Match(Event)' <=> Match(Event)  BY <1>2, <1>5 DEF Match
  <2>2. Parses(Event)' <=> Parses(Event)  BY <1>5
  <2> QED  BY <1>2, <1>5, <2>1, <2>2 DEF Base, Current
<1>7. Clean'
  <2>1. CASE Resolving  BY <1>5, <2>1 DEF Clean
  <2>2. CASE ~Resolving
    <3>1. pc = "next"  BY <1>2, <2>2 DEF Resolving
    <3> QED  BY <1>2, <2>2, <3>1 DEF Base, Clean
  <2> QED  BY <2>1, <2>2
<1>8. Present(sysfs)' = Present(sysfs')  BY DEF Present
<1>9. History'  BY <1>2, <1>5, <1>8 DEF History, Resolving
<1>10. NumberedSoFar => NumberedSoFar'  BY <1>2, <1>5 DEF NumberedSoFar
<1>11. OneNamed => OneNamed'  BY <1>2, <1>5 DEF OneNamed
<1>12. Found'
  <2>1. Resolving => Range(pmus) \subseteq seen'  BY <1>2 DEF Base, Found, Resolving
  <2> QED  BY <1>2, <1>5, <1>10, <1>11, <2>1 DEF Base, Found
<1>13. AttrSoFar'
  <2>1. TermsOf(Event)' = TermsOf(Event)  BY <1>5
  <2>2. stayed' \subseteq stayed  BY <1>2
  <2> QED  BY <1>2, <1>5, <2>1, <2>2 DEF Base, AttrSoFar
<1>14. Answered'  BY <1>2 DEF Answered, Positions, Increasing, Match
<1>15. ASSUME Resolving  PROVE ~(stayed' = seen')
  <2> SUFFICES ASSUME stayed' = seen'  PROVE FALSE  OBVIOUS
  <2>1. stayed \subseteq Present(sysfs) /\ Present(sysfs) \subseteq seen  BY <1>15 DEF Base, History
  <2>2. Present(sysfs) = Present(sysfs')  BY <1>2, <1>15, <2>1 DEF Resolving
  <2>3. sysfs'[p] = t /\ sysfs[p] \in Types \cup {Gone}  BY <1>1, <1>3 DEF TypeOK
  <2>4. CASE t # Gone
    <3>1. <<p, t>> \in Present(sysfs')  BY <1>1, <1>3, <2>3, <2>4 DEF Present, Named
    <3> QED  BY <1>1, <2>2, <3>1 DEF Present
  <2>5. CASE sysfs[p] # Gone
    <3>1. <<p, sysfs[p]>> \in Present(sysfs)  BY <1>3, <2>3, <2>5 DEF Present, Named
    <3> QED  BY <1>1, <2>2, <2>3, <3>1 DEF Present
  <2> QED  BY <1>1, <2>4, <2>5
<1> QED  BY <1>4, <1>6, <1>7, <1>9, <1>12, <1>13, <1>14, <1>15 DEF Base

\* An event that does not match is passed over.
LEMMA SkipKeeps ==
  ASSUME Base, Answered, Skip  PROVE Base' /\ Answered'
<1>1. /\ pc = "next" /\ at <= Len(batch) /\ ~Match(Event) /\ at' = at + 1
      /\ UNCHANGED <<sysfs, changes, pc, batch, names, paths, pmus, uncore, attr, terms,
                      seen, stayed, perfEvents, errors>>
  BY DEF Skip, resolveVars
<1>2. TypeOK /\ Clean  BY DEF Base
<1>3. at \in 1 .. MaxBatch /\ at \in Nat /\ MaxBatch \in Nat
  BY <1>1, <1>2, TransformAssumption DEF TypeOK
<1>4. TypeOK'
  <2>1. at' \in 1 .. (MaxBatch + 1)  BY <1>1, <1>3
  <2> QED  BY <1>1, <1>2, <2>1 DEF TypeOK
<1>5. ~Resolving /\ ~Resolving'  BY <1>1 DEF Resolving
<1>6. Current' /\ Clean' /\ History' /\ Found' /\ AttrSoFar'
  BY <1>1, <1>2, <1>5 DEF Current, Clean, History, Found, AttrSoFar
<1>7. Answered'
  <2>1. {i \in 1 .. at - 1 : i \in DOMAIN batch /\ Match(batch[i])}
          = {i \in 1 .. at' - 1 : i \in DOMAIN batch' /\ Match(batch[i])'}
    BY <1>1, <1>3 DEF Match, Event
  <2> QED  BY <1>1, <2>1 DEF Answered, Positions, Increasing
<1> QED  BY <1>4, <1>6, <1>7 DEF Base

LEMMA ParseFailsKeeps ==
  ASSUME Base, Answered, ParseFails  PROVE Base' /\ Answered'
<1>1. at <= Len(batch) /\ Match(Event) /\ Collect  BY DEF ParseFails
<1>2. TypeOK  BY DEF Base
<1>3. at \in 1 .. Len(batch)  BY <1>1, <1>2 DEF TypeOK
<1>4. TypeOK' /\ Answered' /\ pc' = "next" /\ NewPerfEvent
  BY <1>1, <1>2, <1>3, CollectAnswers
<1> QED  BY <1>4, NothingKept DEF Base

\* resolve starts with what is there now.
LEMMA ResolveKeeps ==
  ASSUME Base, Answered, Resolve  PROVE Base' /\ Answered'
<1>1. /\ pc = "next" /\ at <= Len(batch) /\ Match(Event) /\ Parses(Event)
      /\ pc' = "exact" /\ terms' = TermsOf(Event)
      /\ seen' = Present(sysfs) /\ stayed' = Present(sysfs)
      /\ UNCHANGED <<sysfs, changes, batch, names, at, paths, pmus, uncore, attr, perfEvents, errors>>
  BY DEF Resolve
<1>2. TypeOK /\ paths = {} /\ pmus = <<>> /\ uncore = FALSE /\ attr = {}
  BY <1>1 DEF Base, Clean, Resolving
<1>3. at \in 1 .. Len(batch)  BY <1>1, <1>2 DEF TypeOK
<1>4. TermsOf(Event) \in SUBSET Terms  BY <1>1, <1>2, <1>3, EventKnown
<1>5. TypeOK'
  <2>1. seen' \in SUBSET Named /\ stayed' \in SUBSET Named  BY <1>1 DEF Present
  <2> QED  BY <1>1, <1>2, <1>4, <2>1 DEF TypeOK
<1>6. Resolving' /\ Event' = Event  BY <1>1 DEF Resolving, Event
<1>7. Current'
  <2>1. Match(Event)' /\ Parses(Event)'  BY <1>1, <1>6 DEF Match, Parses
  <2> QED  BY <1>1, <2>1 DEF Current
<1>8. Clean'  BY <1>6 DEF Clean
<1>9. History'
  <2>1. Present(sysfs)' = Present(sysfs)  BY <1>1 DEF Present
  <2> QED  BY <1>1, <2>1 DEF History
<1>10. Found'
  <2>1. Range(pmus') = {}  BY <1>1, <1>2 DEF Range
  <2> QED  BY <1>1, <1>2, <2>1 DEF Found
<1>11. AttrSoFar'
  <2>1. TermsOf(Event)' = TermsOf(Event)  BY <1>6
  <2> QED  BY <1>1, <1>2, <2>1 DEF AttrSoFar
<1>12. Answered'  BY <1>1 DEF Answered, Positions, Increasing, Match
<1> QED  BY <1>5, <1>7, <1>8, <1>9, <1>10, <1>11, <1>12 DEF Base

\* Transform returns, or starts with another batch.
LEMMA ReturnKeeps ==
  ASSUME Base, Answered, Return  PROVE Base' /\ Answered'
<1>1. /\ pc = "next" /\ pc' = "idle"
      /\ batch' = <<>> /\ names' = {} /\ at' = 1 /\ perfEvents' = <<>> /\ errors' = <<>>
      /\ UNCHANGED <<sysfs, changes, paths, pmus, uncore, attr, terms, seen, stayed>>
  BY DEF Return, resolveVars
<1>2. TypeOK /\ Clean  BY DEF Base
<1>3. TypeOK'
  <2>1. MaxBatch \in Nat  BY TransformAssumption
  <2>2. at' \in 1 .. (MaxBatch + 1)  BY <1>1, <2>1
  <2>3. Len(batch') <= MaxBatch  BY <1>1, <2>1
  <2> QED  BY <1>1, <1>2, <2>2, <2>3 DEF TypeOK
<1>4. ~Resolving /\ ~Resolving'  BY <1>1 DEF Resolving
<1>5. Current' /\ Clean' /\ History' /\ Found' /\ AttrSoFar'
  BY <1>1, <1>2, <1>4 DEF Current, Clean, History, Found, AttrSoFar
<1>6. Answered'
  <2>1. Positions(perfEvents)' = <<>>  BY <1>1 DEF Positions
  <2>2. Range(<<>>) = {} /\ Increasing(<<>>)  BY DEF Range, Increasing
  <2> QED  BY <1>1, <2>1, <2>2 DEF Answered, Increasing
<1> QED  BY <1>3, <1>5, <1>6 DEF Base

LEMMA TransformKeeps ==
  ASSUME Base, Answered, Transform  PROVE Base' /\ Answered'
<1>1. /\ names' \in NameSets /\ pc' = "next" /\ at' = 1 /\ perfEvents' = <<>> /\ errors' = <<>>
      /\ NewPerfEvent
      /\ UNCHANGED <<sysfs, changes>>
  BY DEF Transform
<1>2. PICK n \in 1 .. MaxBatch : batch' \in [1 .. n -> JSONEvents \cup {Null}]  BY DEF Transform
<1>3. TypeOK /\ MaxBatch \in Nat  BY TransformAssumption DEF Base
<1>4. batch' \in Seq(JSONEvents \cup {Null}) /\ Len(batch') <= MaxBatch  BY <1>2, <1>3
<1>5. TypeOK'
  <2>1. at' \in 1 .. (MaxBatch + 1)  BY <1>1, <1>3
  <2>2. /\ paths' \in SUBSET Nat /\ uncore' \in BOOLEAN /\ attr' \in Attrs /\ terms' \in SUBSET Terms
        /\ seen' \in SUBSET Named /\ stayed' \in SUBSET Named
    BY <1>1 DEF NewPerfEvent, Attrs
  <2>3. pmus' \in Seq(Named)  BY <1>1 DEF NewPerfEvent
  <2> QED  BY <1>1, <1>3, <1>4, <2>1, <2>2, <2>3 DEF TypeOK
<1>6. Answered'
  <2>1. Positions(perfEvents)' = <<>>  BY <1>1 DEF Positions
  <2>2. Range(<<>>) = {} /\ Increasing(<<>>)  BY DEF Range, Increasing
  <2> QED  BY <1>1, <2>1, <2>2 DEF Answered, Increasing
<1> QED  BY <1>1, <1>5, <1>6, NothingKept DEF Base
-----------------------------------------------------------------------------
LEMMA InitBase ==
  ASSUME Init  PROVE Base /\ Answered /\ ~Resolving
<1> USE TransformAssumption
<1>1. ~Resolving  BY DEF Init, Resolving
<1>2. sysfs \in [Pmus -> Types \cup {Gone}]
  <2>1. PICK loaded \in SUBSET DOMAIN BootType :
          sysfs = [p \in Pmus |-> IF p \in loaded THEN BootType[p] ELSE Gone]
    BY DEF Init
  <2>2. \A p \in DOMAIN BootType : BootType[p] \in Types  BY DEF Injection
  <2> QED  BY <2>1, <2>2
<1>3. TypeOK
  <2>1. /\ changes \in 0 .. MaxChanges /\ at \in 1 .. (MaxBatch + 1)
        /\ Len(batch) <= MaxBatch
    BY DEF Init
  <2>2. /\ paths \in SUBSET Nat /\ uncore \in BOOLEAN /\ attr \in Attrs /\ terms \in SUBSET Terms
        /\ seen \in SUBSET Named /\ stayed \in SUBSET Named
    BY DEF Init, Attrs
  <2>3. /\ batch \in Seq(JSONEvents \cup {Null}) /\ pmus \in Seq(Named)
        /\ perfEvents \in Seq([of : 1 .. MaxBatch, pmus : Seq(Named), uncore : BOOLEAN, attr : Attrs])
        /\ errors \in Seq(1 .. MaxBatch)
    BY DEF Init
  <2> QED  BY <1>2, <2>1, <2>2, <2>3 DEF TypeOK, Init
<1>4. Current /\ Clean /\ History /\ Found /\ AttrSoFar
  BY <1>1 DEF Init, Current, Clean, History, Found, AttrSoFar
<1>5. Answered
  <2>1. perfEvents = <<>> /\ errors = <<>> /\ at = 1  BY DEF Init
  <2>2. Positions(perfEvents) = <<>>  BY <2>1 DEF Positions
  <2>3. Range(<<>>) = {} /\ Increasing(<<>>)  BY DEF Range, Increasing
  <2> QED  BY <2>1, <2>2, <2>3 DEF Answered
<1> QED  BY <1>1, <1>3, <1>4, <1>5 DEF Base

LEMMA StepKeeps ==
  ASSUME Base, Answered, [Next]_vars  PROVE Base' /\ Answered'
<1>1. CASE Transform  BY <1>1, TransformKeeps
<1>2. CASE Step
  <2>1. CASE Skip  BY <2>1, SkipKeeps
  <2>2. CASE ParseFails  BY <2>2, ParseFailsKeeps
  <2>3. CASE Resolve  BY <2>3, ResolveKeeps
  <2>4. CASE Return  BY <2>4, ReturnKeeps
  <2>5. CASE FindExact  BY <2>5, FindExactKeeps
  <2>6. CASE FindSingle  BY <2>6, FindSingleKeeps
  <2>7. CASE FindNumbered  BY <2>7, FindNumberedKeeps
  <2>8. CASE ReadType  BY <2>8, ReadTypeKeeps
  <2>9. CASE ValidateCpumask  BY <2>9, ValidateCpumaskKeeps
  <2>10. CASE ScanCpumask  BY <2>10, ScanCpumaskKeeps
  <2>11. CASE ParseTerm  BY <2>11, ParseTermKeeps
  <2> QED
    BY <1>2, <2>1, <2>2, <2>3, <2>4, <2>5, <2>6, <2>7, <2>8, <2>9, <2>10, <2>11 DEF Step
<1>3. CASE Plug  BY <1>3, PlugKeeps
<1>4. CASE UNCHANGED vars
  <2>1. /\ UNCHANGED <<sysfs, changes, pc, batch, names, at, paths, pmus, uncore, attr, terms,
                        seen, stayed, perfEvents, errors>>
    BY <1>4 DEF vars, resolveVars
  <2>2. TypeOK'  BY <2>1 DEF Base, TypeOK
  <2>3. Resolving' = Resolving /\ Event' = Event /\ RealPMU' = RealPMU /\ Dirs' = Dirs /\ Glob' = Glob
    BY <2>1 DEF Resolving, Event, RealPMU, Dirs, Glob
  <2>4. Current' /\ Clean'  BY <2>1, <2>3 DEF Base, Current, Clean, Match, Parses
  <2>5. History'  BY <2>1, <2>3 DEF Base, History, Present
  <2>6. (NumberedSoFar => NumberedSoFar') /\ (OneNamed => OneNamed')
    BY <2>1, <2>3 DEF NumberedSoFar, OneNamed
  <2>7. Found'  BY <2>1, <2>3, <2>6 DEF Base, Found
  <2>8. AttrSoFar'
    <3>1. TermsOf(Event)' = TermsOf(Event)  BY <2>3
    <3> QED  BY <2>1, <2>3, <3>1 DEF Base, AttrSoFar
  <2>9. Answered'  BY <2>1 DEF Answered, Positions, Increasing, Match
  <2> QED  BY <2>2, <2>4, <2>5, <2>7, <2>8, <2>9 DEF Base
<1> QED  BY <1>1, <1>2, <1>3, <1>4 DEF Next

\* Base and Answered hold together in every state.
THEOREM BaseInvariance == Spec => [](Base /\ Answered)
<1>1. Init => Base /\ Answered  BY InitBase
<1>2. Base /\ Answered /\ [Next]_vars => (Base /\ Answered)'  BY StepKeeps
<1> QED  BY <1>1, <1>2, PTL DEF Spec

\* Every variable keeps its type: a type that could not be read enters no
\* PMUTypes and a field that no format knows no Attr (transformer.go:193, 282).
THEOREM TypeCorrect == Spec => []TypeOK
<1>1. Base /\ Answered => TypeOK  BY DEF Base
<1> QED  BY <1>1, BaseInvariance, PTL

\* Every event that matches is answered once, in the reader's order, as a
\* PerfEvent or as an error, and no other event is (transformer.go:102).
THEOREM AllAreAnswered == Spec => []Answered
<1> QED  BY BaseInvariance, PTL

\* An event is added by parseTerms only, with the PMUs found for it.
LEMMA ResolvedBy ==
  ASSUME Base, Answered, [Next]_vars, Resolved
  PROVE  \E t \in terms :
           /\ pc = "terms" /\ terms = {t} /\ Splits(Event) /\ Places(RealPMU, t)
           /\ Result = [of |-> at, pmus |-> pmus, uncore |-> uncore,
                         attr |-> attr \cup {Place(RealPMU, t)}]
<1>1. TypeOK /\ Len(perfEvents) \in Nat  BY DEF Base, TypeOK
<1>2. Len(perfEvents') > Len(perfEvents)  BY DEF Resolved
<1>3. perfEvents' # perfEvents /\ perfEvents' # <<>>  BY <1>1, <1>2
<1>4. ParseTerm /\ ~Collect
  BY <1>3 DEF Next, Step, vars, Transform, Skip, ParseFails, Collect, Resolve, Return, FindExact,
       FindSingle, Try, FindNumbered, ReadType, AddPMU, ValidateCpumask, ScanCpumask, Plug
<1> DEFINE A(t) == attr \cup {Place(RealPMU, t)}
<1>5. PICK t \in terms :
        IF ~Splits(Event) \/ ~Places(RealPMU, t)
        THEN Collect
        ELSE /\ IF terms = {t}
                THEN AddEvent(A(t))
                ELSE /\ attr' = A(t)
                     /\ terms' = terms \ {t}
                     /\ UNCHANGED <<pc, at, paths, pmus, uncore, seen, stayed, perfEvents>>
             /\ UNCHANGED <<sysfs, changes, batch, names, errors>>
  BY <1>4 DEF ParseTerm
<1>6. pc = "terms" /\ Resolving  BY <1>4 DEF ParseTerm, Resolving
<1>7. Splits(Event) /\ Places(RealPMU, t)  BY <1>4, <1>5
<1>8. terms = {t} /\ AddEvent(A(t)) /\ UNCHANGED <<sysfs, changes, batch, names, errors>>
  BY <1>3, <1>5, <1>7
<1>9. A(t) \in Attrs
  <2>1. pmus # <<>> /\ terms \subseteq TermsOf(Event)  BY <1>6 DEF Base, Found, AttrSoFar
  <2>2. RealPMU \in Pmus /\ t \in Terms  BY <1>1, <1>6, <2>1, FirstPMU, ResolvingKnown
  <2>3. Place(RealPMU, t) \in {"config", "config1", "config2", "sample"} \X Terms
    BY <1>7, <2>2, PlaceKnown
  <2>4. attr \in Attrs  BY <1>1 DEF TypeOK
  <2> QED  BY <2>3, <2>4 DEF Attrs
<1> HIDE DEF A
<1>10. Result = [of |-> at, pmus |-> pmus, uncore |-> uncore, attr |-> A(t)]
  BY <1>1, <1>6, <1>8, <1>9, AddEventAnswers, ResolvingKnown
<1> QED  BY <1>6, <1>7, <1>8, <1>10 DEF A
\* For any PMUs and any comings and goings: a resolved event has PMUs of its
\* unit that were there while it was resolved, with the types they had, none
\* twice, and every numbered one that stayed (transformer.go:177).
THEOREM PmusAreOfUnit == Spec => PmusOfUnit
<1> DEFINE P == LET u == batch[Result.of].unit
                    dirs == {pt[1] : pt \in Range(Result.pmus)}
                IN  /\ Range(Result.pmus) \subseteq seen
                    /\ dirs \subseteq PmusOf(u)
                    /\ \A j, k \in DOMAIN Result.pmus :
                         Result.pmus[j][1] = Result.pmus[k][1] => j = k
                    /\ dirs \subseteq {Exact[u], Single[u]} => Len(Result.pmus) = 1
                    /\ dirs \cap {Exact[u], Single[u]} = {} =>
                         {pt \in stayed : pt[1] \in Numbered(u)} \subseteq Range(Result.pmus)
<1>1. ASSUME Base, Answered, [Next]_vars, Resolved  PROVE P
  <2>1. /\ pc = "terms" /\ Result.pmus = pmus /\ Result.of = at
    BY <1>1, ResolvedBy
  <2>2. Resolving  BY <2>1 DEF Resolving
  <2> DEFINE u == Event.unit
  <2>3. batch[Result.of].unit = u  BY <2>1 DEF Event
  <2>4. {pt[1] : pt \in Range(Result.pmus)} = Dirs  BY <2>1 DEF Dirs
  <2>5. /\ Range(pmus) \subseteq seen
        /\ \A j, k \in DOMAIN pmus : pmus[j][1] = pmus[k][1] => j = k
        /\ pmus # <<>> /\ paths = {} /\ (OneNamed \/ NumberedSoFar)
    BY <1>1, <2>1, <2>2 DEF Base, Found
  <2>6. RealPMU \in Dirs /\ pmus \in Seq(Named) /\ 1 \in DOMAIN pmus
    BY <1>1, <2>5, FirstPMU DEF Base, TypeOK
  <2>7. u \in Units  BY <1>1, <2>2, ResolvingKnown
  <2>8. Numbered(u) \cap {Exact[u], Single[u]} = {}
    BY <2>7, TransformAssumption DEF Numbered
  <2> HIDE DEF u
  <2>9. CASE OneNamed
    <3>1. Len(pmus) = 1 /\ RealPMU \in {Exact[u], Single[u]}  BY <2>9 DEF OneNamed, u
    <3>2. DOMAIN pmus = {1}  BY <2>6, <3>1
    <3>3. Range(pmus) = {pmus[1]}  BY <3>2 DEF Range
    <3>4. Dirs = {RealPMU}  BY <3>3 DEF Dirs, RealPMU
    <3> QED  BY <2>1, <2>3, <2>4, <2>5, <3>1, <3>4 DEF PmusOf
  <2>10. CASE NumberedSoFar
    <3>1. Dirs \subseteq Numbered(u)  BY <2>10 DEF NumberedSoFar, u
    <3>2. ~(Dirs \subseteq {Exact[u], Single[u]})  BY <2>6, <2>8, <3>1
    <3>3. {pt \in stayed : pt[1] \in Numbered(u)} \subseteq Range(pmus)
      BY <2>5, <2>10 DEF NumberedSoFar, u
    <3> QED  BY <2>1, <2>3, <2>4, <2>5, <3>1, <3>2, <3>3 DEF PmusOf
  <2> QED  BY <2>5, <2>9, <2>10
<1>2. Base /\ Answered /\ [Next]_vars => [Resolved => P]_vars
  <2> HIDE DEF P
  <2> QED  BY <1>1
<1> QED  BY <1>2, BaseInvariance, PTL DEF Spec, PmusOfUnit

\* Whatever event was resolved before: Attr has every term of the event, where
\* the formats of its first PMU say, and no other; Uncore is what the cpumask
\* of that PMU tells, if the PMU stayed (transformer.go:156, 242).
THEOREM AttrIsOfEvent == Spec => AttrOfEvent
<1> DEFINE P == LET e == batch[Result.of]
                    p == Result.pmus[1][1]
                IN  /\ Result.attr = {Place(p, t) : t \in TermsOf(e)}
                    /\ Result.pmus[1] \in stayed => Result.uncore = (Cpumask[p] = "zero")
<1>1. ASSUME Base, Answered, [Next]_vars, Resolved  PROVE P
  <2>1. PICK t \in terms :
          /\ pc = "terms" /\ terms = {t}
          /\ Result = [of |-> at, pmus |-> pmus, uncore |-> uncore,
                        attr |-> attr \cup {Place(RealPMU, t)}]
    BY <1>1, ResolvedBy
  <2>2. /\ terms \subseteq TermsOf(Event)
        /\ attr = {Place(RealPMU, s) : s \in TermsOf(Event) \ terms}
        /\ pmus[1] \in stayed => uncore = (Cpumask[RealPMU] = "zero")
    BY <1>1, <2>1 DEF Base, AttrSoFar, Resolving
  <2>3. Result.attr = {Place(RealPMU, s) : s \in TermsOf(Event)}  BY <2>1, <2>2
  <2>4. /\ batch[Result.of] = Event /\ Result.pmus[1][1] = RealPMU
        /\ Result.pmus[1] = pmus[1] /\ Result.uncore = uncore
    BY <2>1 DEF Event, RealPMU
  <2> QED  BY <2>2, <2>3, <2>4
<1>2. Base /\ Answered /\ [Next]_vars => [Resolved => P]_vars
  <2> HIDE DEF P
  <2> QED  BY <1>1
<1> QED  BY <1>2, BaseInvariance, PTL DEF Spec, AttrOfEvent
-----------------------------------------------------------------------------
\* The PMUs that are chosen are there.
LEMMA ChosenThere ==
  ASSUME NEW u, NEW p \in Chosen(u)  PROVE sysfs[p] # Gone
BY DEF Chosen, Here

\* Only one of the PMUs that are chosen comes before all others.
LEMMA FirstIsOne ==
  ASSUME NEW u \in Units, NEW p \in Chosen(u), NEW q \in Chosen(u), First(u, p), First(u, q)
  PROVE  p = q
<1> DEFINE G == Globbed[u]
<1>1. G \in Seq(Pmus) /\ \A j, k \in DOMAIN G : G[j] = G[k] => j = k
  BY TransformAssumption DEF IsInjective
<1>2. CASE Chosen(u) = {Exact[u]} \/ Chosen(u) = {Single[u]}  BY <1>2
<1>3. CASE Chosen(u) = Here(Numbered(u))
  <2>1. p \in Range(G) /\ q \in Range(G)  BY <1>3 DEF Here, Numbered
  <2>2. PICK a \in DOMAIN G : G[a] = p  BY <2>1 DEF Range
  <2>3. PICK b \in DOMAIN G : G[b] = q  BY <2>1 DEF Range
  <2>4. DOMAIN G = 1 .. Len(G) /\ Len(G) \in Nat  BY <1>1
  <2>5. PICK j \in 1 .. b : G[j] = p  BY <2>3 DEF First
  <2>6. PICK k \in 1 .. a : G[k] = q  BY <2>2 DEF First
  <2> HIDE DEF G
  <2>7. j \in DOMAIN G /\ k \in DOMAIN G  BY <2>2, <2>3, <2>4, <2>5, <2>6
  <2>8. j = a /\ k = b  BY <1>1, <2>2, <2>3, <2>5, <2>6, <2>7
  <2>9. a = b  BY <2>2, <2>3, <2>4, <2>5, <2>6, <2>8
  <2> QED  BY <2>2, <2>3, <2>9
<1> QED  BY <1>2, <1>3 DEF Chosen

\* What a definition needs of the first PMU that was found.
LEMMA ResolvableFirst ==
  ASSUME Base, Resolving, RealPMU \in Chosen(Event.unit), First(Event.unit, RealPMU)
  PROVE  Resolvable(Event) <=>
           /\ Splits(Event)
           /\ Cpumask[RealPMU] # "unreadable"
           /\ \A t \in TermsOf(Event) : Places(RealPMU, t)
<1>1. Event.unit \in Units /\ Parses(Event)  BY ResolvingKnown
<1>2. ASSUME Resolvable(Event)
      PROVE  /\ Splits(Event) /\ Cpumask[RealPMU] # "unreadable"
             /\ \A t \in TermsOf(Event) : Places(RealPMU, t)
  <2>1. PICK p \in Chosen(Event.unit) :
          /\ First(Event.unit, p)
          /\ Cpumask[p] # "unreadable"
          /\ \A t \in TermsOf(Event) : Places(p, t)
    BY <1>2 DEF Resolvable, First
  <2>2. p = RealPMU  BY <1>1, <2>1, FirstIsOne
  <2> QED  BY <1>2, <2>1, <2>2 DEF Resolvable
<1>3. ASSUME Splits(Event), Cpumask[RealPMU] # "unreadable",
             \A t \in TermsOf(Event) : Places(RealPMU, t)
      PROVE  Resolvable(Event)
  BY <1>1, <1>3 DEF Resolvable, First
<1> QED  BY <1>2, <1>3

\* A step within resolve sees the sysfs of the step before.
LEMMA SameSysfs ==
  ASSUME Event' = Event, UNCHANGED sysfs
  PROVE  /\ Chosen(Event.unit)' = Chosen(Event.unit)
         /\ Here(Numbered(Event.unit))' = Here(Numbered(Event.unit))
         /\ RealPMU' = RealPMU =>
              /\ First(Event.unit, RealPMU) => First(Event.unit, RealPMU)'
              /\ \A t : Places(RealPMU, t) => Places(RealPMU, t)'
<1>1. Chosen(Event.unit)' = Chosen(Event.unit)  BY DEF Chosen, Here
<1>2. Here(Numbered(Event.unit))' = Here(Numbered(Event.unit))  BY DEF Here
<1>3. ASSUME RealPMU' = RealPMU, First(Event.unit, RealPMU)  PROVE First(Event.unit, RealPMU)'
  BY <1>1, <1>3 DEF First
<1>4. ASSUME RealPMU' = RealPMU, NEW t, Places(RealPMU, t)  PROVE Places(RealPMU, t)'
  BY <1>4 DEF Places, HasFormat
<1> QED  BY <1>1, <1>2, <1>3, <1>4

\* Without numbered PMUs among the chosen, their order says nothing.
LEMMA NamedIsFirst ==
  ASSUME NEW u \in Units, NEW p, Chosen(u) \subseteq {Exact[u], Single[u]}
  PROVE  First(u, p)
<1>1. \A i \in DOMAIN Globbed[u] : Globbed[u][i] \in Range(Globbed[u])  BY DEF Range
<1>2. Range(Globbed[u]) \cap {Exact[u], Single[u]} = {}  BY TransformAssumption
<1> QED  BY <1>1, <1>2 DEF First

LEMMA FindExactSteady ==
  ASSUME Base, Answered, FindExact  PROVE SteadySoFar'
<1> DEFINE dir == Exact[Event.unit]
<1>1. /\ pc = "exact" /\ Resolving
      /\ UNCHANGED <<sysfs, batch, at>>
      /\ IF sysfs[dir] # Gone
         THEN pmus' = <<<<dir, sysfs[dir]>>>> /\ pc' = "cpumask"
         ELSE pc' = "single"
  BY DEF FindExact, Try, Resolving
<1>2. Event' = Event /\ Event.unit \in Units  BY <1>1, ResolvingKnown DEF Event
<1>3. Chosen(Event.unit)' = Chosen(Event.unit)  BY <1>1, <1>2, SameSysfs
<1>4. CASE sysfs[dir] # Gone
  <2>1. pmus' = <<<<dir, sysfs[dir]>>>> /\ pc' = "cpumask"  BY <1>1, <1>4
  <2>2. Chosen(Event.unit) = {dir}  BY <1>4 DEF Chosen, Here
  <2>3. Dirs' = {dir} /\ RealPMU' = dir
    <3>1. Range(pmus') = {<<dir, sysfs[dir]>>}  BY <2>1 DEF Range
    <3> QED  BY <2>1, <3>1 DEF Dirs, RealPMU
  <2>4. First(Event.unit, RealPMU)'
    <3>1. First(Event.unit, dir)  BY <1>2, <2>2, NamedIsFirst
    <3> QED  BY <1>2, <1>3, <2>3, <3>1 DEF First
  <2> QED  BY <1>2, <1>3, <2>1, <2>2, <2>3, <2>4 DEF SteadySoFar
<1>5. CASE sysfs[dir] = Gone  BY <1>1, <1>2, <1>5 DEF SteadySoFar
<1> QED  BY <1>4, <1>5

LEMMA FindSingleSteady ==
  ASSUME Base, Answered, SteadySoFar, FindSingle  PROVE SteadySoFar'
<1> DEFINE dir == Single[Event.unit]
<1>1. /\ pc = "single" /\ Resolving
      /\ UNCHANGED <<sysfs, batch, at, seen, stayed>>
      /\ IF sysfs[dir] # Gone
         THEN pmus' = <<<<dir, sysfs[dir]>>>> /\ pc' = "cpumask"
         ELSE pc' = "glob"
  BY DEF FindSingle, Try, Resolving
<1>2. Event' = Event /\ Event.unit \in Units  BY <1>1, ResolvingKnown DEF Event
<1>3. Chosen(Event.unit)' = Chosen(Event.unit)  BY <1>1, <1>2, SameSysfs
<1> SUFFICES ASSUME stayed = seen  PROVE SteadySoFar'  BY <1>1 DEF SteadySoFar
<1>4. sysfs[Exact[Event.unit]] = Gone  BY <1>1 DEF SteadySoFar
<1>5. CASE sysfs[dir] # Gone
  <2>1. pmus' = <<<<dir, sysfs[dir]>>>> /\ pc' = "cpumask"  BY <1>1, <1>5
  <2>2. Chosen(Event.unit) = {dir}  BY <1>4, <1>5 DEF Chosen, Here
  <2>3. Dirs' = {dir} /\ RealPMU' = dir
    <3>1. Range(pmus') = {<<dir, sysfs[dir]>>}  BY <2>1 DEF Range
    <3> QED  BY <2>1, <3>1 DEF Dirs, RealPMU
  <2>4. First(Event.unit, RealPMU)'
    <3>1. First(Event.unit, dir)  BY <1>2, <2>2, NamedIsFirst
    <3> QED  BY <1>2, <1>3, <2>3, <3>1 DEF First
  <2> QED  BY <1>2, <1>3, <2>1, <2>2, <2>3, <2>4 DEF SteadySoFar
<1>6. CASE sysfs[dir] = Gone  BY <1>1, <1>2, <1>4, <1>6 DEF SteadySoFar
<1> QED  BY <1>5, <1>6

\* Nothing is left to be steady of an event that failed.
LEMMA CollectSteady ==
  ASSUME Collect  PROVE SteadySoFar'
BY NothingKept DEF Collect

LEMMA FindNumberedSteady ==
  ASSUME Base, Answered, SteadySoFar, FindNumbered  PROVE SteadySoFar'
<1> DEFINE found == Verified(Glob)
<1>1. pc = "glob" /\ Resolving  BY DEF FindNumbered, Resolving
<1>2. CASE found = {}
  <2>1. Collect  BY <1>2 DEF FindNumbered, Glob
  <2> QED  BY <2>1, CollectSteady
<1>3. CASE found # {}
  <2>1. /\ paths' = found /\ pc' = "types"
        /\ UNCHANGED <<sysfs, batch, at, pmus, seen, stayed>>
    BY <1>3 DEF FindNumbered, Glob
  <2>2. Event' = Event /\ Glob' = Glob  BY <2>1 DEF Event, Glob
  <2>3. Here(Numbered(Event.unit))' = Here(Numbered(Event.unit))  BY <2>1, <2>2, SameSysfs
  <2> SUFFICES ASSUME stayed = seen  PROVE SteadySoFar'  BY <2>1 DEF SteadySoFar
  <2>4. sysfs[Exact[Event.unit]] = Gone /\ sysfs[Single[Event.unit]] = Gone
    BY <1>1 DEF SteadySoFar
  <2>5. Dirs' = {}
    <3>1. pmus' = <<>>  BY <1>1, <2>1 DEF Base, Found
    <3> QED  BY <3>1 DEF Dirs, Range
  <2>6. {Glob[i] : i \in found} = Here(Numbered(Event.unit))
    BY DEF Verified, Here, Numbered, Range, Glob
  <2> HIDE DEF found
  <2> QED  BY <2>1, <2>2, <2>3, <2>4, <2>5, <2>6 DEF SteadySoFar
<1> QED  BY <1>2, <1>3

\* In a sysfs that did not change a numbered PMU is there when it is read.
LEMMA PathsThere ==
  ASSUME Base, SteadySoFar, pc = "types", stayed = seen, NEW i \in paths
  PROVE  sysfs[Glob[i]] # Gone
<1>1. Resolving  BY DEF Resolving
<1>2. Glob[i] \in Here(Numbered(Event.unit))  BY <1>1 DEF SteadySoFar
<1> QED  BY <1>2 DEF Here

LEMMA ReadTypeSteady ==
  ASSUME Base, Answered, SteadySoFar, ReadType  PROVE SteadySoFar'
<1>1. pc = "types" /\ Resolving  BY DEF ReadType, Resolving
<1>2. PICK i \in paths :
        /\ \A j \in paths : i <= j
        /\ IF sysfs[Glob[i]] = Gone THEN Collect ELSE AddPMU(i, Glob[i])
  BY DEF ReadType, Glob
<1>3. CASE sysfs[Glob[i]] = Gone
  <2>1. Collect  BY <1>2, <1>3
  <2> QED  BY <2>1, CollectSteady
<1>4. CASE sysfs[Glob[i]] # Gone
  <2>1. AddPMU(i, Glob[i])  BY <1>2, <1>4
  <2>2. /\ Dirs' = Dirs \cup {Glob[i]} /\ NumberedSoFar'
        /\ Event' = Event /\ Glob' = Glob
    BY <1>1, <1>2, <1>4, <2>1, AddPMUKeeps
  <2>3. /\ paths' = paths \ {i}
        /\ pc' = IF paths = {i} THEN "cpumask" ELSE "types"
        /\ pmus' = Append(pmus, <<Glob[i], sysfs[Glob[i]]>>)
        /\ UNCHANGED <<sysfs, seen, stayed>>
    BY <2>1 DEF AddPMU
  <2>4. /\ Here(Numbered(Event.unit))' = Here(Numbered(Event.unit))
        /\ Chosen(Event.unit)' = Chosen(Event.unit)
    BY <2>2, <2>3, SameSysfs
  <2> SUFFICES ASSUME stayed = seen  PROVE SteadySoFar'  BY <2>3 DEF SteadySoFar
  <2>5. /\ sysfs[Exact[Event.unit]] = Gone /\ sysfs[Single[Event.unit]] = Gone
        /\ Dirs \cup {Glob[k] : k \in paths} = Here(Numbered(Event.unit))
    BY <1>1 DEF SteadySoFar
  <2>6. Dirs' \cup {Glob[k] : k \in paths'} = Here(Numbered(Event.unit))
    BY <1>2, <2>2, <2>3, <2>5
  <2>7. CASE paths = {i}
    <3>1. pc' = "cpumask" /\ paths' = {}  BY <2>3, <2>7
    <3>2. Chosen(Event.unit) = Here(Numbered(Event.unit))  BY <2>5 DEF Chosen, Here
    <3>3. Dirs' = Chosen(Event.unit)  BY <2>6, <3>1, <3>2
    <3>4. First(Event.unit, RealPMU)'
      <4>1. pmus' # <<>>
        <5>1. Base'  BY <1>1, <1>2, <1>4, <2>1, AddPMUKeeps
        <5> QED  BY <3>1, <5>1 DEF Base, Found, Resolving
      <4>2. PICK j \in DOMAIN Glob :
              /\ Glob[j] = RealPMU'
              /\ \A k \in DOMAIN Glob : Glob[k] \in Dirs' => j <= k
        BY <2>2, <4>1 DEF NumberedSoFar
      <4>3. Glob \in Seq(Pmus)  BY <1>1, ResolvingKnown
      <4>4. j \in Nat /\ 1 <= j /\ \A k \in DOMAIN Glob : k \in Nat  BY <4>3
      <4>5. \A k \in DOMAIN Glob : Glob[k] \in Dirs' => j \in 1 .. k  BY <4>2, <4>4
      <4> QED  BY <2>2, <2>4, <3>3, <4>2, <4>5 DEF First, Glob
    <3> QED  BY <2>2, <2>4, <3>1, <3>3, <3>4 DEF SteadySoFar
  <2>8. CASE paths # {i}
    <3>1. pc' = "types"  BY <2>3, <2>8
    <3> QED  BY <2>2, <2>3, <2>4, <2>5, <2>6, <3>1 DEF SteadySoFar
  <2> QED  BY <2>7, <2>8
<1> QED  BY <1>3, <1>4

\* What the steps after findPMUs know of the PMUs.
LEMMA ChosenFound ==
  ASSUME Base, SteadySoFar, pc \in {"cpumask", "scan", "terms"}, stayed = seen
  PROVE  /\ Dirs = Chosen(Event.unit) /\ First(Event.unit, RealPMU)
         /\ RealPMU \in Chosen(Event.unit) /\ sysfs[RealPMU] # Gone
<1>1. Resolving  BY DEF Resolving
<1>2. Dirs = Chosen(Event.unit) /\ First(Event.unit, RealPMU)  BY <1>1 DEF SteadySoFar
<1>3. RealPMU \in Dirs  BY <1>1, FirstPMU DEF Base, Found
<1>4. sysfs[RealPMU] # Gone  BY <1>2, <1>3, ChosenThere
<1> QED  BY <1>2, <1>3, <1>4

LEMMA ValidateCpumaskSteady ==
  ASSUME Base, Answered, SteadySoFar, ValidateCpumask  PROVE SteadySoFar'
<1>1. Resolving /\ pc = "cpumask"  BY DEF ValidateCpumask, Resolving
<1>2. CASE sysfs[RealPMU] # Gone /\ Cpumask[RealPMU] = "unreadable"
  <2>1. Collect  BY <1>2 DEF ValidateCpumask
  <2> QED  BY <2>1, CollectSteady
<1>3. CASE ~(sysfs[RealPMU] # Gone /\ Cpumask[RealPMU] = "unreadable")
  <2>1. /\ pc' \in {"scan", "terms"}
        /\ UNCHANGED <<sysfs, batch, at, pmus, terms, seen, stayed>>
    BY <1>3 DEF ValidateCpumask, resolveVars
  <2>2. Event' = Event /\ RealPMU' = RealPMU /\ Dirs' = Dirs  BY <2>1 DEF Event, RealPMU, Dirs
  <2> SUFFICES ASSUME stayed = seen  PROVE SteadySoFar'  BY <2>1 DEF SteadySoFar
  <2>3. Dirs = Chosen(Event.unit) /\ First(Event.unit, RealPMU) /\ sysfs[RealPMU] # Gone
    BY <1>1, ChosenFound
  <2>4. Cpumask[RealPMU] # "unreadable"  BY <1>3, <2>3
  <2>5. Chosen(Event.unit)' = Chosen(Event.unit) /\ First(Event.unit, RealPMU)'
    BY <2>1, <2>2, <2>3, SameSysfs
  <2>6. terms = TermsOf(Event)  BY <1>1 DEF Base, AttrSoFar
  <2>7. TermsOf(Event)' = TermsOf(Event)  BY <2>2
  <2> QED  BY <2>1, <2>2, <2>3, <2>4, <2>5, <2>6, <2>7 DEF SteadySoFar
<1> QED  BY <1>2, <1>3

LEMMA ScanCpumaskSteady ==
  ASSUME Base, Answered, SteadySoFar, ScanCpumask  PROVE SteadySoFar'
<1>1. Resolving /\ pc = "scan"  BY DEF ScanCpumask, Resolving
<1>2. CASE sysfs[RealPMU] = Gone
  <2>1. Collect  BY <1>2 DEF ScanCpumask
  <2> QED  BY <2>1, CollectSteady
<1>3. CASE sysfs[RealPMU] # Gone
  <2>1. pc' = "terms" /\ UNCHANGED <<sysfs, batch, at, pmus, terms, seen, stayed>>
    BY <1>3 DEF ScanCpumask
  <2>2. Event' = Event /\ RealPMU' = RealPMU /\ Dirs' = Dirs  BY <2>1 DEF Event, RealPMU, Dirs
  <2> SUFFICES ASSUME stayed = seen  PROVE SteadySoFar'  BY <2>1 DEF SteadySoFar
  <2>3. Dirs = Chosen(Event.unit) /\ First(Event.unit, RealPMU)  BY <1>1, ChosenFound
  <2>4. Cpumask[RealPMU] # "unreadable"  BY <1>1 DEF SteadySoFar
  <2>5. Chosen(Event.unit)' = Chosen(Event.unit) /\ First(Event.unit, RealPMU)'
    BY <2>1, <2>2, <2>3, SameSysfs
  <2>6. terms = TermsOf(Event)  BY <1>1 DEF Base, AttrSoFar
  <2>7. TermsOf(Event)' = TermsOf(Event)  BY <2>2
  <2> QED  BY <2>1, <2>2, <2>3, <2>4, <2>5, <2>6, <2>7 DEF SteadySoFar
<1> QED  BY <1>2, <1>3

LEMMA ParseTermSteady ==
  ASSUME Base, Answered, SteadySoFar, ParseTerm  PROVE SteadySoFar'
<1> DEFINE A(t) == attr \cup {Place(RealPMU, t)}
<1>1. Resolving /\ pc = "terms"  BY DEF ParseTerm, Resolving
<1>2. PICK t \in terms :
        IF ~Splits(Event) \/ ~Places(RealPMU, t)
        THEN Collect
        ELSE /\ IF terms = {t}
                THEN AddEvent(A(t))
                ELSE /\ attr' = A(t)
                     /\ terms' = terms \ {t}
                     /\ UNCHANGED <<pc, at, paths, pmus, uncore, seen, stayed, perfEvents>>
             /\ UNCHANGED <<sysfs, changes, batch, names, errors>>
  BY DEF ParseTerm
<1>3. CASE ~Splits(Event) \/ ~Places(RealPMU, t)
  <2>1. Collect  BY <1>2, <1>3
  <2> QED  BY <2>1, CollectSteady
<1>4. CASE Splits(Event) /\ Places(RealPMU, t) /\ terms = {t}
  <2>1. AddEvent(A(t))  BY <1>2, <1>4
  <2> QED  BY <2>1, NothingKept DEF AddEvent
<1>5. CASE Splits(Event) /\ Places(RealPMU, t) /\ terms # {t}
  <2>1. /\ terms' = terms \ {t}
        /\ UNCHANGED <<pc, at, pmus, seen, stayed, sysfs, batch>>
    BY <1>2, <1>5
  <2>2. Event' = Event /\ RealPMU' = RealPMU /\ Dirs' = Dirs  BY <2>1 DEF Event, RealPMU, Dirs
  <2> SUFFICES ASSUME stayed = seen  PROVE SteadySoFar'  BY <2>1 DEF SteadySoFar
  <2>3. Dirs = Chosen(Event.unit) /\ First(Event.unit, RealPMU)  BY <1>1, ChosenFound
  <2>4. /\ Cpumask[RealPMU] # "unreadable"
        /\ \A s \in TermsOf(Event) \ terms : Places(RealPMU, s)
    BY <1>1 DEF SteadySoFar
  <2>5. /\ Chosen(Event.unit)' = Chosen(Event.unit) /\ First(Event.unit, RealPMU)'
        /\ \A s : Places(RealPMU, s) => Places(RealPMU, s)'
    BY <2>1, <2>2, <2>3, SameSysfs
  <2>6. TermsOf(Event)' = TermsOf(Event) /\ Splits(Event)'  BY <1>5, <2>2
  <2>7. \A s \in TermsOf(Event)' \ terms' : Places(RealPMU, s)'
    BY <1>5, <2>1, <2>2, <2>4, <2>5, <2>6
  <2> QED  BY <1>1, <2>1, <2>2, <2>3, <2>4, <2>5, <2>6, <2>7 DEF SteadySoFar
<1> QED  BY <1>3, <1>4, <1>5
-----------------------------------------------------------------------------
LEMMA SteadyStep ==
  ASSUME TransformInv, [Next]_vars  PROVE SteadySoFar'
<1> Base /\ Answered /\ SteadySoFar  BY DEF TransformInv
<1>1. CASE Transform  BY <1>1, NothingKept DEF Transform
<1>2. CASE Step
  <2>1. CASE Skip \/ Return
    <3>1. ~Resolving'  BY <2>1 DEF Skip, Return, Resolving
    <3> QED  BY <3>1 DEF SteadySoFar
  <2>2. CASE ParseFails  BY <2>2, CollectSteady DEF ParseFails
  <2>3. CASE Resolve
    <3>1. pc' = "exact"  BY <2>3 DEF Resolve
    <3> QED  BY <3>1 DEF SteadySoFar
  <2>4. CASE FindExact  BY <2>4, FindExactSteady
  <2>5. CASE FindSingle  BY <2>5, FindSingleSteady
  <2>6. CASE FindNumbered  BY <2>6, FindNumberedSteady
  <2>7. CASE ReadType  BY <2>7, ReadTypeSteady
  <2>8. CASE ValidateCpumask  BY <2>8, ValidateCpumaskSteady
  <2>9. CASE ScanCpumask  BY <2>9, ScanCpumaskSteady
  <2>10. CASE ParseTerm  BY <2>10, ParseTermSteady
  <2> QED
    BY <1>2, <2>1, <2>2, <2>3, <2>4, <2>5, <2>6, <2>7, <2>8, <2>9, <2>10 DEF Step
<1>3. CASE Plug
  <2>1. Resolving' <=> Resolving  BY <1>3 DEF Plug, Resolving
  <2>2. Resolving => ~(stayed' = seen')  BY <1>3, PlugKeeps
  <2> QED  BY <2>1, <2>2 DEF SteadySoFar
<1>4. CASE UNCHANGED vars
  <2>1. UNCHANGED <<sysfs, pc, batch, at, paths, pmus, terms, seen, stayed>>
    BY <1>4 DEF vars, resolveVars
  <2>2. /\ Resolving' = Resolving /\ Event' = Event /\ RealPMU' = RealPMU
        /\ Dirs' = Dirs /\ Glob' = Glob
    BY <2>1 DEF Resolving, Event, RealPMU, Dirs, Glob
  <2>3. /\ Chosen(Event.unit)' = Chosen(Event.unit)
        /\ Here(Numbered(Event.unit))' = Here(Numbered(Event.unit))
        /\ First(Event.unit, RealPMU) => First(Event.unit, RealPMU)'
        /\ \A t : Places(RealPMU, t) => Places(RealPMU, t)'
    BY <2>1, <2>2, SameSysfs
  <2>4. TermsOf(Event)' = TermsOf(Event) /\ Splits(Event)' = Splits(Event)  BY <2>2
  <2> QED  BY <2>1, <2>2, <2>3, <2>4 DEF SteadySoFar
<1> QED  BY <1>1, <1>2, <1>3, <1>4 DEF Next

\* The strengthening that the action properties below follow from: what the
\* steps of resolve know of sysfs, of the PMUs found and of the terms parsed.
THEOREM TransformInvariance == Spec => []TransformInv
<1>1. Init => TransformInv  BY InitBase DEF TransformInv, SteadySoFar
<1>2. TransformInv /\ [Next]_vars => TransformInv'  BY StepKeeps, SteadyStep DEF TransformInv
<1> QED  BY <1>1, <1>2, PTL DEF Spec

\* In a sysfs that did not change an event fails only if it cannot be resolved.
LEMMA FailsRightly ==
  ASSUME TransformInv, [Next]_vars, stayed = seen, Failed  PROVE ~Resolvable(Event)
<1> Base /\ SteadySoFar  BY DEF TransformInv
<1>1. errors' # errors /\ errors' # <<>>
  <2>1. Len(errors) \in Nat  BY DEF Base, TypeOK
  <2> QED  BY <2>1 DEF Failed
<1>2. ParseFails \/ FindNumbered \/ ReadType \/ ValidateCpumask \/ ScanCpumask \/ ParseTerm
  BY <1>1 DEF Next, Step, vars, Transform, Skip, Resolve, Return, FindExact, FindSingle, Try, Plug
<1>3. CASE ParseFails  BY <1>3 DEF ParseFails, Resolvable
<1>4. CASE FindNumbered
  <2>1. pc = "glob" /\ Verified(Glob) = {}  BY <1>1, <1>4 DEF FindNumbered, Glob
  <2>2. sysfs[Exact[Event.unit]] = Gone /\ sysfs[Single[Event.unit]] = Gone
    BY <2>1 DEF SteadySoFar, Resolving
  <2>3. Here(Numbered(Event.unit)) = {}  BY <2>1 DEF Verified, Here, Numbered, Range, Glob
  <2>4. Chosen(Event.unit) = {}  BY <2>2, <2>3 DEF Chosen, Here
  <2> QED  BY <2>4 DEF Resolvable
<1>5. CASE ReadType
  <2>1. pc = "types" /\ \E i \in paths : sysfs[Glob[i]] = Gone
    BY <1>1, <1>5 DEF ReadType, AddPMU, Glob
  <2> QED  BY <2>1, PathsThere
<1>6. CASE ValidateCpumask
  <2>1. pc = "cpumask" /\ Resolving /\ Cpumask[RealPMU] = "unreadable"
    BY <1>1, <1>6 DEF ValidateCpumask, Resolving
  <2> QED  BY <2>1, ChosenFound, ResolvableFirst
<1>7. CASE ScanCpumask
  <2>1. pc = "scan" /\ sysfs[RealPMU] = Gone  BY <1>1, <1>7 DEF ScanCpumask
  <2> QED  BY <2>1, ChosenFound
<1>8. CASE ParseTerm
  <2>1. /\ pc = "terms" /\ Resolving
        /\ \E t \in terms : ~Splits(Event) \/ ~Places(RealPMU, t)
    BY <1>1, <1>8 DEF ParseTerm, Resolving
  <2>2. terms \subseteq TermsOf(Event)  BY <2>1 DEF Base, AttrSoFar
  <2> QED  BY <2>1, <2>2, ChosenFound, ResolvableFirst
<1> QED  BY <1>2, <1>3, <1>4, <1>5, <1>6, <1>7, <1>8

\* And it is resolved only if it can be, with the PMUs to choose.
LEMMA ResolvesRightly ==
  ASSUME TransformInv, [Next]_vars, stayed = seen, Resolved
  PROVE  Resolvable(Event) /\ {pt[1] : pt \in Range(Result.pmus)} = Chosen(Event.unit)
<1> Base /\ Answered /\ SteadySoFar  BY DEF TransformInv
<1>1. PICK t \in terms :
        /\ pc = "terms" /\ terms = {t} /\ Splits(Event) /\ Places(RealPMU, t)
        /\ Result = [of |-> at, pmus |-> pmus, uncore |-> uncore,
                      attr |-> attr \cup {Place(RealPMU, t)}]
  BY ResolvedBy
<1>2. Resolving  BY <1>1 DEF Resolving
<1>3. /\ Dirs = Chosen(Event.unit) /\ First(Event.unit, RealPMU)
      /\ RealPMU \in Chosen(Event.unit)
  BY <1>1, ChosenFound
<1>4. /\ Cpumask[RealPMU] # "unreadable"
      /\ \A s \in TermsOf(Event) \ terms : Places(RealPMU, s)
  BY <1>1, <1>2 DEF SteadySoFar
<1>5. \A s \in TermsOf(Event) : Places(RealPMU, s)  BY <1>1, <1>4
<1>6. Resolvable(Event)  BY <1>1, <1>2, <1>3, <1>4, <1>5, ResolvableFirst
<1>7. {pt[1] : pt \in Range(Result.pmus)} = Dirs  BY <1>1 DEF Dirs
<1> QED  BY <1>3, <1>6, <1>7

\* In a sysfs that does not change while an event is resolved, the event fails
\* exactly when it cannot be resolved; its PMUs are those of the first kind of
\* name that exists (transformer.go:147).
THEOREM OutcomeIsStable == Spec => StableOutcome
<1> DEFINE P == stayed = seen =>
                  /\ Failed => ~Resolvable(Event)
                  /\ Resolved => /\ Resolvable(Event)
                                 /\ {pt[1] : pt \in Range(Result.pmus)} = Chosen(Event.unit)
<1>1. ASSUME TransformInv, [Next]_vars  PROVE P
  BY <1>1, FailsRightly, ResolvesRightly
<1>2. TransformInv /\ [Next]_vars => [P]_vars
  <2> HIDE DEF P
  <2> QED  BY <1>1
<1> QED  BY <1>2, TransformInvariance, PTL DEF Spec, StableOutcome
=============================================================================
