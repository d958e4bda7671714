------------------------- MODULE TraceIngestionProofs -------------------------
(***************************************************************************)
(* The journal: its sidecar tells the truth and a repair never takes away  *)
(* a record that was returned, for any events, writers and crashes.        *)
(*                                                                         *)
(* The ingestor that writes it: each event id once, each life in its       *)
(* order, and the indexes in memory those that a restart would build, for  *)
(* any turns, notifications, controls, operations and connections.         *)
(*                                                                         *)
(* The ledger of effects that is read from it: what each entry says is     *)
(* what was observed of its operation, for any operations and any journal. *)
(***************************************************************************)
EXTENDS TraceIngestion, EffectLedger, FiniteSetTheorems, WellFoundedInduction, TLAPS

(************************* highest numbers, prefixes ************************)

LEMMA LessIsLess == ASSUME NEW m \in Nat, NEW n \in Nat, m < n PROVE <<m, n>> \in OpToRel(<, Nat)
  BY DEF OpToRel

LEMMA LeastMember ==
    ASSUME NEW S \in SUBSET Nat, S # {}
    PROVE  \E n \in S : \A m \in S : n <= m
  <1>1. PICK n \in S : \A m \in S : ~(<<m, n>> \in OpToRel(<, Nat))
    BY NatLessThanWellFounded, WFMin
  <1>2. \A m \in S : ~(m < n)
    BY <1>1, LessIsLess
  <1> QED
    BY <1>2

\* Max() of a finite set of numbers is its highest member.
LEMMA HighestMember ==
    ASSUME NEW S \in SUBSET Nat, IsFiniteSet(S), S # {}
    PROVE  Max(S) \in S /\ \A x \in S : x <= Max(S)
  <1> DEFINE Good(T) == \E m \in T : \A x \in T : x <= m
             Bad == {T \in SUBSET Nat : IsFiniteSet(T) /\ T # {} /\ ~Good(T)}
             Sizes == {Cardinality(T) : T \in Bad}
  <1>1. Sizes \subseteq Nat
    BY FS_CardinalityType
  <1>2. ASSUME Sizes # {} PROVE FALSE
    <2>1. PICK n \in Sizes : \A k \in Sizes : n <= k
      <3> HIDE DEF Sizes
      <3> QED
        BY <1>1, <1>2, LeastMember
    <2>2. PICK T \in Bad : n = Cardinality(T)
      OBVIOUS
    <2>3. PICK y \in T : TRUE
      OBVIOUS
    <2> DEFINE R == T \ {y}
    <2>4. IsFiniteSet(R) /\ Cardinality(R) = n - 1 /\ R \in SUBSET Nat /\ n \in Nat
      BY <1>1, <2>2, FS_RemoveElement
    <2>5. R \notin Bad
      <3>1. ASSUME R \in Bad PROVE FALSE
        <4>1. Cardinality(R) \in Sizes
          BY <3>1
        <4>2. n <= Cardinality(R)
          BY <2>1, <4>1
        <4> QED
          BY <2>4, <4>2
      <3> QED
        BY <3>1
    <2>6. CASE R = {}
      <3>1. T = {y} /\ y \in Nat
        BY <2>2, <2>6
      <3>2. Good(T)
        BY <3>1
      <3> QED
        BY <2>2, <3>2
    <2>7. CASE R # {}
      <3>1. PICK m \in R : \A x \in R : x <= m
        BY <2>4, <2>5, <2>7
      <3>2. m \in Nat /\ y \in Nat /\ m \in T
        BY <2>2, <2>4
      <3>3. CASE y <= m
        <4>1. \A x \in T : x <= m
          BY <3>1, <3>3
        <4> QED
          BY <2>2, <3>2, <4>1
      <3>4. CASE ~(y <= m)
        <4>1. \A x \in T : x <= y
          BY <2>4, <3>1, <3>2, <3>4
        <4> QED
          BY <2>2, <4>1
      <3> QED
        BY <3>3, <3>4
    <2> QED
      BY <2>6, <2>7
  <1>3. Good(S)
    <2>1. Bad = {}
      BY <1>2
    <2> QED
      BY <2>1
  <1> QED
    BY <1>3 DEF Max

LEMMA HighestIs ==
    ASSUME NEW S \in SUBSET Nat, NEW m \in S, \A x \in S : x <= m
    PROVE  Max(S) = m
  <1>1. \E x \in S : \A y \in S : y <= x
    OBVIOUS
  <1>2. Max(S) \in S /\ \A x \in S : x <= Max(S)
    BY <1>1 DEF Max
  <1>3. Max(S) \in Nat /\ m \in Nat /\ Max(S) <= m /\ m <= Max(S)
    BY <1>2
  <1> QED
    BY <1>3

(******************************** the journal *******************************)

Forms == {"whole", "bare", "torn"}
Pieces(E) == [form : Forms, step : Nat, event : E, snap : BOOLEAN]
Prefix(f, n) == SubSeq(f, 1, n)

LEMMA PrefixFacts ==
    ASSUME NEW E, NEW f \in Seq(Pieces(E)), NEW n \in 0 .. Len(f)
    PROVE  /\ Prefix(f, n) \in Seq(Pieces(E)) /\ Len(Prefix(f, n)) = n
           /\ \A i \in 1 .. n : Prefix(f, n)[i] = f[i]
           /\ \A m \in 0 .. n : Prefix(Prefix(f, n), m) = Prefix(f, m)
           /\ Prefix(f, Len(f)) = f
  <1>1. Len(f) \in Nat /\ f = [i \in 1 .. Len(f) |-> f[i]]
    OBVIOUS
  <1>2. Prefix(f, n) = [i \in 1 .. n |-> f[i]]
    BY DEF Prefix
  <1>3. Prefix(f, n) \in Seq(Pieces(E)) /\ Len(Prefix(f, n)) = n
    BY DEF Prefix
  <1>4. Prefix(f, Len(f)) = f
    BY <1>1 DEF Prefix
  <1>5. ASSUME NEW m \in 0 .. n PROVE Prefix(Prefix(f, n), m) = Prefix(f, m)
    BY <1>2, <1>3, <1>5 DEF Prefix
  <1> QED
    BY <1>2, <1>3, <1>4, <1>5

LEMMA AppendFacts ==
    ASSUME NEW E, NEW f \in Seq(Pieces(E)), NEW p \in Pieces(E)
    PROVE  /\ Append(f, p) \in Seq(Pieces(E)) /\ Len(Append(f, p)) = Len(f) + 1
           /\ Append(f, p)[Len(f) + 1] = p
           /\ \A i \in 1 .. Len(f) : Append(f, p)[i] = f[i]
           /\ \A n \in 0 .. Len(f) : Prefix(Append(f, p), n) = Prefix(f, n)
  <1>1. /\ Append(f, p) \in Seq(Pieces(E)) /\ Len(Append(f, p)) = Len(f) + 1
        /\ Append(f, p)[Len(f) + 1] = p
        /\ \A i \in 1 .. Len(f) : Append(f, p)[i] = f[i]
    OBVIOUS
  <1>2. ASSUME NEW n \in 0 .. Len(f) PROVE Prefix(Append(f, p), n) = Prefix(f, n)
    BY <1>1, <1>2 DEF Prefix
  <1> QED
    BY <1>1, <1>2

\* The last line end is one, and after all the others.
LEMMA LastLineEnd ==
    ASSUME NEW E, NEW f \in Seq(Pieces(E))
    PROVE  /\ LineStart(f) \in 0 .. Len(f)
           /\ \A i \in Ends(f) : i <= LineStart(f)
           /\ LineStart(f) # 0 => LineStart(f) \in Ends(f)
  <1> DEFINE I == {i \in 1 .. Len(f) : f[i].form = "whole"}
  <1>1. I = Ends(f) /\ I \in SUBSET Nat /\ IsFiniteSet(I) /\ Len(f) \in Nat
    <2>1. IsFiniteSet(1 .. Len(f))
      BY FS_Interval
    <2> QED
      BY <2>1, FS_Subset DEF Ends
  <1>2. LineStart(f) = IF I # {} THEN Max(I) ELSE 0
    BY DEF LineStart, SelectLastInSeq
  <1>3. CASE I # {}
    <2>1. Max(I) \in I /\ \A x \in I : x <= Max(I)
      BY <1>1, <1>3, HighestMember
    <2> QED
      BY <1>1, <1>2, <1>3, <2>1
  <1>4. CASE I = {}
    BY <1>1, <1>2, <1>4
  <1> QED
    BY <1>3, <1>4

\* What a repair keeps is a prefix, with all the lines.
LEMMA KeptPrefix ==
    ASSUME NEW E, NEW f \in Seq(Pieces(E))
    PROVE  \E n \in 0 .. Len(f) :
              /\ Kept(f) = Prefix(f, n) /\ LineStart(f) <= n
              /\ \A i \in Ends(f) : i <= n
  <1>1. Len(f) \in Nat /\ Prefix(f, Len(f)) = f
    BY PrefixFacts
  <1>2. Kept(f) = f \/ Kept(f) = Prefix(f, LineStart(f))
    BY DEF Kept, Prefix
  <1> QED
    BY <1>1, <1>2, LastLineEnd DEF Ends

\* A file that ends in a line end is kept as it is.
LEMMA WholeTailKept ==
    ASSUME NEW E, NEW f \in Seq(Pieces(E)), f = <<>> \/ Len(f) \in Ends(f)
    PROVE  Kept(f) = f
  <1>1. LineStart(f) = Len(f)
    BY LastLineEnd
  <1>2. Kept(f) = Prefix(f, LineStart(f)) \/ Kept(f) = f
    BY DEF Kept, Prefix
  <1> QED
    BY <1>1, <1>2, PrefixFacts

\* A repair is done once.
LEMMA KeptIsKept ==
    ASSUME NEW E, NEW f \in Seq(Pieces(E))
    PROVE  Kept(Kept(f)) = Kept(f)
  <1>1. CASE Len(f) = LineStart(f) + 1 /\ Last(f).form = "bare"
    BY <1>1 DEF Kept
  <1>2. CASE ~(Len(f) = LineStart(f) + 1 /\ Last(f).form = "bare")
    <2> DEFINE g == Prefix(f, LineStart(f))
    <2>1. Kept(f) = g
      BY <1>2 DEF Kept, Prefix
    <2>2. LineStart(f) \in 0 .. Len(f)
      BY LastLineEnd
    <2>3. g \in Seq(Pieces(E)) /\ Len(g) = LineStart(f) /\ \A i \in 1 .. LineStart(f) : g[i] = f[i]
      BY <2>2, PrefixFacts
    <2>4. g = <<>> \/ Len(g) \in Ends(g)
      BY <2>2, <2>3, LastLineEnd DEF Ends
    <2> HIDE DEF g
    <2> QED
      BY <2>1, <2>3, <2>4, WholeTailKept
  <1> QED
    BY <1>1, <1>2

\* Two prefixes of one file have different sizes.
LEMMA SizeTellsPrefixes ==
    ASSUME NEW E, NEW f \in Seq(Pieces(E)), NEW n \in 0 .. Len(f), Size(Prefix(f, n)) = Size(f)
    PROVE  n = Len(f)
  <1> DEFINE g == Prefix(f, n)
  <1>1. Len(g) = n /\ (\A i \in 1 .. n : g[i] = f[i]) /\ g \in Seq(Pieces(E)) /\ Len(f) \in Nat
    BY PrefixFacts
  <1> HIDE DEF g
  <1>2. Records(g) \subseteq Records(f) /\ Ends(g) \subseteq Ends(f)
    BY <1>1 DEF Records, Ends
  <1>3. IsFiniteSet(Records(f)) /\ IsFiniteSet(Ends(f))
    <2>1. IsFiniteSet(1 .. Len(f))
      BY FS_Interval
    <2> QED
      BY <2>1, FS_Subset DEF Records, Ends
  <1>4. /\ Cardinality(Records(g)) <= Cardinality(Records(f))
        /\ Cardinality(Ends(g)) <= Cardinality(Ends(f))
        /\ Cardinality(Records(g)) \in Nat /\ Cardinality(Ends(g)) \in Nat
        /\ Cardinality(Records(f)) \in Nat /\ Cardinality(Ends(f)) \in Nat
    BY <1>2, <1>3, FS_Subset, FS_CardinalityType
  <1> QED
    BY <1>1, <1>4 DEF Size, g

\* The last snapshot of a file that grows is that of the new record, if it has one.
LEMMA SnapshotOfAppend ==
    ASSUME NEW E, NEW f \in Seq(Pieces(E)), NEW p \in Pieces(E)
    PROVE  LastSnapshot(Append(f, p)) = IF p.snap THEN Len(f) + 1 ELSE LastSnapshot(f)
  <1> DEFINE I == {i \in 1 .. Len(f) : f[i].snap}
             J == {i \in 1 .. Len(Append(f, p)) : Append(f, p)[i].snap}
  <1>1. /\ LastSnapshot(f) = IF I # {} THEN Max(I) ELSE 0
        /\ LastSnapshot(Append(f, p)) = IF J # {} THEN Max(J) ELSE 0
    BY DEF LastSnapshot, SelectLastInSeq
  <1>2. Len(f) \in Nat
    OBVIOUS
  <1>3. CASE p.snap
    <2>1. Len(f) + 1 \in J /\ (\A x \in J : x <= Len(f) + 1) /\ J \subseteq Nat
      BY <1>2, <1>3, AppendFacts
    <2> HIDE DEF J
    <2>2. Max(J) = Len(f) + 1
      BY <2>1, HighestIs
    <2> QED
      BY <1>1, <1>3, <2>1, <2>2
  <1>4. CASE ~p.snap
    <2> DEFINE g == Append(f, p)
    <2>2. /\ Len(g) = Len(f) + 1 /\ g[Len(f) + 1] = p
          /\ \A i \in 1 .. Len(f) : g[i] = f[i]
      BY AppendFacts
    <2> HIDE DEF g
    <2>3. ~g[Len(f) + 1].snap
      BY <1>4, <2>2
    <2>1. I = J
      BY <1>2, <2>2, <2>3 DEF g
    <2> QED
      BY <1>1, <1>4, <2>1
  <1> QED
    BY <1>3, <1>4

LEMMA LastSnapshotType ==
    ASSUME NEW E, NEW f \in Seq(Pieces(E))
    PROVE  LastSnapshot(f) \in Nat
  <1> DEFINE I == {i \in 1 .. Len(f) : f[i].snap}
  <1>1. LastSnapshot(f) = IF I # {} THEN Max(I) ELSE 0
    BY DEF LastSnapshot, SelectLastInSeq
  <1>2. I \in SUBSET Nat /\ IsFiniteSet(I)
    <2>1. IsFiniteSet(1 .. Len(f))
      BY FS_Interval
    <2> QED
      BY <2>1, FS_Subset
  <1> HIDE DEF I
  <1>3. CASE I # {}
    BY <1>1, <1>2, <1>3, HighestMember
  <1> QED
    BY <1>1, <1>3

-----------------------------------------------------------------------------
(* The steps of a journal whose records hold the events E, the repair of a
   daemon that starts included. *)

Doings(E) == [at : {"idle", "opened", "written", "returned"}, event : E \cup {NoEvent},
              snap : BOOLEAN, steps : Nat, last : Nat]

Repair ==
    /\ \A w \in Writers : doing[w].at = "idle"
    /\ file' = Kept(file)
    /\ UNCHANGED <<sidecar, lock, doing, acked, crashes>>

JournalStep(E) ==
    \/ \E w \in Writers, e \in E, snap \in BOOLEAN : Open(w, e, snap)
    \/ \E w \in Writers : Write(w) \/ Cache(w) \/ Leave(w)
    \/ \E dead \in SUBSET Writers : Die(dead)
    \/ Repair \/ UNCHANGED journalVars

JournalTypes(E) ==
    /\ file \in Seq(Pieces(E))
    /\ doing \in [Writers -> Doings(E)]
    /\ lock \in Writers \cup {Nobody}
    /\ acked \subseteq Pieces(E)
    /\ \A w \in Writers : doing[w].at # "idle" => doing[w].event \in E

\* One writer at a time, and it knows the file it writes to.
Lines(f) == {f[i] : i \in Ends(f)}
Knows(f, d) == d.steps = Len(f) /\ d.last = LastSnapshot(f)
PieceOf(d, form) == [form |-> form, step |-> d.steps, event |-> d.event, snap |-> d.snap]
Wrote(f, d) ==
    /\ f # <<>> /\ f[Len(f)] = PieceOf(d, "whole")
    /\ Knows(Prefix(f, Len(f) - 1), d)
OneWriter ==
    \A w \in Writers :
        /\ doing[w].at \in {"opened", "written"} => lock = w
        /\ doing[w].at = "opened" => Knows(file, doing[w])
        /\ doing[w].at = "written" => Wrote(file, doing[w])

\* The sidecar describes the file up to one of its lines.
Describes(s, f) == \E n \in Ends(f) : s = Summary(Prefix(f, n))

JournalInv(E) ==
    /\ JournalTypes(E)
    /\ OneWriter
    /\ sidecar = NoSidecar \/ Describes(sidecar, file)
    /\ acked \subseteq Lines(file)

\* A file that grows or is repaired keeps its lines.
LEMMA GrowthKeepsLines ==
    ASSUME NEW E, NEW f \in Seq(Pieces(E)), NEW p \in Pieces(E)
    PROVE  /\ Lines(f) \subseteq Lines(Append(f, p))
           /\ \A s : Describes(s, f) => Describes(s, Append(f, p))
  <1> DEFINE g == Append(f, p)
  <1>1. /\ Len(g) = Len(f) + 1 /\ g \in Seq(Pieces(E))
        /\ \A i \in 1 .. Len(f) : g[i] = f[i]
        /\ \A n \in 0 .. Len(f) : Prefix(g, n) = Prefix(f, n)
    BY AppendFacts
  <1> HIDE DEF g
  <1>2. \A i \in Ends(f) : i \in Ends(g) /\ g[i] = f[i] /\ Prefix(g, i) = Prefix(f, i)
    BY <1>1 DEF Ends
  <1>3. Lines(f) \subseteq Lines(g)
    BY <1>2 DEF Lines
  <1>4. \A s : Describes(s, f) => Describes(s, g)
    BY <1>2 DEF Describes
  <1> QED
    BY <1>3, <1>4 DEF g

LEMMA RepairKeepsLines ==
    ASSUME NEW E, NEW f \in Seq(Pieces(E))
    PROVE  /\ Kept(f) \in Seq(Pieces(E))
           /\ Lines(f) \subseteq Lines(Kept(f))
           /\ \A s : Describes(s, f) => Describes(s, Kept(f))
  <1> DEFINE g == Kept(f)
  <1>1. PICK n \in 0 .. Len(f) : g = Prefix(f, n) /\ \A i \in Ends(f) : i <= n
    BY KeptPrefix
  <1>2. /\ g \in Seq(Pieces(E)) /\ Len(g) = n /\ Len(f) \in Nat
        /\ \A i \in 1 .. n : g[i] = f[i]
        /\ \A m \in 0 .. n : Prefix(g, m) = Prefix(f, m)
    BY <1>1, PrefixFacts
  <1> HIDE DEF g
  <1>3. \A i \in Ends(f) : i \in Ends(g) /\ g[i] = f[i] /\ Prefix(g, i) = Prefix(f, i)
    BY <1>1, <1>2 DEF Ends
  <1>4. Lines(f) \subseteq Lines(g)
    BY <1>3 DEF Lines
  <1>5. \A s : Describes(s, f) => Describes(s, g)
    BY <1>3 DEF Describes
  <1> QED
    BY <1>2, <1>4, <1>5 DEF g

\* The sidecar that fits the file's size is the file's.
LEMMA FreshIsTrue ==
    ASSUME NEW E, JournalInv(E), Fresh
    PROVE  sidecar = Summary(file)
  <1>1. PICK n \in Ends(file) : sidecar = Summary(Prefix(file, n))
    BY DEF JournalInv, Fresh, Describes
  <1>2. sidecar.size = Size(Prefix(file, n))
    BY <1>1 DEF Summary
  <1>3. file \in Seq(Pieces(E)) /\ n \in 0 .. Len(file)
    BY DEF JournalInv, JournalTypes, Ends
  <1>4. n = Len(file)
    BY <1>2, <1>3, SizeTellsPrefixes DEF Fresh
  <1> QED
    BY <1>1, <1>3, <1>4, PrefixFacts

LEMMA OpenKeeps ==
    ASSUME NEW E, JournalInv(E), NEW w \in Writers, NEW e \in E, NEW snap \in BOOLEAN,
           Open(w, e, snap)
    PROVE  JournalInv(E)'
  <1> DEFINE known == IF Fresh THEN sidecar ELSE Summary(Kept(file))
             d == [at |-> "opened", event |-> e, snap |-> snap,
                   steps |-> known.steps, last |-> known.last]
  <1>1. /\ JournalTypes(E) /\ OneWriter /\ (sidecar = NoSidecar \/ Describes(sidecar, file))
        /\ acked \subseteq Lines(file) /\ file \in Seq(Pieces(E))
        /\ doing \in [Writers -> Doings(E)]
    BY DEF JournalInv, JournalTypes
  <1>2. /\ doing[w].at = "idle" /\ lock = Nobody /\ lock' = w
        /\ file' = IF Fresh THEN file ELSE Kept(file)
        /\ doing' = [doing EXCEPT ![w] = d] /\ sidecar' = sidecar /\ acked' = acked
    BY DEF Open
  <1>3. known = Summary(file')
    BY <1>2, FreshIsTrue
  <1>4. /\ file' \in Seq(Pieces(E)) /\ acked \subseteq Lines(file')
        /\ sidecar = NoSidecar \/ Describes(sidecar, file')
    BY <1>1, <1>2, RepairKeepsLines
  <1>5. known.steps = Len(file') /\ known.last = LastSnapshot(file')
    BY <1>3 DEF Summary
  <1> HIDE DEF known
  <1>6. d \in Doings(E) /\ Knows(file', d) /\ d.at = "opened" /\ d.event = e
    <2>1. Len(file') \in Nat /\ LastSnapshot(file') \in Nat
      BY <1>4, LastSnapshotType
    <2> QED
      BY <1>5, <2>1 DEF Doings, Knows
  <1> HIDE DEF d
  <1>7. JournalTypes(E)'
    BY <1>1, <1>2, <1>4, <1>6 DEF JournalTypes
  <1>8. OneWriter'
    <2>1. ASSUME NEW v \in Writers
          PROVE  /\ doing'[v].at \in {"opened", "written"} => lock' = v
                 /\ doing'[v].at = "opened" => Knows(file', doing'[v])
                 /\ doing'[v].at = "written" => Wrote(file', doing'[v])
      <3>1. CASE v = w
        BY <1>1, <1>2, <1>6, <3>1
      <3>2. CASE v # w
        BY <1>1, <1>2, <3>2, JournalAssumption DEF OneWriter
      <3> QED
        BY <3>1, <3>2
    <2> QED
      BY <2>1 DEF OneWriter
  <1> QED
    BY <1>1, <1>2, <1>4, <1>7, <1>8 DEF JournalInv

\* What the writer adds is the next record.
LEMMA PieceType ==
    ASSUME NEW E, JournalInv(E), NEW w \in Writers, doing[w].at # "idle", NEW form \in Forms
    PROVE  Piece(w, form) \in Pieces(E) /\ Piece(w, form) = PieceOf(doing[w], form)
  <1>1. doing[w] \in Doings(E) /\ doing[w].event \in E
    BY DEF JournalInv, JournalTypes
  <1> QED
    BY <1>1 DEF Piece, PieceOf, Pieces, Doings

LEMMA WriteKeeps ==
    ASSUME NEW E, JournalInv(E), NEW w \in Writers, Write(w)
    PROVE  JournalInv(E)'
  <1> DEFINE p == Piece(w, "whole")
             d == [doing[w] EXCEPT !.at = "written"]
  <1>1. /\ JournalTypes(E) /\ OneWriter /\ (sidecar = NoSidecar \/ Describes(sidecar, file))
        /\ acked \subseteq Lines(file) /\ file \in Seq(Pieces(E))
        /\ doing \in [Writers -> Doings(E)] /\ doing[w] \in Doings(E)
    BY DEF JournalInv, JournalTypes
  <1>2. /\ doing[w].at = "opened" /\ lock' = lock /\ file' = Append(file, p)
        /\ doing' = [doing EXCEPT ![w] = d] /\ sidecar' = sidecar /\ acked' = acked
    BY DEF Write
  <1>3. p \in Pieces(E) /\ p = PieceOf(doing[w], "whole")
    BY <1>2, PieceType DEF Forms
  <1>4. /\ d \in Doings(E) /\ d.at = "written" /\ d.event = doing[w].event
        /\ d.steps = doing[w].steps /\ d.last = doing[w].last /\ d.snap = doing[w].snap
    BY <1>1 DEF Doings
  <1> HIDE DEF p, d
  <1>5. /\ file' \in Seq(Pieces(E)) /\ acked \subseteq Lines(file')
        /\ sidecar = NoSidecar \/ Describes(sidecar, file')
        /\ Len(file') = Len(file) + 1 /\ file'[Len(file) + 1] = p
        /\ Prefix(file', Len(file)) = file
    <2>1. Len(file) \in 0 .. Len(file) /\ Prefix(file, Len(file)) = file
      BY <1>1, PrefixFacts
    <2> QED
      BY <1>1, <1>2, <1>3, <2>1, AppendFacts, GrowthKeepsLines
  <1>6. Wrote(file', d)
    <2>1. Knows(file, doing[w]) /\ Len(file) \in Nat
      BY <1>1, <1>2 DEF OneWriter
    <2>2. PieceOf(d, "whole") = p
      BY <1>3, <1>4 DEF PieceOf
    <2>3. Knows(Prefix(file', Len(file') - 1), d)
      BY <1>4, <1>5, <2>1 DEF Knows
    <2> QED
      BY <1>5, <2>1, <2>2, <2>3 DEF Wrote
  <1>7. JournalTypes(E)'
    BY <1>1, <1>2, <1>4, <1>5 DEF JournalTypes
  <1>8. OneWriter'
    <2>1. ASSUME NEW v \in Writers
          PROVE  /\ doing'[v].at \in {"opened", "written"} => lock' = v
                 /\ doing'[v].at = "opened" => Knows(file', doing'[v])
                 /\ doing'[v].at = "written" => Wrote(file', doing'[v])
      <3>1. CASE v = w
        BY <1>1, <1>2, <1>4, <1>6, <3>1 DEF OneWriter
      <3>2. CASE v # w
        BY <1>1, <1>2, <3>2, JournalAssumption DEF OneWriter
      <3> QED
        BY <3>1, <3>2
    <2> QED
      BY <2>1 DEF OneWriter
  <1> QED
    BY <1>1, <1>2, <1>5, <1>7, <1>8 DEF JournalInv

LEMMA CacheKeeps ==
    ASSUME NEW E, JournalInv(E), NEW w \in Writers, Cache(w)
    PROVE  JournalInv(E)'
  <1> DEFINE p == Piece(w, "whole")
             d == [doing[w] EXCEPT !.at = "returned"]
             front == Prefix(file, Len(file) - 1)
  <1>1. /\ JournalTypes(E) /\ OneWriter /\ (sidecar = NoSidecar \/ Describes(sidecar, file))
        /\ acked \subseteq Lines(file) /\ file \in Seq(Pieces(E))
        /\ doing \in [Writers -> Doings(E)] /\ doing[w] \in Doings(E)
    BY DEF JournalInv, JournalTypes
  <1>2. /\ doing[w].at = "written" /\ lock' = Nobody /\ file' = file
        /\ doing' = [doing EXCEPT ![w] = d] /\ sidecar' = Described(w)
        /\ acked' = acked \cup {p}
    BY DEF Cache
  <1>3. p \in Pieces(E) /\ p = PieceOf(doing[w], "whole") /\ p.form = "whole"
        /\ p.snap = doing[w].snap
    BY <1>2, PieceType DEF Forms, PieceOf
  <1>4. d \in Doings(E) /\ d.at = "returned" /\ d.event = doing[w].event
    BY <1>1 DEF Doings
  <1>5. file # <<>> /\ file[Len(file)] = p /\ Knows(front, doing[w])
    BY <1>1, <1>2, <1>3 DEF OneWriter, Wrote
  <1> HIDE DEF p, d, front
  <1>6. Len(file) \in Ends(file) /\ Len(file) \in Nat /\ Len(file) > 0
    BY <1>1, <1>3, <1>5 DEF Ends
  <1>7. p \in Lines(file)
    BY <1>5, <1>6 DEF Lines
  <1>8. /\ front \in Seq(Pieces(E)) /\ Len(front) = Len(file) - 1 /\ file = Append(front, p)
    <2>1. /\ front \in Seq(Pieces(E)) /\ Len(front) = Len(file) - 1
          /\ \A i \in 1 .. Len(file) - 1 : front[i] = file[i]
      BY <1>1, <1>6, PrefixFacts DEF front
    <2>2. /\ Append(front, p) \in Seq(Pieces(E)) /\ Len(Append(front, p)) = Len(file)
          /\ Append(front, p)[Len(file)] = p
          /\ \A i \in 1 .. Len(file) - 1 : Append(front, p)[i] = front[i]
      BY <1>3, <1>6, <2>1, AppendFacts
    <2> DEFINE g == Append(front, p)
    <2> HIDE DEF g
    <2>3. \A i \in 1 .. Len(file) : g[i] = file[i]
      BY <1>5, <1>6, <2>1, <2>2 DEF g
    <2>4. g = file
      BY <1>1, <1>6, <2>2, <2>3 DEF g
    <2> QED
      BY <2>1, <2>4 DEF g
  <1>9. Described(w) = Summary(file)
    <2>1. LastSnapshot(file) = IF p.snap THEN Len(file) ELSE LastSnapshot(front)
      BY <1>3, <1>6, <1>8, SnapshotOfAppend
    <2>2. doing[w].steps = Len(file) - 1 /\ doing[w].last = LastSnapshot(front)
      BY <1>5, <1>8 DEF Knows
    <2>3. CASE p.snap
      BY <1>3, <1>6, <2>1, <2>2, <2>3 DEF Described, Summary
    <2>4. CASE ~p.snap
      BY <1>3, <1>6, <2>1, <2>2, <2>4 DEF Described, Summary
    <2> QED
      BY <2>3, <2>4
  <1>10. Describes(sidecar', file')
    <2>1. Prefix(file, Len(file)) = file
      BY <1>1, <1>6, PrefixFacts
    <2> QED
      BY <1>2, <1>6, <1>9, <2>1 DEF Describes
  <1>11. JournalTypes(E)'
    BY <1>1, <1>2, <1>3, <1>4 DEF JournalTypes
  <1>12. OneWriter'
    <2>1. ASSUME NEW v \in Writers
          PROVE  /\ doing'[v].at \in {"opened", "written"} => lock' = v
                 /\ doing'[v].at = "opened" => Knows(file', doing'[v])
                 /\ doing'[v].at = "written" => Wrote(file', doing'[v])
      <3>1. CASE v = w
        BY <1>1, <1>2, <1>4, <3>1
      <3>2. CASE v # w
        BY <1>1, <1>2, <3>2 DEF OneWriter
      <3> QED
        BY <3>1, <3>2
    <2> QED
      BY <2>1 DEF OneWriter
  <1> QED
    BY <1>1, <1>2, <1>7, <1>10, <1>11, <1>12 DEF JournalInv

\* A crash cuts the record that was being written, and no other.
LEMMA DieKeeps ==
    ASSUME NEW E, JournalInv(E), NEW dead \in SUBSET Writers, Die(dead)
    PROVE  JournalInv(E)'
  <1>1. /\ JournalTypes(E) /\ OneWriter /\ (sidecar = NoSidecar \/ Describes(sidecar, file))
        /\ acked \subseteq Lines(file) /\ file \in Seq(Pieces(E))
        /\ doing \in [Writers -> Doings(E)] /\ lock \in Writers \cup {Nobody}
        /\ \A w \in Writers : doing[w].at # "idle" => doing[w].event \in E
    BY DEF JournalInv, JournalTypes
  <1>2. /\ file' \in IF lock \in dead THEN Cuts(lock) ELSE {file}
        /\ lock' = (IF lock \in dead THEN Nobody ELSE lock)
        /\ doing' = [w \in Writers |-> IF w \in dead THEN Idle ELSE doing[w]]
        /\ sidecar' = sidecar /\ acked' = acked
    BY DEF Die
  <1>3. /\ file' \in Seq(Pieces(E)) /\ acked \subseteq Lines(file')
        /\ sidecar = NoSidecar \/ Describes(sidecar, file')
    <2>1. CASE file' = file
      BY <1>1, <2>1
    <2>2. CASE file' # file
      <3>1. PICK form \in {"torn", "bare"} : file' = Append(file, Piece(lock, form))
        BY <1>2, <2>2 DEF Cuts
      <3>2. lock \in Writers /\ doing[lock].at = "opened"
        BY <1>2, <2>2 DEF Cuts
      <3>3. Piece(lock, form) \in Pieces(E)
        BY <3>2, PieceType DEF Forms
      <3> QED
        BY <1>1, <3>1, <3>3, AppendFacts, GrowthKeepsLines
    <2> QED
      BY <2>1, <2>2
  <1>4. Idle \in Doings(E) /\ Idle.at = "idle"
    BY DEF Idle, Doings
  <1>5. JournalTypes(E)'
    <2>1. lock' \in Writers \cup {Nobody}
      BY <1>1, <1>2
    <2>2. ASSUME NEW w \in Writers
          PROVE  doing'[w] \in Doings(E) /\ (doing'[w].at # "idle" => doing'[w].event \in E)
      <3>1. CASE w \in dead
        BY <1>2, <1>4, <3>1
      <3>2. CASE w \notin dead
        BY <1>1, <1>2, <3>2
      <3> QED
        BY <3>1, <3>2
    <2>3. doing' \in [Writers -> Doings(E)]
      BY <1>2, <2>2
    <2>4. acked' \subseteq Pieces(E)
      BY <1>1, <1>2 DEF JournalTypes
    <2> QED
      BY <1>3, <2>1, <2>2, <2>3, <2>4 DEF JournalTypes
  <1>6. OneWriter'
    <2>1. ASSUME NEW v \in Writers, doing'[v].at \in {"opened", "written"}
          PROVE  lock' = v /\ doing'[v] = doing[v] /\ file' = file
      <3>1. v \notin dead /\ doing'[v] = doing[v]
        BY <1>2, <1>4, <2>1
      <3>2. lock = v
        BY <1>1, <2>1, <3>1 DEF OneWriter
      <3> QED
        BY <1>2, <3>1, <3>2
    <2> QED
      BY <1>1, <2>1 DEF OneWriter
  <1> QED
    BY <1>1, <1>2, <1>3, <1>5, <1>6 DEF JournalInv

LEMMA JournalKeeps ==
    ASSUME NEW E, JournalInv(E), JournalStep(E)
    PROVE  JournalInv(E)'
  <1>1. /\ JournalTypes(E) /\ OneWriter /\ (sidecar = NoSidecar \/ Describes(sidecar, file))
        /\ acked \subseteq Lines(file) /\ file \in Seq(Pieces(E))
        /\ doing \in [Writers -> Doings(E)]
    BY DEF JournalInv, JournalTypes
  <1>2. CASE Repair
    <2>1. /\ file' \in Seq(Pieces(E)) /\ acked \subseteq Lines(file')
          /\ sidecar = NoSidecar \/ Describes(sidecar, file')
      BY <1>1, <1>2, RepairKeepsLines DEF Repair
    <2>2. /\ sidecar' = sidecar /\ lock' = lock /\ doing' = doing /\ acked' = acked
          /\ \A w \in Writers : doing[w].at = "idle"
      BY <1>2 DEF Repair
    <2>3. JournalTypes(E)'
      BY <1>1, <2>1, <2>2 DEF JournalTypes
    <2>4. OneWriter'
      BY <2>2 DEF OneWriter
    <2> QED
      BY <1>1, <2>1, <2>2, <2>3, <2>4 DEF JournalInv
  <1>3. CASE UNCHANGED journalVars
    BY <1>1, <1>3 DEF journalVars, JournalInv, JournalTypes, OneWriter
  <1>4. ASSUME NEW w \in Writers, Leave(w) PROVE JournalInv(E)'
    <2>1. /\ doing[w].at = "returned" /\ doing' = [doing EXCEPT ![w] = Idle]
          /\ file' = file /\ sidecar' = sidecar /\ lock' = lock /\ acked' = acked
      BY <1>4 DEF Leave
    <2>2. Idle \in Doings(E) /\ Idle.at = "idle"
      BY DEF Idle, Doings
    <2>3. JournalTypes(E)'
      BY <1>1, <2>1, <2>2 DEF JournalTypes
    <2>4. OneWriter'
      BY <1>1, <2>1, <2>2 DEF OneWriter
    <2> QED
      BY <1>1, <2>1, <2>3, <2>4 DEF JournalInv
  <1> QED
    BY <1>2, <1>3, <1>4, OpenKeeps, WriteKeeps, CacheKeeps, DieKeeps DEF JournalStep

LEMMA JournalStarts ==
    ASSUME NEW E, JournalInit
    PROVE  JournalInv(E)
  <1>1. Idle \in Doings(E) /\ Idle.at = "idle"
    BY DEF Idle, Doings
  <1> QED
    BY <1>1 DEF JournalInit, JournalInv, JournalTypes, OneWriter

LEMMA JournalShows ==
    ASSUME NEW E, JournalInv(E)
    PROVE  SidecarTruthful /\ AcknowledgedKept
  <1>1. SidecarTruthful
    BY FreshIsTrue DEF SidecarTruthful
  <1>2. AcknowledgedKept
    BY DEF AcknowledgedKept, JournalInv, Lines, Ends
  <1> QED
    BY <1>1, <1>2

-----------------------------------------------------------------------------
(* The indexes that the journal has. *)

LEMMA MaxAdd ==
    ASSUME NEW S \in SUBSET Nat, IsFiniteSet(S), S # {}, NEW x \in Nat
    PROVE  Max(S \cup {x}) = Larger(x, Max(S))
  <1>1. Max(S) \in S /\ \A y \in S : y <= Max(S)
    BY HighestMember
  <1>2. Max(S) \in Nat
    BY <1>1
  <1>3. CASE x < Max(S)
    <2>1. Max(S) \in S \cup {x} /\ S \cup {x} \in SUBSET Nat /\ \A y \in S \cup {x} : y <= Max(S)
      BY <1>1, <1>2, <1>3
    <2>2. Max(S \cup {x}) = Max(S)
      BY <2>1, HighestIs
    <2> QED
      BY <1>3, <2>2 DEF Larger
  <1>4. CASE ~(x < Max(S))
    <2>1. x \in S \cup {x} /\ S \cup {x} \in SUBSET Nat /\ \A y \in S \cup {x} : y <= x
      BY <1>1, <1>2, <1>4
    <2>2. Max(S \cup {x}) = x
      BY <2>1, HighestIs
    <2> QED
      BY <1>4, <2>2 DEF Larger
  <1> QED
    BY <1>3, <1>4

LEMMA ImageFinite ==
    ASSUME NEW S, IsFiniteSet(S), NEW F
    PROVE  IsFiniteSet({F[x] : x \in S})
  <1> DEFINE T == {F[x] : x \in S}
             G == [x \in S |-> F[x]]
  <1>1. G \in Surjection(S, T)
    BY DEF Surjection
  <1> QED
    BY <1>1, FS_Surjection

ValuesOf(pairs, k) == {q[2] : q \in {q \in pairs : q[1] = k}}
KeysOf(pairs) == {q[1] : q \in pairs}

LEMMA HighestUnfolds ==
    ASSUME NEW P
    PROVE  Highest(P) = [k \in KeysOf(P) |-> Max(ValuesOf(P, k))]
  BY DEF Highest, KeysOf, ValuesOf

LEMMA ValuesFinite ==
    ASSUME NEW K, NEW P \in SUBSET (K \X Nat), IsFiniteSet(P), NEW k
    PROVE  ValuesOf(P, k) \in SUBSET Nat /\ IsFiniteSet(ValuesOf(P, k))
  <1> DEFINE Q == {q \in P : q[1] = k}
  <1>1. IsFiniteSet(Q) /\ Q \subseteq P
    BY FS_Subset
  <1>2. IsFiniteSet({q[2] : q \in Q})
    <2> DEFINE F == [q \in Q |-> q[2]]
    <2>1. IsFiniteSet({F[q] : q \in Q}) /\ DOMAIN F = Q
      BY <1>1, ImageFinite
    <2>2. \A q \in Q : F[q] = q[2]
      OBVIOUS
    <2> HIDE DEF F, Q
    <2>3. {F[q] : q \in Q} = {q[2] : q \in Q}
      BY <2>2
    <2> QED
      BY <2>1, <2>3
  <1>3. \A q \in Q : q[2] \in Nat
    BY <1>1
  <1> QED
    BY <1>2, <1>3 DEF ValuesOf

\* A clock that is advanced is the highest of what it was and of the new value.
LEMMA HighestAdd ==
    ASSUME NEW K, NEW P \in SUBSET (K \X Nat), IsFiniteSet(P), NEW k \in K, NEW v \in Nat
    PROVE  Highest(P \cup {<<k, v>>})
             = Put(Highest(P), k, Larger(v, Lookup(Highest(P), k, 0)))
  <1> DEFINE N == P \cup {<<k, v>>}
  <1>q. PICK q : q = <<k, v>>
    OBVIOUS
  <1>f. q[1] = k /\ q[2] = v /\ N = P \cup {q}
    BY <1>q
  <1> HIDE DEF N
  <1>1. KeysOf(N) = KeysOf(P) \cup {k}
    BY <1>f DEF KeysOf
  <1>2. ValuesOf(N, k) = ValuesOf(P, k) \cup {v}
    BY <1>f DEF ValuesOf
  <1>3. \A j : j # k => ValuesOf(N, j) = ValuesOf(P, j)
    BY <1>f DEF ValuesOf
  <1>4. Max(ValuesOf(N, k)) = Larger(v, Lookup(Highest(P), k, 0))
    <2>1. CASE k \in KeysOf(P)
      <3>1. ValuesOf(P, k) # {}
        BY <2>1 DEF ValuesOf, KeysOf
      <3>2. Max(ValuesOf(N, k)) = Larger(v, Max(ValuesOf(P, k)))
        BY <1>2, <3>1, ValuesFinite, MaxAdd
      <3>3. Lookup(Highest(P), k, 0) = Max(ValuesOf(P, k))
        BY <2>1, HighestUnfolds DEF Lookup
      <3> QED
        BY <3>2, <3>3
    <2>2. CASE k \notin KeysOf(P)
      <3>1. ValuesOf(N, k) = {v}
        BY <1>2, <2>2 DEF ValuesOf, KeysOf
      <3>2. Max(ValuesOf(N, k)) = v
        BY <3>1, HighestIs
      <3>3. Lookup(Highest(P), k, 0) = 0
        BY <2>2, HighestUnfolds DEF Lookup
      <3>4. Larger(v, 0) = v
        BY DEF Larger
      <3> QED
        BY <3>2, <3>3, <3>4
    <2> QED
      BY <2>1, <2>2
  <1> DEFINE new == Larger(v, Lookup(Highest(P), k, 0))
             ext == Put(Highest(P), k, new)
  <1> HIDE DEF new
  <1>5. Highest(N) = [j \in KeysOf(P) \cup {k} |-> Max(ValuesOf(N, j))]
    BY <1>1, HighestUnfolds
  <1>6. ext = [j \in {k} \cup KeysOf(P) |-> IF j = k THEN new ELSE Max(ValuesOf(P, j))]
    BY HighestUnfolds DEF Put
  <1>7. \A j \in KeysOf(P) \cup {k} :
           Max(ValuesOf(N, j)) = IF j = k THEN new ELSE Max(ValuesOf(P, j))
    BY <1>3, <1>4 DEF new
  <1> QED
    BY <1>5, <1>6, <1>7 DEF new, N

\* A clock shows a number.
LEMMA HighestShows ==
    ASSUME NEW K, NEW P \in SUBSET (K \X Nat), IsFiniteSet(P), NEW k
    PROVE  Lookup(Highest(P), k, 0) \in Nat
  <1>1. CASE k \in KeysOf(P)
    <2>1. ValuesOf(P, k) # {}
      BY <1>1 DEF ValuesOf, KeysOf
    <2>2. Max(ValuesOf(P, k)) \in Nat
      BY <2>1, ValuesFinite, HighestMember
    <2> QED
      BY <1>1, <2>2, HighestUnfolds DEF Lookup
  <1>2. CASE k \notin KeysOf(P)
    BY <1>2, HighestUnfolds DEF Lookup
  <1> QED
    BY <1>1, <1>2

EventsAbout(notes) == [note : notes, effect : BOOLEAN, epoch : Nat, seq : Nat,
                       late : BOOLEAN, begun : BOOLEAN]
Observations == EventsAbout(Notifications)
Commands == EventsAbout(Controls)
AllEvents == EventsAbout(Notifications \cup Controls)

LEMMA EventFacts ==
    ASSUME NEW e \in AllEvents
    PROVE  /\ e.note \in Notifications \cup Controls /\ e.effect \in BOOLEAN
           /\ e.epoch \in Nat /\ e.seq \in Nat /\ At(e) \in Nat
           /\ e.note.turn \in Turns \cup {NoTurn}
           /\ Id(e) \in Notifications \cup Controls \cup {None}
  BY IngestionAssumption DEF AllEvents, EventsAbout, At, Id

EventsAt(f, I) == {f[i].event : i \in I}
OperationsAt(f, I) == {i \in I : f[i].event.note.op # NoOp}
AboutAt(f, I, k) == {i \in OperationsAt(f, I) : OpKey(f[i].event) = k}
TimesAt(f, I) == {<<TimeKey(e), At(e)>> : e \in {e \in EventsAt(f, I) : At(e) # 0}}
ArrivalsAt(f, I) == {<<e.epoch, e.seq>> : e \in {e \in EventsAt(f, I) : e.seq # 0}}
EpochsAt(f, I) == {0} \cup {e.epoch : e \in EventsAt(f, I)}
OpsAt(f, I) == [k \in {OpKey(f[i].event) : i \in OperationsAt(f, I)} |->
                  Said(f[Max(AboutAt(f, I, k))].event)]

LEMMA IndexesUnfold ==
    ASSUME NEW f, NEW I
    PROVE  Indexes(f, I) =
             [repo |-> \E e \in EventsAt(f, I) : e.note.kind = "thread_started",
              seen |-> {Id(e) : e \in EventsAt(f, I)} \ {None},
              ops |-> OpsAt(f, I),
              terminal |-> {e.note.turn : e \in {e \in EventsAt(f, I) :
                                                     e.note.kind = "turn_completed"}},
              lastAt |-> Highest(TimesAt(f, I)),
              lastSeq |-> Highest(ArrivalsAt(f, I)),
              epoch |-> Max(EpochsAt(f, I)),
              registry |-> NoRegistry]
  BY DEF Indexes, EventsAt, OperationsAt, AboutAt, TimesAt, ArrivalsAt, EpochsAt, OpsAt

Journal == Seq(Pieces(AllEvents))

LEMMA RecordAt ==
    ASSUME NEW f \in Journal, NEW i \in DOMAIN f
    PROVE  f[i] \in Pieces(AllEvents) /\ f[i].event \in AllEvents /\ i \in Nat /\ i > 0
  <1>1. f \in Seq(Pieces(AllEvents)) /\ DOMAIN f = 1 .. Len(f) /\ Len(f) \in Nat
    BY DEF Journal
  <1>2. f[i] \in Pieces(AllEvents)
    BY <1>1
  <1> QED
    BY <1>1, <1>2 DEF Pieces

LEMMA EventsFinite ==
    ASSUME NEW f \in Journal, NEW I \in SUBSET DOMAIN f
    PROVE  IsFiniteSet(I) /\ IsFiniteSet(EventsAt(f, I)) /\ EventsAt(f, I) \subseteq AllEvents
  <1>1. IsFiniteSet(I)
    <2>1. IsFiniteSet(1 .. Len(f)) /\ I \subseteq 1 .. Len(f)
      BY FS_Interval DEF Journal
    <2> QED
      BY <2>1, FS_Subset
  <1> DEFINE F == [i \in I |-> f[i].event]
  <1>2. IsFiniteSet({F[i] : i \in I})
    BY <1>1, ImageFinite
  <1>3. {F[i] : i \in I} = EventsAt(f, I)
    <2>1. \A i \in I : F[i] = f[i].event
      OBVIOUS
    <2> HIDE DEF F
    <2> QED
      BY <2>1 DEF EventsAt
  <1>4. EventsAt(f, I) \subseteq AllEvents
    BY RecordAt DEF EventsAt
  <1> QED
    BY <1>1, <1>2, <1>3, <1>4

TimeKeys == {TimeKey(e) : e \in AllEvents}

LEMMA ClocksFinite ==
    ASSUME NEW f \in Journal, NEW I \in SUBSET DOMAIN f
    PROVE  /\ TimesAt(f, I) \in SUBSET (TimeKeys \X Nat) /\ IsFiniteSet(TimesAt(f, I))
           /\ ArrivalsAt(f, I) \in SUBSET (Nat \X Nat) /\ IsFiniteSet(ArrivalsAt(f, I))
           /\ EpochsAt(f, I) \in SUBSET Nat /\ IsFiniteSet(EpochsAt(f, I)) /\ EpochsAt(f, I) # {}
  <1> DEFINE A == EventsAt(f, I)
             T == {e \in A : At(e) # 0}
             S == {e \in A : e.seq # 0}
             times == [e \in T |-> <<TimeKey(e), At(e)>>]
             arrivals == [e \in S |-> <<e.epoch, e.seq>>]
             epochs == [e \in A |-> e.epoch]
  <1>1. IsFiniteSet(A) /\ A \subseteq AllEvents /\ T \subseteq A /\ S \subseteq A
    BY EventsFinite
  <1>2. IsFiniteSet(T) /\ IsFiniteSet(S)
    BY <1>1, FS_Subset
  <1>3. IsFiniteSet({times[e] : e \in T}) /\ IsFiniteSet({arrivals[e] : e \in S})
        /\ IsFiniteSet({epochs[e] : e \in A})
    BY <1>1, <1>2, ImageFinite
  <1>4. /\ \A e \in T : times[e] = <<TimeKey(e), At(e)>>
        /\ \A e \in S : arrivals[e] = <<e.epoch, e.seq>>
        /\ \A e \in A : epochs[e] = e.epoch
    OBVIOUS
  <1> HIDE DEF times, arrivals, epochs
  <1>5. {times[e] : e \in T} = TimesAt(f, I)
    <2>1. TimesAt(f, I) = {<<TimeKey(e), At(e)>> : e \in T}
      BY DEF TimesAt
    <2> HIDE DEF T
    <2> QED
      BY <1>4, <2>1
  <1>a. {arrivals[e] : e \in S} = ArrivalsAt(f, I)
    <2>1. ArrivalsAt(f, I) = {<<e.epoch, e.seq>> : e \in S}
      BY DEF ArrivalsAt
    <2> HIDE DEF S
    <2> QED
      BY <1>4, <2>1
  <1>b. {epochs[e] : e \in A} \cup {0} = EpochsAt(f, I)
    <2> HIDE DEF A
    <2>1. {epochs[e] : e \in A} = {e.epoch : e \in A}
      BY <1>4
    <2> QED
      BY <2>1 DEF EpochsAt, A
  <1>6. IsFiniteSet(EpochsAt(f, I))
    <2> DEFINE X == {epochs[e] : e \in A}
    <2>1. IsFiniteSet(X) /\ EpochsAt(f, I) = X \cup {0}
      BY <1>3, <1>b
    <2> HIDE DEF X
    <2> QED
      BY <2>1, FS_AddElement
  <1>7. TimesAt(f, I) \subseteq TimeKeys \X Nat
    BY <1>1, EventFacts DEF TimesAt, TimeKeys
  <1>8. ArrivalsAt(f, I) \subseteq Nat \X Nat
    BY <1>1, EventFacts DEF ArrivalsAt
  <1>9. EpochsAt(f, I) \subseteq Nat /\ EpochsAt(f, I) # {}
    BY <1>1, EventFacts DEF EpochsAt
  <1> QED
    BY <1>3, <1>5, <1>a, <1>6, <1>7, <1>8, <1>9


\* Indexing one more record: what a record says of an operation counts when no record that
\* is indexed comes after it.
LEMMA RememberAdds ==
    ASSUME NEW f \in Journal, NEW I \in SUBSET DOMAIN f, NEW p \in DOMAIN f, NEW r,
           f[p].event.note.op # NoOp => \A i \in I : f[i].event.note.op # NoOp => i <= p
    PROVE  Remember([Indexes(f, I) EXCEPT !.registry = r], f[p].event)
             = [Indexes(f, I \cup {p}) EXCEPT !.registry = r]
  <1> DEFINE e == f[p].event
             J == I \cup {p}
             m == Indexes(f, I)
             n == Indexes(f, J)
  <1>0. J \in SUBSET DOMAIN f /\ e \in AllEvents
    BY RecordAt
  <1> HIDE DEF e, J
  <1>1. EventsAt(f, J) = EventsAt(f, I) \cup {e}
    BY DEF EventsAt, J, e
  <1>2. /\ e.epoch \in Nat /\ e.seq \in Nat /\ At(e) \in Nat
        /\ EventsAt(f, I) \subseteq AllEvents /\ TimeKey(e) \in TimeKeys
    BY <1>0, EventFacts, EventsFinite DEF TimeKeys
  <1>3. n.repo = (m.repo \/ e.note.kind = "thread_started")
    BY <1>1, IndexesUnfold
  <1>4. n.seen = IF Id(e) = None THEN m.seen ELSE m.seen \cup {Id(e)}
    BY <1>1, IndexesUnfold
  <1>5. n.terminal = IF e.note.kind = "turn_completed" THEN m.terminal \cup {e.note.turn}
                     ELSE m.terminal
    BY <1>1, IndexesUnfold
  <1>6. n.lastAt = IF At(e) = 0 THEN m.lastAt
                   ELSE Put(m.lastAt, TimeKey(e), Larger(At(e), Lookup(m.lastAt, TimeKey(e), 0)))
    <2>0. m.lastAt = Highest(TimesAt(f, I)) /\ n.lastAt = Highest(TimesAt(f, J))
      BY IndexesUnfold
    <2>1. CASE At(e) = 0
      <3>1. TimesAt(f, J) = TimesAt(f, I)
        BY <1>1, <2>1 DEF TimesAt
      <3> QED
        BY <2>0, <2>1, <3>1
    <2>2. CASE At(e) # 0
      <3>1. TimesAt(f, J) = TimesAt(f, I) \cup {<<TimeKey(e), At(e)>>}
        BY <1>1, <2>2 DEF TimesAt
      <3>2. Highest(TimesAt(f, J)) = Put(Highest(TimesAt(f, I)), TimeKey(e),
                                          Larger(At(e), Lookup(Highest(TimesAt(f, I)), TimeKey(e), 0)))
        BY <1>2, <3>1, ClocksFinite, HighestAdd
      <3> QED
        BY <2>0, <2>2, <3>2
    <2> QED
      BY <2>1, <2>2
  <1>7. n.lastSeq = IF e.seq = 0 THEN m.lastSeq
                    ELSE Put(m.lastSeq, e.epoch, Larger(e.seq, Lookup(m.lastSeq, e.epoch, 0)))
    <2>0. m.lastSeq = Highest(ArrivalsAt(f, I)) /\ n.lastSeq = Highest(ArrivalsAt(f, J))
      BY IndexesUnfold
    <2>1. CASE e.seq = 0
      <3>1. ArrivalsAt(f, J) = ArrivalsAt(f, I)
        BY <1>1, <2>1 DEF ArrivalsAt
      <3> QED
        BY <2>0, <2>1, <3>1
    <2>2. CASE e.seq # 0
      <3>1. ArrivalsAt(f, J) = ArrivalsAt(f, I) \cup {<<e.epoch, e.seq>>}
        BY <1>1, <2>2 DEF ArrivalsAt
      <3>2. Highest(ArrivalsAt(f, J)) = Put(Highest(ArrivalsAt(f, I)), e.epoch,
                                             Larger(e.seq, Lookup(Highest(ArrivalsAt(f, I)), e.epoch, 0)))
        BY <1>2, <3>1, ClocksFinite, HighestAdd
      <3> QED
        BY <2>0, <2>2, <3>2
    <2> QED
      BY <2>1, <2>2
  <1>8. n.epoch = Larger(m.epoch, e.epoch)
    <2>1. EpochsAt(f, J) = EpochsAt(f, I) \cup {e.epoch}
      BY <1>1 DEF EpochsAt
    <2>2. Max(EpochsAt(f, J)) = Larger(e.epoch, Max(EpochsAt(f, I)))
      BY <1>2, <2>1, ClocksFinite, MaxAdd
    <2>3. Max(EpochsAt(f, I)) \in Nat
      BY ClocksFinite, HighestMember
    <2>4. m.epoch = Max(EpochsAt(f, I)) /\ n.epoch = Max(EpochsAt(f, J))
      BY IndexesUnfold
    <2> QED
      BY <1>2, <2>2, <2>3, <2>4 DEF Larger
  <1>9. n.ops = IF e.note.op = NoOp THEN m.ops ELSE Put(m.ops, OpKey(e), Said(e))
    <2>0. m.ops = OpsAt(f, I) /\ n.ops = OpsAt(f, J)
      BY IndexesUnfold
    <2>1. CASE e.note.op = NoOp
      <3>1. OperationsAt(f, J) = OperationsAt(f, I)
        BY <2>1 DEF OperationsAt, J, e
      <3>2. \A k : AboutAt(f, J, k) = AboutAt(f, I, k)
        BY <3>1 DEF AboutAt
      <3> QED
        BY <2>0, <2>1, <3>1, <3>2 DEF OpsAt
    <2>2. CASE e.note.op # NoOp
      <3>1. OperationsAt(f, J) = OperationsAt(f, I) \cup {p}
        BY <2>2 DEF OperationsAt, J, e
      <3>2. ASSUME NEW k, k # OpKey(e) PROVE AboutAt(f, J, k) = AboutAt(f, I, k)
        BY <3>1, <3>2 DEF AboutAt, e
      <3>3. Max(AboutAt(f, J, OpKey(e))) = p
        <4>1. p \in AboutAt(f, J, OpKey(e))
          BY <3>1 DEF AboutAt, e
        <4>2. \A i \in AboutAt(f, J, OpKey(e)) : i <= p /\ i \in Nat
          BY <1>0, <2>2, RecordAt DEF AboutAt, OperationsAt, J, e
        <4> QED
          BY <4>1, <4>2, HighestIs
      <3> DEFINE old == {OpKey(f[i].event) : i \in OperationsAt(f, I)}
                 now == {OpKey(f[i].event) : i \in OperationsAt(f, J)}
      <3>4. now = old \cup {OpKey(e)}
        BY <3>1 DEF e
      <3>5. m.ops = [k \in old |-> Said(f[Max(AboutAt(f, I, k))].event)]
            /\ n.ops = [k \in now |-> Said(f[Max(AboutAt(f, J, k))].event)]
        BY <2>0 DEF OpsAt
      <3> HIDE DEF old, now
      <3>6. \A k \in now : Said(f[Max(AboutAt(f, J, k))].event)
                             = IF k = OpKey(e) THEN Said(e) ELSE Said(f[Max(AboutAt(f, I, k))].event)
        BY <3>2, <3>3 DEF e
      <3> QED
        BY <2>2, <3>4, <3>5, <3>6 DEF Put
    <2> QED
      BY <2>1, <2>2
  <1> DEFINE mr == [m EXCEPT !.registry = r]
             nr == [n EXCEPT !.registry = r]
  <1>10. /\ mr.repo = m.repo /\ mr.seen = m.seen /\ mr.ops = m.ops /\ mr.terminal = m.terminal
         /\ mr.lastAt = m.lastAt /\ mr.lastSeq = m.lastSeq /\ mr.epoch = m.epoch /\ mr.registry = r
         /\ mr = [repo |-> m.repo, seen |-> m.seen, ops |-> m.ops, terminal |-> m.terminal,
                  lastAt |-> m.lastAt, lastSeq |-> m.lastSeq, epoch |-> m.epoch, registry |-> r]
         /\ nr = [repo |-> n.repo, seen |-> n.seen, ops |-> n.ops, terminal |-> n.terminal,
                  lastAt |-> n.lastAt, lastSeq |-> n.lastSeq, epoch |-> n.epoch, registry |-> r]
    BY IndexesUnfold
  <1> HIDE DEF m, n, mr, nr
  <1>11. Remember(mr, e) = nr
    <2> DEFINE known == m.repo \/ e.note.kind = "thread_started"
    <2>1. n.repo = known
      BY <1>3
    <2>2. Remember(mr, e)
            = [mr EXCEPT !.repo = known, !.seen = n.seen, !.ops = n.ops, !.terminal = n.terminal,
                         !.lastAt = n.lastAt, !.epoch = n.epoch, !.lastSeq = n.lastSeq]
      BY <1>4, <1>5, <1>6, <1>7, <1>8, <1>9, <1>10, Zenon DEF Remember
    <2> HIDE DEF known
    <2>3. Remember(mr, e)
            = [mr EXCEPT !.repo = n.repo, !.seen = n.seen, !.ops = n.ops, !.terminal = n.terminal,
                         !.lastAt = n.lastAt, !.epoch = n.epoch, !.lastSeq = n.lastSeq]
      BY <2>1, <2>2
    <2> QED
      BY <1>10, <2>3
  <1> QED
    BY <1>11 DEF mr, nr, m, n, J, e

\* Indexes depend on the records that are indexed.
LEMMA SameIndexes ==
    ASSUME NEW f \in Journal, NEW g \in Journal, NEW I \in SUBSET DOMAIN f, I \subseteq DOMAIN g,
           \A i \in I : g[i] = f[i]
    PROVE  Indexes(g, I) = Indexes(f, I)
  <1>1. EventsAt(g, I) = EventsAt(f, I)
    BY DEF EventsAt
  <1>2. OperationsAt(g, I) = OperationsAt(f, I)
    BY DEF OperationsAt
  <1>3. \A k : AboutAt(g, I, k) = AboutAt(f, I, k)
    BY <1>2 DEF AboutAt, OperationsAt
  <1>4. TimesAt(g, I) = TimesAt(f, I) /\ ArrivalsAt(g, I) = ArrivalsAt(f, I)
        /\ EpochsAt(g, I) = EpochsAt(f, I)
    BY <1>1 DEF TimesAt, ArrivalsAt, EpochsAt
  <1>5. OpsAt(g, I) = OpsAt(f, I)
    <2> DEFINE keys == {OpKey(f[i].event) : i \in OperationsAt(f, I)}
    <2>1. keys = {OpKey(g[i].event) : i \in OperationsAt(g, I)}
      BY <1>2 DEF OperationsAt
    <2>2. ASSUME NEW k \in keys
          PROVE  g[Max(AboutAt(f, I, k))] = f[Max(AboutAt(f, I, k))]
      <3>1. AboutAt(f, I, k) # {} /\ AboutAt(f, I, k) \subseteq I
        BY <2>2 DEF AboutAt, OperationsAt
      <3>2. IsFiniteSet(AboutAt(f, I, k)) /\ AboutAt(f, I, k) \in SUBSET Nat
        BY <3>1, EventsFinite, FS_Subset, RecordAt
      <3> QED
        BY <3>1, <3>2, HighestMember
    <2> HIDE DEF keys
    <2>3. OpsAt(f, I) = [k \in keys |-> Said(f[Max(AboutAt(f, I, k))].event)]
      BY DEF OpsAt, keys
    <2>4. OpsAt(g, I) = [k \in keys |-> Said(g[Max(AboutAt(f, I, k))].event)]
      BY <1>3, <2>1 DEF OpsAt
    <2> QED
      BY <2>2, <2>3, <2>4
  <1> QED
    BY <1>1, <1>4, <1>5, IndexesUnfold

LEMMA NothingIndexed == NoMemory = Indexes(<<>>, {})
  <1>1. EventsAt(<<>>, {}) = {} /\ OperationsAt(<<>>, {}) = {}
    BY DEF EventsAt, OperationsAt
  <1>2. TimesAt(<<>>, {}) = {} /\ ArrivalsAt(<<>>, {}) = {} /\ EpochsAt(<<>>, {}) = {0}
    BY <1>1 DEF TimesAt, ArrivalsAt, EpochsAt
  <1>3. Max({0}) = 0
    BY HighestIs
  <1>4. Highest({}) = <<>>
    BY DEF Highest
  <1>5. OpsAt(<<>>, {}) = <<>>
    BY <1>1 DEF OpsAt
  <1> QED
    BY <1>1, <1>2, <1>3, <1>4, <1>5, IndexesUnfold DEF NoMemory

-----------------------------------------------------------------------------
(* What holds of the ingestor between two steps. *)

Statuses == {"unknown", "active", "completed", "interrupted"}
Registries == [observed : BOOLEAN, turns : [Turns -> [status : Statuses, begun : BOOLEAN]],
               attached : SUBSET Nat, closed : SUBSET Nat]

IngestTypes ==
    /\ up \in BOOLEAN /\ conn \in Nat /\ epoch \in Nat
    /\ todo \in Seq(Observations) /\ queue \in Seq(Commands) /\ queued \subseteq Controls
    /\ mem.registry \in Registries

\* The event loop and the worker write, each what it has in hand; a daemon that is down has
\* nothing in hand, and one that is up has repaired its journal.
InHand ==
    /\ \A w \in Writers \ {Loop, Worker} : doing[w].at = "idle"
    /\ doing[Loop].at # "idle" => todo # <<>> /\ doing[Loop].event = todo[1]
    /\ doing[Worker].at # "idle" => doing[Worker].event \in Commands
    /\ ~up => todo = <<>> /\ queue = <<>> /\ \A w \in Writers : doing[w].at = "idle"
    /\ up => Kept(file) = file
    /\ conn = 0 => todo = <<>>

\* What follows an observation is its effect.
Follows(e, g) == /\ ~e.effect /\ g.effect /\ g.note = e.note /\ g.epoch = e.epoch
                 /\ e.note.op # NoOp
Paired(s) == Len(s) <= 2 /\ (Len(s) = 2 => Follows(s[1], s[2]))

\* The record that a writer has added and not indexed yet.
Added(d) == d.at \in {"written", "returned"}
Place(d) == d.steps + 1
Placed ==
    /\ \A w \in {Loop, Worker} :
          Added(doing[w]) => Place(doing[w]) \in DOMAIN file
                             /\ file[Place(doing[w])].event = doing[w].event
    /\ Added(doing[Loop]) =>
          \A i \in DOMAIN file : i > Place(doing[Loop]) => file[i].event.note.op = NoOp
Unindexed(d) == {Place(d[w]) : w \in {w \in {Loop, Worker} : Added(d[w])}}
Indexed ==
    up => mem = [Indexes(file, DOMAIN file \ Unindexed(doing)) EXCEPT !.registry = mem.registry]

\* An event that a journal may take next, and a journal that took only such.
InLifeOrder(e, g) ==
    /\ e.note.kind = "turn_completed" /\ g.note.kind = "turn_started" => e.note.turn # g.note.turn
    /\ e.note.kind = "turn_completed" /\ g.note.kind = "turn_completed" /\ e.note.turn = g.note.turn
       => e.note.outcome = g.note.outcome
    /\ e.note.op # NoOp /\ g.note.op # NoOp /\ OpKey(e) = OpKey(g)
       => /\ Life(e) = "completed" => Life(g) = "completed"
          /\ ~e.effect /\ ~g.effect => e.note.life = "started" /\ g.note.life = "completed"
Distinct(e, g) == Id(e) = None \/ Id(e) # Id(g)
Fits(f, e) == \A i \in DOMAIN f : Distinct(f[i].event, e) /\ InLifeOrder(f[i].event, e)
Sound(f) == \A i, j \in DOMAIN f :
    i < j => Distinct(f[i].event, f[j].event) /\ InLifeOrder(f[i].event, f[j].event)

Awaited ==
    /\ todo # <<>> /\ ~Added(doing[Loop]) => Fits(file, todo[1])
    /\ Added(doing[Loop]) /\ Len(todo) = 2 => Fits(file, todo[2])
    /\ doing[Worker].at = "opened" =>
          /\ Fits(file, doing[Worker].event)
          /\ \A k \in DOMAIN queue : queue[k].note # doing[Worker].event.note
    /\ \A k \in DOMAIN queue : Fits(file, queue[k])
    /\ \A k, l \in DOMAIN queue : queue[k].note = queue[l].note => k = l
Counted ==
    up => /\ \A k \in DOMAIN queue : queue[k].note \in queued
          /\ doing[Worker].at # "idle" => doing[Worker].event.note \in queued
          /\ \A i \in DOMAIN file : file[i].event.note \in Controls => file[i].event.note \in queued

\* The registry knows the turns that are written and to be written.
KnowsOf(turns, n) ==
    /\ n.turn \in Turns => turns[n.turn].status # "unknown"
    /\ n.kind = "turn_completed" => turns[n.turn].status = n.outcome
Finishes(n, t) == n.kind = "turn_completed" /\ n.turn = t
Ended(turns, t) == turns[t].status \in {"completed", "interrupted"}
Registered ==
    up => /\ \A i \in DOMAIN file : KnowsOf(mem.registry.turns, file[i].event.note)
          /\ \A k \in DOMAIN todo : KnowsOf(mem.registry.turns, todo[k].note)
          /\ \A k \in DOMAIN queue : KnowsOf(mem.registry.turns, queue[k].note)
          /\ doing[Worker].at # "idle" => KnowsOf(mem.registry.turns, doing[Worker].event.note)
          /\ \A t \in Turns : Ended(mem.registry.turns, t) =>
                \/ \E i \in DOMAIN file : Finishes(file[i].event.note, t)
                \/ \E k \in DOMAIN todo : Finishes(todo[k].note, t)

IngestInv ==
    /\ IngestTypes /\ InHand /\ Paired(todo) /\ Placed /\ Indexed
    /\ Sound(file) /\ Awaited /\ Counted /\ Registered

Inv == JournalInv(AllEvents) /\ IngestInv

(**************** what may follow what in a journal **************************)

Writable == Pieces(AllEvents)

LEMMA EventsSplit ==
    /\ Observations \subseteq AllEvents /\ Commands \subseteq AllEvents
    /\ \A e \in Observations : e.note \in Notifications
    /\ \A e \in Commands : e.note \in Controls
    /\ \A e \in AllEvents : e.note \in Notifications \cup Controls /\ e.effect \in BOOLEAN
                            /\ e.epoch \in Nat
  BY DEF Observations, Commands, AllEvents, EventsAbout

LEMMA CommandsApart ==
    ASSUME NEW e \in AllEvents, NEW c \in Commands, e.note # c.note
    PROVE  Distinct(e, c) /\ InLifeOrder(e, c) /\ Distinct(c, e) /\ InLifeOrder(c, e)
  <1>1. c.note.kind = "control" /\ c.note.op = NoOp /\ c.note # None
    BY EventsSplit, IngestionAssumption
  <1>2. Distinct(e, c) /\ Distinct(c, e)
    BY <1>1 DEF Distinct, Id
  <1>3. InLifeOrder(e, c) /\ InLifeOrder(c, e)
    BY <1>1 DEF InLifeOrder
  <1> QED
    BY <1>2, <1>3

LEMMA CommandsDiffer ==
    ASSUME NEW e \in Observations, NEW c \in Commands
    PROVE  e.note # c.note
  BY EventsSplit, IngestionAssumption

LEMMA FollowerFits ==
    ASSUME NEW f, NEW e \in Observations, NEW g, Follows(e, g), Fits(f, e)
    PROVE  Fits(f, g) /\ Distinct(e, g) /\ InLifeOrder(e, g)
  <1>1. /\ e.note.kind = "item" /\ e.note.life \in {"started", "completed"}
        /\ e.note.op # NoOp /\ ~e.effect /\ g.effect /\ g.note = e.note /\ g.epoch = e.epoch
    BY EventsSplit, IngestionAssumption DEF Follows
  <1>2. Id(g) = None /\ OpKey(g) = OpKey(e)
    BY <1>1 DEF Id, OpKey
  <1>3. \A h : Distinct(h, g)
    BY <1>2 DEF Distinct
  <1>4. Life(e) = e.note.life /\ (Life(g) = "completed" <=> e.note.life = "completed")
    BY <1>1 DEF Life
  <1>5. InLifeOrder(e, g)
    BY <1>1, <1>4 DEF InLifeOrder
  <1>6. \A h : InLifeOrder(h, e) => InLifeOrder(h, g)
    BY <1>1, <1>2, <1>4 DEF InLifeOrder
  <1> QED
    BY <1>3, <1>5, <1>6 DEF Fits

LEMMA FitsAppend ==
    ASSUME NEW f \in Journal, NEW x \in Writable, NEW e, Fits(f, e),
           Distinct(x.event, e), InLifeOrder(x.event, e)
    PROVE  Fits(Append(f, x), e)
  <1> DEFINE g == Append(f, x)
  <1>1. DOMAIN g = 1 .. Len(f) + 1 /\ DOMAIN f = 1 .. Len(f) /\ Len(f) \in Nat
        /\ g[Len(f) + 1] = x /\ \A i \in 1 .. Len(f) : g[i] = f[i]
    BY AppendFacts DEF Journal, Writable
  <1> HIDE DEF g
  <1>2. ASSUME NEW i \in DOMAIN g PROVE Distinct(g[i].event, e) /\ InLifeOrder(g[i].event, e)
    <2>1. CASE i = Len(f) + 1
      BY <1>1, <2>1
    <2>2. CASE i # Len(f) + 1
      <3>1. i \in DOMAIN f /\ g[i] = f[i]
        BY <1>1, <2>2
      <3> QED
        BY <3>1 DEF Fits
    <2> QED
      BY <2>1, <2>2
  <1> QED
    BY <1>2 DEF Fits, g

LEMMA AppendSound ==
    ASSUME NEW f \in Journal, NEW x \in Writable, Sound(f), Fits(f, x.event)
    PROVE  Sound(Append(f, x))
  <1> DEFINE g == Append(f, x)
  <1>1. DOMAIN g = 1 .. Len(f) + 1 /\ DOMAIN f = 1 .. Len(f) /\ Len(f) \in Nat
        /\ g[Len(f) + 1] = x /\ \A i \in 1 .. Len(f) : g[i] = f[i]
    BY AppendFacts DEF Journal, Writable
  <1> HIDE DEF g
  <1>2. ASSUME NEW i \in DOMAIN g, NEW j \in DOMAIN g, i < j
        PROVE  Distinct(g[i].event, g[j].event) /\ InLifeOrder(g[i].event, g[j].event)
    <2>1. i \in DOMAIN f /\ g[i] = f[i]
      BY <1>1, <1>2
    <2>2. CASE j = Len(f) + 1
      BY <1>1, <2>1, <2>2 DEF Fits
    <2>3. CASE j # Len(f) + 1
      <3>1. j \in DOMAIN f /\ g[j] = f[j]
        BY <1>1, <2>3
      <3> QED
        BY <1>2, <2>1, <3>1 DEF Sound
    <2> QED
      BY <2>2, <2>3
  <1> QED
    BY <1>2 DEF Sound, g

LEMMA KeptRecords ==
    ASSUME NEW f \in Journal
    PROVE  /\ Kept(f) \in Journal
           /\ \A i \in DOMAIN Kept(f) : i \in DOMAIN f /\ Kept(f)[i] = f[i]
           /\ Sound(f) => Sound(Kept(f))
  <1> DEFINE g == Kept(f)
  <1>1. PICK n \in 0 .. Len(f) : g = Prefix(f, n)
    BY KeptPrefix DEF Journal
  <1>2. /\ g \in Journal /\ Len(g) = n /\ Len(f) \in Nat /\ DOMAIN f = 1 .. Len(f)
        /\ \A i \in 1 .. n : g[i] = f[i]
    BY <1>1, PrefixFacts DEF Journal
  <1> HIDE DEF g
  <1>3. \A i \in DOMAIN g : i \in DOMAIN f /\ g[i] = f[i]
    BY <1>2 DEF Journal
  <1>4. Sound(f) => Sound(g)
    BY <1>3 DEF Sound
  <1> QED
    BY <1>2, <1>3, <1>4 DEF g

(******************************* the registry ******************************)

LEMMA AttachFacts ==
    ASSUME NEW r \in Registries, NEW a \in Nat, NEW S \in SUBSET Nat
    PROVE  /\ Attach(r, a) \in Registries /\ Attach(r, a).turns = r.turns
           /\ Detach(r, S) \in Registries /\ Detach(r, S).turns = r.turns
  BY DEF Registries, Attach, Detach

AllNotes == Notifications \cup Controls

\* What the registry knew it still knows, and now the notification.
LEMMA IdentifyFacts ==
    ASSUME NEW r \in Registries, NEW n \in Notifications, NEW a \in Nat,
           n.kind = "turn_completed" => ~Conflicts(r, n.turn, n.outcome)
    PROVE  LET new == Attach(Identify(r, n), a)
           IN  /\ new \in Registries
               /\ \A m \in AllNotes : KnowsOf(r.turns, m) => KnowsOf(new.turns, m)
               /\ KnowsOf(new.turns, n)
               /\ \A t \in Turns : Ended(new.turns, t) => Ended(r.turns, t) \/ Finishes(n, t)
  <1> DEFINE mid == Identify(r, n)
             new == Attach(mid, a)
  <1>1. r.turns \in [Turns -> [status : Statuses, begun : BOOLEAN]] /\ ObserveThread(r) \in Registries
        /\ ObserveThread(r).turns = r.turns
    BY DEF Registries, ObserveThread
  <1>2. n.turn \in Turns \cup {NoTurn} /\ NoTurn \notin Turns
        /\ (n.kind = "turn_completed" => n.turn \in Turns /\ n.outcome \in {"completed", "interrupted"})
        /\ \A m \in AllNotes : m.turn \in Turns \cup {NoTurn}
                               /\ (m.kind = "turn_completed" =>
                                      m.turn \in Turns /\ m.outcome \in {"completed", "interrupted"})
    BY IngestionAssumption DEF AllNotes
  <1>3. CASE n.turn = NoTurn
    <2>1. mid = ObserveThread(r)
      BY <1>2, <1>3 DEF Identify
    <2>2. new \in Registries /\ new.turns = r.turns
      BY <1>1, <2>1, AttachFacts
    <2>3. KnowsOf(r.turns, n)
      BY <1>2, <1>3 DEF KnowsOf
    <2> QED
      BY <2>2, <2>3
  <1>4. CASE n.turn # NoTurn /\ n.kind = "turn_completed"
    <2>1. mid = FinishTurn(ObserveThread(r), n.turn, n.outcome)
      BY <1>4 DEF Identify
    <2> DEFINE old == r.turns
               now == [old EXCEPT ![n.turn].status = n.outcome]
    <2>2. mid \in Registries /\ mid.turns = now
      BY <1>1, <1>2, <1>4, <2>1, SMTT(20) DEF FinishTurn, Registries, Statuses
    <2>3. new \in Registries /\ new.turns = now
      BY <2>2, AttachFacts
    <2>4. /\ old \in [Turns -> [status : Statuses, begun : BOOLEAN]] /\ n.turn \in Turns
          /\ old[n.turn].status \in {"unknown", "active", n.outcome}
          /\ now[n.turn].status = n.outcome
          /\ \A t \in Turns : t # n.turn => now[t] = old[t]
      BY <1>1, <1>2, <1>4 DEF Conflicts
    <2> HIDE DEF old, now, new
    <2>5. ASSUME NEW m \in AllNotes, KnowsOf(old, m) PROVE KnowsOf(now, m)
      <3>1. CASE m.turn = n.turn
        BY <1>2, <1>4, <2>4, <2>5, <3>1 DEF KnowsOf
      <3>2. CASE m.turn # n.turn
        BY <1>2, <2>4, <2>5, <3>2 DEF KnowsOf
      <3> QED
        BY <3>1, <3>2
    <2>6. KnowsOf(now, n)
      BY <1>2, <1>4, <2>4 DEF KnowsOf
    <2>7. \A t \in Turns : Ended(now, t) => Ended(old, t) \/ Finishes(n, t)
      BY <1>4, <2>4 DEF Ended, Finishes
    <2> QED
      BY <2>3, <2>5, <2>6, <2>7 DEF old, new
  <1>5. CASE n.turn # NoTurn /\ n.kind # "turn_completed"
    <2>1. mid = StartTurn(ObserveThread(r), n.turn, n.kind = "turn_started")
      BY <1>5 DEF Identify
    <2> DEFINE old == r.turns
               was == old[n.turn]
               begun == was.begun \/ n.kind = "turn_started"
               turn == [status |-> IF was.status = "unknown" THEN "active" ELSE was.status,
                        begun |-> begun]
               now == [old EXCEPT ![n.turn] = turn]
    <2>0. n.turn \in Turns /\ old \in [Turns -> [status : Statuses, begun : BOOLEAN]]
      BY <1>1, <1>2, <1>5
    <2>a. was \in [status : Statuses, begun : BOOLEAN] /\ begun \in BOOLEAN
      BY <2>0
    <2>2. mid.turns = now /\ mid = [ObserveThread(r) EXCEPT !.turns = now]
      BY <1>1, <2>0, <2>1, Zenon DEF StartTurn, Registries
    <2> HIDE DEF begun
    <2>b. turn \in [status : Statuses, begun : BOOLEAN]
      BY <2>a DEF Statuses
    <2>c. now \in [Turns -> [status : Statuses, begun : BOOLEAN]]
      BY <2>0, <2>b
    <2>d. turn.status = (IF was.status = "unknown" THEN "active" ELSE was.status)
      OBVIOUS
    <2>4. /\ now[n.turn].status = IF old[n.turn].status = "unknown" THEN "active"
                                  ELSE old[n.turn].status
          /\ \A t \in Turns : t # n.turn => now[t] = old[t]
      BY <2>0, <2>d
    <2> HIDE DEF now, turn, was
    <2>3. new \in Registries /\ new.turns = now
      <3>1. mid \in Registries
        BY <1>1, <2>2, <2>c DEF Registries
      <3> QED
        BY <2>2, <3>1, AttachFacts
    <2> HIDE DEF old, new
    <2>5. ASSUME NEW m \in AllNotes, KnowsOf(old, m) PROVE KnowsOf(now, m)
      <3>1. CASE m.turn = n.turn
        BY <1>2, <2>0, <2>4, <2>5, <3>1 DEF KnowsOf
      <3>2. CASE m.turn # n.turn
        BY <1>2, <2>4, <2>5, <3>2 DEF KnowsOf
      <3> QED
        BY <3>1, <3>2
    <2>6. KnowsOf(now, n)
      BY <1>5, <2>0, <2>4 DEF KnowsOf
    <2>7. \A t \in Turns : Ended(now, t) => Ended(old, t)
      BY <2>0, <2>4 DEF Ended
    <2> QED
      BY <2>3, <2>5, <2>6, <2>7 DEF old, new
  <1> QED
    BY <1>3, <1>4, <1>5

(*************************** what the indexes say **************************)

LEMMA ShownBy ==
    ASSUME Inv, up
    PROVE  /\ file \in Journal /\ doing \in [Writers -> Doings(AllEvents)]
           /\ DOMAIN file \ Unindexed(doing) \in SUBSET DOMAIN file
           /\ LET m == Indexes(file, DOMAIN file \ Unindexed(doing))
              IN  /\ mem.seen = m.seen /\ mem.ops = m.ops /\ mem.terminal = m.terminal
                  /\ mem.lastAt = m.lastAt /\ mem.lastSeq = m.lastSeq
                  /\ \A r : [mem EXCEPT !.registry = r] = [m EXCEPT !.registry = r]
  <1>1. mem = [Indexes(file, DOMAIN file \ Unindexed(doing)) EXCEPT !.registry = mem.registry]
    BY DEF Inv, IngestInv, Indexed
  <1> DEFINE m == Indexes(file, DOMAIN file \ Unindexed(doing))
  <1>2. /\ \A q : [m EXCEPT !.registry = q].seen = m.seen
        /\ \A q : [m EXCEPT !.registry = q].ops = m.ops
        /\ \A q : [m EXCEPT !.registry = q].terminal = m.terminal
        /\ \A q : [m EXCEPT !.registry = q].lastAt = m.lastAt
        /\ \A q : [m EXCEPT !.registry = q].lastSeq = m.lastSeq
        /\ \A q, r : [[m EXCEPT !.registry = q] EXCEPT !.registry = r] = [m EXCEPT !.registry = r]
    BY IndexesUnfold
  <1>3. file \in Journal /\ doing \in [Writers -> Doings(AllEvents)]
    BY DEF Inv, JournalInv, JournalTypes, Journal
  <1> HIDE DEF m
  <1>4. /\ mem.seen = m.seen /\ mem.ops = m.ops /\ mem.terminal = m.terminal
        /\ mem.lastAt = m.lastAt /\ mem.lastSeq = m.lastSeq
        /\ \A r : [mem EXCEPT !.registry = r] = [m EXCEPT !.registry = r]
    BY <1>1, <1>2 DEF m
  <1> QED
    BY <1>3, <1>4 DEF m

\* With the event loop at rest, what is not indexed is a control event of the worker.
LEMMA AtRest ==
    ASSUME Inv, up, doing[Loop].at = "idle", NEW i \in DOMAIN file
    PROVE  i \notin Unindexed(doing) \/ file[i].event \in Commands
  <1>1. ASSUME i \in Unindexed(doing) PROVE file[i].event \in Commands
    <2>1. PICK w \in {Loop, Worker} : Added(doing[w]) /\ i = Place(doing[w])
      BY <1>1 DEF Unindexed
    <2>2. w = Worker
      BY <2>1 DEF Added
    <2>3. doing[Worker].event \in Commands
      BY <2>1, <2>2 DEF Inv, IngestInv, InHand, Added
    <2> QED
      BY <2>1, <2>2, <2>3 DEF Inv, IngestInv, Placed
  <1> QED
    BY <1>1

(************************* what a new event may be *************************)

\* An id that is in the journal and indexed is one that the ingestor has seen.
LEMMA SeenInFile ==
    ASSUME Inv, up
    PROVE  /\ \A x \in mem.seen : \E i \in DOMAIN file : Id(file[i].event) = x /\ x # None
           /\ \A i \in DOMAIN file \ Unindexed(doing) :
                 Id(file[i].event) # None => Id(file[i].event) \in mem.seen
  <1> DEFINE I == DOMAIN file \ Unindexed(doing)
  <1>1. mem.seen = {Id(e) : e \in EventsAt(file, I)} \ {None}
    BY ShownBy, IndexesUnfold
  <1> QED
    BY <1>1 DEF EventsAt

LEMMA TerminalInFile ==
    ASSUME Inv, up, NEW i \in DOMAIN file \ Unindexed(doing),
           file[i].event.note.kind = "turn_completed"
    PROVE  file[i].event.note.turn \in mem.terminal
  <1> DEFINE I == DOMAIN file \ Unindexed(doing)
  <1>1. mem.terminal = {e.note.turn : e \in {e \in EventsAt(file, I) :
                                                 e.note.kind = "turn_completed"}}
    BY ShownBy, IndexesUnfold
  <1> QED
    BY <1>1 DEF EventsAt

\* The last record of an operation is the one that the ingestor remembers of it.
LEMMA PreviousInFile ==
    ASSUME Inv, up, NEW e, NEW i \in DOMAIN file \ Unindexed(doing),
           file[i].event.note.op # NoOp, OpKey(file[i].event) = OpKey(e)
    PROVE  \E j \in DOMAIN file : /\ i <= j /\ file[j].event.note.op # NoOp
                                  /\ OpKey(file[j].event) = OpKey(e)
                                  /\ Previous(e) = Said(file[j].event)
  <1> DEFINE I == DOMAIN file \ Unindexed(doing)
             A == AboutAt(file, I, OpKey(e))
  <1>1. mem.ops = OpsAt(file, I) /\ file \in Journal /\ I \in SUBSET DOMAIN file
    BY ShownBy, IndexesUnfold
  <1>2. i \in A /\ A \subseteq I
    BY DEF AboutAt, OperationsAt
  <1>3. A \in SUBSET Nat /\ IsFiniteSet(A)
    BY <1>1, <1>2, RecordAt, EventsFinite, FS_Subset
  <1>4. Max(A) \in A /\ i <= Max(A)
    BY <1>2, <1>3, HighestMember
  <1>5. OpKey(e) \in {OpKey(file[k].event) : k \in OperationsAt(file, I)}
    BY <1>2 DEF AboutAt
  <1>6. Previous(e) = Said(file[Max(A)].event)
    BY <1>1, <1>5 DEF Previous, Lookup, OpsAt
  <1>7. Max(A) \in DOMAIN file /\ file[Max(A)].event.note.op # NoOp
        /\ OpKey(file[Max(A)].event) = OpKey(e)
    BY <1>1, <1>2, <1>4 DEF AboutAt, OperationsAt
  <1> QED
    BY <1>4, <1>6, <1>7

LEMMA ReceivedFacts ==
    ASSUME Inv, NEW n \in AllNotes
    PROVE  LET e == Received(n) IN
           /\ e.note = n /\ ~e.effect /\ e.epoch = conn /\ e \in AllEvents
           /\ n \in Controls => e \in Commands
           /\ n \in Notifications => e \in Observations
  BY DEF Inv, IngestInv, IngestTypes, Received, Event, AllNotes, Observations, Commands, AllEvents,
         EventsAbout

LEMMA StampedFacts ==
    ASSUME Inv, up, NEW n \in Notifications
    PROVE  LET e == Received(n)
               s == Stamped(e)
           IN  /\ s \in Observations /\ s.note = n /\ ~s.effect /\ s.epoch = e.epoch
               /\ EffectOf(e) \in Observations
               /\ n.op # NoOp => Follows(s, EffectOf(e))
  <1> DEFINE e == Received(n)
             s == Stamped(e)
             begun == IF Completes(e) THEN Previous(e).life # None
                      ELSE e.note.kind = "turn_completed"
                           /\ mem.registry.turns[e.note.turn].begun
             late == At(e) # 0 /\ At(e) < Lookup(mem.lastAt, TimeKey(e), 0)
             seq == Lookup(mem.lastSeq, e.epoch, 0) + 1
  <1>1. e \in Observations /\ e.note = n /\ ~e.effect
    BY ReceivedFacts DEF AllNotes
  <1>2. begun \in BOOLEAN
    <2>1. CASE Completes(e)
      BY <2>1
    <2>2. CASE ~Completes(e) /\ n.kind # "turn_completed"
      <3>1. begun = FALSE
        BY <1>1, <2>2
      <3> QED
        BY <3>1
    <2>3. CASE ~Completes(e) /\ n.kind = "turn_completed"
      <3>1. n.turn \in Turns /\ mem.registry.turns \in [Turns -> [status : Statuses, begun : BOOLEAN]]
        BY <2>3, IngestionAssumption DEF Inv, IngestInv, IngestTypes, Registries
      <3>2. mem.registry.turns[n.turn].begun \in BOOLEAN
        BY <3>1
      <3>3. begun = mem.registry.turns[n.turn].begun
        BY <1>1, <2>3, <3>2
      <3> QED
        BY <3>2, <3>3
    <2> QED
      BY <2>1, <2>2, <2>3
  <1>3. late \in BOOLEAN
    OBVIOUS
  <1>4. seq \in Nat
    <2> DEFINE I == DOMAIN file \ Unindexed(doing)
    <2>1. mem.lastSeq = Highest(ArrivalsAt(file, I)) /\ file \in Journal /\ I \in SUBSET DOMAIN file
      BY ShownBy, IndexesUnfold
    <2>2. Lookup(mem.lastSeq, e.epoch, 0) \in Nat
      BY <2>1, ClocksFinite, HighestShows
    <2> QED
      BY <2>2
  <1>5. s = [e EXCEPT !.begun = begun, !.late = late, !.seq = seq]
    BY DEF Stamped
  <1>6. EffectOf(e) \in Observations /\ EffectOf(e).note = n /\ EffectOf(e).effect
        /\ EffectOf(e).epoch = e.epoch
    BY <1>1 DEF EffectOf, Observations, EventsAbout
  <1> HIDE DEF e, s, begun, late, seq
  <1>7. s \in Observations /\ s.note = n /\ ~s.effect /\ s.epoch = e.epoch
    BY <1>1, <1>2, <1>3, <1>4, <1>5 DEF Observations, EventsAbout
  <1>8. n.op # NoOp => Follows(s, EffectOf(e))
    BY <1>6, <1>7 DEF Follows
  <1> QED
    BY <1>6, <1>7, <1>8 DEF s, e

\* A notification that is accepted is one the journal may take.
LEMMA AcceptedFits ==
    ASSUME Inv, NEW n \in Notifications, Accept(n)
    PROVE  Fits(file, Stamped(Received(n)))
  <1> DEFINE e == Received(n)
             s == Stamped(e)
  <1>0. up /\ doing[Loop].at = "idle" /\ todo = <<>>
        /\ (n.kind = "turn_completed" => ~Conflicts(mem.registry, n.turn, n.outcome))
        /\ ~Duplicate(e) /\ ~ChangesOutcome(e)
    BY DEF Accept, Normalize, Handling
  <1>1. /\ s \in Observations /\ s.note = n /\ ~s.effect /\ s.epoch = e.epoch
        /\ e \in Observations /\ e.note = n /\ ~e.effect
    BY <1>0, StampedFacts, ReceivedFacts DEF AllNotes
  <1>2. Id(s) = Id(e) /\ OpKey(s) = OpKey(e)
    BY <1>1 DEF Id, OpKey
  <1>3. /\ n.kind # "control" /\ (n.op # NoOp => n.kind = "item" /\ n.life \in {"started", "completed"})
        /\ (n.kind \in {"turn_started", "turn_completed"} => n.turn \in Turns)
        /\ n # None /\ None \notin {"started", "attempted", "completed"}
    BY IngestionAssumption
  <1> HIDE DEF e, s
  <1>4. ASSUME NEW i \in DOMAIN file
        PROVE  Distinct(file[i].event, s) /\ InLifeOrder(file[i].event, s)
    <2>1. CASE i \in Unindexed(doing)
      <3>1. file[i].event \in Commands
        BY <1>0, <2>1, AtRest
      <3> QED
        BY <1>1, <3>1, CommandsDiffer, CommandsApart, EventsSplit
    <2>2. CASE i \notin Unindexed(doing)
      <3> DEFINE g == file[i].event
      <3>0. i \in DOMAIN file \ Unindexed(doing) /\ g \in AllEvents
        BY <1>0, <2>2, ShownBy, RecordAt
      <3>1. Distinct(g, s)
        BY <1>0, <1>2, <3>0, SeenInFile DEF Distinct, Duplicate
      <3>2. ASSUME g.note.kind = "turn_completed", n.kind = "turn_started" PROVE g.note.turn # n.turn
        BY <1>0, <1>1, <3>0, <3>2, TerminalInFile DEF Duplicate
      <3>3. ASSUME g.note.kind = "turn_completed", n.kind = "turn_completed", g.note.turn = n.turn
            PROVE  g.note.outcome = n.outcome
        <4>1. KnowsOf(mem.registry.turns, g.note)
          BY <1>0 DEF Inv, IngestInv, Registered
        <4>2. mem.registry.turns[n.turn].status = g.note.outcome
          BY <3>3, <4>1 DEF KnowsOf
        <4>3. g.note.outcome \in {"completed", "interrupted"}
          BY <3>0, <3>3, EventsSplit, IngestionAssumption
        <4> QED
          BY <1>0, <3>3, <4>2, <4>3 DEF Conflicts
      <3>4. ASSUME g.note.op # NoOp, n.op # NoOp, OpKey(g) = OpKey(s)
            PROVE  n.life = "completed" /\ (~g.effect => g.note.life = "started")
        <4>1. PICK j \in DOMAIN file : /\ i <= j /\ file[j].event.note.op # NoOp
                                       /\ OpKey(file[j].event) = OpKey(e)
                                       /\ Previous(e) = Said(file[j].event)
          BY <1>0, <1>2, <3>0, <3>4, PreviousInFile
        <4> DEFINE h == file[j].event
        <4>2. /\ h \in AllEvents /\ h.note \in Notifications /\ h.note.life \in {"started", "completed"}
              /\ g.note.life \in {"started", "completed"}
          <5>1. file \in Journal
            BY <1>0, ShownBy
          <5> QED
            BY <3>0, <3>4, <4>1, <5>1, RecordAt, EventsSplit, IngestionAssumption
        <4>3. Life(h) # None /\ Previous(e).life = Life(h) /\ Previous(e).outcome = Outcome(h)
          BY <1>3, <4>1, <4>2 DEF Life, Said
        <4>4. n.life = "completed"
          BY <1>0, <1>1, <1>3, <3>4, <4>3 DEF Duplicate
        <4>5. Completes(e) /\ Id(e) # None
          BY <1>1, <1>3, <3>4, <4>4 DEF Completes, Id, ReplaySafe
        <4>6. Life(h) # "completed"
          BY <1>0, <4>3, <4>5 DEF Duplicate, ChangesOutcome
        <4>7. Life(g) # "completed"
          <5>1. CASE i = j
            BY <4>6, <5>1
          <5>2. CASE i # j
            <6>1. i < j
              BY <1>0, <4>1, <5>2, ShownBy, RecordAt
            <6>2. InLifeOrder(g, h)
              BY <4>1, <6>1 DEF Inv, IngestInv, Sound
            <6>3. OpKey(g) = OpKey(h)
              BY <1>2, <3>4, <4>1
            <6> QED
              BY <3>4, <4>1, <4>6, <6>2, <6>3 DEF InLifeOrder
          <5> QED
            BY <5>1, <5>2
        <4>8. ~g.effect => g.note.life = "started"
          BY <4>2, <4>7 DEF Life
        <4> QED
          BY <4>4, <4>8
      <3>5. InLifeOrder(g, s)
        <4>1. n.life = "completed" => Life(s) = "completed"
          BY <1>1 DEF Life
        <4> HIDE DEF g
        <4> QED
          BY <1>1, <3>2, <3>3, <3>4, <4>1 DEF InLifeOrder
      <3> QED
        BY <3>1, <3>5
    <2> QED
      BY <2>1, <2>2
  <1> QED
    BY <1>4 DEF Fits, s, e

(**************************** steps of the handler *************************)

Unwritten == UNCHANGED <<journalVars, up, queue, queued>>

LEMMA RegistryRenewed ==
    ASSUME Inv, up, NEW r
    PROVE  /\ [mem EXCEPT !.registry = r].registry = r
           /\ [mem EXCEPT !.registry = r]
                = [Indexes(file, DOMAIN file \ Unindexed(doing)) EXCEPT !.registry = r]
  <1> DEFINE m == Indexes(file, DOMAIN file \ Unindexed(doing))
  <1>1. [mem EXCEPT !.registry = r] = [m EXCEPT !.registry = r]
    BY ShownBy
  <1>2. [m EXCEPT !.registry = r].registry = r
    BY IndexesUnfold
  <1> QED
    BY <1>1, <1>2

\* The handler rests between two notifications; what it leaves in hand fits the journal.
LEMMA HandlerKeeps ==
    ASSUME Inv, up, todo = <<>>, doing[Loop].at = "idle", Unwritten,
           NEW r \in Registries, mem' = [mem EXCEPT !.registry = r],
           conn' \in Nat, epoch' \in Nat, todo' \in Seq(Observations), Paired(todo'),
           conn' = 0 => todo' = <<>>,
           todo' # <<>> => Fits(file, todo'[1]),
           \A m \in AllNotes : KnowsOf(mem.registry.turns, m) => KnowsOf(r.turns, m),
           \A k \in DOMAIN todo' : KnowsOf(r.turns, todo'[k].note),
           \A t \in Turns : Ended(r.turns, t) =>
              \/ Ended(mem.registry.turns, t)
              \/ \E i \in DOMAIN file : Finishes(file[i].event.note, t)
              \/ \E k \in DOMAIN todo' : Finishes(todo'[k].note, t)
    PROVE  IngestInv'
  <1>1. /\ IngestTypes /\ InHand /\ Placed /\ Indexed /\ Sound(file) /\ Awaited /\ Counted
        /\ Registered /\ JournalTypes(AllEvents) /\ file \in Journal
    BY DEF Inv, IngestInv, JournalInv, JournalTypes, Journal
  <1>2. /\ file' = file /\ doing' = doing /\ up' = up /\ queue' = queue /\ queued' = queued
    BY DEF Unwritten, journalVars
  <1>3. mem'.registry = r
    BY RegistryRenewed
  <1>4. IngestTypes'
    BY <1>1, <1>2, <1>3 DEF IngestTypes
  <1>5. InHand'
    BY <1>1, <1>2 DEF InHand
  <1>6. Placed'
    BY <1>1, <1>2 DEF Placed, Added
  <1>7. Indexed'
    <2>1. mem' = [Indexes(file, DOMAIN file \ Unindexed(doing)) EXCEPT !.registry = r]
      BY RegistryRenewed
    <2> QED
      BY <1>2, <1>3, <2>1 DEF Indexed
  <1>8. Awaited'
    <2>1. todo' # <<>> => Fits(file', todo'[1])
      BY <1>2
    <2>2. /\ doing'[Worker].at = "opened" =>
                /\ Fits(file', doing'[Worker].event)
                /\ \A k \in DOMAIN queue' : queue'[k].note # doing'[Worker].event.note
          /\ \A k \in DOMAIN queue' : Fits(file', queue'[k])
          /\ \A k, l \in DOMAIN queue' : queue'[k].note = queue'[l].note => k = l
      BY ONLY <1>1, <1>2 DEF Awaited
    <2>3. ~Added(doing'[Loop])
      BY <1>2 DEF Added
    <2> QED
      BY ONLY <2>1, <2>2, <2>3 DEF Awaited
  <1>9. Counted'
    BY <1>1, <1>2 DEF Counted
  <1>10. Registered'
    <2>1. ASSUME NEW i \in DOMAIN file PROVE KnowsOf(r.turns, file[i].event.note)
      <3>1. file[i].event.note \in AllNotes
        BY <1>1, RecordAt, EventsSplit DEF AllNotes
      <3> QED
        BY <1>1, <3>1 DEF Registered
    <2>2. ASSUME NEW k \in DOMAIN queue PROVE KnowsOf(r.turns, queue[k].note)
      <3>1. queue[k].note \in AllNotes
        BY <1>1, EventsSplit DEF AllNotes, IngestTypes
      <3> QED
        BY <1>1, <3>1 DEF Registered
    <2>3. ASSUME doing[Worker].at # "idle" PROVE KnowsOf(r.turns, doing[Worker].event.note)
      <3>1. doing[Worker].event.note \in AllNotes
        BY <1>1, <2>3, EventsSplit DEF AllNotes, InHand
      <3> QED
        BY <1>1, <2>3, <3>1 DEF Registered
    <2>4. ASSUME NEW t \in Turns, Ended(r.turns, t)
          PROVE  \/ \E i \in DOMAIN file : Finishes(file[i].event.note, t)
                 \/ \E k \in DOMAIN todo' : Finishes(todo'[k].note, t)
      <3>1. CASE Ended(mem.registry.turns, t)
        <4>1. \E i \in DOMAIN file : Finishes(file[i].event.note, t)
          BY <1>1, <3>1 DEF Registered
        <4> QED
          BY <4>1
      <3> QED
        BY <2>4, <3>1
    <2> QED
      BY <1>2, <1>3, <2>1, <2>2, <2>3, <2>4 DEF Registered
  <1> QED
    BY <1>1, <1>2, <1>4, <1>5, <1>6, <1>7, <1>8, <1>9, <1>10 DEF IngestInv

\* A connection that comes or goes changes nothing but the attachments.
LEMMA AttachmentsKeep ==
    ASSUME Inv, up, todo = <<>>, doing[Loop].at = "idle", Unwritten, todo' = todo,
           conn' \in Nat, epoch' \in Nat, NEW r \in Registries, r.turns = mem.registry.turns,
           mem' = [mem EXCEPT !.registry = r]
    PROVE  IngestInv'
  <1>1. /\ todo' \in Seq(Observations) /\ Paired(todo') /\ ~(todo' # <<>>) /\ DOMAIN todo' = {}
    BY DEF Paired
  <1>2. \A m \in AllNotes : KnowsOf(mem.registry.turns, m) => KnowsOf(r.turns, m)
    OBVIOUS
  <1>3. \A t \in Turns : Ended(r.turns, t) => Ended(mem.registry.turns, t)
    OBVIOUS
  <1> QED
    BY <1>1, <1>2, <1>3, HandlerKeeps

LEMMA NotificationsKeep ==
    ASSUME Inv, NEW n \in Notifications, Contradicts(n) \/ Drop(n) \/ Refuse(n) \/ Accept(n)
    PROVE  IngestInv'
  <1>1. /\ up /\ todo = <<>> /\ doing[Loop].at = "idle" /\ conn # 0 /\ Unwritten
        /\ mem.registry \in Registries /\ conn \in Nat /\ epoch \in Nat
    BY DEF Contradicts, Drop, Refuse, Accept, Normalize, Handling, Unwritten, Inv, IngestInv,
           IngestTypes
  <1>2. CASE Contradicts(n)
    <2> DEFINE r == Detach(mem.registry, mem.registry.attached)
    <2>1. r \in Registries /\ r.turns = mem.registry.turns
      <3>1. mem.registry.attached \in SUBSET Nat
        BY <1>1 DEF Registries
      <3> QED
        BY <1>1, <3>1, AttachFacts
    <2>2. mem' = [mem EXCEPT !.registry = r] /\ conn' = 0 /\ epoch' = epoch /\ todo' = todo
      BY <1>2 DEF Contradicts
    <2> HIDE DEF r
    <2> QED
      BY <1>1, <2>1, <2>2, AttachmentsKeep
  <1> DEFINE e == Received(n)
             r == Attach(Identify(mem.registry, n), conn)
  <1>3. ASSUME Normalize(n), conn' = conn, epoch' = epoch
        PROVE  /\ mem' = [mem EXCEPT !.registry = r] /\ conn' \in Nat /\ conn' # 0 /\ epoch' \in Nat
               /\ r \in Registries /\ KnowsOf(r.turns, n)
               /\ \A m \in AllNotes : KnowsOf(mem.registry.turns, m) => KnowsOf(r.turns, m)
               /\ \A t \in Turns : Ended(r.turns, t) =>
                     Ended(mem.registry.turns, t) \/ Finishes(n, t)
    BY <1>1, <1>3, IdentifyFacts DEF Normalize
  <1>4. e.note = n /\ ~e.effect /\ (n.op # NoOp => n.kind = "item") /\ n # None
    BY ReceivedFacts, IngestionAssumption DEF AllNotes
  <1> HIDE DEF r, e
  <1>5. CASE Drop(n) \/ Refuse(n)
    <2>1. Normalize(n) /\ conn' = conn /\ epoch' = epoch /\ todo' = <<>>
      BY <1>1, <1>5 DEF Drop, Refuse
    <2>2. ASSUME n.kind = "turn_completed"
          PROVE  \E i \in DOMAIN file : file[i].event.note = n
      <3>1. Id(e) \in mem.seen
        BY <1>4, <1>5, <2>2 DEF Drop, Refuse, Duplicate, ChangesOutcome, Completes, e
      <3>2. PICK i \in DOMAIN file : Id(file[i].event) = Id(e)
        BY <1>1, <3>1, SeenInFile
      <3> QED
        BY <1>4, <2>2, <3>2 DEF Id, ReplaySafe
    <2>3. \A t \in Turns : Finishes(n, t) => \E i \in DOMAIN file : Finishes(file[i].event.note, t)
      BY <2>2 DEF Finishes
    <2>4. Paired(todo') /\ DOMAIN todo' = {} /\ todo' \in Seq(Observations) /\ ~(todo' # <<>>)
      BY <2>1 DEF Paired
    <2> QED
      BY <1>1, <1>3, <2>1, <2>3, <2>4, HandlerKeeps
  <1>6. CASE Accept(n)
    <2> DEFINE s == Stamped(e)
               g == EffectOf(e)
    <2>1. Normalize(n) /\ conn' = conn /\ epoch' = epoch
          /\ todo' = IF HasEffect(e) THEN <<s, g>> ELSE <<s>>
      BY <1>6 DEF Accept, e
    <2>2. /\ s \in Observations /\ s.note = n /\ g \in Observations
          /\ (n.op # NoOp => Follows(s, g)) /\ Fits(file, s)
      BY <1>1, <1>6, StampedFacts, AcceptedFits DEF e
    <2> HIDE DEF s, g
    <2>3. todo' = <<s>> \/ (todo' = <<s, g>> /\ Follows(s, g))
      <3>1. CASE HasEffect(e)
        BY <1>4, <2>1, <2>2, <3>1 DEF HasEffect
      <3>2. CASE ~HasEffect(e)
        BY <2>1, <3>2
      <3> QED
        BY <3>1, <3>2
    <2>4. /\ todo' \in Seq(Observations) /\ Paired(todo') /\ 1 \in DOMAIN todo' /\ todo'[1] = s
          /\ \A k \in DOMAIN todo' : todo'[k].note = n
      <3>1. CASE todo' = <<s>>
        BY <2>2, <3>1 DEF Paired
      <3>2. CASE todo' = <<s, g>> /\ Follows(s, g)
        BY <2>2, <3>2 DEF Paired, Follows
      <3> QED
        BY <2>3, <3>1, <3>2
    <2>5. \A t \in Turns : Finishes(n, t) => \E k \in DOMAIN todo' : Finishes(todo'[k].note, t)
      BY <2>4
    <2>6. \A k \in DOMAIN todo' : KnowsOf(r.turns, todo'[k].note)
      BY <1>3, <2>1, <2>4
    <2> QED
      BY <1>1, <1>3, <2>1, <2>2, <2>4, <2>5, <2>6, HandlerKeeps
  <1> QED
    BY <1>2, <1>5, <1>6

LEMMA ConnectionsKeep ==
    ASSUME Inv, Connect \/ Disconnect
    PROVE  IngestInv'
  <1>1. /\ up /\ todo = <<>> /\ doing[Loop].at = "idle" /\ Unwritten /\ todo' = todo
        /\ mem.registry \in Registries /\ conn \in Nat /\ epoch \in Nat
    BY DEF Connect, Disconnect, Handling, Unwritten, Inv, IngestInv, IngestTypes, InHand
  <1>2. CASE Connect
    <2> DEFINE r == IF mem.registry.observed THEN Attach(mem.registry, epoch + 1) ELSE mem.registry
    <2>1. r \in Registries /\ r.turns = mem.registry.turns
      <3>1. epoch + 1 \in Nat /\ {} \in SUBSET Nat
        BY <1>1
      <3>2. Attach(mem.registry, epoch + 1) \in Registries
            /\ Attach(mem.registry, epoch + 1).turns = mem.registry.turns
        BY <1>1, <3>1, AttachFacts
      <3> QED
        BY <1>1, <3>2
    <2>2. mem' = [mem EXCEPT !.registry = r] /\ conn' = epoch + 1 /\ epoch' = epoch + 1
      BY <1>2 DEF Connect
    <2> HIDE DEF r
    <2> QED
      BY <1>1, <2>1, <2>2, AttachmentsKeep
  <1>3. CASE Disconnect
    <2> DEFINE r == Detach(mem.registry, mem.registry.attached)
    <2>1. r \in Registries /\ r.turns = mem.registry.turns
      <3>1. mem.registry.attached \in SUBSET Nat
        BY <1>1 DEF Registries
      <3> QED
        BY <1>1, <3>1, AttachFacts
    <2>2. mem' = [mem EXCEPT !.registry = r] /\ conn' = 0 /\ epoch' = epoch
      BY <1>3 DEF Disconnect
    <2> HIDE DEF r
    <2> QED
      BY <1>1, <2>1, <2>2, AttachmentsKeep
  <1> QED
    BY <1>2, <1>3

\* A control event that was not enqueued is neither in the journal nor on its way there.
LEMMA EnqueueKeeps ==
    ASSUME Inv, NEW c \in Controls, Enqueue(c)
    PROVE  IngestInv'
  <1> DEFINE x == Received(c)
             q == Append(queue, x)
  <1>1. /\ IngestTypes /\ InHand /\ Placed /\ Indexed /\ Sound(file) /\ Awaited /\ Counted
        /\ Registered /\ file \in Journal /\ Paired(todo)
    BY DEF Inv, IngestInv, JournalInv, JournalTypes, Journal
  <1>2. /\ up /\ todo = <<>> /\ doing[Loop].at = "idle" /\ c \notin queued
        /\ (c.turn # NoTurn => mem.registry.turns[c.turn].status # "unknown")
        /\ file' = file /\ doing' = doing /\ up' = up /\ queue' = q
        /\ queued' = queued \cup {c} /\ mem' = mem /\ conn' = conn /\ epoch' = epoch /\ todo' = todo
    BY DEF Enqueue, Aimed, Handling, journalVars
  <1>3. x \in Commands /\ x.note = c
    BY ReceivedFacts DEF AllNotes
  <1> HIDE DEF x
  <1>4. /\ queue \in Seq(Commands) /\ q \in Seq(Commands) /\ Len(q) = Len(queue) + 1
        /\ q[Len(queue) + 1] = x /\ \A k \in 1 .. Len(queue) : q[k] = queue[k]
        /\ DOMAIN queue = 1 .. Len(queue) /\ DOMAIN q = 1 .. Len(queue) + 1 /\ Len(queue) \in Nat
    BY <1>1, <1>3 DEF IngestTypes
  <1> HIDE DEF q
  <1>5. \A k \in DOMAIN q : \/ k \in DOMAIN queue /\ q[k] = queue[k]
                            \/ k = Len(queue) + 1 /\ q[k] = x
    <2>1. ASSUME NEW k \in DOMAIN q, k # Len(queue) + 1 PROVE k \in 1 .. Len(queue)
      BY <1>4, <2>1
    <2> QED
      BY <1>4, <2>1
  <1>6. \A i \in DOMAIN file : file[i].event \in AllEvents /\ file[i].event.note # c
    BY <1>1, <1>2, RecordAt DEF Counted
  <1>7. Fits(file, x)
    BY <1>3, <1>6, CommandsApart DEF Fits
  <1>8. \A k \in DOMAIN queue : queue[k].note # c
    BY <1>1, <1>2 DEF Counted
  <1>9. doing[Worker].at # "idle" => doing[Worker].event.note # c
    BY <1>1, <1>2 DEF Counted
  <1>10. KnowsOf(mem.registry.turns, c)
    BY <1>2, IngestionAssumption DEF KnowsOf
  <1>11. IngestTypes'
    BY <1>1, <1>2, <1>4 DEF IngestTypes
  <1>12. InHand'
    BY <1>1, <1>2 DEF InHand
  <1>13. Placed'
    BY <1>1, <1>2 DEF Placed, Added
  <1>14. Indexed'
    BY <1>1, <1>2 DEF Indexed
  <1>15. Awaited'
    <2>1. ASSUME NEW k \in DOMAIN q PROVE Fits(file, q[k])
      BY <1>1, <1>5, <1>7 DEF Awaited
    <2>2. ASSUME NEW k \in DOMAIN q, NEW l \in DOMAIN q, q[k].note = q[l].note PROVE k = l
      BY <1>1, <1>3, <1>5, <1>8, <2>2 DEF Awaited
    <2>3. doing[Worker].at = "opened" =>
             /\ Fits(file, doing[Worker].event)
             /\ \A k \in DOMAIN q : q[k].note # doing[Worker].event.note
      BY <1>1, <1>3, <1>5, <1>9 DEF Awaited
    <2> QED
      BY <1>2, <2>1, <2>2, <2>3 DEF Awaited
  <1>16. Counted'
    <2>1. \A k \in DOMAIN q : q[k].note \in queued \cup {c}
      BY <1>1, <1>2, <1>3, <1>5 DEF Counted
    <2> QED
      BY <1>1, <1>2, <2>1 DEF Counted
  <1>17. Registered'
    <2>1. \A k \in DOMAIN q : KnowsOf(mem.registry.turns, q[k].note)
      BY <1>1, <1>2, <1>3, <1>5, <1>10 DEF Registered
    <2> QED
      BY <1>1, <1>2, <2>1 DEF Registered
  <1> QED
    BY <1>1, <1>2, <1>11, <1>12, <1>13, <1>14, <1>15, <1>16, <1>17 DEF IngestInv

(*************************** steps of the two writers **********************)

LEMMA SameUnindexed ==
    ASSUME NEW d, NEW g, \A w \in {Loop, Worker} : Added(d[w]) <=> Added(g[w]),
           \A w \in {Loop, Worker} : Added(d[w]) => Place(d[w]) = Place(g[w])
    PROVE  Unindexed(d) = Unindexed(g)
  BY DEF Unindexed

LEMMA TwoWriters == Loop \in Writers /\ Worker \in Writers /\ Loop # Worker
  BY IngestionAssumption

LEMMA InvParts ==
    ASSUME Inv
    PROVE  /\ IngestTypes /\ InHand /\ Paired(todo) /\ Placed /\ Indexed /\ Sound(file) /\ Awaited
           /\ Counted /\ Registered /\ JournalTypes(AllEvents) /\ OneWriter /\ file \in Journal
           /\ doing \in [Writers -> Doings(AllEvents)]
  BY DEF Inv, IngestInv, JournalInv, JournalTypes, Journal

\* While the daemon runs, opening the journal changes nothing of it.
LEMMA OpenedAsIs ==
    ASSUME Inv, up, NEW w, NEW e, NEW snap, Open(w, e, snap)
    PROVE  /\ file' = file /\ doing[w].at = "idle"
           /\ \E d : d.at = "opened" /\ d.event = e /\ doing' = [doing EXCEPT ![w] = d]
  <1>1. Kept(file) = file
    BY InvParts DEF InHand
  <1> DEFINE known == IF Fresh THEN sidecar ELSE Summary(Kept(file))
             d == [at |-> "opened", event |-> e, snap |-> snap,
                   steps |-> known.steps, last |-> known.last]
  <1>2. doing' = [doing EXCEPT ![w] = d]
    BY DEF Open
  <1>3. d.at = "opened" /\ d.event = e
    OBVIOUS
  <1> QED
    BY <1>1, <1>2, <1>3 DEF Open

LEMMA LoopOpensKeeps ==
    ASSUME Inv, LoopOpens
    PROVE  IngestInv'
  <1>1. PICK snap : Open(Loop, Head(todo), snap)
    BY DEF LoopOpens
  <1>2. /\ up /\ todo # <<>> /\ up' = up /\ conn' = conn /\ epoch' = epoch /\ mem' = mem
        /\ todo' = todo /\ queue' = queue /\ queued' = queued
    BY DEF LoopOpens, ingestVars
  <1>3. PICK d : /\ d.at = "opened" /\ d.event = Head(todo) /\ file' = file
                 /\ doing' = [doing EXCEPT ![Loop] = d] /\ doing[Loop].at = "idle"
    BY <1>1, <1>2, OpenedAsIs
  <1>4. doing'[Loop] = d /\ \A w \in Writers : w # Loop => doing'[w] = doing[w]
    BY <1>3, InvParts, TwoWriters
  <1>5. ~Added(d) /\ ~Added(doing[Loop])
    BY <1>3 DEF Added
  <1>6. Head(todo) = todo[1]
    BY <1>2, InvParts DEF IngestTypes
  <1>7. Unindexed(doing') = Unindexed(doing)
    BY <1>4, <1>5, TwoWriters, SameUnindexed
  <1>8. IngestTypes'
    BY <1>2, InvParts DEF IngestTypes
  <1>9. InHand'
    BY <1>2, <1>3, <1>4, <1>6, InvParts, TwoWriters DEF InHand
  <1>10. Placed'
    BY <1>3, <1>4, <1>5, InvParts, TwoWriters DEF Placed
  <1>11. Indexed'
    BY <1>2, <1>3, <1>7, InvParts DEF Indexed
  <1>12. Awaited'
    BY <1>2, <1>3, <1>4, <1>5, InvParts, TwoWriters DEF Awaited
  <1>13. Counted'
    BY <1>2, <1>3, <1>4, InvParts, TwoWriters DEF Counted
  <1>14. Registered'
    BY <1>2, <1>3, <1>4, InvParts, TwoWriters DEF Registered
  <1> QED
    BY <1>2, <1>3, <1>8, <1>9, <1>10, <1>11, <1>12, <1>13, <1>14, InvParts DEF IngestInv

LEMMA WorkerOpensKeeps ==
    ASSUME Inv, WorkerOpens
    PROVE  IngestInv'
  <1>1. Open(Worker, Head(queue), FALSE) /\ queue' = Tail(queue)
    BY DEF WorkerOpens
  <1>2. /\ up /\ queue # <<>> /\ up' = up /\ conn' = conn /\ epoch' = epoch /\ mem' = mem
        /\ todo' = todo /\ queued' = queued
    BY DEF WorkerOpens
  <1>3. PICK d : /\ d.at = "opened" /\ d.event = Head(queue) /\ file' = file
                 /\ doing' = [doing EXCEPT ![Worker] = d] /\ doing[Worker].at = "idle"
    BY <1>1, <1>2, OpenedAsIs, ZenonT(40)
  <1>4. doing'[Worker] = d /\ \A w \in Writers : w # Worker => doing'[w] = doing[w]
    BY <1>3, InvParts, TwoWriters
  <1>5. ~Added(d) /\ ~Added(doing[Worker])
    BY <1>3 DEF Added
  <1> DEFINE q == Tail(queue)
  <1>6. /\ queue \in Seq(Commands) /\ q \in Seq(Commands) /\ 1 \in DOMAIN queue
        /\ Head(queue) = queue[1] /\ queue[1] \in Commands
        /\ \A k \in DOMAIN q : k + 1 \in DOMAIN queue /\ q[k] = queue[k + 1] /\ k + 1 # 1 /\ k \in Nat
    BY <1>2, InvParts DEF IngestTypes
  <1> HIDE DEF q
  <1>7. Unindexed(doing') = Unindexed(doing)
    BY <1>4, <1>5, TwoWriters, SameUnindexed
  <1>8. IngestTypes'
    BY <1>1, <1>2, <1>6, InvParts DEF IngestTypes, q
  <1>9. InHand'
    BY <1>2, <1>3, <1>4, <1>6, InvParts, TwoWriters DEF InHand
  <1>10. Placed'
    BY <1>3, <1>4, <1>5, InvParts, TwoWriters DEF Placed
  <1>11. Indexed'
    BY <1>2, <1>3, <1>7, InvParts DEF Indexed
  <1>12. Awaited'
    <2>1. Fits(file, d.event) /\ \A k \in DOMAIN q : q[k].note # d.event.note
      BY <1>3, <1>6, InvParts DEF Awaited
    <2>2. \A k \in DOMAIN q : Fits(file, q[k])
      BY <1>6, InvParts DEF Awaited
    <2>3. ASSUME NEW k \in DOMAIN q, NEW l \in DOMAIN q, q[k].note = q[l].note PROVE k = l
      <3>1. k + 1 = l + 1
        BY <1>6, <2>3, InvParts DEF Awaited
      <3> QED
        BY <1>6, <3>1
    <2>4. /\ todo' # <<>> /\ ~Added(doing'[Loop]) => Fits(file', todo'[1])
          /\ Added(doing'[Loop]) /\ Len(todo') = 2 => Fits(file', todo'[2])
      BY <1>2, <1>3, <1>4, InvParts, TwoWriters DEF Awaited
    <2> QED
      BY <1>1, <1>3, <1>4, <2>1, <2>2, <2>3, <2>4 DEF Awaited, q
  <1>13. Counted'
    <2>1. \A k \in DOMAIN q : q[k].note \in queued
      BY <1>2, <1>6, InvParts DEF Counted
    <2>2. d.event.note \in queued
      BY <1>2, <1>3, <1>6, InvParts DEF Counted
    <2> QED
      BY <1>1, <1>2, <1>3, <1>4, <2>1, <2>2, InvParts DEF Counted, q
  <1>14. Registered'
    <2>1. \A k \in DOMAIN q : KnowsOf(mem.registry.turns, q[k].note)
      BY <1>2, <1>6, InvParts DEF Registered
    <2>2. KnowsOf(mem.registry.turns, d.event.note)
      BY <1>2, <1>3, <1>6, InvParts DEF Registered
    <2> QED
      BY <1>1, <1>2, <1>3, <1>4, <2>1, <2>2, InvParts DEF Registered, q
  <1> QED
    BY <1>2, <1>3, <1>8, <1>9, <1>10, <1>11, <1>12, <1>13, <1>14, InvParts DEF IngestInv

\* A record is added after the others, where its writer said it would be.
LEMMA WrittenRecord ==
    ASSUME Inv, NEW w \in Writers, Write(w)
    PROVE  \E x, d :
              /\ x \in Writable /\ x.event = doing[w].event /\ doing[w].at = "opened" /\ lock = w
              /\ file' = Append(file, x) /\ file' \in Journal /\ Kept(file') = file'
              /\ Len(file) \in Nat /\ Len(file') = Len(file) + 1 /\ file'[Len(file) + 1] = x
              /\ DOMAIN file = 1 .. Len(file) /\ DOMAIN file' = 1 .. Len(file) + 1
              /\ \A i \in DOMAIN file : file'[i] = file[i]
              /\ Added(d) /\ d.at # "opened" /\ d.event = doing[w].event /\ Place(d) = Len(file) + 1
              /\ doing' = [doing EXCEPT ![w] = d]
  <1> DEFINE x == Piece(w, "whole")
             d == [doing[w] EXCEPT !.at = "written"]
  <1>1. /\ doing[w].at = "opened" /\ file' = Append(file, x) /\ doing' = [doing EXCEPT ![w] = d]
    BY DEF Write
  <1>2. doing[w] \in Doings(AllEvents) /\ JournalInv(AllEvents) /\ Knows(file, doing[w]) /\ lock = w
    BY <1>1, InvParts DEF OneWriter, Inv
  <1>3. x \in Writable /\ x.event = doing[w].event /\ x.form = "whole"
    BY <1>1, <1>2, PieceType DEF Forms, Writable, PieceOf
  <1>4. d.at = "written" /\ d.event = doing[w].event /\ d.steps = doing[w].steps
    BY <1>2 DEF Doings
  <1> HIDE DEF x, d
  <1>5. /\ file' \in Journal /\ Len(file) \in Nat /\ Len(file') = Len(file) + 1
        /\ file'[Len(file) + 1] = x
        /\ DOMAIN file = 1 .. Len(file) /\ DOMAIN file' = 1 .. Len(file) + 1
        /\ \A i \in 1 .. Len(file) : file'[i] = file[i]
    BY <1>1, <1>3, InvParts, AppendFacts DEF Journal, Writable
  <1>6. Kept(file') = file'
    <2>1. Len(file') \in Ends(file')
      BY <1>3, <1>5 DEF Ends
    <2> QED
      BY <1>5, <2>1, WholeTailKept DEF Journal
  <1>7. Added(d) /\ d.at # "opened" /\ Place(d) = Len(file) + 1
    BY <1>2, <1>4 DEF Added, Place, Knows
  <1> QED
    BY <1>1, <1>2, <1>3, <1>4, <1>5, <1>6, <1>7

\* The indexes lag behind by the record that was added.
LEMMA WrittenIsUnindexed ==
    ASSUME Inv, up, up' = up, mem' = mem, NEW w \in {Loop, Worker}, NEW d,
           ~Added(doing[w]), doing' = [doing EXCEPT ![w] = d], Added(d), Place(d) = Len(file) + 1,
           file' \in Journal, Len(file) \in Nat,
           DOMAIN file = 1 .. Len(file), DOMAIN file' = 1 .. Len(file) + 1,
           \A i \in DOMAIN file : file'[i] = file[i]
    PROVE  Indexed'
  <1>1. doing'[w] = d /\ \A v \in {Loop, Worker} : v # w => doing'[v] = doing[v]
    BY InvParts, TwoWriters
  <1>2. Unindexed(doing') = Unindexed(doing) \cup {Len(file) + 1}
    <2>1. Unindexed(doing') \subseteq Unindexed(doing) \cup {Len(file) + 1}
      BY <1>1 DEF Unindexed
    <2>2. Len(file) + 1 \in Unindexed(doing')
      BY <1>1 DEF Unindexed
    <2>3. Unindexed(doing) \subseteq Unindexed(doing')
      BY <1>1 DEF Unindexed
    <2> QED
      BY <2>1, <2>2, <2>3
  <1> DEFINE I == DOMAIN file \ Unindexed(doing)
  <1>3. DOMAIN file' \ Unindexed(doing') = I
    <2>1. 1 .. Len(file) + 1 = (1 .. Len(file)) \cup {Len(file) + 1} /\ Len(file) + 1 \notin 1 .. Len(file)
      OBVIOUS
    <2>2. DOMAIN file' = DOMAIN file \cup {Len(file) + 1} /\ Len(file) + 1 \notin DOMAIN file
      BY <2>1
    <2> QED
      BY <1>2, <2>2, Zenon
  <1>4. Indexes(file', I) = Indexes(file, I)
    <2>1. I \in SUBSET DOMAIN file /\ I \subseteq DOMAIN file' /\ \A i \in I : file'[i] = file[i]
      OBVIOUS
    <2> HIDE DEF I
    <2> QED
      BY <2>1, InvParts, SameIndexes
  <1>5. mem = [Indexes(file, I) EXCEPT !.registry = mem.registry]
    BY InvParts DEF Indexed
  <1> HIDE DEF I
  <1> QED
    BY <1>3, <1>4, <1>5 DEF Indexed

LEMMA LoopWritesKeeps ==
    ASSUME Inv, Write(Loop), up, UNCHANGED ingestVars
    PROVE  IngestInv'
  <1>1. PICK x, d :
              /\ x \in Writable /\ x.event = doing[Loop].event /\ doing[Loop].at = "opened" /\ lock = Loop
              /\ file' = Append(file, x) /\ file' \in Journal /\ Kept(file') = file'
              /\ Len(file) \in Nat /\ Len(file') = Len(file) + 1 /\ file'[Len(file) + 1] = x
              /\ DOMAIN file = 1 .. Len(file) /\ DOMAIN file' = 1 .. Len(file) + 1
              /\ \A i \in DOMAIN file : file'[i] = file[i]
              /\ Added(d) /\ d.at # "opened" /\ d.event = doing[Loop].event /\ Place(d) = Len(file) + 1
              /\ doing' = [doing EXCEPT ![Loop] = d]
    BY TwoWriters, WrittenRecord
  <1>2. /\ up' = up /\ conn' = conn /\ epoch' = epoch /\ mem' = mem
        /\ todo' = todo /\ queue' = queue /\ queued' = queued
    BY DEF ingestVars
  <1>3. doing'[Loop] = d /\ \A w \in Writers : w # Loop => doing'[w] = doing[w]
    BY <1>1, InvParts, TwoWriters
  <1>4. /\ todo # <<>> /\ x.event = todo[1] /\ todo \in Seq(Observations) /\ 1 \in DOMAIN todo
        /\ todo[1] \in Observations /\ Fits(file, todo[1])
    <2>1. todo # <<>> /\ x.event = todo[1] /\ todo \in Seq(Observations)
      BY <1>1, InvParts DEF InHand, IngestTypes
    <2>2. ~Added(doing[Loop])
      BY <1>1 DEF Added
    <2> QED
      BY <2>1, <2>2, InvParts DEF Awaited
  <1>5. \A i \in DOMAIN file' : (i \in DOMAIN file /\ file'[i] = file[i]) \/ (i = Len(file) + 1 /\ file'[i] = x)
    <2>1. ASSUME NEW i \in DOMAIN file', i # Len(file) + 1 PROVE i \in DOMAIN file
      BY <1>1, <2>1
    <2> QED
      BY <1>1, <2>1
  <1>6. ~Added(doing[Loop])
    BY <1>1 DEF Added
  <1>7. IngestTypes'
    BY <1>2, InvParts DEF IngestTypes
  <1>8. InHand'
    BY <1>1, <1>2, <1>3, <1>4, InvParts, TwoWriters DEF InHand
  <1>9. Placed'
    <2>1. Place(d) \in DOMAIN file' /\ file'[Place(d)].event = d.event
      BY <1>1
    <2>2. ASSUME Added(doing[Worker])
          PROVE  /\ Place(doing[Worker]) \in DOMAIN file'
                 /\ file'[Place(doing[Worker])].event = doing[Worker].event
      BY <1>1, <2>2, InvParts DEF Placed
    <2>3. \A i \in DOMAIN file' : ~(i > Place(d))
      BY <1>1
    <2> QED
      BY <1>3, <2>1, <2>2, <2>3, TwoWriters DEF Placed
  <1>10. Indexed'
    BY <1>1, <1>2, <1>6, WrittenIsUnindexed
  <1>11. Sound(file')
    BY <1>1, <1>4, InvParts, AppendSound
  <1>12. Awaited'
    <2>1. ASSUME NEW c \in Commands, Fits(file, c) PROVE Fits(file', c)
      BY <1>1, <1>4, <2>1, InvParts, FitsAppend, CommandsApart, CommandsDiffer, EventsSplit
    <2>2. ASSUME Len(todo) = 2 PROVE Fits(file', todo[2])
      <3>1. Follows(todo[1], todo[2])
        BY <2>2, InvParts DEF Paired
      <3>2. Fits(file, todo[2]) /\ Distinct(todo[1], todo[2]) /\ InLifeOrder(todo[1], todo[2])
        BY <1>4, <3>1, FollowerFits
      <3> QED
        BY <1>1, <1>4, <3>2, InvParts, FitsAppend
    <2>3. ASSUME doing[Worker].at = "opened"
          PROVE  /\ Fits(file', doing[Worker].event)
                 /\ \A k \in DOMAIN queue : queue[k].note # doing[Worker].event.note
      BY <2>1, <2>3, InvParts DEF Awaited, InHand
    <2>4. \A k \in DOMAIN queue : Fits(file', queue[k])
      BY <2>1, InvParts DEF Awaited, IngestTypes
    <2> QED
      BY <1>1, <1>2, <1>3, <2>2, <2>3, <2>4, InvParts, TwoWriters DEF Awaited
  <1>13. Counted'
    <2>1. x.event.note \notin Controls
      BY <1>4, EventsSplit, IngestionAssumption
    <2> QED
      BY <1>2, <1>3, <1>5, <2>1, InvParts, TwoWriters DEF Counted
  <1>14. Registered'
    <2>1. KnowsOf(mem.registry.turns, x.event.note)
      BY <1>4, InvParts DEF Registered
    <2>2. \A i \in DOMAIN file' : KnowsOf(mem.registry.turns, file'[i].event.note)
      BY <1>5, <2>1, InvParts DEF Registered
    <2>3. ASSUME NEW t \in Turns, Ended(mem.registry.turns, t)
          PROVE  \/ \E i \in DOMAIN file' : Finishes(file'[i].event.note, t)
                 \/ \E k \in DOMAIN todo : Finishes(todo[k].note, t)
      <3>1. CASE \E i \in DOMAIN file : Finishes(file[i].event.note, t)
        BY <1>1, <3>1
      <3>2. CASE ~(\E i \in DOMAIN file : Finishes(file[i].event.note, t))
        BY <2>3, <3>2, InvParts DEF Registered
      <3> QED
        BY <3>1, <3>2
    <2> QED
      BY <1>2, <1>3, <2>2, <2>3, InvParts, TwoWriters DEF Registered
  <1> QED
    BY <1>2, <1>7, <1>8, <1>9, <1>10, <1>11, <1>12, <1>13, <1>14, InvParts DEF IngestInv

LEMMA WorkerWritesKeeps ==
    ASSUME Inv, Write(Worker), up, UNCHANGED ingestVars
    PROVE  IngestInv'
  <1>1. PICK x, d :
              /\ x \in Writable /\ x.event = doing[Worker].event /\ doing[Worker].at = "opened" /\ lock = Worker
              /\ file' = Append(file, x) /\ file' \in Journal /\ Kept(file') = file'
              /\ Len(file) \in Nat /\ Len(file') = Len(file) + 1 /\ file'[Len(file) + 1] = x
              /\ DOMAIN file = 1 .. Len(file) /\ DOMAIN file' = 1 .. Len(file) + 1
              /\ \A i \in DOMAIN file : file'[i] = file[i]
              /\ Added(d) /\ d.at # "opened" /\ d.event = doing[Worker].event /\ Place(d) = Len(file) + 1
              /\ doing' = [doing EXCEPT ![Worker] = d]
    BY TwoWriters, WrittenRecord
  <1>2. /\ up' = up /\ conn' = conn /\ epoch' = epoch /\ mem' = mem
        /\ todo' = todo /\ queue' = queue /\ queued' = queued
    BY DEF ingestVars
  <1>3. doing'[Worker] = d /\ \A w \in Writers : w # Worker => doing'[w] = doing[w]
    BY <1>1, InvParts, TwoWriters
  <1>4. /\ x.event \in Commands /\ Fits(file, x.event) /\ x.event.note \in queued
        /\ KnowsOf(mem.registry.turns, x.event.note) /\ x.event.note.op = NoOp
        /\ \A k \in DOMAIN queue : queue[k].note # x.event.note
    <2>1. x.event \in Commands /\ Fits(file, x.event)
          /\ \A k \in DOMAIN queue : queue[k].note # x.event.note
      BY <1>1, InvParts DEF Awaited, InHand
    <2>2. x.event.note \in queued /\ KnowsOf(mem.registry.turns, x.event.note)
      BY <1>1, InvParts DEF Counted, Registered
    <2> QED
      BY <2>1, <2>2, EventsSplit, IngestionAssumption
  <1>5. \A i \in DOMAIN file' : (i \in DOMAIN file /\ file'[i] = file[i]) \/ (i = Len(file) + 1 /\ file'[i] = x)
    <2>1. ASSUME NEW i \in DOMAIN file', i # Len(file) + 1 PROVE i \in DOMAIN file
      BY <1>1, <2>1
    <2> QED
      BY <1>1, <2>1
  <1>6. ~Added(doing[Worker])
    BY <1>1 DEF Added
  <1>7. IngestTypes'
    BY <1>2, InvParts DEF IngestTypes
  <1>8. InHand'
    BY <1>1, <1>2, <1>3, <1>4, InvParts, TwoWriters DEF InHand
  <1>9. Placed'
    <2>1. Place(d) \in DOMAIN file' /\ file'[Place(d)].event = d.event
      BY <1>1
    <2>2. ASSUME Added(doing[Loop])
          PROVE  /\ Place(doing[Loop]) \in DOMAIN file'
                 /\ file'[Place(doing[Loop])].event = doing[Loop].event
                 /\ \A i \in DOMAIN file' : i > Place(doing[Loop]) => file'[i].event.note.op = NoOp
      BY <1>1, <1>4, <1>5, <2>2, InvParts DEF Placed
    <2> QED
      BY <1>3, <2>1, <2>2, TwoWriters DEF Placed
  <1>10. Indexed'
    BY <1>1, <1>2, <1>6, WrittenIsUnindexed
  <1>11. Sound(file')
    BY <1>1, <1>4, InvParts, AppendSound
  <1>12. Awaited'
    <2>1. ASSUME NEW e \in Observations, Fits(file, e) PROVE Fits(file', e)
      BY <1>1, <1>4, <2>1, InvParts, FitsAppend, CommandsApart, CommandsDiffer, EventsSplit
    <2>2. ASSUME NEW k \in DOMAIN todo, Fits(file, todo[k]) PROVE Fits(file', todo[k])
      BY <2>1, <2>2, InvParts DEF IngestTypes
    <2>3. ASSUME NEW k \in DOMAIN queue PROVE Fits(file', queue[k])
      <3>1. queue[k] \in Commands /\ Fits(file, queue[k]) /\ queue[k].note # x.event.note
        BY <1>4, InvParts DEF Awaited, IngestTypes
      <3> QED
        BY <1>1, <1>4, <3>1, InvParts, FitsAppend, CommandsApart, EventsSplit
    <2>4. todo # <<>> => 1 \in DOMAIN todo
      BY InvParts DEF IngestTypes
    <2>5. Len(todo) = 2 => 2 \in DOMAIN todo
      BY InvParts DEF IngestTypes
    <2> QED
      BY <1>1, <1>2, <1>3, <2>2, <2>3, <2>4, <2>5, InvParts, TwoWriters DEF Awaited
  <1>13. Counted'
    BY <1>1, <1>2, <1>3, <1>4, <1>5, InvParts, TwoWriters DEF Counted
  <1>14. Registered'
    <2>2. \A i \in DOMAIN file' : KnowsOf(mem.registry.turns, file'[i].event.note)
      BY <1>4, <1>5, InvParts DEF Registered
    <2>3. ASSUME NEW t \in Turns, Ended(mem.registry.turns, t)
          PROVE  \/ \E i \in DOMAIN file' : Finishes(file'[i].event.note, t)
                 \/ \E k \in DOMAIN todo : Finishes(todo[k].note, t)
      <3>1. CASE \E i \in DOMAIN file : Finishes(file[i].event.note, t)
        BY <1>1, <3>1
      <3>2. CASE ~(\E i \in DOMAIN file : Finishes(file[i].event.note, t))
        BY <2>3, <3>2, InvParts DEF Registered
      <3> QED
        BY <3>1, <3>2
    <2> QED
      BY <1>1, <1>2, <1>3, <1>4, <2>2, <2>3, InvParts, TwoWriters DEF Registered
  <1> QED
    BY <1>2, <1>7, <1>8, <1>9, <1>10, <1>11, <1>12, <1>13, <1>14, InvParts DEF IngestInv

LEMMA CachesKeep ==
    ASSUME Inv, NEW w \in {Loop, Worker}, Cache(w), up, UNCHANGED ingestVars
    PROVE  IngestInv'
  <1> DEFINE d == [doing[w] EXCEPT !.at = "returned"]
  <1>1. doing[w].at = "written" /\ doing' = [doing EXCEPT ![w] = d] /\ file' = file
    BY DEF Cache
  <1>2. /\ up' = up /\ conn' = conn /\ epoch' = epoch /\ mem' = mem
        /\ todo' = todo /\ queue' = queue /\ queued' = queued
    BY DEF ingestVars
  <1>3. d.at = "returned" /\ d.event = doing[w].event /\ d.steps = doing[w].steps
    BY InvParts, TwoWriters DEF Doings
  <1> HIDE DEF d
  <1>4. doing'[w] = d /\ \A v \in Writers : v # w => doing'[v] = doing[v]
    BY <1>1, InvParts, TwoWriters
  <1>5. /\ Added(d) /\ Added(doing[w]) /\ Place(d) = Place(doing[w])
        /\ \A v \in Writers : /\ doing'[v].event = doing[v].event
                              /\ Added(doing'[v]) <=> Added(doing[v])
                              /\ Place(doing'[v]) = Place(doing[v])
                              /\ doing'[v].at = "idle" <=> doing[v].at = "idle"
                              /\ doing'[v].at = "opened" <=> doing[v].at = "opened"
    BY <1>1, <1>3, <1>4 DEF Added, Place
  <1>6. Unindexed(doing') = Unindexed(doing)
    BY <1>5, TwoWriters, SameUnindexed
  <1>7. IngestTypes'
    BY <1>2, InvParts DEF IngestTypes
  <1>8. InHand'
    BY <1>1, <1>2, <1>5, InvParts, TwoWriters DEF InHand
  <1>9. Placed'
    BY <1>1, <1>5, InvParts, TwoWriters DEF Placed
  <1>10. Indexed'
    BY <1>1, <1>2, <1>6, InvParts DEF Indexed
  <1>11. Awaited'
    BY <1>1, <1>2, <1>5, InvParts, TwoWriters DEF Awaited
  <1>12. Counted'
    BY <1>1, <1>2, <1>5, InvParts, TwoWriters DEF Counted
  <1>13. Registered'
    BY <1>1, <1>2, <1>5, InvParts, TwoWriters DEF Registered
  <1> QED
    BY <1>1, <1>2, <1>7, <1>8, <1>9, <1>10, <1>11, <1>12, <1>13, InvParts DEF IngestInv

\* A record that is indexed is one that was added and not indexed.
LEMMA IndexedNow ==
    ASSUME Inv, up, up' = up, file' = file, NEW w \in {Loop, Worker}, Leave(w),
           mem' = Remember(mem, doing[w].event)
    PROVE  Indexed' /\ mem'.registry = mem.registry
  <1> DEFINE p == Place(doing[w])
             I == DOMAIN file \ Unindexed(doing)
             r == mem.registry
  <1>1. doing[w].at = "returned" /\ doing' = [doing EXCEPT ![w] = Idle] /\ Added(doing[w])
    BY DEF Leave, Added
  <1>2. doing'[w] = Idle /\ ~Added(Idle) /\ \A v \in {Loop, Worker} : v # w => doing'[v] = doing[v]
    BY <1>1, InvParts, TwoWriters DEF Idle, Added
  <1>3. p \in DOMAIN file /\ file[p].event = doing[w].event
    BY <1>1, InvParts DEF Placed
  <1>4. ASSUME NEW v \in {Loop, Worker}, v # w, Added(doing[v]) PROVE Place(doing[v]) # p
    <2>1. file[Place(doing[v])].event = doing[v].event
      BY <1>4, InvParts DEF Placed
    <2>2. doing[Loop].event \in Observations /\ doing[Worker].event \in Commands
      <3>1. Added(doing[Loop]) /\ Added(doing[Worker])
        BY <1>1, <1>4
      <3>2. doing[Loop].at # "idle" /\ doing[Worker].at # "idle"
        BY <3>1 DEF Added
      <3>3. doing[Loop].event = todo[1] /\ todo # <<>> /\ todo \in Seq(Observations)
        BY <3>2, InvParts DEF InHand, IngestTypes
      <3> QED
        BY <3>2, <3>3, InvParts DEF InHand
    <2>3. doing[v].event # doing[w].event
      BY <1>4, <2>2, CommandsDiffer
    <2> QED
      BY <1>3, <2>1, <2>3
  <1>5. p \in Unindexed(doing)
    BY <1>1 DEF Unindexed
  <1>6. Unindexed(doing') = Unindexed(doing) \ {p}
    <2>1. ASSUME NEW i \in Unindexed(doing') PROVE i \in Unindexed(doing) /\ i # p
      BY <1>2, <1>4, <2>1 DEF Unindexed
    <2>2. ASSUME NEW i \in Unindexed(doing), i # p PROVE i \in Unindexed(doing')
      BY <1>2, <2>2 DEF Unindexed
    <2> QED
      BY <2>1, <2>2
  <1> HIDE DEF p
  <1>7. DOMAIN file \ Unindexed(doing') = I \cup {p}
    BY <1>3, <1>5, <1>6
  <1>8. ASSUME file[p].event.note.op # NoOp, NEW i \in I, file[i].event.note.op # NoOp
        PROVE  i <= p
    <2>1. w = Loop
      <3>1. CASE w = Worker
        <4>1. doing[Worker].event \in Commands
          BY <1>1, <3>1, InvParts DEF InHand
        <4> QED
          BY <1>3, <1>8, <3>1, <4>1, EventsSplit, IngestionAssumption
      <3> QED
        BY <3>1
    <2>2. i \in DOMAIN file /\ i \in Nat /\ p \in Nat
      BY <1>3, InvParts, RecordAt
    <2>3. ~(i > p)
      BY <1>1, <1>8, <2>1, <2>2, InvParts DEF Placed, p
    <2> QED
      BY <2>2, <2>3
  <1>9. mem = [Indexes(file, I) EXCEPT !.registry = r]
    BY InvParts DEF Indexed
  <1>10. I \in SUBSET DOMAIN file
    OBVIOUS
  <1> HIDE DEF I, r
  <1>11. mem' = [Indexes(file, I \cup {p}) EXCEPT !.registry = r]
    <2>1. file[p].event.note.op # NoOp => \A i \in I : file[i].event.note.op # NoOp => i <= p
      BY <1>8
    <2>2. file \in Journal
      BY InvParts
    <2> DEFINE m == [Indexes(file, I) EXCEPT !.registry = r]
    <2>3. Remember(m, file[p].event) = [Indexes(file, I \cup {p}) EXCEPT !.registry = r]
      BY <1>3, <1>10, <2>1, <2>2, RememberAdds
    <2>4. m = mem
      BY <1>9
    <2> HIDE DEF m
    <2> QED
      BY <1>3, <2>3, <2>4
  <1>12. mem'.registry = r
    BY <1>11, IndexesUnfold
  <1> QED
    BY <1>7, <1>11, <1>12 DEF Indexed, r

LEMMA LoopIndexesKeeps ==
    ASSUME Inv, LoopIndexes
    PROVE  IngestInv'
  <1>1. /\ up /\ up' = up /\ conn' = conn /\ epoch' = epoch /\ queue' = queue /\ queued' = queued
        /\ Leave(Loop) /\ mem' = Remember(mem, doing[Loop].event) /\ todo' = Tail(todo)
        /\ file' = file /\ doing[Loop].at = "returned" /\ doing' = [doing EXCEPT ![Loop] = Idle]
    BY DEF LoopIndexes, Leave
  <1>2. doing'[Loop] = Idle /\ \A w \in Writers : w # Loop => doing'[w] = doing[w]
    BY <1>1, InvParts, TwoWriters
  <1>3. Idle.at = "idle" /\ ~Added(Idle) /\ Added(doing[Loop])
    BY <1>1 DEF Idle, Added
  <1>4. Indexed' /\ mem'.registry = mem.registry
    BY <1>1, IndexedNow
  <1> DEFINE rest == Tail(todo)
  <1>5. /\ todo # <<>> /\ todo \in Seq(Observations) /\ rest \in Seq(Observations)
        /\ Len(rest) = Len(todo) - 1 /\ Len(todo) <= 2 /\ Len(todo) \in Nat
        /\ \A k \in DOMAIN rest : k \in Nat /\ k + 1 \in DOMAIN todo /\ rest[k] = todo[k + 1]
        /\ \A k \in DOMAIN todo : k = 1 \/ (k - 1 \in DOMAIN rest /\ rest[k - 1] = todo[k])
        /\ doing[Loop].event = todo[1]
    <2>1. /\ todo # <<>> /\ todo \in Seq(Observations) /\ Len(todo) <= 2
          /\ doing[Loop].event = todo[1]
      BY <1>1, InvParts DEF InHand, IngestTypes, Paired
    <2>2. /\ rest \in Seq(Observations) /\ Len(rest) = Len(todo) - 1 /\ Len(todo) \in Nat
          /\ Len(todo) # 0 /\ DOMAIN todo = 1 .. Len(todo) /\ DOMAIN rest = 1 .. Len(todo) - 1
          /\ \A k \in 1 .. Len(todo) - 1 : rest[k] = todo[k + 1]
      BY <2>1
    <2> HIDE DEF rest
    <2>3. \A k \in DOMAIN rest : k \in Nat /\ k + 1 \in DOMAIN todo /\ rest[k] = todo[k + 1]
      BY <2>2
    <2>4. ASSUME NEW k \in DOMAIN todo, k # 1 PROVE k - 1 \in DOMAIN rest /\ rest[k - 1] = todo[k]
      BY <2>2, <2>4
    <2> QED
      BY <2>1, <2>2, <2>3, <2>4
  <1>6. rest # <<>> => Len(todo) = 2 /\ rest[1] = todo[2]
    BY <1>5
  <1> HIDE DEF rest
  <1>7. IngestTypes'
    BY <1>1, <1>4, <1>5, InvParts DEF IngestTypes, rest
  <1>8. InHand'
    BY <1>1, <1>2, <1>3, <1>5, InvParts, TwoWriters DEF InHand
  <1>9. Paired(todo')
    BY <1>1, <1>5 DEF Paired, rest
  <1>10. Placed'
    BY <1>1, <1>2, <1>3, InvParts, TwoWriters DEF Placed
  <1>11. Awaited'
    <2>1. rest # <<>> => Fits(file, rest[1])
      BY <1>3, <1>6, InvParts DEF Awaited
    <2> QED
      BY <1>1, <1>2, <1>3, <2>1, InvParts, TwoWriters DEF Awaited, rest
  <1>12. Counted'
    BY <1>1, <1>2, InvParts, TwoWriters DEF Counted
  <1>13. Registered'
    <2>1. \A k \in DOMAIN rest : KnowsOf(mem.registry.turns, rest[k].note)
      BY <1>1, <1>5, InvParts DEF Registered
    <2>2. ASSUME NEW t \in Turns, Ended(mem.registry.turns, t)
          PROVE  \/ \E i \in DOMAIN file : Finishes(file[i].event.note, t)
                 \/ \E k \in DOMAIN rest : Finishes(rest[k].note, t)
      <3>1. CASE \E i \in DOMAIN file : Finishes(file[i].event.note, t)
        BY <3>1
      <3>2. CASE \E k \in DOMAIN todo : Finishes(todo[k].note, t)
        <4>1. PICK k \in DOMAIN todo : Finishes(todo[k].note, t)
          BY <3>2
        <4>2. CASE k = 1
          <5>1. Place(doing[Loop]) \in DOMAIN file /\ file[Place(doing[Loop])].event = todo[1]
            BY <1>3, <1>5, InvParts DEF Placed
          <5> QED
            BY <4>1, <4>2, <5>1
        <4>3. CASE k # 1
          BY <1>5, <4>1, <4>3
        <4> QED
          BY <4>2, <4>3
      <3> QED
        BY <1>1, <2>2, <3>1, <3>2, InvParts DEF Registered
    <2> QED
      BY <1>1, <1>2, <1>4, <2>1, <2>2, InvParts, TwoWriters DEF Registered, rest
  <1> QED
    BY <1>1, <1>4, <1>7, <1>8, <1>9, <1>10, <1>11, <1>12, <1>13, InvParts DEF IngestInv

LEMMA WorkerIndexedKeeps ==
    ASSUME Inv, WorkerIndexed
    PROVE  IngestInv'
  <1>1. /\ up /\ up' = up /\ conn' = conn /\ epoch' = epoch /\ queue' = queue /\ queued' = queued
        /\ Leave(Worker) /\ mem' = Remember(mem, doing[Worker].event) /\ todo' = todo
        /\ file' = file /\ doing[Worker].at = "returned" /\ doing' = [doing EXCEPT ![Worker] = Idle]
    BY DEF WorkerIndexed, Leave
  <1>2. doing'[Worker] = Idle /\ \A w \in Writers : w # Worker => doing'[w] = doing[w]
    BY <1>1, InvParts, TwoWriters
  <1>3. Idle.at = "idle" /\ ~Added(Idle)
    BY DEF Idle, Added
  <1>4. Indexed' /\ mem'.registry = mem.registry
    BY <1>1, IndexedNow
  <1>5. IngestTypes'
    BY <1>1, <1>4, InvParts DEF IngestTypes
  <1>6. InHand'
    BY <1>1, <1>2, <1>3, InvParts, TwoWriters DEF InHand
  <1>7. Placed'
    BY <1>1, <1>2, <1>3, InvParts, TwoWriters DEF Placed
  <1>8. Awaited'
    BY <1>1, <1>2, <1>3, InvParts, TwoWriters DEF Awaited
  <1>9. Counted'
    BY <1>1, <1>2, <1>3, InvParts, TwoWriters DEF Counted
  <1>10. Registered'
    BY <1>1, <1>2, <1>3, <1>4, InvParts, TwoWriters DEF Registered
  <1> QED
    BY <1>1, <1>4, <1>5, <1>6, <1>7, <1>8, <1>9, <1>10, InvParts DEF IngestInv

(*************************** crashes and restarts **************************)

LEMMA CrashKeeps ==
    ASSUME Inv, Crash
    PROVE  IngestInv'
  <1>1. /\ up' = FALSE /\ conn' = 0 /\ epoch' = 0 /\ mem' = NoMemory /\ todo' = <<>>
        /\ queue' = <<>> /\ queued' = {} /\ file' \in IF lock \in Writers THEN Cuts(lock) ELSE {file}
        /\ doing' = [w \in Writers |-> IF w \in Writers THEN Idle ELSE doing[w]]
    BY DEF Crash, Die
  <1>2. Idle.at = "idle" /\ ~Added(Idle) /\ \A w \in Writers : doing'[w] = Idle
    BY <1>1 DEF Idle, Added
  <1>3. NoMemory.registry \in Registries
    BY DEF NoMemory, NoRegistry, Registries, Statuses
  <1>4. IngestTypes'
    <2>1. up' \in BOOLEAN /\ conn' \in Nat /\ epoch' \in Nat /\ queued' \subseteq Controls
      BY <1>1
    <2>2. todo' \in Seq(Observations) /\ queue' \in Seq(Commands)
      <3>1. <<>> \in Seq(Observations) /\ <<>> \in Seq(Commands)
        OBVIOUS
      <3> QED
        BY <1>1, <3>1
    <2>3. mem'.registry \in Registries
      BY <1>1, <1>3
    <2> QED
      BY <2>1, <2>2, <2>3 DEF IngestTypes
  <1>5. InHand'
    BY <1>1, <1>2, TwoWriters DEF InHand
  <1>6. Placed'
    BY <1>2, TwoWriters DEF Placed
  <1>7. Awaited'
    BY <1>1, <1>2, TwoWriters DEF Awaited
  <1>8. Sound(file')
    <2>1. CASE file' = file
      BY <2>1, InvParts
    <2>2. CASE file' # file
      <3>1. PICK form \in {"torn", "bare"} : file' = Append(file, Piece(lock, form))
        BY <1>1, <2>2 DEF Cuts
      <3>2. lock \in Writers /\ doing[lock].at = "opened"
        BY <1>1, <2>2 DEF Cuts
      <3>3. Piece(lock, form) \in Writable /\ Piece(lock, form).event = doing[lock].event
        BY <3>2, PieceType DEF Forms, Inv, Writable, PieceOf
      <3>4. Fits(file, doing[lock].event)
        <4>1. lock \in {Loop, Worker}
          BY <3>2, InvParts DEF InHand
        <4>2. CASE lock = Loop
          <5>1. todo # <<>> /\ doing[Loop].event = todo[1] /\ ~Added(doing[Loop])
            BY <3>2, <4>2, InvParts DEF InHand, Added
          <5> QED
            BY <4>2, <5>1, InvParts DEF Awaited
        <4>3. CASE lock = Worker
          BY <3>2, <4>3, InvParts DEF Awaited
        <4> QED
          BY <4>1, <4>2, <4>3
      <3> QED
        BY <3>1, <3>3, <3>4, InvParts, AppendSound
    <2> QED
      BY <2>1, <2>2
  <1>9. Paired(todo')
    BY <1>1 DEF Paired
  <1>10. Indexed' /\ Counted' /\ Registered'
    BY <1>1 DEF Indexed, Counted, Registered
  <1> QED
    BY <1>4, <1>5, <1>6, <1>7, <1>8, <1>9, <1>10 DEF IngestInv

\* What a restart knows of the turns is what the journal says of them.
LEMMA RestoredFacts ==
    ASSUME NEW f \in Journal, Sound(f)
    PROVE  /\ Restored(f) \in Registries
           /\ \A i \in DOMAIN f : KnowsOf(Restored(f).turns, f[i].event.note)
           /\ \A t \in Turns : Ended(Restored(f).turns, t) =>
                 \E i \in DOMAIN f : Finishes(f[i].event.note, t)
           /\ \A t \in Turns : Restored(f).turns[t].status # "unknown" =>
                 \E i \in DOMAIN f : f[i].event.note.turn = t
  <1> DEFINE notes == {f[i].event.note : i \in DOMAIN f}
             At_(t) == {i \in DOMAIN f : f[i].event.note.kind = "turn_completed"
                                         /\ f[i].event.note.turn = t}
             Status(t) == CASE At_(t) # {} -> f[Max(At_(t))].event.note.outcome
                            [] \A n \in notes : n.turn # t -> "unknown"
                            [] OTHER -> "active"
             Begun(t) == \E n \in notes : n.turn = t /\ n.kind = "turn_started"
             turns == [t \in Turns |-> [status |-> Status(t), begun |-> Begun(t)]]
  <1>1. Restored(f) = [NoRegistry EXCEPT !.observed = (f # <<>>), !.turns = turns]
    BY DEF Restored
  <1>2. \A i \in DOMAIN f : /\ i \in Nat /\ f[i].event \in AllEvents
                            /\ f[i].event.note \in AllNotes
    BY RecordAt, EventsSplit DEF AllNotes
  <1>3. \A n \in AllNotes : n.kind = "turn_completed" =>
           n.turn \in Turns /\ n.outcome \in {"completed", "interrupted"}
    BY IngestionAssumption DEF AllNotes
  <1>4. ASSUME NEW t \in Turns, At_(t) # {}
        PROVE  /\ Max(At_(t)) \in At_(t) /\ \A i \in At_(t) : i <= Max(At_(t))
               /\ Status(t) = f[Max(At_(t))].event.note.outcome
               /\ Status(t) \in {"completed", "interrupted"}
    <2>1. IsFiniteSet(At_(t)) /\ At_(t) \in SUBSET Nat
      <3>1. IsFiniteSet(DOMAIN f) /\ At_(t) \subseteq DOMAIN f
        BY EventsFinite
      <3> QED
        BY <1>2, <3>1, FS_Subset
    <2>2. Max(At_(t)) \in At_(t) /\ \A i \in At_(t) : i <= Max(At_(t))
      <3> HIDE DEF At_
      <3> QED
        BY <1>4, <2>1, HighestMember
    <2>3. Status(t) = f[Max(At_(t))].event.note.outcome
      <3>1. ~(\A n \in notes : n.turn # t)
        BY <1>4
      <3> HIDE DEF At_, notes
      <3> QED
        BY <1>4, <3>1
    <2> QED
      BY <1>2, <1>3, <2>2, <2>3
  <1>5. ASSUME NEW t \in Turns, At_(t) = {}
        PROVE  Status(t) = IF \A n \in notes : n.turn # t THEN "unknown" ELSE "active"
    <2> HIDE DEF At_, notes
    <2> QED
      BY <1>5
  <1>6. \A t \in Turns : Status(t) \in Statuses
    <2> HIDE DEF Status, At_
    <2> QED
      BY <1>4, <1>5 DEF Statuses
  <1>7. turns \in [Turns -> [status : Statuses, begun : BOOLEAN]]
    <2>1. \A t \in Turns : Begun(t) \in BOOLEAN
      OBVIOUS
    <2> HIDE DEF Status, Begun
    <2> QED
      BY <1>6, <2>1
  <1>8. \A t \in Turns : turns[t].status = Status(t)
    <2> HIDE DEF Status, Begun
    <2> QED
      OBVIOUS
  <1> HIDE DEF turns
  <1>9. Restored(f) \in Registries /\ Restored(f).turns = turns
    <2>1. (f # <<>>) \in BOOLEAN
      OBVIOUS
    <2> DEFINE some == f # <<>>
    <2>2. Restored(f) = [NoRegistry EXCEPT !.observed = some, !.turns = turns] /\ some \in BOOLEAN
      BY <1>1
    <2> HIDE DEF some
    <2> QED
      BY <1>7, <2>2 DEF NoRegistry, Registries
  <1>10. ASSUME NEW i \in DOMAIN f PROVE KnowsOf(turns, f[i].event.note)
    <2> DEFINE n == f[i].event.note
    <2>1. n \in AllNotes /\ n \in notes
      BY <1>2
    <2>2. ASSUME n.turn \in Turns PROVE turns[n.turn].status # "unknown"
      <3>1. CASE At_(n.turn) # {}
        <4>1. Status(n.turn) \in {"completed", "interrupted"}
          BY <1>4, <2>2, <3>1
        <4> HIDE DEF Status, n
        <4> QED
          BY <1>8, <2>2, <4>1
      <3>2. CASE At_(n.turn) = {}
        <4>1. ~(\A m \in notes : m.turn # n.turn)
          BY <2>1
        <4>2. Status(n.turn) = "active"
          BY <1>5, <2>2, <3>2, <4>1
        <4> HIDE DEF Status, n
        <4> QED
          BY <1>8, <2>2, <4>2
      <3> QED
        BY <3>1, <3>2
    <2>3. ASSUME n.kind = "turn_completed" PROVE turns[n.turn].status = n.outcome
      <3>1. n.turn \in Turns /\ i \in At_(n.turn)
        BY <1>3, <2>1, <2>3
      <3> DEFINE j == Max(At_(n.turn))
      <3>2. j \in At_(n.turn) /\ i <= j /\ Status(n.turn) = f[j].event.note.outcome
        BY <1>4, <3>1
      <3>3. j \in DOMAIN f /\ f[j].event.note.kind = "turn_completed" /\ f[j].event.note.turn = n.turn
        BY <3>2
      <3> HIDE DEF j
      <3>4. f[j].event.note.outcome = n.outcome
        <4>1. CASE i = j
          BY <4>1
        <4>2. CASE i # j
          <5>1. i < j
            <6>1. i \in Nat /\ j \in Nat
              BY <1>2, <3>3
            <6>2. i <= j
              BY <3>2
            <6> QED
              BY <4>2, <6>1, <6>2
          <5>2. InLifeOrder(f[i].event, f[j].event)
            BY <3>3, <5>1 DEF Sound
          <5> QED
            BY <2>3, <3>3, <5>2 DEF InLifeOrder
        <4> QED
          BY <4>1, <4>2
      <3> HIDE DEF Status
      <3> QED
        BY <1>8, <3>1, <3>2, <3>4
    <2> QED
      BY <2>2, <2>3 DEF KnowsOf
  <1>11. ASSUME NEW t \in Turns, Ended(turns, t)
         PROVE  \E i \in DOMAIN f : Finishes(f[i].event.note, t)
    <2>1. Status(t) \in {"completed", "interrupted"}
      BY <1>8, <1>11 DEF Ended
    <2>2. At_(t) # {}
      <3> HIDE DEF Status, At_
      <3> QED
        BY <1>5, <2>1
    <2> QED
      BY <2>2 DEF Finishes
  <1>12. ASSUME NEW t \in Turns, turns[t].status # "unknown"
         PROVE  \E i \in DOMAIN f : f[i].event.note.turn = t
    <2>1. Status(t) # "unknown"
      <3> HIDE DEF Status
      <3> QED
        BY <1>8, <1>12
    <2>2. CASE At_(t) # {}
      BY <2>2
    <2>3. CASE At_(t) = {}
      <3>1. ~(\A n \in notes : n.turn # t)
        <4> HIDE DEF Status, At_, notes
        <4> QED
          BY <1>5, <2>1, <2>3
      <3> QED
        BY <3>1
    <2> QED
      BY <2>2, <2>3
  <1> QED
    BY <1>9, <1>10, <1>11, <1>12

LEMMA BootKeeps ==
    ASSUME Inv, Boot
    PROVE  IngestInv'
  <1>1. /\ ~up /\ up' = TRUE /\ file' = Kept(file) /\ mem' = Recovered(Kept(file))
        /\ epoch' = mem'.epoch /\ conn' = conn /\ todo' = todo /\ queue' = queue /\ doing' = doing
        /\ queued' = {c \in Controls : \E i \in DOMAIN file' : file'[i].event.note = c}
    BY DEF Boot
  <1>2. todo = <<>> /\ queue = <<>> /\ \A w \in Writers : doing[w].at = "idle"
    BY <1>1, InvParts DEF InHand
  <1>3. file' \in Journal /\ Sound(file') /\ Kept(file') = file'
    BY <1>1, InvParts, KeptRecords, KeptIsKept DEF Journal
  <1>4. \A w \in {Loop, Worker} : ~Added(doing[w])
    BY <1>2, TwoWriters DEF Added
  <1>5. Unindexed(doing') = {} /\ DOMAIN file' \ Unindexed(doing') = DOMAIN file'
    BY <1>1, <1>4 DEF Unindexed
  <1> DEFINE r == Restored(file')
  <1>6. r \in Registries /\ (\A i \in DOMAIN file' : KnowsOf(r.turns, file'[i].event.note))
        /\ \A t \in Turns : Ended(r.turns, t) => \E i \in DOMAIN file' : Finishes(file'[i].event.note, t)
    BY <1>3, RestoredFacts
  <1> HIDE DEF r
  <1>7. mem' = [Indexes(file', DOMAIN file') EXCEPT !.registry = r]
    BY <1>1 DEF Recovered, r
  <1>8. mem'.registry = r /\ mem'.epoch = Max(EpochsAt(file', DOMAIN file'))
    BY <1>7, IndexesUnfold
  <1>9. mem'.epoch \in Nat
    BY <1>3, <1>8, ClocksFinite, HighestMember
  <1>10. IngestTypes'
    BY <1>1, <1>6, <1>8, <1>9, InvParts DEF IngestTypes
  <1>11. InHand'
    BY <1>1, <1>2, <1>3, TwoWriters, InvParts DEF InHand
  <1>12. Placed'
    BY <1>1, <1>4 DEF Placed
  <1>13. Indexed'
    BY <1>5, <1>7, <1>8 DEF Indexed
  <1>14. Awaited'
    BY <1>1, <1>2, <1>4, TwoWriters DEF Awaited
  <1>15. Counted'
    BY <1>1, <1>2, TwoWriters DEF Counted
  <1>16. Registered'
    BY <1>1, <1>2, <1>6, <1>8, TwoWriters DEF Registered
  <1> QED
    BY <1>1, <1>3, <1>10, <1>11, <1>12, <1>13, <1>14, <1>15, <1>16, InvParts DEF IngestInv

LEMMA IngestKeeps ==
    ASSUME Inv, IngestNext
    PROVE  IngestInv'
  <1>1. CASE \E n \in Notifications : Contradicts(n) \/ Drop(n) \/ Refuse(n) \/ Accept(n)
    BY <1>1, NotificationsKeep
  <1>2. CASE LoopWrites \/ WorkerWrites
    BY <1>2, LoopWritesKeeps, WorkerWritesKeeps, CachesKeep DEF LoopWrites, WorkerWrites
  <1>3. CASE \E c \in Controls : Enqueue(c)
    BY <1>3, EnqueueKeeps
  <1>4. CASE LoopOpens \/ LoopIndexes \/ WorkerOpens \/ WorkerIndexed
    BY <1>4, LoopOpensKeeps, LoopIndexesKeeps, WorkerOpensKeeps, WorkerIndexedKeeps
  <1>5. CASE Connect \/ Disconnect \/ Crash \/ Boot
    BY <1>5, ConnectionsKeep, CrashKeeps, BootKeeps
  <1> QED
    BY <1>1, <1>2, <1>3, <1>4, <1>5 DEF IngestNext

\* A step of the ingestor is a step of its journal.
LEMMA IngestMovesJournal ==
    ASSUME Inv, IngestNext
    PROVE  JournalStep(AllEvents)
  <1>1. CASE \/ \E n \in Notifications : Contradicts(n) \/ Drop(n) \/ Refuse(n) \/ Accept(n)
             \/ \E c \in Controls : Enqueue(c)
             \/ Connect \/ Disconnect
    BY <1>1 DEF Contradicts, Drop, Refuse, Accept, Enqueue, Connect, Disconnect, JournalStep
  <1>2. CASE LoopOpens
    <2>1. PICK snap \in BOOLEAN : Open(Loop, Head(todo), snap)
      BY <1>2 DEF LoopOpens
    <2>2. Head(todo) \in AllEvents
      BY <1>2, InvParts, EventsSplit DEF LoopOpens, IngestTypes
    <2> QED
      BY <2>1, <2>2, TwoWriters DEF JournalStep
  <1>3. CASE WorkerOpens
    <2>1. Open(Worker, Head(queue), FALSE)
      BY <1>3 DEF WorkerOpens
    <2>2. Head(queue) \in AllEvents
      BY <1>3, InvParts, EventsSplit DEF WorkerOpens, IngestTypes
    <2> QED
      BY <2>1, <2>2, TwoWriters DEF JournalStep
  <1>4. CASE LoopWrites \/ WorkerWrites \/ LoopIndexes \/ WorkerIndexed
    BY <1>4, TwoWriters DEF LoopWrites, WorkerWrites, LoopIndexes, WorkerIndexed, JournalStep
  <1>5. CASE Crash
    <2>1. Die(Writers)
      BY <1>5 DEF Crash
    <2> QED
      BY <2>1 DEF JournalStep
  <1>6. CASE Boot
    <2>1. \A w \in Writers : doing[w].at = "idle"
      BY <1>6, InvParts DEF Boot, InHand
    <2>2. Repair
      BY <1>6, <2>1 DEF Boot, Repair
    <2> QED
      BY <2>2 DEF JournalStep
  <1> QED
    BY <1>1, <1>2, <1>3, <1>4, <1>5, <1>6 DEF IngestNext

LEMMA IngestStarts ==
    ASSUME Init
    PROVE  Inv
  <1>1. JournalInv(AllEvents)
    BY JournalStarts DEF Init
  <1>2. /\ up = TRUE /\ conn = 0 /\ epoch = 0 /\ mem = NoMemory /\ todo = <<>> /\ queue = <<>>
        /\ queued = {} /\ file = <<>> /\ doing = [w \in Writers |-> Idle]
    BY DEF Init, IngestInit, JournalInit
  <1>3. Idle.at = "idle" /\ ~Added(Idle) /\ (\A w \in Writers : doing[w] = Idle) /\ DOMAIN file = {}
    BY <1>2 DEF Idle, Added
  <1>4. mem.registry = NoRegistry /\ NoRegistry \in Registries
    BY <1>2 DEF NoMemory, NoRegistry, Registries, Statuses
  <1>5. IngestTypes
    BY <1>2, <1>4 DEF IngestTypes
  <1>6. InHand
    <2>1. Kept(file) = file
      <3>1. file \in Seq(Pieces(AllEvents))
        BY <1>1 DEF JournalInv, JournalTypes
      <3> QED
        BY <1>2, <3>1, WholeTailKept
    <2> QED
      BY <1>2, <1>3, <2>1, TwoWriters DEF InHand
  <1>7. Paired(todo) /\ Placed /\ Sound(file) /\ Awaited /\ Counted
    BY <1>2, <1>3, TwoWriters DEF Paired, Placed, Sound, Awaited, Counted
  <1>8. Indexed
    <2>1. Unindexed(doing) = {}
      BY <1>3, TwoWriters DEF Unindexed
    <2>2. [Indexes(<<>>, {}) EXCEPT !.registry = NoRegistry] = Indexes(<<>>, {})
      BY IndexesUnfold
    <2> QED
      BY <1>2, <1>3, <1>4, <2>1, <2>2, NothingIndexed DEF Indexed
  <1>9. Registered
    BY <1>2, <1>3, <1>4, TwoWriters DEF Registered, NoRegistry, Ended
  <1> QED
    BY <1>1, <1>5, <1>6, <1>7, <1>8, <1>9 DEF Inv, IngestInv

LEMMA IngestSteps ==
    ASSUME Inv, [IngestNext]_vars
    PROVE  Inv'
  <1>1. CASE IngestNext
    <2>1. IngestInv'
      BY <1>1, IngestKeeps
    <2>2. JournalInv(AllEvents)'
      BY <1>1, IngestMovesJournal, JournalKeeps DEF Inv
    <2> QED
      BY <2>1, <2>2 DEF Inv
  <1>2. CASE UNCHANGED vars
    <2>1. UNCHANGED <<file, sidecar, lock, doing, acked, crashes, up, conn, epoch, mem, todo,
                      queue, queued, refused>>
      BY <1>2 DEF vars, journalVars, ingestVars
    <2>2. JournalInv(AllEvents)'
      BY <2>1 DEF Inv, JournalInv, JournalTypes, OneWriter
    <2>3. IngestTypes' /\ InHand' /\ Paired(todo') /\ Placed' /\ Sound(file')
      BY <2>1, InvParts DEF IngestTypes, InHand, Placed
    <2>4. Indexed' /\ Awaited' /\ Counted' /\ Registered'
      BY <2>1, InvParts DEF Indexed, Awaited, Counted, Registered
    <2> QED
      BY <2>2, <2>3, <2>4 DEF Inv, IngestInv
  <1> QED
    BY <1>1, <1>2

\* The indexes that a restart would build, when nothing is being appended.
LEMMA QuietShows ==
    ASSUME Inv
    PROVE  IndexesFollowJournal
  <1> SUFFICES ASSUME Quiet PROVE
         LET m == Recovered(Kept(file))
         IN  /\ [mem EXCEPT !.registry = NoRegistry] = [m EXCEPT !.registry = NoRegistry]
             /\ \A t \in Turns : m.registry.turns[t].status
                                 \in {"unknown", mem.registry.turns[t].status}
    BY DEF IndexesFollowJournal
  <1>1. /\ up /\ todo = <<>> /\ Kept(file) = file
        /\ \A w \in {Loop, Worker} : ~Added(doing[w])
    BY InvParts, TwoWriters DEF Quiet, InHand, Added
  <1>2. Unindexed(doing) = {} /\ DOMAIN file \ Unindexed(doing) = DOMAIN file
    BY <1>1 DEF Unindexed
  <1> DEFINE r == Restored(file)
             x == Indexes(file, DOMAIN file)
  <1>3. mem = [x EXCEPT !.registry = mem.registry]
    BY <1>1, <1>2, InvParts DEF Indexed
  <1>4. Recovered(Kept(file)) = [x EXCEPT !.registry = r]
    BY <1>1 DEF Recovered
  <1>5. "registry" \in DOMAIN x /\ x = [f \in DOMAIN x |-> x[f]]
    BY DEF Indexes
  <1>6. /\ r \in Registries /\ \A i \in DOMAIN file : KnowsOf(r.turns, file[i].event.note)
        /\ \A t \in Turns : Ended(r.turns, t) => \E i \in DOMAIN file : Finishes(file[i].event.note, t)
        /\ \A t \in Turns : r.turns[t].status # "unknown" =>
              \E i \in DOMAIN file : file[i].event.note.turn = t
    BY InvParts, RestoredFacts
  <1>7. ASSUME NEW t \in Turns
        PROVE  r.turns[t].status \in {"unknown", mem.registry.turns[t].status}
    <2>1. r.turns[t].status \in Statuses /\ mem.registry.turns[t].status \in Statuses
      BY <1>6, InvParts DEF IngestTypes, Registries
    <2>2. CASE \E i \in DOMAIN file : Finishes(file[i].event.note, t)
      <3>1. PICK i \in DOMAIN file : Finishes(file[i].event.note, t)
        BY <2>2
      <3>2. r.turns[t].status = file[i].event.note.outcome
        BY <1>6, <3>1 DEF KnowsOf, Finishes
      <3>3. mem.registry.turns[t].status = file[i].event.note.outcome
        BY <1>1, <3>1, InvParts DEF Registered, KnowsOf, Finishes
      <3> QED
        BY <3>2, <3>3
    <2>3. CASE ~\E i \in DOMAIN file : Finishes(file[i].event.note, t)
      <3>1. ~Ended(r.turns, t) /\ ~Ended(mem.registry.turns, t)
        BY <1>1, <1>6, <2>3, InvParts DEF Registered
      <3>2. r.turns[t].status # "unknown" => mem.registry.turns[t].status # "unknown"
        BY <1>1, <1>6, InvParts DEF Registered, KnowsOf
      <3> QED
        BY <2>1, <3>1, <3>2 DEF Ended, Statuses
    <2> QED
      BY <2>2, <2>3
  <1> HIDE DEF r, x
  <1>8. [mem EXCEPT !.registry = NoRegistry] = [x EXCEPT !.registry = NoRegistry]
    BY <1>3, <1>5, Zenon
  <1>9. [[x EXCEPT !.registry = r] EXCEPT !.registry = NoRegistry] = [x EXCEPT !.registry = NoRegistry]
        /\ [x EXCEPT !.registry = r].registry = r
    BY <1>5
  <1> QED
    BY <1>4, <1>7, <1>8, <1>9

LEMMA SoundShows ==
    ASSUME Inv
    PROVE  JournaledOnce /\ LifecycleInOrder
  <1>1. /\ Sound(file) /\ DOMAIN file = 1 .. Len(file) /\ Len(file) \in Nat
        /\ \A i \in DOMAIN file : file[i].event \in AllEvents
    BY InvParts, RecordAt DEF Journal
  <1>2. \A i, j \in DOMAIN file : i # j => i < j \/ j < i
    BY <1>1
  <1>3. ASSUME NEW i \in DOMAIN file, NEW j \in DOMAIN file, i < j
        PROVE  Distinct(file[i].event, file[j].event) /\ InLifeOrder(file[i].event, file[j].event)
    BY <1>1, <1>3 DEF Sound
  <1>4. JournaledOnce
    BY <1>2, <1>3 DEF JournaledOnce, Distinct
  <1>5. LifecycleInOrder
    <2>1. ASSUME NEW i \in DOMAIN file, NEW j \in DOMAIN file, i < j
          PROVE  LET e == file[i].event
                     g == file[j].event
                 IN  /\ e.note.kind = "turn_completed" /\ g.note.kind = "turn_started"
                        => e.note.turn # g.note.turn
                     /\ ~e.effect /\ ~g.effect /\ e.note.op # NoOp /\ OpKey(e) = OpKey(g)
                        => e.note.life = "started" /\ g.note.life = "completed"
      <3> DEFINE e == file[i].event
                 g == file[j].event
      <3>1. InLifeOrder(e, g)
        BY <1>3, <2>1
      <3>2. OpKey(e) = OpKey(g) => g.note.op = e.note.op
        BY DEF OpKey
      <3> HIDE DEF e, g
      <3>3. /\ e.note.kind = "turn_completed" /\ g.note.kind = "turn_started"
               => e.note.turn # g.note.turn
            /\ ~e.effect /\ ~g.effect /\ e.note.op # NoOp /\ OpKey(e) = OpKey(g)
               => e.note.life = "started" /\ g.note.life = "completed"
        BY <3>1, <3>2 DEF InLifeOrder
      <3> QED
        BY <3>3 DEF e, g
    <2> QED
      BY <2>1 DEF LifecycleInOrder
  <1> QED
    BY <1>4, <1>5

-----------------------------------------------------------------------------
\* The journal by itself: whatever events are appended to it, in whatever order writers open it,
\* write, cache, die and repair it, a sidecar that passes the size check describes the file and
\* a record that record() returned is in it.
THEOREM JournalIsTold ==
    ASSUME NEW E
    PROVE  JournalInit /\ [][JournalStep(E)]_journalVars => [](SidecarTruthful /\ AcknowledgedKept)
  <1>1. JournalInit => JournalInv(E)
    BY JournalStarts
  <1>2. JournalInv(E) /\ [JournalStep(E)]_journalVars => JournalInv(E)'
    <2>1. ASSUME JournalInv(E), UNCHANGED journalVars PROVE JournalInv(E)'
      BY <2>1 DEF journalVars, JournalInv, JournalTypes, OneWriter
    <2> QED
      BY <2>1, JournalKeeps
  <1>3. JournalInv(E) => SidecarTruthful /\ AcknowledgedKept
    BY JournalShows
  <1> QED
    BY <1>1, <1>2, <1>3, PTL

LEMMA IngestIsSound == Spec => []Inv
  <1>1. Init => Inv
    BY IngestStarts
  <1>2. Inv /\ [IngestNext]_vars => Inv'
    BY IngestSteps
  <1> QED
    BY <1>1, <1>2, PTL DEF Spec

\* Of the daemon's event loop and worker: a sidecar that passes the size check describes the
\* journal as it is (_load_state_cache()).
THEOREM SidecarIsTrue == Spec => []SidecarTruthful
  <1>1. Inv => SidecarTruthful
    BY JournalShows DEF Inv
  <1> QED
    BY <1>1, IngestIsSound, PTL

\* Neither the repair of a restart nor a crash takes away a record that record() returned.
THEOREM ReturnedIsKept == Spec => []AcknowledgedKept
  <1>1. Inv => AcknowledgedKept
    BY JournalShows DEF Inv
  <1> QED
    BY <1>1, IngestIsSound, PTL

\* No two records carry one event id, whatever the App Server sends again, across connections
\* and restarts (record()).
THEOREM WrittenOnce == Spec => []JournaledOnce
  <1>1. Inv => JournaledOnce
    BY SoundShows
  <1> QED
    BY <1>1, IngestIsSound, PTL

\* The journal tells the life of a turn and of an operation in its order (record()).
THEOREM LivesInOrder == Spec => []LifecycleInOrder
  <1>1. Inv => LifecycleInOrder
    BY SoundShows
  <1> QED
    BY <1>1, IngestIsSound, PTL

\* The indexes that record() decides by are those that _recover() would build from the journal,
\* whenever nothing is being appended.
THEOREM RestartKnowsTheSame == Spec => []IndexesFollowJournal
  <1>1. Inv => IndexesFollowJournal
    BY QuietShows
  <1> QED
    BY <1>1, IngestIsSound, PTL

-----------------------------------------------------------------------------
(***************************************************************************)
(* EffectLedger.  A pass over the records of a journal is a recursive      *)
(* function: that it obeys its equation, and that what each record keeps   *)
(* holds of what it comes to, is an induction on the number of records.    *)
(***************************************************************************)

\* run[m] is what a pass has after m records.
Passes(run, kind, entries, records, n) ==
    run = [m \in 0..n |-> IF m = 0 THEN entries ELSE Applied(kind, run[m - 1], records[m])]

\* A journal of any length can be passed over.
LEMMA PassExists ==
    ASSUME NEW kind, NEW entries, NEW records, NEW n \in Nat
    PROVE  \E run : Passes(run, kind, entries, records, n)
  <1> DEFINE Bad == {k \in Nat : ~\E run : Passes(run, kind, entries, records, k)}
  <1>1. ASSUME Bad # {} PROVE FALSE
    <2>1. PICK k \in Bad : \A m \in Bad : k <= m
      BY <1>1, LeastMember
    <2>2. CASE k = 0
      <3>1. Passes([m \in 0..0 |-> entries], kind, entries, records, 0)
        BY DEF Passes
      <3> QED
        BY <2>2, <3>1
    <2>3. CASE k # 0
      <3>1. k \in Nat /\ k - 1 \in Nat /\ k - 1 \notin Bad
        BY <2>1, <2>3
      <3>2. PICK run : Passes(run, kind, entries, records, k - 1)
        BY <3>1
      <3>3. PICK more : more = [m \in 0..k |-> IF m = k THEN Applied(kind, run[k - 1], records[k])
                                               ELSE run[m]]
        OBVIOUS
      <3>4. DOMAIN run = 0..(k - 1) /\ run[0] = entries
            /\ \A m \in 1..(k - 1) : run[m] = Applied(kind, run[m - 1], records[m])
        BY <3>1, <3>2 DEF Passes
      <3>5. ASSUME NEW m \in 0..k
            PROVE  more[m] = IF m = 0 THEN entries ELSE Applied(kind, more[m - 1], records[m])
        <4>1. CASE m = 0
          BY <3>1, <3>3, <3>4, <4>1
        <4>2. CASE m = k
          <5>1. more[m - 1] = run[k - 1] /\ more[m] = Applied(kind, run[k - 1], records[k])
            BY <3>1, <3>3, <4>2
          <5> QED
            BY <2>3, <4>2, <5>1
        <4>3. CASE m # 0 /\ m # k
          <5>1. m \in 1..(k - 1) /\ more[m] = run[m] /\ more[m - 1] = run[m - 1]
            BY <3>1, <3>3, <4>3
          <5> QED
            BY <3>4, <4>3, <5>1
        <4> QED
          BY <4>1, <4>2, <4>3
      <3>6. Passes(more, kind, entries, records, k)
        BY <3>3, <3>5 DEF Passes
      <3> QED
        BY <3>6
    <2> QED
      BY <2>2, <2>3
  <1> QED
    BY <1>1

\* What a pass comes to is the last step of such a run.
LEMMA PassRuns ==
    ASSUME NEW kind, NEW entries, NEW records, NEW n \in Nat, Len(records) = n
    PROVE  \E run : Passes(run, kind, entries, records, n)
                    /\ Pass(kind, entries, records) = run[n]
  <1>1. PICK run : Passes(run, kind, entries, records, n)
    BY PassExists
  <1> QED
    BY <1>1 DEF Pass, Passes

-----------------------------------------------------------------------------
(***************************************************************************)
(* EffectLedger, one entry: outs are the outcomes of the results among n   *)
(* observations of its operation.                                          *)
(***************************************************************************)

Several(S) == \E x, y \in S : x # y

Evidence == {"operation_started", "partial_result", "explicit_failure", "explicit_success",
             "exit_zero_only", "no_conclusive_result", "conflicting_observations"}
Entries ==
    [id : Ids \cup {NoEffect}, exact : BOOLEAN, evidence : Evidence, outcome : Outcomes,
     lifecycle : {"completed", "attempted"}, observed : SUBSET Outcomes, count : Nat,
     resolution : Resolutions \cup {NoEffect}, resolved : BOOLEAN,
     history : Seq(Decisions)]

Tallies(entry, outs, n) ==
    /\ entry.count = n
    /\ Terminal(entry) <=> outs # {}
    /\ entry.lifecycle = "completed" <=> outs # {}
    /\ outs = {} => entry.outcome = "unknown" /\ entry.observed = {}
    /\ \A x \in outs : outs = {x} => entry.outcome = x /\ entry.observed = {}
    /\ Several(outs) => /\ entry.outcome = "unknown" /\ Several(entry.observed)
                        /\ entry.observed \subseteq outs
                        /\ outs \ {"unknown"} \subseteq entry.observed

\* More than one outcome is what the code counts.
LEMMA CountsSeveral ==
    ASSUME NEW S \in SUBSET Outcomes
    PROVE  /\ IsFiniteSet(S)
           /\ Cardinality(S) > 1 <=> Several(S)
           /\ Cardinality(S) = 1 <=> S # {} /\ ~Several(S)
  <1>1. IsFiniteSet(Outcomes)
    <2>1. IsFiniteSet({"succeeded"})
      BY FS_Singleton
    <2>2. IsFiniteSet({"succeeded"} \cup {"failed"})
      BY <2>1, FS_AddElement
    <2>3. IsFiniteSet({"succeeded"} \cup {"failed"} \cup {"partial"})
      BY <2>2, FS_AddElement
    <2>4. IsFiniteSet({"succeeded"} \cup {"failed"} \cup {"partial"} \cup {"unknown"})
      BY <2>3, FS_AddElement
    <2>5. Outcomes = {"succeeded"} \cup {"failed"} \cup {"partial"} \cup {"unknown"}
      BY DEF Outcomes
    <2> QED
      BY <2>4, <2>5
  <1>2. IsFiniteSet(S) /\ Cardinality(S) \in Nat
    BY <1>1, FS_Subset, FS_CardinalityType
  <1>3. CASE S = {}
    BY <1>2, <1>3, FS_EmptySet DEF Several
  <1>4. CASE S # {}
    <2>1. PICK x \in S : TRUE
      BY <1>4
    <2>2. IsFiniteSet(S \ {x}) /\ Cardinality(S \ {x}) = Cardinality(S) - 1
          /\ Cardinality(S \ {x}) \in Nat
      BY <1>2, <2>1, FS_RemoveElement, FS_CardinalityType
    <2>3. Cardinality(S \ {x}) = 0 <=> S \ {x} = {}
      BY <2>2, FS_EmptySet
    <2>4. Several(S) <=> S \ {x} # {}
      BY <2>1 DEF Several
    <2> QED
      BY <1>2, <1>4, <2>2, <2>3, <2>4
  <1> QED
    BY <1>3, <1>4

\* What an observation is.
IsObservation(o) ==
    /\ o.kind = "external_effect" /\ o.id \in Ids \cup {NoEffect}
    /\ o.exact \in BOOLEAN /\ (o.exact <=> o.id # NoEffect)
    /\ o.evidence \in Evidence /\ o.outcome \in Outcomes
    /\ ~Terminal(o) => o.outcome = "unknown"

\* effect_event() makes observations.
LEMMA ObservationIs == ASSUME NEW o \in Observables PROVE IsObservation(o)
  <1>1. ASSUME NEW id \in Ids \cup {NoEffect}, NEW evidence \in Evidence, NEW outcome \in Outcomes,
               evidence = "operation_started" => outcome = "unknown",
               o = Observation(id, evidence, outcome)
        PROVE  IsObservation(o)
    <2>1. /\ o.kind = "external_effect" /\ o.id = id
          /\ o.evidence = evidence /\ o.outcome = outcome
      BY <1>1 DEF Observation
    <2>2. o.exact \in BOOLEAN /\ (o.exact <=> id # NoEffect)
      BY <1>1, Zenon DEF Observation
    <2> QED
      BY <1>1, <2>1, <2>2 DEF IsObservation, Terminal
  <1>2. ASSUME NEW id \in Ids \cup {NoEffect}, o = Attempted(id) PROVE IsObservation(o)
    BY <1>1, <1>2 DEF Attempted, Evidence, Outcomes
  <1>3. ASSUME NEW id \in Ids \cup {NoEffect}, NEW seen \in Findings, o = Result(id, seen)
        PROVE  IsObservation(o)
    <2>1. CASE seen = "partial"
      <3>1. o = Observation(id, "partial_result", "partial")
        BY <1>3, <2>1 DEF Result
      <3>2. "partial_result" \in Evidence /\ "partial" \in Outcomes
        BY DEF Evidence, Outcomes
      <3> QED
        BY <1>1, <3>1, <3>2
    <2>2. CASE seen = "failure"
      <3>1. o = Observation(id, "explicit_failure", "failed")
        BY <1>3, <2>2 DEF Result
      <3>2. "explicit_failure" \in Evidence /\ "failed" \in Outcomes
        BY DEF Evidence, Outcomes
      <3> QED
        BY <1>1, <3>1, <3>2
    <2>3. CASE seen = "success"
      <3>1. o = Observation(id, "explicit_success", "succeeded")
        BY <1>3, <2>3 DEF Result
      <3>2. "explicit_success" \in Evidence /\ "succeeded" \in Outcomes
        BY DEF Evidence, Outcomes
      <3> QED
        BY <1>1, <3>1, <3>2
    <2>4. CASE seen = "exit_zero"
      <3>1. o = Observation(id, "exit_zero_only", "unknown")
        BY <1>3, <2>4 DEF Result
      <3>2. "exit_zero_only" \in Evidence /\ "unknown" \in Outcomes
        BY DEF Evidence, Outcomes
      <3> QED
        BY <1>1, <3>1, <3>2
    <2>5. CASE seen = "nothing"
      <3>1. o = Observation(id, "no_conclusive_result", "unknown")
        BY <1>3, <2>5 DEF Result
      <3>2. "no_conclusive_result" \in Evidence /\ "unknown" \in Outcomes
        BY DEF Evidence, Outcomes
      <3> QED
        BY <1>1, <3>1, <3>2
    <2> QED
      BY <2>1, <2>2, <2>3, <2>4, <2>5 DEF Findings
  <1>4. \/ \E id \in Ids \cup {NoEffect} : o = Attempted(id)
        \/ \E id \in Ids \cup {NoEffect},
              seen \in Findings :
              o = Result(id, seen)
    BY DEF Observables
  <1> QED
    BY <1>2, <1>3, <1>4

\* The outcomes with those of one observation more.
With(outs, o) == IF Terminal(o) THEN outs \cup {o.outcome} ELSE outs

\* The first observation makes an entry.
LEMMA EntryTallies ==
    ASSUME NEW o, IsObservation(o)
    PROVE  Entry(o) \in Entries /\ Tallies(Entry(o), With({}, o), 1)
  <1>1. Entry(o) \in Entries
    BY DEF IsObservation, Entry, Entries
  <1>2. PICK q, outs : q = Entry(o) /\ outs = With({}, o)
    OBVIOUS
  <1>3. /\ q.count = 1 /\ q.outcome = o.outcome /\ q.observed = {}
        /\ q.lifecycle = (IF Terminal(o) THEN "completed" ELSE "attempted")
        /\ Terminal(q) <=> Terminal(o)
    BY <1>2 DEF Entry, Terminal
  <1>4. CASE Terminal(o)
    <2>1. outs = {o.outcome}
      BY <1>2, <1>4 DEF With
    <2> QED
      BY <1>1, <1>2, <1>3, <1>4, <2>1 DEF Tallies, Several
  <1>5. CASE ~Terminal(o)
    <2>1. outs = {} /\ o.outcome = "unknown"
      BY <1>2, <1>5 DEF With, IsObservation
    <2> QED
      BY <1>1, <1>2, <1>3, <1>5, <2>1 DEF Tallies, Several
  <1> QED
    BY <1>4, <1>5

\* What was seen, by the attempts and results merged so far.
LEMMA SeenIs ==
    ASSUME NEW p \in Entries, NEW outs, NEW n, Tallies(p, outs, n), NEW o, IsObservation(o)
    PROVE  /\ Seen(p, o) \in SUBSET Outcomes
           /\ outs = {} => Seen(p, o) = With({}, o) \ {"unknown"} \/ Seen(p, o) = With({}, o)
           /\ \A x \in outs : outs = {x} /\ Terminal(o) => Seen(p, o) = {x, o.outcome}
           /\ \A x \in outs : outs = {x} /\ ~Terminal(o) => Seen(p, o) \subseteq {x}
           /\ Several(outs) /\ Terminal(o) => Seen(p, o) = p.observed \cup {o.outcome}
           /\ Several(outs) /\ ~Terminal(o) => Seen(p, o) = p.observed \ {"unknown"}
  <1>1. p.observed \in SUBSET Outcomes /\ p.outcome \in Outcomes /\ o.outcome \in Outcomes
    BY DEF Entries, IsObservation
  <1>2. CASE outs = {}
    <2>1. ~Terminal(p) /\ p.outcome = "unknown" /\ Observed(p) = {"unknown"}
      BY <1>2 DEF Tallies, Observed
    <2> QED
      BY <1>1, <1>2, <2>1 DEF Seen, With, IsObservation, Several
  <1>3. ASSUME NEW x \in outs, outs = {x}
        PROVE  /\ Seen(p, o) \in SUBSET Outcomes
               /\ Terminal(o) => Seen(p, o) = {x, o.outcome}
               /\ ~Terminal(o) => Seen(p, o) \subseteq {x}
    <2>1. Terminal(p) /\ p.outcome = x /\ Observed(p) = {x}
      BY <1>3 DEF Tallies, Observed
    <2> QED
      BY <1>1, <2>1 DEF Seen, IsObservation
  <1>4. CASE Several(outs)
    <2>1. Terminal(p) /\ Observed(p) = p.observed
      BY <1>4 DEF Tallies, Observed, Several
    <2> QED
      BY <1>1, <1>4, <2>1 DEF Seen, IsObservation, Several
  <1>5. outs = {} \/ (\E x \in outs : outs = {x}) \/ Several(outs)
    BY DEF Several
  <1>6. \A x \in outs : outs = {x} => ~Several(outs)
    BY DEF Several
  <1> QED
    BY <1>2, <1>3, <1>4, <1>5, <1>6

\* An entry tells of one observation more when it is merged into it.
LEMMA MergedTallies ==
    ASSUME NEW p \in Entries, NEW outs, NEW n \in Nat, Tallies(p, outs, n),
           NEW o, IsObservation(o)
    PROVE  /\ Merged(p, o) \in Entries
           /\ Tallies(Merged(p, o), With(outs, o), n + 1)
           /\ Merged(p, o).id = p.id /\ Merged(p, o).exact = p.exact
           /\ Merged(p, o).resolved = p.resolved
  <1> DEFINE kept == Terminal(p) /\ ~Terminal(o)
  <1>1. PICK seen : seen = Seen(p, o)
    OBVIOUS
  <1>2. seen \in SUBSET Outcomes /\ (Cardinality(seen) > 1 <=> Several(seen))
    BY <1>1, SeenIs, CountsSeveral
  <1>0. PICK evidence, outcome, lifecycle :
            /\ evidence = (IF kept THEN p.evidence ELSE o.evidence)
            /\ outcome = (IF kept THEN p.outcome ELSE o.outcome)
            /\ lifecycle = (IF Terminal(p) \/ Terminal(o) THEN "completed" ELSE "attempted")
    OBVIOUS
  <1>3. PICK base : base = [p EXCEPT !.evidence = evidence, !.outcome = outcome,
                                     !.count = p.count + 1, !.lifecycle = lifecycle]
    OBVIOUS
  <1>4. PICK q : q = Merged(p, o)
    OBVIOUS
  <1>5. q = IF Several(seen)
            THEN [base EXCEPT !.evidence = "conflicting_observations", !.outcome = "unknown",
                              !.observed = seen]
            ELSE base
    BY <1>0, <1>1, <1>2, <1>3, <1>4 DEF Merged
  <1>6. /\ base \in Entries /\ base.count = n + 1 /\ base.observed = p.observed
        /\ base.evidence = (IF kept THEN p.evidence ELSE o.evidence)
        /\ base.outcome = (IF kept THEN p.outcome ELSE o.outcome)
        /\ base.lifecycle = (IF Terminal(p) \/ Terminal(o) THEN "completed" ELSE "attempted")
        /\ base.id = p.id /\ base.exact = p.exact /\ base.resolved = p.resolved
    <2>1. evidence \in Evidence /\ outcome \in Outcomes /\ lifecycle \in {"completed", "attempted"}
      BY <1>0 DEF Entries, IsObservation
    <2>2. p.count = n /\ p.count + 1 \in Nat
      BY DEF Tallies
    <2>3. base \in Entries
      BY <1>3, <2>1, <2>2 DEF Entries
    <2>4. /\ base.evidence = evidence /\ base.outcome = outcome /\ base.lifecycle = lifecycle
          /\ base.count = p.count + 1 /\ base.observed = p.observed
          /\ base.id = p.id /\ base.exact = p.exact /\ base.resolved = p.resolved
      BY <1>3 DEF Entries
    <2> QED
      BY <1>0, <2>2, <2>3, <2>4
  <1>7. /\ q \in Entries /\ q.count = n + 1 /\ q.lifecycle = base.lifecycle
        /\ q.id = p.id /\ q.exact = p.exact /\ q.resolved = p.resolved
        /\ Several(seen) => /\ q.evidence = "conflicting_observations" /\ q.outcome = "unknown"
                            /\ q.observed = seen
        /\ ~Several(seen) => q = base
    BY <1>2, <1>5, <1>6 DEF Entries, Evidence, Outcomes
  <1>8. PICK more : more = With(outs, o)
    OBVIOUS
  <1>9. Tallies(q, more, n + 1)
    <2>1. CASE outs = {}
      <3>1. ~Several(seen) /\ ~kept /\ p.observed = {}
        <4>1. seen = With({}, o) \ {"unknown"} \/ seen = With({}, o)
          BY <1>1, <2>1, SeenIs
        <4>2. With({}, o) \subseteq {o.outcome}
          BY DEF With
        <4>3. ~Terminal(p) /\ p.observed = {}
          BY <2>1 DEF Tallies
        <4> QED
          BY <4>1, <4>2, <4>3 DEF Several
      <3> QED
        BY <1>6, <1>7, <1>8, <2>1, <3>1 DEF Tallies, With, Several, Terminal, IsObservation
    <2>2. ASSUME NEW x \in outs, outs = {x} PROVE Tallies(q, more, n + 1)
      <3>1. Terminal(p) /\ p.outcome = x /\ p.observed = {} /\ p.lifecycle = "completed"
        BY <2>2 DEF Tallies
      <3>2. CASE Terminal(o) /\ o.outcome = x
        <4>1. ~Several(seen) /\ more = outs
          BY <1>1, <1>8, <2>2, <3>2, SeenIs DEF Several, With
        <4> QED
          BY <1>6, <1>7, <2>2, <3>1, <3>2, <4>1 DEF Tallies, Several, Terminal
      <3>3. CASE Terminal(o) /\ o.outcome # x
        <4>1. seen = {x, o.outcome} /\ more = {x, o.outcome} /\ Several(seen)
          BY <1>1, <1>8, <2>2, <3>3, SeenIs DEF Several, With
        <4>2. /\ q.evidence = "conflicting_observations" /\ q.outcome = "unknown"
              /\ q.observed = more /\ q.lifecycle = "completed" /\ q.count = n + 1
          BY <1>6, <1>7, <3>1, <4>1
        <4>3. Several(more) /\ more # {} /\ \A z \in more : more # {z}
          BY <3>3, <4>1 DEF Several
        <4> QED
          BY <4>2, <4>3 DEF Tallies, Terminal
      <3>4. CASE ~Terminal(o)
        <4>1. ~Several(seen) /\ more = outs /\ kept
          BY <1>1, <1>8, <2>2, <3>1, <3>4, SeenIs DEF Several, With
        <4> QED
          BY <1>6, <1>7, <2>2, <3>1, <4>1 DEF Tallies, Several, Terminal
      <3> QED
        BY <3>2, <3>3, <3>4
    <2>3. CASE Several(outs)
      <3>1. /\ Terminal(p) /\ p.outcome = "unknown" /\ p.lifecycle = "completed"
            /\ Several(p.observed) /\ p.observed \subseteq outs
            /\ outs \ {"unknown"} \subseteq p.observed
        BY <2>3 DEF Tallies, Several
      <3>2. Several(more)
        BY <1>8, <2>3 DEF Several, With
      <3>3. CASE Terminal(o)
        <4>1. seen = p.observed \cup {o.outcome} /\ more = outs \cup {o.outcome} /\ Several(seen)
          BY <1>1, <1>8, <2>3, <3>1, <3>3, SeenIs DEF Several, With
        <4> QED
          BY <1>6, <1>7, <3>1, <3>2, <4>1 DEF Tallies, Several, Terminal
      <3>4. CASE ~Terminal(o)
        <4>1. seen = p.observed \ {"unknown"} /\ more = outs /\ kept
          BY <1>1, <1>8, <2>3, <3>1, <3>4, SeenIs DEF With
        <4> QED
          BY <1>6, <1>7, <3>1, <3>2, <4>1 DEF Tallies, Several, Terminal
      <3> QED
        BY <3>3, <3>4
    <2> QED
      BY <2>1, <2>2, <2>3 DEF Several
  <1> QED
    BY <1>4, <1>7, <1>8, <1>9

-----------------------------------------------------------------------------
(***************************************************************************)
(* EffectLedger, the entries: what they tell of the first n records.       *)
(***************************************************************************)

IsDecision(r) ==
    /\ r \in Decisions
    /\ r.kind = "effect_resolution" /\ r.id \in Ids /\ r.value \in Resolutions
    /\ r.related \in Ids \cup {NoEffect}
IsLedger(records) ==
    /\ records \in Seq({records[i] : i \in DOMAIN records})
    /\ \A i \in DOMAIN records : IsObservation(records[i]) \/ IsDecision(records[i])

\* Of and the like, of the first n records.
Early(S, n) == {i \in S : i <= n}
OutsOf(records, S) == {records[i].outcome : i \in {j \in S : Terminal(records[j])}}
Loose(records) ==
    {i \in DOMAIN records : records[i].kind = "external_effect" /\ ~records[i].exact}
LooseIn(entries) == {i \in DOMAIN entries : ~entries[i].exact}

\* What the entries are after the observations among the first n records.
Notes(entries, records, n) ==
    /\ entries \in Seq(Entries)
    /\ \A i \in DOMAIN entries :
          /\ ~entries[i].resolved
          /\ entries[i].exact =>
                LET S == Early(Of(records, entries[i].id), n)
                IN  /\ S # {} /\ IsFiniteSet(S)
                    /\ Tallies(entries[i], OutsOf(records, S), Cardinality(S))
    /\ \A id : Early(Of(records, id), n) # {} => Known(entries, id)
    /\ \A i, j \in DOMAIN entries :
          entries[i].exact /\ entries[j].exact /\ entries[i].id = entries[j].id => i = j
    /\ IsFiniteSet(LooseIn(entries)) /\ IsFiniteSet(Early(Loose(records), n))
    /\ Cardinality(LooseIn(entries)) = Cardinality(Early(Loose(records), n))

\* The sets that record n + 1 adds itself to, and those it does not.
LEMMA OneRecordMore ==
    ASSUME NEW records, IsLedger(records), NEW n \in Nat, n + 1 \in DOMAIN records, NEW id
    PROVE  /\ Early(Of(records, id), n + 1) =
                  IF /\ records[n + 1].kind = "external_effect" /\ records[n + 1].exact
                     /\ records[n + 1].id = id
                  THEN Early(Of(records, id), n) \cup {n + 1} ELSE Early(Of(records, id), n)
           /\ Early(Loose(records), n + 1) =
                  IF records[n + 1].kind = "external_effect" /\ ~records[n + 1].exact
                  THEN Early(Loose(records), n) \cup {n + 1} ELSE Early(Loose(records), n)
           /\ n + 1 \notin Early(Of(records, id), n) /\ n + 1 \notin Early(Loose(records), n)
  <1>1. PICK m : m = n + 1
    OBVIOUS
  <1>2. \A i \in DOMAIN records : i \in Nat /\ (i <= m <=> i <= n \/ i = m)
    <2>1. DOMAIN records = 1..Len(records)
      BY DEF IsLedger
    <2> QED
      BY <1>1, <2>1
  <1>3. ~(m <= n)
    BY <1>1
  <1> QED
    BY <1>1, <1>2, <1>3 DEF Early, Of, Loose

\* What an observation adds to the outcomes of its operation.
LEMMA OutsMore ==
    ASSUME NEW records, NEW S, NEW m
    PROVE  OutsOf(records, S \cup {m}) = With(OutsOf(records, S), records[m])
  BY DEF OutsOf, With

\* An observation of an operation that the ledger knows.
LEMMA NotedAgain ==
    ASSUME NEW records, IsLedger(records), NEW n \in Nat, n + 1 \in DOMAIN records,
           NEW entries, Notes(entries, records, n),
           NEW o, o = records[n + 1], IsObservation(o), o.exact, Known(entries, o.id)
    PROVE  Notes(Observe(entries, o), records, n + 1)
  <1>1. PICK p : p = PlaceOf(entries, o.id)
    OBVIOUS
  <1>2. p \in DOMAIN entries /\ entries[p].exact /\ entries[p].id = o.id
    BY <1>1 DEF Known, PlaceOf
  <1>3. PICK q, S, T : /\ q = Merged(entries[p], o)
                       /\ S = Early(Of(records, o.id), n)
                       /\ T = Early(Of(records, o.id), n + 1)
    OBVIOUS
  <1>4. PICK next : next = [entries EXCEPT ![p] = q]
    OBVIOUS
  <1>5. next = Observe(entries, o)
    BY <1>1, <1>3, <1>4 DEF Observe
  <1>6. T = S \cup {n + 1} /\ n + 1 \notin S
    BY <1>3, OneRecordMore DEF IsObservation
  <1>7. entries \in Seq(Entries) /\ entries[p] \in Entries
    BY <1>2 DEF Notes
  <1>8. S # {} /\ IsFiniteSet(S) /\ Tallies(entries[p], OutsOf(records, S), Cardinality(S))
    BY <1>2, <1>3 DEF Notes
  <1>9. IsFiniteSet(T) /\ Cardinality(T) = Cardinality(S) + 1 /\ Cardinality(S) \in Nat
    BY <1>6, <1>8, FS_AddElement, FS_CardinalityType
  <1>10. /\ q \in Entries /\ Tallies(q, OutsOf(records, T), Cardinality(T))
         /\ q.id = o.id /\ q.exact /\ ~q.resolved
    <2>1. OutsOf(records, T) = With(OutsOf(records, S), o)
      BY <1>6, OutsMore
    <2>2. entries[p].resolved = FALSE
      BY <1>2, <1>7 DEF Notes, Entries
    <2> QED
      BY <1>2, <1>3, <1>7, <1>8, <1>9, <2>1, <2>2, MergedTallies
  <1>11. /\ next \in Seq(Entries) /\ DOMAIN next = DOMAIN entries /\ next[p] = q
         /\ \A i \in DOMAIN entries : i # p => next[i] = entries[i]
         /\ \A i \in DOMAIN entries : next[i].id = entries[i].id
                                      /\ (next[i].exact <=> entries[i].exact)
    BY <1>2, <1>4, <1>7, <1>10
  <1>12. ASSUME NEW i \in DOMAIN next
         PROVE  /\ ~next[i].resolved
                /\ next[i].exact =>
                     LET R == Early(Of(records, next[i].id), n + 1)
                     IN  /\ R # {} /\ IsFiniteSet(R)
                         /\ Tallies(next[i], OutsOf(records, R), Cardinality(R))
    <2>1. CASE i = p
      <3>1. next[i] = q /\ next[i].id = o.id
        BY <1>10, <1>11, <2>1
      <3>2. Early(Of(records, next[i].id), n + 1) = T /\ T # {} /\ IsFiniteSet(T)
        BY <1>3, <1>6, <1>9, <3>1
      <3> QED
        BY <1>10, <3>1, <3>2
    <2>2. CASE i # p
      <3>1. next[i] = entries[i] /\ i \in DOMAIN entries
        BY <1>11, <2>2
      <3>2. entries[i].exact => entries[i].id # o.id
        BY <1>2, <2>2, <3>1 DEF Notes
      <3>3. entries[i].exact =>
              Early(Of(records, entries[i].id), n + 1) = Early(Of(records, entries[i].id), n)
        BY <3>2, OneRecordMore
      <3> QED
        BY <3>1, <3>3 DEF Notes
    <2> QED
      BY <2>1, <2>2
  <1>13. ASSUME NEW id, Early(Of(records, id), n + 1) # {} PROVE Known(next, id)
    <2>1. CASE id = o.id
      BY <1>2, <1>11, <2>1 DEF Known
    <2>2. CASE id # o.id
      <3>1. Early(Of(records, id), n + 1) = Early(Of(records, id), n)
        BY <2>2, OneRecordMore
      <3>2. Known(entries, id)
        BY <1>13, <3>1 DEF Notes
      <3> QED
        BY <1>11, <3>2 DEF Known
    <2> QED
      BY <2>1, <2>2
  <1>14. LooseIn(next) = LooseIn(entries)
         /\ Early(Loose(records), n + 1) = Early(Loose(records), n)
    BY <1>11, OneRecordMore DEF LooseIn
  <1> QED
    BY <1>5, <1>11, <1>12, <1>13, <1>14 DEF Notes

\* The first observation of an operation.
LEMMA NotedFirst ==
    ASSUME NEW records, IsLedger(records), NEW n \in Nat, n + 1 \in DOMAIN records,
           NEW entries, Notes(entries, records, n),
           NEW o, o = records[n + 1], IsObservation(o), o.exact, ~Known(entries, o.id)
    PROVE  Notes(Observe(entries, o), records, n + 1)
  <1>1. PICK m, q, S : m = Len(entries) + 1 /\ q = Entry(o) /\ S = Early(Of(records, o.id), n + 1)
    OBVIOUS
  <1>2. PICK next : next = Append(entries, q)
    OBVIOUS
  <1>3. next = Observe(entries, o)
    BY <1>1, <1>2 DEF Observe
  <1>4. Early(Of(records, o.id), n) = {}
    BY DEF Notes
  <1>5. S = {n + 1}
    BY <1>1, <1>4, OneRecordMore DEF IsObservation
  <1>6. S # {} /\ IsFiniteSet(S) /\ Cardinality(S) = 1
    BY <1>5, FS_Singleton
  <1>7. /\ q \in Entries /\ Tallies(q, OutsOf(records, S), Cardinality(S))
        /\ q.id = o.id /\ q.exact /\ ~q.resolved
    <2>1. OutsOf(records, {}) = {} /\ S = {} \cup {n + 1}
      BY <1>5 DEF OutsOf
    <2>2. OutsOf(records, S) = With({}, o)
      BY <2>1, OutsMore
    <2>3. q.id = o.id /\ q.exact = o.exact /\ q.resolved = FALSE
      BY <1>1 DEF Entry
    <2> QED
      BY <1>1, <1>6, <2>2, <2>3, EntryTallies
  <1>8. /\ next \in Seq(Entries) /\ DOMAIN next = DOMAIN entries \cup {m} /\ next[m] = q
        /\ m \notin DOMAIN entries /\ \A i \in DOMAIN entries : next[i] = entries[i]
    BY <1>1, <1>2, <1>7 DEF Notes
  <1>9. \A i \in DOMAIN entries : entries[i].exact => entries[i].id # o.id
    BY DEF Known
  <1>14. \A id : id # o.id => Early(Of(records, id), n + 1) = Early(Of(records, id), n)
    BY OneRecordMore
  <1>10. ASSUME NEW i \in DOMAIN next
         PROVE  /\ ~next[i].resolved
                /\ next[i].exact =>
                     LET R == Early(Of(records, next[i].id), n + 1)
                     IN  /\ R # {} /\ IsFiniteSet(R)
                         /\ Tallies(next[i], OutsOf(records, R), Cardinality(R))
    <2>1. CASE i = m
      BY <1>1, <1>6, <1>7, <1>8, <2>1
    <2>2. CASE i # m
      <3>1. next[i] = entries[i] /\ i \in DOMAIN entries
        BY <1>8, <2>2
      <3>2. entries[i].exact =>
              Early(Of(records, entries[i].id), n + 1) = Early(Of(records, entries[i].id), n)
        BY <1>9, <1>14, <3>1
      <3> QED
        BY <3>1, <3>2 DEF Notes
    <2> QED
      BY <2>1, <2>2
  <1>11. ASSUME NEW id, Early(Of(records, id), n + 1) # {} PROVE Known(next, id)
    <2>1. CASE id = o.id
      BY <1>7, <1>8, <2>1 DEF Known
    <2>2. CASE id # o.id
      <3>1. Known(entries, id)
        BY <1>11, <1>14, <2>2 DEF Notes
      <3> QED
        BY <1>8, <3>1 DEF Known
    <2> QED
      BY <2>1, <2>2
  <1>12. ASSUME NEW i \in DOMAIN next, NEW j \in DOMAIN next,
                next[i].exact, next[j].exact, next[i].id = next[j].id
         PROVE  i = j
    BY <1>7, <1>8, <1>9, <1>12 DEF Notes
  <1>13. LooseIn(next) = LooseIn(entries)
         /\ Early(Loose(records), n + 1) = Early(Loose(records), n)
    BY <1>7, <1>8, OneRecordMore DEF LooseIn
  <1> QED
    BY <1>3, <1>8, <1>10, <1>11, <1>12, <1>13 DEF Notes

\* An observation without the id of an operation is an entry of its own.
LEMMA NotedLoose ==
    ASSUME NEW records, IsLedger(records), NEW n \in Nat, n + 1 \in DOMAIN records,
           NEW entries, Notes(entries, records, n),
           NEW o, o = records[n + 1], IsObservation(o), ~o.exact
    PROVE  Notes(Observe(entries, o), records, n + 1)
  <1>1. PICK m, q : m = Len(entries) + 1 /\ q = Entry(o)
    OBVIOUS
  <1>2. PICK next : next = Append(entries, q)
    OBVIOUS
  <1>3. next = Observe(entries, o)
    BY <1>1, <1>2 DEF Observe
  <1>4. q \in Entries /\ ~q.exact /\ ~q.resolved
    <2>1. q.exact = o.exact /\ q.resolved = FALSE
      BY <1>1 DEF Entry
    <2> QED
      BY <1>1, <2>1, EntryTallies
  <1>5. /\ next \in Seq(Entries) /\ DOMAIN next = DOMAIN entries \cup {m} /\ next[m] = q
        /\ m \notin DOMAIN entries /\ \A i \in DOMAIN entries : next[i] = entries[i]
    BY <1>1, <1>2, <1>4 DEF Notes
  <1>6. \A id : Early(Of(records, id), n + 1) = Early(Of(records, id), n)
    BY OneRecordMore
  <1>7. ASSUME NEW i \in DOMAIN next
         PROVE  /\ ~next[i].resolved
                /\ next[i].exact =>
                     LET R == Early(Of(records, next[i].id), n + 1)
                     IN  /\ R # {} /\ IsFiniteSet(R)
                         /\ Tallies(next[i], OutsOf(records, R), Cardinality(R))
    BY <1>4, <1>5, <1>6 DEF Notes
  <1>8. ASSUME NEW id, Early(Of(records, id), n + 1) # {} PROVE Known(next, id)
    <2>1. Known(entries, id)
      BY <1>6, <1>8 DEF Notes
    <2> QED
      BY <1>5, <2>1 DEF Known
  <1>9. ASSUME NEW i \in DOMAIN next, NEW j \in DOMAIN next,
               next[i].exact, next[j].exact, next[i].id = next[j].id
        PROVE  i = j
    BY <1>4, <1>5, <1>9 DEF Notes
  <1>10. /\ LooseIn(next) = LooseIn(entries) \cup {m} /\ m \notin LooseIn(entries)
         /\ Early(Loose(records), n + 1) = Early(Loose(records), n) \cup {n + 1}
         /\ n + 1 \notin Early(Loose(records), n)
    BY <1>4, <1>5, OneRecordMore DEF LooseIn, IsObservation
  <1>11. /\ IsFiniteSet(LooseIn(next)) /\ IsFiniteSet(Early(Loose(records), n + 1))
         /\ Cardinality(LooseIn(next)) = Cardinality(Early(Loose(records), n + 1))
    <2>1. /\ IsFiniteSet(LooseIn(entries)) /\ IsFiniteSet(Early(Loose(records), n))
          /\ Cardinality(LooseIn(entries)) = Cardinality(Early(Loose(records), n))
      BY DEF Notes
    <2>2. /\ IsFiniteSet(LooseIn(next))
          /\ Cardinality(LooseIn(next)) = Cardinality(LooseIn(entries)) + 1
      BY <1>10, <2>1, FS_AddElement
    <2>3. /\ IsFiniteSet(Early(Loose(records), n + 1))
          /\ Cardinality(Early(Loose(records), n + 1)) = Cardinality(Early(Loose(records), n)) + 1
      BY <1>10, <2>1, FS_AddElement
    <2> QED
      BY <2>1, <2>2, <2>3
  <1> QED
    BY <1>3, <1>5, <1>7, <1>8, <1>9, <1>11 DEF Notes

\* Decisions are passed over.
LEMMA NotedIdle ==
    ASSUME NEW records, IsLedger(records), NEW n \in Nat, n + 1 \in DOMAIN records,
           NEW entries, Notes(entries, records, n), IsDecision(records[n + 1])
    PROVE  Notes(entries, records, n + 1)
  <1>0. records[n + 1].kind # "external_effect"
    BY DEF IsDecision
  <1>1. \A id : Early(Of(records, id), n + 1) = Early(Of(records, id), n)
    BY <1>0, OneRecordMore
  <1>2. Early(Loose(records), n + 1) = Early(Loose(records), n)
    BY <1>0, OneRecordMore
  <1> QED
    BY <1>1, <1>2 DEF Notes

\* Before the first record.
LEMMA NotedNone == ASSUME NEW records, IsLedger(records) PROVE Notes(<<>>, records, 0)
  <1>1. \A id : Early(Of(records, id), 0) = {}
    BY DEF IsLedger, Early, Of
  <1>2. Early(Loose(records), 0) = {}
    BY DEF IsLedger, Early, Loose
  <1>3. LooseIn(<<>>) = {} /\ <<>> \in Seq(Entries) /\ DOMAIN <<>> = {}
    BY DEF LooseIn
  <1> QED
    BY <1>1, <1>2, <1>3, FS_EmptySet DEF Notes

\* After the first pass.
LEMMA NotedAll ==
    ASSUME NEW records, IsLedger(records)
    PROVE  Notes(Pass("external_effect", <<>>, records), records, Len(records))
  <1>1. PICK n \in Nat : n = Len(records)
    BY DEF IsLedger
  <1>2. PICK run : Passes(run, "external_effect", <<>>, records, n)
                   /\ Pass("external_effect", <<>>, records) = run[n]
    BY <1>1, PassRuns
  <1> DEFINE Bad == {k \in 0..n : ~Notes(run[k], records, k)}
  <1>3. ASSUME Bad # {} PROVE FALSE
    <2>1. PICK k \in Bad : \A m \in Bad : k <= m
      <3>1. Bad \in SUBSET Nat
        OBVIOUS
      <3> HIDE DEF Bad
      <3> QED
        BY <1>3, <3>1, LeastMember
    <2>2. run[k] = IF k = 0 THEN <<>> ELSE Applied("external_effect", run[k - 1], records[k])
      BY <1>2, <2>1 DEF Passes
    <2>3. k # 0
      BY <2>1, <2>2, NotedNone
    <2>4. PICK l \in Nat : k = l + 1 /\ Notes(run[l], records, l) /\ l + 1 \in DOMAIN records
      <3>1. k - 1 \in Nat /\ k - 1 \in 0..n /\ k - 1 \notin Bad
        BY <2>1, <2>3
      <3>2. DOMAIN records = 1..n
        BY <1>1 DEF IsLedger
      <3> QED
        BY <2>1, <3>1, <3>2
    <2>5. PICK r : r = records[k]
      OBVIOUS
    <2>6. CASE IsObservation(r)
      <3>1. run[k] = Observe(run[l], r)
        BY <2>2, <2>3, <2>4, <2>5, <2>6 DEF Applied, IsObservation
      <3> QED
        BY <2>1, <2>4, <2>5, <2>6, <3>1, NotedAgain, NotedFirst, NotedLoose DEF IsObservation
    <2>7. CASE IsDecision(r)
      <3>1. run[k] = run[l]
        BY <2>2, <2>3, <2>4, <2>5, <2>7 DEF Applied, IsDecision
      <3> QED
        BY <2>1, <2>4, <2>5, <2>7, <3>1, NotedIdle
    <2> QED
      BY <2>4, <2>5, <2>6, <2>7 DEF IsLedger
  <1> QED
    BY <1>1, <1>2, <1>3

-----------------------------------------------------------------------------
(***************************************************************************)
(* EffectLedger, the second pass: base is what the first came to, which    *)
(* the resolutions among the first n records leave but for its resolution. *)
(***************************************************************************)

\* What a resolution is.
LEMMA DecisionIs == ASSUME NEW r \in Decisions PROVE IsDecision(r)
  <1>1. \E id \in Ids, value \in Resolutions, related \in Ids \cup {NoEffect} :
            r = Resolution(id, value, related)
    BY DEF Decisions
  <1>2. PICK id \in Ids, value \in Resolutions, related \in Ids \cup {NoEffect} :
            r = Resolution(id, value, related)
    BY <1>1
  <1>3. r.kind = "effect_resolution" /\ r.id = id /\ r.value = value /\ r.related = related
    BY <1>2 DEF Resolution
  <1> QED
    BY <1>2, <1>3 DEF IsDecision

\* The resolutions that count.
Counts(records, r) ==
    \/ r.value \in {"reversed", "reconciled_absent"}
    \/ r.value = "compensated" /\ Of(records, r.related) # {}
Resolved(records, S) == S # {} /\ Counts(records, records[LastOf(S)])

Same(entry, first) ==
    /\ entry.id = first.id /\ entry.exact = first.exact /\ entry.count = first.count
    /\ entry.lifecycle = first.lifecycle /\ entry.outcome = first.outcome
    /\ entry.observed = first.observed

Settled(entries, base, records, n) ==
    /\ entries \in Seq(Entries) /\ DOMAIN entries = DOMAIN base
    /\ \A i \in DOMAIN base :
          /\ Same(entries[i], base[i])
          /\ entries[i].exact =>
                (entries[i].resolved
                   <=> Resolved(records, Early(ResolutionsOf(records, entries[i].id), n)))

\* What the ledger knows is what was observed.
LEMMA KnownIsObserved ==
    ASSUME NEW records, IsLedger(records), NEW n, Len(records) = n,
           NEW base, Notes(base, records, n),
           NEW entries, NEW m, Settled(entries, base, records, m), NEW id
    PROVE  Known(entries, id) <=> Of(records, id) # {}
  <1>1. Early(Of(records, id), n) = Of(records, id)
    BY DEF IsLedger, Early, Of
  <1>2. Known(base, id) <=> Of(records, id) # {}
    BY <1>1 DEF Notes, Known
  <1>3. Known(entries, id) <=> Known(base, id)
    BY DEF Settled, Same, Known
  <1> QED
    BY <1>2, <1>3

\* The resolutions that record n + 1 is one of.
LEMMA OneDecisionMore ==
    ASSUME NEW records, IsLedger(records), NEW n \in Nat, n + 1 \in DOMAIN records, NEW id
    PROVE  LET S == Early(ResolutionsOf(records, id), n)
               T == Early(ResolutionsOf(records, id), n + 1)
           IN  IF records[n + 1].kind = "effect_resolution" /\ records[n + 1].id = id
               THEN T # {} /\ LastOf(T) = n + 1 ELSE T = S
  <1>1. PICK m, S, T : m = n + 1 /\ S = Early(ResolutionsOf(records, id), n)
                       /\ T = Early(ResolutionsOf(records, id), n + 1)
    OBVIOUS
  <1>2. \A i \in DOMAIN records : i \in Nat /\ (i <= m <=> i <= n \/ i = m)
    <2>1. DOMAIN records = 1..Len(records)
      BY DEF IsLedger
    <2> QED
      BY <1>1, <2>1
  <1>3. CASE records[m].kind = "effect_resolution" /\ records[m].id = id
    <2>1. m \in T /\ \A j \in T : j \in Nat /\ j <= m
      BY <1>1, <1>2, <1>3 DEF Early, ResolutionsOf
    <2>2. \A i \in T : (\A j \in T : j <= i) => i = m
      BY <1>1, <2>1
    <2>3. LastOf(T) = m
      BY <2>1, <2>2 DEF LastOf
    <2> QED
      BY <1>1, <1>3, <2>1, <2>3
  <1>4. CASE ~(records[m].kind = "effect_resolution" /\ records[m].id = id)
    <2>1. T = S
      BY <1>1, <1>2, <1>4 DEF Early, ResolutionsOf
    <2> QED
      BY <1>1, <1>4, <2>1
  <1> QED
    BY <1>3, <1>4

\* A resolution is the last of its effect.
LEMMA SettledMore ==
    ASSUME NEW records, IsLedger(records), NEW len, Len(records) = len,
           NEW base, Notes(base, records, len),
           NEW n \in Nat, n + 1 \in DOMAIN records,
           NEW entries, Settled(entries, base, records, n),
           NEW r, r = records[n + 1], IsDecision(r)
    PROVE  Settled(Resolve(entries, r), base, records, n + 1)
  <1>1. CASE Known(entries, r.id)
    <2>1. PICK p : p = PlaceOf(entries, r.id)
      OBVIOUS
    <2>2. p \in DOMAIN entries /\ entries[p].exact /\ entries[p].id = r.id
      BY <1>1, <2>1 DEF Known, PlaceOf
    <2>3. PICK settles \in BOOLEAN : settles <=> Settles(entries, r)
      BY Zenon
    <2>4. settles = Settles(entries, r)
      BY <2>3, Zenon DEF Settles
    <2>5. PICK e \in Entries, history \in Seq(Decisions) :
             e = entries[p] /\ history = Append(e.history, r)
      <3>1. entries[p] \in Entries /\ r \in Decisions
        BY <2>2 DEF Settled, IsDecision
      <3>2. entries[p].history \in Seq(Decisions)
        BY <3>1 DEF Entries
      <3>3. Append(entries[p].history, r) \in Seq(Decisions)
        BY <3>1, <3>2
      <3> QED
        BY <3>1, <3>3
    <2>6. PICK q : q = [e EXCEPT !.resolution = r.value, !.resolved = settles,
                                 !.history = history]
      OBVIOUS
    <2>7. q \in Entries /\ Same(q, e) /\ q.exact = e.exact /\ q.id = e.id
          /\ q.resolved = settles
      BY <2>5, <2>6 DEF Entries, Same, IsDecision
    <2>8. PICK next : next = [entries EXCEPT ![p] = q]
      OBVIOUS
    <2>9. next = Resolve(entries, r)
      <3>1. Resolve(entries, r) =
              [entries EXCEPT ![p] = [entries[p] EXCEPT !.resolution = r.value,
                                         !.resolved = Settles(entries, r),
                                         !.history = Append(entries[p].history, r)]]
        BY <1>1, <2>1, Zenon DEF Resolve, IsDecision
      <3>2. q = [entries[p] EXCEPT !.resolution = r.value, !.resolved = Settles(entries, r),
                                   !.history = Append(entries[p].history, r)]
        BY <2>4, <2>5, <2>6, Zenon
      <3> QED
        BY <2>8, <3>1, <3>2, Zenon
    <2>10. /\ next \in Seq(Entries) /\ DOMAIN next = DOMAIN base /\ next[p] = q
           /\ \A i \in DOMAIN base : i # p => next[i] = entries[i]
      BY <2>2, <2>7, <2>8 DEF Settled
    <2>11. settles <=> Counts(records, r)
      <3>1. Known(entries, r.related) <=> Of(records, r.related) # {}
        BY KnownIsObserved
      <3> QED
        BY <2>3, <3>1 DEF Settles, Verified, Counts
    <2>12. ASSUME NEW i \in DOMAIN base
           PROVE  /\ Same(next[i], base[i])
                  /\ next[i].exact =>
                        (next[i].resolved
                           <=> Resolved(records, Early(ResolutionsOf(records, next[i].id), n + 1)))
      <3>1. CASE i = p
        <4>1. Same(next[i], base[i]) /\ next[i].id = r.id
          BY <2>2, <2>5, <2>7, <2>10, <3>1 DEF Settled, Same
        <4>2. Resolved(records, Early(ResolutionsOf(records, r.id), n + 1)) <=> Counts(records, r)
          BY OneDecisionMore DEF Resolved, IsDecision
        <4> QED
          BY <2>7, <2>10, <2>11, <3>1, <4>1, <4>2
      <3>2. CASE i # p
        <4>1. next[i] = entries[i]
          BY <2>10, <3>2
        <4>2. entries[i].exact => entries[i].id # r.id
          BY <2>2, <3>2 DEF Settled, Same, Notes
        <4>3. entries[i].exact =>
                 Early(ResolutionsOf(records, entries[i].id), n + 1)
                   = Early(ResolutionsOf(records, entries[i].id), n)
          BY <4>2, OneDecisionMore
        <4> QED
          BY <4>1, <4>3 DEF Settled
      <3> QED
        BY <3>1, <3>2
    <2> QED
      BY <2>9, <2>10, <2>12 DEF Settled
  <1>2. CASE ~Known(entries, r.id)
    <2>1. Resolve(entries, r) = entries
      BY <1>2 DEF Resolve
    <2>2. \A i \in DOMAIN base : entries[i].exact => entries[i].id # r.id
      BY <1>2 DEF Known, Settled
    <2>3. \A i \in DOMAIN base : entries[i].exact =>
             Early(ResolutionsOf(records, entries[i].id), n + 1)
               = Early(ResolutionsOf(records, entries[i].id), n)
      BY <2>2, OneDecisionMore
    <2> QED
      BY <2>1, <2>3 DEF Settled
  <1> QED
    BY <1>1, <1>2

\* Observations are passed over.
LEMMA SettledIdle ==
    ASSUME NEW records, IsLedger(records), NEW base, NEW n \in Nat, n + 1 \in DOMAIN records,
           NEW entries, Settled(entries, base, records, n), IsObservation(records[n + 1])
    PROVE  Settled(entries, base, records, n + 1)
  <1>1. \A id : Early(ResolutionsOf(records, id), n + 1) = Early(ResolutionsOf(records, id), n)
    BY OneDecisionMore DEF IsObservation
  <1> QED
    BY <1>1 DEF Settled

\* Before the first record, the second pass has what the first came to.
LEMMA SettledNone ==
    ASSUME NEW records, IsLedger(records), NEW base, NEW len, Notes(base, records, len)
    PROVE  Settled(base, base, records, 0)
  <1>1. \A id : Early(ResolutionsOf(records, id), 0) = {}
    BY DEF IsLedger, Early, ResolutionsOf
  <1>2. \A i \in DOMAIN base : ~base[i].resolved
    BY DEF Notes
  <1> QED
    BY <1>1, <1>2 DEF Settled, Same, Notes, Resolved

\* After the second pass.
LEMMA SettledAll ==
    ASSUME NEW records, IsLedger(records), NEW base, Notes(base, records, Len(records))
    PROVE  Settled(Pass("effect_resolution", base, records), base, records, Len(records))
  <1>1. PICK n \in Nat : n = Len(records)
    BY DEF IsLedger
  <1>2. PICK run : Passes(run, "effect_resolution", base, records, n)
                   /\ Pass("effect_resolution", base, records) = run[n]
    BY <1>1, PassRuns
  <1> DEFINE Bad == {k \in 0..n : ~Settled(run[k], base, records, k)}
  <1>3. ASSUME Bad # {} PROVE FALSE
    <2>1. PICK k \in Bad : \A m \in Bad : k <= m
      <3>1. Bad \in SUBSET Nat
        OBVIOUS
      <3> HIDE DEF Bad
      <3> QED
        BY <1>3, <3>1, LeastMember
    <2>2. run[k] = IF k = 0 THEN base ELSE Applied("effect_resolution", run[k - 1], records[k])
      BY <1>2, <2>1 DEF Passes
    <2>3. k # 0
      BY <1>1, <2>1, <2>2, SettledNone
    <2>4. PICK l \in Nat :
             k = l + 1 /\ Settled(run[l], base, records, l) /\ l + 1 \in DOMAIN records
      <3>1. k - 1 \in Nat /\ k - 1 \in 0..n /\ k - 1 \notin Bad
        BY <2>1, <2>3
      <3>2. DOMAIN records = 1..n
        BY <1>1 DEF IsLedger
      <3> QED
        BY <2>1, <3>1, <3>2
    <2>5. PICK r : r = records[k]
      OBVIOUS
    <2>6. CASE IsObservation(r)
      <3>1. run[k] = run[l]
        BY <2>2, <2>3, <2>4, <2>5, <2>6 DEF Applied, IsObservation
      <3> QED
        BY <2>1, <2>4, <2>5, <2>6, <3>1, SettledIdle
    <2>7. CASE IsDecision(r)
      <3>1. run[k] = Resolve(run[l], r)
        BY <2>2, <2>3, <2>4, <2>5, <2>7 DEF Applied, IsDecision
      <3>2. Notes(base, records, n)
        BY <1>1
      <3> QED
        BY <1>1, <2>1, <2>4, <2>5, <2>7, <3>1, <3>2, SettledMore
    <2> QED
      BY <2>4, <2>5, <2>6, <2>7 DEF IsLedger
  <1> QED
    BY <1>1, <1>2, <1>3

-----------------------------------------------------------------------------
(***************************************************************************)
(* EffectLedger, the ledger.                                               *)
(***************************************************************************)

\* What an entry tells is what the reference says of its operation.
LEMMA TellsFaithfully ==
    ASSUME NEW records, IsLedger(records), NEW n, n = Len(records),
           NEW base, Notes(base, records, n),
           NEW entries, Settled(entries, base, records, n),
           NEW i \in DOMAIN entries, entries[i].exact
    PROVE  Faithful(records, entries[i])
  <1>1. PICK e, S, outs, T :
           /\ e \in Entries /\ e = entries[i]
           /\ S = Of(records, e.id) /\ outs = OutcomesOf(records, e.id)
           /\ T = ResolutionsOf(records, e.id)
    BY DEF Settled
  <1>2. Early(S, n) = S /\ Early(T, n) = T
    BY <1>1 DEF IsLedger, Early, Of, ResolutionsOf
  <1>3. outs = OutsOf(records, S)
    BY <1>1 DEF OutcomesOf, OutsOf, Results
  <1>4. i \in DOMAIN base /\ Same(e, base[i]) /\ base[i] \in Entries /\ e.id = base[i].id
        /\ base[i].exact
    BY <1>1 DEF Settled, Notes, Same
  <1>5. Tallies(base[i], outs, Cardinality(S))
    BY <1>1, <1>2, <1>3, <1>4 DEF Notes
  <1>6. /\ e.count = Cardinality(S) /\ (e.lifecycle = "completed" <=> outs # {})
        /\ outs = {} => e.outcome = "unknown"
        /\ \A x \in outs : outs = {x} => e.outcome = x
        /\ Several(outs) => /\ e.outcome = "unknown"
                            /\ e.observed \subseteq outs /\ outs \ {"unknown"} \subseteq e.observed
    BY <1>4, <1>5 DEF Same, Tallies
  <1>7. outs \in SUBSET Outcomes
    <2>1. \A j \in S : records[j].outcome \in Outcomes
      BY <1>1 DEF Of, IsLedger, IsObservation, IsDecision
    <2> QED
      BY <1>3, <2>1 DEF OutsOf
  <1>8. /\ Cardinality(outs) > 1 <=> Several(outs)
        /\ Cardinality(outs) = 1 <=> outs # {} /\ ~Several(outs)
    BY <1>7, CountsSeveral
  <1>9. e.outcome = IF Cardinality(outs) = 1 THEN CHOOSE o \in outs : TRUE ELSE "unknown"
    <2>1. CASE outs = {}
      BY <1>6, <1>8, <2>1
    <2>2. CASE Several(outs)
      BY <1>6, <1>8, <2>2
    <2>3. CASE outs # {} /\ ~Several(outs)
      <3>1. PICK x \in outs : outs = {x}
        BY <2>3 DEF Several
      <3>2. (CHOOSE o \in outs : TRUE) = x
        BY <3>1
      <3> QED
        BY <1>6, <1>8, <2>3, <3>1, <3>2
    <2> QED
      BY <2>1, <2>2, <2>3
  <1>10. e.resolved <=> Resolved(records, T)
    BY <1>1, <1>2, <1>4 DEF Settled, Same
  <1> QED
    BY <1>1, <1>6, <1>8, <1>9, <1>10 DEF Faithful, Resolved, Counts

\* Both passes together, for any journal.
LEMMA LedgerIsFaithful == ASSUME NEW records, IsLedger(records) PROVE LedgerFaithful(records)
  <1>1. PICK n, base, entries :
           /\ n = Len(records) /\ base = Pass("external_effect", <<>>, records)
           /\ entries = Pass("effect_resolution", base, records)
    OBVIOUS
  <1>2. entries = ExternalEffects(records)
    BY <1>1 DEF ExternalEffects
  <1>3. Notes(base, records, n) /\ Settled(entries, base, records, n)
    BY <1>1, NotedAll, SettledAll
  <1>4. \A id \in Ids : Of(records, id) # {} <=> Known(entries, id)
    BY <1>1, <1>3, KnownIsObserved
  <1>5. \A i \in DOMAIN entries : entries[i].exact => Faithful(records, entries[i])
    BY <1>1, <1>3, TellsFaithfully
  <1>6. \A i, j \in DOMAIN entries :
           entries[i].exact /\ entries[j].exact /\ entries[i].id = entries[j].id => i = j
    BY <1>3 DEF Notes, Settled, Same
  <1>7. LooseIn(entries) = LooseIn(base)
    BY <1>3 DEF Settled, Same, LooseIn
  <1>8. Early(Loose(records), n) = Loose(records)
    BY <1>1 DEF IsLedger, Early, Loose
  <1>9. Cardinality(LooseIn(entries)) = Cardinality(Loose(records))
    BY <1>3, <1>7, <1>8 DEF Notes
  <1> QED
    BY <1>2, <1>4, <1>5, <1>6, <1>9 DEF LedgerFaithful, LooseIn, Loose

\* One record more.
LEMMA LedgerGrows ==
    ASSUME NEW records, IsLedger(records), NEW r, IsObservation(r) \/ IsDecision(r)
    PROVE  IsLedger(Append(records, r))
  <1>1. PICK values : values = {records[i] : i \in DOMAIN records} \cup {r}
    OBVIOUS
  <1>2. records \in Seq(values) /\ r \in values
    BY <1>1 DEF IsLedger
  <1>3. PICK more : more = Append(records, r)
    OBVIOUS
  <1>4. /\ more \in Seq(values) /\ DOMAIN more = 1..(Len(records) + 1)
        /\ \A i \in DOMAIN records : more[i] = records[i]
        /\ more[Len(records) + 1] = r /\ DOMAIN records = 1..Len(records) /\ Len(records) \in Nat
    BY <1>2, <1>3
  <1>5. \A i \in DOMAIN more : i \in DOMAIN records \/ i = Len(records) + 1
    BY <1>4
  <1>6. \A i \in DOMAIN more : IsObservation(more[i]) \/ IsDecision(more[i])
    BY <1>4, <1>5 DEF IsLedger
  <1>7. more \in Seq({more[i] : i \in DOMAIN more})
    BY <1>4
  <1> QED
    BY <1>3, <1>6, <1>7 DEF IsLedger

\* EffectsFaithful: the ledger of every journal that the program can write, whatever was
\* observed in it, in what order and how often, says of each operation what was observed.
THEOREM LedgerTellsAll == LedgerSpec => []EffectsFaithful
  <1>1. LedgerInit => IsLedger(effectRecords)
    BY DEF LedgerInit, IsLedger
  <1>2. IsLedger(effectRecords) /\ [LedgerNext]_effectRecords => IsLedger(effectRecords)'
    <2> SUFFICES ASSUME IsLedger(effectRecords), [LedgerNext]_effectRecords
                 PROVE  IsLedger(effectRecords)'
      OBVIOUS
    <2>1. CASE Report
      BY <2>1, LedgerAssumption, ObservationIs, LedgerGrows DEF Report
    <2>2. ASSUME NEW r \in Decisions, ResolveEffect(r) PROVE IsLedger(effectRecords)'
      BY <2>2, DecisionIs, LedgerGrows DEF ResolveEffect
    <2>3. CASE UNCHANGED effectRecords
      BY <2>3 DEF IsLedger
    <2> QED
      BY <2>1, <2>2, <2>3 DEF LedgerNext
  <1>3. IsLedger(effectRecords) => EffectsFaithful
    BY LedgerIsFaithful DEF EffectsFaithful
  <1> QED
    BY <1>1, <1>2, <1>3, PTL DEF LedgerSpec
=============================================================================
