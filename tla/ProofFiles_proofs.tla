-------------------------- MODULE ProofFiles_proofs --------------------------
(***************************************************************************)
(* Proofs about ProofFiles, for any number of handlers, runs, settlements  *)
(* and failed writes.                                                      *)
(*                                                                         *)
(* A failed write is paid for in advance: while the history ends in an     *)
(* unended line, that line is one of the failures, and the next line glued *)
(* to it is what it costs.  FailuresPaid counts both.                      *)
(***************************************************************************)
EXTENDS ProofFiles, Totals_proofs

KeptLine(line) == line.parses /\ line.ended
Partial(lines) == IF LastEnded(lines) THEN 0 ELSE 1

FailuresPaid ==
  Cardinality(appended \ Kept(history)) + Partial(history) <= faults.writes

(* Whoever is past the chain check works on a settlement.                  *)
WorksOnSettled ==
  \A p \in Handlers \cup Runs :
    work[p].at \in {"read", "torn", "append", "enter"} => work[p].tx \in settled

FilesInv ==
  /\ FilesTypeOK
  /\ onChain \subseteq settled
  /\ NothingInvented
  /\ WorksOnSettled
  /\ IsFiniteSet(appended)
  /\ FailuresPaid

-----------------------------------------------------------------------------
(* Lines.                                                                  *)

LEMMA WholeLineType ==
  ASSUME NEW t \in TxIds
  PROVE  /\ WholeLine(t) \in Line
         /\ WholeLine(t).mentions = {t} /\ KeptLine(WholeLine(t))
         /\ \A f \in Fragments(WholeLine(t)) :
              f \in Line /\ f.mentions = {t}
<1>1. WholeLine(t) \in Line /\ WholeLine(t).mentions = {t} /\ KeptLine(WholeLine(t))
  BY DEF WholeLine, Line, KeptLine
<1>2. ASSUME NEW b \in BOOLEAN, NEW f, f = [WholeLine(t) EXCEPT !.parses = b, !.ended = FALSE]
      PROVE  f \in Line /\ f.mentions = {t}
  BY <1>2 DEF WholeLine, Line
<1> QED BY <1>1, <1>2 DEF Fragments

(* A new line.                                                             *)
LEMMA AppendedLine ==
  ASSUME NEW lines \in Seq(Line), NEW line \in Line, LastEnded(lines)
  PROVE  /\ WithLine(lines, line) \in Seq(Line)
         /\ Mentioned(WithLine(lines, line)) \subseteq Mentioned(lines) \cup line.mentions
         /\ Kept(lines) \subseteq Kept(WithLine(lines, line))
         /\ KeptLine(line) => line.mentions \subseteq Kept(WithLine(lines, line))
         /\ LastEnded(WithLine(lines, line)) <=> line.ended
<1> DEFINE new == Append(lines, line)
<1>1. WithLine(lines, line) = new
  BY DEF WithLine
<1>2. /\ new \in Seq(Line) /\ Len(new) = Len(lines) + 1 /\ new[Len(new)] = line
      /\ DOMAIN new = 1 .. Len(lines) + 1 /\ DOMAIN lines = 1 .. Len(lines)
      /\ \A i \in DOMAIN lines : new[i] = lines[i]
      /\ Len(lines) \in Nat /\ new # <<>>
  OBVIOUS
<1>3. ToSet(new) = ToSet(lines) \cup {line}
  BY <1>2 DEF ToSet
<1>4. Mentioned(new) \subseteq Mentioned(lines) \cup line.mentions
  BY <1>3 DEF Mentioned
<1>5. Kept(lines) \subseteq Kept(new) /\ (KeptLine(line) => line.mentions \subseteq Kept(new))
  BY <1>3 DEF Kept, KeptLine
<1>6. LastEnded(new) <=> line.ended
  BY <1>2 DEF LastEnded
<1> HIDE DEF new
<1> QED BY <1>1, <1>2, <1>4, <1>5, <1>6

(* A line glued to one without its newline.                                *)
LEMMA GluedLine ==
  ASSUME NEW lines \in Seq(Line), NEW line \in Line, ~LastEnded(lines)
  PROVE  /\ WithLine(lines, line) \in Seq(Line)
         /\ Mentioned(WithLine(lines, line)) \subseteq Mentioned(lines) \cup line.mentions
         /\ Kept(lines) \subseteq Kept(WithLine(lines, line))
         /\ LastEnded(WithLine(lines, line)) <=> line.ended
<1> DEFINE n == Len(lines)
           glued == Glued(lines[n], line)
           new == [lines EXCEPT ![n] = glued]
<1>1. WithLine(lines, line) = new
  BY DEF WithLine
<1>2. n \in DOMAIN lines /\ lines[n] \in Line /\ lines # <<>> /\ ~lines[n].ended
  BY DEF LastEnded
<1>3. glued \in Line /\ glued.ended = line.ended
      /\ glued.mentions = line.mentions \cup lines[n].mentions
  BY <1>2 DEF Glued, Line
<1>4. /\ new \in Seq(Line) /\ DOMAIN new = DOMAIN lines /\ Len(new) = n
      /\ new[n] = glued /\ \A i \in DOMAIN lines \ {n} : new[i] = lines[i]
  <2> HIDE DEF glued
  <2> QED BY <1>2, <1>3
<1>5. Mentioned(new) \subseteq Mentioned(lines) \cup line.mentions
  <2> SUFFICES ASSUME NEW i \in DOMAIN lines
               PROVE  new[i].mentions \subseteq Mentioned(lines) \cup line.mentions
    BY <1>4 DEF Mentioned, ToSet
  <2>1. lines[i].mentions \subseteq Mentioned(lines) /\ lines[n].mentions \subseteq Mentioned(lines)
    BY <1>2 DEF Mentioned, ToSet
  <2> QED BY <1>3, <1>4, <2>1
<1>6. Kept(lines) \subseteq Kept(new)
  <2> SUFFICES ASSUME NEW i \in DOMAIN lines, lines[i].parses, lines[i].ended
               PROVE  lines[i].mentions \subseteq Kept(new)
    BY DEF Kept, ToSet
  <2>1. i \in DOMAIN new /\ new[i] = lines[i]
    BY <1>2, <1>4
  <2> QED BY <2>1 DEF Kept, ToSet
<1>7. LastEnded(new) <=> line.ended
  BY <1>2, <1>3, <1>4 DEF LastEnded
<1> HIDE DEF new
<1> QED BY <1>1, <1>4, <1>5, <1>6, <1>7

(* Whatever is written, nothing that was kept is lost.                     *)
LEMMA WrittenLine ==
  ASSUME NEW lines \in Seq(Line), NEW line \in Line
  PROVE  /\ WithLine(lines, line) \in Seq(Line)
         /\ Mentioned(WithLine(lines, line)) \subseteq Mentioned(lines) \cup line.mentions
         /\ Kept(lines) \subseteq Kept(WithLine(lines, line))
         /\ LastEnded(WithLine(lines, line)) <=> line.ended
BY AppendedLine, GluedLine

(* A fully written line adds to the losses only what the partial line      *)
(* before it has paid for.                                                 *)
LEMMA WholeLineCost ==
  ASSUME NEW lines \in Seq(Line), NEW t \in TxIds, NEW done, IsFiniteSet(done)
  PROVE  LET new == WithLine(lines, WholeLine(t))
         IN Cardinality((done \cup {t}) \ Kept(new)) + Partial(new)
              <= Cardinality(done \ Kept(lines)) + Partial(lines)
<1> DEFINE line == WholeLine(t)
           new == WithLine(lines, line)
           lost == done \ Kept(lines)
           lostNow == (done \cup {t}) \ Kept(new)
<1> SUFFICES Cardinality(lostNow) + Partial(new) <= Cardinality(lost) + Partial(lines)
  OBVIOUS
<1>1. line \in Line /\ line.mentions = {t} /\ KeptLine(line) /\ line.ended
  BY WholeLineType DEF KeptLine
<1>2. Kept(lines) \subseteq Kept(new) /\ LastEnded(new)
  BY <1>1, WrittenLine
<1>3. IsFiniteSet(lost) /\ Cardinality(lost) \in Nat
  BY FS_Subset, FS_CardinalityType
<1>6. Partial(new) = 0
  BY <1>2 DEF Partial
<1>4. CASE LastEnded(lines)
  <2>1. lostNow \subseteq lost
    <3>1. t \in Kept(new)
      BY <1>1, <1>4, AppendedLine
    <3> QED BY <1>2, <3>1
  <2>2. Cardinality(lostNow) <= Cardinality(lost) /\ Cardinality(lostNow) \in Nat
    BY <1>3, <2>1, FS_Subset, FS_CardinalityType
  <2>3. Partial(lines) = 0
    BY <1>4 DEF Partial
  <2> HIDE DEF lost, lostNow, new
  <2> QED BY <1>3, <1>6, <2>2, <2>3
<1>5. CASE ~LastEnded(lines)
  <2>1. lostNow \subseteq lost \cup {t}
    BY <1>2
  <2>2. IsFiniteSet(lost \cup {t}) /\ Cardinality(lost \cup {t}) \in Nat
        /\ Cardinality(lost \cup {t}) <= Cardinality(lost) + 1
    <3> HIDE DEF lost
    <3>1. IsFiniteSet(lost \cup {t})
          /\ (Cardinality(lost \cup {t}) = Cardinality(lost)
                \/ Cardinality(lost \cup {t}) = Cardinality(lost) + 1)
      BY <1>3, FS_AddElement
    <3> QED BY <1>3, <3>1
  <2>3. Cardinality(lostNow) <= Cardinality(lost \cup {t}) /\ Cardinality(lostNow) \in Nat
    BY <2>1, <2>2, FS_Subset, FS_CardinalityType
  <2>4. Partial(lines) = 1
    BY <1>5 DEF Partial
  <2> HIDE DEF lost, lostNow, new
  <2> QED BY <1>3, <1>6, <2>2, <2>3, <2>4
<1> QED BY <1>4, <1>5

-----------------------------------------------------------------------------
(* The totals of the dashboard.                                            *)

Tally(seen) == [seen |-> seen, count |-> Cardinality(seen)]
AtMostOne(hashes) == hashes = {} \/ \E t : hashes = {t}
(* The hashes of the first k.                                              *)
Upto(hashes, k) == UNION {hashes[i] : i \in 1 .. k}

(* A turn of the loop counts a hash that was not seen.                     *)
LEMMA CountedTally ==
  ASSUME NEW seen, IsFiniteSet(seen), NEW hashes, AtMostOne(hashes)
  PROVE  /\ IsFiniteSet(seen \cup hashes)
         /\ Counted(Tally(seen), hashes) = Tally(seen \cup hashes)
<1>1. CASE hashes \subseteq seen
  <2>1. seen \cup hashes = seen
    BY <1>1
  <2> QED
    BY <1>1, <2>1 DEF Counted, Tally
<1>2. CASE ~(hashes \subseteq seen)
  <2>1. PICK t : hashes = {t} /\ t \notin seen
    BY <1>2 DEF AtMostOne
  <2>2. /\ IsFiniteSet(seen \cup {t})
        /\ Cardinality(seen \cup {t}) = Cardinality(seen) + 1
    BY <2>1, FS_AddElement
  <2> QED
    BY <1>2, <2>1, <2>2 DEF Counted, Tally
<1> QED
  BY <1>1, <1>2

(* The loop counts the hashes it sees: its state after k turns is the tally*)
(* of the first k, and no other function solves its recursion.             *)
LEMMA CountAllTally ==
  ASSUME NEW seen, IsFiniteSet(seen), NEW hashes, Len(hashes) \in Nat,
         \A i \in 1 .. Len(hashes) : AtMostOne(hashes[i])
  PROVE  /\ IsFiniteSet(seen \cup Upto(hashes, Len(hashes)))
         /\ CountAll(Tally(seen), hashes) = Tally(seen \cup Upto(hashes, Len(hashes)))
<1> DEFINE n == Len(hashes)
<1> DEFINE S(k) == seen \cup Upto(hashes, k)
<1> DEFINE Solves(g) ==
      g = [i \in 0 .. n |-> IF i = 0 THEN Tally(seen) ELSE Counted(g[i - 1], hashes[i])]
<1>1. S(0) = seen
  BY DEF Upto
<1>2. ASSUME NEW k \in 1 .. n
      PROVE  S(k) = S(k - 1) \cup hashes[k]
  <2>1. 1 .. k = (1 .. (k - 1)) \cup {k}
    OBVIOUS
  <2>2. Upto(hashes, k) = Upto(hashes, k - 1) \cup hashes[k]
    BY <2>1 DEF Upto
  <2> QED
    BY <2>2
<1> HIDE DEF S, n
<1>3. \A k \in 0 .. n : IsFiniteSet(S(k))
  <2> DEFINE Bad == {k \in 0 .. n : ~IsFiniteSet(S(k))}
  <2> SUFFICES ASSUME Bad # {}
               PROVE  FALSE
    OBVIOUS
  <2>1. Bad \in SUBSET Nat
    BY DEF n
  <2>2. PICK k \in Bad : \A m \in Bad : k <= m
    BY <2>1, SmallestNumber
  <2>3. k # 0
    BY <1>1, <2>2
  <2>4. k \in 1 .. n /\ k - 1 \in 0 .. n /\ ~(k <= k - 1)
    BY <2>3 DEF n
  <2>5. IsFiniteSet(S(k - 1))
    BY <2>2, <2>4
  <2>6. IsFiniteSet(S(k - 1) \cup hashes[k])
    BY <2>4, <2>5, CountedTally DEF n
  <2> QED
    BY <1>2, <2>4, <2>6
<1>4. \A k \in 1 .. n : Counted(Tally(S(k - 1)), hashes[k]) = Tally(S(k))
  <2> SUFFICES ASSUME NEW k \in 1 .. n
               PROVE  Counted(Tally(S(k - 1)), hashes[k]) = Tally(S(k))
    OBVIOUS
  <2>1. IsFiniteSet(S(k - 1)) /\ AtMostOne(hashes[k])
    BY <1>3 DEF n
  <2> QED
    BY <1>2, <2>1, CountedTally
<1> DEFINE G == [i \in 0 .. n |-> Tally(S(i))]
<1>5. Solves(G)
  <2>1. \A i \in 0 .. n : Tally(S(i)) = IF i = 0 THEN Tally(seen)
                                         ELSE Counted(G[i - 1], hashes[i])
    <3> SUFFICES ASSUME NEW i \in 0 .. n, i # 0
                 PROVE  Tally(S(i)) = Counted(G[i - 1], hashes[i])
      BY <1>1
    <3>1. i \in 1 .. n /\ i - 1 \in 0 .. n
      BY DEF n
    <3>2. G[i - 1] = Tally(S(i - 1))
      BY <3>1
    <3> QED
      BY <1>4, <3>1, <3>2
  <2> QED
    BY <2>1
<1>6. ASSUME NEW g, Solves(g)
      PROVE  g[n] = Tally(S(n))
  <2> DEFINE Bad == {k \in 0 .. n : g[k] # Tally(S(k))}
  <2>1. CASE Bad # {}
    <3>1. Bad \in SUBSET Nat
      BY DEF n
    <3>2. PICK k \in Bad : \A m \in Bad : k <= m
      BY <2>1, <3>1, SmallestNumber
    <3>3. g[k] = IF k = 0 THEN Tally(seen) ELSE Counted(g[k - 1], hashes[k])
      BY <1>6, <3>2
    <3>4. k # 0
      BY <1>1, <3>2, <3>3
    <3>5. k \in 1 .. n /\ k - 1 \in 0 .. n /\ ~(k <= k - 1)
      BY <3>4 DEF n
    <3>6. g[k - 1] = Tally(S(k - 1))
      BY <3>2, <3>5
    <3> QED
      BY <1>4, <3>2, <3>3, <3>4, <3>5, <3>6
  <2>2. CASE Bad = {}
    BY <2>2 DEF n
  <2> QED
    BY <2>1, <2>2
<1>7. CountAll(Tally(seen), hashes) = (CHOOSE g : Solves(g))[n]
  BY DEF CountAll, n
<1>8. Solves(CHOOSE g : Solves(g))
  BY <1>5
<1>9. CountAll(Tally(seen), hashes) = Tally(S(n))
  <2> DEFINE c == CHOOSE g : Solves(g)
  <2>1. Solves(c)
    BY <1>8
  <2> HIDE DEF c
  <2>2. c[n] = Tally(S(n))
    BY <1>6, <2>1
  <2> QED
    BY <1>7, <2>2 DEF c
<1>10. n \in 0 .. n
  BY DEF n
<1>11. IsFiniteSet(S(n))
  BY <1>3, <1>10
<1> QED
  BY <1>9, <1>11 DEF S, n

-----------------------------------------------------------------------------
(* The ledger.                                                             *)

(* Entering the ledger adds the settlement and takes none away.            *)
LEMMA EntryType ==
  ASSUME NEW entries \in Seq(Entry), NEW e \in Entry, NEW older \in BOOLEAN
  PROVE  /\ WithEntry(entries, e, older) \in Seq(Entry)
         /\ Settlements(WithEntry(entries, e, older)) = Settlements(entries) \cup {e.tx}
<1>1. Append(entries, e) \in Seq(Entry)
      /\ Settlements(Append(entries, e)) = Settlements(entries) \cup {e.tx}
  <2> DEFINE new == Append(entries, e)
  <2>1. /\ new \in Seq(Entry) /\ DOMAIN new = 1 .. Len(entries) + 1
        /\ DOMAIN entries = 1 .. Len(entries) /\ Len(entries) \in Nat
        /\ new[Len(entries) + 1] = e
        /\ \A i \in DOMAIN entries : new[i] = entries[i]
    OBVIOUS
  <2>2. ToSet(new) = ToSet(entries) \cup {e}
    BY <2>1 DEF ToSet
  <2> QED
    BY <2>1, <2>2 DEF Settlements
<1>2. <<e>> \o entries \in Seq(Entry)
      /\ Settlements(<<e>> \o entries) = Settlements(entries) \cup {e.tx}
  <2> DEFINE new == <<e>> \o entries
  <2>1. /\ new \in Seq(Entry) /\ DOMAIN new = 1 .. Len(entries) + 1
        /\ DOMAIN entries = 1 .. Len(entries) /\ Len(entries) \in Nat
        /\ new[1] = e
        /\ \A i \in DOMAIN new \ {1} : i - 1 \in DOMAIN entries /\ new[i] = entries[i - 1]
        /\ \A i \in DOMAIN entries : i + 1 \in DOMAIN new /\ new[i + 1] = entries[i]
    OBVIOUS
  <2>2. ToSet(new) = ToSet(entries) \cup {e}
    <3> HIDE DEF new
    <3>1. ToSet(new) \subseteq ToSet(entries) \cup {e}
      BY <2>1 DEF ToSet
    <3>2. 1 \in DOMAIN new
      BY <2>1
    <3>3. ToSet(entries) \cup {e} \subseteq ToSet(new)
      BY <2>1, <3>2 DEF ToSet
    <3> QED
      BY <3>1, <3>3
  <2> QED
    BY <2>1, <2>2 DEF Settlements
<1> QED
  BY <1>1, <1>2 DEF WithEntry

LEMMA EnterStep ==
  ASSUME FilesInv, NEW t \in settled', settled \subseteq settled', settled' \subseteq TxIds,
         NEW by \in {"wallet", "recovery", "record"}, NEW older \in BOOLEAN,
         NEW saved \in BOOLEAN, Enter(t, by, older, saved)
  PROVE  /\ ledger' \in Seq(Entry) /\ disk' \in Seq(Entry)
         /\ Settlements(ledger') \cup Settlements(disk') \subseteq settled'
<1>1. ledger \in Seq(Entry) /\ disk \in Seq(Entry) /\ t \in TxIds
      /\ Settlements(ledger) \subseteq settled /\ Settlements(disk) \subseteq settled
  BY DEF FilesInv, FilesTypeOK, NothingInvented
<1>2. [tx |-> t, by |-> by] \in Entry
  BY <1>1 DEF Entry
<1>3. PICK e \in Entry : e = [tx |-> t, by |-> by]
  BY <1>2
<1>4. WithEntry(ledger, e, older) \in Seq(Entry)
      /\ Settlements(WithEntry(ledger, e, older)) \subseteq Settlements(ledger) \cup {t}
  BY <1>1, <1>3, EntryType
<1>5. ledger' = WithEntry(ledger, e, older) /\ disk' = IF saved THEN ledger' ELSE disk
  BY <1>3 DEF Enter
<1> QED BY <1>1, <1>4, <1>5

-----------------------------------------------------------------------------
(* Where the writers are.                                                  *)

Known(w, made) == w.at \in {"read", "torn", "append", "enter"} => w.tx \in made

LEMMA PlacedStep ==
  ASSUME FilesInv, NEW p \in Handlers \cup Runs, settled \subseteq settled',
         NEW w \in Work, Known(w, settled'), work' = [work EXCEPT ![p] = w]
  PROVE  work' \in [Handlers \cup Runs -> Work] /\ WorksOnSettled'
<1>1. work \in [Handlers \cup Runs -> Work] /\ WorksOnSettled
  BY DEF FilesInv, FilesTypeOK
<1>2. work' \in [Handlers \cup Runs -> Work]
  BY <1>1
<1>3. ASSUME NEW q \in Handlers \cup Runs PROVE Known(work'[q], settled')
  <2>1. CASE q = p
    BY <1>1, <2>1
  <2>2. CASE q # p
    BY <1>1, <2>2 DEF WorksOnSettled, Known
  <2> QED BY <2>1, <2>2
<1>4. WorksOnSettled'
  BY <1>3 DEF WorksOnSettled, Known
<1> QED BY <1>2, <1>4

LEMMA GotoStep ==
  ASSUME FilesInv, NEW p \in Handlers \cup Runs, settled \subseteq settled',
         work[p].tx \in settled', NEW place \in Place, Goto(p, place)
  PROVE  work' \in [Handlers \cup Runs -> Work] /\ WorksOnSettled'
<1>1. work \in [Handlers \cup Runs -> Work] /\ work[p] \in Work
  BY DEF FilesInv, FilesTypeOK
<1>2. [work[p] EXCEPT !.at = place] \in Work
      /\ [work[p] EXCEPT !.at = place].tx = work[p].tx
  BY <1>1 DEF Work
<1>3. PICK w \in Work : w = [work[p] EXCEPT !.at = place]
  BY <1>2
<1>4. work' = [work EXCEPT ![p] = w]
  BY <1>1, <1>3 DEF Goto
<1>5. Known(w, settled')
  BY <1>2, <1>3 DEF Known
<1> QED BY <1>4, <1>5, PlacedStep

LEMMA LeaveStep ==
  ASSUME FilesInv, NEW p \in Handlers \cup Runs, settled \subseteq settled', Leave(p)
  PROVE  work' \in [Handlers \cup Runs -> Work] /\ WorksOnSettled'
<1>a. Idle \in Work /\ Idle.at = "idle"
  BY DEF Idle, Work, Place
<1>b. Exited \in Work /\ Exited.at = "exited"
  BY <1>a DEF Exited, Work, Place
<1>1. PICK w \in Work : w = (IF p \in Runs THEN Exited ELSE Idle)
  BY <1>a, <1>b
<1>2. work' = [work EXCEPT ![p] = w]
  BY <1>1 DEF Leave
<1>3. Known(w, settled')
  BY <1>1, <1>a, <1>b DEF Known
<1> QED BY <1>2, <1>3, PlacedStep

LEMMA PastHistoryStep ==
  ASSUME FilesInv, NEW p \in Handlers \cup Runs, settled \subseteq settled',
         work[p].tx \in settled', PastHistory(p)
  PROVE  work' \in [Handlers \cup Runs -> Work] /\ WorksOnSettled'
<1>1. CASE Leave(p)
  BY <1>1, LeaveStep
<1>2. CASE Goto(p, "enter")
  BY <1>2, GotoStep DEF Place
<1> QED BY <1>1, <1>2 DEF PastHistory

(* The writer at p and the invariant's parts, in the form the steps use.   *)
LEMMA WriterFacts ==
  ASSUME FilesInv, NEW p \in Handlers \cup Runs,
         work[p].at \in {"read", "torn", "append", "enter"}
  PROVE  work[p].tx \in settled /\ work[p].tx \in TxIds
BY DEF FilesInv, FilesTypeOK, WorksOnSettled

(* What a step that leaves the files alone has to show.                    *)
LEMMA OtherFilesStep ==
  ASSUME FilesInv, settled \subseteq settled', settled' \subseteq TxIds,
         onChain' \subseteq settled', proof' \in settled' \cup {proof, "torn"},
         UNCHANGED <<history, appended, answered, faults>>,
         ledger' \in Seq(Entry), disk' \in Seq(Entry),
         Settlements(ledger') \cup Settlements(disk') \subseteq settled',
         work' \in [Handlers \cup Runs -> Work], WorksOnSettled'
  PROVE  FilesInv'
<1>1. FilesTypeOK /\ NothingInvented /\ IsFiniteSet(appended) /\ FailuresPaid
  BY DEF FilesInv
<1>2. FilesTypeOK'
  BY <1>1 DEF FilesTypeOK
<1>3. NothingInvented'
  <2>1. Mentioned(history') = Mentioned(history)
    OBVIOUS
  <2>2. {proof'} \cap TxIds \subseteq settled' \cup ({proof} \cap TxIds)
    BY FilesAssumption
  <2> QED BY <1>1, <2>1, <2>2 DEF NothingInvented
<1>4. FailuresPaid'
  BY <1>1 DEF FailuresPaid
<1> QED BY <1>1, <1>2, <1>3, <1>4 DEF FilesInv

-----------------------------------------------------------------------------
(* The steps.                                                              *)

LEMMA InvFacts ==
  ASSUME FilesInv
  PROVE  /\ settled \subseteq TxIds /\ onChain \subseteq settled
         /\ proof \in TxIds \cup {"absent", "torn"}
         /\ ledger \in Seq(Entry) /\ disk \in Seq(Entry)
         /\ Settlements(ledger) \cup Settlements(disk) \subseteq settled
         /\ work \in [Handlers \cup Runs -> Work] /\ WorksOnSettled
BY DEF FilesInv, FilesTypeOK, NothingInvented

LEMMA WalletPaysStep ==
  ASSUME FilesInv, NEW h \in Handlers, NEW t \in TxIds, NEW saved \in BOOLEAN,
         WalletPays(h, t, saved)
  PROVE  FilesInv'
<1>1. settled \subseteq settled' /\ settled' \subseteq TxIds /\ t \in settled'
  BY InvFacts DEF WalletPays
<1>2. ledger' \in Seq(Entry) /\ disk' \in Seq(Entry)
      /\ Settlements(ledger') \cup Settlements(disk') \subseteq settled'
  BY <1>1, EnterStep DEF WalletPays
<1>3. Promoting(t, TRUE) \in Work /\ Known(Promoting(t, TRUE), settled')
  BY DEF Promoting, Work, Place, Known
<1>4. PICK w \in Work : w = Promoting(t, TRUE)
  BY <1>3
<1>5. work' \in [Handlers \cup Runs -> Work] /\ WorksOnSettled'
  BY <1>1, <1>3, <1>4, PlacedStep DEF WalletPays
<1> QED BY <1>1, <1>2, <1>5, InvFacts, OtherFilesStep DEF WalletPays

LEMMA BeginRecoveryStep ==
  ASSUME FilesInv, NEW h \in Handlers, NEW t \in TxIds, BeginRecovery(h, t)
  PROVE  FilesInv'
<1>1. Promoting(t, FALSE) \in Work /\ Known(Promoting(t, FALSE), settled')
  BY DEF Promoting, Work, Place, Known
<1>2. PICK w \in Work : w = Promoting(t, FALSE)
  BY <1>1
<1>3. work' \in [Handlers \cup Runs -> Work] /\ WorksOnSettled'
  BY <1>1, <1>2, PlacedStep DEF BeginRecovery
<1> QED BY <1>3, InvFacts, OtherFilesStep DEF BeginRecovery

(* The steps of a handler that checks or looks.                            *)
LEMMA CheckSteps ==
  ASSUME FilesInv, NEW h \in Handlers,
         Promotes(h) \/ PromotionRefused(h) \/ ReadHistory(h) \/ Stops(h)
  PROVE  FilesInv'
<1>1. CASE Promotes(h)
  <2>1. work[h].tx \in settled' /\ settled' = settled
    BY <1>1, InvFacts DEF Promotes
  <2>2. work' \in [Handlers \cup Runs -> Work] /\ WorksOnSettled'
    BY <1>1, <2>1, GotoStep DEF Promotes, Place
  <2> QED BY <1>1, <2>1, <2>2, InvFacts, OtherFilesStep DEF Promotes
<1>2. CASE PromotionRefused(h)
  BY <1>2, InvFacts, LeaveStep, OtherFilesStep DEF PromotionRefused
<1>3. CASE ReadHistory(h)
  <2>1. work[h].tx \in settled' /\ settled' = settled
    BY <1>3, WriterFacts DEF ReadHistory
  <2>2. work' \in [Handlers \cup Runs -> Work] /\ WorksOnSettled'
    BY <1>3, <2>1, GotoStep, PastHistoryStep DEF ReadHistory, Place
  <2> QED BY <1>3, <2>2, InvFacts, OtherFilesStep DEF ReadHistory
<1>4. CASE Stops(h)
  BY <1>4, InvFacts, LeaveStep, OtherFilesStep DEF Stops
<1> QED BY <1>1, <1>2, <1>3, <1>4

(* A line in full: what it costs was paid for.                             *)
LEMMA AppendHistoryStep ==
  ASSUME FilesInv, NEW p \in Handlers \cup Runs, AppendHistory(p)
  PROVE  FilesInv'
<1> DEFINE t == work[p].tx
<1>1. t \in settled /\ t \in TxIds /\ history \in Seq(Line)
  BY WriterFacts DEF AppendHistory, FilesInv, FilesTypeOK
<1>2. history' = WithLine(history, WholeLine(t)) /\ appended' = appended \cup {t}
      /\ UNCHANGED <<settled, onChain, proof, ledger, disk, answered, faults>>
  BY DEF AppendHistory
<1>3. work' \in [Handlers \cup Runs -> Work] /\ WorksOnSettled'
  BY <1>1, PastHistoryStep DEF AppendHistory
<1>4. history' \in Seq(Line) /\ Mentioned(history') \subseteq Mentioned(history) \cup {t}
  <2>1. WholeLine(t) \in Line /\ WholeLine(t).mentions = {t}
    BY <1>1, WholeLineType
  <2> HIDE DEF t
  <2>2. PICK line \in Line : line = WholeLine(t)
    BY <2>1
  <2> QED BY <1>1, <1>2, <2>1, <2>2, WrittenLine
<1>5. FilesTypeOK'
  <2> HIDE DEF t
  <2>1. FilesTypeOK
    BY DEF FilesInv
  <2> QED BY <1>1, <1>2, <1>3, <1>4, <2>1 DEF FilesTypeOK
<1>6. NothingInvented'
  BY <1>1, <1>2, <1>4 DEF FilesInv, NothingInvented
<1>7. IsFiniteSet(appended) /\ IsFiniteSet(appended')
  BY <1>2, FS_AddElement DEF FilesInv
<1>8. FailuresPaid'
  <2>1. PICK s \in TxIds : s = t
    BY <1>1
  <2>2. PICK lines \in Seq(Line) : lines = history
    BY <1>1
  <2>3. PICK done : done = appended
    OBVIOUS
  <2>4. Cardinality((done \cup {s}) \ Kept(WithLine(lines, WholeLine(s))))
          + Partial(WithLine(lines, WholeLine(s)))
          <= Cardinality(done \ Kept(lines)) + Partial(lines)
    BY <1>7, <2>3, WholeLineCost
  <2>5. Cardinality(appended' \ Kept(history')) + Partial(history')
          <= Cardinality(appended \ Kept(history)) + Partial(history)
    BY <1>2, <2>1, <2>2, <2>3, <2>4
  <2>6. /\ Cardinality(appended' \ Kept(history')) \in Nat
        /\ Cardinality(appended \ Kept(history)) \in Nat
    BY <1>7, FS_Difference, FS_CardinalityType
  <2>7. Partial(history') \in Nat /\ Partial(history) \in Nat
    BY DEF Partial
  <2>8. faults.writes \in Nat /\ faults' = faults
    BY <1>2 DEF FilesInv, FilesTypeOK
  <2> QED BY <2>5, <2>6, <2>7, <2>8 DEF FilesInv, FailuresPaid
<1> QED BY <1>1, <1>2, <1>3, <1>5, <1>6, <1>7, <1>8 DEF FilesInv

(* A partial line is paid for by the failure that leaves it.               *)
LEMMA AppendFailsStep ==
  ASSUME FilesInv, NEW p \in Handlers \cup Runs, AppendFails(p)
  PROVE  FilesInv'
<1> DEFINE t == work[p].tx
<1>1. t \in settled /\ t \in TxIds /\ history \in Seq(Line)
  BY WriterFacts DEF AppendFails, FilesInv, FilesTypeOK
<1>2. PICK f \in Fragments(WholeLine(t)) : history' = WithLine(history, f)
  BY DEF AppendFails
<1>3. f \in Line /\ f.mentions = {t}
  BY <1>1, WholeLineType
<1>4. UNCHANGED <<settled, onChain, proof, ledger, disk, appended, answered>>
  BY DEF AppendFails
<1>5. faults' \in [writes: Nat, restarts: Nat] /\ faults'.writes = faults.writes + 1
      /\ faults.writes \in Nat
  <2>1. faults \in [writes: Nat, restarts: Nat]
    BY DEF FilesInv, FilesTypeOK
  <2>2. faults' = [faults EXCEPT !.writes = @ + 1]
    BY DEF AppendFails
  <2> QED BY <2>1, <2>2
<1>6. work' \in [Handlers \cup Runs -> Work] /\ WorksOnSettled'
  BY <1>4, LeaveStep DEF AppendFails
<1>7. history' \in Seq(Line) /\ Mentioned(history') \subseteq Mentioned(history) \cup {t}
      /\ Kept(history) \subseteq Kept(history')
  BY <1>1, <1>2, <1>3, WrittenLine
<1>8. FilesTypeOK'
  BY <1>4, <1>5, <1>6, <1>7 DEF FilesInv, FilesTypeOK
<1>9. NothingInvented'
  BY <1>1, <1>4, <1>7 DEF FilesInv, NothingInvented
<1>10. FailuresPaid'
  <2>1. appended' \ Kept(history') \subseteq appended \ Kept(history)
    BY <1>4, <1>7
  <2>2. IsFiniteSet(appended \ Kept(history))
    BY FS_Difference DEF FilesInv
  <2>3. /\ Cardinality(appended' \ Kept(history')) <= Cardinality(appended \ Kept(history))
        /\ Cardinality(appended' \ Kept(history')) \in Nat
        /\ Cardinality(appended \ Kept(history)) \in Nat
    BY <2>1, <2>2, FS_Subset, FS_CardinalityType
  <2>4. Partial(history') \in 0 .. 1 /\ Partial(history) \in Nat
    BY DEF Partial
  <2> QED BY <1>5, <2>3, <2>4 DEF FilesInv, FailuresPaid
<1> QED BY <1>4, <1>6, <1>8, <1>9, <1>10 DEF FilesInv

LEMMA RecoveryEndsStep ==
  ASSUME FilesInv, NEW h \in Handlers, NEW saved \in BOOLEAN, RecoveryEnds(h, saved)
  PROVE  FilesInv'
<1>1. work[h].tx \in settled /\ work[h].tx \in TxIds
      /\ UNCHANGED <<settled, onChain, proof, history, appended, faults>>
  BY WriterFacts DEF RecoveryEnds
<1>2. PICK t \in settled' : t = work[h].tx
  BY <1>1
<1>3. settled \subseteq settled' /\ settled' \subseteq TxIds
  BY <1>1, InvFacts
<1>4. ledger' \in Seq(Entry) /\ disk' \in Seq(Entry)
      /\ Settlements(ledger') \cup Settlements(disk') \subseteq settled'
  BY <1>2, <1>3, EnterStep DEF RecoveryEnds, EnterRecovered
<1>5. work' \in [Handlers \cup Runs -> Work] /\ WorksOnSettled'
  BY <1>3, LeaveStep DEF RecoveryEnds
<1>6. FilesTypeOK /\ NothingInvented /\ IsFiniteSet(appended) /\ FailuresPaid
      /\ onChain \subseteq settled
  BY DEF FilesInv
<1>7. answered' \subseteq TxIds
  BY <1>1, <1>6 DEF RecoveryEnds, FilesTypeOK
<1>8. FilesTypeOK'
  BY <1>1, <1>4, <1>5, <1>6, <1>7 DEF FilesTypeOK
<1>9. NothingInvented'
  BY <1>1, <1>4, <1>6 DEF NothingInvented
<1>10. FailuresPaid'
  BY <1>1, <1>6 DEF FailuresPaid
<1> QED BY <1>1, <1>5, <1>6, <1>8, <1>9, <1>10 DEF FilesInv

LEMMA RecordProofStep ==
  ASSUME FilesInv, NEW saved \in BOOLEAN, RecordProof(saved)
  PROVE  FilesInv'
<1>1. settled' = settled /\ work' = work
  BY DEF RecordProof
<1>2. PICK t \in settled' : t = proof
  BY <1>1, InvFacts DEF RecordProof
<1>3. ledger' \in Seq(Entry) /\ disk' \in Seq(Entry)
      /\ Settlements(ledger') \cup Settlements(disk') \subseteq settled'
  BY <1>1, <1>2, InvFacts, EnterStep DEF RecordProof
<1>4. WorksOnSettled'
  BY <1>1, InvFacts DEF WorksOnSettled
<1> QED BY <1>1, <1>3, <1>4, InvFacts, OtherFilesStep DEF RecordProof

LEMMA RestartStep ==
  ASSUME FilesInv, GatewayRestarts
  PROVE  FilesInv'
<1>1. /\ work' = [p \in Handlers \cup Runs |-> IF p \in Runs THEN work[p] ELSE Idle]
      /\ ledger' = disk
      /\ UNCHANGED <<settled, onChain, proof, history, disk, appended, answered>>
  BY DEF GatewayRestarts
<1>2. FilesTypeOK /\ NothingInvented /\ WorksOnSettled /\ IsFiniteSet(appended)
      /\ FailuresPaid /\ onChain \subseteq settled
  BY DEF FilesInv
<1>3. faults' \in [writes: Nat, restarts: Nat] /\ faults'.writes = faults.writes
  <2>1. faults \in [writes: Nat, restarts: Nat]
    BY <1>2 DEF FilesTypeOK
  <2>2. faults' = [faults EXCEPT !.restarts = @ + 1]
    BY DEF GatewayRestarts
  <2> QED BY <2>1, <2>2
<1>4. Idle \in Work /\ Idle.at = "idle"
  BY DEF Idle, Work, Place
<1>5. work' \in [Handlers \cup Runs -> Work]
  BY <1>1, <1>2, <1>4 DEF FilesTypeOK
<1>6. WorksOnSettled'
  BY <1>1, <1>2, <1>4 DEF WorksOnSettled
<1>7. FilesTypeOK'
  BY <1>1, <1>2, <1>3, <1>5 DEF FilesTypeOK
<1>8. NothingInvented'
  BY <1>1, <1>2 DEF NothingInvented
<1>9. FailuresPaid'
  BY <1>1, <1>2, <1>3 DEF FailuresPaid
<1> QED BY <1>1, <1>2, <1>6, <1>7, <1>8, <1>9 DEF FilesInv

(* The steps of the client, and of the chain.                              *)
LEMMA RunSteps ==
  ASSUME FilesInv, NEW r \in Runs,
         \/ \E t \in TxIds : ClientPays(r, t)
         \/ ClientWrites(r) \/ Stops(r)
  PROVE  FilesInv'
<1>1. ASSUME NEW t \in TxIds, ClientPays(r, t) PROVE FilesInv'
  <2>1. settled \subseteq settled' /\ settled' \subseteq TxIds /\ t \in settled'
    BY <1>1, InvFacts DEF ClientPays
  <2>2. work' = [work EXCEPT ![r] = [@ EXCEPT !.at = "torn", !.tx = t]]
    BY <1>1, InvFacts DEF ClientPays, Work
  <2>3. [work[r] EXCEPT !.at = "torn", !.tx = t] \in Work
        /\ [work[r] EXCEPT !.at = "torn", !.tx = t].tx = t
    BY InvFacts DEF Work, Place
  <2>4. PICK w \in Work : w = [work[r] EXCEPT !.at = "torn", !.tx = t]
    BY <2>3
  <2>5. Known(w, settled')
    BY <2>1, <2>3, <2>4 DEF Known
  <2>6. work' = [work EXCEPT ![r] = w]
    BY <2>2, <2>4
  <2>7. work' \in [Handlers \cup Runs -> Work] /\ WorksOnSettled'
    BY <2>1, <2>5, <2>6, PlacedStep
  <2> QED BY <1>1, <2>1, <2>7, InvFacts, OtherFilesStep DEF ClientPays
<1>2. CASE ClientWrites(r)
  <2>1. work[r].tx \in settled' /\ settled' = settled
    BY <1>2, WriterFacts DEF ClientWrites
  <2>2. work' \in [Handlers \cup Runs -> Work] /\ WorksOnSettled'
    BY <1>2, <2>1, GotoStep DEF ClientWrites, Place
  <2> QED BY <1>2, <2>1, <2>2, InvFacts, OtherFilesStep DEF ClientWrites
<1>3. CASE Stops(r)
  BY <1>3, InvFacts, LeaveStep, OtherFilesStep DEF Stops
<1> QED BY <1>1, <1>2, <1>3

LEMMA ChainSteps ==
  ASSUME FilesInv, NEW t \in TxIds, PaysUnheard(t) \/ Confirm(t)
  PROVE  FilesInv'
<1>1. settled \subseteq settled' /\ settled' \subseteq TxIds /\ onChain' \subseteq settled'
      /\ UNCHANGED <<proof, history, ledger, disk, work, appended, answered, faults>>
  BY InvFacts DEF PaysUnheard, Confirm
<1>2. WorksOnSettled' /\ work' \in [Handlers \cup Runs -> Work]
  BY <1>1, InvFacts DEF WorksOnSettled
<1> QED BY <1>1, <1>2, InvFacts, OtherFilesStep

LEMMA FilesInitially ==
  FilesInit => FilesInv
<1> SUFFICES ASSUME FilesInit PROVE FilesInv
  OBVIOUS
<1>1. Idle \in Work /\ Idle.at = "idle"
  BY DEF Idle, Work, Place
<1>2. FilesTypeOK
  BY <1>1 DEF FilesInit, FilesTypeOK
<1>3. Mentioned(history) = {} /\ Settlements(ledger) = {} /\ Settlements(disk) = {}
  BY DEF FilesInit, Mentioned, Settlements, ToSet
<1>4. NothingInvented
  BY <1>3, FilesAssumption DEF FilesInit, NothingInvented
<1>5. WorksOnSettled
  BY <1>1 DEF FilesInit, WorksOnSettled
<1>6. FailuresPaid
  <2>1. appended \ Kept(history) = {} /\ Partial(history) = 0
    BY DEF FilesInit, Partial, LastEnded
  <2> QED BY <2>1, FS_EmptySet DEF FilesInit, FailuresPaid
<1> QED BY <1>2, <1>4, <1>5, <1>6, FS_EmptySet DEF FilesInit, FilesInv

LEMMA FilesStep ==
  FilesInv /\ [FilesNext]_fileVars => FilesInv'
<1> SUFFICES ASSUME FilesInv, [FilesNext]_fileVars PROVE FilesInv'
  OBVIOUS
<1>1. ASSUME NEW h \in Handlers, HandlerNext(h) PROVE FilesInv'
  BY <1>1, WalletPaysStep, BeginRecoveryStep, CheckSteps, AppendHistoryStep,
     AppendFailsStep, RecoveryEndsStep DEF HandlerNext
<1>2. ASSUME NEW r \in Runs, RunNext(r) PROVE FilesInv'
  BY <1>2, RunSteps, AppendHistoryStep, AppendFailsStep DEF RunNext
<1>3. ASSUME NEW saved \in BOOLEAN, RecordProof(saved) PROVE FilesInv'
  BY <1>3, RecordProofStep
<1>4. ASSUME NEW t \in TxIds, PaysUnheard(t) \/ Confirm(t) PROVE FilesInv'
  BY <1>4, ChainSteps
<1>5. CASE GatewayRestarts
  BY <1>5, RestartStep
<1>6. CASE UNCHANGED fileVars
  <2>1. UNCHANGED <<settled, onChain, proof, history, ledger, disk, work, appended,
                    answered, faults>>
    BY <1>6 DEF fileVars
  <2>2. WorksOnSettled'
    BY <2>1, InvFacts DEF WorksOnSettled
  <2> QED BY <2>1, <2>2, InvFacts, OtherFilesStep
<1> QED BY <1>1, <1>2, <1>3, <1>4, <1>5, <1>6 DEF FilesNext

LEMMA FilesInvariant == FilesSpec => []FilesInv
BY FilesInitially, FilesStep, PTL DEF FilesSpec

-----------------------------------------------------------------------------
(* The theorems.                                                           *)

(* Every file, ledger and place keeps its type, whatever fails: lines that *)
(* are glued together stay lines, and a torn proof is told from a proof.   *)
THEOREM FilesTypeCorrect == FilesSpec => []FilesTypeOK
BY FilesInvariant, PTL DEF FilesInv

(* No hash that never settled gets into the proof file, the history or the *)
(* ledger, though a recovery promotes whatever hash its caller names: the  *)
(* promotion waits for the chain, and later steps use what it promoted.    *)
THEOREM NothingFromNowhere == FilesSpec => []NothingInvented
BY FilesInvariant, PTL DEF FilesInv

LEMMA KeptIsReadable == Kept(history) \subseteq Readable(history)
BY DEF Kept, Readable

(* Any number of handlers and runs append to the history, and each failed  *)
(* write costs at most one settlement whose line was written in full.      *)
THEOREM FailuresBounded == FilesSpec => []FailureCost
<1>1. FilesInv => FailureCost
  <2> SUFFICES ASSUME FilesInv PROVE FailureCost
    OBVIOUS
  <2>1. appended \ Readable(history) \subseteq appended \ Kept(history)
    BY KeptIsReadable
  <2>2. IsFiniteSet(appended \ Kept(history))
    BY FS_Difference DEF FilesInv
  <2>3. /\ Cardinality(appended \ Readable(history)) <= Cardinality(appended \ Kept(history))
        /\ Cardinality(appended \ Readable(history)) \in Nat
        /\ Cardinality(appended \ Kept(history)) \in Nat
    BY <2>1, <2>2, FS_Subset, FS_CardinalityType
  <2>4. Partial(history) \in Nat /\ faults.writes \in Nat
    BY DEF Partial, FilesInv, FilesTypeOK
  <2> QED BY <2>3, <2>4 DEF FilesInv, FailuresPaid, FailureCost
<1> QED BY <1>1, FilesInvariant, PTL

LEMMA FilesTypedLines == FilesInv => history \in Seq(Line)
BY DEF FilesInv, FilesTypeOK

(* No handler, run or failed write damages a line that ends in its         *)
(* newline: what anyone adds goes behind it.                               *)
THEOREM HistoryOnlyGrows == FilesSpec => HistoryKept
<1>1. FilesInv /\ [FilesNext]_fileVars => Kept(history) \subseteq Kept(history')
  <2> SUFFICES ASSUME FilesInv, [FilesNext]_fileVars
               PROVE  Kept(history) \subseteq Kept(history')
    OBVIOUS
  <2>1. history \in Seq(Line)
    BY FilesTypedLines
  <2>2. ASSUME NEW p \in Handlers \cup Runs, AppendHistory(p) \/ AppendFails(p)
        PROVE  \E line \in Line : history' = WithLine(history, line)
    <3>1. work[p].tx \in TxIds
      BY <2>2, WriterFacts DEF AppendHistory, AppendFails
    <3>2. WholeLine(work[p].tx) \in Line /\ Fragments(WholeLine(work[p].tx)) \subseteq Line
      BY <3>1, WholeLineType
    <3> QED BY <2>2, <3>2 DEF AppendHistory, AppendFails
  <2>3. \/ history' = history
        \/ \E line \in Line : history' = WithLine(history, line)
    <3>1. ASSUME NEW h \in Handlers, HandlerNext(h)
          PROVE  history' = history \/ \E line \in Line : history' = WithLine(history, line)
      BY <2>2, <3>1 DEF HandlerNext, WalletPays, BeginRecovery, Promotes, PromotionRefused,
         ReadHistory, Stops, RecoveryEnds
    <3>2. ASSUME NEW r \in Runs, RunNext(r)
          PROVE  history' = history \/ \E line \in Line : history' = WithLine(history, line)
      BY <2>2, <3>2 DEF RunNext, ClientPays, ClientWrites, Stops
    <3> QED BY <3>1, <3>2 DEF FilesNext, RecordProof, PaysUnheard, Confirm, GatewayRestarts,
               fileVars
  <2>4. PICK lines \in Seq(Line) : lines = history
    BY <2>1
  <2>5. \A line \in Line : Kept(lines) \subseteq Kept(WithLine(lines, line))
    BY WrittenLine
  <2>6. CASE history' = history
    BY <2>6
  <2>7. ASSUME NEW line \in Line, history' = WithLine(history, line)
        PROVE  Kept(history) \subseteq Kept(history')
    <3>1. history' = WithLine(lines, line) /\ Kept(history) = Kept(lines)
      BY <2>4, <2>7
    <3>2. Kept(history') = Kept(WithLine(lines, line))
      BY <3>1
    <3> QED BY <2>5, <3>1, <3>2
  <2> QED BY <2>3, <2>6, <2>7
<1> QED BY <1>1, FilesInvariant, PTL DEF HistoryKept, FilesSpec

-----------------------------------------------------------------------------
(* What the dashboard counts.                                              *)

(* A line that parses is about one settlement.                             *)
OneHash(lines) ==
  \A i \in DOMAIN lines : lines[i].parses => \E t : lines[i].mentions = {t}

(* What is answered is in the file, and what is in the file is in memory.  *)
CountInv ==
  /\ OneHash(history)
  /\ answered \subseteq Settlements(disk)
  /\ Settlements(disk) \subseteq Settlements(ledger)

(* The dashboard shows the tally of what lines and ledger show.            *)
LEMMA AnalyticsTally ==
  ASSUME NEW lines \in Seq(Line), OneHash(lines), NEW entries \in Seq(Entry)
  PROVE  Analytics(lines, entries) = Tally(Readable(lines) \cup Settlements(entries))
<1> DEFINE L == LineHashes(lines)
<1> DEFINE E == EntryHashes(entries)
<1>1. Len(lines) \in Nat /\ DOMAIN lines = 1 .. Len(lines)
      /\ Len(entries) \in Nat /\ DOMAIN entries = 1 .. Len(entries)
  OBVIOUS
<1>2. /\ Len(L) = Len(lines) /\ \A i \in DOMAIN lines : AtMostOne(L[i])
      /\ Upto(L, Len(L)) = Readable(lines)
  <2>1. L = [i \in 1 .. Len(lines) |-> IF lines[i].parses THEN lines[i].mentions ELSE {}]
    BY <1>1 DEF LineHashes
  <2>2. Len(L) = Len(lines)
    BY <1>1, <2>1
  <2>3. \A i \in DOMAIN lines : AtMostOne(L[i])
    BY <1>1, <2>1 DEF OneHash, AtMostOne
  <2>4. Readable(lines) = UNION {L[i] : i \in 1 .. Len(lines)}
    <3> SUFFICES ASSUME NEW t
                 PROVE  t \in Readable(lines) <=> \E i \in 1 .. Len(lines) : t \in L[i]
      OBVIOUS
    <3>1. t \in Readable(lines) <=>
            \E i \in DOMAIN lines : lines[i].parses /\ t \in lines[i].mentions
      BY DEF Readable, ToSet
    <3> QED
      BY <1>1, <2>1, <3>1
  <2> QED
    BY <2>2, <2>3, <2>4 DEF Upto
<1>3. /\ Len(E) = Len(entries) /\ \A i \in DOMAIN entries : AtMostOne(E[i])
      /\ Upto(E, Len(E)) = Settlements(entries)
  <2>1. E = [i \in 1 .. Len(entries) |-> {entries[i].tx}]
    BY <1>1 DEF EntryHashes
  <2>2. Len(E) = Len(entries)
    BY <1>1, <2>1
  <2>3. \A i \in DOMAIN entries : AtMostOne(E[i])
    BY <1>1, <2>1 DEF AtMostOne
  <2>4. Settlements(entries) = UNION {E[i] : i \in 1 .. Len(entries)}
    <3> SUFFICES ASSUME NEW t
                 PROVE  t \in Settlements(entries) <=> \E i \in 1 .. Len(entries) : t \in E[i]
      OBVIOUS
    <3>1. t \in Settlements(entries) <=> \E i \in DOMAIN entries : t = entries[i].tx
      BY DEF Settlements, ToSet
    <3> QED
      BY <1>1, <2>1, <3>1
  <2> QED
    BY <2>2, <2>3, <2>4 DEF Upto
<1> HIDE DEF L, E
<1>4. NoTotals = Tally({}) /\ IsFiniteSet({})
  BY FS_EmptySet DEF NoTotals, Tally
<1>5. /\ IsFiniteSet({} \cup Upto(L, Len(L)))
      /\ CountAll(Tally({}), L) = Tally({} \cup Upto(L, Len(L)))
  BY <1>1, <1>2, <1>4, CountAllTally
<1>6. IsFiniteSet(Readable(lines)) /\ CountAll(NoTotals, L) = Tally(Readable(lines))
  BY <1>2, <1>4, <1>5
<1>7. CountAll(Tally(Readable(lines)), E)
        = Tally(Readable(lines) \cup Upto(E, Len(E)))
  BY <1>1, <1>3, <1>6, CountAllTally
<1> QED
  BY <1>3, <1>6, <1>7 DEF Analytics, L, E

(* Whatever is written, a line that parses is about one settlement.        *)
LEMMA WrittenOneHash ==
  ASSUME NEW lines \in Seq(Line), OneHash(lines), NEW line \in Line,
         \E t : line.mentions = {t}
  PROVE  OneHash(WithLine(lines, line))
<1> DEFINE new == WithLine(lines, line)
<1>1. CASE LastEnded(lines)
  <2>1. new = Append(lines, line)
    BY <1>1 DEF WithLine
  <2>2. /\ DOMAIN new = 1 .. Len(lines) + 1 /\ DOMAIN lines = 1 .. Len(lines)
        /\ Len(lines) \in Nat /\ new[Len(lines) + 1] = line
        /\ \A i \in DOMAIN lines : new[i] = lines[i]
    BY <2>1
  <2> HIDE DEF new
  <2>3. \A i \in DOMAIN new : i \in DOMAIN lines \/ new[i] = line
    BY <2>2
  <2>4. OneHash(new)
    BY <2>2, <2>3, Zenon DEF OneHash
  <2> QED
    BY <2>4 DEF new
<1>2. CASE ~LastEnded(lines)
  <2> DEFINE n == Len(lines)
  <2> DEFINE glued == Glued(lines[n], line)
  <2>1. new = [lines EXCEPT ![n] = glued]
    BY <1>2 DEF WithLine
  <2>2. n \in DOMAIN lines /\ lines[n] \in Line
    BY <1>2 DEF LastEnded
  <2>3. ~glued.parses
    BY <2>2 DEF Glued, Line
  <2> HIDE DEF glued
  <2>4. /\ DOMAIN new = DOMAIN lines /\ new[n] = glued
        /\ \A i \in DOMAIN lines \ {n} : new[i] = lines[i]
    BY <2>1, <2>2
  <2> HIDE DEF new, n
  <2>5. OneHash(new)
    BY <2>3, <2>4 DEF OneHash
  <2> QED
    BY <2>5 DEF new
<1> QED
  BY <1>1, <1>2

(* An update of the store: the memory gets the settlement, the file too if *)
(* it is saved, and neither loses any.                                     *)
LEMMA EnterCounts ==
  ASSUME FilesInv, CountInv, NEW t \in TxIds,
         NEW by \in {"wallet", "recovery", "record"}, NEW older \in BOOLEAN,
         NEW saved \in BOOLEAN, Enter(t, by, older, saved),
         answered' \subseteq IF saved THEN answered \cup {t} ELSE answered
  PROVE  /\ answered' \subseteq Settlements(disk')
         /\ Settlements(disk') \subseteq Settlements(ledger')
<1>1. ledger \in Seq(Entry)
  BY DEF FilesInv, FilesTypeOK
<1>2. PICK e \in Entry : e = [tx |-> t, by |-> by]
  BY DEF Entry
<1>3. ledger' = WithEntry(ledger, e, older) /\ disk' = IF saved THEN ledger' ELSE disk
  BY <1>2 DEF Enter
<1>4. Settlements(WithEntry(ledger, e, older)) = Settlements(ledger) \cup {t}
  BY <1>1, <1>2, EntryType
<1>5. Settlements(ledger') = Settlements(ledger) \cup {t}
  BY <1>3, <1>4
<1>6. CASE saved
  BY <1>3, <1>5, <1>6 DEF CountInv
<1>7. CASE ~saved
  BY <1>3, <1>5, <1>7 DEF CountInv
<1> QED
  BY <1>6, <1>7

(* Every step keeps what the dashboard's totals rest on.                   *)
LEMMA CountStep ==
  FilesInv /\ CountInv /\ [FilesNext]_fileVars => CountInv'
<1> SUFFICES ASSUME FilesInv, CountInv, [FilesNext]_fileVars
             PROVE  CountInv'
  OBVIOUS
<1>1. history \in Seq(Line) /\ onChain \subseteq TxIds
  BY DEF FilesInv, FilesTypeOK
<1> DEFINE StoreKept == UNCHANGED <<ledger, disk, answered>>
<1> DEFINE Entered ==
      /\ answered' \subseteq Settlements(disk')
      /\ Settlements(disk') \subseteq Settlements(ledger')
<1>2. StoreKept => Entered
  <2> SUFFICES ASSUME StoreKept
               PROVE  Entered
    OBVIOUS
  <2>1. Settlements(disk') = Settlements(disk) /\ Settlements(ledger') = Settlements(ledger)
    OBVIOUS
  <2> QED
    BY <2>1 DEF CountInv
<1>3. ASSUME UNCHANGED history
      PROVE  OneHash(history')
  BY <1>3 DEF CountInv, OneHash
<1>4. ASSUME NEW p \in Handlers \cup Runs, AppendHistory(p) \/ AppendFails(p)
      PROVE  OneHash(history') /\ StoreKept
  <2>1. work[p].tx \in TxIds
    BY <1>4, WriterFacts DEF AppendHistory, AppendFails
  <2>2. PICK line \in Line : /\ history' = WithLine(history, line)
                             /\ line.mentions = {work[p].tx}
    <3>1. /\ WholeLine(work[p].tx) \in Line
          /\ WholeLine(work[p].tx).mentions = {work[p].tx}
          /\ \A f \in Fragments(WholeLine(work[p].tx)) :
               f \in Line /\ f.mentions = {work[p].tx}
      BY <2>1, WholeLineType
    <3> QED
      BY <1>4, <3>1 DEF AppendHistory, AppendFails
  <2>3. OneHash(WithLine(history, line))
    BY <1>1, <2>2, WrittenOneHash DEF CountInv
  <2>4. StoreKept
    BY <1>4 DEF AppendHistory, AppendFails
  <2> QED
    BY <2>2, <2>3, <2>4
<1>5. ASSUME NEW h \in Handlers, NEW t \in TxIds, NEW saved \in BOOLEAN,
             WalletPays(h, t, saved)
      PROVE  UNCHANGED history /\ Entered
  <2>1. Enter(t, "wallet", FALSE, saved) /\ answered' = answered /\ history' = history
    BY <1>5 DEF WalletPays
  <2>2. answered' \subseteq IF saved THEN answered \cup {t} ELSE answered
    BY <2>1
  <2> QED
    BY <2>1, <2>2, EnterCounts
<1>6. ASSUME NEW h \in Handlers, NEW saved \in BOOLEAN, RecoveryEnds(h, saved)
      PROVE  UNCHANGED history /\ Entered
  <2>1. work[h].tx \in TxIds
    BY <1>6, WriterFacts DEF RecoveryEnds
  <2>2. PICK older \in BOOLEAN : Enter(work[h].tx, "recovery", older, saved)
    BY <1>6 DEF RecoveryEnds, EnterRecovered
  <2>3. /\ answered' \subseteq IF saved THEN answered \cup {work[h].tx} ELSE answered
        /\ history' = history
    BY <1>6 DEF RecoveryEnds
  <2> QED
    BY <2>1, <2>2, <2>3, EnterCounts
<1>7. ASSUME NEW saved \in BOOLEAN, RecordProof(saved)
      PROVE  UNCHANGED history /\ Entered
  <2>1. /\ proof \in TxIds /\ Enter(proof, "record", FALSE, saved)
        /\ answered' = answered /\ history' = history
    BY <1>1, <1>7 DEF RecordProof
  <2>2. answered' \subseteq IF saved THEN answered \cup {proof} ELSE answered
    BY <2>1
  <2> QED
    BY <2>1, <2>2, EnterCounts
<1>8. ASSUME GatewayRestarts
      PROVE  UNCHANGED history /\ Entered
  BY <1>8 DEF GatewayRestarts, CountInv
<1> HIDE DEF StoreKept, Entered
<1>9. ASSUME NEW h \in Handlers, HandlerNext(h)
      PROVE  OneHash(history') /\ Entered
  <2>1. ASSUME NEW t \in TxIds, BeginRecovery(h, t)
        PROVE  UNCHANGED history /\ StoreKept
    BY <2>1 DEF BeginRecovery, StoreKept
  <2>2. ASSUME Promotes(h) \/ PromotionRefused(h) \/ ReadHistory(h) \/ Stops(h)
        PROVE  UNCHANGED history /\ StoreKept
    BY <2>2 DEF Promotes, PromotionRefused, ReadHistory, Stops, StoreKept
  <2> QED
    BY <1>2, <1>3, <1>4, <1>5, <1>6, <1>9, <2>1, <2>2 DEF HandlerNext
<1>10. ASSUME NEW r \in Runs, RunNext(r)
       PROVE  OneHash(history') /\ Entered
  <2>1. ASSUME (\E t \in TxIds : ClientPays(r, t)) \/ ClientWrites(r) \/ Stops(r)
        PROVE  UNCHANGED history /\ StoreKept
    BY <2>1 DEF ClientPays, ClientWrites, Stops, StoreKept
  <2> QED
    BY <1>2, <1>3, <1>4, <1>10, <2>1 DEF RunNext
<1>11. ASSUME NEW t \in TxIds, PaysUnheard(t) \/ Confirm(t)
       PROVE  UNCHANGED history /\ StoreKept
  BY <1>11 DEF PaysUnheard, Confirm, StoreKept
<1>12. ASSUME UNCHANGED fileVars
       PROVE  UNCHANGED history /\ StoreKept
  BY <1>12 DEF fileVars, StoreKept
<1>13. OneHash(history') /\ Entered
  BY <1>2, <1>3, <1>7, <1>8, <1>9, <1>10, <1>11, <1>12 DEF FilesNext
<1> QED
  BY <1>13 DEF CountInv, Entered

(* Lines about one settlement each, and a store that lost no answer.       *)
LEMMA CountInvariant == FilesSpec => []CountInv
<1>1. FilesInit => CountInv
  <2> SUFFICES ASSUME FilesInit
               PROVE  CountInv
    OBVIOUS
  <2>1. history = <<>> /\ disk = <<>> /\ ledger = <<>> /\ answered = {}
    BY DEF FilesInit
  <2> QED
    BY <2>1 DEF CountInv, OneHash
<1> QED
  BY <1>1, CountStep, FilesInvariant, PTL DEF FilesSpec

(* Handlers and runs may write a settlement again and again, its lines may *)
(* be glued together, and it may be in the ledger too: the dashboard counts*)
(* every settlement a line or the ledger shows, each once.                 *)
THEOREM EachCountedOnce == FilesSpec => []CountedOnce
<1>1. FilesInv /\ CountInv => CountedOnce
  <2> SUFFICES ASSUME FilesInv, CountInv
               PROVE  CountedOnce
    OBVIOUS
  <2>1. history \in Seq(Line) /\ OneHash(history) /\ ledger \in Seq(Entry)
    BY DEF FilesInv, FilesTypeOK, CountInv
  <2>2. Analytics(history, ledger) = Tally(Readable(history) \cup Settlements(ledger))
    BY <2>1, AnalyticsTally
  <2> QED
    BY <2>2 DEF CountedOnce, Tally
<1> QED
  BY <1>1, FilesInvariant, CountInvariant, PTL

(* A recovery answered as reconciled is counted from then on, whatever is  *)
(* written, fails to be written or restarts.                               *)
THEOREM AnswersCounted == FilesSpec => []AnsweredCounted
<1>1. FilesInv /\ CountInv => AnsweredCounted
  <2> SUFFICES ASSUME FilesInv, CountInv
               PROVE  AnsweredCounted
    OBVIOUS
  <2>1. /\ history \in Seq(Line) /\ OneHash(history)
        /\ ledger \in Seq(Entry) /\ disk \in Seq(Entry)
    BY DEF FilesInv, FilesTypeOK, CountInv
  <2>2. /\ Analytics(history, ledger) = Tally(Readable(history) \cup Settlements(ledger))
        /\ Analytics(history, disk) = Tally(Readable(history) \cup Settlements(disk))
    BY <2>1, AnalyticsTally
  <2> QED
    BY <2>2 DEF CountInv, AnsweredCounted, Tally
<1> QED
  BY <1>1, FilesInvariant, CountInvariant, PTL
=============================================================================
