----------------------------- MODULE ProofFiles -----------------------------
(***************************************************************************)
(* The latest-proof file and the append-only payment history, which the    *)
(* gateway's handlers and the command-line client write without a common   *)
(* lock, and the totals the dashboard computes from the history and the    *)
(* gateway's ledger.                                                       *)
(*                                                                         *)
(* A handler that promotes a settlement checks it on the chain, replaces   *)
(* the latest proof, reads the whole history, appends a line if it found   *)
(* none, and then, when it recovers, updates the ledger.  The client       *)
(* truncates and writes the proof and appends without looking.  A write    *)
(* that fails may leave part of a line, and the next line is glued to it.  *)
(* The ledger is never full here and a proof is read and recorded at once: *)
(* GatewayStore has the ledger's cap, and the steps of a record request.   *)
(* Without a readable proof a record request reads the settlement embedded *)
(* in the gateway; that is in GatewayStore too, and nothing is recorded    *)
(* here.                                                                   *)
(***************************************************************************)
EXTENDS Integers, Sequences, FiniteSets, SequencesExt

CONSTANTS
  TxIds,       \* transaction hashes, of settlements or merely typed
  NoTx,
  Handlers,    \* requests the gateway handles at a time
  Runs,        \* runs of the client
  MaxFaults    \* bound: failed writes and restarts

ASSUME FilesAssumption ==
  /\ TxIds \cap {NoTx, "absent", "torn"} = {}
  /\ Handlers \cap Runs = {}
  /\ MaxFaults \in Nat

VARIABLES
  settled,   \* settlements a facilitator made
  onChain,   \* settlements whose receipt the RPC endpoint shows
  proof,     \* the latest proof: a settlement, "absent" or "torn"
  history,   \* the lines of official-settlements.jsonl
  ledger,    \* official entries of the store, oldest first
  disk,      \* the same in the state file
  work,      \* where each handler and each run is
  appended,  \* history: settlements whose line was written without an error
  answered,  \* history: recoveries answered with reconciled
  faults     \* failed writes and restarts so far

fileVars == <<settled, onChain, proof, history, ledger, disk, work, appended, answered, faults>>

(* What a line mentions, whether it parses, whether it ends in a newline.  *)
Line == [mentions: SUBSET TxIds, parses: BOOLEAN, ended: BOOLEAN]
Entry == [tx: TxIds, by: {"wallet", "recovery", "record"}]
Place == {"idle", "verify", "read", "torn", "append", "enter", "exited"}
Work == [at: Place, tx: TxIds \cup {NoTx}, pays: BOOLEAN]

Idle == [at |-> "idle", tx |-> NoTx, pays |-> FALSE]
Exited == [Idle EXCEPT !.at = "exited"]

FilesInit ==
  /\ settled = {} /\ onChain = {}
  /\ proof = "absent"
  /\ history = <<>>
  /\ ledger = <<>> /\ disk = <<>>
  /\ work = [p \in Handlers \cup Runs |-> Idle]
  /\ appended = {} /\ answered = {}
  /\ faults = [writes |-> 0, restarts |-> 0]

Goto(p, place) == work' = [work EXCEPT ![p].at = place]
Leave(p) == work' = [work EXCEPT ![p] = IF p \in Runs THEN Exited ELSE Idle]
(* Only a recovery has something left to do after the history.             *)
PastHistory(p) == IF p \in Runs \/ work[p].pays THEN Leave(p) ELSE Goto(p, "enter")

-----------------------------------------------------------------------------
(* The files.                                                              *)

WholeLine(t) == [mentions |-> {t}, parses |-> TRUE, ended |-> TRUE]
(* What a failed write leaves: some of the line, its hash included, all of *)
(* it but the newline, or all of it when only the Sync fails.              *)
Fragments(line) ==
  {line} \cup {[line EXCEPT !.parses = b, !.ended = FALSE] : b \in BOOLEAN}

(* Glued to what is there, a line parses no more.                          *)
Glued(fragment, line) ==
  [line EXCEPT !.mentions = @ \cup fragment.mentions, !.parses = FALSE]

(* Mutant: the newline is forgotten.                                       *)
WithLineUnended(lines, line) ==
  LET unended == [line EXCEPT !.ended = FALSE]
  IN IF lines = <<>> THEN <<unended>>
     ELSE [lines EXCEPT ![Len(lines)] = Glued(@, unended)]

(* Mutant: opened without O_APPEND, the write starts at the beginning.     *)
WithLineOver(lines, line) ==
  IF lines = <<>> THEN <<line>> ELSE <<line>> \o Tail(lines)

LastEnded(lines) == lines = <<>> \/ lines[Len(lines)].ended

WithLine(lines, line) ==
  IF LastEnded(lines)
    THEN Append(lines, line)
    ELSE [lines EXCEPT ![Len(lines)] = Glued(@, line)]

Mentioned(lines) == UNION {l.mentions : l \in ToSet(lines)}
Readable(lines) == UNION {l.mentions : l \in {m \in ToSet(lines) : m.parses}}

(* Mutant: a hash is searched in the text of the line.                     *)
RecordedByText(lines, t) == t \in Mentioned(lines)

(* What appendOfficialHistoryOnce looks for, line by line.                 *)
Recorded(lines, t) == t \in Readable(lines)

Settlements(entries) == {e.tx : e \in ToSet(entries)}
WithEntry(entries, e, older) ==
  IF e.tx \in Settlements(entries) THEN entries
  ELSE IF older THEN <<e>> \o entries
  ELSE Append(entries, e)

(* store.update: memory changes, the state file only if the save succeeds. *)
Enter(t, by, older, saved) ==
  /\ ledger' = WithEntry(ledger, [tx |-> t, by |-> by], older)
  /\ disk' = IF saved THEN ledger' ELSE disk

(* A recovered entry has the time at which its recovery began, when the    *)
(* ledger had no browser payment: it is older than every payment since.    *)
EnterRecovered(t, saved) ==
  \E older \in BOOLEAN :
    /\ older \/ \A e \in ToSet(ledger) : e.by # "wallet"
    /\ Enter(t, "recovery", older, saved)

-----------------------------------------------------------------------------
(* The totals of the dashboard.                                            *)

NoTotals == [seen |-> {}, count |-> 0]

(* Mutant: what was seen is counted again.                                 *)
CountedAgain(totals, hashes) ==
  IF hashes = {} THEN totals
  ELSE [seen |-> totals.seen \cup hashes, count |-> totals.count + 1]

(* One turn of the loops: a line without a hash, or with one that was seen,*)
(* is passed over.                                                         *)
Counted(totals, hashes) ==
  IF hashes \subseteq totals.seen THEN totals
  ELSE [seen |-> totals.seen \cup hashes, count |-> totals.count + 1]

CountAll(totals, hashes) ==
  LET After[i \in 0 .. Len(hashes)] ==
        IF i = 0 THEN totals ELSE Counted(After[i - 1], hashes[i])
  IN  After[Len(hashes)]

LineHashes(lines) ==
  [i \in DOMAIN lines |-> IF lines[i].parses THEN lines[i].mentions ELSE {}]
EntryHashes(entries) == [i \in DOMAIN entries |-> {entries[i].tx}]

Analytics(lines, entries) ==
  CountAll(CountAll(NoTotals, LineHashes(lines)), EntryHashes(entries))

-----------------------------------------------------------------------------
(* The handlers of the gateway.                                            *)

Paying == {h \in Handlers : work[h].pays}
Promoting(t, pays) == [at |-> "verify", tx |-> t, pays |-> pays]

(* A wallet's payment settles and is recorded before anything checks it.   *)
WalletPays(h, t, saved) ==
  /\ work[h] = Idle /\ Paying = {} /\ t \notin settled
  /\ settled' = settled \cup {t}
  /\ Enter(t, "wallet", FALSE, saved)
  /\ work' = [work EXCEPT ![h] = Promoting(t, TRUE)]
  /\ UNCHANGED <<onChain, proof, history, appended, answered, faults>>

(* It settles and nobody hears of it, or the client dies before it writes. *)
PaysUnheard(t) ==
  /\ t \notin settled
  /\ settled' = settled \cup {t}
  /\ UNCHANGED <<onChain, proof, history, ledger, disk, work, appended,
                 answered, faults>>

Browser(e) == e.by \in {"wallet", "recovery"}
IsLatest(t) ==
  \E i \in DOMAIN ledger :
    /\ Browser(ledger[i]) /\ ledger[i].tx = t
    /\ \A j \in DOMAIN ledger : j > i => ~Browser(ledger[j])
NoBrowserEntry == ~\E e \in ToSet(ledger) : Browser(e)

(* A recovery takes the latest browser payment of the ledger, whichever    *)
(* hash the caller names, and that hash only when there is none.           *)
BeginRecovery(h, t) ==
  /\ work[h] = Idle
  /\ IsLatest(t) \/ NoBrowserEntry
  /\ work' = [work EXCEPT ![h] = Promoting(t, FALSE)]
  /\ UNCHANGED <<settled, onChain, proof, history, ledger, disk, appended,
                 answered, faults>>

(* Mutant: a transaction the endpoint does not know yet is accepted.       *)
PromotesPending(h) ==
  /\ h \in Handlers /\ work[h].at = "verify"
  /\ proof' = work[h].tx
  /\ Goto(h, "read")
  /\ UNCHANGED <<settled, onChain, history, ledger, disk, appended, answered,
                 faults>>

(* The chain and the Rust verifier confirm it, and a temporary file takes  *)
(* the place of the latest proof in one step.                              *)
Promotes(h) ==
  /\ h \in Handlers /\ work[h].at = "verify" /\ work[h].tx \in onChain
  /\ proof' = work[h].tx
  /\ Goto(h, "read")
  /\ UNCHANGED <<settled, onChain, history, ledger, disk, appended, answered,
                 faults>>

(* No receipt, an endpoint or the Rust verifier out of reach, or refusing. *)
PromotionRefused(h) ==
  /\ h \in Handlers /\ work[h].at = "verify"
  /\ Leave(h)
  /\ UNCHANGED <<settled, onChain, proof, history, ledger, disk, appended,
                 answered, faults>>

ReadHistory(h) ==
  /\ work[h].at = "read"
  /\ IF Recorded(history, work[h].tx) THEN PastHistory(h) ELSE Goto(h, "append")
  /\ UNCHANGED <<settled, onChain, proof, history, ledger, disk, appended,
                 answered, faults>>

AppendHistory(p) ==
  /\ work[p].at = "append"
  /\ history' = WithLine(history, WholeLine(work[p].tx))
  /\ appended' = appended \cup {work[p].tx}
  /\ PastHistory(p)
  /\ UNCHANGED <<settled, onChain, proof, ledger, disk, answered, faults>>

MoreFaults == faults.writes + faults.restarts < MaxFaults

(* The disk is full: part of the line is written, and the caller gives up. *)
AppendFails(p) ==
  /\ work[p].at = "append" /\ MoreFaults
  /\ faults' = [faults EXCEPT !.writes = @ + 1]
  /\ \E f \in Fragments(WholeLine(work[p].tx)) : history' = WithLine(history, f)
  /\ Leave(p)
  /\ UNCHANGED <<settled, onChain, proof, ledger, disk, appended, answered>>

(* Mutant: the answer does not wait for the ledger.                        *)
RecoveryEndsEarly(h, saved) ==
  /\ h \in Handlers /\ work[h].at = "enter"
  /\ EnterRecovered(work[h].tx, saved)
  /\ answered' = answered \cup {work[h].tx}
  /\ Leave(h)
  /\ UNCHANGED <<settled, onChain, proof, history, appended, faults>>

(* The recovered settlement enters the ledger; only a save is answered.    *)
RecoveryEnds(h, saved) ==
  /\ h \in Handlers /\ work[h].at = "enter"
  /\ EnterRecovered(work[h].tx, saved)
  /\ answered' = IF saved THEN answered \cup {work[h].tx} ELSE answered
  /\ Leave(h)
  /\ UNCHANGED <<settled, onChain, proof, history, appended, faults>>

(* Mutant: what cannot be read is recorded with its zero values.           *)
RecordProofUnread(saved) ==
  /\ Enter(proof, "record", FALSE, saved)
  /\ UNCHANGED <<settled, onChain, proof, history, work, appended, answered,
                 faults>>

(* A record or reconcile request finds the latest proof on the chain.      *)
RecordProof(saved) ==
  /\ proof \in onChain
  /\ Enter(proof, "record", FALSE, saved)
  /\ UNCHANGED <<settled, onChain, proof, history, work, appended, answered,
                 faults>>

GatewayRestarts ==
  /\ MoreFaults
  /\ faults' = [faults EXCEPT !.restarts = @ + 1]
  /\ ledger' = disk
  /\ work' = [p \in Handlers \cup Runs |-> IF p \in Runs THEN work[p] ELSE Idle]
  /\ UNCHANGED <<settled, onChain, proof, history, disk, appended, answered>>

-----------------------------------------------------------------------------
(* The client, and the chain.                                              *)

(* A run pays and truncates the proof, whether or not the chain shows the  *)
(* receipt already; then it writes the proof and appends a line.           *)
ClientPays(r, t) ==
  /\ work[r] = Idle /\ t \notin settled
  /\ settled' = settled \cup {t}
  /\ proof' = "torn"
  /\ work' = [work EXCEPT ![r].at = "torn", ![r].tx = t]
  /\ UNCHANGED <<onChain, history, ledger, disk, appended, answered, faults>>

ClientWrites(r) ==
  /\ r \in Runs /\ work[r].at = "torn"
  /\ proof' = work[r].tx
  /\ Goto(r, "append")
  /\ UNCHANGED <<settled, onChain, history, ledger, disk, appended, answered,
                 faults>>

(* It dies, or cannot write at all; nor may a handler open the history.    *)
Stops(p) ==
  /\ work[p].at \in {"torn", "append"}
  /\ Leave(p)
  /\ UNCHANGED <<settled, onChain, proof, history, ledger, disk, appended,
                 answered, faults>>

Confirm(t) ==
  /\ t \in settled \ onChain
  /\ onChain' = onChain \cup {t}
  /\ UNCHANGED <<settled, proof, history, ledger, disk, work, appended,
                 answered, faults>>

-----------------------------------------------------------------------------

HandlerNext(h) ==
  \/ \E t \in TxIds, saved \in BOOLEAN : WalletPays(h, t, saved)
  \/ \E t \in TxIds : BeginRecovery(h, t)
  \/ Promotes(h) \/ PromotionRefused(h)
  \/ ReadHistory(h) \/ AppendHistory(h) \/ AppendFails(h)
  \/ Stops(h)
  \/ \E saved \in BOOLEAN : RecoveryEnds(h, saved)

RunNext(r) ==
  \/ \E t \in TxIds : ClientPays(r, t)
  \/ ClientWrites(r) \/ AppendHistory(r) \/ AppendFails(r) \/ Stops(r)

FilesNext ==
  \/ \E h \in Handlers : HandlerNext(h)
  \/ \E r \in Runs : RunNext(r)
  \/ \E saved \in BOOLEAN : RecordProof(saved)
  \/ \E t \in TxIds : PaysUnheard(t) \/ Confirm(t)
  \/ GatewayRestarts

FilesSpec == FilesInit /\ [][FilesNext]_fileVars

(* The page asks for a recovery whenever it is opened, and is opened again *)
(* and again; a handler goes on; neither the endpoint nor the disk fails   *)
(* for ever.                                                               *)
FilesFairness ==
  /\ WF_fileVars(\E h \in Handlers, t \in TxIds : BeginRecovery(h, t))
  /\ \A h \in Handlers :
       /\ WF_fileVars(\/ ReadHistory(h) \/ Stops(h)
                     \/ (\E saved \in BOOLEAN : RecoveryEnds(h, saved)))
       /\ SF_fileVars(Promotes(h)) /\ SF_fileVars(AppendHistory(h))
       /\ WF_fileVars(Promotes(h) \/ PromotionRefused(h))

FilesFairSpec == FilesSpec /\ FilesFairness

-----------------------------------------------------------------------------
(* Properties.                                                             *)

FilesTypeOK ==
  /\ onChain \subseteq TxIds /\ settled \subseteq TxIds
  /\ proof \in TxIds \cup {"absent", "torn"}
  /\ history \in Seq(Line)
  /\ ledger \in Seq(Entry) /\ disk \in Seq(Entry)
  /\ work \in [Handlers \cup Runs -> Work]
  /\ appended \subseteq TxIds /\ answered \subseteq TxIds
  /\ faults \in [writes: Nat, restarts: Nat]

(* Nothing that never settled is in a proof, a line or the ledger,         *)
(* whatever hash a caller of the recovery names.                           *)
NothingInvented ==
  Mentioned(history) \cup Settlements(ledger) \cup Settlements(disk)
    \cup ({proof} \cap TxIds) \subseteq settled

(* Handlers and the client may write the same settlement, and lines may be *)
(* garbled: the dashboard counts each settlement that a line or the ledger *)
(* shows once.                                                             *)
CountedOnce ==
  Analytics(history, ledger).count =
    Cardinality(Readable(history) \cup Settlements(ledger))

(* A recovery that was answered is counted from then on, in the gateway    *)
(* that runs and after any restart.                                        *)
AnsweredCounted ==
  /\ answered \subseteq Analytics(history, ledger).seen
  /\ answered \subseteq Analytics(history, disk).seen

(* A failed write costs at most one settlement whose line was written in   *)
(* full.                                                                   *)
FailureCost == Cardinality(appended \ Readable(history)) <= faults.writes

(* No writer damages a line that ends in its newline.                      *)
Kept(lines) == UNION {l.mentions : l \in {m \in ToSet(lines) : m.parses /\ m.ended}}
HistoryKept == [][Kept(history) \subseteq Kept(history')]_fileVars

(* The latest browser payment gets into the history once the chain shows   *)
(* it, though its promotion was refused, its line was garbled or the       *)
(* gateway restarted, unless another becomes the latest.                   *)
LatestRecorded ==
  \A t \in TxIds :
    (IsLatest(t) /\ t \in onChain) ~> (t \in Readable(history) \/ ~IsLatest(t))
=============================================================================
