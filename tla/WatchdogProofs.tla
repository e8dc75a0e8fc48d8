---------------------------- MODULE WatchdogProofs ----------------------------
(***************************************************************************)
(* The watchdog's audit log and the classifier's stack, for every set of   *)
(* files, every directory and database history, every number of restarts,  *)
(* every size of text and of window, and whatever the model answers.       *)
(***************************************************************************)
EXTENDS Watchdog, WellFoundedInduction, TLAPS

Row == [status : {"GREEN", "YELLOW", "RED"}, density : Densities,
        baseline : Densities \cup {None}, start : Nat]

(* A file is between its audit row and its entry in seen. *)
Unmarked(f) == pc = "report" /\ f = File

(* Types, and the shape of a poll: what it has listed is not seen, and a    *)
(* file is at hand whenever one is worked on.                               *)
PollInv ==
  /\ files \in [Names -> {None} \cup Sizes]
  /\ db \in {None} \cup Densities
  /\ baseline \in {None} \cup Densities
  /\ audit \in [Names -> Seq(Row)]
  /\ arrivals \in [Names -> Nat]
  /\ starts \in Nat
  /\ batch \subseteq Names /\ seen \subseteq Names
  /\ batch \cap seen = {}
  /\ pc \in {"extract", "classify", "report"} => batch # {}
  /\ pc = "down" => batch = {} /\ seen = {}

(* OneRowPerArrival is not inductive: it needs that an arrival the process  *)
(* still has to look at has no row yet, and that one it has listed keeps    *)
(* that right when the file is removed or comes back.                       *)
RowInv ==
  \A f \in Names :
    /\ Len(audit[f]) <= arrivals[f]
    /\ /\ pc # "down"
       /\ f \in batch \/ f \in Present \ seen
       /\ ~Unmarked(f)
       => Len(audit[f]) < arrivals[f]

(* SkippedOnlyIfSeeded needs that the file about to be marked has its row.  *)
SeenInv ==
  /\ SkippedOnlyIfSeeded
  /\ pc = "report" => \E i \in DOMAIN audit[File] : audit[File][i].start = starts

IInv == PollInv /\ RowInv /\ SeenInv

(* The first of a set of names is one of them.                              *)
LEMMA LeastName ==
  ASSUME NEW S, S \subseteq Nat, S # {}
  PROVE  Min(S) \in S
<1>1. \E x \in S : \A y \in S : ~(<<y, x>> \in OpToRel(<, Nat))
  BY NatLessThanWellFounded, WFMin
<1>2. PICK x \in S : \A y \in S : ~(<<y, x>> \in OpToRel(<, Nat))
  BY <1>1
<1>3. \A y \in S : ~(y < x)
  BY <1>2 DEF OpToRel
<1>4. \A y \in S : x =< y
  BY <1>3
<1> QED
  BY <1>2, <1>4 DEF Min

(* The file at hand is one the poll has listed.                             *)
LEMMA FileInBatch ==
  ASSUME PollInv, batch # {}
  PROVE  File \in batch /\ File \in Names
BY LeastName, WatchdogInputs DEF PollInv, File

(* The initial states satisfy the invariant.                                *)
LEMMA InitIInv == Init => IInv
<1> SUFFICES ASSUME Init PROVE IInv
  OBVIOUS
<1>1. PollInv
  BY DEF Init, PollInv
<1>2. RowInv
  BY DEF Init, RowInv, Present
<1>3. SeenInv
  BY DEF Init, SeenInv, SkippedOnlyIfSeeded
<1> QED
  BY <1>1, <1>2, <1>3 DEF IInv

(* A step that leaves the log, what is seen and the poll alone, except that *)
(* it may end in another place than the report, keeps the invariant.        *)
LEMMA QuietStep ==
  ASSUME IInv, pc # "report", pc' # "report", pc # "down", pc' # "down",
         UNCHANGED <<outside, audit, seen, batch, starts, seeded>>,
         baseline' \in {None} \cup Densities,
         pc' \in {"extract", "classify"} => batch # {}
  PROVE  IInv'
<1>1. PollInv'
  BY DEF IInv, PollInv, outside
<1>2. RowInv'
  BY DEF IInv, RowInv, Unmarked, Present, outside
<1>3. SeenInv'
  BY DEF IInv, SeenInv, SkippedOnlyIfSeeded
<1> QED
  BY <1>1, <1>2, <1>3 DEF IInv

(* So does the end of the process: its memory is gone, the log is not.      *)
LEMMA DownStep ==
  ASSUME IInv, Down
  PROVE  IInv'
<1>1. PollInv'
  BY DEF IInv, PollInv, Down, outside
<1>2. RowInv'
  BY DEF IInv, RowInv, Down, outside
<1>3. SeenInv'
  BY DEF IInv, SeenInv, SkippedOnlyIfSeeded, Down
<1> QED
  BY <1>1, <1>2, <1>3 DEF IInv

(* What others do to the directory adds no row and takes none away.         *)
LEMMA OutsideStep ==
  ASSUME IInv,
         UNCHANGED <<audit, pc, memory, starts, seeded>>,
         files' \in [Names -> {None} \cup Sizes], db' \in {None} \cup Densities,
         arrivals' \in [Names -> Nat],
         \A f \in Names : \/ arrivals'[f] = arrivals[f] /\ (files'[f] # None => files[f] # None)
                          \/ arrivals'[f] = arrivals[f] + 1
  PROVE  IInv'
<1>1. PollInv'
  BY DEF IInv, PollInv, memory
<1>2. RowInv'
  <2> SUFFICES ASSUME NEW f \in Names
               PROVE  /\ Len(audit'[f]) <= arrivals'[f]
                      /\ /\ pc' # "down"
                         /\ f \in batch' \/ f \in (Present \ seen)'
                         /\ ~Unmarked(f)'
                         => Len(audit'[f]) < arrivals'[f]
    BY DEF RowInv
  <2>1. Len(audit[f]) \in Nat /\ arrivals[f] \in Nat /\ Len(audit[f]) <= arrivals[f]
    BY DEF IInv, PollInv, RowInv
  <2>2. audit' = audit /\ pc' = pc /\ seen' = seen /\ batch' = batch /\ Unmarked(f)' = Unmarked(f)
    BY DEF memory, Unmarked, File
  <2>3. CASE arrivals'[f] = arrivals[f] + 1
    BY <2>1, <2>2, <2>3
  <2>4. CASE arrivals'[f] = arrivals[f] /\ (files'[f] # None => files[f] # None)
    <3>1. f \in (Present \ seen)' => f \in Present \ seen
      BY <2>2, <2>4 DEF Present
    <3> QED
      BY <2>1, <2>2, <2>4, <3>1 DEF IInv, RowInv
  <2> QED
    BY <2>3, <2>4
<1>3. SeenInv'
  BY DEF IInv, SeenInv, SkippedOnlyIfSeeded, File, memory
<1> QED
  BY <1>1, <1>2, <1>3 DEF IInv

(* The audit row: its file is listed, so it had none for this arrival.      *)
LEMMA AuditStep ==
  ASSUME IInv, Audit
  PROVE  IInv'
<1>1. File \in batch /\ File \in Names /\ File' = File
  BY FileInBatch DEF IInv, PollInv, Audit, File, memory
<1>2. PICK density \in Densities, stitchFailures \in {0, 1} :
        audit' = [audit EXCEPT ![File] = Append(@,
                   [status |-> Status(density, stitchFailures, baseline),
                    density |-> density, baseline |-> baseline, start |-> starts])]
  BY DEF Audit
<1> DEFINE row == [status |-> Status(density, stitchFailures, baseline),
                   density |-> density, baseline |-> baseline, start |-> starts]
<1>3. row \in Row
  <2>1. Status(density, stitchFailures, baseline) \in {"GREEN", "YELLOW", "RED"}
    BY DEF Status
  <2> QED
    BY <2>1 DEF Row, IInv, PollInv
<1>4. \A f \in Names : audit[f] \in Seq(Row) /\ Len(audit[f]) \in Nat /\ arrivals[f] \in Nat
  BY DEF IInv, PollInv
<1>5. /\ audit' \in [Names -> Seq(Row)]
      /\ \A f \in Names : f # File => audit'[f] = audit[f]
      /\ audit'[File] = Append(audit[File], row)
      /\ Len(audit'[File]) = Len(audit[File]) + 1
  <2>1. Append(audit[File], row) \in Seq(Row) /\ Len(Append(audit[File], row)) = Len(audit[File]) + 1
    BY <1>1, <1>3, <1>4
  <2>2. audit' = [audit EXCEPT ![File] = Append(audit[File], row)] /\ audit \in [Names -> Seq(Row)]
    BY <1>2 DEF IInv, PollInv
  <2> HIDE DEF row
  <2> QED
    BY <1>1, <2>1, <2>2
<1> HIDE DEF row
<1>6. PollInv'
  BY <1>5, <1>1 DEF IInv, PollInv, Audit, outside, memory
<1>7. RowInv'
  <2> SUFFICES ASSUME NEW f \in Names
               PROVE  /\ Len(audit'[f]) <= arrivals'[f]
                      /\ /\ f \in batch' \/ f \in (Present \ seen)'
                         /\ f # File
                         => Len(audit'[f]) < arrivals'[f]
    BY <1>1 DEF RowInv, Unmarked, Audit
  <2>1. pc # "report" /\ pc # "down" /\ arrivals' = arrivals /\ seen' = seen /\ batch' = batch
        /\ Present' = Present
    BY DEF Audit, outside, memory, Present
  <2>2. CASE f = File
    <3>1. Len(audit[f]) < arrivals[f]
      BY <1>1, <2>1, <2>2 DEF IInv, RowInv, Unmarked
    <3> QED
      BY <1>4, <1>5, <2>1, <2>2, <3>1
  <2>3. CASE f # File
    BY <1>5, <2>1, <2>3 DEF IInv, RowInv, Unmarked
  <2> QED
    BY <2>2, <2>3
<1>8. SeenInv'
  <2>1. starts' = starts /\ seen' = seen /\ seeded' = seeded
    BY DEF Audit, memory
  <2>2. audit'[File][Len(audit[File]) + 1] = row /\ row.start = starts
    <3>1. row.start = starts
      BY DEF row
    <3> QED
      BY <1>1, <1>4, <1>5, <3>1
  <2>3. Len(audit[File]) + 1 \in DOMAIN audit'[File]
    BY <1>1, <1>4, <1>5
  <2>4. \A f \in seen' : f # File
    BY <1>1, <2>1 DEF IInv, PollInv
  <2>5. \A f \in seen' : f \in Names
    BY <2>1 DEF IInv, PollInv
  <2> QED
    BY <1>1, <1>5, <2>1, <2>2, <2>3, <2>4, <2>5 DEF IInv, SeenInv, SkippedOnlyIfSeeded
<1> QED
  BY <1>6, <1>7, <1>8 DEF IInv

(* Marking the file: it has its row, and leaves the poll.                   *)
LEMMA ReportStep ==
  ASSUME IInv, Report
  PROVE  IInv'
<1>1. File \in batch /\ File \in Names
  BY FileInBatch DEF IInv, PollInv, Report
<1>2. PollInv'
  BY <1>1 DEF IInv, PollInv, Report, outside
<1>3. RowInv'
  BY <1>1 DEF IInv, RowInv, Report, outside, Present, Unmarked
<1>4. SeenInv'
  BY <1>1 DEF IInv, SeenInv, SkippedOnlyIfSeeded, Report
<1> QED
  BY <1>2, <1>3, <1>4 DEF IInv

(* A start: everything there is taken as seen.                              *)
LEMMA StartStep ==
  ASSUME IInv, Start
  PROVE  IInv'
<1>1. PollInv'
  BY DEF IInv, PollInv, Start, outside, Present
<1>2. RowInv'
  BY DEF IInv, PollInv, RowInv, Start, outside, Present
<1>3. SeenInv'
  BY DEF SeenInv, SkippedOnlyIfSeeded, Start
<1> QED
  BY <1>1, <1>2, <1>3 DEF IInv

(* A listing: what is present and not seen has no row for its arrival.      *)
LEMMA ListStep ==
  ASSUME IInv, ListFiles
  PROVE  IInv'
<1>1. PollInv'
  BY DEF IInv, PollInv, ListFiles, outside, Present
<1>2. RowInv'
  BY DEF IInv, RowInv, ListFiles, outside, Present, Unmarked
<1>3. SeenInv'
  BY DEF IInv, SeenInv, SkippedOnlyIfSeeded, ListFiles
<1> QED
  BY <1>1, <1>2, <1>3 DEF IInv

(* Every step of the watchdog and of its surroundings keeps the invariant.  *)
LEMMA NextIInv == IInv /\ [Next]_vars => IInv'
<1> SUFFICES ASSUME IInv, [Next]_vars PROVE IInv'
  OBVIOUS
<1> USE DEF IInv, PollInv
<1>1. ASSUME NEW f \in Names, NEW size \in Sizes, Write(f, size) PROVE IInv'
  <2>1. /\ UNCHANGED <<audit, pc, memory, starts, seeded>>
        /\ files' \in [Names -> {None} \cup Sizes] /\ db' \in {None} \cup Densities
        /\ arrivals' \in [Names -> Nat]
    BY <1>1 DEF Write
  <2>2. \A g \in Names : \/ arrivals'[g] = arrivals[g] /\ (files'[g] # None => files[g] # None)
                         \/ arrivals'[g] = arrivals[g] + 1
    BY <1>1 DEF Write
  <2> QED
    BY <2>1, <2>2, OutsideStep
<1>2. ASSUME NEW f \in Names, TakeAway(f) PROVE IInv'
  <2>1. /\ UNCHANGED <<audit, pc, memory, starts, seeded, arrivals>>
        /\ files' \in [Names -> {None} \cup Sizes] /\ db' \in {None} \cup Densities
        /\ \A g \in Names : files'[g] # None => files[g] # None
    BY <1>2 DEF TakeAway
  <2> QED
    BY <2>1, OutsideStep
<1>3. ASSUME NEW density \in Densities, Calibrate(density) PROVE IInv'
  <2>1. /\ UNCHANGED <<audit, pc, memory, starts, seeded, arrivals, files>>
        /\ db' \in {None} \cup Densities
    BY <1>3 DEF Calibrate
  <2> QED
    BY <2>1, OutsideStep
<1>4. CASE Start
  BY <1>4, StartStep
<1>5. CASE Stop
  BY <1>5, DownStep DEF Stop
<1>6. CASE LoadBaseline
  BY <1>6, QuietStep DEF LoadBaseline
<1>7. CASE ListFiles
  BY <1>7, ListStep
<1>8. CASE ReadFile
  <2>1. CASE files[File] = None
    BY <1>8, <2>1, DownStep DEF ReadFile
  <2>2. CASE files[File] # None
    BY <1>8, <2>2, QuietStep DEF ReadFile
  <2> QED
    BY <2>1, <2>2
<1>9. CASE PollDone
  BY <1>9, QuietStep DEF PollDone, memory
<1>10. CASE Extract
  BY <1>10, QuietStep DEF Extract
<1>11. CASE Classify
  BY <1>11, QuietStep DEF Classify, memory
<1>12. CASE Classified
  <2>1. CASE verdict = "raised"
    BY <1>12, <2>1, DownStep DEF Classified
  <2>2. CASE verdict # "raised"
    BY <1>12, <2>2, QuietStep DEF Classified
  <2> QED
    BY <2>1, <2>2
<1>13. CASE Audit
  BY <1>13, AuditStep
<1>14. CASE Report
  BY <1>14, ReportStep
<1>15. CASE Sleep
  BY <1>15, QuietStep DEF Sleep, memory
<1>16. CASE UNCHANGED vars
  <2>1. UNCHANGED <<files, db, arrivals, audit, pc, memory, starts, seeded>>
    BY <1>16 DEF vars, outside
  <2> QED
    BY <2>1, OutsideStep
<1> QED
  BY <1>1, <1>2, <1>3, <1>4, <1>5, <1>6, <1>7, <1>8, <1>9, <1>10, <1>11, <1>12, <1>13,
     <1>14, <1>15, <1>16 DEF Next, Work

(* No file has more rows in the audit log than it had arrivals, over any    *)
(* number of restarts of the watchdog.                                      *)
THEOREM AuditedOncePerArrival == SafeSpec => []OneRowPerArrival
<1>1. IInv => OneRowPerArrival
  BY DEF IInv, RowInv, OneRowPerArrival
<1> QED
  BY <1>1, InitIInv, NextIInv, PTL DEF SafeSpec

(* No file is skipped but one that was there at the start or has its row.   *)
THEOREM NoArrivalSkipped == SafeSpec => []SkippedOnlyIfSeeded
<1>1. IInv => SkippedOnlyIfSeeded
  BY DEF IInv, SeenInv
<1> QED
  BY <1>1, InitIInv, NextIInv, PTL DEF SafeSpec

-----------------------------------------------------------------------------

(* What a poll compares with is a value the database has had since.         *)
BaselineInv ==
  pc \notin {"down", "load"} /\ baseline # None => baseline \in known

(* Only the reading of the baseline and the end of the process touch both   *)
(* sides of it; calibrations add to known.                                  *)
LEMMA NextBaseline == BaselineInv /\ [Next]_vars => BaselineInv'
<1> SUFFICES ASSUME BaselineInv, [Next]_vars PROVE BaselineInv'
  OBVIOUS
<1> USE DEF BaselineInv
<1>1. ASSUME known \subseteq known', UNCHANGED <<pc, baseline>> PROVE BaselineInv'
  BY <1>1
<1>2. ASSUME NEW f \in Names, NEW size \in Sizes, Write(f, size) PROVE BaselineInv'
  BY <1>1, <1>2 DEF Write, memory
<1>3. ASSUME NEW f \in Names, TakeAway(f) PROVE BaselineInv'
  BY <1>1, <1>3 DEF TakeAway, memory
<1>4. ASSUME NEW density \in Densities, Calibrate(density) PROVE BaselineInv'
  BY <1>1, <1>4 DEF Calibrate, memory
<1>5. CASE Start \/ Stop \/ Sleep
  BY <1>5 DEF Start, Stop, Down, Sleep
<1>6. CASE LoadBaseline
  BY <1>6 DEF LoadBaseline
<1>7. CASE ListFiles \/ PollDone \/ Extract \/ Classify \/ Audit \/ Report
  BY <1>7 DEF ListFiles, PollDone, Extract, Classify, Audit, Report, memory
<1>8. CASE ReadFile \/ Classified
  BY <1>8 DEF ReadFile, Classified, Down
<1>9. CASE UNCHANGED vars
  BY <1>9, <1>1 DEF vars, memory
<1> QED
  BY <1>2, <1>3, <1>4, <1>5, <1>6, <1>7, <1>8, <1>9 DEF Next, Work

(* Only an audit row makes the log longer.                                  *)
LEMMA LogGrowsByAudit == [Next]_vars => Audit \/ UNCHANGED audit
<1> SUFFICES ASSUME [Next]_vars, ~Audit PROVE UNCHANGED audit
  OBVIOUS
<1>1. CASE \/ \E f \in Names, size \in Sizes : Write(f, size)
           \/ \E f \in Names : TakeAway(f)
           \/ \E density \in Densities : Calibrate(density)
  BY <1>1 DEF Write, TakeAway, Calibrate
<1>2. CASE Start \/ Stop \/ Sleep
  BY <1>2 DEF Start, Stop, Down, Sleep
<1>3. CASE LoadBaseline \/ ListFiles \/ PollDone \/ Extract \/ Classify \/ Report
  BY <1>3 DEF LoadBaseline, ListFiles, PollDone, Extract, Classify, Report
<1>4. CASE ReadFile \/ Classified
  BY <1>4 DEF ReadFile, Classified, Down
<1>5. CASE UNCHANGED vars
  BY <1>5 DEF vars
<1> QED
  BY <1>1, <1>2, <1>3, <1>4, <1>5 DEF Next, Work

(* The row an audit appends is RED if its density is below every threshold  *)
(* it may be compared with.                                                 *)
LEMMA AuditFlags ==
  ASSUME IInv, BaselineInv, Audit, NEW f \in Names, Len(audit'[f]) > Len(audit[f]),
         Last(audit'[f]).baseline # None,
         \A base \in known : base # None /\ 10 * Last(audit'[f]).density < 8 * base
  PROVE  Last(audit'[f]).status = "RED"
<1> USE DEF IInv, PollInv
<1>1. batch # {} /\ File \in Names
  BY FileInBatch DEF Audit
<1>2. PICK density \in Densities, stitchFailures \in {0, 1} :
        audit' = [audit EXCEPT ![File] = Append(@,
                    [status |-> Status(density, stitchFailures, baseline),
                     density |-> density, baseline |-> baseline, start |-> starts])]
  BY DEF Audit
<1> DEFINE row == [status |-> Status(density, stitchFailures, baseline),
                   density |-> density, baseline |-> baseline, start |-> starts]
<1>3. f = File
  BY <1>2
<1>4. audit'[f] = Append(audit[f], row)
  BY <1>1, <1>2, <1>3
<1>5. audit[f] \in Seq(Row)
  OBVIOUS
<1> HIDE DEF row
<1>6. Last(audit'[f]) = row
  BY <1>4, <1>5 DEF Last
<1>7. baseline # None /\ baseline \in Densities
  BY <1>6 DEF row
<1>8. baseline \in known
  BY <1>7 DEF Audit, BaselineInv
<1>9. 10 * density < 8 * baseline
  BY <1>6, <1>8 DEF row
<1>10. Status(density, stitchFailures, baseline) = "RED"
  BY <1>7, <1>9, WatchdogInputs DEF Status
<1> QED
  BY <1>6, <1>10 DEF row

(* A file too thin for every baseline its poll may have read is flagged,    *)
(* whatever was calibrated meanwhile.                                       *)
THEOREM ThinFilesFlagged == SafeSpec => LowDensityFlagged
<1>1. Init => BaselineInv
  BY DEF Init, BaselineInv
<1>2. IInv /\ BaselineInv /\ [Next]_vars =>
        [\A f \in Names :
           LET row == Last(audit'[f])
           IN /\ Len(audit'[f]) > Len(audit[f]) /\ row.baseline # None
              /\ \A base \in known : base # None /\ 10 * row.density < 8 * base
              => row.status = "RED"]_vars
  <2> SUFFICES ASSUME IInv, BaselineInv, [Next]_vars, NEW f \in Names,
                      Len(audit'[f]) > Len(audit[f]), Last(audit'[f]).baseline # None,
                      \A base \in known : base # None /\ 10 * Last(audit'[f]).density < 8 * base
               PROVE  Last(audit'[f]).status = "RED"
    OBVIOUS
  <2>1. Len(audit[f]) \in Nat
    BY DEF IInv, PollInv
  <2>2. Audit
    BY <2>1, LogGrowsByAudit
  <2> QED
    BY <2>2, AuditFlags
<1> QED
  BY <1>1, <1>2, InitIInv, NextIInv, NextBaseline, PTL DEF SafeSpec, LowDensityFlagged
-----------------------------------------------------------------------------

(* The classifier's windows: intervals of words, and the words of several.  *)
Window == Int \X Int

Covered(windows) == UNION {Words(w) : w \in windows}

Frame == [text : Window, chunks : Seq(Window), call : {"first", "cold", "retry", "halves"},
          halves : Seq(Window), found : SUBSET Window, heard : SUBSET Window]

(* OwnWindowsAnswered of one activation.                                    *)
Complete(f) == Words(f.text) \subseteq Covered(f.heard) \cup Covered(ToSet(f.chunks))

(* Complete is not inductive: a window is given up only after an answer about it, *)
(* which for a window being halved was the one before; and an activation    *)
(* that waits for another still holds the half the other one is for.        *)
Sound(f) ==
  /\ Complete(f)
  /\ f.call = "halves" => f.chunks # <<>> /\ Head(f.chunks) \in f.heard

FrameInv ==
  /\ frames \in Seq(Frame)
  /\ \A i \in DOMAIN frames :
       /\ Sound(frames[i])
       /\ i < Len(frames) => frames[i].call = "halves" /\ frames[i].halves # <<>>

(* The pieces of a file, the first of which is the one being classified.    *)
PieceInv ==
  /\ pieces \in Seq(Window)
  /\ pc = "classify" => pieces # <<>>

(* Division rounds down.                                                    *)
LEMMA DivBounds ==
  ASSUME NEW x \in Nat, NEW d \in Nat \ {0}
  PROVE  x \div d \in Nat /\ d * (x \div d) <= x /\ x < d * (x \div d) + d
OBVIOUS

(* Windows are taken at a stride no longer than a window, up to the end of  *)
(* the text: no word of it is left between or behind them.                  *)
LEMMA ChunksCover ==
  ASSUME NEW text \in Window
  PROVE  /\ ChunkText(text) \in Seq(Window)
         /\ Words(text) \subseteq Covered(ToSet(ChunkText(text)))
<1>. DEFINE a == text[1]
            b == text[2]
            size == b - a
            step == ChunkTokens - OverlapTokens
            count == IF size <= ChunkTokens THEN 1
                     ELSE 1 + (size - ChunkTokens + step - 1) \div step
            From(k) == a + (k - 1) * step
            To(k) == IF From(k) + ChunkTokens < b THEN From(k) + ChunkTokens ELSE b
<1>1. a \in Int /\ b \in Int /\ step \in Nat \ {0} /\ step <= ChunkTokens /\ ChunkTokens \in Nat
  BY WindowsAdvance DEF Window
<1>2. count \in Nat \ {0}
  <2>1. CASE size <= ChunkTokens
    BY <2>1
  <2>2. CASE ~(size <= ChunkTokens)
    <3>1. size - ChunkTokens + step - 1 \in Nat
      BY <1>1, <2>2
    <3>2. (size - ChunkTokens + step - 1) \div step \in Nat
      BY <1>1, <3>1, DivBounds
    <3>. QED BY <2>2, <3>2
  <2>. QED BY <2>1, <2>2
<1>3. ChunkText(text) = [k \in 1..count |-> <<From(k), To(k)>>]
  BY DEF ChunkText
<1>. HIDE DEF count
<1>4. \A k \in 1..count : From(k) \in Int /\ To(k) \in Int
  BY <1>1, <1>2
<1>5. ChunkText(text) \in Seq(Window)
  BY <1>2, <1>3, <1>4 DEF Window
<1>6. ASSUME NEW w \in Words(text)
      PROVE  \E k \in 1..count : From(k) <= w /\ w < To(k)
  <2>. DEFINE d == w - a
              q == d \div step
              m == count - 1
  <2>1. w \in Int /\ a <= w /\ w < b /\ d \in Nat
    BY <1>1, <1>6 DEF Words
  <2>2. q \in Nat /\ step * q <= d /\ d < step * q + step
    BY <1>1, <2>1, DivBounds
  <2>3. CASE q + 1 <= count
    <3>1. From(q + 1) = a + step * q
      BY <1>1, <2>2
    <3>2. From(q + 1) <= w
      BY <1>1, <2>1, <2>2, <3>1
    <3>3. w < To(q + 1)
      BY <1>1, <2>1, <2>2, <3>1
    <3>4. q + 1 \in 1..count
      BY <1>2, <2>2, <2>3
    <3>. QED BY <3>2, <3>3, <3>4
  <2>4. CASE ~(q + 1 <= count)
    <3>1. m \in Nat /\ m <= q
      BY <1>2, <2>2, <2>4
    <3>2. From(count) = a + step * m
      BY <1>1, <1>2
    <3>3. step * m <= step * q
      BY <1>1, <2>2, <3>1
    <3>4. step * m >= size - ChunkTokens
      <4>1. CASE size <= ChunkTokens
        <5>1. step * m \in Nat
          BY <1>1, <3>1
        <5>2. size - ChunkTokens \in Int /\ size - ChunkTokens <= 0
          BY <1>1, <4>1
        <5>. HIDE DEF size, step, m
        <5>. QED BY <5>1, <5>2, <1>1
      <4>2. CASE ~(size <= ChunkTokens)
        <5>1. size - ChunkTokens + step - 1 \in Nat
          BY <1>1, <4>2
        <5>2. m = (size - ChunkTokens + step - 1) \div step
          <6>1. (size - ChunkTokens + step - 1) \div step \in Nat
            BY <1>1, <5>1, DivBounds
          <6>. QED BY <4>2, <6>1 DEF count
        <5>3. size - ChunkTokens + step - 1 < step * m + step
          BY <1>1, <5>1, <5>2, DivBounds
        <5>. QED BY <1>1, <3>1, <5>3
      <4>. QED BY <4>1, <4>2
    <3>5. From(count) <= w
      BY <1>1, <2>1, <2>2, <3>1, <3>2, <3>3
    <3>6. w < To(count)
      BY <1>1, <2>1, <3>1, <3>2, <3>4
    <3>. QED BY <1>2, <3>5, <3>6
  <2>. QED BY <2>3, <2>4
<1>7. ASSUME NEW w \in Words(text)
      PROVE  w \in Covered(ToSet(ChunkText(text)))
  <2>1. PICK k \in 1..count : From(k) <= w /\ w < To(k)
    BY <1>6, <1>7
  <2>2. w \in Words(<<From(k), To(k)>>)
    BY <1>1, <1>4, <1>7, <2>1 DEF Words
  <2>3. <<From(k), To(k)>> \in ToSet(ChunkText(text))
    BY <1>2, <1>3 DEF ToSet
  <2>. QED BY <2>2, <2>3 DEF Covered
<1>. QED BY <1>5, <1>7

(* The current activation, and what it becomes by calls of the model.       *)
LEMMA CurrentSound ==
  ASSUME FrameInv, Classifying
  PROVE  Len(frames) \in Nat \ {0} /\ Current \in Frame /\ Sound(Current)
<1>1. Len(frames) \in Nat \ {0} /\ DOMAIN frames = 1..Len(frames)
  BY DEF FrameInv, Classifying
<1>. QED BY <1>1 DEF FrameInv, Current

(* A window is the first or one of the others.                              *)
LEMMA HeadOrTail ==
  ASSUME NEW s \in Seq(Window), s # <<>>
  PROVE  /\ Head(s) \in Window /\ Tail(s) \in Seq(Window)
         /\ ToSet(s) \subseteq {Head(s)} \cup ToSet(Tail(s))
<1>1. Head(s) \in Window /\ Tail(s) \in Seq(Window)
  OBVIOUS
<1>2. ASSUME NEW i \in DOMAIN s, i # 1 PROVE s[i] \in ToSet(Tail(s))
  <2>1. i \in 2..Len(s) /\ i - 1 \in DOMAIN Tail(s) /\ Tail(s)[i - 1] = s[i]
    BY <1>2
  <2>. QED BY <2>1 DEF ToSet
<1>. QED BY <1>1, <1>2 DEF ToSet

(* An answered window may be given up.                                      *)
LEMMA DoneIsSound ==
  ASSUME NEW f \in Frame, Complete(f), f.chunks # <<>>, Head(f.chunks) \in f.heard,
         NEW more \in SUBSET Window
  PROVE  ChunkDone(f, more) \in Frame /\ Sound(ChunkDone(f, more))
<1>. DEFINE g == ChunkDone(f, more)
<1>1. Tail(f.chunks) \in Seq(Window) /\ ToSet(f.chunks) \subseteq {Head(f.chunks)} \cup ToSet(Tail(f.chunks))
  BY HeadOrTail DEF Frame
<1>2. /\ g \in Frame /\ g.text = f.text /\ g.chunks = Tail(f.chunks)
      /\ g.heard = f.heard /\ g.call = "first"
  BY <1>1 DEF ChunkDone, Frame
<1>3. Complete(g)
  BY <1>1, <1>2 DEF Complete, Covered
<1>. QED BY <1>2, <1>3 DEF Sound

(* Replacing the current activation by a sound one keeps the stack sound.   *)
LEMMA ContinueKeeps ==
  ASSUME FrameInv, Classifying, NEW f \in Frame, Sound(f), Continue(f)
  PROVE  FrameInv'
<1>1. Len(frames) \in Nat \ {0}
  BY CurrentSound
<1>2. /\ frames' \in Seq(Frame) /\ Len(frames') = Len(frames) /\ DOMAIN frames' = DOMAIN frames
      /\ frames'[Len(frames)] = f
      /\ \A i \in DOMAIN frames : i # Len(frames) => frames'[i] = frames[i]
  BY <1>1 DEF FrameInv, Continue
<1>3. ASSUME NEW i \in DOMAIN frames'
      PROVE  /\ Sound(frames'[i])
             /\ i < Len(frames') => frames'[i].call = "halves" /\ frames'[i].halves # <<>>
  <2>1. CASE i = Len(frames)
    BY <1>1, <1>2, <2>1
  <2>2. CASE i # Len(frames)
    BY <1>2, <1>3, <2>2 DEF FrameInv
  <2>. QED BY <2>1, <2>2
<1>. QED BY <1>2, <1>3 DEF FrameInv, Sound, Complete

(* An activation of a text still has all of its windows to do.              *)
LEMMA ActivationSound ==
  ASSUME NEW text \in Window
  PROVE  Activation(text) \in Frame /\ Sound(Activation(text))
<1>1. ChunkText(text) \in Seq(Window) /\ Words(text) \subseteq Covered(ToSet(ChunkText(text)))
  BY ChunksCover
<1>. QED BY <1>1 DEF Activation, Frame, Sound, Complete

(* An activation ends: its caller drops a half and goes on.                 *)
LEMMA LeaveKeeps ==
  ASSUME FrameInv, Classifying, NEW end, NEW found \in SUBSET Window, Leave(end, found)
  PROVE  FrameInv'
<1>1. frames \in Seq(Frame) /\ Len(frames) \in Nat /\ Len(frames) > 0
  BY CurrentSound DEF FrameInv
<1>2. CASE Len(frames) = 1
  BY <1>2 DEF Leave, FrameInv
<1>3. CASE Len(frames) # 1
  <2>. DEFINE n == Len(frames) - 1
              caller == frames[n]
              f == [caller EXCEPT !.halves = Tail(@), !.found = @ \cup found]
              below == SubSeq(frames, 1, Len(frames) - 2)
  <2>1. n \in Nat \ {0} /\ n \in DOMAIN frames /\ n < Len(frames)
    <3>1. \A x \in Nat : x > 0 /\ x # 1 => x - 1 \in Nat \ {0} /\ x - 1 \in 1..x /\ x - 1 < x
      OBVIOUS
    <3>2. n \in Nat \ {0} /\ n \in 1..Len(frames) /\ n < Len(frames)
      BY <1>1, <1>3, <3>1
    <3>. QED BY <1>1, <3>2
  <2>2. caller \in Frame /\ Sound(caller) /\ caller.call = "halves" /\ caller.halves # <<>>
    BY <2>1 DEF FrameInv
  <2>3. f \in Frame /\ Sound(f)
    BY <2>2, HeadOrTail DEF Frame, Sound, Complete
  <2>4. below \in Seq(Frame) /\ Len(below) = n - 1 /\ \A i \in 1..(n - 1) : below[i] = frames[i]
    <3>1. \A i \in 1..(n - 1) : frames[i] \in Frame
      BY <1>1, <2>1 DEF FrameInv
    <3>2. below = [i \in 1..(n - 1) |-> frames[i]]
      BY <1>1, <2>1 DEF FrameInv
    <3>. HIDE DEF n, below
    <3>. QED BY <2>1, <3>1, <3>2
  <2>5. frames' = Append(below, f)
    BY <1>3 DEF Leave
  <2>. HIDE DEF f, below
  <2>6. /\ frames' \in Seq(Frame) /\ Len(frames') = n /\ DOMAIN frames' = 1..n
        /\ frames'[n] = f /\ \A i \in 1..(n - 1) : frames'[i] = frames[i]
    BY <2>1, <2>3, <2>4, <2>5
  <2>7. ASSUME NEW i \in DOMAIN frames'
        PROVE  /\ Sound(frames'[i])
               /\ i < Len(frames') => frames'[i].call = "halves" /\ frames'[i].halves # <<>>
    <3>1. CASE i = n
      BY <2>1, <2>3, <2>6, <3>1
    <3>2. CASE i # n
      <4>1. i \in 1..(n - 1) /\ i \in DOMAIN frames /\ i < Len(frames)
        BY <2>1, <2>6, <2>7, <3>2 DEF FrameInv
      <4>. QED BY <2>6, <4>1 DEF FrameInv
    <3>. QED BY <3>1, <3>2
  <2>. QED BY <2>6, <2>7 DEF FrameInv, Sound, Complete
<1>. QED BY <1>2, <1>3

(* Every step of the classifier keeps its stack sound.                      *)
LEMMA ClassifierKeeps ==
  ASSUME FrameInv, ClassifierStep
  PROVE  FrameInv'
<1>1. Classifying
  BY DEF ClassifierStep, IntentsAnswered, NothingAnswered, CallFails, Asking, ClassifyHalf, ReturnIntents
<1>2. Current \in Frame /\ Sound(Current) /\ Len(frames) \in Nat \ {0}
  BY <1>1, CurrentSound
<1>3. ASSUME Asking
      PROVE  /\ Chunk \in Window /\ Current.chunks # <<>>
             /\ Heard \in Frame /\ Complete(Heard) /\ Heard.chunks = Current.chunks
             /\ Chunk = Head(Heard.chunks) /\ Chunk \in Heard.heard
  <2>1. Chunk \in Window /\ Current.chunks # <<>>
    BY <1>2, <1>3, HeadOrTail DEF Asking, Chunk, Frame
  <2>2. /\ Heard \in Frame /\ Heard.text = Current.text /\ Heard.chunks = Current.chunks
        /\ Heard.heard = Current.heard \cup {Chunk}
    BY <1>2, <2>1 DEF Heard, Frame
  <2>3. Complete(Heard)
    BY <1>2, <2>2 DEF Sound, Complete, Covered
  <2>. QED BY <2>1, <2>2, <2>3 DEF Chunk
<1>4. CASE IntentsAnswered
  <2>1. ChunkDone(Heard, {Chunk}) \in Frame /\ Sound(ChunkDone(Heard, {Chunk}))
    BY <1>3, <1>4, DoneIsSound DEF IntentsAnswered
  <2>. QED BY <1>1, <1>4, <2>1, ContinueKeeps DEF IntentsAnswered
<1>5. CASE NothingAnswered
  <2>1. Asking /\ Current.call \in {"first", "cold", "retry"}
    BY <1>2, <1>5 DEF NothingAnswered, Asking, Frame
  <2>2. CASE Current.call = "first"
    <3>. DEFINE f == [Heard EXCEPT !.call = "cold"]
    <3>1. f \in Frame /\ Sound(f)
      BY <1>3, <2>1 DEF Frame, Sound, Complete
    <3>2. Continue(f)
      BY <1>5, <2>2 DEF NothingAnswered
    <3>. QED BY <1>1, <3>1, <3>2, ContinueKeeps
  <2>3. CASE Current.call = "cold"
    <3>. DEFINE f == [Heard EXCEPT !.call = "halves", !.halves = Halves(Chunk)]
    <3>1. Halves(Chunk) \in Seq(Window)
      BY <1>3, <2>1 DEF Halves, Window
    <3>2. f \in Frame /\ Sound(f)
      BY <1>3, <2>1, <3>1 DEF Frame, Sound, Complete
    <3>3. Continue(f)
      BY <1>5, <2>3 DEF NothingAnswered
    <3>. QED BY <1>1, <3>2, <3>3, ContinueKeeps
  <2>4. CASE Current.call = "retry"
    <3>1. ChunkDone(Heard, {}) \in Frame /\ Sound(ChunkDone(Heard, {}))
      BY <1>3, <2>1, DoneIsSound
    <3>2. Continue(ChunkDone(Heard, {}))
      BY <1>5, <2>4 DEF NothingAnswered
    <3>. QED BY <1>1, <3>1, <3>2, ContinueKeeps
  <2>. QED BY <2>1, <2>2, <2>3, <2>4
<1>6. CASE CallFails
  <2>1. CASE Current.call = "retry"
    BY <1>1, <1>6, <2>1, LeaveKeeps DEF CallFails
  <2>2. CASE Current.call # "retry"
    <3>. DEFINE f == [Current EXCEPT !.call = "retry"]
    <3>1. f \in Frame /\ Sound(f)
      BY <1>2 DEF Frame, Sound, Complete
    <3>2. Continue(f)
      BY <1>6, <2>2 DEF CallFails
    <3>. QED BY <1>1, <3>1, <3>2, ContinueKeeps
  <2>. QED BY <2>1, <2>2
<1>7. CASE ClassifyHalf
  <2>1. Current.chunks # <<>> /\ Current.call = "halves" /\ Head(Current.chunks) \in Current.heard
    BY <1>2, <1>7 DEF ClassifyHalf, Sound
  <2>2. CASE Current.halves = <<>>
    <3>1. ChunkDone(Current, {}) \in Frame /\ Sound(ChunkDone(Current, {}))
      BY <1>2, <2>1, DoneIsSound DEF Sound
    <3>. QED BY <1>1, <1>7, <2>2, <3>1, ContinueKeeps DEF ClassifyHalf
  <2>3. CASE Current.halves # <<>> /\ Len(frames) < RecursionLimit
    <3>. DEFINE f == Activation(Head(Current.halves))
    <3>1. frames' = Append(frames, f)
      BY <1>7, <2>3 DEF ClassifyHalf
    <3>2. f \in Frame /\ Sound(f)
      BY <1>2, <2>3, HeadOrTail, ActivationSound DEF Frame
    <3>. HIDE DEF f
    <3>3. /\ frames' \in Seq(Frame) /\ Len(frames') = Len(frames) + 1
          /\ frames'[Len(frames')] = f
          /\ \A i \in 1..Len(frames) : frames'[i] = frames[i]
      BY <1>2, <3>1, <3>2 DEF FrameInv
    <3>4. ASSUME NEW i \in DOMAIN frames'
          PROVE  /\ Sound(frames'[i])
                 /\ i < Len(frames') => frames'[i].call = "halves" /\ frames'[i].halves # <<>>
      <4>1. CASE i = Len(frames')
        BY <1>2, <3>2, <3>3, <4>1
      <4>2. CASE i = Len(frames)
        <5>1. frames'[i] = Current
          BY <1>2, <3>3, <4>2 DEF Current
        <5>. QED BY <1>2, <2>1, <2>3, <5>1
      <4>3. CASE i < Len(frames)
        <5>1. i \in DOMAIN frames /\ frames'[i] = frames[i]
          BY <1>2, <3>3, <3>4, <4>3 DEF FrameInv
        <5>. QED BY <4>3, <5>1 DEF FrameInv
      <4>. QED BY <1>2, <3>3, <3>4, <4>1, <4>2, <4>3
    <3>. QED BY <3>3, <3>4 DEF FrameInv, Sound, Complete
  <2>4. CASE Current.halves # <<>> /\ ~(Len(frames) < RecursionLimit)
    <3>. DEFINE f == [Current EXCEPT !.halves = Tail(@)]
    <3>1. f \in Frame /\ Sound(f)
      BY <1>2, <2>4, HeadOrTail DEF Frame, Sound, Complete
    <3>2. Continue(f)
      BY <1>7, <2>4 DEF ClassifyHalf
    <3>. QED BY <1>1, <3>1, <3>2, ContinueKeeps
  <2>. QED BY <2>2, <2>3, <2>4
<1>8. CASE ReturnIntents
  <2>1. Current.found \in SUBSET Window
    BY <1>2 DEF Frame
  <2>. QED BY <1>1, <1>8, <2>1, LeaveKeeps DEF ReturnIntents
<1>. QED BY <1>4, <1>5, <1>6, <1>7, <1>8 DEF ClassifierStep

(* The pieces of a file are windows.                                        *)
LEMMA PiecesTyped ==
  ASSUME NEW size \in Nat
  PROVE  Pieces(size) \in Seq(Window)
<1>. DEFINE count == IF size = 0 THEN 1 ELSE (size + WatchChunk - 1) \div WatchChunk
            From(k) == (k - 1) * WatchChunk
            To(k) == IF k * WatchChunk < size THEN k * WatchChunk ELSE size
<1>1. count \in Nat
  <2>1. size # 0 => (size + WatchChunk - 1) \div WatchChunk \in Nat
    BY DivBounds, WatchdogInputs
  <2>. QED BY <2>1
<1>2. Pieces(size) = [k \in 1..count |-> <<From(k), To(k)>>]
  BY DEF Pieces
<1>. HIDE DEF count
<1>3. \A k \in 1..count : From(k) \in Int /\ To(k) \in Int
  BY <1>1, WatchdogInputs
<1>. QED BY <1>1, <1>2, <1>3 DEF Window

(* The watchdog hands the classifier one piece after the other.             *)
LEMMA NextFrames ==
  PollInv /\ PieceInv /\ FrameInv /\ [Next]_vars => PieceInv' /\ FrameInv'
<1>. SUFFICES ASSUME PollInv, PieceInv, FrameInv, [Next]_vars PROVE PieceInv' /\ FrameInv'
  OBVIOUS
<1>1. ASSUME UNCHANGED <<pieces, frames>>, pc' = pc \/ pc' # "classify"
      PROVE  PieceInv' /\ FrameInv'
  BY <1>1 DEF PieceInv, FrameInv, Sound, Complete
<1>2. ASSUME pieces' = <<>>, frames' = <<>>, pc' # "classify"
      PROVE  PieceInv' /\ FrameInv'
  BY <1>2 DEF PieceInv, FrameInv
<1>3. CASE \/ \E f \in Names, size \in Sizes : Write(f, size)
           \/ \E f \in Names : TakeAway(f)
           \/ \E density \in Densities : Calibrate(density)
  BY <1>1, <1>3 DEF Write, TakeAway, Calibrate, memory
<1>4. CASE Start \/ LoadBaseline \/ ListFiles \/ PollDone \/ Audit \/ Report \/ Sleep
  BY <1>1, <1>4 DEF Start, LoadBaseline, ListFiles, PollDone, Audit, Report, Sleep, memory
<1>5. CASE Stop
  BY <1>2, <1>5 DEF Stop, Down
<1>6. CASE ReadFile
  <2>1. CASE files[File] = None
    BY <1>2, <1>6, <2>1 DEF ReadFile, Down
  <2>2. CASE files[File] # None
    <3>1. File \in Names
      BY <1>6, FileInBatch DEF ReadFile
    <3>2. files[File] \in Nat
      BY <2>2, <3>1, WatchdogInputs DEF PollInv
    <3>3. pieces' \in Seq(Window) /\ pc' = "extract" /\ frames' = frames
      BY <1>6, <2>2, <3>2, PiecesTyped DEF ReadFile
    <3>. QED BY <3>3 DEF PieceInv, FrameInv, Sound, Complete
  <2>. QED BY <2>1, <2>2
<1>7. CASE Extract
  <2>1. Head(pieces) \in Window /\ Tail(pieces) \in Seq(Window) /\ pieces # <<>> /\ pc = "extract"
    BY <1>7, HeadOrTail DEF Extract, PieceInv
  <2>2. CASE llm
    <3>. DEFINE f == Activation(Head(pieces))
    <3>1. frames' = <<f>> /\ pieces' = pieces /\ pieces \in Seq(Window)
      BY <1>7, <2>2 DEF Extract, PieceInv
    <3>2. f \in Frame /\ Sound(f)
      BY <2>1, ActivationSound
    <3>. HIDE DEF f
    <3>. QED BY <2>1, <3>1, <3>2 DEF PieceInv, FrameInv, Sound, Complete
  <2>3. CASE ~llm
    BY <1>7, <2>1, <2>3 DEF Extract, PieceInv, FrameInv, Sound, Complete
  <2>. QED BY <2>2, <2>3
<1>8. CASE Classify
  BY <1>8, ClassifierKeeps DEF Classify, PieceInv, memory
<1>9. CASE Classified
  <2>1. CASE verdict = "raised"
    BY <1>2, <1>9, <2>1 DEF Classified, Down
  <2>2. CASE verdict # "raised"
    <3>1. Tail(pieces) \in Seq(Window)
      BY <1>9, HeadOrTail DEF Classified, PieceInv
    <3>. QED BY <1>9, <2>2, <3>1 DEF Classified, PieceInv, FrameInv, Sound, Complete
  <2>. QED BY <2>1, <2>2
<1>10. CASE UNCHANGED vars
  BY <1>1, <1>10 DEF vars, memory
<1>. QED BY <1>3, <1>4, <1>5, <1>6, <1>7, <1>8, <1>9, <1>10 DEF Next, Work

(* Whatever the model fails on, is asked again about or has halved, every   *)
(* word of the text of an activation of classify_text_block_llm is in a     *)
(* window of it that got an answer or in one still to come.                 *)
THEOREM WindowsAnswered == SafeSpec => []OwnWindowsAnswered
<1>1. Init => PieceInv /\ FrameInv
  BY DEF Init, PieceInv, FrameInv
<1>2. FrameInv => OwnWindowsAnswered
  BY DEF FrameInv, Sound, Complete, Covered, OwnWindowsAnswered
<1>3. IInv => PollInv
  BY DEF IInv
<1>. QED BY <1>1, <1>2, <1>3, InitIInv, NextIInv, NextFrames, PTL DEF SafeSpec
=============================================================================
