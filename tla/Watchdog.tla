------------------------------- MODULE Watchdog -------------------------------
(***************************************************************************)
(* The watchdog (monitor.py) over a directory that others write to, and    *)
(* the extraction it runs on every new file: chunk by chunk through        *)
(* calibrator._run_extraction and heuristic_extract_ap, which asks the     *)
(* classifier when USE_LLM_CLASSIFIER is set. The process may be stopped,  *)
(* or die, between any two steps, and be started again.                    *)
(***************************************************************************)
EXTENDS Classifier, FiniteSetsExt

CONSTANTS
  Names,        \* names of .txt files; numbers, because a poll sorts them
  Sizes,        \* their lengths in words
  WatchChunk,   \* _WATCH_CHUNK_SIZE
  Densities,    \* node densities an extraction, or a calibration, may yield
  MaxEvents,    \* bound on what others do to the directory and the database
  MaxStarts     \* bound on starts of the process

ASSUME WatchdogInputs ==
  /\ Names \subseteq Nat /\ Sizes \subseteq Nat /\ Densities \subseteq Nat
  /\ WatchChunk \in Nat \ {0} /\ MaxEvents \in Nat /\ MaxStarts \in Nat

None == -1

VARIABLES
  files,      \* the directory: length of each file, None if there is none
  db,         \* newest sweet-spot density in metrics.db, None if there is none
  audit,      \* rows of master_audit_log.csv, by file
  llm,        \* USE_LLM_CLASSIFIER
  pc,         \* what the process does next; "down" if it is not running
  seen,       \* names it will not look at again
  batch,      \* names of this poll it has not finished
  pieces,     \* chunks of the current file not extracted yet
  baseline,   \* density this poll compares with
  starts,     \* times the process was started
  events,     \* times something else changed the directory or the database
  arrivals,   \* history: times each name appeared in the directory
  seeded,     \* history: names present when this process started
  known       \* history: values of db since this poll read it

outside == <<files, db, llm, events, arrivals>>
memory == <<seen, batch, pieces, baseline>>
vars == <<outside, memory, audit, pc, starts, seeded, known, frames, verdict>>

Present == {f \in Names : files[f] # None}

Init ==
  /\ files \in [Names -> {None} \cup Sizes]
  /\ db \in {None} \cup Densities
  /\ llm \in BOOLEAN
  /\ audit = [f \in Names |-> <<>>]
  /\ pc = "down" /\ seen = {} /\ batch = {} /\ pieces = <<>> /\ baseline = None
  /\ starts = 0 /\ events = 0 /\ seeded = {} /\ known = {}
  /\ arrivals = [f \in Names |-> IF files[f] = None THEN 0 ELSE 1]
  /\ frames = <<>> /\ verdict = "empty"

-----------------------------------------------------------------------------

(* A file is added, is written on, or is taken away; a calibration ends. *)
Event == events < MaxEvents /\ events' = events + 1

Write(f, size) ==
  /\ Event
  /\ files[f] # size
  /\ files' = [files EXCEPT ![f] = size]
  /\ arrivals' = [arrivals EXCEPT ![f] = IF files[f] = None THEN @ + 1 ELSE @]
  /\ UNCHANGED <<db, llm, audit, pc, memory, starts, seeded, known, frames, verdict>>

TakeAway(f) ==
  /\ Event
  /\ files[f] # None
  /\ files' = [files EXCEPT ![f] = None]
  /\ UNCHANGED <<db, llm, arrivals, audit, pc, memory, starts, seeded, known, frames, verdict>>

Calibrate(density) ==
  /\ Event
  /\ db' = density
  /\ known' = known \cup {density}
  /\ UNCHANGED <<files, llm, arrivals, audit, pc, memory, starts, seeded, frames, verdict>>

-----------------------------------------------------------------------------

(* seen holds what is there already: "so we only react to new arrivals". *)
Start ==
  /\ pc = "down" /\ starts < MaxStarts
  /\ starts' = starts + 1
  /\ seen' = Present /\ seeded' = Present
  /\ pc' = "load"
  /\ UNCHANGED <<outside, audit, batch, pieces, baseline, known, frames, verdict>>

(* Ctrl-C, the end of the machine, or an exception: memory is lost. *)
Down ==
  /\ pc' = "down"
  /\ seen' = {} /\ batch' = {} /\ pieces' = <<>> /\ baseline' = None
  /\ frames' = <<>> /\ verdict' = "empty" /\ known' = {}
  /\ UNCHANGED <<outside, audit, starts, seeded>>

Stop == pc # "down" /\ Down

(* A bug the check must notice: the baseline is read once. *)
BaselineKept ==
  /\ pc = "load"
  /\ baseline' \in IF baseline = None THEN {db, None} ELSE {baseline}
  /\ known' = {db}
  /\ pc' = "list"
  /\ UNCHANGED <<outside, audit, seen, batch, pieces, starts, seeded, frames, verdict>>

(* A database that cannot be read counts as no baseline. *)
LoadBaseline ==
  /\ pc = "load"
  /\ baseline' \in {db, None}
  /\ known' = {db}
  /\ pc' = "list"
  /\ UNCHANGED <<outside, audit, seen, batch, pieces, starts, seeded, frames, verdict>>

ListFiles ==
  /\ pc = "list"
  /\ batch' = Present \ seen
  /\ pc' = IF Present \subseteq seen THEN "sleep" ELSE "next"
  /\ UNCHANGED <<outside, audit, seen, pieces, baseline, starts, seeded, known, frames, verdict>>

File == Min(batch)

(* _words_to_chunks; an empty file is one empty chunk. *)
Pieces(size) ==
  LET count == IF size = 0 THEN 1 ELSE (size + WatchChunk - 1) \div WatchChunk
  IN [k \in 1..count |->
        <<(k - 1) * WatchChunk, IF k * WatchChunk < size THEN k * WatchChunk ELSE size>>]

(* read_text: FileNotFoundError, caught nowhere, if the file is gone. *)
ReadFile ==
  /\ pc = "next" /\ batch # {}
  /\ IF files[File] = None
     THEN Down
     ELSE /\ pieces' = Pieces(files[File])
          /\ pc' = "extract"
          /\ UNCHANGED <<outside, audit, seen, batch, baseline, starts, seeded, known, frames, verdict>>

PollDone ==
  /\ pc = "next" /\ batch = {}
  /\ pc' = "sleep"
  /\ UNCHANGED <<outside, audit, memory, starts, seeded, known, frames, verdict>>

Extract ==
  /\ pc = "extract" /\ pieces # <<>>
  /\ IF llm
     THEN frames' = <<Activation(Head(pieces))>> /\ pc' = "classify" /\ UNCHANGED pieces
     ELSE pieces' = Tail(pieces) /\ UNCHANGED <<frames, pc>>
  /\ UNCHANGED <<outside, audit, seen, batch, baseline, starts, seeded, known, verdict>>

Classify ==
  /\ pc = "classify" /\ ClassifierStep
  /\ UNCHANGED <<outside, audit, pc, memory, starts, seeded, known>>

(* No intents: the regular expressions. ValueError: caught nowhere. *)
Classified ==
  /\ pc = "classify" /\ ~Classifying
  /\ IF verdict = "raised"
     THEN Down
     ELSE /\ pieces' = Tail(pieces)
          /\ pc' = "extract"
          /\ verdict' = "empty"
          /\ UNCHANGED <<outside, audit, seen, batch, baseline, starts, seeded, known, frames>>

(* success_predictor, with _RED_THRESHOLD = 0.8 *)
Status(density, stitchFailures, base) ==
  IF base # None /\ base > 0 /\ 10 * density < 8 * base THEN "RED"
  ELSE IF stitchFailures > 0 THEN "YELLOW"
  ELSE "GREEN"

(* Scoring, the dashboard (whose exceptions are caught) and the audit row. *)
Audit ==
  /\ pc = "extract" /\ pieces = <<>>
  /\ \E density \in Densities, stitchFailures \in {0, 1} :
       audit' = [audit EXCEPT ![File] = Append(@,
                   [status |-> Status(density, stitchFailures, baseline),
                    density |-> density, baseline |-> baseline, start |-> starts])]
  /\ pc' = "report"
  /\ UNCHANGED <<outside, memory, starts, seeded, known, frames, verdict>>

(* Bugs the checks must notice: the name is not remembered; the whole poll *)
(* is marked seen at its first file.                                       *)
ReportForgets ==
  /\ pc = "report"
  /\ batch' = batch \ {File}
  /\ pc' = "next"
  /\ UNCHANGED <<outside, audit, seen, pieces, baseline, starts, seeded, known, frames, verdict>>

ReportMarksAll ==
  /\ pc = "report"
  /\ seen' = seen \cup batch
  /\ batch' = batch \ {File}
  /\ pc' = "next"
  /\ UNCHANGED <<outside, audit, pieces, baseline, starts, seeded, known, frames, verdict>>

Report ==
  /\ pc = "report"
  /\ seen' = seen \cup {File}
  /\ batch' = batch \ {File}
  /\ pc' = "next"
  /\ UNCHANGED <<outside, audit, pieces, baseline, starts, seeded, known, frames, verdict>>

Sleep ==
  /\ pc = "sleep"
  /\ pc' = "load"
  /\ UNCHANGED <<outside, audit, memory, starts, seeded, known, frames, verdict>>

Work ==
  \/ LoadBaseline \/ ListFiles \/ ReadFile \/ PollDone \/ Extract \/ Classify
  \/ Classified \/ Audit \/ Report \/ Sleep

Next ==
  \/ \E f \in Names, size \in Sizes : Write(f, size)
  \/ \E f \in Names : TakeAway(f)
  \/ \E density \in Densities : Calibrate(density)
  \/ Start \/ Stop \/ Work

SafeSpec == Init /\ [][Next]_vars

Spec == SafeSpec /\ WF_vars(Work)

-----------------------------------------------------------------------------

(* Whatever is stopped, started again, removed, replaced or still being     *)
(* written, a file that appeared n times has at most n rows in the audit    *)
(* log.                                                                     *)
OneRowPerArrival == \A f \in Names : Len(audit[f]) <= arrivals[f]

(* A file the process will not look at again was there when it started, or  *)
(* has its row: no new arrival is marked seen without an analysis.          *)
SkippedOnlyIfSeeded ==
  \A f \in seen : f \in seeded \/ \E i \in DOMAIN audit[f] : audit[f][i].start = starts

(* A file too thin for every density metrics.db has held since its poll     *)
(* read the baseline is flagged RED, stitch failures or not, unless the     *)
(* baseline could not be read.                                              *)
LowDensityFlagged ==
  [][\A f \in Names :
       LET row == Last(audit'[f])
       IN /\ Len(audit'[f]) > Len(audit[f]) /\ row.baseline # None
          /\ \A base \in known : base # None /\ 10 * row.density < 8 * base
          => row.status = "RED"]_vars

(* A new file is analysed, unless it is taken away or the process stops:    *)
(* polls end although files arrive, the classifier retries and halves.      *)
NewFilesAnalysed ==
  \A f \in Names :
    pc # "down" /\ f \in Present \ seen ~> pc = "down" \/ f \notin Present \ seen
=============================================================================
