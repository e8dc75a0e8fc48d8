------------------------------ MODULE Classifier ------------------------------
(***************************************************************************)
(* classify_text_block_llm: a text is cut into overlapping windows, the    *)
(* model is asked about one window after the other, a window it fails on   *)
(* is asked once more, and one it twice finds nothing in is halved and     *)
(* each half classified like a text of its own.                            *)
(*                                                                         *)
(* A text is an interval <<from, to>> of words; what the model returns is  *)
(* known by the window it stems from. The activations of the function are  *)
(* a stack. What the model answers is free.                                *)
(***************************************************************************)
EXTENDS Integers, Sequences, SequencesExt

CONSTANTS
  ChunkTokens,     \* _CHUNK_TOKENS
  OverlapTokens,   \* _OVERLAP_TOKENS
  RecursionLimit   \* nesting at which the interpreter raises RecursionError

ASSUME WindowsAdvance ==
  /\ ChunkTokens \in Nat /\ OverlapTokens \in Nat /\ OverlapTokens < ChunkTokens
  /\ RecursionLimit \in Nat \ {0}

VARIABLES
  frames,    \* activations of classify_text_block_llm, the outermost first
  verdict    \* what the outermost one did last: returned intents, returned
             \* an empty list, or raised ValueError

(* One window if the text fits, else as many as it takes to reach its end. *)
ChunkText(text) ==
  LET size == text[2] - text[1]
      step == ChunkTokens - OverlapTokens
      count == IF size <= ChunkTokens THEN 1
               ELSE 1 + (size - ChunkTokens + step - 1) \div step
      From(k) == text[1] + (k - 1) * step
  IN [k \in 1..count |->
        <<From(k), IF From(k) + ChunkTokens < text[2] THEN From(k) + ChunkTokens ELSE text[2]>>]

Halves(text) ==
  LET mid == text[1] + (text[2] - text[1]) \div 2
  IN <<<<text[1], mid>>, <<mid, text[2]>>>>

(* chunks: windows not done yet, the first one current. call: which call is *)
(* next for it. halves: what self-healing still has to classify of it.      *)
(* found: the windows all_intents stems from. heard: the windows that got   *)
(* an answer at all (history).                                              *)
Activation(text) ==
  [text |-> text, chunks |-> ChunkText(text), call |-> "first", halves |-> <<>>,
   found |-> {}, heard |-> {}]

Classifying == frames # <<>>

Current == frames[Len(frames)]

Chunk == Head(Current.chunks)

Continue(f) == frames' = [frames EXCEPT ![Len(frames)] = f] /\ UNCHANGED verdict

(* The current window is done, with intents from windows `more`. *)
ChunkDone(f, more) ==
  [f EXCEPT !.chunks = Tail(f.chunks), !.call = "first", !.found = @ \cup more]

(* An activation ends. The one that called it drops the half it was for,    *)
(* and extends its list; an exception is caught there and the half skipped. *)
(* An empty list from a half that failed looks like one without intents.    *)
Leave(end, found) ==
  IF Len(frames) = 1
  THEN /\ frames' = <<>>
       /\ verdict' = end
  ELSE LET caller == frames[Len(frames) - 1]
       IN /\ frames' = Append(SubSeq(frames, 1, Len(frames) - 2),
                              [caller EXCEPT !.halves = Tail(@), !.found = @ \cup found])
          /\ UNCHANGED verdict

Asking == Classifying /\ Current.chunks # <<>> /\ Current.call # "halves"

Heard == [Current EXCEPT !.heard = @ \cup {Chunk}]

IntentsAnswered == Asking /\ Continue(ChunkDone(Heard, {Chunk}))

(* Zero intents: asked again at temperature 0, then halved. After an error  *)
(* the answer of the retry is taken as it is.                               *)
NothingAnswered ==
  /\ Asking
  /\ Continue(CASE Current.call = "first" -> [Heard EXCEPT !.call = "cold"]
                [] Current.call = "cold"  -> [Heard EXCEPT !.call = "halves", !.halves = Halves(Chunk)]
                [] Current.call = "retry" -> ChunkDone(Heard, {}))

(* Bugs the checks must notice: a window that fails twice is skipped; it is *)
(* asked again for ever.                                                     *)
FailedWindowSkipped ==
  /\ Asking
  /\ Continue(IF Current.call = "retry" THEN ChunkDone(Current, {})
              ELSE [Current EXCEPT !.call = "retry"])

RetriedForEver ==
  /\ Asking
  /\ Continue([Current EXCEPT !.call = IF @ = "retry" THEN "first" ELSE "retry"])

(* An exception: one retry. If that raises too, the whole call returns [].  *)
CallFails ==
  /\ Asking
  /\ IF Current.call = "retry"
     THEN Leave("empty", {})
     ELSE Continue([Current EXCEPT !.call = "retry"])

(* The recursive call; past the interpreter's limit it raises, and the half *)
(* is skipped like after any other exception.                               *)
ClassifyHalf ==
  /\ Classifying /\ Current.chunks # <<>> /\ Current.call = "halves"
  /\ IF Current.halves = <<>>
     THEN Continue(ChunkDone(Current, {}))
     ELSE IF Len(frames) < RecursionLimit
     THEN frames' = Append(frames, Activation(Head(Current.halves))) /\ UNCHANGED verdict
     ELSE Continue([Current EXCEPT !.halves = Tail(@)])

(* All windows done: ValueError if nothing was found in any of them. *)
ReturnIntents ==
  /\ Classifying /\ Current.chunks = <<>>
  /\ Leave(IF Current.found = {} THEN "raised" ELSE "intents", Current.found)

ClassifierStep ==
  \/ IntentsAnswered \/ NothingAnswered \/ CallFails
  \/ ClassifyHalf \/ ReturnIntents

-----------------------------------------------------------------------------

Words(window) == window[1]..(window[2] - 1)

(* A call of the classifier never passes over a window of its own: as long  *)
(* as it can still return intents, each word of its text is in a window the *)
(* model has answered about or in one still to come. One window of its own  *)
(* that fails twice makes it return [] for all of them. An answer may be    *)
(* that nothing was found. The halves of a window found empty twice are     *)
(* calls of their own: one that returns [] or raises leaves a hole in the   *)
(* intents of the call it was made for, and this does not exclude it.       *)
OwnWindowsAnswered ==
  \A i \in DOMAIN frames :
    LET Covered(windows) == UNION {Words(w) : w \in windows}
    IN Words(frames[i].text) \subseteq
         Covered(frames[i].heard) \cup Covered(ToSet(frames[i].chunks))
=============================================================================
