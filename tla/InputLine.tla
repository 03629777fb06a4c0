----------------------------- MODULE InputLine -----------------------------
(***************************************************************************)
(* The line the client's user types: read_next of output.c.  Each key      *)
(* changes one static buffer, and a finished line is handed out from that  *)
(* same buffer, which is not cleared.                                      *)
(*                                                                         *)
(* A line is the record of its text, what the buffer holds up to the       *)
(* terminator, and of read_location, where the next character goes.  The   *)
(* characters of the model are whole words: nothing here looks into them.  *)
(* The place behind the buffer, which the terminator of a full one reaches, *)
(* belongs to whatever is linked there, and nothing here reads it back: if  *)
(* that is read_location, the byte is the lowest of its 1024, 0 already.    *)
(***************************************************************************)
EXTENDS Integers, Sequences, FiniteSets

CONSTANTS
  Words,        \* what the keys other than the two below enter
  ENTER,
  BACKSPACE,
  MAX_MESSAGE   \* the size of the buffer

ASSUME KeysAssumption  == ENTER # BACKSPACE /\ ENTER \notin Words /\ BACKSPACE \notin Words
ASSUME RoomAssumption  == MAX_MESSAGE \in Nat /\ MAX_MESSAGE > 1

Keys == Words \cup {ENTER, BACKSPACE}

(* What read_next leaves behind: the line, how far into memory anything    *)
(* was stored, and the lines handed out.                                   *)
Line(text, at, top, sent) == [text |-> text, at |-> at, top |-> top, sent |-> sent]
NoLine == Line(<< >>, 0, 0, << >>)

(* A key's characters end up in the buffer, and behind them the terminator *)
(* is stored: of a text that fills the buffer, one place past its end.     *)
Store(line, text) ==
  Line(text, Len(text), IF Len(text) > line.top THEN Len(text) ELSE line.top, line.sent)
HandOut(line) == Line(line.text, 0, line.top, Append(line.sent, line.text))

(* Enter hands out the buffer and starts again at its beginning.  The text *)
(* stays: until another character is typed it is still what Enter finds.   *)
PressEnter(line) == HandOut(line)

PressBackspace_KEEPS(line) == IF line.at = 0 THEN line ELSE [line EXCEPT !.at = @ - 1]
PressBackspace(line) ==
  IF line.at = 0 THEN line ELSE Store(line, SubSeq(line.text, 1, line.at - 1))

(* A character ends the text where it is put.  The one that fills the      *)
(* buffer hands it out without waiting for Enter.                          *)
PressWord_LATE(line, word) ==
  LET typed == Store(line, Append(SubSeq(line.text, 1, line.at), word))
  IN  IF typed.at > MAX_MESSAGE THEN HandOut(typed) ELSE typed
PressWord(line, word) ==
  LET typed == Store(line, Append(SubSeq(line.text, 1, line.at), word))
  IN  IF typed.at >= MAX_MESSAGE THEN HandOut(typed) ELSE typed

read_next(line, key) ==
  IF key = ENTER THEN PressEnter(line)
  ELSE IF key = BACKSPACE THEN PressBackspace(line)
  ELSE PressWord(line, key)

(* The keys of a sequence, one after the other. *)
Typed(line, keys) ==
  LET after[i \in 0..Len(keys)] == IF i = 0 THEN line ELSE read_next(after[i - 1], keys[i])
  IN  after[Len(keys)]

(***************************************************************************)
(* What the user means by the keys, said without the buffer                *)
(***************************************************************************)
Count(keys, i, j, of) == Cardinality({k \in i..j : keys[k] \in of})

(* Keys i..j are typed on an empty line.  A word among them stands if the  *)
(* keys after it erase no more than they enter, at any point.              *)
Stands(keys, i, j) ==
  {k \in i..j : /\ keys[k] \in Words
                /\ \A e \in k..j : Count(keys, k + 1, e, {BACKSPACE}) <= Count(keys, k + 1, e, Words)}

(* The text consists of the words that stand, in the order of their keys.  *)
Spells(text, keys, i, j) ==
  \E at \in [1..Len(text) -> i..j] :
    /\ \A m, n \in 1..Len(text) : m < n => at[m] < at[n]
    /\ {at[n] : n \in 1..Len(text)} = Stands(keys, i, j)
    /\ \A n \in 1..Len(text) : text[n] = keys[at[n]]

(* Something was typed, erased again or not. *)
SomeTyped(keys, i, j) == \E k \in i..j : keys[k] \in Words

(* How many lines the first k keys hand out, and the last of them. *)
After(keys, k)    == Typed(NoLine, SubSeq(keys, 1, k)).sent
LastLine(keys, k) == After(keys, k)[Len(After(keys, k))]

(* The keys i..j end a line of this text: what was typed and not erased.   *)
(* Only Enter and the last word that fits end a line.                      *)
EndsWell(keys, i, j, text) ==
  \/ /\ keys[j] = ENTER
     /\ Spells(text, keys, i, j - 1)
  \/ /\ keys[j] \in Words
     /\ Spells(text, keys, i, j) /\ Len(text) = MAX_MESSAGE

(* Keys i..j are those of one line: one was handed out just before i, the  *)
(* next one at j.                                                          *)
OneLine(keys, i, j) ==
  LET sent(k) == Len(After(keys, k))
  IN  /\ i = 1 \/ sent(i - 2) < sent(i - 1)
      /\ sent(i - 1) = sent(j - 1) /\ sent(j - 1) < sent(j)

(* Of a line on which nothing was typed this says nothing: what Enter then *)
(* hands out is the line before, once more.                                *)
TypedAsMeant(keys) ==
  /\ \A j \in 1..Len(keys) : keys[j] = ENTER => \E i \in 1..j : OneLine(keys, i, j)
  /\ \A i, j \in 1..Len(keys) :
       i <= j /\ OneLine(keys, i, j) /\ SomeTyped(keys, i, j)
         => EndsWell(keys, i, j, LastLine(keys, j))
=============================================================================
