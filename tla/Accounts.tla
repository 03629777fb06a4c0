------------------------------ MODULE Accounts ------------------------------
(***************************************************************************)
(* account.c: the accounts file, read from the start on every request with *)
(* a line buffer of fixed size, and appended to.                           *)
(*                                                                         *)
(* The file is a sequence of characters.  A record is a name, a semicolon, *)
(* the digits of the password hash and a newline.  Lengths are parameters: *)
(* the buffer holds a record of a name as long as allowed with nothing to  *)
(* spare, whatever MAX_NAME and DIGITS are (32 and 40 in the code).        *)
(***************************************************************************)
EXTENDS Integers, SequencesExt

CONSTANTS
  NULL,
  Names,      \* the names that pass account_create's checks, as sequences
  Hashes,     \* the password hashes, as sequences of DIGITS hex digits
  Hex,        \* the characters isxdigit accepts
  MIN_NAME,   \* the shortest name allowed
  MAX_NAME,   \* longer than any name
  DIGITS,     \* HASH_LENGTH * 2
  FdLimit,    \* descriptors the process can use for this file
  MaxFile,    \* the model's bound on the length of the file
  MaxTorn     \* the model's bound on the records that get there in part

MAX_RECORD == MAX_NAME + DIGITS + 2
Semicolon  == ";"
Newline    == "\n"
Characters == Hex \cup {Semicolon, Newline} \cup UNION {ToSet(n) : n \in Names}

ASSUME LengthsAssumption ==
  /\ {MIN_NAME, MAX_NAME, DIGITS} \subseteq Nat
  /\ \A n \in Names : Len(n) \in MIN_NAME..(MAX_NAME - 1)
  /\ \A h \in Hashes : Len(h) = DIGITS /\ ToSet(h) \subseteq Hex
ASSUME CharactersAssumption ==
  /\ Names \cup Hashes \subseteq Seq(Characters) /\ NULL \notin Seq(Characters)
  /\ \A n \in Names : {Semicolon, Newline} \cap ToSet(n) = {}
  /\ {Semicolon, Newline} \cap Hex = {}

VARIABLES
  file,       \* the characters of accounts.ini
  running,    \* the process is alive
  leaked,     \* streams find_account has left open
  fate,       \* why the process ended
  confirmed,  \* name |-> the hash CREATE_SUCCESS was answered for, or NULL
  kept,       \* the confirmed names whose record got to the file whole, and
              \* at the start of a line
  torn        \* the records of which part, and not all, has got to the file

vars == <<file, running, leaked, fate, confirmed, kept, torn>>

(***************************************************************************)
(* Reading                                                                 *)
(***************************************************************************)
(* fgets(buffer, MAX_RECORD - 1, f) reads one character less than that.    *)
BufferSize_LESS == MAX_RECORD - 3
BufferSize == MAX_RECORD - 2

(* One character more: a line ends with a newline or a full buffer. *)
Grown(lines, c) ==
  LET n == Len(lines)
  IN  IF n = 0 \/ Last(lines[n]) = Newline \/ Len(lines[n]) = BufferSize
      THEN Append(lines, <<c>>)
      ELSE [lines EXCEPT ![n] = Append(@, c)]

(* What successive calls of fgets return. *)
LinesIn(chars) ==
  LET read[k \in 0..Len(chars)] ==
        IF k = 0 THEN << >> ELSE Grown(read[k - 1], chars[k])
  IN  read[Len(chars)]

Lines == LinesIn(file)

(* The line cut at its first semicolon, 0 if it has none. *)
Cut(line)  == SelectInSeq(line, LAMBDA c : c = Semicolon)
NameIn(line) == SubSeq(line, 1, Cut(line) - 1)
HashIn(line) == SubSeq(line, Cut(line) + 1, Len(line))

(* The first line with the name, NULL if there is none. *)
LineOf(n) ==
  LET Matches(line) == Cut(line) > 0 /\ NameIn(line) = n
      at == SelectInSeq(Lines, Matches)
  IN  IF at = 0 THEN NULL ELSE Lines[at]

(* What find_account uses of the hash. *)
Digits(line) == SubSeq(HashIn(line), 1, Min({DIGITS, Len(HashIn(line))}))

(* A hash that find_account accepts: long enough and, as far as it is      *)
(* used, made of digits.                                                   *)
Readable(line) ==
  /\ Len(Digits(line)) = DIGITS
  /\ ToSet(Digits(line)) \subseteq Hex

Accepted(n) == LineOf(n) # NULL => Readable(LineOf(n))

StoredHash(n) == IF LineOf(n) = NULL THEN NULL ELSE Digits(LineOf(n))

(***************************************************************************)
(* Requests                                                                *)
(***************************************************************************)
Init ==
  /\ file = << >>
  /\ running = TRUE
  /\ leaked = 0
  /\ fate = "none"
  /\ confirmed = [n \in Names |-> NULL]
  /\ kept = {}
  /\ torn = 0

(* exit(1) in the middle of a request. *)
exit(why) ==
  /\ running' = FALSE
  /\ fate' = why
  /\ UNCHANGED <<file, leaked, confirmed, kept, torn>>

(* Neither for reading nor for appending can the file be opened. *)
OutOfDescriptors == leaked >= FdLimit

(* account_login reads the record, and ends the process if the hash in it  *)
(* is damaged; it closes the file again, and answers without a trace.      *)
account_login(n) ==
  /\ running
  /\ \/ /\ OutOfDescriptors \/ ~Accepted(n)
        /\ exit(IF OutOfDescriptors THEN "no descriptors" ELSE "bad hash")
     \/ ~OutOfDescriptors /\ Accepted(n) /\ UNCHANGED vars

Record_BARE(n, h) == n \o <<Semicolon>> \o h
Record(n, h) == n \o <<Semicolon>> \o h \o <<Newline>>

(* What may get to the file of a record, which is printed in pieces: all   *)
(* of it, or part of it or nothing when a write fails, and nobody looks,   *)
(* or when a signal ends the process, flushing what is printed so far.     *)
Printed(record) == {SubSeq(record, 1, k) : k \in 0..Len(record)}

Flush(record, part) ==
  /\ Len(file) + Len(record) <= MaxFile
  /\ file' = file \o part
  /\ torn' = IF part \in {<< >>, record} THEN torn ELSE torn + 1
  /\ torn' <= MaxTorn

AtLineStart == file = << >> \/ Last(file) = Newline

(* account_create finds the name: the stream it leaves open is lost. *)
AccountExists(n) ==
  /\ running /\ ~OutOfDescriptors
  /\ LineOf(n) # NULL
  /\ leaked' = leaked + 1
  /\ UNCHANGED <<file, running, fate, confirmed, kept, torn>>

MayAdd_ALWAYS(n) == TRUE
MayAdd(n) == LineOf(n) = NULL

(* account_create adds the record and reports success, whatever became of  *)
(* the record.                                                             *)
add_account(n, h) ==
  /\ running /\ ~OutOfDescriptors
  /\ MayAdd(n)
  /\ \E part \in Printed(Record(n, h)) :
       /\ Flush(Record(n, h), part)
       /\ kept' = IF part = Record(n, h) /\ AtLineStart THEN kept \cup {n} ELSE kept \ {n}
  /\ confirmed' = [confirmed EXCEPT ![n] = h]
  /\ UNCHANGED <<running, leaked, fate>>

CreateExits ==
  /\ running /\ OutOfDescriptors
  /\ exit("no descriptors")

(* A signal in add_account: no answer is sent. *)
Interrupted(n, h) ==
  /\ running /\ ~OutOfDescriptors
  /\ MayAdd(n)
  /\ \E part \in Printed(Record(n, h)) : Flush(Record(n, h), part)
  /\ running' = FALSE
  /\ fate' = "signal"
  /\ UNCHANGED <<leaked, confirmed, kept>>

Restart ==
  /\ ~running
  /\ running' = TRUE
  /\ leaked' = 0
  /\ fate' = "none"
  /\ UNCHANGED <<file, confirmed, kept, torn>>

Next ==
  \/ \E n \in Names :
       \/ account_login(n) \/ AccountExists(n)
       \/ \E h \in Hashes : add_account(n, h) \/ Interrupted(n, h)
  \/ CreateExits
  \/ Restart

Spec == Init /\ [][Next]_vars

(***************************************************************************)
(* Properties                                                              *)
(***************************************************************************)

(* types.h on SID_CREATE_RESPONSE: "If this was successful, the user can   *)
(* go on to log in with the chosen account."  What was confirmed is found  *)
(* again in the file, with its hash.                                       *)
CreatedCanLogIn ==
  \A n \in Names : confirmed[n] # NULL => StoredHash(n) = confirmed[n]

(* The code keeps that promise to whoever's record got to the file whole   *)
(* and at the start of a line: it is what find_account finds under the     *)
(* name, whatever whole or torn records lie before it or are appended      *)
(* behind it, and wherever the buffer of fgets cuts them.                  *)
KeptCanLogIn ==
  \A n \in kept : StoredHash(n) = confirmed[n]

(* As long as no record was torn, reading cuts the file into the records   *)
(* that were appended: every line with a semicolon is a whole record of    *)
(* its own, so no request ends the process over a damaged hash and no name *)
(* appears that nobody created.                                            *)
LinesAreRecords ==
  torn = 0 =>
    /\ fate # "bad hash"
    /\ \A i \in DOMAIN Lines : Cut(Lines[i]) > 0 =>
         /\ NameIn(Lines[i]) \in Names
         /\ Digits(Lines[i]) \in Hashes

(* As long as no record was torn, one record per name, however often it is *)
(* asked for, and whether or not the process ends before it answers.       *)
(* (Behind part of a record the next one becomes a line of another name,   *)
(* which may have a record already.)                                       *)
OneRecordPerName ==
  torn = 0 =>
    \A i, j \in DOMAIN Lines :
      /\ Cut(Lines[i]) > 0 /\ Cut(Lines[j]) > 0
      /\ NameIn(Lines[i]) = NameIn(Lines[j])
      => i = j
=============================================================================
