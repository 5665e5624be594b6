----------------------------- MODULE SupervisorLog -----------------------------
(***************************************************************************)
(* A unit's log as the process supervisor keeps it and `proxy-suitectl     *)
(* journal` shows it (src/pkgs/proxy-ctl/proxy_supervisor.py): lines are   *)
(* appended to a file, which past a size becomes the one before; a reader  *)
(* prints what is there, then follows.  A line is its number, and its time.*)
(***************************************************************************)
EXTENDS Naturals, Sequences, FiniteSets
LOCAL INSTANCE SequencesExt

CONSTANTS
  Limit,     \* LOG_LIMIT, in lines
  MaxLines,  \* bound: lines ever written
  Counts,    \* -n: a number, or None
  Sinces,    \* --since: a line's time, or None
  None

VARIABLES
  lines,   \* lines written
  file,    \* the log, [inode, text], or None
  before,  \* <unit>.log.1
  reader,  \* where it is, what it was asked, what it remembers of the log
  printed, \* the lines it has printed, in order
  owed,    \* lines written since it read the log, bar those a rotation took from it
           \* unread or that came before it took the file's size
  turned,  \* a rotation since the reader last looked
  again    \* lines it read of a log that was rotated under its look

vars == <<lines, file, before, reader, printed, owed, turned, again>>

Text(f)    == IF f = None THEN <<>> ELSE f.text
At(step)   == reader.at = step
Go(step)   == reader' = [reader EXCEPT !.at = step]

-----------------------------------------------------------------------------
(* append_log, for one line, under the unit's lock: the log is the one before *)
(* now, and there is none until it is opened to append.                       *)

Rotates == file # None /\ Len(file.text) > Limit

\* Between two looks of a follower, half a second, the file does not fill twice.
Rotate ==
  /\ lines < MaxLines /\ Rotates /\ ~turned
  /\ before' = file /\ file' = None /\ turned' = TRUE
  /\ owed' = owed \ ToSet(file.text)
  /\ UNCHANGED <<lines, reader, printed, again>>

AppendLine ==
  /\ lines < MaxLines /\ ~Rotates
  /\ lines' = lines + 1
  /\ \/ file # None /\ file' = [file EXCEPT !.text = Append(@, lines')]
     \/ /\ file = None
        /\ \E inode \in 1..3 : /\ before # None => inode # before.inode
                               /\ file' = [inode |-> inode, text |-> <<lines'>>]
  /\ owed' = (IF reader.at \in {"follow", "look"} THEN {lines'} ELSE {}) \union owed
  /\ UNCHANGED <<before, reader, printed, turned, again>>

-----------------------------------------------------------------------------
(* journal_main                                                             *)

\* log_units, then read_entries: the file before, then the log.  A log being rotated is
\* not there to be listed.
ReadOld ==
  /\ At("start")
  /\ \E found \in {Text(before)} \union (IF file = None THEN {None} ELSE {}) :
       reader' = [reader EXCEPT !.at = "read", !.found = found]
  /\ turned' = FALSE
  /\ UNCHANGED <<lines, file, before, printed, owed, again>>

\* journal_lines: the last of them.
LastOf(count, s) == SubSeq(s, (IF count < Len(s) THEN Len(s) - count ELSE 0) + 1, Len(s))
Since(since, s) == SelectSeq(s, LAMBDA line : since = None \/ line >= since)

PrintKept ==
  /\ At("read")
  /\ LET found == IF reader.found = None THEN <<>> ELSE Since(reader.since, reader.found \o Text(file))
     IN  printed' = IF reader.count = None THEN found ELSE LastOf(reader.count, found)
  /\ Go("print")
  /\ UNCHANGED <<lines, file, before, owed, turned, again>>

\* Where it follows from: the file it is, then its size; nowhere if there is no log.
TakesInode ==
  /\ At("print")
  /\ reader' = IF file = None THEN [reader EXCEPT !.at = "follow"]
               ELSE [reader EXCEPT !.at = "size", !.from = [inode |-> file.inode, offset |-> 0]]
  /\ turned' = FALSE
  /\ UNCHANGED <<lines, file, before, printed, owed, again>>

\* Mutant: it follows from the file's start.
Start_zero == 0
Start == Len(Text(file))

TakesSize ==
  /\ At("size")
  /\ reader' = [reader EXCEPT !.at = "follow", !.from = IF file = None THEN None ELSE [@ EXCEPT !.offset = Start]]
  /\ UNCHANGED <<lines, file, before, printed, owed, turned, again>>

\* Mutant: only a shorter file is another.
Offset_size(from) == IF from = None \/ Len(file.text) < from.offset THEN 0 ELSE from.offset
\* Where to read on: another file, or one that is shorter, from its start.
Offset(from) ==
  IF from = None \/ from.inode # file.inode \/ Len(file.text) < from.offset THEN 0 ELSE from.offset

\* os.stat: the log is where it was read to, or is to be read on.
Stat ==
  /\ At("follow") /\ file # None
  /\ LET seen == [inode |-> file.inode, offset |-> Offset(reader.from)]
     IN  reader' = IF seen.offset = Len(file.text) THEN [reader EXCEPT !.from = seen]
                   ELSE [reader EXCEPT !.at = "look", !.from = seen]
  /\ turned' = FALSE
  /\ UNCHANGED <<lines, file, before, printed, owed, again>>

\* Then open: the log may be another by now, which is read from the old one's offset, and
\* read again as that other at the next look; or not there, and that ends the reader.
\* A rotation past the open is one past the read.
Read ==
  /\ At("look")
  /\ \/ file = None /\ Go("dead") /\ UNCHANGED <<printed, owed, again>>
     \/ /\ file # None
        /\ LET unread == SubSeq(file.text, reader.from.offset + 1, Len(file.text))
           IN  /\ printed' = printed \o unread
               /\ again' = IF file.inode = reader.from.inode THEN again ELSE again \union ToSet(unread)
        /\ reader' = [reader EXCEPT !.at = "follow",
                                    !.from.offset = IF Len(file.text) < @ THEN @ ELSE Len(file.text)]
        /\ owed' = owed \ ToSet(printed')
  /\ UNCHANGED <<lines, file, before, turned>>

-----------------------------------------------------------------------------
Init ==
  /\ lines = 0 /\ file = None /\ before = None
  /\ \E count \in Counts, since \in Sinces :
       reader = [at |-> "start", count |-> count, since |-> since, found |-> <<>>, from |-> None]
  /\ printed = <<>> /\ owed = {} /\ turned = FALSE /\ again = {}

Next == Rotate \/ AppendLine \/ ReadOld \/ PrintKept \/ TakesInode \/ TakesSize \/ Stat \/ Read

-----------------------------------------------------------------------------
\* A reader prints no line twice, nor one after a later one, over any number of rotations; but
\* what it reads of a log that is rotated between its stat and its open it prints once more,
\* as that log's (journal_main, proxy_supervisor.py:1680).
InOrder ==
  /\ \A i, j \in 1..Len(printed) : i < j /\ printed[i] >= printed[j] => {printed[i], printed[j]} \cap again # {}
  /\ \A line \in ToSet(printed) : Cardinality({i \in 1..Len(printed) : printed[i] = line}) <= IF line \in again THEN 2 ELSE 1

\* What it was asked for comes first: the last lines of those kept that are not older,
\* bar those that a rotation took between its two reads.
AskedFor ==
  At("print") /\ ~turned /\ reader.found # None =>
    LET newest == IF Len(printed) = 0 THEN 0 ELSE printed[Len(printed)]
        kept == {l \in ToSet(Text(before) \o Text(file)) : reader.since = None \/ l >= reader.since}
    IN  /\ ToSet(printed) \subseteq kept
        /\ reader.count # None => Len(printed) <= reader.count
        /\ \A l \in kept : l < newest /\ l \notin ToSet(printed) => Len(printed) = reader.count

\* Having looked, a follower owes no line but those a rotation took unread.
NoneOwed == At("follow") /\ reader.from # None /\ file # None /\ reader.from = [inode |-> file.inode, offset |-> Len(file.text)] => owed = {}

LogHolds == InOrder /\ AskedFor /\ NoneOwed
=============================================================================
