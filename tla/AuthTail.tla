------------------------------- MODULE AuthTail -------------------------------
(***************************************************************************)
(* AuthMonitor.tailFile beside the daemon that writes the log and logrotate *)
(* that renames and recreates it, or copies and truncates it.  A line of    *)
(* the log is in two pieces, <<l, 1>> and <<l, 2>>, the second with the     *)
(* newline; the daemon writes both at once or one after the other.  Files   *)
(* are numbered as they are created.                                        *)
(***************************************************************************)
EXTENDS Naturals, Sequences, SequencesExt

CONSTANTS
    TailLines,      \* bound: lines written
    SplitLines,     \* lines the daemon may write in two goes
    LongLines,      \* lines whose first piece fills the scanner's 64 KiB
    TailFiles,      \* bound: files that have been the log
    ReopenTries,    \* times reopenRotated looks for the log
    Truncations     \* bound: times the log is truncated

ASSUME TailAssumption ==
    /\ TailLines \in Nat /\ SplitLines \cup LongLines \subseteq 1..TailLines
    /\ TailFiles \in Nat \ {0} /\ ReopenTries \in Nat \ {0} /\ Truncations \in Nat

VARIABLES
    tlFiles,    \* tlFiles[i]: what is in file i
    tlPath,     \* the file at the log's path, 0 if there is none
    tlWriter,   \* the file the daemon has open
    tlLine,     \* lines begun
    tlHalf,     \* the second piece of the last one is still to be written
    tlTruncs,   \* truncations so far
    tlPc,       \* where tailFile is
    tlFile,     \* f
    tlOff,      \* its offset, in pieces
    tlTries,    \* looks taken by reopenRotated
    tlOut,      \* the texts given to parseLine
    tlSplit     \* history: lines written in two writes

tailLog == <<tlFiles, tlPath, tlWriter, tlLine, tlHalf, tlTruncs, tlSplit>>
tailMonitor == <<tlPc, tlFile, tlOff, tlTries, tlOut>>
tailVars == <<tailLog, tailMonitor>>

\* The monitor opens the log and goes to its end: what was there is not read.
TailInit ==
    /\ tlFiles = << <<>> >> /\ tlPath = 1 /\ tlWriter = 1
    /\ tlLine = 0 /\ tlHalf = FALSE /\ tlTruncs = 0 /\ tlSplit = {}
    /\ tlPc = "check" /\ tlFile = 1 /\ tlOff = 0 /\ tlTries = 0 /\ tlOut = <<>>

-----------------------------------------------------------------------------
(* The daemon and logrotate *)

AppendToLog(pieces) == tlFiles' = [tlFiles EXCEPT ![tlWriter] = @ \o pieces]

LogWrite ==
    /\ tlLine < TailLines /\ ~tlHalf
    /\ tlLine' = tlLine + 1
    /\ AppendToLog(<< <<tlLine', 1>>, <<tlLine', 2>> >>)
    /\ UNCHANGED <<tlPath, tlWriter, tlHalf, tlTruncs, tlSplit, tailMonitor>>

LogWriteHalf ==
    /\ IF tlHalf THEN UNCHANGED tlLine ELSE tlLine < TailLines /\ tlLine' = tlLine + 1
    /\ tlLine' \in SplitLines
    /\ AppendToLog(<< <<tlLine', IF tlHalf THEN 2 ELSE 1>> >>)
    /\ tlHalf' = ~tlHalf
    /\ tlSplit' = tlSplit \cup {tlLine'}
    /\ UNCHANGED <<tlPath, tlWriter, tlTruncs, tailMonitor>>

LogRename ==
    /\ tlPath # 0 /\ Len(tlFiles) < TailFiles
    /\ tlPath' = 0
    /\ UNCHANGED <<tlFiles, tlWriter, tlLine, tlHalf, tlTruncs, tlSplit, tailMonitor>>

LogCreate ==
    /\ tlPath = 0
    /\ tlFiles' = Append(tlFiles, <<>>) /\ tlPath' = Len(tlFiles')
    /\ UNCHANGED <<tlWriter, tlLine, tlHalf, tlTruncs, tlSplit, tailMonitor>>

\* The daemon is told to open the log again, which it does between two lines.
LogReopen ==
    /\ tlPath # 0 /\ tlWriter # tlPath /\ ~tlHalf
    /\ tlWriter' = tlPath
    /\ UNCHANGED <<tlFiles, tlPath, tlLine, tlHalf, tlTruncs, tlSplit, tailMonitor>>

LogTruncate ==
    /\ tlPath # 0 /\ tlTruncs < Truncations
    /\ tlTruncs' = tlTruncs + 1
    /\ tlFiles' = [tlFiles EXCEPT ![tlPath] = <<>>]
    /\ UNCHANGED <<tlPath, tlWriter, tlLine, tlHalf, tlSplit, tailMonitor>>

-----------------------------------------------------------------------------
(* tailFile *)

\* Is the file at the path still the one that is open?
TailCheck ==
    /\ tlPc = "check"
    /\ IF tlPath = tlFile THEN tlPc' = "scan" ELSE tlPc' = "reopen"
    /\ tlTries' = 0
    /\ UNCHANGED <<tlFile, tlOff, tlOut, tailLog>>

\* Fault: the file that replaces the log is read from where the old one was.
TailReopenAtOffset ==
    /\ tlPc = "reopen" /\ tlTries < ReopenTries
    /\ IF tlPath # 0
       THEN tlFile' = tlPath /\ tlPc' = "scan" /\ UNCHANGED <<tlTries, tlOff>>
       ELSE tlTries' = tlTries + 1 /\ UNCHANGED <<tlFile, tlOff, tlPc>>
    /\ UNCHANGED <<tlOut, tailLog>>

\* reopenRotated: wait, and open what is there then, from its beginning.
TailReopen ==
    /\ tlPc = "reopen" /\ tlTries < ReopenTries
    /\ IF tlPath # 0
       THEN tlFile' = tlPath /\ tlOff' = 0 /\ tlPc' = "scan" /\ UNCHANGED tlTries
       ELSE tlTries' = tlTries + 1 /\ UNCHANGED <<tlFile, tlOff, tlPc>>
    /\ UNCHANGED <<tlOut, tailLog>>

\* "did not reappear after rotation": the monitor ends.
TailGiveUp ==
    /\ tlPc = "reopen" /\ tlTries = ReopenTries
    /\ tlPc' = "ended"
    /\ UNCHANGED <<tlFile, tlOff, tlTries, tlOut, tailLog>>

\* ctx is done.
TailCancel ==
    /\ tlPc \in {"check", "reopen", "scan"}
    /\ tlPc' = "ended"
    /\ UNCHANGED <<tlFile, tlOff, tlTries, tlOut, tailLog>>

\* What is in the file after the offset, up to the first newline.
TailAhead == SubSeq(tlFiles[tlFile], tlOff + 1, Len(tlFiles[tlFile]))
NextText == LET eol == SelectInSeq(TailAhead, LAMBDA piece : piece[2] = 2)
            IN  IF eol = 0 THEN TailAhead ELSE SubSeq(TailAhead, 1, eol)
EndsLine(text) == Last(text)[2] = 2
TooLong(text) == text[1][2] = 1 /\ text[1][1] \in LongLines

\* Fault: what one read brought is a line, wherever it ends.
TailScanPiece ==
    /\ tlPc = "scan" /\ TailAhead # <<>> /\ ~TooLong(NextText)
    /\ tlOut' = Append(tlOut, SubSeq(TailAhead, 1, 1))
    /\ tlOff' = tlOff + 1
    /\ UNCHANGED <<tlPc, tlFile, tlTries, tailLog>>

\* Fault: a text without a newline is left for the next scan, and given too.
TailScanAgain ==
    /\ tlPc = "scan" /\ TailAhead # <<>> /\ ~TooLong(NextText)
    /\ tlOut' = Append(tlOut, NextText)
    /\ IF EndsLine(NextText) THEN tlOff' = tlOff + Len(NextText) ELSE UNCHANGED tlOff
    /\ tlPc' = IF EndsLine(NextText) THEN "scan" ELSE "sleep"
    /\ UNCHANGED <<tlFile, tlTries, tailLog>>

\* sc.Scan and parseLine.  At the end of the file the scanner gives what there
\* is as its last text, newline or not.
TailScan ==
    /\ tlPc = "scan" /\ TailAhead # <<>> /\ ~TooLong(NextText)
    /\ tlOut' = Append(tlOut, NextText)
    /\ tlOff' = tlOff + Len(NextText)
    /\ tlPc' = IF EndsLine(NextText) THEN "scan" ELSE "sleep"
    /\ UNCHANGED <<tlFile, tlTries, tailLog>>

\* ErrTooLong: the scanner stops, and what it had read of the line is gone.
TailTooLong ==
    /\ tlPc = "scan" /\ TailAhead # <<>> /\ TooLong(NextText)
    /\ tlOff' = tlOff + 1
    /\ tlPc' = "sleep"
    /\ UNCHANGED <<tlFile, tlTries, tlOut, tailLog>>

\* The end of the file: also when it has become shorter than the offset.
TailEOF ==
    /\ tlPc = "scan" /\ TailAhead = <<>>
    /\ tlPc' = "sleep"
    /\ UNCHANGED <<tlFile, tlOff, tlTries, tlOut, tailLog>>

TailSleep ==
    /\ tlPc = "sleep"
    /\ tlPc' = "check"
    /\ UNCHANGED <<tlFile, tlOff, tlTries, tlOut, tailLog>>

-----------------------------------------------------------------------------

TailLog == LogWrite \/ LogWriteHalf \/ LogRename \/ LogCreate \/ LogReopen \/ LogTruncate

TailLoop == \/ TailCheck \/ TailReopen \/ TailGiveUp
            \/ TailScan \/ TailTooLong \/ TailEOF \/ TailSleep

TailEnded == tlPc = "ended" /\ UNCHANGED tailVars

TailNext == TailLog \/ TailLoop \/ TailCancel \/ TailEnded

TailSpec == TailInit /\ [][TailNext]_tailVars

\* The monitor's goroutine is scheduled, and its sleeps end.
TailFairness == WF_tailVars(TailLoop)

-----------------------------------------------------------------------------
(* Properties *)

IsParsed(piece) == \E n \in DOMAIN tlOut : piece \in ToSet(tlOut[n])
PieceBefore(p, q) == p[1] < q[1] \/ (p[1] = q[1] /\ p[2] < q[2])

\* No part of the log is parsed twice, and what is parsed is in the order it
\* was written, over every rotation and truncation (auth_linux.go:74-116).
TailOnceInOrder ==
    \A m, n \in DOMAIN tlOut : \A j \in DOMAIN tlOut[m], k \in DOMAIN tlOut[n] :
        (m < n \/ (m = n /\ j < k)) => PieceBefore(tlOut[m][j], tlOut[n][k])

\* A line the daemon wrote at once is parsed whole or not at all: only a line
\* written in two goes, or one longer than the buffer, comes in fragments, as
\* long as the log is not truncated under the offset (auth_linux.go:103-105).
TailWhole ==
    tlTruncs = 0 =>
        \A n \in DOMAIN tlOut :
            LET l == tlOut[n][1][1] IN
            l \notin tlSplit \cup LongLines => tlOut[n] = << <<l, 1>>, <<l, 2>> >>

\* A line that is in the file at the log's path is parsed, also when it was
\* there before the monitor opened that file: unless the file is rotated away or
\* truncated first, or the monitor ends (auth_linux.go:82-139).
InLog(l) == tlPath # 0 /\ <<l, 2>> \in ToSet(tlFiles[tlPath])
TailReads ==
    \A l \in (1..TailLines) \ LongLines :
        InLog(l) ~> \/ IsParsed(<<l, 2>>)
                    \/ ~InLog(l) \/ tlTruncs > 0 \/ tlPc = "ended"
=============================================================================
