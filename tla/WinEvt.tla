-------------------------------- MODULE WinEvt --------------------------------
(***************************************************************************)
(* runEvtLoop on a subscription to the Windows event log, as the logon and  *)
(* process monitors use it.  The service sets the subscription's event when *)
(* a record is written to the channel; the loop waits for it for a second   *)
(* at most, pulls records in batches until there is none, and resets it.    *)
(* Records are numbered as they are written.                                *)
(***************************************************************************)
EXTENDS Naturals, Sequences, FiniteSets, SequencesExt

CONSTANTS
    EvtBatch,       \* evtNextArraySize: records one EvtNext returns at most
    EvtRecords,     \* bound: records written
    RenderFails     \* bound: records EvtRender fails on

ASSUME WinAssumption == EvtBatch \in Nat \ {0} /\ EvtRecords \in Nat /\ RenderFails \in Nat

VARIABLES
    weWritten,  \* records written to the channel
    wePulled,   \* records taken by EvtNext
    weSignal,   \* the event is set
    wePc,       \* where the loop is
    weBatch,    \* records of the batch being rendered
    weGot,      \* did the batch give any document?
    weDocs,     \* documents of this drain, then those still to be given to fn
    weOut,      \* documents fn was called with
    weBad       \* records that could not be rendered

winVars == <<weWritten, wePulled, weSignal, wePc, weBatch, weGot, weDocs, weOut, weBad>>

WinInit ==
    /\ weWritten = 0 /\ wePulled = 0 /\ weSignal = FALSE
    /\ wePc = "wait" /\ weBatch = <<>> /\ weGot = FALSE
    /\ weDocs = <<>> /\ weOut = <<>> /\ weBad = {}

-----------------------------------------------------------------------------

\* The service, at any time.
EvtWrite ==
    /\ weWritten < EvtRecords
    /\ weWritten' = weWritten + 1 /\ weSignal' = TRUE
    /\ UNCHANGED <<wePulled, wePc, weBatch, weGot, weDocs, weOut, weBad>>

\* Fault: the wait has no limit.
EvtWaitSignal ==
    /\ wePc = "wait" /\ weSignal
    /\ wePc' = "pull"
    /\ UNCHANGED <<weWritten, wePulled, weSignal, weBatch, weGot, weDocs, weOut, weBad>>

\* WaitForSingleObject: it returns when the event is set, and after a second.
EvtWait ==
    /\ wePc = "wait"
    /\ wePc' = "pull"
    /\ UNCHANGED <<weWritten, wePulled, weSignal, weBatch, weGot, weDocs, weOut, weBad>>

\* EvtNext.  Without a record the drain is over.
EvtPull ==
    LET last == IF wePulled + EvtBatch < weWritten THEN wePulled + EvtBatch ELSE weWritten IN
    /\ wePc = "pull"
    /\ IF wePulled = weWritten
       THEN wePc' = "reset" /\ UNCHANGED <<wePulled, weBatch>>
       ELSE /\ wePc' = "render"
            /\ weBatch' = [n \in 1..(last - wePulled) |-> wePulled + n]
            /\ wePulled' = last
    /\ weGot' = FALSE
    /\ UNCHANGED <<weWritten, weSignal, weDocs, weOut, weBad>>

\* EvtNext fails: what this drain has is dropped, and the loop is over.
EvtPullError ==
    /\ wePc = "pull"
    /\ wePc' = "ended" /\ weDocs' = <<>>
    /\ UNCHANGED <<weWritten, wePulled, weSignal, weBatch, weGot, weOut, weBad>>

\* renderEventXml: a record it fails on is skipped.
EvtRender ==
    /\ wePc = "render" /\ weBatch # <<>>
    /\ weBatch' = Tail(weBatch)
    /\ \/ weDocs' = Append(weDocs, Head(weBatch)) /\ weGot' = TRUE /\ UNCHANGED weBad
       \/ /\ Cardinality(weBad) < RenderFails /\ weBad' = weBad \cup {Head(weBatch)}
          /\ UNCHANGED <<weDocs, weGot>>
    /\ UNCHANGED <<weWritten, wePulled, weSignal, wePc, weOut>>

\* Fault: next returns the batch, and the caller keeps the one before it too.
EvtRenderedKeeps ==
    /\ wePc = "render" /\ weBatch = <<>>
    /\ IF weGot THEN wePc' = "pull" /\ weDocs' = weDocs \o weDocs
       ELSE wePc' = "reset" /\ UNCHANGED weDocs
    /\ UNCHANGED <<weWritten, wePulled, weSignal, weBatch, weGot, weOut, weBad>>

\* A batch of which nothing could be rendered looks like no batch.
EvtRendered ==
    /\ wePc = "render" /\ weBatch = <<>>
    /\ wePc' = IF weGot THEN "pull" ELSE "reset"
    /\ UNCHANGED <<weWritten, wePulled, weSignal, weBatch, weGot, weDocs, weOut, weBad>>

\* ResetEvent, also when a record was written after the last EvtNext.
EvtReset ==
    /\ wePc = "reset"
    /\ weSignal' = FALSE
    /\ wePc' = "docs"
    /\ UNCHANGED <<weWritten, wePulled, weBatch, weGot, weDocs, weOut, weBad>>

\* fn(doc), and when all are given, around again.
EvtGive ==
    /\ wePc = "docs"
    /\ IF weDocs = <<>> THEN wePc' = "wait" /\ UNCHANGED <<weDocs, weOut>>
       ELSE /\ weOut' = Append(weOut, Head(weDocs)) /\ weDocs' = Tail(weDocs)
            /\ UNCHANGED wePc
    /\ UNCHANGED <<weWritten, wePulled, weSignal, weBatch, weGot, weBad>>

\* ctx is done.
EvtStop ==
    /\ wePc = "wait"
    /\ wePc' = "ended"
    /\ UNCHANGED <<weWritten, wePulled, weSignal, weBatch, weGot, weDocs, weOut, weBad>>

EvtEnded == wePc = "ended" /\ UNCHANGED winVars

-----------------------------------------------------------------------------

WinLoop == EvtWait \/ EvtPull \/ EvtRender \/ EvtRendered \/ EvtReset \/ EvtGive

WinNext == EvtWrite \/ WinLoop \/ EvtPullError \/ EvtStop \/ EvtEnded

WinSpec == WinInit /\ [][WinNext]_winVars

\* The loop's thread is scheduled, and a wait ends.
WinFairness == WF_winVars(WinLoop)

-----------------------------------------------------------------------------
(* Properties *)

\* No record is handed on twice or out of order, over drains of several batches
\* and batches that could not be rendered (winevt_windows.go:96-114, :229-246).
WinOnceInOrder ==
    \A j, k \in DOMAIN (weOut \o weDocs) :
        j < k => (weOut \o weDocs)[j] < (weOut \o weDocs)[k]

\* A record is handed on, unless it cannot be rendered or the loop ends: also
\* one that is written between the last EvtNext and ResetEvent, which takes its
\* signal away (winevt_windows.go:107-111).
WinDelivered ==
    LET waiting == (1..weWritten) \ (ToSet(weOut) \cup weBad) IN
    waiting # {} ~> (waiting = {} \/ wePc = "ended")
=============================================================================
