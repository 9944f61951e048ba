------------------------------- MODULE Discord -------------------------------
(***************************************************************************)
(* The Discord channel.  Its worker's Send only appends to pending, and    *)
(* never fails; the flush loop takes everything pending, cuts it into      *)
(* messages of at most MaxEmbeds events and posts them one after another.  *)
(* Of the failures of a post only a rate limit is tried again.             *)
(*                                                                         *)
(* An event is its position in the order of the Sends.                     *)
(***************************************************************************)
EXTENDS Naturals, Sequences

CONSTANTS
    MaxEmbeds,  \* events in one message (10)
    Attempts,   \* posts of one message (4)
    MaxEvents   \* bound: events sent in a behaviour

ASSUME DiscordAssumption ==
    MaxEmbeds \in Nat \ {0} /\ Attempts \in Nat \ {0} /\ MaxEvents \in Nat

VARIABLES
    next,       \* identifier of the next event
    pending,    \* d.pending
    batch,      \* what flush has yet to post, the current message first
    attempt,    \* attempts of the current message that hit the rate limit
    pc,         \* where the flush loop is
    cancelled,  \* ctx is done
    arrived,    \* history: the messages the webhook accepted, in order
    given       \* history: the events of messages post gave up on

vars == <<next, pending, batch, attempt, pc, cancelled, arrived, given>>

Init ==
    /\ next = 1 /\ pending = <<>> /\ batch = <<>>
    /\ attempt = 0 /\ pc = "select" /\ cancelled = FALSE
    /\ arrived = <<>> /\ given = {}

Elements(s) == {s[k] : k \in DOMAIN s}

\* Send, called by the channel's worker in the alert manager.  The worker may
\* still take an event after ctx is done.
Send ==
    /\ next <= MaxEvents
    /\ pending' = Append(pending, next)
    /\ next' = next + 1
    /\ UNCHANGED <<batch, attempt, pc, cancelled, arrived, given>>

-----------------------------------------------------------------------------
(* The flush loop *)

\* The ticker fires: flush takes what is pending.  With nothing pending a tick
\* changes nothing.
Flush ==
    /\ pc = "select" /\ pending # <<>>
    /\ batch' = pending /\ pending' = <<>>
    /\ attempt' = 0 /\ pc' = "post"
    /\ UNCHANGED <<next, cancelled, arrived, given>>

\* Fault: maxEmbeds + 1 events make a message.
MessageLonger ==
    SubSeq(batch, 1, IF Len(batch) <= MaxEmbeds + 1 THEN Len(batch) ELSE MaxEmbeds + 1)

\* batch[start:end].
Message ==
    SubSeq(batch, 1, IF Len(batch) <= MaxEmbeds THEN Len(batch) ELSE MaxEmbeds)

\* Fault: the slice bounds are taken as inclusive.
NextMessageSkips ==
    /\ batch' = SubSeq(batch, Len(Message) + 2, Len(batch))
    /\ attempt' = 0
    /\ pc' = IF batch' = <<>> THEN "select" ELSE "post"

\* post returned; on to the next message, or back to the select.
NextMessage ==
    /\ batch' = SubSeq(batch, Len(Message) + 1, Len(batch))
    /\ attempt' = 0
    /\ pc' = IF batch' = <<>> THEN "select" ELSE "post"

\* 2xx.
PostOk ==
    /\ pc = "post"
    /\ arrived' = Append(arrived, Message)
    /\ NextMessage
    /\ UNCHANGED <<next, pending, cancelled, given>>

\* 429: sleep for Retry-After, or the backoff.  ctx does not end the sleep.
PostLimited ==
    /\ pc = "post"
    /\ attempt' = attempt + 1
    /\ pc' = "sleep"
    /\ UNCHANGED <<next, pending, batch, cancelled, arrived, given>>

\* Fault: the loop has no end while the rate limit lasts.
WakeForever ==
    /\ pc = "sleep"
    /\ pc' = "post"
    /\ attempt' = 0
    /\ UNCHANGED <<next, pending, batch, cancelled, arrived, given>>

\* The sleep is over: once more, or, after the last attempt, give up.
Wake ==
    /\ pc = "sleep"
    /\ IF attempt < Attempts
       THEN pc' = "post" /\ UNCHANGED <<batch, attempt, given>>
       ELSE given' = given \cup Elements(Message) /\ NextMessage
    /\ UNCHANGED <<next, pending, cancelled, arrived>>

\* Fault: an error of Do is treated as a rate limit is.
PostErrRetries ==
    /\ pc = "post"
    /\ arrived' \in {arrived, Append(arrived, Message)}
    /\ attempt' = attempt + 1
    /\ pc' = "sleep"
    /\ UNCHANGED <<next, pending, batch, cancelled, given>>

\* Any other status, or an error of Do, which may come after the message got
\* through: the message is given up at once.
PostErr ==
    /\ pc = "post"
    /\ arrived' \in {arrived, Append(arrived, Message)}
    /\ given' = given \cup Elements(Message)
    /\ NextMessage
    /\ UNCHANGED <<next, pending, cancelled>>

\* ctx is done.  What is pending then is never posted.
FlusherStop ==
    /\ pc = "select" /\ cancelled
    /\ pc' = "done"
    /\ UNCHANGED <<next, pending, batch, attempt, cancelled, arrived, given>>

-----------------------------------------------------------------------------

Cancel ==
    /\ ~cancelled
    /\ cancelled' = TRUE
    /\ UNCHANGED <<next, pending, batch, attempt, pc, arrived, given>>

\* Between ticks, or after the end, nothing needs to happen.
Idle == pc \in {"select", "done"} /\ UNCHANGED vars

Flusher == Flush \/ PostOk \/ PostLimited \/ Wake \/ PostErr \/ FlusherStop

Next == Send \/ Flusher \/ Cancel \/ Idle

\* The ticker fires, a sleep ends, and the client's timeout of 15 s ends every
\* request one way or another; which way is up to the webhook.
Fairness == WF_vars(Flusher)

Spec == Init /\ [][Next]_vars /\ Fairness

-----------------------------------------------------------------------------
(* Properties *)

Reached == UNION {Elements(arrived[m]) : m \in DOMAIN arrived}

TypeOK ==
    /\ next \in 1..(MaxEvents + 1)
    /\ pending \in Seq(1..MaxEvents) /\ batch \in Seq(1..MaxEvents)
    /\ attempt \in 0..Attempts
    /\ pc \in {"select", "post", "sleep", "done"}
    /\ cancelled \in BOOLEAN
    /\ given \subseteq 1..MaxEvents
    /\ batch # <<>> <=> pc \in {"post", "sleep"}
    /\ \A m \in DOMAIN arrived : Len(arrived[m]) \in 1..MaxEmbeds

\* The webhook sees each event at most once and in the order of the Sends, over
\* flushes, rate limits and answers that were lost (discord.go:58-77, 153-184).
OnceInOrder ==
    /\ \A m \in DOMAIN arrived : \A j, k \in DOMAIN arrived[m] :
          j < k => arrived[m][j] < arrived[m][k]
    /\ \A m, n \in DOMAIN arrived : m < n =>
          \A a \in Elements(arrived[m]), b \in Elements(arrived[n]) : a < b

\* No event disappears between Send and the webhook: one that did not arrive
\* waits in pending or in the batch, or belongs to a message given up
\* (discord.go:51-56, 58-65, where flush swaps the list that Send appends to).
NoneMislaid ==
    1..(next - 1) = Elements(pending) \cup Elements(batch) \cup Reached \cup given

\* Until shutdown, an event sent is posted or given up in the end: neither a
\* rate limit nor a long batch holds up the flush for good (discord.go:67-76).
Flushed ==
    \A e \in 1..MaxEvents :
        (e < next) ~> (e \in Reached \cup given \/ cancelled)
=============================================================================
