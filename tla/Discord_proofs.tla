--------------------------- MODULE Discord_proofs ---------------------------
(***************************************************************************)
(* Theorems about the Discord channel for every size of a message, number  *)
(* of attempts and number of events.                                       *)
(***************************************************************************)
EXTENDS Discord, SequenceTheorems, TLAPS

\* The steps without the fairness of Spec.
SafeSpec == Init /\ [][Next]_vars

LEMMA SpecIsSafe == Spec => SafeSpec
  BY DEF Spec, SafeSpec

-----------------------------------------------------------------------------
(* What flush cuts off the batch. *)

\* The batch after the current message.
Rest == SubSeq(batch, Len(Message) + 1, Len(batch))

LEMMA MessageFacts ==
  ASSUME batch \in Seq(Nat), batch # <<>>
  PROVE  /\ Message \in Seq(Nat)
         /\ Len(Message) \in 1..MaxEmbeds /\ Len(Message) <= Len(batch)
         /\ \A k \in DOMAIN Message : k \in DOMAIN batch /\ Message[k] = batch[k]
  BY DiscordAssumption DEF Message

LEMMA RestFacts ==
  ASSUME batch \in Seq(Nat), batch # <<>>
  PROVE  /\ Rest \in Seq(Nat)
         /\ Len(Rest) = Len(batch) - Len(Message)
         /\ \A k \in DOMAIN Rest :
               /\ k + Len(Message) \in DOMAIN batch
               /\ Rest[k] = batch[k + Len(Message)]
<1> DEFINE n == Len(Message)
<1>1. n \in 1..Len(batch)
  BY MessageFacts
<1> HIDE DEF n
<1>2. /\ SubSeq(batch, n + 1, Len(batch)) \in Seq(Nat)
      /\ Len(SubSeq(batch, n + 1, Len(batch))) = Len(batch) - n
      /\ \A k \in 1..(Len(batch) - n) :
            SubSeq(batch, n + 1, Len(batch))[k] = batch[k + n]
  BY <1>1
<1> QED
  BY <1>1, <1>2 DEF Rest, n

\* Both are made of the batch's events.
LEMMA PartsTyped ==
  ASSUME NEW S \in SUBSET Nat, batch \in Seq(S), batch # <<>>
  PROVE  Message \in Seq(S) /\ Rest \in Seq(S)
<1>1. batch \in Seq(Nat)
  BY SeqMonotonic
<1>2. Len(Message) \in 1..Len(batch)
  BY <1>1, MessageFacts
<1>3. \A n \in 1..Len(batch) : /\ SubSeq(batch, 1, n) \in Seq(S)
                              /\ SubSeq(batch, n + 1, Len(batch)) \in Seq(S)
  OBVIOUS
<1>4. \E n \in 1..Len(batch) : Message = SubSeq(batch, 1, n)
  BY DiscordAssumption DEF Message
<1> QED
  BY <1>2, <1>3, <1>4 DEF Rest

\* Nothing of the batch is in neither part.
LEMMA SplitElements ==
  ASSUME batch \in Seq(Nat), batch # <<>>
  PROVE  Elements(batch) = Elements(Message) \cup Elements(Rest)
<1>1. ASSUME NEW k \in DOMAIN batch
      PROVE  batch[k] \in Elements(Message) \cup Elements(Rest)
  <2>1. CASE k <= Len(Message)
    <3>1. k \in DOMAIN Message
      BY <2>1, MessageFacts
    <3> QED
      BY <3>1, MessageFacts DEF Elements
  <2>2. CASE ~(k <= Len(Message))
    <3>1. /\ k - Len(Message) \in DOMAIN Rest
          /\ (k - Len(Message)) + Len(Message) = k
      BY <2>2, MessageFacts, RestFacts
    <3>2. Rest[k - Len(Message)] = batch[k]
      BY <3>1, RestFacts
    <3> QED
      BY <3>1, <3>2 DEF Elements
  <2> QED
    BY <2>1, <2>2
<1>2. Elements(Message) \subseteq Elements(batch)
  BY MessageFacts DEF Elements
<1>3. Elements(Rest) \subseteq Elements(batch)
  BY RestFacts DEF Elements
<1> QED
  BY <1>1, <1>2, <1>3 DEF Elements

-----------------------------------------------------------------------------
(* Types. *)

\* TypeOK is not inductive: a post that is rate limited must have had an
\* attempt left, and arrivals must be messages.
TypeInv ==
    /\ TypeOK
    /\ pc = "post" => attempt < Attempts
    /\ arrived \in Seq(Seq(1..MaxEvents))

LEMMA InitTypeInv == Init => TypeInv
<1> SUFFICES ASSUME Init PROVE TypeInv
  OBVIOUS
<1> USE DiscordAssumption DEF Init
<1>1. next \in 1..(MaxEvents + 1) /\ attempt \in 0..Attempts
  OBVIOUS
<1>2. pending \in Seq(1..MaxEvents) /\ batch \in Seq(1..MaxEvents)
  OBVIOUS
<1>3. batch # <<>> <=> pc \in {"post", "sleep"}
  OBVIOUS
<1>4. /\ arrived \in Seq(Seq(1..MaxEvents))
      /\ \A m \in DOMAIN arrived : Len(arrived[m]) \in 1..MaxEmbeds
  OBVIOUS
<1>5. /\ pc \in {"select", "post", "sleep", "done"} /\ cancelled \in BOOLEAN
      /\ given \subseteq 1..MaxEvents /\ pc # "post"
  OBVIOUS
<1> QED
  BY <1>1, <1>2, <1>3, <1>4, <1>5 DEF TypeInv, TypeOK

LEMMA ArrivedFacts ==
  ASSUME arrived \in Seq(Seq(1..MaxEvents)), Message \in Seq(1..MaxEvents),
         arrived' = Append(arrived, Message)
  PROVE  /\ arrived' \in Seq(Seq(1..MaxEvents))
         /\ DOMAIN arrived = 1..Len(arrived) /\ Len(arrived) \in Nat
         /\ DOMAIN arrived' = DOMAIN arrived \cup {Len(arrived) + 1}
         /\ \A m \in DOMAIN arrived : arrived'[m] = arrived[m]
         /\ arrived'[Len(arrived) + 1] = Message
<1>1. /\ Len(arrived') = Len(arrived) + 1 /\ arrived'[Len(arrived) + 1] = Message
      /\ \A m \in 1..Len(arrived) : arrived'[m] = arrived[m]
      /\ arrived' \in Seq(Seq(1..MaxEvents))
  BY AppendProperties
<1>2. DOMAIN arrived = 1..Len(arrived) /\ DOMAIN arrived' = 1..Len(arrived')
  BY <1>1
<1> QED
  BY <1>1, <1>2

\* What follows a message, whatever became of it.
LEMMA TypeCut ==
  ASSUME TypeInv, pc \in {"post", "sleep"}, NextMessage,
         arrived' \in {arrived, Append(arrived, Message)},
         given' \in {given, given \cup Elements(Message)},
         UNCHANGED <<next, pending, cancelled>>
  PROVE  TypeInv'
<1> USE DiscordAssumption
<1>1. batch \in Seq(Nat) /\ batch # <<>> /\ batch \in Seq(1..MaxEvents)
  BY DEF TypeInv, TypeOK
<1>2. Message \in Seq(1..MaxEvents) /\ Rest \in Seq(1..MaxEvents)
  BY <1>1, PartsTyped, 1..MaxEvents \in SUBSET Nat
<1>3. Len(Message) \in 1..MaxEmbeds
  BY <1>1, MessageFacts
<1>4. batch' \in Seq(1..MaxEvents)
  BY <1>2 DEF NextMessage, Rest
<1>5. attempt' = 0 /\ pc' = IF batch' = <<>> THEN "select" ELSE "post"
  BY DEF NextMessage
<1>6. given' \subseteq 1..MaxEvents
  <2>1. \A k \in DOMAIN Message : Message[k] \in 1..MaxEvents
    BY <1>2, ElementOfSeq, LenProperties
  <2>2. Elements(Message) \subseteq 1..MaxEvents
    BY <2>1 DEF Elements
  <2> QED
    BY <2>2 DEF TypeInv, TypeOK
<1>7. /\ arrived' \in Seq(Seq(1..MaxEvents))
      /\ \A m \in DOMAIN arrived' : Len(arrived'[m]) \in 1..MaxEmbeds
  <2>1. arrived \in Seq(Seq(1..MaxEvents))
    BY DEF TypeInv
  <2>2. CASE arrived' = arrived
    BY <2>1, <2>2 DEF TypeInv, TypeOK
  <2>3. CASE arrived' = Append(arrived, Message)
    BY <1>2, <1>3, <2>1, <2>3, ArrivedFacts DEF TypeInv, TypeOK
  <2> QED
    BY <2>2, <2>3
<1>8. attempt' \in 0..Attempts /\ attempt' < Attempts
  BY <1>5
<1>9. /\ pc' \in {"select", "post", "sleep", "done"}
      /\ batch' # <<>> <=> pc' \in {"post", "sleep"}
  BY <1>5
<1>10. next' \in 1..(MaxEvents + 1) /\ pending' \in Seq(1..MaxEvents) /\ cancelled' \in BOOLEAN
  BY DEF TypeInv, TypeOK
<1> QED
  BY <1>4, <1>6, <1>7, <1>8, <1>9, <1>10 DEF TypeInv, TypeOK

LEMMA NextTypeInv == TypeInv /\ [Next]_vars => TypeInv'
<1> SUFFICES ASSUME TypeInv, [Next]_vars PROVE TypeInv'
  OBVIOUS
<1> USE DiscordAssumption
<1>1. CASE Send
  <2>1. Append(pending, next) \in Seq(1..MaxEvents) /\ next + 1 \in 1..(MaxEvents + 1)
    BY <1>1 DEF Send, TypeInv, TypeOK
  <2> QED
    BY <1>1, <2>1 DEF Send, TypeInv, TypeOK
<1>2. CASE Flush
  BY <1>2 DEF Flush, TypeInv, TypeOK
<1>3. CASE PostOk
  BY <1>3, TypeCut DEF PostOk
<1>4. CASE PostLimited
  BY <1>4 DEF PostLimited, TypeInv, TypeOK
<1>5. CASE Wake
  <2>1. CASE attempt < Attempts
    BY <1>5, <2>1 DEF Wake, TypeInv, TypeOK
  <2>2. CASE ~(attempt < Attempts)
    BY <1>5, <2>2, TypeCut DEF Wake
  <2> QED
    BY <2>1, <2>2
<1>6. CASE PostErr
  BY <1>6, TypeCut DEF PostErr
<1>7. CASE FlusherStop
  BY <1>7 DEF FlusherStop, TypeInv, TypeOK
<1>8. CASE Cancel
  BY <1>8 DEF Cancel, TypeInv, TypeOK
<1>9. CASE UNCHANGED vars
  BY <1>9 DEF vars, TypeInv, TypeOK
<1> QED
  BY <1>1, <1>2, <1>3, <1>4, <1>5, <1>6, <1>7, <1>8, <1>9 DEF Next, Flusher, Idle

LEMMA AlwaysTypeInv == SafeSpec => []TypeInv
  BY InitTypeInv, NextTypeInv, PTL DEF SafeSpec

\* No message is longer than the webhook takes, and none is posted more often
\* than post's loop allows, for every size of the batch (discord.go:67-76, 152).
THEOREM DiscordTypes == Spec => []TypeOK
<1>1. TypeInv => TypeOK
  BY DEF TypeInv
<1> QED
  BY <1>1, SpecIsSafe, AlwaysTypeInv, PTL

-----------------------------------------------------------------------------
(* Order. *)

Sorted(s) == \A j, k \in DOMAIN s : j < k => s[j] < s[k]

Below(s, t) == \A j \in DOMAIN s, k \in DOMAIN t : s[j] < t[k]

LEMMA BelowOne ==
  ASSUME NEW s, NEW x
  PROVE  Below(s, <<x>>) <=> \A j \in DOMAIN s : s[j] < x
  BY DEF Below

\* The events stand in one line: what arrived, message by message, then the
\* batch, then pending, then the next event.  OnceInOrder says it of the first
\* part only, which a step that moves a message from the batch would break.
OrderInv ==
    /\ Sorted(pending) /\ Sorted(batch) /\ Below(batch, pending)
    /\ Below(pending, <<next>>) /\ Below(batch, <<next>>)
    /\ \A m \in DOMAIN arrived :
          /\ Sorted(arrived[m]) /\ Below(arrived[m], <<next>>)
          /\ Below(arrived[m], batch) /\ Below(arrived[m], pending)
    /\ \A m, n \in DOMAIN arrived : m < n => Below(arrived[m], arrived[n])

LEMMA InitOrderInv == Init => OrderInv
  BY DEF Init, OrderInv, Sorted, Below

\* The message that is taken off the batch keeps its place in the line.
LEMMA CutFacts ==
  ASSUME TypeInv, OrderInv, pc \in {"post", "sleep"}, NextMessage
  PROVE  /\ Sorted(batch') /\ Sorted(Message) /\ Below(Message, batch')
         /\ \A k \in DOMAIN Message : \E j \in DOMAIN batch : Message[k] = batch[j]
         /\ \A k \in DOMAIN batch' : \E j \in DOMAIN batch : batch'[k] = batch[j]
<1>1. batch \in Seq(Nat) /\ batch # <<>> /\ Sorted(batch)
  BY DiscordAssumption DEF TypeInv, TypeOK, OrderInv
<1>2. batch' = Rest
  BY DEF NextMessage, Rest
<1>3. /\ Message \in Seq(Nat) /\ Len(Message) \in Nat
      /\ \A k \in DOMAIN Message : k \in DOMAIN batch /\ Message[k] = batch[k]
  BY <1>1, MessageFacts
<1>4. \A k \in DOMAIN Rest : k + Len(Message) \in DOMAIN batch
                             /\ Rest[k] = batch[k + Len(Message)]
  BY <1>1, RestFacts
<1>5. /\ \A k \in DOMAIN Message : k \in Nat /\ k <= Len(Message)
      /\ \A k \in DOMAIN Rest : k \in Nat /\ k > 0
  BY <1>1, <1>3, RestFacts
<1>6. Sorted(Message)
  BY <1>1, <1>3 DEF Sorted
<1>7. Sorted(Rest)
  BY <1>1, <1>3, <1>4, <1>5 DEF Sorted
<1>8. Below(Message, Rest)
  BY <1>1, <1>3, <1>4, <1>5 DEF Sorted, Below
<1> QED
  BY <1>2, <1>3, <1>4, <1>6, <1>7, <1>8

LEMMA OrderCut ==
  ASSUME TypeInv, OrderInv, pc \in {"post", "sleep"}, NextMessage,
         arrived' \in {arrived, Append(arrived, Message)},
         UNCHANGED <<next, pending>>
  PROVE  OrderInv'
<1>1. /\ Sorted(batch') /\ Sorted(Message) /\ Below(Message, batch')
      /\ \A k \in DOMAIN Message : \E j \in DOMAIN batch : Message[k] = batch[j]
      /\ \A k \in DOMAIN batch' : \E j \in DOMAIN batch : batch'[k] = batch[j]
  BY CutFacts
<1>2. /\ Below(batch', pending) /\ Below(batch', <<next>>)
      /\ Below(Message, pending) /\ Below(Message, <<next>>)
  BY <1>1 DEF OrderInv, Below
<1>3. \A m \in DOMAIN arrived : Below(arrived[m], batch') /\ Below(arrived[m], Message)
  BY <1>1 DEF OrderInv, Below
<1>4. CASE arrived' = arrived
  BY <1>1, <1>2, <1>3, <1>4 DEF OrderInv
<1>5. CASE arrived' = Append(arrived, Message)
  <2>1. arrived \in Seq(Seq(1..MaxEvents)) /\ Message \in Seq(1..MaxEvents)
    BY PartsTyped, 1..MaxEvents \in SUBSET Nat, DiscordAssumption DEF TypeInv, TypeOK
  <2>2. /\ DOMAIN arrived = 1..Len(arrived) /\ Len(arrived) \in Nat
        /\ DOMAIN arrived' = DOMAIN arrived \cup {Len(arrived) + 1}
        /\ \A m \in DOMAIN arrived : arrived'[m] = arrived[m]
        /\ arrived'[Len(arrived) + 1] = Message
    BY <1>5, <2>1, ArrivedFacts
  <2>3. ASSUME NEW m \in DOMAIN arrived'
        PROVE  /\ Sorted(arrived'[m]) /\ Below(arrived'[m], <<next>>)
               /\ Below(arrived'[m], batch') /\ Below(arrived'[m], pending)
    BY <1>1, <1>2, <1>3, <2>2 DEF OrderInv
  <2>4. ASSUME NEW m \in DOMAIN arrived', NEW n \in DOMAIN arrived', m < n
        PROVE  Below(arrived'[m], arrived'[n])
    <3>1. m \in DOMAIN arrived
      BY <2>2, <2>4
    <3> QED
      BY <1>3, <2>2, <2>4, <3>1 DEF OrderInv
  <2> QED
    BY <1>1, <1>2, <2>3, <2>4 DEF OrderInv
<1> QED
  BY <1>4, <1>5

LEMMA NextOrderInv == TypeInv /\ OrderInv /\ [Next]_vars => OrderInv'
<1> SUFFICES ASSUME TypeInv, OrderInv, [Next]_vars PROVE OrderInv'
  OBVIOUS
<1>1. CASE Send
  <2>1. /\ next \in Nat /\ next' = next + 1 /\ pending \in Seq(Nat) /\ batch \in Seq(Nat)
        /\ \A m \in DOMAIN arrived : arrived[m] \in Seq(Nat)
    BY <1>1, DiscordAssumption DEF Send, TypeInv, TypeOK
  <2>2. /\ pending' \in Seq(Nat) /\ Len(pending) \in Nat
        /\ \A k \in DOMAIN pending' : \/ k \in DOMAIN pending /\ pending'[k] = pending[k]
                                         /\ k <= Len(pending)
                                      \/ k = Len(pending) + 1 /\ pending'[k] = next
    BY <1>1, <2>1 DEF Send
  <2>3. /\ batch' = batch /\ arrived' = arrived
    BY <1>1 DEF Send
  <2>4. /\ \A k \in DOMAIN pending : pending[k] < next /\ pending[k] \in Nat
        /\ \A j, k \in DOMAIN pending : j < k => pending[j] < pending[k]
    BY <2>1, ElementOfSeq, LenProperties DEF OrderInv, Sorted, Below
  <2>5. Sorted(pending')
    <3>1. ASSUME NEW j \in DOMAIN pending', NEW k \in DOMAIN pending', j < k
          PROVE  pending'[j] < pending'[k]
      <4>1. j \in DOMAIN pending /\ pending'[j] = pending[j]
        BY <2>2, <3>1
      <4> QED
        BY <2>2, <2>4, <3>1, <4>1
    <3> QED
      BY <3>1 DEF Sorted
  <2>6. Below(pending', <<next'>>)
    <3>1. ASSUME NEW k \in DOMAIN pending'
          PROVE  pending'[k] < next'
      <4>1. CASE k \in DOMAIN pending /\ pending'[k] = pending[k]
        BY <2>1, <2>4, <4>1
      <4>2. CASE pending'[k] = next
        BY <2>1, <4>2
      <4> QED
        BY <2>2, <4>1, <4>2
    <3> QED
      BY <3>1 DEF Below
  <2>7. ASSUME NEW s \in Seq(Nat), Below(s, <<next>>), Below(s, pending)
        PROVE  Below(s, <<next'>>) /\ Below(s, pending')
    <3>1. \A j \in DOMAIN s : s[j] \in Nat /\ s[j] < next
      BY <2>7, BelowOne, ElementOfSeq, LenProperties
    <3>2. \A j \in DOMAIN s : s[j] < next'
      BY <2>1, <3>1
    <3>3. Below(s, <<next'>>)
      BY <3>2, BelowOne
    <3>4. Below(s, pending')
      BY <2>2, <2>7, <3>1 DEF Below
    <3> QED
      BY <3>3, <3>4
  <2> QED
    BY <2>1, <2>3, <2>5, <2>6, <2>7 DEF OrderInv
<1>2. CASE Flush
  BY <1>2 DEF Flush, OrderInv, Sorted, Below
<1>3. CASE PostOk
  BY <1>3, OrderCut DEF PostOk
<1>4. CASE PostLimited
  BY <1>4 DEF PostLimited, OrderInv
<1>5. CASE Wake
  <2>1. CASE attempt < Attempts
    BY <1>5, <2>1 DEF Wake, OrderInv
  <2>2. CASE ~(attempt < Attempts)
    BY <1>5, <2>2, OrderCut DEF Wake
  <2> QED
    BY <2>1, <2>2
<1>6. CASE PostErr
  BY <1>6, OrderCut DEF PostErr
<1>7. CASE FlusherStop
  BY <1>7 DEF FlusherStop, OrderInv
<1>8. CASE Cancel
  BY <1>8 DEF Cancel, OrderInv
<1>9. CASE UNCHANGED vars
  BY <1>9 DEF vars, OrderInv
<1> QED
  BY <1>1, <1>2, <1>3, <1>4, <1>5, <1>6, <1>7, <1>8, <1>9 DEF Next, Flusher, Idle

\* For any batch sizes and any interleaving of Send with the flush, the webhook
\* sees each event at most once and in the order of the Sends
\* (discord.go:51-77, 153-184).
THEOREM DiscordOrder == Spec => []OnceInOrder
<1>1. OrderInv => OnceInOrder
  BY DEF OrderInv, OnceInOrder, Sorted, Below, Elements
<1>2. SafeSpec => []OrderInv
  BY InitOrderInv, NextOrderInv, AlwaysTypeInv, PTL DEF SafeSpec
<1> QED
  BY <1>1, <1>2, SpecIsSafe, PTL

-----------------------------------------------------------------------------
(* Every event sent is somewhere. *)

LEMMA ReachedGrows ==
  ASSUME TypeInv, batch # <<>>, arrived' = Append(arrived, Message)
  PROVE  Reached' = Reached \cup Elements(Message)
<1>1. arrived \in Seq(Seq(1..MaxEvents)) /\ Message \in Seq(1..MaxEvents)
  BY PartsTyped, 1..MaxEvents \in SUBSET Nat, DiscordAssumption DEF TypeInv, TypeOK
<1>2. /\ DOMAIN arrived' = DOMAIN arrived \cup {Len(arrived) + 1}
      /\ \A m \in DOMAIN arrived : arrived'[m] = arrived[m]
      /\ arrived'[Len(arrived) + 1] = Message
  BY <1>1, ArrivedFacts
<1>3. \A e : e \in Reached' <=> \E m \in DOMAIN arrived' : e \in Elements(arrived'[m])
  BY DEF Reached, Elements
<1>4. \A e : e \in Reached <=> \E m \in DOMAIN arrived : e \in Elements(arrived[m])
  BY DEF Reached
<1> QED
  BY <1>2, <1>3, <1>4

\* A message that is cut off has arrived, is given up, or both.
LEMMA MislaidCut ==
  ASSUME TypeInv, NoneMislaid, pc \in {"post", "sleep"}, NextMessage,
         arrived' \in {arrived, Append(arrived, Message)},
         given' \in {given, given \cup Elements(Message)},
         \/ arrived' = Append(arrived, Message)
         \/ given' = given \cup Elements(Message),
         UNCHANGED <<next, pending>>
  PROVE  NoneMislaid'
<1>1. batch \in Seq(Nat) /\ batch # <<>>
  BY DiscordAssumption DEF TypeInv, TypeOK
<1>2. Elements(batch) = Elements(Message) \cup Elements(batch')
  BY <1>1, SplitElements DEF NextMessage, Rest
<1>3. Reached' \in {Reached, Reached \cup Elements(Message)}
  BY <1>1, ReachedGrows DEF Reached
<1>4. Reached' \cup given' = Reached \cup given \cup Elements(Message)
  <2>1. CASE arrived' = Append(arrived, Message)
    BY <1>1, <2>1, ReachedGrows
  <2>2. CASE given' = given \cup Elements(Message)
    BY <1>3, <2>2
  <2> QED
    BY <2>1, <2>2
<1>5. Elements(pending') = Elements(pending) /\ next' = next
  OBVIOUS
<1> QED
  BY <1>2, <1>4, <1>5 DEF NoneMislaid

LEMMA InitMislaid == Init => NoneMislaid
  BY DEF Init, NoneMislaid, Elements, Reached

LEMMA NextMislaid == TypeInv /\ NoneMislaid /\ [Next]_vars => NoneMislaid'
<1> SUFFICES ASSUME TypeInv, NoneMislaid, [Next]_vars PROVE NoneMislaid'
  OBVIOUS
<1>1. CASE Send
  <2>1. next \in Nat \ {0} /\ pending \in Seq(1..MaxEvents)
    BY DiscordAssumption DEF TypeInv, TypeOK
  <2>2. \A s \in Seq(1..MaxEvents) : \A e \in 1..MaxEvents :
           Elements(Append(s, e)) = Elements(s) \cup {e}
    <3>1. ASSUME NEW s \in Seq(1..MaxEvents), NEW e \in 1..MaxEvents
          PROVE  Elements(Append(s, e)) = Elements(s) \cup {e}
      <4>1. /\ DOMAIN Append(s, e) = DOMAIN s \cup {Len(s) + 1}
            /\ \A k \in DOMAIN s : Append(s, e)[k] = s[k]
            /\ Append(s, e)[Len(s) + 1] = e
        BY AppendProperties, LenProperties
      <4> QED
        BY <4>1 DEF Elements
    <3> QED
      BY <3>1
  <2>3. next \in 1..MaxEvents
    BY <1>1, <2>1, DiscordAssumption DEF Send
  <2>4. Elements(pending') = Elements(pending) \cup {next}
    BY <1>1, <2>1, <2>2, <2>3 DEF Send
  <2>5. 1..(next' - 1) = 1..(next - 1) \cup {next}
    BY <1>1, <2>1 DEF Send
  <2>6. Elements(batch') = Elements(batch) /\ Reached' = Reached /\ given' = given
    BY <1>1 DEF Send, Reached
  <2> QED
    BY <2>4, <2>5, <2>6 DEF NoneMislaid
<1>2. CASE Flush
  <2>1. batch = <<>> /\ pending' = <<>> /\ batch' = pending
    BY <1>2 DEF Flush, TypeInv, TypeOK
  <2>2. Elements(batch) = {} /\ Elements(pending') = {} /\ Elements(batch') = Elements(pending)
    BY <2>1 DEF Elements
  <2>3. next' = next /\ Reached' = Reached /\ given' = given
    BY <1>2 DEF Flush, Reached
  <2> QED
    BY <2>2, <2>3 DEF NoneMislaid
<1>3. CASE PostOk
  BY <1>3, MislaidCut DEF PostOk
<1>4. CASE PostLimited
  BY <1>4 DEF PostLimited, NoneMislaid, Reached
<1>5. CASE Wake
  <2>1. CASE attempt < Attempts
    BY <1>5, <2>1 DEF Wake, NoneMislaid, Reached
  <2>2. CASE ~(attempt < Attempts)
    BY <1>5, <2>2, MislaidCut DEF Wake
  <2> QED
    BY <2>1, <2>2
<1>6. CASE PostErr
  BY <1>6, MislaidCut DEF PostErr
<1>7. CASE FlusherStop
  BY <1>7 DEF FlusherStop, NoneMislaid, Reached
<1>8. CASE Cancel
  BY <1>8 DEF Cancel, NoneMislaid, Reached
<1>9. CASE UNCHANGED vars
  BY <1>9 DEF vars, NoneMislaid, Reached
<1> QED
  BY <1>1, <1>2, <1>3, <1>4, <1>5, <1>6, <1>7, <1>8, <1>9 DEF Next, Flusher, Idle

\* For any number of events and any batch sizes, an event once sent waits, has
\* arrived, or belongs to a message that was given up (discord.go:51-65).
THEOREM DiscordKeepsAll == Spec => []NoneMislaid
<1>1. SafeSpec => []NoneMislaid
  BY InitMislaid, NextMislaid, AlwaysTypeInv, PTL DEF SafeSpec
<1> QED
  BY <1>1, SpecIsSafe, PTL
=============================================================================
