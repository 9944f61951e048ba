--------------------------- MODULE ExecTrace_proofs ---------------------------
(***************************************************************************)
(* Theorems about the traced system calls for any number of CPUs and any    *)
(* sizes of argv, of the chunk of an argument and of the ring.              *)
(***************************************************************************)
EXTENDS ExecTrace, WellFoundedInduction, TLAPS

Fields == {"kind", "ready", "off", "len", "argv", "family", "port", "addr", "seen"}

\* A record whose arguments stay inside argv.
Sized(r) == DOMAIN r = Fields /\ r.off \in 0..ArgvLen /\ r.len \in 0..ArgvLen

IsSequence(s) == \E S : s \in Seq(S)

RingInv ==
    /\ trPc \in [TraceCpus -> {"user", "argv", "addr", "submit"}]
    /\ trPos \in [TraceCpus -> Nat]
    /\ IsSequence(trRing) /\ \A p \in 1..Len(trRing) : Sized(trRing[p])
    /\ \A c \in TraceCpus : trPc[c] # "user" => trPos[c] \in 1..Len(trRing)
                                                /\ ~trRing[trPos[c]].ready

\* Two CPUs never fill the same record.
Exclusive ==
    \A c, d \in TraceCpus :
        c # d /\ trPc[c] # "user" /\ trPc[d] # "user" => trPos[c] # trPos[d]

\* The reader is not ahead of the ring, nor its events of the reader.
ReaderInv ==
    /\ trTaken \in 0..Len(trRing)
    /\ trReader \in {"read", "send", "ended"}
    /\ IsSequence(trOut)
    /\ Len(trOut) <= trTaken
    /\ trReader = "send" => Len(trOut) < trTaken

TraceInv == RingInv /\ Exclusive /\ ReaderInv

-----------------------------------------------------------------------------
(* The operators of the programs. *)

\* A probe writes at least the NUL and at most a chunk.
LEMMA ProbeStrBounds ==
  ASSUME NEW size \in Nat
  PROVE  ProbeStr(size) \in 1..ArgChunk
  BY TraceAssumption DEF ProbeStr

\* An argument that is begun fits, so the room it takes is inside argv.
LEMMA ArgStaysInside ==
  ASSUME NEW off \in 0..ArgvLen, ArgFits(off), NEW size \in Nat
  PROVE  off + ProbeStr(size) \in 0..ArgvLen
<1>1. /\ ProbeStr(size) \in Nat /\ ProbeStr(size) <= ArgChunk
  BY ProbeStrBounds, TraceAssumption
<1>2. off \in Nat /\ off <= ArgvLen - ArgChunk
  BY TraceAssumption DEF ArgFits
<1> QED
  BY <1>1, <1>2, TraceAssumption

\* Filling other fields of a record leaves it sized and with its program.
LEMMA SizedFilled ==
  ASSUME NEW r, Sized(r), ~r.ready, NEW n \in 0..ArgvLen, NEW a, NEW b, NEW s
  PROVE  /\ Sized([r EXCEPT !.argv = a, !.off = n, !.seen = s])
         /\ ~[r EXCEPT !.argv = a, !.off = n, !.seen = s].ready
         /\ Sized([r EXCEPT !.argv = a, !.len = n])
         /\ ~[r EXCEPT !.argv = a, !.len = n].ready
         /\ Sized([r EXCEPT !.len = n])
         /\ ~[r EXCEPT !.len = n].ready
         /\ Sized([r EXCEPT !.port = a, !.addr = b, !.seen = s])
         /\ ~[r EXCEPT !.port = a, !.addr = b, !.seen = s].ready
  BY SMT DEF Sized, Fields

\* A record that has been reserved.
LEMMA SizedReserved ==
  ASSUME NEW kind, NEW family
  PROVE  Sized(Reserved(kind, family)) /\ ~Reserved(kind, family).ready
  BY SMT, TraceAssumption DEF Sized, Fields, Reserved

\* A record that is submitted.
LEMMA SizedSubmitted ==
  ASSUME NEW r, Sized(r)
  PROVE  Sized([r EXCEPT !.ready = TRUE])
  BY SMT DEF Sized, Fields

-----------------------------------------------------------------------------
(* Sequences of anything. *)

LEMMA Lengthened ==
  ASSUME NEW s, IsSequence(s), NEW e
  PROVE  /\ Len(s) \in Nat /\ IsSequence(Append(s, e)) /\ Len(Append(s, e)) = Len(s) + 1
         /\ Append(s, e)[Len(s) + 1] = e
         /\ \A p \in 1..Len(s) : Append(s, e)[p] = s[p]
<1>1. PICK S : s \in Seq(S)
  BY DEF IsSequence
<1>2. s \in Seq(S \cup {e})
  BY <1>1
<1>3. Append(s, e) \in Seq(S \cup {e})
  BY <1>2
<1> QED
  BY <1>2, <1>3 DEF IsSequence

LEMMA Overwritten ==
  ASSUME NEW s, IsSequence(s), NEW p \in 1..Len(s), NEW e
  PROVE  /\ Len(s) \in Nat /\ p \in DOMAIN s
         /\ IsSequence([s EXCEPT ![p] = e]) /\ Len([s EXCEPT ![p] = e]) = Len(s)
         /\ [s EXCEPT ![p] = e][p] = e
         /\ \A i \in 1..Len(s) : i # p => [s EXCEPT ![p] = e][i] = s[i]
<1>1. PICK S : s \in Seq(S)
  BY DEF IsSequence
<1>2. s \in Seq(S \cup {e})
  BY <1>1
<1>3. [s EXCEPT ![p] = e] \in Seq(S \cup {e})
  BY <1>2
<1> QED
  BY <1>2, <1>3 DEF IsSequence

-----------------------------------------------------------------------------
(* Steps of the programs. *)

\* The record a program fills.
LEMMA OwnRecord ==
  ASSUME TraceInv, NEW c \in TraceCpus, trPc[c] # "user"
  PROVE  /\ IsSequence(trRing) /\ trPos[c] \in 1..Len(trRing) /\ trPos[c] \in DOMAIN trRing
         /\ Sized(trRing[trPos[c]])
         /\ ~trRing[trPos[c]].ready
<1>1. /\ IsSequence(trRing) /\ trPos[c] \in 1..Len(trRing)
      /\ Sized(trRing[trPos[c]]) /\ ~trRing[trPos[c]].ready
  BY DEF TraceInv, RingInv
<1> QED
  BY <1>1, Overwritten

\* A program fills its own record without submitting it: the others' records
\* are as they were.
LEMMA FillInv ==
  ASSUME TraceInv, NEW c \in TraceCpus, trPc[c] # "user",
         NEW q, Sized(q), ~q.ready,
         NEW pc \in {"argv", "addr", "submit"},
         trRing' = [trRing EXCEPT ![trPos[c]] = q],
         trPc' = [trPc EXCEPT ![c] = pc],
         UNCHANGED <<trPos, trTaken, trReader, trOut>>
  PROVE  TraceInv'
<1>1. trPos[c] \in 1..Len(trRing) /\ IsSequence(trRing)
  BY OwnRecord
<1>2. IsSequence(trRing') /\ Len(trRing') = Len(trRing) /\ Len(trRing) \in Nat
  <2>1. Len(trRing) \in Nat
    BY <1>1, Overwritten
  <2>2. Len(trRing') = Len(trRing)
    BY <1>1, Overwritten
  <2>3. IsSequence(trRing')
    BY <1>1, Overwritten
  <2> QED
    BY <2>1, <2>2, <2>3
<1> USE DEF TraceInv
<1>3. trRing'[trPos[c]] = q /\ \A p \in 1..Len(trRing) : p # trPos[c] => trRing'[p] = trRing[p]
  BY <1>1, Overwritten
<1>4. \A p \in 1..Len(trRing') : Sized(trRing'[p])
  BY <1>2, <1>3 DEF RingInv
<1>5. ASSUME NEW d \in TraceCpus, trPc'[d] # "user"
      PROVE  trPos'[d] \in 1..Len(trRing') /\ ~trRing'[trPos'[d]].ready
  <2>1. CASE d = c
    BY <1>1, <1>2, <1>3, <2>1
  <2>2. CASE d # c
    <3>1. trPc[d] # "user"
      BY <1>5, <2>2 DEF RingInv
    <3>2. trPos[d] # trPos[c] /\ trPos[d] \in 1..Len(trRing) /\ ~trRing[trPos[d]].ready
      BY <2>2, <3>1 DEF RingInv, Exclusive
    <3> QED
      BY <1>2, <1>3, <3>2
  <2> QED
    BY <2>1, <2>2
<1>6. RingInv'
  BY <1>2, <1>4, <1>5 DEF RingInv
<1>7. Exclusive'
  BY DEF Exclusive, RingInv
<1>8. ReaderInv'
  BY <1>2 DEF ReaderInv
<1> QED
  BY <1>6, <1>7, <1>8

LEMMA TraceArgInv ==
  ASSUME TraceInv, NEW c \in TraceCpus, NEW size \in ArgSizes, TraceArg(c, size)
  PROVE  TraceInv'
<1> DEFINE p == trPos[c]
           r == trRing[p]
           n == ProbeStr(size)
           argv == Packed(r.argv, r.off, Len(r.seen) + 1, n)
           seen == Append(r.seen, size)
           q == [r EXCEPT !.argv = argv, !.off = r.off + n, !.seen = seen]
<1>1. trPc[c] = "argv" /\ ArgFits(r.off)
  BY DEF TraceArg
<1>2. Sized(r) /\ ~r.ready /\ p \in DOMAIN trRing
  BY <1>1, OwnRecord
<1>3. r.off + n \in 0..ArgvLen
  <2>1. r.off \in 0..ArgvLen
    BY <1>2 DEF Sized
  <2>2. size \in Nat
    BY TraceAssumption
  <2> QED
    BY <1>1, <2>1, <2>2, ArgStaysInside
<1>4. trRing' = [trRing EXCEPT ![p].argv = argv, ![p].off = r.off + n, ![p].seen = seen]
  BY DEF TraceArg
<1>5. /\ trPc' = [trPc EXCEPT ![c] = "argv"]
      /\ UNCHANGED <<trPos, trTaken, trReader, trOut>>
  BY <1>1 DEF TraceArg, TraceInv, RingInv
<1>6. Sized(q) /\ ~q.ready
  <2> HIDE DEF r, n, argv, seen
  <2> QED
    BY <1>2, <1>3, SizedFilled
<1>7. trRing' = [trRing EXCEPT ![p] = q]
  <2> HIDE DEF p, n, argv, seen
  <2> QED
    BY <1>2, <1>4, Zenon
<1> HIDE DEF q
<1> QED
  BY <1>1, <1>5, <1>6, <1>7, FillInv

LEMMA TraceArgFaultInv ==
  ASSUME TraceInv, NEW c \in TraceCpus, TraceArgFault(c)
  PROVE  TraceInv'
<1> DEFINE p == trPos[c]
           r == trRing[p]
           argv == Zeroed(r.argv, r.off)
           q == [r EXCEPT !.argv = argv, !.len = r.off]
<1>1. trPc[c] = "argv"
  BY DEF TraceArgFault
<1>2. Sized(r) /\ ~r.ready /\ p \in DOMAIN trRing
  BY <1>1, OwnRecord
<1>3. trRing' = [trRing EXCEPT ![p].argv = argv, ![p].len = r.off]
  BY DEF TraceArgFault
<1>4. Sized(q) /\ ~q.ready
  <2>1. r.off \in 0..ArgvLen
    BY <1>2 DEF Sized
  <2> HIDE DEF r, argv
  <2> QED
    BY <1>2, <2>1, SizedFilled
<1>5. trRing' = [trRing EXCEPT ![p] = q]
  <2> HIDE DEF p, argv
  <2> QED
    BY <1>2, <1>3, Zenon
<1>6. trPc' = [trPc EXCEPT ![c] = "submit"] /\ UNCHANGED <<trPos, trTaken, trReader, trOut>>
  BY DEF TraceArgFault
<1> HIDE DEF q
<1> QED
  BY <1>1, <1>4, <1>5, <1>6, FillInv

LEMMA TraceArgEndInv ==
  ASSUME TraceInv, NEW c \in TraceCpus, TraceArgEnd(c)
  PROVE  TraceInv'
<1> DEFINE p == trPos[c]
           r == trRing[p]
           q == [r EXCEPT !.len = r.off]
<1>1. trPc[c] = "argv"
  BY DEF TraceArgEnd
<1>2. Sized(r) /\ ~r.ready /\ p \in DOMAIN trRing
  BY <1>1, OwnRecord
<1>3. trRing' = [trRing EXCEPT ![p].len = r.off]
  BY DEF TraceArgEnd
<1>4. Sized(q) /\ ~q.ready
  <2>1. r.off \in 0..ArgvLen
    BY <1>2 DEF Sized
  <2> HIDE DEF r
  <2> QED
    BY <1>2, <2>1, SizedFilled
<1>5. trRing' = [trRing EXCEPT ![p] = q]
  <2> HIDE DEF p
  <2> QED
    BY <1>2, <1>3, Zenon
<1>6. trPc' = [trPc EXCEPT ![c] = "submit"] /\ UNCHANGED <<trPos, trTaken, trReader, trOut>>
  BY DEF TraceArgEnd
<1> HIDE DEF q
<1> QED
  BY <1>1, <1>4, <1>5, <1>6, FillInv

LEMMA TraceAddrInv ==
  ASSUME TraceInv, NEW c \in TraceCpus, NEW bytes \in PortBytes, NEW there \in BOOLEAN,
         TraceAddr(c, bytes, there)
  PROVE  TraceInv'
<1> DEFINE p == trPos[c]
           r == trRing[p]
           word(w) == IF there THEN <<1, w>> ELSE Zero
           words == IF r.family = "inet" THEN 1 ELSE 4
           addr == [w \in 1..4 |-> IF w <= words THEN word(w) ELSE r.addr[w]]
           port == IF there THEN Ntohs(bytes) ELSE 0
           seen == IF there THEN <<bytes>> ELSE <<>>
           q == [r EXCEPT !.port = port, !.addr = addr, !.seen = seen]
<1>1. trPc[c] = "addr"
  BY DEF TraceAddr
<1>2. Sized(r) /\ ~r.ready /\ p \in DOMAIN trRing
  BY <1>1, OwnRecord
<1>3. trRing' = [trRing EXCEPT
                   ![p].port = port,
                   ![p].addr = [w \in 1..4 |-> IF w <= words THEN word(w) ELSE @[w]],
                   ![p].seen = seen]
  BY DEF TraceAddr
<1>4. Sized(q) /\ ~q.ready
  <2>1. 0 \in 0..ArgvLen
    BY TraceAssumption
  <2> HIDE DEF r, port, addr, seen
  <2> QED
    BY <1>2, <2>1, SizedFilled
<1>5. trRing' = [trRing EXCEPT ![p] = q]
  <2> HIDE DEF p, words, word, port, seen
  <2> QED
    BY <1>2, <1>3, Zenon
<1>6. trPc' = [trPc EXCEPT ![c] = "submit"] /\ UNCHANGED <<trPos, trTaken, trReader, trOut>>
  BY DEF TraceAddr
<1> HIDE DEF q
<1> QED
  BY <1>1, <1>4, <1>5, <1>6, FillInv

\* The record is the reader's: its program is done with it, and no other has it.
LEMMA TraceSubmitInv ==
  ASSUME TraceInv, NEW c \in TraceCpus, TraceSubmit(c)
  PROVE  TraceInv'
<1> USE DEF TraceInv
<1> DEFINE p == trPos[c]
           r == trRing[p]
           q == [r EXCEPT !.ready = TRUE]
<1>1. trPc[c] = "submit"
  BY DEF TraceSubmit
<1>2. /\ Sized(r) /\ p \in DOMAIN trRing /\ p \in 1..Len(trRing)
      /\ IsSequence(trRing)
  BY <1>1, OwnRecord
<1>3. trRing' = [trRing EXCEPT ![p].ready = TRUE]
  BY DEF TraceSubmit
<1>4. Sized(q)
  BY <1>2, SizedSubmitted
<1>5. trRing' = [trRing EXCEPT ![p] = q]
  <2> HIDE DEF p
  <2> QED
    BY <1>2, <1>3, Zenon
<1> HIDE DEF q
<1>6. IsSequence(trRing') /\ Len(trRing') = Len(trRing) /\ Len(trRing) \in Nat
  BY <1>2, <1>5, Overwritten
<1>7. trRing'[p] = q /\ \A i \in 1..Len(trRing) : i # p => trRing'[i] = trRing[i]
  BY <1>2, <1>5, Overwritten
<1>8. /\ trPc' = [trPc EXCEPT ![c] = "user"] /\ trPos' = [trPos EXCEPT ![c] = 0]
      /\ UNCHANGED <<trTaken, trReader, trOut>>
  BY DEF TraceSubmit
<1>9. RingInv'
  <2>1. ASSUME NEW d \in TraceCpus, trPc'[d] # "user"
        PROVE  trPos'[d] \in 1..Len(trRing') /\ ~trRing'[trPos'[d]].ready
    <3>1. d # c /\ trPc[d] # "user" /\ trPos'[d] = trPos[d]
      BY <1>8, <2>1 DEF RingInv
    <3>2. trPos[d] \in 1..Len(trRing) /\ trPos[d] # p /\ ~trRing[trPos[d]].ready
      BY <1>1, <3>1 DEF RingInv, Exclusive
    <3> QED
      BY <1>6, <1>7, <3>1, <3>2
  <2>2. \A i \in 1..Len(trRing') : Sized(trRing'[i])
    BY <1>4, <1>6, <1>7 DEF RingInv
  <2> QED
    BY <1>6, <1>8, <2>1, <2>2 DEF RingInv
<1>10. Exclusive'
  BY <1>8 DEF Exclusive, RingInv
<1>11. ReaderInv'
  BY <1>6, <1>8 DEF ReaderInv
<1> QED
  BY <1>9, <1>10, <1>11

\* A system call with room in the ring gets a record nobody has.
LEMMA TraceEnterInv ==
  ASSUME TraceInv, NEW c \in TraceCpus, NEW call \in SystemCalls, TraceEnter(c, call[1], call[2])
  PROVE  TraceInv'
<1> USE DEF TraceInv
<1>1. UNCHANGED <<trTaken, trReader, trOut>>
  BY DEF TraceEnter
<1>2. CASE UNCHANGED <<trPc, trPos, trRing>>
  BY <1>1, <1>2 DEF RingInv, Exclusive, ReaderInv
<1>3. CASE ~UNCHANGED <<trPc, trPos, trRing>>
  <2> DEFINE q == Reserved(call[1], call[2])
             pc == IF call[1] = "exec" THEN "argv" ELSE "addr"
  <2>1. /\ trRing' = Append(trRing, q)
        /\ trPos' = [trPos EXCEPT ![c] = Len(trRing) + 1]
        /\ trPc' = [trPc EXCEPT ![c] = pc]
    BY <1>3 DEF TraceEnter
  <2>2. Sized(q) /\ ~q.ready
    BY SizedReserved
  <2> HIDE DEF q
  <2>3. IsSequence(trRing)
    BY DEF RingInv
  <2>4. /\ IsSequence(trRing') /\ Len(trRing') = Len(trRing) + 1 /\ Len(trRing) \in Nat
        /\ trRing'[Len(trRing) + 1] = q
        /\ \A p \in 1..Len(trRing) : trRing'[p] = trRing[p]
    BY <2>1, <2>3, Lengthened
  <2>5. \A p \in 1..Len(trRing') : Sized(trRing'[p])
    BY <2>2, <2>4 DEF RingInv
  <2>6. ASSUME NEW d \in TraceCpus, d # c, trPc'[d] # "user"
        PROVE  /\ trPc[d] # "user" /\ trPos'[d] = trPos[d]
               /\ trPos[d] \in 1..Len(trRing) /\ ~trRing[trPos[d]].ready
    BY <2>1, <2>6 DEF RingInv
  <2>7. trPos'[c] = Len(trRing) + 1
    BY <2>1 DEF RingInv
  <2>8. RingInv'
    <3>1. ASSUME NEW d \in TraceCpus, trPc'[d] # "user"
          PROVE  trPos'[d] \in 1..Len(trRing') /\ ~trRing'[trPos'[d]].ready
      <4>1. CASE d = c
        BY <2>2, <2>4, <2>7, <4>1
      <4>2. CASE d # c
        BY <2>4, <2>6, <3>1, <4>2
      <4> QED
        BY <4>1, <4>2
    <3> QED
      BY <2>1, <2>4, <2>5, <3>1 DEF RingInv
  <2>9. Exclusive'
    BY <2>4, <2>6, <2>7 DEF Exclusive
  <2>10. ReaderInv'
    BY <1>1, <2>4 DEF ReaderInv
  <2> QED
    BY <2>8, <2>9, <2>10
<1> QED
  BY <1>2, <1>3

-----------------------------------------------------------------------------
(* The theorem. *)

LEMMA TraceInitInv == TraceInit => TraceInv
<1> SUFFICES ASSUME TraceInit PROVE TraceInv
  OBVIOUS
<1>1. IsSequence(<<>>) /\ Len(<<>>) = 0
  <2>1. <<>> \in Seq({})
    OBVIOUS
  <2> QED
    BY <2>1 DEF IsSequence
<1>2. RingInv
  BY <1>1 DEF TraceInit, RingInv
<1>3. Exclusive
  BY DEF TraceInit, Exclusive
<1>4. ReaderInv
  BY <1>1 DEF TraceInit, ReaderInv
<1> QED
  BY <1>2, <1>3, <1>4 DEF TraceInv

LEMMA TraceReaderInv ==
  ASSUME TraceInv, TraceReader \/ TraceStop
  PROVE  TraceInv'
<1> USE DEF TraceInv
<1>1. UNCHANGED <<trPc, trPos, trRing>>
  BY DEF TraceReader, TraceRead, TraceSend, TraceStop
<1>2. RingInv' /\ Exclusive'
  BY <1>1 DEF RingInv, Exclusive
<1>3. IsSequence(trOut) /\ IsSequence(trRing)
  BY DEF ReaderInv, RingInv
<1>4. Len(trOut) \in Nat /\ Len(trRing) \in Nat
  BY <1>3, Lengthened
<1>5. CASE TraceRead
  BY <1>1, <1>2, <1>4, <1>5 DEF TraceRead, ReaderInv
<1>6. CASE TraceSend
  <2> DEFINE e == Parsed(trRing[trTaken])
  <2>1. trOut' = Append(trOut, e) /\ trReader = "send" /\ trReader' = "read" /\ UNCHANGED trTaken
    BY <1>6 DEF TraceSend
  <2> HIDE DEF e
  <2>2. IsSequence(trOut') /\ Len(trOut') = Len(trOut) + 1
    BY <1>3, <2>1, Lengthened
  <2> QED
    BY <1>1, <1>2, <1>4, <2>1, <2>2 DEF ReaderInv
<1>7. CASE TraceStop
  BY <1>1, <1>2, <1>7 DEF TraceStop, ReaderInv
<1> QED
  BY <1>2, <1>5, <1>6, <1>7 DEF TraceReader

LEMMA TraceStepInv == TraceInv /\ [TraceNext]_traceVars => TraceInv'
<1> SUFFICES ASSUME TraceInv, [TraceNext]_traceVars PROVE TraceInv'
  OBVIOUS
<1>1. ASSUME NEW c \in TraceCpus, NEW call \in SystemCalls, TraceEnter(c, call[1], call[2])
      PROVE  TraceInv'
  BY <1>1, TraceEnterInv
<1>2. ASSUME NEW c \in TraceCpus, TraceProgram(c) PROVE TraceInv'
  BY <1>2, TraceArgInv, TraceArgFaultInv, TraceArgEndInv, TraceAddrInv, TraceSubmitInv
     DEF TraceProgram
<1>3. CASE TraceReader \/ TraceStop
  BY <1>3, TraceReaderInv
<1>4. CASE UNCHANGED traceVars
  BY <1>4 DEF traceVars, TraceInv, RingInv, Exclusive, ReaderInv
<1> QED
  BY <1>1, <1>2, <1>3, <1>4 DEF TraceNext, TraceIdle

LEMMA TraceAlwaysInv == TraceSpec => []TraceInv
  BY TraceInitInv, TraceStepInv, PTL DEF TraceSpec

\* Whatever the sizes: an argument that is begun fits in argv, argv_len is one
\* parse can slice by, and a record being filled is its program's alone
\* (elmer.bpf.c:122-141, loader.go:123).
THEOREM TraceTyped == TraceSpec => []TraceTypeOK
<1>1. TraceInv => TraceTypeOK
  <2> SUFFICES ASSUME TraceInv PROVE TraceTypeOK
    OBVIOUS
  <2>1. \A p \in 1..Len(trRing) : Sized(trRing[p])
    BY DEF TraceInv, RingInv
  <2>2. \A p \in 1..Len(trRing) : trRing[p].off <= ArgvLen /\ trRing[p].len <= ArgvLen
    BY <2>1, TraceAssumption DEF Sized
  <2> QED
    BY <2>2 DEF TraceTypeOK, TraceInv, RingInv, ReaderInv
<1> QED
  BY <1>1, TraceAlwaysInv, PTL

\* Two CPUs fill different records, so neither writes over what the other read,
\* and a submitted record is never written again.
THEOREM TraceOwners == TraceSpec => []Exclusive
<1>1. TraceInv => Exclusive
  BY DEF TraceInv
<1> QED
  BY <1>1, TraceAlwaysInv, PTL

-----------------------------------------------------------------------------
(* What argvStrings finds. *)

Cells == Nat \X Nat

\* The loop of argvStrings over b: f[i] is its state after byte i.
IsSplit(f, b) ==
    f = [i \in 0..Len(b) |-> IF i = 0 THEN [out |-> <<>>, start |-> 1]
                             ELSE SplitByte(f[i - 1], b, i)]

\* The loop has found these strings in b, and nothing is left over.
Splits(b, out) ==
    \E f : /\ IsSplit(f, b)
           /\ \A i \in 0..Len(b) : f[i].start \in 1..(i + 1)
           /\ f[Len(b)] = [out |-> out, start |-> Len(b) + 1]

\* The arguments of the sizes seen, each cut to a chunk.
Words(seen) == [j \in DOMAIN seen |-> [k \in 1..(ProbeStr(seen[j]) - 1) |-> <<j, k>>]]

Below == {p \in Nat \X Nat : p[1] < p[2]}

LEMMA Least ==
  ASSUME NEW S, S \subseteq Nat, S # {}
  PROVE  \E n \in S : \A m \in S : n <= m
<1>1. Below = OpToRel(<, Nat)
  BY DEF Below, OpToRel
<1>2. IsWellFoundedOn(Below, Nat)
  BY <1>1, NatLessThanWellFounded
<1>3. PICK n \in S : \A m \in S : ~(<<m, n>> \in Below)
  BY <1>2, WFMin
<1>4. ASSUME NEW m \in S PROVE n <= m
  <2>1. m \in Nat /\ n \in Nat /\ ~(m < n)
    BY <1>3, <1>4 DEF Below
  <2> QED
    BY <2>1
<1> QED
  BY <1>4

\* The loop does one thing: where two runs of it differed first, they agreed
\* just before.
LEMMA SplitUnique ==
  ASSUME NEW b, Len(b) \in Nat, NEW f, NEW g, IsSplit(f, b), IsSplit(g, b)
  PROVE  f = g
<1> DEFINE S == {i \in 0..Len(b) : f[i] # g[i]}
<1>1. CASE S = {}
  <2>1. \A i \in 0..Len(b) : f[i] = g[i]
    BY <1>1
  <2>2. /\ f = [i \in 0..Len(b) |-> IF i = 0 THEN [out |-> <<>>, start |-> 1]
                                    ELSE SplitByte(f[i - 1], b, i)]
        /\ g = [i \in 0..Len(b) |-> IF i = 0 THEN [out |-> <<>>, start |-> 1]
                                    ELSE SplitByte(g[i - 1], b, i)]
    BY DEF IsSplit
  <2>3. \A i \in 0..Len(b) : i # 0 => i - 1 \in 0..Len(b)
    OBVIOUS
  <2>4. \A i \in 0..Len(b) : i # 0 => SplitByte(f[i - 1], b, i) = SplitByte(g[i - 1], b, i)
    BY <2>1, <2>3
  <2> QED
    BY <2>2, <2>4
<1>2. CASE S # {}
  <2>0. S \subseteq Nat
    OBVIOUS
  <2>1. PICK n \in S : \A m \in S : n <= m
    <3> HIDE DEF S
    <3> QED
      BY <1>2, <2>0, Least
  <2>2. n # 0 /\ n - 1 \in 0..Len(b) /\ ~(n <= n - 1)
    BY <2>1 DEF IsSplit
  <2>3. f[n - 1] = g[n - 1]
    BY <2>1, <2>2
  <2>4. f[n] = SplitByte(f[n - 1], b, n) /\ g[n] = SplitByte(g[n - 1], b, n)
    BY <2>1, <2>2 DEF IsSplit
  <2> QED
    BY <2>1, <2>3, <2>4
<1> QED
  BY <1>1, <1>2

LEMMA ArgvFound ==
  ASSUME NEW b, Len(b) \in Nat, NEW out, Splits(b, out)
  PROVE  ArgvStrings(b) = out
<1> DEFINE split == CHOOSE g : g = [i \in 0..Len(b) |->
                        IF i = 0 THEN [out |-> <<>>, start |-> 1]
                        ELSE SplitByte(g[i - 1], b, i)]
<1>1. PICK f : IsSplit(f, b) /\ f[Len(b)] = [out |-> out, start |-> Len(b) + 1]
  BY DEF Splits
<1>2. IsSplit(split, b)
  BY <1>1 DEF IsSplit
<1>3. ArgvStrings(b) = IF split[Len(b)].start > Len(b) THEN split[Len(b)].out
                       ELSE Append(split[Len(b)].out, SubSeq(b, split[Len(b)].start, Len(b)))
  BY DEF ArgvStrings
<1> HIDE DEF split
<1>4. split = f
  BY <1>1, <1>2, SplitUnique
<1> QED
  BY <1>1, <1>3, <1>4

\* Nothing is found in nothing.
LEMMA SplitsNothing == Splits(<<>>, <<>>)
<1> DEFINE f == [i \in 0..0 |-> [out |-> <<>>, start |-> 1]]
<1>1. Len(<<>>) = 0
  OBVIOUS
<1>2. IsSplit(f, <<>>)
  BY <1>1 DEF IsSplit
<1>3. f[0] = [out |-> <<>>, start |-> 1] /\ \A i \in 0..0 : f[i].start \in 1..(i + 1)
  OBVIOUS
<1> HIDE DEF f
<1> QED
  BY <1>1, <1>2, <1>3 DEF Splits

\* A piece of b is the same piece of any c that begins with b.
LEMMA SamePiece ==
  ASSUME NEW b \in Seq(Cells), NEW c \in Seq(Cells), Len(b) < Len(c),
         \A k \in 1..Len(b) : c[k] = b[k],
         NEW i \in 1..Len(b), NEW s \in 1..i
  PROVE  SubSeq(b, s, i - 1) = SubSeq(c, s, i - 1)
<1>1. /\ SubSeq(b, s, i - 1) = [k \in 1..(1 + (i - 1) - s) |-> b[s + k - 1]]
      /\ SubSeq(c, s, i - 1) = [k \in 1..(1 + (i - 1) - s) |-> c[s + k - 1]]
  OBVIOUS
<1>2. \A k \in 1..(1 + (i - 1) - s) : s + k - 1 \in 1..Len(b)
  OBVIOUS
<1> QED
  BY <1>1, <1>2

\* One more argument and its NUL is one more string, and the others stay.
LEMMA SplitsMore ==
  ASSUME NEW b \in Seq(Cells), NEW c \in Seq(Cells), NEW out, Splits(b, out),
         Len(b) < Len(c),
         \A k \in 1..Len(b) : c[k] = b[k],
         \A k \in (Len(b) + 1)..(Len(c) - 1) : c[k] # Nul,
         c[Len(c)] = Nul
  PROVE  Splits(c, Append(out, SubSeq(c, Len(b) + 1, Len(c) - 1)))
<1> DEFINE m == Len(b)
           n == Len(c)
           end == [out |-> Append(out, SubSeq(c, m + 1, n - 1)), start |-> n + 1]
<1>1. m \in Nat /\ n \in Nat /\ m < n
  OBVIOUS
<1>2. PICK f : /\ IsSplit(f, b)
               /\ \A i \in 0..m : f[i].start \in 1..(i + 1)
               /\ f[m] = [out |-> out, start |-> m + 1]
  BY DEF Splits
<1> DEFINE g == [i \in 0..n |-> IF i <= m THEN f[i] ELSE IF i < n THEN f[m] ELSE end]
<1>3. ASSUME NEW i \in 0..n
      PROVE  g[i] = IF i = 0 THEN [out |-> <<>>, start |-> 1] ELSE SplitByte(g[i - 1], c, i)
  <2>1. CASE i = 0
    BY <1>1, <1>2, <2>1 DEF IsSplit
  <2>2. CASE i # 0 /\ i <= m
    <3>1. g[i] = f[i] /\ g[i - 1] = f[i - 1] /\ f[i] = SplitByte(f[i - 1], b, i)
      <4>1. i \in 0..m /\ i - 1 \in 0..n /\ i - 1 <= m
        BY <1>1, <2>2
      <4>2. f[i] = SplitByte(f[i - 1], b, i)
        BY <1>2, <2>2, <4>1 DEF IsSplit
      <4> QED
        BY <2>2, <4>1, <4>2
    <3>2. b[i] = c[i] /\ f[i - 1].start \in 1..i
      BY <1>1, <1>2, <2>2
    <3>3. SubSeq(b, f[i - 1].start, i - 1) = SubSeq(c, f[i - 1].start, i - 1)
      <4> DEFINE s == f[i - 1].start
      <4>1. s \in 1..i /\ i \in 1..m
        BY <2>2, <3>2
      <4> HIDE DEF s
      <4>2. SubSeq(b, s, i - 1) = SubSeq(c, s, i - 1)
        BY <1>1, <4>1, SamePiece
      <4> QED
        BY <4>2 DEF s
    <3> QED
      BY <2>2, <3>1, <3>2, <3>3 DEF SplitByte
  <2>3. CASE m < i /\ i < n
    <3>1. c[i] # Nul /\ i # 0
      BY <1>1, <2>3
    <3>2. g[i] = f[m] /\ g[i - 1] = f[m]
      BY <1>1, <2>3
    <3> QED
      BY <3>1, <3>2 DEF SplitByte
  <2>4. CASE i = n
    <3>1. g[i] = end /\ g[i - 1] = f[m] /\ i # 0
      <4>1. ~(i <= m) /\ ~(i < n) /\ i # 0 /\ i - 1 \in 0..n /\ i - 1 < n
        BY <1>1, <2>4
      <4>2. i - 1 <= m => i - 1 = m
        BY <1>1, <2>4
      <4> HIDE DEF end
      <4> QED
        BY <4>1, <4>2
    <3>2. f[m].out = out /\ f[m].start = m + 1
      BY <1>2
    <3>3. SplitByte(f[m], c, n) = end
      BY <3>2 DEF SplitByte
    <3> QED
      BY <2>4, <3>1, <3>3
  <2> QED
    BY <1>1, <2>1, <2>2, <2>3, <2>4
<1>4. \A i \in 0..n : g[i].start \in 1..(i + 1)
  <2>1. end.start = n + 1 /\ f[m].start = m + 1
    BY <1>2
  <2> HIDE DEF end
  <2>2. ASSUME NEW i \in 0..n PROVE g[i].start \in 1..(i + 1)
    <3>1. CASE i <= m
      BY <1>1, <1>2, <3>1
    <3>2. CASE m < i /\ i < n
      BY <1>1, <2>1, <3>2
    <3>3. CASE i = n
      BY <1>1, <2>1, <3>3
    <3> QED
      BY <1>1, <3>1, <3>2, <3>3
  <2> QED
    BY <2>2
<1>5. g[n] = end /\ g = [i \in 0..n |-> g[i]]
  BY <1>1
<1> HIDE DEF g
<1>6. IsSplit(g, c)
  BY <1>3, <1>5 DEF IsSplit
<1> QED
  BY <1>4, <1>5, <1>6 DEF Splits

-----------------------------------------------------------------------------
(* What a record holds while it is filled, and what the reader makes of it. *)

\* What has been written of a record agrees with what has been read for it.
ArgsHeld(r) ==
    /\ r.kind = "exec"
    /\ r.argv \in [1..ArgvLen -> Cells]
    /\ r.seen \in Seq(Nat)
    /\ Splits(SubSeq(r.argv, 1, r.off), Words(r.seen))

Held(r, pc) ==
    /\ pc = "argv" => ArgsHeld(r)
    /\ pc = "addr" => r.kind \in {"connect", "bind"}
    /\ pc = "submit" => Parsed(r) = Witnessed(r)

RecordsHeld ==
    /\ \A p \in 1..Len(trRing) : /\ trRing[p].kind \in {"exec", "connect", "bind"}
                                 /\ trRing[p].ready => Parsed(trRing[p]) = Witnessed(trRing[p])
    /\ \A c \in TraceCpus : trPc[c] # "user" => Held(trRing[trPos[c]], trPc[c])

\* A reader that has not ended has skipped no record and made up none.
EventsHeld ==
    /\ \A p \in 1..trTaken : trRing[p].ready
    /\ trReader # "ended" => IF BigEndian THEN Len(trOut) = 0 /\ trReader = "read"
                             ELSE trTaken = Len(trOut) + IF trReader = "send" THEN 1 ELSE 0
    /\ TraceFaithful

FaithInv == TraceInv /\ RecordsHeld /\ EventsHeld

-----------------------------------------------------------------------------
(* Arguments *)

\* A record that has just been reserved has no argument yet.
LEMMA ReservedHeld ==
  ASSUME NEW family
  PROVE  ArgsHeld(Reserved("exec", family))
<1> DEFINE r == Reserved("exec", family)
<1>1. /\ r.kind = "exec" /\ r.off = 0 /\ r.seen = <<>>
      /\ r.argv = [k \in 1..ArgvLen |-> Stale]
  BY DEF Reserved
<1> HIDE DEF r
<1>2. Stale \in Cells
  BY DEF Stale, Cells
<1>3. r.argv \in [1..ArgvLen -> Cells]
  BY <1>1, <1>2
<1>4. SubSeq(r.argv, 1, r.off) = <<>>
  <2>1. r.argv \in Seq(Cells)
    BY <1>3, TraceAssumption
  <2> QED
    BY <1>1, <2>1
<1>5. Words(<<>>) = <<>>
  BY DEF Words
<1>6. <<>> \in Seq(Nat)
  OBVIOUS
<1>7. ArgsHeld(r)
  BY <1>1, <1>3, <1>4, <1>5, <1>6, SplitsNothing DEF ArgsHeld
<1> QED
  BY <1>7 DEF r

\* The arguments seen so far are the strings of what has been packed.
LEMMA HeldParsed ==
  ASSUME NEW r, Sized(r), r.kind = "exec", r.argv \in [1..ArgvLen -> Cells],
         r.len = r.off, Splits(SubSeq(r.argv, 1, r.off), Words(r.seen))
  PROVE  Parsed(r) = Witnessed(r)
<1> DEFINE b == SubSeq(r.argv, 1, r.off)
<1>1. Len(b) \in Nat
  <2>1. r.argv \in Seq(Cells) /\ Len(r.argv) = ArgvLen /\ r.off \in 0..ArgvLen
    BY TraceAssumption DEF Sized
  <2> QED
    BY <2>1, TraceAssumption
<1> HIDE DEF b
<1>2. ArgvStrings(b) = Words(r.seen)
  BY <1>1, ArgvFound DEF b
<1>3. Parsed(r) = [kind |-> r.kind, args |-> ArgvStrings(b)]
  BY DEF Parsed, b
<1>4. Witnessed(r) = [kind |-> r.kind, args |-> Words(r.seen)]
  BY DEF Witnessed, Words
<1> QED
  BY <1>2, <1>3, <1>4

\* The words of one more size.
LEMMA WordsMore ==
  ASSUME NEW seen \in Seq(Nat), NEW size \in Nat
  PROVE  Words(Append(seen, size)) =
            Append(Words(seen), [k \in 1..(ProbeStr(size) - 1) |-> <<Len(seen) + 1, k>>])
<1> DEFINE m == Len(seen)
           Word(j, n) == [k \in 1..(ProbeStr(n) - 1) |-> <<j, k>>]
           T == {Word(j, n) : j \in Nat, n \in Nat}
           s == Append(seen, size)
<1>1. /\ m \in Nat /\ DOMAIN seen = 1..m /\ DOMAIN s = 1..(m + 1)
      /\ s[m + 1] = size /\ \A j \in 1..m : s[j] = seen[j] /\ seen[j] \in Nat
  OBVIOUS
<1> HIDE DEF s, m, Word
<1>2. Words(seen) = [j \in 1..m |-> Word(j, seen[j])]
  BY <1>1 DEF Words, Word
<1>3. Words(s) = [j \in 1..(m + 1) |-> Word(j, s[j])]
  BY <1>1 DEF Words, Word
<1>4. Words(seen) \in Seq(T) /\ Len(Words(seen)) = m
  <2>1. \A j \in 1..m : Word(j, seen[j]) \in T
    BY <1>1
  <2> HIDE DEF T
  <2>2. Words(seen) \in [1..m -> T]
    BY <1>2, <2>1
  <2> QED
    BY <1>1, <2>2
<1>5. Word(m + 1, size) \in T
  BY <1>1
<1>6. Words(s) = Append(Words(seen), Word(m + 1, size))
  <2> DEFINE w == Words(seen)
             e == Word(m + 1, size)
  <2>1. /\ Append(w, e) \in Seq(T) /\ Len(Append(w, e)) = m + 1
        /\ Append(w, e)[m + 1] = e /\ \A j \in 1..m : Append(w, e)[j] = w[j]
    <3> HIDE DEF w, e, T
    <3> QED
      BY <1>1, <1>4, <1>5 DEF w, e
  <2>2. Append(w, e) = [j \in 1..(m + 1) |-> Append(w, e)[j]]
    <3> DEFINE a == Append(w, e)
    <3>1. a \in Seq(T) /\ Len(a) = m + 1
      BY <2>1
    <3> HIDE DEF a, T
    <3>2. a = [j \in 1..(m + 1) |-> a[j]]
      BY <1>1, <3>1
    <3> QED
      BY <3>2 DEF a
  <2>3. \A j \in 1..(m + 1) : Append(w, e)[j] = Word(j, s[j])
    <3> HIDE DEF e, T
    <3>1. \A j \in 1..m : w[j] = Word(j, s[j])
      BY <1>1, <1>2
    <3>2. e = Word(m + 1, s[m + 1])
      BY <1>1 DEF e
    <3> HIDE DEF w
    <3> QED
      BY <1>1, <2>1, <3>1, <3>2
  <2> QED
    BY <1>3, <2>2, <2>3
<1> QED
  BY <1>6 DEF s, m, Word

\* An argument packed behind the others is one more word.
LEMMA PackedHeld ==
  ASSUME NEW argv \in [1..ArgvLen -> Cells], NEW seen \in Seq(Nat), NEW off \in 0..ArgvLen,
         Splits(SubSeq(argv, 1, off), Words(seen)),
         NEW size \in Nat, off + ProbeStr(size) \in 0..ArgvLen
  PROVE  LET n == ProbeStr(size)
             packed == Packed(argv, off, Len(seen) + 1, n)
         IN  /\ packed \in [1..ArgvLen -> Cells]
             /\ Splits(SubSeq(packed, 1, off + n), Words(Append(seen, size)))
<1> DEFINE n == ProbeStr(size)
           j == Len(seen) + 1
           packed == Packed(argv, off, j, n)
           b == SubSeq(argv, 1, off)
           c == SubSeq(packed, 1, off + n)
           word == [k \in 1..(n - 1) |-> <<j, k>>]
<1>1. n \in Nat /\ n >= 1 /\ j \in Nat /\ j >= 1 /\ ArgvLen \in Nat
  <2>1. n \in 1..ArgChunk
    BY ProbeStrBounds
  <2>2. Len(seen) \in Nat
    OBVIOUS
  <2> HIDE DEF n
  <2> QED
    BY <2>1, <2>2, TraceAssumption
<1>2. \A k \in 1..ArgvLen : packed[k] = IF k > off /\ k < off + n THEN <<j, k - off>>
                                        ELSE IF k = off + n THEN Nul ELSE argv[k]
  BY DEF Packed
<1>3. Nul \in Cells /\ \A k \in 1..ArgvLen : k > off => <<j, k - off>> \in Cells
  BY <1>1 DEF Nul, Cells
<1>4. packed = [k \in 1..ArgvLen |-> packed[k]]
  BY DEF Packed
<1> HIDE DEF n, j, packed
<1>5. packed \in [1..ArgvLen -> Cells]
  <2>1. \A k \in 1..ArgvLen : packed[k] \in Cells
    BY <1>1, <1>2, <1>3
  <2> QED
    BY <1>4, <2>1
<1>6. /\ argv \in Seq(Cells) /\ Len(argv) = ArgvLen
      /\ packed \in Seq(Cells) /\ Len(packed) = ArgvLen
  BY <1>1, <1>5
<1>7. off + n \in 0..ArgvLen
  BY DEF n
<1>8. b \in Seq(Cells) /\ Len(b) = off /\ \A k \in 1..off : b[k] = argv[k]
  BY <1>1, <1>6
<1>9. c \in Seq(Cells) /\ Len(c) = off + n /\ \A k \in 1..(off + n) : c[k] = packed[k]
  BY <1>1, <1>6, <1>7
<1> HIDE DEF b, c
<1>10. Len(b) < Len(c)
  BY <1>1, <1>8, <1>9
<1>11. \A k \in 1..Len(b) : c[k] = b[k]
  <2> SUFFICES ASSUME NEW k \in 1..off PROVE c[k] = b[k]
    BY <1>8
  <2>1. k \in 1..ArgvLen /\ k \in 1..(off + n) /\ ~(k > off) /\ k # off + n
    BY <1>1, <1>7
  <2> QED
    BY <1>2, <1>8, <1>9, <2>1
<1>12. \A k \in (off + 1)..(off + n - 1) : c[k] = <<j, k - off>>
  <2> SUFFICES ASSUME NEW k \in (off + 1)..(off + n - 1) PROVE c[k] = <<j, k - off>>
    OBVIOUS
  <2>1. k \in 1..ArgvLen /\ k \in 1..(off + n) /\ k > off /\ k < off + n
    BY <1>1, <1>7
  <2> QED
    BY <1>2, <1>9, <2>1
<1>13. c[off + n] = Nul
  <2>1. off + n \in 1..ArgvLen /\ off + n \in 1..(off + n) /\ ~(off + n < off + n)
    BY <1>1, <1>7
  <2> QED
    BY <1>2, <1>9, <2>1
<1>14. \A k \in (Len(b) + 1)..(Len(c) - 1) : c[k] # Nul
  BY <1>1, <1>8, <1>9, <1>12 DEF Nul
<1>15. SubSeq(c, off + 1, off + n - 1) = word
  <2>1. SubSeq(c, off + 1, off + n - 1) = [k \in 1..(n - 1) |-> c[off + k]]
    BY <1>1, <1>7, <1>9
  <2>2. \A k \in 1..(n - 1) : c[off + k] = <<j, k>>
    BY <1>1, <1>12
  <2> QED
    BY <2>1, <2>2
<1>16. Splits(c, Append(Words(seen), SubSeq(c, Len(b) + 1, Len(c) - 1)))
  BY <1>8, <1>9, <1>10, <1>11, <1>13, <1>14, SplitsMore DEF b
<1>17. Words(Append(seen, size)) = Append(Words(seen), word)
  BY WordsMore DEF n, j
<1> HIDE DEF word
<1>18. Splits(c, Words(Append(seen, size)))
  <2>1. Len(b) + 1 = off + 1 /\ Len(c) - 1 = off + n - 1
    BY <1>1, <1>7, <1>8, <1>9
  <2>2. SubSeq(c, Len(b) + 1, Len(c) - 1) = word
    BY <1>15, <2>1
  <2> QED
    BY <1>16, <1>17, <2>2, Zenon
<1> QED
  BY <1>5, <1>18 DEF n, j, packed, c

-----------------------------------------------------------------------------
(* Steps *)

\* A record that has been read is not the one a program fills.
LEMMA FillHeld ==
  ASSUME FaithInv, NEW c \in TraceCpus, trPc[c] # "user",
         NEW q, NEW pc \in {"argv", "addr", "submit"},
         ~q.ready, q.kind = trRing[trPos[c]].kind, Held(q, pc),
         trRing' = [trRing EXCEPT ![trPos[c]] = q],
         trPc' = [trPc EXCEPT ![c] = pc],
         UNCHANGED <<trPos, trTaken, trReader, trOut>>
  PROVE  RecordsHeld' /\ EventsHeld'
<1> USE DEF FaithInv
<1> DEFINE p == trPos[c]
<1>1. p \in 1..Len(trRing) /\ IsSequence(trRing) /\ ~trRing[p].ready
  BY OwnRecord
<1>2. Len(trRing') = Len(trRing) /\ Len(trRing) \in Nat
  BY <1>1, Overwritten
<1>3. trRing'[p] = q /\ \A i \in 1..Len(trRing) : i # p => trRing'[i] = trRing[i]
  BY <1>1, Overwritten
<1>4. trTaken \in 0..Len(trRing) /\ Len(trOut) <= trTaken /\ Len(trOut) \in Nat
  BY Lengthened DEF TraceInv, ReaderInv
<1>5. ASSUME NEW i \in 1..Len(trRing')
      PROVE  /\ trRing'[i].kind \in {"exec", "connect", "bind"}
             /\ trRing'[i].ready => Parsed(trRing'[i]) = Witnessed(trRing'[i])
  BY <1>1, <1>2, <1>3, <1>5 DEF RecordsHeld
<1>6. ASSUME NEW d \in TraceCpus, trPc'[d] # "user"
      PROVE  Held(trRing'[trPos'[d]], trPc'[d])
  <2>1. CASE d = c
    BY <1>3, <2>1 DEF TraceInv, RingInv
  <2>2. CASE d # c
    <3>1. trPc'[d] = trPc[d] /\ trPos'[d] = trPos[d]
      BY <2>2 DEF TraceInv, RingInv
    <3>2. trPos[d] # p /\ trPos[d] \in 1..Len(trRing)
      BY <1>6, <2>2, <3>1 DEF TraceInv, RingInv, Exclusive
    <3>3. Held(trRing[trPos[d]], trPc[d])
      BY <1>6, <3>1 DEF RecordsHeld
    <3> QED
      BY <1>3, <3>1, <3>2, <3>3
  <2> QED
    BY <2>1, <2>2
<1>7. RecordsHeld'
  BY <1>5, <1>6 DEF RecordsHeld
<1>8. \A i \in 1..trTaken : trRing'[i] = trRing[i] /\ trRing[i].ready
  BY <1>1, <1>2, <1>3, <1>4 DEF EventsHeld
<1>9. EventsHeld'
  <2>1. \A i \in 1..trTaken' : trRing'[i].ready
    BY <1>8
  <2>2. \A n \in 1..Len(trOut) : n \in 1..trTaken
    BY <1>2, <1>4
  <2>3. \A n \in 1..Len(trOut') : trOut'[n] = Witnessed(trRing'[n])
    BY <1>8, <2>2 DEF EventsHeld, TraceFaithful
  <2> QED
    BY <2>1, <2>3 DEF EventsHeld, TraceFaithful
<1> QED
  BY <1>7, <1>9

LEMMA TraceArgHeld ==
  ASSUME FaithInv, NEW c \in TraceCpus, NEW size \in ArgSizes, TraceArg(c, size)
  PROVE  RecordsHeld' /\ EventsHeld'
<1> DEFINE p == trPos[c]
           r == trRing[p]
           n == ProbeStr(size)
           argv == Packed(r.argv, r.off, Len(r.seen) + 1, n)
           seen == Append(r.seen, size)
           q == [r EXCEPT !.argv = argv, !.off = r.off + n, !.seen = seen]
<1>1. trPc[c] = "argv" /\ ArgFits(r.off)
  BY DEF TraceArg
<1>2. Sized(r) /\ ~r.ready /\ p \in DOMAIN trRing
  BY <1>1, OwnRecord DEF FaithInv
<1>3. ArgsHeld(r)
  BY <1>1 DEF FaithInv, RecordsHeld, Held
<1>4. size \in Nat /\ r.off \in 0..ArgvLen /\ r.off + n \in 0..ArgvLen
  <2>1. size \in Nat /\ r.off \in 0..ArgvLen
    BY <1>2, TraceAssumption DEF Sized
  <2> QED
    BY <1>1, <2>1, ArgStaysInside
<1>5. argv \in [1..ArgvLen -> Cells] /\ Splits(SubSeq(argv, 1, r.off + n), Words(seen))
  BY <1>3, <1>4, PackedHeld DEF ArgsHeld
<1>6. seen \in Seq(Nat)
  BY <1>3, <1>4 DEF ArgsHeld
<1>7. trRing' = [trRing EXCEPT ![p].argv = argv, ![p].off = r.off + n, ![p].seen = seen]
  BY DEF TraceArg
<1>8. /\ trPc' = [trPc EXCEPT ![c] = "argv"]
      /\ UNCHANGED <<trPos, trTaken, trReader, trOut>>
  BY <1>1 DEF TraceArg, FaithInv, TraceInv, RingInv
<1>9. trRing' = [trRing EXCEPT ![p] = q]
  <2> HIDE DEF p, n, argv, seen
  <2> QED
    BY <1>2, <1>7, Zenon
<1>10. /\ q.kind = r.kind /\ ~q.ready
       /\ q.argv = argv /\ q.off = r.off + n /\ q.seen = seen
  <2> HIDE DEF r, n, argv, seen
  <2> QED
    BY <1>2 DEF Sized, Fields
<1> HIDE DEF q
<1>11. Held(q, "argv")
  BY <1>3, <1>5, <1>6, <1>10 DEF Held, ArgsHeld
<1> QED
  BY <1>1, <1>8, <1>9, <1>10, <1>11, FillHeld

\* A probe that fails has written behind what is reported.
LEMMA TraceArgFaultHeld ==
  ASSUME FaithInv, NEW c \in TraceCpus, TraceArgFault(c)
  PROVE  RecordsHeld' /\ EventsHeld'
<1> DEFINE p == trPos[c]
           r == trRing[p]
           argv == Zeroed(r.argv, r.off)
           q == [r EXCEPT !.argv = argv, !.len = r.off]
<1>1. trPc[c] = "argv"
  BY DEF TraceArgFault
<1>2. Sized(r) /\ ~r.ready /\ p \in DOMAIN trRing
  BY <1>1, OwnRecord DEF FaithInv
<1>3. ArgsHeld(r)
  BY <1>1 DEF FaithInv, RecordsHeld, Held
<1>4. r.off \in 0..ArgvLen /\ ArgvLen \in Nat
  BY <1>2, TraceAssumption DEF Sized
<1>5. argv \in [1..ArgvLen -> Cells]
  <2>1. Nul \in Cells
    BY DEF Nul, Cells
  <2> HIDE DEF r
  <2> QED
    BY <1>3, <2>1 DEF ArgsHeld, Zeroed
<1>6. \A k \in 1..r.off : argv[k] = r.argv[k]
  <2> HIDE DEF r
  <2> QED
    BY <1>4 DEF Zeroed
<1>7. SubSeq(argv, 1, r.off) = SubSeq(r.argv, 1, r.off)
  <2>1. /\ argv \in Seq(Cells) /\ Len(argv) = ArgvLen
        /\ r.argv \in Seq(Cells) /\ Len(r.argv) = ArgvLen
    BY <1>3, <1>4, <1>5 DEF ArgsHeld
  <2> HIDE DEF argv, r
  <2>2. /\ SubSeq(argv, 1, r.off) = [k \in 1..r.off |-> argv[k]]
        /\ SubSeq(r.argv, 1, r.off) = [k \in 1..r.off |-> r.argv[k]]
    BY <1>4, <2>1
  <2> QED
    BY <1>6, <2>2
<1>8. trRing' = [trRing EXCEPT ![p].argv = argv, ![p].len = r.off]
  BY DEF TraceArgFault
<1>9. trRing' = [trRing EXCEPT ![p] = q]
  <2> HIDE DEF p, argv
  <2> QED
    BY <1>2, <1>8, Zenon
<1>10. trPc' = [trPc EXCEPT ![c] = "submit"] /\ UNCHANGED <<trPos, trTaken, trReader, trOut>>
  BY DEF TraceArgFault
<1>11. /\ q.kind = r.kind /\ ~q.ready /\ q.argv = argv /\ q.len = r.off
       /\ q.off = r.off /\ q.seen = r.seen /\ Sized(q)
  <2> HIDE DEF r, argv
  <2> QED
    BY <1>2, <1>4, SizedFilled DEF Sized, Fields
<1> HIDE DEF q, argv
<1>12. Parsed(q) = Witnessed(q)
  BY <1>3, <1>5, <1>7, <1>11, HeldParsed DEF ArgsHeld
<1> QED
  BY <1>1, <1>9, <1>10, <1>11, <1>12, FillHeld DEF Held

LEMMA TraceArgEndHeld ==
  ASSUME FaithInv, NEW c \in TraceCpus, TraceArgEnd(c)
  PROVE  RecordsHeld' /\ EventsHeld'
<1> DEFINE p == trPos[c]
           r == trRing[p]
           q == [r EXCEPT !.len = r.off]
<1>1. trPc[c] = "argv"
  BY DEF TraceArgEnd
<1>2. Sized(r) /\ ~r.ready /\ p \in DOMAIN trRing
  BY <1>1, OwnRecord DEF FaithInv
<1>3. ArgsHeld(r)
  BY <1>1 DEF FaithInv, RecordsHeld, Held
<1>4. r.off \in 0..ArgvLen
  BY <1>2 DEF Sized
<1>5. trRing' = [trRing EXCEPT ![p].len = r.off]
  BY DEF TraceArgEnd
<1>6. trRing' = [trRing EXCEPT ![p] = q]
  <2> HIDE DEF p
  <2> QED
    BY <1>2, <1>5, Zenon
<1>7. trPc' = [trPc EXCEPT ![c] = "submit"] /\ UNCHANGED <<trPos, trTaken, trReader, trOut>>
  BY DEF TraceArgEnd
<1>8. /\ q.kind = r.kind /\ ~q.ready /\ q.argv = r.argv /\ q.len = r.off
      /\ q.off = r.off /\ q.seen = r.seen /\ Sized(q)
  <2> HIDE DEF r
  <2> QED
    BY <1>2, <1>4, SizedFilled DEF Sized, Fields
<1> HIDE DEF q
<1>9. Parsed(q) = Witnessed(q)
  BY <1>3, <1>8, HeldParsed DEF ArgsHeld
<1> QED
  BY <1>1, <1>6, <1>7, <1>8, <1>9, FillHeld DEF Held

\* The port as it was sent, whatever the machine's order.
LEMMA PortRead ==
  ASSUME NEW bytes \in PortBytes
  PROVE  Ntohs(bytes) = 256 * bytes[1] + bytes[2]
<1>1. bytes[1] \in 0..255 /\ bytes[2] \in 0..255
  BY TraceAssumption
<1> DEFINE high == bytes[1]
           low == bytes[2]
<1> HIDE DEF high, low
<1>2. high \in 0..255 /\ low \in 0..255
  BY <1>1 DEF high, low
<1>3. (high + 256 * low) % 256 = high /\ (high + 256 * low) \div 256 = low
  BY <1>2
<1> QED
  BY <1>2, <1>3, TraceAssumption DEF Ntohs, high, low

\* The part of the address that parse takes has been written.
LEMMA AddrHeld ==
  ASSUME NEW q, q.kind # "exec", NEW bytes \in PortBytes, NEW there \in BOOLEAN, NEW stale,
         q.port = (IF there THEN Ntohs(bytes) ELSE 0),
         q.seen = (IF there THEN <<bytes>> ELSE <<>>),
         q.addr = [w \in 1..4 |-> IF w <= (IF q.family = "inet" THEN 1 ELSE 4)
                                  THEN (IF there THEN <<1, w>> ELSE Zero) ELSE stale[w]]
  PROVE  Parsed(q) = Witnessed(q)
<1> DEFINE words == IF q.family = "inet" THEN 1 ELSE 4
           word(w) == IF there THEN <<1, w>> ELSE Zero
<1>1. (q.seen = <<>>) <=> ~there
  <2>1. <<bytes>> # <<>>
    OBVIOUS
  <2> QED
    BY <2>1
<1>2. Parsed(q).port = Witnessed(q).port
  <2>1. there => q.seen[1] = bytes
    OBVIOUS
  <2> QED
    BY <1>1, <2>1, PortRead DEF Parsed, Witnessed
<1>3. Witnessed(q).ip = [w \in 1..words |-> word(w)]
  BY <1>1 DEF Witnessed
<1>4. (IF q.family = "inet" THEN SubSeq(q.addr, 1, 1) ELSE q.addr) = [w \in 1..words |-> word(w)]
  <2>1. CASE q.family = "inet"
    <3> DEFINE T == {q.addr[w] : w \in 1..4}
    <3>1. q.addr \in Seq(T) /\ Len(q.addr) = 4
      <4> DEFINE a == q.addr
      <4>1. a = [w \in 1..4 |-> a[w]]
        OBVIOUS
      <4> HIDE DEF a
      <4> QED
        BY <4>1 DEF a
    <3>2. SubSeq(q.addr, 1, 1) = [w \in 1..1 |-> q.addr[w]]
      <4> DEFINE a == q.addr
      <4> HIDE DEF a, T
      <4>1. a \in Seq(T) /\ Len(a) = 4
        BY <3>1 DEF a
      <4>2. SubSeq(a, 1, 1) = [w \in 1..1 |-> a[w]]
        BY <4>1
      <4> QED
        BY <4>2 DEF a
    <3>3. q.addr[1] = word(1)
      BY <2>1
    <3> QED
      BY <2>1, <3>2, <3>3
  <2>2. CASE q.family # "inet"
    BY <2>2
  <2> QED
    BY <2>1, <2>2
<1>5. /\ Parsed(q) = [kind |-> q.kind, port |-> q.port,
                      ip |-> IF q.family = "inet" THEN SubSeq(q.addr, 1, 1) ELSE q.addr]
      /\ Witnessed(q) = [kind |-> q.kind, port |-> Witnessed(q).port, ip |-> Witnessed(q).ip]
  BY DEF Parsed, Witnessed
<1>6. Parsed(q).port = q.port
  BY DEF Parsed
<1> HIDE DEF words, word
<1> QED
  BY <1>2, <1>3, <1>4, <1>5, <1>6, Zenon

LEMMA TraceAddrHeld ==
  ASSUME FaithInv, NEW c \in TraceCpus, NEW bytes \in PortBytes, NEW there \in BOOLEAN,
         TraceAddr(c, bytes, there)
  PROVE  RecordsHeld' /\ EventsHeld'
<1> DEFINE p == trPos[c]
           r == trRing[p]
           word(w) == IF there THEN <<1, w>> ELSE Zero
           words == IF r.family = "inet" THEN 1 ELSE 4
           addr == [w \in 1..4 |-> IF w <= words THEN word(w) ELSE r.addr[w]]
           port == IF there THEN Ntohs(bytes) ELSE 0
           seen == IF there THEN <<bytes>> ELSE <<>>
           q == [r EXCEPT !.port = port, !.addr = addr, !.seen = seen]
<1>1. trPc[c] = "addr"
  BY DEF TraceAddr
<1>2. Sized(r) /\ ~r.ready /\ p \in DOMAIN trRing
  BY <1>1, OwnRecord DEF FaithInv
<1>3. r.kind \in {"connect", "bind"}
  BY <1>1 DEF FaithInv, RecordsHeld, Held
<1>4. trRing' = [trRing EXCEPT
                   ![p].port = port,
                   ![p].addr = [w \in 1..4 |-> IF w <= words THEN word(w) ELSE @[w]],
                   ![p].seen = seen]
  BY DEF TraceAddr
<1>5. trRing' = [trRing EXCEPT ![p] = q]
  <2> HIDE DEF p, words, word, port, seen
  <2> QED
    BY <1>2, <1>4, Zenon
<1>6. trPc' = [trPc EXCEPT ![c] = "submit"] /\ UNCHANGED <<trPos, trTaken, trReader, trOut>>
  BY DEF TraceAddr
<1>7. /\ q.kind = r.kind /\ ~q.ready /\ q.family = r.family
      /\ q.port = port /\ q.addr = addr /\ q.seen = seen
  <2> HIDE DEF r, port, addr, seen
  <2> QED
    BY <1>2 DEF Sized, Fields
<1> HIDE DEF q
<1>8. Parsed(q) = Witnessed(q)
  <2>1. q.kind # "exec"
    BY <1>3, <1>7
  <2>2. q.addr = [w \in 1..4 |-> IF w <= (IF q.family = "inet" THEN 1 ELSE 4)
                                 THEN (IF there THEN <<1, w>> ELSE Zero) ELSE r.addr[w]]
    BY <1>7
  <2> HIDE DEF r
  <2> QED
    BY <1>7, <2>1, <2>2, AddrHeld
<1> QED
  BY <1>1, <1>3, <1>5, <1>6, <1>7, <1>8, FillHeld DEF Held

LEMMA TraceSubmitHeld ==
  ASSUME FaithInv, NEW c \in TraceCpus, TraceSubmit(c)
  PROVE  RecordsHeld' /\ EventsHeld'
<1> USE DEF FaithInv
<1> DEFINE p == trPos[c]
           r == trRing[p]
           q == [r EXCEPT !.ready = TRUE]
<1>1. trPc[c] = "submit"
  BY DEF TraceSubmit
<1>2. /\ Sized(r) /\ ~r.ready /\ p \in DOMAIN trRing /\ p \in 1..Len(trRing)
      /\ IsSequence(trRing)
  BY <1>1, OwnRecord
<1>3. Parsed(r) = Witnessed(r)
  BY <1>1 DEF RecordsHeld, Held
<1>4. trRing' = [trRing EXCEPT ![p].ready = TRUE]
  BY DEF TraceSubmit
<1>5. trRing' = [trRing EXCEPT ![p] = q]
  <2> HIDE DEF p
  <2> QED
    BY <1>2, <1>4, Zenon
<1>6. /\ q.kind = r.kind /\ q.argv = r.argv /\ q.len = r.len /\ q.family = r.family
      /\ q.port = r.port /\ q.addr = r.addr /\ q.seen = r.seen
  <2> HIDE DEF r
  <2> QED
    BY <1>2 DEF Sized, Fields
<1> HIDE DEF q
<1>7. Parsed(q) = Witnessed(q)
  <2>1. Parsed(q) = Parsed(r)
    BY <1>6 DEF Parsed
  <2>2. Witnessed(q) = Witnessed(r)
    BY <1>6 DEF Witnessed
  <2> QED
    BY <1>3, <2>1, <2>2
<1>8. Len(trRing') = Len(trRing) /\ Len(trRing) \in Nat
  BY <1>2, <1>5, Overwritten
<1>9. trRing'[p] = q /\ \A i \in 1..Len(trRing) : i # p => trRing'[i] = trRing[i]
  BY <1>2, <1>5, Overwritten
<1>10. /\ trPc' = [trPc EXCEPT ![c] = "user"] /\ trPos' = [trPos EXCEPT ![c] = 0]
       /\ UNCHANGED <<trTaken, trReader, trOut>>
  BY DEF TraceSubmit
<1>11. RecordsHeld'
  <2>1. ASSUME NEW i \in 1..Len(trRing')
        PROVE  /\ trRing'[i].kind \in {"exec", "connect", "bind"}
               /\ trRing'[i].ready => Parsed(trRing'[i]) = Witnessed(trRing'[i])
    <3>1. CASE i = p
      BY <1>2, <1>6, <1>7, <1>9, <3>1 DEF RecordsHeld
    <3>2. CASE i # p
      BY <1>8, <1>9, <3>2 DEF RecordsHeld
    <3> QED
      BY <3>1, <3>2
  <2>2. ASSUME NEW d \in TraceCpus, trPc'[d] # "user"
        PROVE  Held(trRing'[trPos'[d]], trPc'[d])
    <3>1. d # c /\ trPc[d] # "user" /\ trPos'[d] = trPos[d] /\ trPc'[d] = trPc[d]
      BY <1>10, <2>2 DEF TraceInv, RingInv
    <3>2. trPos[d] \in 1..Len(trRing) /\ trPos[d] # p
      BY <1>1, <3>1 DEF TraceInv, RingInv, Exclusive
    <3>3. Held(trRing[trPos[d]], trPc[d])
      BY <3>1 DEF RecordsHeld
    <3> QED
      BY <1>9, <3>1, <3>2, <3>3
  <2> QED
    BY <2>1, <2>2 DEF RecordsHeld
<1>12. trTaken \in 0..Len(trRing) /\ Len(trOut) <= trTaken /\ Len(trOut) \in Nat
  BY Lengthened DEF TraceInv, ReaderInv
<1>13. \A i \in 1..trTaken : trRing'[i] = trRing[i] /\ trRing[i].ready
  BY <1>2, <1>8, <1>9, <1>12 DEF EventsHeld
<1>14. EventsHeld'
  <2>1. \A n \in 1..Len(trOut) : n \in 1..trTaken
    BY <1>8, <1>12
  <2>2. \A n \in 1..Len(trOut') : trOut'[n] = Witnessed(trRing'[n])
    BY <1>10, <1>13, <2>1 DEF EventsHeld, TraceFaithful
  <2> QED
    BY <1>10, <1>13, <2>2 DEF EventsHeld, TraceFaithful
<1> QED
  BY <1>11, <1>14

LEMMA TraceEnterHeld ==
  ASSUME FaithInv, NEW c \in TraceCpus, NEW call \in SystemCalls, TraceEnter(c, call[1], call[2])
  PROVE  RecordsHeld' /\ EventsHeld'
<1> USE DEF FaithInv
<1>1. UNCHANGED <<trTaken, trReader, trOut>>
  BY DEF TraceEnter
<1>2. CASE UNCHANGED <<trPc, trPos, trRing>>
  BY <1>1, <1>2 DEF RecordsHeld, EventsHeld, TraceFaithful
<1>3. CASE ~UNCHANGED <<trPc, trPos, trRing>>
  <2> DEFINE q == Reserved(call[1], call[2])
             pc == IF call[1] = "exec" THEN "argv" ELSE "addr"
  <2>1. /\ trRing' = Append(trRing, q)
        /\ trPos' = [trPos EXCEPT ![c] = Len(trRing) + 1]
        /\ trPc' = [trPc EXCEPT ![c] = pc]
    BY <1>3 DEF TraceEnter
  <2>2. call[1] \in {"exec", "connect", "bind"}
    BY TraceAssumption
  <2>3. q.kind = call[1] /\ ~q.ready
    BY DEF Reserved
  <2>4. Held(q, pc)
    <3>1. CASE call[1] = "exec"
      <4>1. ArgsHeld(q)
        BY <3>1, ReservedHeld
      <4> QED
        BY <3>1, <4>1 DEF Held
    <3>2. CASE call[1] # "exec"
      BY <2>2, <2>3, <3>2 DEF Held
    <3> QED
      BY <3>1, <3>2
  <2> HIDE DEF q
  <2>5. IsSequence(trRing)
    BY DEF TraceInv, RingInv
  <2>6. /\ Len(trRing') = Len(trRing) + 1 /\ Len(trRing) \in Nat
        /\ trRing'[Len(trRing) + 1] = q
        /\ \A p \in 1..Len(trRing) : trRing'[p] = trRing[p]
    BY <2>1, <2>5, Lengthened
  <2>7. RecordsHeld'
    <3>1. ASSUME NEW i \in 1..Len(trRing')
          PROVE  /\ trRing'[i].kind \in {"exec", "connect", "bind"}
                 /\ trRing'[i].ready => Parsed(trRing'[i]) = Witnessed(trRing'[i])
      <4>1. CASE i = Len(trRing) + 1
        BY <2>2, <2>3, <2>6, <4>1
      <4>2. CASE i \in 1..Len(trRing)
        BY <2>6, <4>2 DEF RecordsHeld
      <4> QED
        BY <2>6, <4>1, <4>2
    <3>2. ASSUME NEW d \in TraceCpus, trPc'[d] # "user"
          PROVE  Held(trRing'[trPos'[d]], trPc'[d])
      <4>1. CASE d = c
        BY <2>1, <2>4, <2>6, <4>1 DEF TraceInv, RingInv
      <4>2. CASE d # c
        <5>1. trPc'[d] = trPc[d] /\ trPos'[d] = trPos[d]
          BY <2>1, <4>2 DEF TraceInv, RingInv
        <5>2. trPos[d] \in 1..Len(trRing) /\ Held(trRing[trPos[d]], trPc[d])
          BY <3>2, <5>1 DEF TraceInv, RingInv, RecordsHeld
        <5> QED
          BY <2>6, <5>1, <5>2
      <4> QED
        BY <4>1, <4>2
    <3> QED
      BY <3>1, <3>2 DEF RecordsHeld
  <2>8. trTaken \in 0..Len(trRing) /\ Len(trOut) <= trTaken /\ Len(trOut) \in Nat
    BY Lengthened DEF TraceInv, ReaderInv
  <2>9. \A i \in 1..trTaken : trRing'[i] = trRing[i] /\ trRing[i].ready
    BY <2>6, <2>8 DEF EventsHeld
  <2>10. \A n \in 1..Len(trOut) : n \in 1..trTaken
    BY <2>6, <2>8
  <2>11. \A n \in 1..Len(trOut') : trOut'[n] = Witnessed(trRing'[n])
    BY <1>1, <2>9, <2>10 DEF EventsHeld, TraceFaithful
  <2>12. EventsHeld'
    BY <1>1, <2>9, <2>11 DEF EventsHeld, TraceFaithful
  <2> QED
    BY <2>7, <2>12
<1> QED
  BY <1>2, <1>3

LEMMA TraceReaderHeld ==
  ASSUME FaithInv, TraceReader \/ TraceStop
  PROVE  RecordsHeld' /\ EventsHeld'
<1> USE DEF FaithInv
<1>1. UNCHANGED <<trPc, trPos, trRing>>
  BY DEF TraceReader, TraceRead, TraceSend, TraceStop
<1>2. RecordsHeld'
  BY <1>1 DEF RecordsHeld
<1>3. /\ trTaken \in 0..Len(trRing) /\ Len(trRing) \in Nat
      /\ Len(trOut) <= trTaken /\ Len(trOut) \in Nat /\ IsSequence(trOut)
  BY Lengthened DEF TraceInv, ReaderInv, RingInv
\* The record after the last one taken is taken once it is submitted.
<1>4. CASE TraceRead
  <2>1. /\ trReader = "read" /\ trTaken < Len(trRing) /\ trRing[trTaken + 1].ready
        /\ trTaken' = trTaken + 1 /\ UNCHANGED trOut
        /\ trReader' = IF Known(trRing[trTaken + 1]) THEN "send" ELSE "read"
    BY <1>1, <1>4 DEF TraceRead
  <2>2. Known(trRing[trTaken + 1]) <=> ~BigEndian
    <3>1. trTaken + 1 \in 1..Len(trRing)
      BY <1>3, <2>1
    <3>2. trRing[trTaken + 1].kind \in {"exec", "connect", "bind"}
      BY <3>1 DEF RecordsHeld
    <3> QED
      BY <3>2 DEF Known
  <2>3. \A i \in 1..(trTaken + 1) : trRing[i].ready
    BY <1>3, <2>1 DEF EventsHeld
  <2>4. BigEndian => Len(trOut) = 0 /\ trReader' = "read"
    BY <2>1, <2>2 DEF EventsHeld
  <2>5. ~BigEndian => trReader' = "send" /\ trTaken + 1 = Len(trOut) + 1
    BY <1>3, <2>1, <2>2 DEF EventsHeld
  <2>6. TraceFaithful'
    BY <1>1, <2>1 DEF EventsHeld, TraceFaithful
  <2>7. EventsHeld'
    <3>1. \A i \in 1..trTaken' : trRing'[i].ready
      BY <1>1, <2>1, <2>3
    <3>2. IF BigEndian THEN Len(trOut') = 0 /\ trReader' = "read"
          ELSE trTaken' = Len(trOut') + IF trReader' = "send" THEN 1 ELSE 0
      BY <1>3, <2>1, <2>4, <2>5
    <3> QED
      BY <2>6, <3>1, <3>2 DEF EventsHeld
  <2> QED
    BY <1>2, <2>7
\* Its event follows those of the records before it.
<1>5. CASE TraceSend
  <2> DEFINE e == Parsed(trRing[trTaken])
  <2>1. /\ trOut' = Append(trOut, e) /\ trReader = "send" /\ trReader' = "read"
        /\ UNCHANGED trTaken
    BY <1>5 DEF TraceSend
  <2>2. ~BigEndian /\ trTaken = Len(trOut) + 1
    BY <2>1 DEF EventsHeld
  <2>3. e = Witnessed(trRing[trTaken])
    <3>1. trTaken \in 1..trTaken /\ trTaken \in 1..Len(trRing)
      BY <1>3, <2>2
    <3> QED
      BY <3>1 DEF EventsHeld, RecordsHeld
  <2> HIDE DEF e
  <2>4. /\ Len(trOut') = Len(trOut) + 1 /\ trOut'[Len(trOut) + 1] = e
        /\ \A n \in 1..Len(trOut) : trOut'[n] = trOut[n]
    BY <1>3, <2>1, Lengthened
  <2>5. ASSUME NEW n \in 1..Len(trOut') PROVE trOut'[n] = Witnessed(trRing'[n])
    <3>1. CASE n = Len(trOut) + 1
      BY <1>1, <2>2, <2>3, <2>4, <3>1
    <3>2. CASE n \in 1..Len(trOut)
      BY <1>1, <2>4, <3>2 DEF EventsHeld, TraceFaithful
    <3> QED
      BY <1>3, <2>4, <3>1, <3>2
  <2>6. \A i \in 1..trTaken' : trRing'[i].ready
    BY <1>1, <2>1 DEF EventsHeld
  <2>7. trTaken' = Len(trOut') + IF trReader' = "send" THEN 1 ELSE 0
    BY <1>3, <2>1, <2>2, <2>4
  <2>8. EventsHeld'
    BY <2>2, <2>5, <2>6, <2>7 DEF EventsHeld, TraceFaithful
  <2> QED
    BY <1>2, <2>8
<1>6. CASE TraceStop
  BY <1>1, <1>2, <1>6 DEF TraceStop, EventsHeld, TraceFaithful
<1> QED
  BY <1>4, <1>5, <1>6 DEF TraceReader

LEMMA FaithInit == TraceInit => FaithInv
<1> SUFFICES ASSUME TraceInit PROVE FaithInv
  OBVIOUS
<1>1. Len(<<>>) = 0
  OBVIOUS
<1>2. TraceInv
  BY TraceInitInv
<1>3. RecordsHeld
  BY <1>1 DEF TraceInit, RecordsHeld
<1>4. EventsHeld
  <2>1. Len(trOut) = 0 /\ trTaken = 0 /\ trReader = "read"
    BY <1>1 DEF TraceInit
  <2>2. TraceFaithful
    BY <2>1 DEF TraceFaithful
  <2> QED
    BY <2>1, <2>2 DEF EventsHeld
<1> QED
  BY <1>2, <1>3, <1>4 DEF FaithInv

LEMMA FaithStep == FaithInv /\ [TraceNext]_traceVars => FaithInv'
<1> SUFFICES ASSUME FaithInv, [TraceNext]_traceVars PROVE FaithInv'
  OBVIOUS
<1>1. TraceInv'
  BY TraceStepInv DEF FaithInv
<1>2. ASSUME NEW c \in TraceCpus, NEW call \in SystemCalls, TraceEnter(c, call[1], call[2])
      PROVE  RecordsHeld' /\ EventsHeld'
  BY <1>2, TraceEnterHeld
<1>3. ASSUME NEW c \in TraceCpus, TraceProgram(c) PROVE RecordsHeld' /\ EventsHeld'
  BY <1>3, TraceArgHeld, TraceArgFaultHeld, TraceArgEndHeld, TraceAddrHeld, TraceSubmitHeld
     DEF TraceProgram
<1>4. CASE TraceReader \/ TraceStop
  <2>1. RecordsHeld' /\ EventsHeld'
    BY <1>4, TraceReaderHeld
  <2> QED
    BY <1>1, <2>1 DEF FaithInv
<1>5. CASE UNCHANGED traceVars
  <2>1. RecordsHeld' /\ EventsHeld'
    BY <1>5 DEF traceVars, FaithInv, RecordsHeld, EventsHeld, TraceFaithful
  <2> QED
    BY <1>1, <2>1 DEF FaithInv
<1> QED
  BY <1>1, <1>2, <1>3, <1>4, <1>5 DEF TraceNext, TraceIdle, FaithInv

\* For any sizes of argv, chunk and ring, any number of arguments and CPUs: each
\* event is what the programs read for the record at its place, in the order of
\* reservation.  argvStrings finds each argument where it was packed, no argument
\* is joined with another or split, what a failed probe or an earlier record left
\* in the ring is not reported, and parse undoes the byte order of a port
\* (elmer.bpf.c:100-203, loader.go:101-202).
THEOREM TraceExact == TraceSpec => []TraceFaithful
<1>1. FaithInv => TraceFaithful
  BY DEF FaithInv, EventsHeld
<1> QED
  BY <1>1, FaithInit, FaithStep, PTL DEF TraceSpec

=============================================================================
