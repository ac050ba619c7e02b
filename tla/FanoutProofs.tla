---------------------------- MODULE FanoutProofs ----------------------------
(* What is proved of Fanout for any number of clients, any queue and tail    *)
(* size and any number of events: its types, that nothing is missed, that   *)
(* nothing is repeated, and that everything comes in order.                 *)
EXTENDS Fanout, FiniteSetTheorems, SequenceTheorems, TLAPS

-----------------------------------------------------------------------------
(* The inductive invariant                                                  *)

Kinds == {"envelope", "supervisor"}

\* The types of all that is kept.
TypeInv ==
    /\ flavour \in {"admin", "hub"} /\ kinds \in Seq(Kinds) /\ tail \in Seq(Nat)
    /\ stage \in [Clients -> Stages]
    /\ queue \in [Clients -> Seq(Nat)] /\ todo \in [Clients -> Seq(Nat)]
    /\ inhand \in [Clients -> Seq(Nat)] /\ got \in [Clients -> Seq(Nat)]
    /\ joined \in [Clients -> Nat] /\ copied \in [Clients -> Nat]
    /\ resumed \in [Clients -> Nat] /\ lossy \in [Clients -> BOOLEAN]

Rising(s, a, b) == \A i, j \in a .. b : i < j => s[i] < s[j]

\* The tail holds the last envelopes, in order: one that is not in it is older
\* than all that are, and the tail is full.
TailInv ==
    /\ Len(tail) <= TailMax
    /\ \A i \in 1 .. Len(tail) : tail[i] \in 1 .. Emitted /\ kinds[tail[i]] = "envelope"
    /\ Rising(tail, 1, Len(tail))
    /\ \A e \in 1 .. Emitted : kinds[e] = "envelope" =>
          \/ \E i \in 1 .. Len(tail) : tail[i] = e
          \/ Len(tail) = TailMax /\ \A i \in 1 .. Len(tail) : e < tail[i]
    /\ flavour = "hub" => \A e \in 1 .. Emitted : kinds[e] = "envelope"

\* Where a handler is tells what it holds.
StageInv(c) ==
    /\ Len(queue[c]) <= QueueMax /\ Len(inhand[c]) <= 1
    /\ stage[c] = "out" => queue[c] = <<>>
    /\ stage[c] \in {"out", "greeting"} => got[c] = <<>> /\ todo[c] = <<>>
    /\ stage[c] # "live" => inhand[c] = <<>>
    /\ stage[c] # "replaying" => todo[c] = <<>>
    /\ stage[c] = "out" => ~lossy[c]
    /\ stage[c] = "greeting" => flavour = "admin"
    /\ joined[c] <= copied[c] /\ copied[c] <= Emitted /\ resumed[c] <= joined[c]
    /\ flavour = "admin" => resumed[c] = 0
    /\ flavour = "hub" => copied[c] = joined[c]

\* A line is a backlog of s events and what was emitted since it subscribed,
\* each of them in order.  The backlog is of the envelopes up to its copy, of
\* which it lacks only those that the tail had lost by then.
Parted(c, line, s) ==
    /\ Rising(line, 1, s) /\ Rising(line, s + 1, Len(line))
    /\ \A i \in 1 .. s : kinds[line[i]] = "envelope" /\ line[i] <= copied[c]
    /\ \A i \in s + 1 .. Len(line) : line[i] > joined[c]
    /\ IF stage[c] = "greeting" THEN s = 0
       ELSE \A e \in joined[c] + 1 .. copied[c] : kinds[e] = "envelope" =>
               (\E k \in 1 .. s : line[k] = e) \/ Overrun(c, e)

\* Of a connection that lost nothing, the line holds all that was emitted
\* since it subscribed, and what it lacks from before is older than all of it
\* or was had before.
Complete(c, line) ==
    \A e \in 1 .. Emitted :
        \/ \E i \in 1 .. Len(line) : line[i] = e
        \/ /\ e <= joined[c]
           /\ resumed[c] = 0 \/ e <= resumed[c]
           /\ kinds[e] = "envelope" => \A i \in 1 .. Len(line) : line[i] > e

LineInv(c, line) ==
    /\ \A i \in 1 .. Len(line) : line[i] \in 1 .. Emitted /\ line[i] > resumed[c]
    /\ \E s \in 0 .. Len(line) : Parted(c, line, s)
    /\ ~lossy[c] => Complete(c, line)

Inv ==
    /\ TypeInv /\ TailInv
    /\ \A c \in Clients : StageInv(c)
    /\ \A c \in Clients : stage[c] # "out" => LineInv(c, Line(c))

-----------------------------------------------------------------------------
(* Sequences                                                                *)

\* A sequence that is not empty is its head before its tail.
LEMMA HeadThenTail ==
  ASSUME NEW s \in Seq(Nat), s # <<>>
  PROVE  <<Head(s)>> \in Seq(Nat) /\ s = <<Head(s)>> \o Tail(s)
  <1>1. Head(s) \in Nat /\ Tail(s) \in Seq(Nat) /\ Len(s) \in Nat \ {0}
    BY HeadTailProperties, EmptySeq
  <1>2. 1 \in 1 .. Len(s) /\ Len(s) \in 1 .. Len(s)
    BY <1>1
  <1>3. SubSeq(s, 1, Len(s)) = <<s[1]>> \o SubSeq(s, 1 + 1, Len(s))
    BY <1>2, SubSeqRecursiveFirst
  <1>4. SubSeq(s, 1, Len(s)) = s
    BY SubSeqFull
  <1>5. Tail(s) = SubSeq(s, 2, Len(s))
    BY TailIsSubSeq
  <1>6. Head(s) = s[1]
    BY DEF Head
  <1> QED BY <1>1, <1>3, <1>4, <1>5, <1>6

\* Concatenation and appending, for sequences of events.
LEMMA Assoc ==
  ASSUME NEW s \in Seq(Nat), NEW t \in Seq(Nat), NEW u \in Seq(Nat)
  PROVE  (s \o t) \o u = s \o (t \o u)
  BY SMTT(30), ConcatAssociative
\* Appending is concatenating one event.
LEMMA Appending ==
  ASSUME NEW s \in Seq(Nat), NEW x \in Nat
  PROVE  /\ <<x>> \in Seq(Nat) /\ Append(s, x) = s \o <<x>>
         /\ Append(s, x) \in Seq(Nat) /\ Len(Append(s, x)) = Len(s) + 1
         /\ \A i \in 1 .. Len(s) : Append(s, x)[i] = s[i]
         /\ Append(s, x)[Len(s) + 1] = x
  <1>1. Append(s, x) = s \o <<x>>
    BY AppendIsConcat
  <1> QED BY <1>1, AppendProperties
\* Where the members of a concatenation come from.
LEMMA Concat ==
  ASSUME NEW s \in Seq(Nat), NEW t \in Seq(Nat)
  PROVE  /\ s \o t \in Seq(Nat) /\ Len(s \o t) = Len(s) + Len(t)
         /\ \A i \in 1 .. Len(s) + Len(t) :
               (s \o t)[i] = IF i <= Len(s) THEN s[i] ELSE t[i - Len(s)]
  BY ConcatProperties

\* What is said of the members of a sequence is said of its places.
LEMMA RangeByPlace ==
  ASSUME NEW s \in Seq(Nat), NEW e
  PROVE  e \in Range(s) <=> \E i \in 1 .. Len(s) : s[i] = e
  BY RangeEquality

\* The line is a sequence of naturals.
LEMMA LineType ==
  ASSUME TypeInv, NEW c \in Clients
  PROVE  /\ Line(c) \in Seq(Nat) /\ Len(Line(c)) \in Nat
         /\ \A i \in 1 .. Len(Line(c)) : Line(c)[i] \in Nat
  <1>1. /\ got[c] \in Seq(Nat) /\ inhand[c] \in Seq(Nat)
        /\ todo[c] \in Seq(Nat) /\ queue[c] \in Seq(Nat)
    BY DEF TypeInv
  <1>2. got[c] \o inhand[c] \in Seq(Nat)
    BY <1>1, Concat
  <1>3. (got[c] \o inhand[c]) \o todo[c] \in Seq(Nat)
    BY <1>1, <1>2, ConcatProperties
  <1>4. Line(c) \in Seq(Nat)
    BY <1>1, <1>3, ConcatProperties DEF Line
  <1> QED BY <1>4, LenProperties, ElementOfSeq

-----------------------------------------------------------------------------
(* How a step changes the line of a client                                  *)

\* An event that is put into the queue comes at the end of the line.
LEMMA LineGrows ==
  ASSUME TypeInv, NEW c \in Clients, NEW x \in Nat,
         UNCHANGED <<got, inhand, todo>>, queue'[c] = Append(queue[c], x)
  PROVE  Line(c)' = Append(Line(c), x)
  <1>1. /\ got[c] \in Seq(Nat) /\ inhand[c] \in Seq(Nat)
        /\ todo[c] \in Seq(Nat) /\ queue[c] \in Seq(Nat)
    BY DEF TypeInv
  <1> DEFINE ahead == got[c] \o inhand[c] \o todo[c]
  <1>2. ahead \in Seq(Nat)
    BY <1>1, ConcatProperties
  <1>3. Append(queue[c], x) = queue[c] \o <<x>> /\ <<x>> \in Seq(Nat)
    BY <1>1, Appending
  <1>4. Line(c) = ahead \o queue[c] /\ Line(c) \in Seq(Nat)
    BY LineType DEF Line
  <1> HIDE DEF ahead
  <1>5. Line(c)' = ahead \o (queue[c] \o <<x>>)
    BY <1>3 DEF Line, ahead
  <1>6. ahead \o (queue[c] \o <<x>>) = (ahead \o queue[c]) \o <<x>>
    BY ZenonT(60), <1>1, <1>2, <1>3, Assoc
  <1> QED BY <1>4, <1>5, <1>6, Appending

\* What the handler writes or takes stays where it is in the line.
LEMMA WritingKeepsLine ==
  ASSUME TypeInv, NEW c \in Clients, StageInv(c),
         ReplayWritten(c) \/ Take(c) \/ Written(c)
  PROVE  Line(c)' = Line(c)
  <1>1. /\ got[c] \in Seq(Nat) /\ inhand[c] \in Seq(Nat)
        /\ todo[c] \in Seq(Nat) /\ queue[c] \in Seq(Nat)
        /\ DOMAIN got = Clients /\ DOMAIN inhand = Clients
        /\ DOMAIN todo = Clients /\ DOMAIN queue = Clients
    BY DEF TypeInv
  <1>e. /\ <<>> \in Seq(Nat)
        /\ \A s \in Seq(Nat) : s \o <<>> = s /\ <<>> \o s = s
    BY EmptySeq, ConcatEmptySeq
  <1>2. CASE ReplayWritten(c)
    <2> DEFINE h == <<Head(todo[c])>>
    <2>1. /\ todo[c] # <<>> /\ inhand[c] = <<>> /\ inhand' = inhand /\ queue' = queue
          /\ got'[c] = Append(got[c], Head(todo[c])) /\ todo'[c] = Tail(todo[c])
      BY <1>1, <1>2 DEF ReplayWritten, StageInv
    <2>2. h \in Seq(Nat) /\ todo[c] = h \o Tail(todo[c]) /\ Head(todo[c]) \in Nat
          /\ Tail(todo[c]) \in Seq(Nat)
      BY <1>1, <2>1, HeadThenTail, HeadTailProperties
    <2>3. got'[c] = got[c] \o h
      BY <1>1, <2>1, <2>2, Appending
    <2> HIDE DEF h
    <2>4. got'[c] \in Seq(Nat)
      BY <1>1, <2>2, <2>3, ConcatProperties
    <2>5. got'[c] \o Tail(todo[c]) = got[c] \o todo[c]
      <3>1. (got[c] \o h) \o Tail(todo[c]) = got[c] \o (h \o Tail(todo[c]))
        BY ZenonT(60), <1>1, <2>2, Assoc
      <3> QED BY <2>2, <2>3, <3>1
    <2>6. Line(c)' = got'[c] \o Tail(todo[c]) \o queue[c]
      BY <1>e, <2>1, <2>4 DEF Line
    <2>7. Line(c) = got[c] \o todo[c] \o queue[c]
      BY <1>1, <1>e, <2>1 DEF Line
    <2> QED BY <2>5, <2>6, <2>7
  <1>3. CASE Take(c)
    <2> DEFINE h == <<Head(queue[c])>>
    <2>1. /\ queue[c] # <<>> /\ inhand[c] = <<>> /\ todo[c] = <<>>
          /\ got' = got /\ todo' = todo
          /\ inhand'[c] = h /\ queue'[c] = Tail(queue[c])
      BY <1>1, <1>3 DEF Take, StageInv
    <2>2. /\ h \in Seq(Nat) /\ queue[c] = h \o Tail(queue[c])
          /\ Tail(queue[c]) \in Seq(Nat)
      BY <1>1, <2>1, HeadThenTail, HeadTailProperties
    <2> HIDE DEF h
    <2>3. got[c] \o h \in Seq(Nat)
      BY <1>1, <2>2, ConcatProperties
    <2>4. Line(c)' = (got[c] \o h) \o Tail(queue[c])
      BY <1>e, <2>1, <2>3 DEF Line
    <2>5. Line(c) = got[c] \o (h \o Tail(queue[c]))
      BY <1>1, <1>e, <2>1, <2>2 DEF Line
    <2> QED BY ZenonT(60), <1>1, <2>2, <2>4, <2>5, Assoc
  <1>4. CASE Written(c)
    <2>1. /\ got'[c] = got[c] \o inhand[c] /\ inhand'[c] = <<>>
          /\ todo' = todo /\ queue' = queue
      BY <1>1, <1>4 DEF Written
    <2>2. got[c] \o inhand[c] \in Seq(Nat)
      BY <1>1, ConcatProperties
    <2>3. (got[c] \o inhand[c]) \o <<>> = got[c] \o inhand[c]
      BY <1>e, <2>2
    <2> QED BY <2>1, <2>3 DEF Line
  <1> QED BY <1>2, <1>3, <1>4

-----------------------------------------------------------------------------
(* The tail                                                                 *)

\* The tail changes with the events only.
LEMMA TailKept ==
  ASSUME TailInv, UNCHANGED <<flavour, kinds, tail>>
  PROVE  TailInv'
  BY DEF TailInv, Rising, Emitted

\* The last n of a sequence.
LEMMA LastOf ==
  ASSUME NEW s \in Seq(Nat), NEW n \in Nat
  PROVE  LET off == IF Len(s) > n THEN Len(s) - n ELSE 0
         IN  /\ Last(s, n) \in Seq(Nat) /\ off \in Nat
             /\ Len(Last(s, n)) = Len(s) - off
             /\ \A i \in 1 .. Len(s) - off : Last(s, n)[i] = s[i + off]
  <1>1. Len(s) \in Nat /\ \A i \in 1 .. Len(s) : s[i] \in Nat
    BY LenProperties, ElementOfSeq
  <1>2. CASE Len(s) > n
    <2> DEFINE a == Len(s) - n + 1
    <2>1. a \in Int /\ \A i \in a .. Len(s) : s[i] \in Nat
      BY <1>1, <1>2
    <2>2. /\ SubSeq(s, a, Len(s)) \in Seq(Nat)
          /\ Len(SubSeq(s, a, Len(s))) = IF a <= Len(s) THEN Len(s) - a + 1 ELSE 0
          /\ \A i \in 1 .. Len(s) - a + 1 : SubSeq(s, a, Len(s))[i] = s[a + i - 1]
      BY <1>1, <2>1, SubSeqProperties
    <2>3. Last(s, n) = SubSeq(s, a, Len(s))
      BY <1>2 DEF Last
    <2> HIDE DEF a
    <2>4. a = Len(s) - n + 1
      BY DEF a
    <2> QED BY <1>1, <1>2, <2>2, <2>3, <2>4
  <1>3. CASE ~(Len(s) > n)
    BY <1>1, <1>3 DEF Last
  <1> QED BY <1>2, <1>3

\* The tail with one more event at its end, before it is cut.
LEMMA AppendedTail ==
  ASSUME TypeInv, NEW x \in Nat
  PROVE  LET t == Append(tail, x) IN
         /\ t \in Seq(Nat) /\ Len(t) = Len(tail) + 1 /\ Len(tail) \in Nat
         /\ t[Len(tail) + 1] = x /\ \A i \in 1 .. Len(tail) : t[i] = tail[i]
  BY Appending, LenProperties DEF TypeInv

\* An emitted envelope enters the tail, and only a full tail loses its oldest.
LEMMA TailAdvances ==
  ASSUME TypeInv, TailInv, EmitEnvelope
  PROVE  TailInv' /\ tail' \in Seq(Nat)
  <1> DEFINE n == Emitted
             t == Append(tail, n + 1)
             off == IF Len(t) > TailMax THEN Len(t) - TailMax ELSE 0
  <1>1. n \in Nat /\ DOMAIN kinds = 1 .. n /\ kinds \in Seq(Kinds)
    BY LenProperties DEF TypeInv, Emitted
  <1>2. kinds' = Append(kinds, "envelope") /\ "envelope" \in Kinds
    BY DEF EmitEnvelope, Kinds
  <1>3. /\ Emitted' = n + 1 /\ kinds'[n + 1] = "envelope"
        /\ \A e \in 1 .. n : kinds'[e] = kinds[e]
    BY <1>1, <1>2, AppendProperties DEF Emitted
  <1>4. /\ t \in Seq(Nat) /\ Len(t) = Len(tail) + 1 /\ Len(tail) \in Nat
        /\ t[Len(tail) + 1] = n + 1 /\ \A i \in 1 .. Len(tail) : t[i] = tail[i]
    BY <1>1, AppendedTail
  <1>5. tail' = Last(t, TailMax) /\ TailMax \in Nat
    BY FanoutAssumption DEF EmitEnvelope
  <1> HIDE DEF n, t
  <1>6. /\ tail' \in Seq(Nat) /\ off \in Nat /\ Len(tail') = Len(t) - off
        /\ \A i \in 1 .. Len(t) - off : tail'[i] = t[i + off]
    BY <1>4, <1>5, LastOf
  <1>7. \A i, j \in 1 .. Len(t) : i < j => t[i] < t[j]
    <2> SUFFICES ASSUME NEW i \in 1 .. Len(t), NEW j \in 1 .. Len(t), i < j
                 PROVE  t[i] < t[j]
      OBVIOUS
    <2>1. i \in 1 .. Len(tail) /\ t[i] = tail[i] /\ tail[i] \in 1 .. n
      BY <1>4 DEF TailInv, n
    <2>2. CASE j = Len(tail) + 1
      BY <1>1, <1>4, <2>1, <2>2
    <2>3. CASE j # Len(tail) + 1
      <3>1. j \in 1 .. Len(tail) /\ t[j] = tail[j]
        BY <1>4, <2>3
      <3> QED BY <2>1, <3>1 DEF TailInv, Rising
    <2> QED BY <2>2, <2>3
  <1>8. Len(tail) <= TailMax
    BY DEF TailInv
  <1>9. Len(tail') <= TailMax /\ (off # 0 => Len(tail') = TailMax /\ off = 1)
    BY <1>4, <1>5, <1>6, <1>8
  <1>10. off \in {0, 1} /\ Len(tail') = Len(tail) + 1 - off
    BY <1>4, <1>6, <1>9
  <1> HIDE DEF off
  <1>11. \A i \in 1 .. Len(t) : t[i] \in 1 .. n + 1 /\ kinds'[t[i]] = "envelope"
    BY SMTT(30), <1>1, <1>3, <1>4 DEF TailInv, n
  <1>12. \A i \in 1 .. Len(tail') : tail'[i] \in 1 .. Emitted' /\ kinds'[tail'[i]] = "envelope"
    BY <1>3, <1>4, <1>6, <1>10, <1>11
  <1>13. Rising(tail', 1, Len(tail'))
    BY <1>4, <1>6, <1>7, <1>10 DEF Rising
  <1>14. ASSUME NEW e \in 1 .. Emitted', kinds'[e] = "envelope"
         PROVE  \/ \E i \in 1 .. Len(tail') : tail'[i] = e
                \/ Len(tail') = TailMax /\ \A i \in 1 .. Len(tail') : e < tail'[i]
    <2>1. CASE \E i \in 1 .. Len(t) : t[i] = e
      <3>1. PICK i \in 1 .. Len(t) : t[i] = e
        BY <2>1
      <3>2. CASE i > off
        <4>1. i - off \in 1 .. Len(tail') /\ tail'[i - off] = t[i - off + off]
          BY <1>4, <1>6, <1>10, <3>2
        <4>2. i - off + off = i
          BY <1>10
        <4> QED BY <3>1, <4>1, <4>2
      <3>3. CASE ~(i > off)
        <4>1. off = 1 /\ i = 1 /\ Len(tail') = TailMax
          BY <1>9, <1>10, <3>3
        <4>2. \A k \in 1 .. Len(tail') : tail'[k] = t[k + 1] /\ t[1] < t[k + 1]
          BY <1>4, <1>6, <1>7, <1>10, <4>1
        <4> QED BY <3>1, <4>1, <4>2
      <3> QED BY <3>2, <3>3
    <2>2. CASE ~\E i \in 1 .. Len(t) : t[i] = e
      <3>1. e # n + 1 /\ e \in 1 .. n
        BY <1>1, <1>3, <1>4, <2>2
      <3>2. ~\E i \in 1 .. Len(tail) : tail[i] = e
        BY <1>4, <2>2
      <3>3. kinds[e] = "envelope"
        BY <1>3, <1>14, <3>1
      <3>4. Len(tail) = TailMax /\ \A i \in 1 .. Len(tail) : e < tail[i]
        BY <3>1, <3>2, <3>3 DEF TailInv, n
      <3>5. \A i \in 1 .. Len(t) : e < t[i]
        <4> SUFFICES ASSUME NEW i \in 1 .. Len(t) PROVE e < t[i]
          OBVIOUS
        <4>1. CASE i = Len(tail) + 1
          BY <1>1, <1>4, <3>1, <4>1
        <4>2. CASE i # Len(tail) + 1
          <5>1. i \in 1 .. Len(tail) /\ t[i] = tail[i]
            BY <1>4, <4>2
          <5> QED BY <3>4, <5>1
        <4> QED BY <4>1, <4>2
      <3>6. off = 1
        BY <1>4, <1>5, <3>4 DEF off
      <3>7. Len(tail') = TailMax
        BY <1>10, <3>4, <3>6
      <3> QED BY <1>4, <1>6, <1>10, <3>5, <3>7
    <2> QED BY <2>1, <2>2
  <1>15. flavour' = flavour
    BY DEF EmitEnvelope
  <1>16. flavour' = "hub" => \A e \in 1 .. Emitted' : kinds'[e] = "envelope"
    BY <1>1, <1>3, <1>15 DEF TailInv, n
  <1>17. TailInv'
    BY <1>9, <1>12, <1>13, <1>14, <1>16 DEF TailInv, Rising
  <1> QED BY <1>6, <1>17

-----------------------------------------------------------------------------
(* The lines                                                                *)

\* A step that leaves a client's line and history alone leaves what is said
\* of them.
LEMMA LineKept ==
  ASSUME NEW c \in Clients, LineInv(c, Line(c)), Line(c)' = Line(c),
         UNCHANGED <<flavour, kinds>>, joined'[c] = joined[c],
         copied'[c] = copied[c], resumed'[c] = resumed[c], lossy'[c] = lossy[c],
         stage'[c] = "greeting" <=> stage[c] = "greeting"
  PROVE  LineInv(c, Line(c))'
  <1> DEFINE line == Line(c)
  <1>1. Emitted' = Emitted
    BY DEF Emitted
  <1>2. PICK s \in 0 .. Len(line) : Parted(c, line, s)
    BY DEF LineInv
  <1>3. Line(c)' = line
    OBVIOUS
  <1> HIDE DEF line
  <1>4. ASSUME NEW e PROVE Overrun(c, e)' <=> Overrun(c, e)
    BY DEF Overrun
  <1>5. Parted(c, Line(c), s)'
    BY <1>2, <1>3, <1>4 DEF Parted, Rising
  <1>6. lossy[c] \/ Complete(c, line)
    BY DEF LineInv, line
  <1>7. lossy'[c] \/ Complete(c, Line(c))'
    BY <1>1, <1>3, <1>6 DEF Complete
  <1>8. \A i \in 1 .. Len(line) : line[i] \in 1 .. Emitted /\ line[i] > resumed[c]
    BY DEF LineInv, line
  <1> QED BY <1>1, <1>3, <1>5, <1>7, <1>8 DEF LineInv

\* Whether the tail had lost an event at the copy is settled at the copy.
LEMMA OverrunSettled ==
  ASSUME TypeInv, NEW c \in Clients, copied[c] <= Emitted, NEW k \in Kinds,
         kinds' = Append(kinds, k), UNCHANGED <<joined, copied>>, NEW e \in Nat
  PROVE  Overrun(c, e)' <=> Overrun(c, e)
  <1>1. kinds \in Seq(Kinds) /\ copied[c] \in Nat
    BY DEF TypeInv
  <1>2. \A i \in 1 .. Len(kinds) : kinds'[i] = kinds[i]
    BY <1>1, AppendProperties
  <1>3. Len(kinds) \in Nat
    BY <1>1, LenProperties
  <1>4. \A i \in e + 1 .. copied[c] : kinds'[i] = kinds[i]
    BY <1>1, <1>2, <1>3 DEF Emitted
  <1>5. {i \in e + 1 .. copied'[c] : kinds'[i] = "envelope"}
           = {i \in e + 1 .. copied[c] : kinds[i] = "envelope"}
    BY <1>4
  <1> QED BY <1>5 DEF Overrun

\* An event comes at the end of the line of every client that has room.
LEMMA LineEmitted ==
  ASSUME TypeInv, NEW c \in Clients, stage[c] # "out", StageInv(c),
         LineInv(c, Line(c)), NEW k \in Kinds, kinds' = Append(kinds, k),
         Offer(Emitted + 1),
         UNCHANGED <<flavour, stage, todo, inhand, got, joined, copied, resumed>>
  PROVE  LineInv(c, Line(c))'
  <1> DEFINE n == Emitted
             line == Line(c)
  <1>1. n \in Nat /\ Emitted' = n + 1 /\ kinds'[n + 1] = k
        /\ \A e \in 1 .. n : kinds'[e] = kinds[e]
    BY AppendProperties, LenProperties DEF TypeInv, Emitted
  <1>2. /\ line \in Seq(Nat) /\ Len(line) \in Nat
        /\ \A i \in 1 .. Len(line) : line[i] \in 1 .. n /\ line[i] > resumed[c]
    BY LineType DEF LineInv
  <1>3. /\ joined[c] \in Nat /\ copied[c] \in Nat /\ resumed[c] \in Nat
        /\ joined[c] <= copied[c] /\ copied[c] <= n /\ resumed[c] <= joined[c]
    BY DEF TypeInv, StageInv
  <1>4. PICK s \in 0 .. Len(line) : Parted(c, line, s)
    BY DEF LineInv
  <1>5. lossy[c] \/ Complete(c, line)
    BY DEF LineInv
  <1>6. ASSUME NEW e \in Nat PROVE Overrun(c, e)' <=> Overrun(c, e)
    BY <1>3, OverrunSettled
  <1>7. \/ /\ queue'[c] = queue[c] /\ lossy'[c]
        \/ /\ queue'[c] = Append(queue[c], n + 1) /\ lossy'[c] = lossy[c]
    BY DEF Offer, Subscribed, TypeInv
  <1>8. CASE queue'[c] = queue[c] /\ lossy'[c]
    <2>1. Line(c)' = line
      BY <1>8 DEF Line
    <2> HIDE DEF n, line
    <2>2. ASSUME NEW i \in 1 .. s
          PROVE  kinds'[line[i]] = "envelope" /\ line[i] <= copied'[c]
      <3>1. i \in 1 .. Len(line)
        BY <1>2, <1>4
      <3>2. kinds'[line[i]] = kinds[line[i]]
        BY <1>1, <1>2, <3>1
      <3> QED BY <1>4, <3>2 DEF Parted
    <2>3. ASSUME NEW e \in joined[c] + 1 .. copied[c]
          PROVE  e \in Nat /\ kinds'[e] = kinds[e]
      <3>1. e \in 1 .. n /\ e \in Nat
        BY <1>1, <1>3
      <3>2. kinds'[e] = kinds[e]
        BY <1>1, <3>1
      <3> QED BY <3>1, <3>2
    <2>4. Parted(c, Line(c), s)'
      BY <1>4, <1>6, <2>1, <2>2, <2>3 DEF Parted, Rising
    <2>5. \A i \in 1 .. Len(line) : line[i] \in 1 .. n + 1 /\ line[i] > resumed'[c]
      BY <1>1, <1>2
    <2> QED BY <1>1, <1>4, <1>8, <2>1, <2>4, <2>5 DEF LineInv
  <1>9. CASE queue'[c] = Append(queue[c], n + 1) /\ lossy'[c] = lossy[c]
    <2> DEFINE new == Append(line, n + 1)
    <2>1. Line(c)' = new
      BY <1>1, <1>9, LineGrows
    <2>2. /\ new \in Seq(Nat) /\ Len(new) = Len(line) + 1 /\ new[Len(line) + 1] = n + 1
          /\ \A i \in 1 .. Len(line) : new[i] = line[i]
      BY <1>1, <1>2, Appending
    <2> HIDE DEF n, line, new
    <2>f. 0 <= s /\ s <= Len(line) /\ s \in Int /\ Len(line) \in Int
      BY <1>2
    <2>g. s \in 0 .. Len(new)
      BY <2>2, <2>f
    <2>3. s \in 0 .. Len(new) /\ \A i \in 1 .. s : new[i] = line[i]
      BY SMTT(30), <2>2, <2>f, <2>g
    <2>e. \A i \in 1 .. Len(new) :
             i = Len(line) + 1 \/ (i \in 1 .. Len(line) /\ new[i] = line[i])
      BY <1>2, <2>2
    <2>4. ASSUME NEW i \in 1 .. Len(new)
          PROVE  new[i] \in 1 .. n + 1 /\ new[i] > resumed[c]
      <3>1. CASE i = Len(line) + 1
        BY SMTT(30), <1>1, <1>3, <2>2, <3>1
      <3>2. CASE i \in 1 .. Len(line) /\ new[i] = line[i]
        BY <1>1, <1>2, <3>2
      <3> QED BY <2>e, <3>1, <3>2
    <2>5. ASSUME NEW i \in 1 .. s
          PROVE  kinds'[new[i]] = "envelope" /\ new[i] <= copied[c]
      <3>1. i \in 1 .. Len(line) /\ new[i] = line[i]
        BY <1>2, <1>4, <2>3
      <3>2. kinds'[line[i]] = kinds[line[i]]
        BY <1>1, <1>2, <3>1
      <3> QED BY <1>4, <3>1, <3>2 DEF Parted
    <2>6. Rising(new, 1, s)
      BY <1>4, <2>3 DEF Parted, Rising
    <2>7. Rising(new, s + 1, Len(new))
      <3> SUFFICES ASSUME NEW i \in s + 1 .. Len(new), NEW j \in s + 1 .. Len(new), i < j
                   PROVE  new[i] < new[j]
        BY DEF Rising
      <3>1. i \in 1 .. Len(line) /\ i \in s + 1 .. Len(line) /\ new[i] = line[i]
        BY SMTT(30), <1>2, <2>2
      <3>2. CASE j = Len(line) + 1
        BY <1>1, <1>2, <2>2, <3>1, <3>2
      <3>3. CASE j # Len(line) + 1
        <4>1. j \in 1 .. Len(line) /\ j \in s + 1 .. Len(line) /\ new[j] = line[j]
          <5>1. j \in 1 .. Len(new)
            BY <1>4, <1>2, <2>2
          <5> QED BY <1>2, <1>4, <2>2, <2>e, <3>3, <5>1
        <4> QED BY <1>4, <3>1, <4>1 DEF Parted, Rising
      <3> QED BY <3>2, <3>3
    <2>8. \A i \in s + 1 .. Len(new) : new[i] > joined[c]
      <3> SUFFICES ASSUME NEW i \in s + 1 .. Len(new) PROVE new[i] > joined[c]
        OBVIOUS
      <3>1. CASE i = Len(line) + 1
        BY <1>1, <1>3, <2>2, <3>1
      <3>2. CASE i # Len(line) + 1
        <4>1. i \in 1 .. Len(line) /\ i \in s + 1 .. Len(line) /\ new[i] = line[i]
          BY SMTT(30), <1>2, <2>2, <3>2
        <4> QED BY <1>4, <4>1 DEF Parted
      <3> QED BY <3>1, <3>2
    <2>9. ASSUME NEW e \in joined[c] + 1 .. copied[c]
          PROVE  e \in Nat /\ kinds'[e] = kinds[e]
      <3>1. e \in 1 .. n /\ e \in Nat
        BY <1>1, <1>3
      <3>2. kinds'[e] = kinds[e]
        BY <1>1, <3>1
      <3> QED BY <3>1, <3>2
    <2>10. Parted(c, Line(c), s)'
      <3>1. \A i \in 1 .. s : kinds'[new[i]] = "envelope" /\ new[i] <= copied'[c]
        BY <2>5
      <3>2. stage'[c] = "greeting" => s = 0
        BY <1>4 DEF Parted
      <3>3. ASSUME stage'[c] # "greeting", NEW e \in joined[c] + 1 .. copied[c],
                   kinds'[e] = "envelope"
            PROVE  (\E i \in 1 .. s : new[i] = e) \/ Overrun(c, e)'
        <4>1. kinds[e] = "envelope" /\ e \in Nat
          BY <2>9, <3>3
        <4>2. (\E i \in 1 .. s : line[i] = e) \/ Overrun(c, e)
          BY <1>4, <3>3, <4>1 DEF Parted
        <4> QED BY <1>6, <2>3, <4>1, <4>2
      <3> QED BY <2>1, <2>6, <2>7, <2>8, <3>1, <3>2, <3>3 DEF Parted, Rising
    <2>11. ASSUME Complete(c, line), NEW e \in 1 .. n + 1
           PROVE  \/ \E i \in 1 .. Len(new) : new[i] = e
                  \/ /\ e <= joined[c]
                     /\ resumed[c] = 0 \/ e <= resumed[c]
                     /\ kinds'[e] = "envelope" => \A i \in 1 .. Len(new) : new[i] > e
      <3>1. CASE e = n + 1
        <4>1. Len(line) + 1 \in 1 .. Len(new)
          BY <1>2, <2>2
        <4> QED BY <2>2, <3>1, <4>1
      <3>2. CASE e # n + 1
        <4>1. e \in 1 .. n /\ kinds'[e] = kinds[e]
          <5>1. e \in 1 .. n
            BY <1>1, <2>11, <3>2
          <5> QED BY <1>1, <5>1
        <4>2. CASE \E i \in 1 .. Len(line) : line[i] = e
          BY <1>2, <2>2, <4>2
        <4>3. CASE /\ e <= joined[c]
                   /\ resumed[c] = 0 \/ e <= resumed[c]
                   /\ kinds[e] = "envelope" => \A i \in 1 .. Len(line) : line[i] > e
          <5>1. ASSUME kinds'[e] = "envelope", NEW i \in 1 .. Len(new) PROVE new[i] > e
            <6>1. CASE i = Len(line) + 1
              BY <1>1, <2>2, <4>1, <6>1
            <6>2. CASE i # Len(line) + 1
              <7>1. i \in 1 .. Len(line) /\ new[i] = line[i]
                BY <1>2, <2>2, <6>2
              <7> QED BY <4>1, <4>3, <5>1, <7>1
            <6> QED BY <6>1, <6>2
          <5> QED BY <4>3, <5>1
        <4> QED BY <2>11, <4>1, <4>2, <4>3 DEF Complete, n
      <3> QED BY <3>1, <3>2
    <2>12. lossy'[c] \/ Complete(c, Line(c))'
      BY <1>1, <1>5, <1>9, <2>1, <2>11 DEF Complete
    <2> QED BY <1>1, <2>1, <2>3, <2>4, <2>10, <2>12 DEF LineInv
  <1> QED BY <1>7, <1>8, <1>9

\* The admin stream begins with an empty line.
LEMMA LineBegun ==
  ASSUME TypeInv, NEW c \in Clients, StageInv(c), AdminConnect(c)
  PROVE  LineInv(c, Line(c))'
  <1>1. /\ stage'[c] = "greeting" /\ todo'[c] = <<>> /\ queue'[c] = queue[c]
        /\ got'[c] = got[c] /\ inhand'[c] = inhand[c] /\ kinds' = kinds
        /\ joined'[c] = Emitted /\ resumed'[c] = 0 /\ stage[c] = "out"
    BY DEF AdminConnect, Subscribe, TypeInv
  <1>2. got[c] = <<>> /\ inhand[c] = <<>> /\ queue[c] = <<>>
    BY <1>1 DEF StageInv
  <1>3. <<>> \in Seq(Nat) /\ Len(<<>>) = 0 /\ <<>> \o <<>> = <<>>
    BY EmptySeq, ConcatEmptySeq
  <1>4. Line(c)' = <<>>
    BY <1>1, <1>2, <1>3 DEF Line
  <1>5. Emitted' = Emitted /\ Emitted \in Nat
    BY <1>1, LenProperties DEF Emitted, TypeInv
  <1>6. 0 \in 0 .. Len(Line(c)') /\ Parted(c, Line(c), 0)'
    BY <1>1, <1>3, <1>4 DEF Parted, Rising
  <1>7. Complete(c, Line(c))'
    BY <1>1, <1>3, <1>4, <1>5 DEF Complete
  <1> QED BY <1>3, <1>4, <1>6, <1>7 DEF LineInv

\* An envelope that is older than all of a full tail has been overrun.
LEMMA LostIsOverrun ==
  ASSUME TypeInv, TailInv, NEW c \in Clients, NEW e \in 1 .. Emitted,
         Len(tail) = TailMax, \A i \in 1 .. Len(tail) : e < tail[i]
  PROVE  Cardinality({k \in e + 1 .. Emitted : kinds[k] = "envelope"}) >= TailMax
  <1> DEFINE n == Emitted
             D == 1 .. Len(tail)
             after == {k \in e + 1 .. n : kinds[k] = "envelope"}
             place == [i \in D |-> tail[i]]
  <1>1. n \in Nat /\ Len(tail) \in Nat
    BY LenProperties DEF Emitted, TypeInv
  <1>2. IsFiniteSet(e + 1 .. n) /\ after \subseteq e + 1 .. n
    <2>1. e + 1 \in Int /\ n \in Int
      BY <1>1
    <2> QED BY <2>1, FS_Interval
  <1>3. IsFiniteSet(after)
    BY <1>2, FS_Subset
  <1>4. \A i \in D : tail[i] \in after
    <2> SUFFICES ASSUME NEW i \in D PROVE tail[i] \in after
      OBVIOUS
    <2>1. tail[i] \in 1 .. n /\ kinds[tail[i]] = "envelope" /\ e < tail[i]
      BY DEF TailInv
    <2>2. tail[i] \in e + 1 .. n
      BY <1>1, <2>1
    <2> QED BY <2>1, <2>2
  <1>5. \A i, j \in D : tail[i] = tail[j] => i = j
    <2> SUFFICES ASSUME NEW i \in D, NEW j \in D, tail[i] = tail[j] PROVE i = j
      OBVIOUS
    <2>1. tail[i] \in 1 .. n /\ (i < j => tail[i] < tail[j]) /\ (j < i => tail[j] < tail[i])
      BY DEF TailInv, Rising
    <2>2. ~(i < j) /\ ~(j < i)
      BY <1>1, <2>1
    <2> QED BY <1>1, <2>2
  <1>6. place \in Injection(D, after)
    BY <1>4, <1>5 DEF Injection, IsInjective
  <1>7. Cardinality(D) <= Cardinality(after)
    BY <1>3, <1>6, FS_Injection
  <1>8. Cardinality(D) = Len(tail)
    BY <1>1, FS_Interval
  <1>9. Cardinality(after) \in Nat
    BY <1>3, FS_CardinalityType
  <1> QED BY <1>1, <1>7, <1>8, <1>9

\* The copy of the tail goes before what the queue has meanwhile.
LEMMA LineCopied ==
  ASSUME TypeInv, TailInv, NEW c \in Clients, StageInv(c), LineInv(c, Line(c)),
         AdminSnapshot(c)
  PROVE  LineInv(c, Line(c))'
  <1> DEFINE n == Emitted
             q == queue[c]
             new == tail \o q
  <1>s. PICK s : s = Len(tail)
    OBVIOUS
  <1>1. /\ stage[c] = "greeting" /\ stage'[c] = "replaying" /\ todo'[c] = tail
        /\ copied'[c] = n /\ flavour = "admin"
        /\ UNCHANGED <<flavour, kinds, tail, queue, inhand, got, joined, resumed, lossy>>
    BY DEF AdminSnapshot, TypeInv
  <1>2. got[c] = <<>> /\ inhand[c] = <<>> /\ todo[c] = <<>> /\ resumed[c] = 0
    BY <1>1 DEF StageInv
  <1>3. /\ q \in Seq(Nat) /\ tail \in Seq(Nat) /\ <<>> \in Seq(Nat)
        /\ \A u \in Seq(Nat) : <<>> \o u = u
    BY EmptySeq, ConcatEmptySeq DEF TypeInv
  <1>4. Line(c) = q /\ Line(c)' = new
    BY <1>1, <1>2, <1>3 DEF Line
  <1>5. /\ n \in Nat /\ s \in Nat /\ Len(q) \in Nat /\ Emitted' = n
        /\ joined[c] \in Nat /\ joined[c] <= n
    <2>1. joined[c] \in Nat /\ copied[c] \in Nat /\ joined[c] <= copied[c] /\ copied[c] <= n
      BY DEF StageInv, TypeInv
    <2>2. n \in Nat /\ s \in Nat /\ Len(q) \in Nat /\ Emitted' = n
      BY <1>1, <1>3, LenProperties, <1>s DEF TypeInv, Emitted
    <2> QED BY <2>1, <2>2
  <1>6. /\ new \in Seq(Nat) /\ Len(new) = s + Len(q)
        /\ \A i \in 1 .. s + Len(q) : new[i] = IF i <= s THEN tail[i] ELSE q[i - s]
    BY <1>3, <1>s, Concat
  <1>7. Parted(c, q, 0)
    <2>1. PICK z \in 0 .. Len(q) : Parted(c, q, z)
      BY <1>4 DEF LineInv
    <2> QED BY <1>1, <2>1 DEF Parted
  <1>8. \A i \in 1 .. Len(q) : q[i] \in 1 .. n
    BY <1>4 DEF LineInv
  <1>9. lossy[c] \/ Complete(c, q)
    BY <1>4 DEF LineInv
  <1> HIDE DEF n, q, new
  <1>10. \A i \in 1 .. s : new[i] = tail[i]
    BY <1>5, <1>6
  <1>11. ASSUME NEW i \in 1 .. Len(q) PROVE new[i + s] = q[i] /\ i + s \in 1 .. Len(new)
    <2>1. i + s \in 1 .. s + Len(q) /\ ~(i + s <= s) /\ i + s - s = i
      BY <1>5
    <2> QED BY <1>5, <1>6, <2>1
  <1>12. ASSUME NEW i \in 1 .. Len(new)
         PROVE  \/ i \in 1 .. s /\ new[i] = tail[i]
                \/ i - s \in 1 .. Len(q) /\ new[i] = q[i - s]
    <2>1. CASE i <= s
      BY <1>5, <1>6, <2>1
    <2>2. CASE ~(i <= s)
      BY <1>5, <1>6, <2>2
    <2> QED BY <2>1, <2>2
  <1>13. \A i \in 1 .. s : tail[i] \in 1 .. n /\ kinds[tail[i]] = "envelope"
    BY <1>s DEF TailInv, n
  <1>14. \A i \in 1 .. Len(new) : new[i] \in 1 .. n /\ new[i] > 0
    BY SMTT(30), <1>5, <1>8, <1>12, <1>13
  <1>15. Rising(new, 1, s)
    BY <1>10, <1>s DEF TailInv, Rising
  <1>16. Rising(new, s + 1, Len(new))
    <2> SUFFICES ASSUME NEW i \in s + 1 .. Len(new), NEW j \in s + 1 .. Len(new), i < j
                 PROVE  new[i] < new[j]
      BY DEF Rising
    <2>1. ASSUME NEW k \in s + 1 .. Len(new)
          PROVE  k - s \in 0 + 1 .. Len(q) /\ new[k] = q[k - s]
      BY <1>5, <1>6, <1>12
    <2>2. i - s < j - s
      BY <1>5
    <2>3. q[i - s] < q[j - s]
      BY <1>7, <2>1, <2>2 DEF Parted, Rising
    <2> QED BY <2>1, <2>3
  <1>17. ASSUME NEW i \in s + 1 .. Len(new) PROVE new[i] > joined[c]
    <2>1. i - s \in 0 + 1 .. Len(q) /\ new[i] = q[i - s]
      BY SMTT(30), <1>5, <1>6, <1>12
    <2> QED BY <1>7, <2>1 DEF Parted
  <1>18. ASSUME NEW i \in 1 .. s PROVE kinds[new[i]] = "envelope" /\ new[i] <= n
    BY <1>5, <1>10, <1>13
  <1>19. ASSUME NEW e \in joined[c] + 1 .. n, kinds[e] = "envelope"
         PROVE  (\E k \in 1 .. s : new[k] = e) \/ Overrun(c, e)'
    <2>1. e \in 1 .. n /\ e > joined[c]
      BY <1>5
    <2>2. CASE \E i \in 1 .. s : tail[i] = e
      BY <1>10, <2>2
    <2>3. CASE ~\E i \in 1 .. s : tail[i] = e
      <3>1. Len(tail) = TailMax /\ \A i \in 1 .. Len(tail) : e < tail[i]
        BY <1>19, <1>s, <2>1, <2>3 DEF TailInv, n
      <3>2. Cardinality({k \in e + 1 .. n : kinds[k] = "envelope"}) >= TailMax
        BY <2>1, <3>1, LostIsOverrun DEF n
      <3> QED BY <1>1, <2>1, <3>2 DEF Overrun, n
    <2> QED BY <2>2, <2>3
  <1>20. Parted(c, Line(c), s)'
    <2>1. copied'[c] = n /\ joined'[c] = joined[c] /\ kinds' = kinds
      BY <1>1 DEF n
    <2>2. \A i \in 1 .. s : kinds'[new[i]] = "envelope" /\ new[i] <= copied'[c]
      BY <1>18, <2>1
    <2>3. \A i \in s + 1 .. Len(new) : new[i] > joined'[c]
      BY <1>17, <2>1
    <2>4. \A e \in joined'[c] + 1 .. copied'[c] : kinds'[e] = "envelope" =>
             (\E k \in 1 .. s : new[k] = e) \/ Overrun(c, e)'
      BY <1>19, <2>1
    <2> QED BY <1>1, <1>4, <1>15, <1>16, <2>2, <2>3, <2>4 DEF Parted, Rising
  <1>21. ASSUME Complete(c, q), NEW e \in 1 .. n
         PROVE  \/ \E i \in 1 .. Len(new) : new[i] = e
                \/ /\ e <= joined[c]
                   /\ kinds[e] = "envelope" => \A i \in 1 .. Len(new) : new[i] > e
    <2>1. CASE \E i \in 1 .. Len(q) : q[i] = e
      BY <1>11, <2>1
    <2>2. CASE \E i \in 1 .. s : tail[i] = e
      <3>1. PICK i \in 1 .. s : tail[i] = e
        BY <2>2
      <3>2. i \in 1 .. Len(new)
        BY <1>5, <1>6
      <3> QED BY <1>10, <3>1, <3>2
    <2>3. CASE ~(\E i \in 1 .. Len(q) : q[i] = e) /\ ~(\E i \in 1 .. s : tail[i] = e)
      <3>1. /\ e <= joined[c]
            /\ kinds[e] = "envelope" => \A i \in 1 .. Len(q) : q[i] > e
        BY <1>21, <2>3 DEF Complete, n
      <3>2. kinds[e] = "envelope" => \A i \in 1 .. s : e < tail[i]
        BY <1>s, <2>3 DEF TailInv, n
      <3>3. ASSUME kinds[e] = "envelope", NEW i \in 1 .. Len(new) PROVE new[i] > e
        <4>1. CASE i \in 1 .. s /\ new[i] = tail[i]
          BY <1>13, <3>2, <3>3, <4>1
        <4>2. CASE i - s \in 1 .. Len(q) /\ new[i] = q[i - s]
          BY <3>1, <3>3, <4>2
        <4> QED BY <1>12, <4>1, <4>2
      <3> QED BY <3>1, <3>3
    <2> QED BY <2>1, <2>2, <2>3
  <1>22. lossy'[c] \/ Complete(c, Line(c))'
    BY <1>1, <1>2, <1>4, <1>5, <1>9, <1>21 DEF Complete
  <1>23. s \in 0 .. Len(new)
    BY <1>5, <1>6
  <1> QED BY <1>1, <1>2, <1>4, <1>5, <1>14, <1>20, <1>22, <1>23 DEF LineInv

\* What is replayed is the end of the tail: all of it, what follows the id that
\* was found, or nothing.
LEMMA ReplayedIs ==
  ASSUME TypeInv, TailInv, NEW id \in 0 .. Emitted
  PROVE  \E off \in 0 .. Len(tail) :
            /\ Replayed(id) \in Seq(Nat) /\ Len(Replayed(id)) = Len(tail) - off
            /\ \A i \in 1 .. Len(tail) - off : Replayed(id)[i] = tail[i + off]
            /\ id \in Range(tail) => off \in 1 .. Len(tail) /\ tail[off] = id
            /\ id \notin Range(tail) => off = 0 \/ off = Len(tail)
  <1>1. tail \in Seq(Nat) /\ Len(tail) \in Nat /\ \A i \in 1 .. Len(tail) : tail[i] \in Nat
    BY LenProperties, ElementOfSeq DEF TypeInv
  <1>2. id \in Range(tail) <=> \E i \in 1 .. Len(tail) : tail[i] = id
    BY <1>1, RangeByPlace
  <1>3. CASE id = 0
    <2>1. id \notin Range(tail)
      BY <1>2, <1>3 DEF TailInv
    <2>2. Replayed(id) = tail
      BY <1>3 DEF Replayed
    <2>3. 0 \in 0 .. Len(tail) /\ Len(tail) - 0 = Len(tail)
          /\ \A i \in 1 .. Len(tail) : i + 0 = i
      BY <1>1
    <2> QED BY <1>1, <2>1, <2>2, <2>3
  <1>4. CASE id # 0 /\ id \notin Range(tail)
    <2>1. Replayed(id) = <<>> /\ <<>> \in Seq(Nat) /\ Len(<<>>) = 0
      BY <1>4, EmptySeq DEF Replayed
    <2>2. Len(tail) \in 0 .. Len(tail) /\ Len(tail) - Len(tail) = 0
      BY <1>1
    <2> QED BY <1>4, <2>1, <2>2
  <1>5. CASE id # 0 /\ id \in Range(tail)
    <2>0. \E i \in 1 .. Len(tail) : tail[i] = id
      BY <1>2, <1>5
    <2>1. Position(id) \in 1 .. Len(tail) /\ tail[Position(id)] = id
      BY <2>0 DEF Position
    <2>2. PICK p : p = Position(id)
      OBVIOUS
    <2>3. Replayed(id) = SubSeq(tail, p + 1, Len(tail))
      BY <1>5, <2>2 DEF Replayed
    <2>4. /\ p + 1 \in Int /\ Len(tail) \in Int /\ p \in 0 .. Len(tail)
          /\ \A i \in p + 1 .. Len(tail) : tail[i] \in Nat
      BY <1>1, <2>1, <2>2
    <2>5. /\ Replayed(id) \in Seq(Nat)
          /\ Len(Replayed(id)) = IF p + 1 <= Len(tail) THEN Len(tail) - (p + 1) + 1 ELSE 0
          /\ \A i \in 1 .. Len(tail) - (p + 1) + 1 : Replayed(id)[i] = tail[p + 1 + i - 1]
      BY <2>3, <2>4, SubSeqProperties
    <2>6. Len(Replayed(id)) = Len(tail) - p
      BY <1>1, <2>4, <2>5
    <2>7. ASSUME NEW i \in 1 .. Len(tail) - p PROVE Replayed(id)[i] = tail[i + p]
      <3>1. i \in 1 .. Len(tail) - (p + 1) + 1 /\ p + 1 + i - 1 = i + p
        BY <1>1, <2>4
      <3> QED BY <2>5, <3>1
    <2> QED BY <1>5, <2>1, <2>2, <2>4, <2>5, <2>6, <2>7
  <1> QED BY <1>3, <1>4, <1>5

\* The hub's line begins with what is replayed.
LEMMA LineResumed ==
  ASSUME TypeInv, TailInv, NEW c \in Clients, StageInv(c),
         NEW id \in 0 .. Emitted, HubConnect(c, id)
  PROVE  LineInv(c, Line(c))' /\ Replayed(id) \in Seq(Nat)
  <1> DEFINE found == IF id \in Range(tail) THEN id ELSE 0
             n == Emitted
             r == Replayed(id)
  <1>1. /\ stage'[c] = "replaying" /\ todo'[c] = r /\ queue'[c] = queue[c]
        /\ got'[c] = got[c] /\ inhand'[c] = inhand[c] /\ kinds' = kinds
        /\ joined'[c] = n /\ copied'[c] = n /\ resumed'[c] = found
        /\ stage[c] = "out" /\ flavour = "hub"
    BY DEF HubConnect, Subscribe, TypeInv
  <1>2. got[c] = <<>> /\ inhand[c] = <<>> /\ queue[c] = <<>>
    BY <1>1 DEF StageInv
  <1>3. PICK off \in 0 .. Len(tail) :
            /\ r \in Seq(Nat) /\ Len(r) = Len(tail) - off
            /\ \A i \in 1 .. Len(tail) - off : r[i] = tail[i + off]
            /\ id \in Range(tail) => off \in 1 .. Len(tail) /\ tail[off] = id
            /\ id \notin Range(tail) => off = 0 \/ off = Len(tail)
    BY ReplayedIs
  <1>4. /\ <<>> \in Seq(Nat) /\ <<>> \o <<>> = <<>> /\ <<>> \o r = r /\ r \o <<>> = r
    BY <1>3, EmptySeq, ConcatEmptySeq
  <1>5. Line(c)' = r
    BY <1>1, <1>2, <1>4 DEF Line
  <1>6. n \in Nat /\ Emitted' = n /\ Len(tail) \in Nat
    BY <1>1, LenProperties DEF TypeInv, Emitted
  <1>7. \A i \in 1 .. Len(tail) : tail[i] \in 1 .. n /\ kinds[tail[i]] = "envelope"
    BY DEF TailInv
  <1>8. \A i, j \in 1 .. Len(tail) : i < j => tail[i] < tail[j]
    BY DEF TailInv, Rising
  <1>f. found # 0 => off \in 1 .. Len(tail) /\ tail[off] = found
    BY <1>3
  <1>g. found = 0 => off = 0 \/ off = Len(tail)
    BY <1>3, <1>7, <1>6
  <1> HIDE DEF found, n, r
  <1>9. ASSUME NEW i \in 1 .. Len(r)
        PROVE  i + off \in 1 .. Len(tail) /\ r[i] = tail[i + off] /\ off < i + off
    BY <1>3, <1>6
  <1>10. ASSUME NEW i \in 1 .. Len(r)
         PROVE  r[i] \in 1 .. n /\ r[i] > found /\ kinds[r[i]] = "envelope"
    <2>1. r[i] \in 1 .. n /\ kinds[r[i]] = "envelope"
      BY <1>7, <1>9
    <2>2. found # 0 => r[i] > found
      BY <1>7, <1>8, <1>9, <1>f, <2>1
    <2> QED BY <1>6, <2>1, <2>2
  <1>11. Rising(r, 1, Len(r))
    <2> SUFFICES ASSUME NEW i \in 1 .. Len(r), NEW j \in 1 .. Len(r), i < j PROVE r[i] < r[j]
      BY DEF Rising
    <2>1. i + off < j + off
      BY <1>3, <1>6
    <2> QED BY <1>8, <1>9, <2>1
  <1>12. PICK s : s = Len(r)
    OBVIOUS
  <1>13. s \in 0 .. Len(r) /\ s \in Nat /\ s + 1 .. Len(r) = {} /\ n + 1 .. n = {}
    BY <1>3, <1>6, <1>12
  <1>14. Parted(c, Line(c), s)'
    <2>1. Rising(r, 1, s) /\ Rising(r, s + 1, Len(r))
      BY <1>11, <1>12, <1>13 DEF Rising
    <2>2. \A i \in 1 .. s : kinds'[r[i]] = "envelope" /\ r[i] <= copied'[c]
      BY <1>1, <1>6, <1>10, <1>12 DEF n
    <2>3. joined'[c] + 1 .. copied'[c] = {}
      BY <1>1, <1>13 DEF n
    <2> QED BY <1>1, <1>5, <1>13, <2>1, <2>2, <2>3 DEF Parted, Rising
  <1>15. ASSUME NEW e \in 1 .. n
         PROVE  \/ \E i \in 1 .. Len(r) : r[i] = e
                \/ /\ e <= n
                   /\ found = 0 \/ e <= found
                   /\ \A i \in 1 .. Len(r) : r[i] > e
    <2>1. CASE \A i \in 1 .. Len(tail) : e < tail[i]
      <3>1. \A i \in 1 .. Len(r) : r[i] > e
        BY <1>9, <2>1
      <3>2. found # 0 => e <= found
        BY <1>7, <1>f, <2>1
      <3> QED BY <1>6, <3>1, <3>2
    <2>2. CASE \E k \in 1 .. Len(tail) : tail[k] = e
      <3>1. PICK k \in 1 .. Len(tail) : tail[k] = e
        BY <2>2
      <3>2. CASE k > off
        <4>1. k - off \in 1 .. Len(r) /\ k - off + off = k
          BY <1>3, <1>6, <3>2
        <4> QED BY <1>9, <3>1, <4>1
      <3>3. CASE k <= off
        <4>1. CASE found = 0
          <5>1. off = Len(tail)
            BY <1>6, <1>g, <3>1, <3>3, <4>1
          <5>2. 1 .. Len(r) = {}
            BY <1>3, <1>6, <5>1
          <5> QED BY <1>6, <4>1, <5>2
        <4>2. CASE found # 0
          <5>1. e <= found
            BY <1>7, <1>8, <1>f, <3>1, <3>3, <4>2, <1>6
          <5>2. \A i \in 1 .. Len(r) : r[i] > e
            BY <1>6, <1>7, <1>10, <1>f, <4>2, <5>1
          <5> QED BY <1>6, <5>1, <5>2
        <4> QED BY <4>1, <4>2
      <3> QED BY <1>3, <1>6, <3>2, <3>3
    <2> QED BY <1>1, <2>1, <2>2 DEF TailInv, n
  <1>16. Complete(c, Line(c))'
    BY <1>1, <1>5, <1>6, <1>15 DEF Complete, n
  <1> QED BY <1>1, <1>3, <1>5, <1>6, <1>10, <1>13, <1>14, <1>16 DEF LineInv, r

-----------------------------------------------------------------------------
(* The invariant holds                                                      *)

\* Nobody is connected and nothing was emitted at the start.
LEMMA InvInit == Init => Inv
  <1> SUFFICES ASSUME Init PROVE Inv
    OBVIOUS
  <1>1. <<>> \in Seq(Nat) /\ <<>> \in Seq(Kinds) /\ Len(<<>>) = 0
    BY EmptySeq
  <1>2. TypeInv
    BY <1>1 DEF Init, TypeInv, Stages
  <1>3. TailInv
    BY <1>1, FanoutAssumption DEF Init, TailInv, Rising, Emitted
  <1>4. \A c \in Clients : StageInv(c)
    BY <1>1, FanoutAssumption DEF Init, StageInv, Emitted
  <1>5. \A c \in Clients : stage[c] = "out"
    BY DEF Init
  <1> QED BY <1>2, <1>3, <1>4, <1>5 DEF Inv

\* What offering an event does to a queue.
LEMMA Offered ==
  ASSUME TypeInv, Offer(Emitted + 1), NEW c \in Clients, StageInv(c)
  PROVE  /\ queue' \in [Clients -> Seq(Nat)] /\ lossy' \in [Clients -> BOOLEAN]
         /\ Len(queue'[c]) <= QueueMax
         /\ stage[c] = "out" => queue'[c] = queue[c] /\ lossy'[c] = lossy[c]
  <1>1. Emitted + 1 \in Nat
    BY LenProperties DEF TypeInv, Emitted
  <1>2. ASSUME NEW d \in Clients
        PROVE  queue[d] \in Seq(Nat) /\ Append(queue[d], Emitted + 1) \in Seq(Nat)
               /\ Len(Append(queue[d], Emitted + 1)) = Len(queue[d]) + 1
               /\ Len(queue[d]) \in Nat
    <2>1. queue[d] \in Seq(Nat)
      BY DEF TypeInv
    <2> QED BY <1>1, <2>1, Appending, LenProperties
  <1>3. queue' \in [Clients -> Seq(Nat)]
    BY <1>2 DEF Offer
  <1>4. lossy' \in [Clients -> BOOLEAN]
    BY DEF Offer
  <1>5. stage[c] = "out" => queue'[c] = queue[c] /\ lossy'[c] = lossy[c]
    BY DEF Offer, Subscribed, TypeInv
  <1>6. \/ queue'[c] = queue[c]
        \/ /\ ~(Len(queue[c]) >= QueueMax)
           /\ queue'[c] = Append(queue[c], Emitted + 1)
    BY DEF Offer
  <1>7. Len(queue'[c]) <= QueueMax
    BY <1>2, <1>6, FanoutAssumption DEF StageInv
  <1> QED BY <1>3, <1>4, <1>5, <1>7

\* Emitting an event, of either kind.
LEMMA EmitKeeps ==
  ASSUME Inv, NEW k \in Kinds, kinds' = Append(kinds, k), Offer(Emitted + 1),
         UNCHANGED <<flavour, stage, todo, inhand, got, joined, copied, resumed>>,
         TailInv', tail' \in Seq(Nat)
  PROVE  Inv'
  <1>1. TypeInv /\ (\A c \in Clients : StageInv(c))
        /\ (\A c \in Clients : stage[c] # "out" => LineInv(c, Line(c)))
    BY DEF Inv
  <1>2. kinds' \in Seq(Kinds) /\ Emitted' = Emitted + 1 /\ Emitted \in Nat
    BY <1>1, AppendProperties, LenProperties DEF TypeInv, Emitted
  <1>3. TypeInv'
    <2>1. CASE Clients = {}
      <3>1. queue' = [c \in Clients |-> <<>>] /\ lossy' = [c \in Clients |-> FALSE]
        BY <2>1 DEF Offer
      <3> QED BY <1>1, <1>2, <2>1, <3>1 DEF TypeInv
    <2>2. CASE Clients # {}
      <3>1. queue' \in [Clients -> Seq(Nat)] /\ lossy' \in [Clients -> BOOLEAN]
        BY <1>1, <2>2, Offered
      <3> QED BY <1>1, <1>2, <3>1 DEF TypeInv
    <2> QED BY <2>1, <2>2
  <1>4. ASSUME NEW c \in Clients PROVE StageInv(c)'
    <2>1. StageInv(c) /\ copied[c] \in Nat
      BY <1>1 DEF TypeInv
    <2>2. /\ Len(queue'[c]) <= QueueMax
          /\ stage[c] = "out" => queue'[c] = queue[c] /\ lossy'[c] = lossy[c]
      BY <1>1, <2>1, Offered
    <2>3. copied[c] <= Emitted'
      BY <1>2, <2>1 DEF StageInv
    <2> QED BY <2>1, <2>2, <2>3 DEF StageInv
  <1>5. ASSUME NEW c \in Clients, stage'[c] # "out" PROVE LineInv(c, Line(c))'
    BY <1>1, <1>5, LineEmitted
  <1> QED BY <1>3, <1>4, <1>5 DEF Inv

\* A client's step is nothing to the others.
LEMMA OthersKept ==
  ASSUME Inv, NEW d \in Clients, UNCHANGED <<flavour, kinds>>,
         stage'[d] = stage[d], queue'[d] = queue[d], todo'[d] = todo[d],
         inhand'[d] = inhand[d], got'[d] = got[d], joined'[d] = joined[d],
         copied'[d] = copied[d], resumed'[d] = resumed[d], lossy'[d] = lossy[d]
  PROVE  StageInv(d)' /\ (stage'[d] # "out" => LineInv(d, Line(d))')
  <1>1. StageInv(d) /\ (stage[d] # "out" => LineInv(d, Line(d)))
    BY DEF Inv
  <1>2. Line(d)' = Line(d)
    BY DEF Line
  <1>3. StageInv(d)'
    BY <1>1 DEF StageInv, Emitted
  <1> QED BY <1>1, <1>2, <1>3, LineKept

\* What a client's own step has to keep.
LEMMA ClientKeeps ==
  ASSUME Inv, NEW c \in Clients, UNCHANGED <<flavour, kinds, tail>>, TypeInv',
         StageInv(c)', stage'[c] # "out" => LineInv(c, Line(c))',
         \A d \in Clients \ {c} :
            /\ stage'[d] = stage[d] /\ queue'[d] = queue[d] /\ todo'[d] = todo[d]
            /\ inhand'[d] = inhand[d] /\ got'[d] = got[d] /\ joined'[d] = joined[d]
            /\ copied'[d] = copied[d] /\ resumed'[d] = resumed[d]
            /\ lossy'[d] = lossy[d]
  PROVE  Inv'
  <1>1. TailInv'
    BY TailKept DEF Inv
  <1>2. ASSUME NEW d \in Clients
        PROVE  StageInv(d)' /\ (stage'[d] # "out" => LineInv(d, Line(d))')
    <2>1. CASE d = c
      BY <2>1
    <2>2. CASE d # c
      BY <2>2, OthersKept
    <2> QED BY <2>1, <2>2
  <1> QED BY <1>1, <1>2 DEF Inv

\* handle_admin_stream subscribes.
LEMMA ConnectKeeps ==
  ASSUME Inv, NEW c \in Clients, AdminConnect(c)
  PROVE  Inv'
  <1>1. TypeInv /\ StageInv(c)
    BY DEF Inv
  <1>2. LineInv(c, Line(c))'
    BY <1>1, LineBegun
  <1>3. <<>> \in Seq(Nat) /\ Emitted \in Nat /\ Emitted' = Emitted
    BY <1>1, EmptySeq, LenProperties DEF TypeInv, Emitted, AdminConnect, Subscribe
  <1>4. TypeInv'
    BY <1>1, <1>3 DEF TypeInv, AdminConnect, Subscribe, Stages
  <1>5. StageInv(c)'
    BY <1>1, <1>3 DEF TypeInv, StageInv, AdminConnect, Subscribe
  <1> QED BY <1>1, <1>2, <1>4, <1>5, ClientKeeps DEF AdminConnect, Subscribe, TypeInv

\* handle_admin_stream copies the tail.
LEMMA SnapshotKeeps ==
  ASSUME Inv, NEW c \in Clients, AdminSnapshot(c)
  PROVE  Inv'
  <1>1. TypeInv /\ StageInv(c) /\ TailInv /\ LineInv(c, Line(c))
    BY DEF Inv, AdminSnapshot
  <1>2. LineInv(c, Line(c))'
    BY <1>1, LineCopied
  <1>3. Emitted \in Nat /\ Emitted' = Emitted
    BY <1>1, LenProperties DEF TypeInv, Emitted, AdminSnapshot
  <1>4. TypeInv'
    BY <1>1, <1>3 DEF TypeInv, AdminSnapshot, Stages
  <1>5. StageInv(c)'
    BY <1>1, <1>3 DEF TypeInv, StageInv, AdminSnapshot
  <1> QED BY <1>1, <1>2, <1>4, <1>5, ClientKeeps DEF AdminSnapshot, TypeInv

\* serve_sse subscribes and copies its backlog.
LEMMA ResumeKeeps ==
  ASSUME Inv, NEW c \in Clients, NEW id \in 0 .. Emitted, HubConnect(c, id)
  PROVE  Inv'
  <1>1. TypeInv /\ StageInv(c) /\ TailInv
    BY DEF Inv
  <1>2. LineInv(c, Line(c))' /\ Replayed(id) \in Seq(Nat)
    BY <1>1, LineResumed
  <1>3. Emitted \in Nat /\ Emitted' = Emitted
    BY <1>1, LenProperties DEF TypeInv, Emitted, HubConnect, Subscribe
  <1> DEFINE found == IF id \in Range(tail) THEN id ELSE 0
  <1>4. found \in Nat /\ found <= Emitted
    BY <1>3
  <1>5. Subscribe(c, Replayed(id), found, "replaying") /\ flavour = "hub"
    BY DEF HubConnect
  <1> HIDE DEF found
  <1>6. TypeInv'
    BY <1>1, <1>2, <1>3, <1>4, <1>5 DEF TypeInv, Subscribe, Stages
  <1>7. StageInv(c)'
    BY <1>1, <1>3, <1>4, <1>5 DEF TypeInv, StageInv, Subscribe
  <1> QED BY <1>1, <1>2, <1>5, <1>6, <1>7, ClientKeeps DEF Subscribe, TypeInv

\* A handler writes, takes from its queue, or ends its backlog.
LEMMA WriteKeeps ==
  ASSUME Inv, NEW c \in Clients, ReplayWritten(c) \/ ReplayDone(c) \/ Take(c) \/ Written(c)
  PROVE  Inv'
  <1>1. TypeInv /\ StageInv(c) /\ (stage[c] # "out" => LineInv(c, Line(c)))
    BY DEF Inv
  <1>2. /\ UNCHANGED <<flavour, kinds, tail, joined, copied, resumed, lossy>>
        /\ stage'[c] = "greeting" <=> stage[c] = "greeting"
        /\ stage'[c] # "out" => stage[c] # "out"
    BY <1>1 DEF ReplayWritten, ReplayDone, Take, Written, history, TypeInv
  <1>3. Line(c)' = Line(c)
    <2>1. CASE ReplayDone(c)
      BY <2>1 DEF ReplayDone, Line
    <2>2. CASE ~ReplayDone(c)
      BY <1>1, <2>2, WritingKeepsLine
    <2> QED BY <2>1, <2>2
  <1>4. stage'[c] # "out" => LineInv(c, Line(c))'
    BY <1>1, <1>2, <1>3, LineKept
  <1>5. /\ got[c] \in Seq(Nat) /\ inhand[c] \in Seq(Nat)
        /\ todo[c] \in Seq(Nat) /\ queue[c] \in Seq(Nat)
        /\ Len(queue[c]) \in Nat /\ <<>> \in Seq(Nat) /\ Len(<<>>) = 0
    BY <1>1, LenProperties, EmptySeq DEF TypeInv
  <1>6. TypeInv' /\ StageInv(c)'
    <2>1. CASE ReplayWritten(c)
      <3>1. /\ Head(todo[c]) \in Nat /\ Tail(todo[c]) \in Seq(Nat)
        BY <1>5, <2>1, HeadTailProperties DEF ReplayWritten
      <3>2. Append(got[c], Head(todo[c])) \in Seq(Nat)
        BY <1>5, <3>1, Appending
      <3>3. TypeInv'
        BY <1>1, <1>2, <2>1, <3>1, <3>2 DEF TypeInv, ReplayWritten
      <3> QED BY <1>1, <2>1, <3>3 DEF TypeInv, StageInv, ReplayWritten, history, Emitted
    <2>2. CASE ReplayDone(c)
      <3>1. TypeInv'
        BY <1>1, <1>2, <2>2 DEF TypeInv, ReplayDone, Stages
      <3> QED BY <1>1, <2>2, <3>1 DEF TypeInv, StageInv, ReplayDone, history, Emitted
    <2>3. CASE Take(c)
      <3>1. /\ Tail(queue[c]) \in Seq(Nat) /\ <<Head(queue[c])>> \in Seq(Nat)
            /\ Len(Tail(queue[c])) = Len(queue[c]) - 1
        BY <1>5, <2>3, HeadTailProperties, HeadThenTail DEF Take
      <3>2. Len(<<Head(queue[c])>>) = 1
        OBVIOUS
      <3>3. TypeInv'
        BY <1>1, <1>2, <2>3, <3>1 DEF TypeInv, Take
      <3>4. Len(queue'[c]) <= QueueMax /\ Len(inhand'[c]) <= 1
        BY <1>1, <1>5, <2>3, <3>1, <3>2, FanoutAssumption DEF TypeInv, StageInv, Take
      <3> QED BY <1>1, <2>3, <3>3, <3>4 DEF TypeInv, StageInv, Take, history, Emitted
    <2>4. CASE Written(c)
      <3>1. got[c] \o inhand[c] \in Seq(Nat)
        BY <1>5, Concat
      <3>2. TypeInv'
        BY <1>1, <1>2, <1>5, <2>4, <3>1 DEF TypeInv, Written
      <3>3. /\ stage[c] = "live" /\ inhand'[c] = <<>> /\ Len(inhand'[c]) = 0
            /\ UNCHANGED <<flavour, kinds, stage, queue, todo, joined, copied, resumed, lossy>>
        BY <1>1, <1>5, <2>4 DEF TypeInv, StageInv, Written, history
      <3>4. StageInv(c)'
        BY <1>1, <3>3 DEF StageInv, Emitted
      <3> QED BY <3>2, <3>4
    <2> QED BY <2>1, <2>2, <2>3, <2>4
  <1>7. \A d \in Clients \ {c} :
            /\ stage'[d] = stage[d] /\ queue'[d] = queue[d] /\ todo'[d] = todo[d]
            /\ inhand'[d] = inhand[d] /\ got'[d] = got[d]
    BY <1>1 DEF ReplayWritten, ReplayDone, Take, Written, TypeInv
  <1> QED BY <1>2, <1>4, <1>6, <1>7, ClientKeeps

\* A connection ends.
LEMMA LeaveKeeps ==
  ASSUME Inv, NEW c \in Clients, Leave(c)
  PROVE  Inv'
  <1>1. TypeInv /\ StageInv(c)
    BY DEF Inv
  <1>2. <<>> \in Seq(Nat) /\ Len(<<>>) = 0 /\ Emitted \in Nat /\ Emitted' = Emitted
    BY <1>1, EmptySeq, LenProperties DEF TypeInv, Emitted, Leave
  <1>3. TypeInv'
    BY <1>1, <1>2 DEF TypeInv, Leave, Stages
  <1>4. StageInv(c)' /\ stage'[c] = "out"
    BY <1>1, <1>2, FanoutAssumption DEF TypeInv, StageInv, Leave
  <1> QED BY <1>1, <1>3, <1>4, ClientKeeps DEF Leave, TypeInv

\* Every step keeps the invariant.
LEMMA InvStep == ASSUME Inv, [Next]_vars PROVE Inv'
  <1>1. CASE EmitEnvelope
    <2>1. TailInv' /\ tail' \in Seq(Nat)
      BY <1>1, TailAdvances DEF Inv
    <2> QED BY <1>1, <2>1, EmitKeeps DEF EmitEnvelope, Kinds
  <1>2. CASE EmitSupervisor
    <2>1. /\ kinds \in Seq(Kinds) /\ tail \in Seq(Nat) /\ TailInv /\ tail' = tail
          /\ flavour = "admin" /\ flavour' = flavour
          /\ kinds' = Append(kinds, "supervisor") /\ "supervisor" \in Kinds
      BY <1>2 DEF Inv, TypeInv, EmitSupervisor, Kinds
    <2>2. /\ Emitted \in Nat /\ Emitted' = Emitted + 1 /\ kinds'[Emitted + 1] = "supervisor"
          /\ \A e \in 1 .. Emitted : kinds'[e] = kinds[e]
      BY <2>1, AppendProperties, LenProperties DEF Emitted
    <2>3. ASSUME NEW i \in 1 .. Len(tail)
          PROVE  tail[i] \in 1 .. Emitted' /\ kinds'[tail[i]] = "envelope"
      <3>1. tail[i] \in 1 .. Emitted /\ kinds[tail[i]] = "envelope"
        BY <2>1 DEF TailInv
      <3>2. tail[i] \in 1 .. Emitted' /\ kinds'[tail[i]] = kinds[tail[i]]
        BY <2>2, <3>1
      <3> QED BY <3>1, <3>2
    <2>4. ASSUME NEW e \in 1 .. Emitted', kinds'[e] = "envelope"
          PROVE  e \in 1 .. Emitted /\ kinds[e] = "envelope"
      <3>1. e # Emitted + 1
        BY <2>2, <2>4
      <3>2. e \in 1 .. Emitted
        BY <2>2, <3>1
      <3> QED BY <2>2, <2>4, <3>2
    <2>5. TailInv'
      BY <2>1, <2>3, <2>4 DEF TailInv, Rising
    <2> QED BY <1>2, <2>1, <2>5, EmitKeeps DEF EmitSupervisor
  <1>3. ASSUME NEW c \in Clients, AdminConnect(c) PROVE Inv'
    BY <1>3, ConnectKeeps
  <1>4. ASSUME NEW c \in Clients, AdminSnapshot(c) PROVE Inv'
    BY <1>4, SnapshotKeeps
  <1>5. ASSUME NEW c \in Clients, NEW id \in 0 .. Emitted, HubConnect(c, id) PROVE Inv'
    BY <1>5, ResumeKeeps
  <1>6. ASSUME NEW c \in Clients,
               ReplayWritten(c) \/ ReplayDone(c) \/ Take(c) \/ Written(c)
        PROVE  Inv'
    BY <1>6, WriteKeeps
  <1>7. ASSUME NEW c \in Clients, Leave(c) PROVE Inv'
    BY <1>7, LeaveKeeps
  <1>8. CASE UNCHANGED vars
    <2>1. UNCHANGED <<flavour, kinds, tail, stage, queue, todo, inhand, got,
                      joined, copied, resumed, lossy>>
      BY <1>8 DEF vars, clientVars, history
    <2>2. TypeInv' /\ TailInv'
      BY <2>1, TailKept DEF Inv, TypeInv
    <2>3. \A c \in Clients : StageInv(c)' /\ (stage'[c] # "out" => LineInv(c, Line(c))')
      BY <2>1, OthersKept
    <2> QED BY <2>2, <2>3 DEF Inv
  <1> QED BY <1>1, <1>2, <1>3, <1>4, <1>5, <1>6, <1>7, <1>8 DEF Next

\* The invariant holds throughout.
LEMMA Inductive == Spec => []Inv
  <1> QED BY InvInit, InvStep, PTL DEF Spec

-----------------------------------------------------------------------------
(* What the runs check, for every number of everything                      *)

\* Nothing grows beyond its bound, and what a handler holds fits its stage.
THEOREM TypeCorrect == Spec => []TypeOK
  <1>1. ASSUME Inv PROVE TypeOK
    <2>1. ASSUME NEW c \in Clients
          PROVE  /\ Len(queue[c]) <= QueueMax /\ Len(inhand[c]) <= 1
                 /\ joined[c] \in 0 .. Emitted /\ resumed[c] \in 0 .. Emitted
                 /\ stage[c] = "out" => queue[c] = <<>> /\ inhand[c] = <<>>
                 /\ todo[c] # <<>> => stage[c] = "replaying"
                 /\ lossy[c] \in BOOLEAN
      <3>1. StageInv(c) /\ joined[c] \in Nat /\ copied[c] \in Nat /\ resumed[c] \in Nat
        BY <1>1 DEF Inv, TypeInv
      <3>2. Emitted \in Nat
        BY <1>1, LenProperties DEF Inv, TypeInv, Emitted
      <3>3. joined[c] \in 0 .. Emitted /\ resumed[c] \in 0 .. Emitted
        BY <3>1, <3>2 DEF StageInv
      <3> QED BY <1>1, <3>1, <3>3 DEF StageInv, Inv, TypeInv
    <2>2. /\ flavour \in {"admin", "hub"} /\ kinds \in Seq({"envelope", "supervisor"})
          /\ \A i \in 1 .. Len(tail) : tail[i] \in 1 .. Emitted
          /\ Len(tail) <= TailMax /\ stage \in [Clients -> Stages]
      BY <1>1 DEF Inv, TypeInv, TailInv, Kinds
    <2> QED BY <2>1, <2>2 DEF TypeOK
  <1> QED BY <1>1, Inductive, PTL

\* A connection for which nothing was dropped misses nothing (core.py
\* handle_admin_stream, sse.py serve_sse).
THEOREM NothingIsMissed == Spec => []NoGap
  <1>1. ASSUME Inv PROVE NoGap
    <2> SUFFICES ASSUME NEW c \in Attached, NEW e \in 1 .. Emitted
                 PROVE  \/ e \in Range(Line(c))
                        \/ /\ e <= joined[c]
                           /\ resumed[c] = 0 \/ e <= resumed[c]
                           /\ kinds[e] = "envelope" => \A f \in Range(Line(c)) : f > e
      BY DEF NoGap
    <2>1. c \in Clients /\ stage[c] # "out" /\ ~lossy[c]
      BY DEF Attached, Subscribed
    <2>2. Line(c) \in Seq(Nat) /\ LineInv(c, Line(c))
      BY <1>1, <2>1, LineType DEF Inv
    <2>3. \A f : f \in Range(Line(c)) <=> \E i \in 1 .. Len(Line(c)) : Line(c)[i] = f
      BY <2>2, RangeByPlace
    <2>4. Complete(c, Line(c))
      BY <2>1, <2>2 DEF LineInv
    <2> QED BY <2>3, <2>4 DEF Complete
  <1> QED BY <1>1, Inductive, PTL

\* The parts of a line, for the two theorems on its order.
LEMMA LineParts ==
  ASSUME Inv, NEW c \in Clients, stage[c] # "out"
  PROVE  /\ Len(Line(c)) \in Nat /\ StageInv(c)
         /\ joined[c] \in Nat /\ copied[c] \in Nat /\ resumed[c] \in Nat
         /\ \A i \in 1 .. Len(Line(c)) :
               /\ Line(c)[i] \in 1 .. Emitted /\ Line(c)[i] \in Nat
               /\ Line(c)[i] > resumed[c]
         /\ \E s \in 0 .. Len(Line(c)) : Parted(c, Line(c), s)
  BY LineType DEF Inv, LineInv, TypeInv

\* Nothing is sent twice but, once, by the admin stream what was emitted while
\* the hello was being written, and nothing a resumed client already had.
THEOREM NothingIsRepeated == Spec => []NoEcho
  <1>1. ASSUME Inv PROVE NoEcho
    <2> SUFFICES ASSUME NEW c \in Subscribed
                 PROVE  /\ \A i \in 1 .. Len(Line(c)) : Line(c)[i] > resumed[c]
                        /\ \A i, j \in 1 .. Len(Line(c)) :
                              (i < j /\ Line(c)[i] = Line(c)[j]) =>
                                 /\ flavour = "admin" /\ Line(c)[i] > joined[c]
                                 /\ \A k \in j + 1 .. Len(Line(c)) : Line(c)[k] # Line(c)[i]
      BY DEF NoEcho
    <2> DEFINE line == Line(c)
    <2>1. c \in Clients /\ stage[c] # "out"
      BY DEF Subscribed
    <2>2. /\ Len(line) \in Nat /\ StageInv(c) /\ joined[c] \in Nat /\ copied[c] \in Nat
          /\ \A i \in 1 .. Len(line) : line[i] \in Nat /\ line[i] > resumed[c]
          /\ \E s \in 0 .. Len(line) : Parted(c, line, s)
      BY <1>1, <2>1, LineParts
    <2> HIDE DEF line
    <2>3. PICK s \in 0 .. Len(line) : Parted(c, line, s)
      BY <2>2
    <2>4. ASSUME NEW i \in 1 .. Len(line), NEW j \in 1 .. Len(line), i < j,
                 line[i] = line[j]
          PROVE  /\ flavour = "admin" /\ line[i] > joined[c]
                 /\ \A k \in j + 1 .. Len(line) : line[k] # line[i]
      <3>1. line[i] \in Nat /\ line[j] \in Nat
        BY <2>2
      <3>2. j \in s + 1 .. Len(line) /\ line[j] > joined[c]
        <4>1. j > s
          <5>1. ~(j <= s)
            <6>1. j <= s => i \in 1 .. s /\ j \in 1 .. s
              BY <2>2, <2>4
            <6> QED BY <2>3, <2>4, <3>1, <6>1 DEF Parted, Rising
          <5> QED BY <2>2, <5>1
        <4>2. j \in s + 1 .. Len(line)
          BY <2>2, <4>1
        <4> QED BY <2>3, <4>2 DEF Parted
      <3>3. i \in 1 .. s
        <4>1. ~(i > s)
          <5>1. i > s => i \in s + 1 .. Len(line)
            BY <2>2
          <5> QED BY <2>3, <2>4, <3>1, <3>2, <5>1 DEF Parted, Rising
        <4> QED BY <2>2, <4>1
      <3>4. line[i] <= copied[c]
        BY <2>3, <3>3 DEF Parted
      <3>5. flavour = "admin"
        <4>1. flavour = "hub" => copied[c] = joined[c]
          BY <2>2 DEF StageInv
        <4>2. flavour \in {"admin", "hub"}
          BY <1>1 DEF Inv, TypeInv
        <4> QED BY <2>2, <2>4, <3>1, <3>2, <3>4, <4>1, <4>2
      <3>6. ASSUME NEW k \in j + 1 .. Len(line) PROVE line[k] # line[i]
        <4>1. k \in s + 1 .. Len(line) /\ j < k /\ k \in 1 .. Len(line)
          BY <2>2, <3>2
        <4>2. line[j] < line[k] /\ line[k] \in Nat
          BY <2>2, <2>3, <3>2, <4>1 DEF Parted, Rising
        <4> QED BY <2>4, <3>1, <4>2
      <3> QED BY <2>4, <3>2, <3>5, <3>6
    <2> QED BY <2>2, <2>4 DEF line
  <1> QED BY <1>1, Inductive, PTL

\* Events of a kind are first sent in the order of their emission, but for
\* those a tail's worth of envelopes had pushed out while the hello was being
\* written.
THEOREM EverythingInOrder == Spec => []InOrder
  <1>1. ASSUME Inv PROVE InOrder
    <2> SUFFICES ASSUME NEW c \in Subscribed,
                        NEW i \in 1 .. Len(Line(c)), NEW j \in 1 .. Len(Line(c)),
                        i < j, Line(c)[i] > Line(c)[j],
                        kinds[Line(c)[i]] = kinds[Line(c)[j]]
                 PROVE  \/ Overrun(c, Line(c)[j])
                        \/ \E k \in 1 .. i : Line(c)[k] = Line(c)[j]
      BY DEF InOrder
    <2> DEFINE line == Line(c)
    <2>1. c \in Clients /\ stage[c] # "out"
      BY DEF Subscribed
    <2>2. /\ Len(line) \in Nat /\ joined[c] \in Nat /\ copied[c] \in Nat
          /\ \A k \in 1 .. Len(line) : line[k] \in Nat
          /\ \E s \in 0 .. Len(line) : Parted(c, line, s)
      BY <1>1, <2>1, LineParts
    <2>3. /\ i \in 1 .. Len(line) /\ j \in 1 .. Len(line) /\ line[i] > line[j]
          /\ kinds[line[i]] = kinds[line[j]]
      OBVIOUS
    <2> HIDE DEF line
    <2>4. PICK s \in 0 .. Len(line) : Parted(c, line, s)
      BY <2>2
    <2>5. line[i] \in Nat /\ line[j] \in Nat /\ ~(line[i] < line[j])
      BY <2>2, <2>3
    <2>6. j \in s + 1 .. Len(line)
      <3>1. j <= s => i \in 1 .. s /\ j \in 1 .. s
        BY <2>2, <2>3
      <3>2. ~(j <= s)
        BY <2>4, <2>5, <3>1 DEF Parted, Rising
      <3> QED BY <2>2, <2>3, <3>2
    <2>7. i \in 1 .. s
      <3>1. i > s => i \in s + 1 .. Len(line)
        BY <2>2, <2>3
      <3>2. ~(i > s)
        BY <2>4, <2>5, <2>6, <3>1 DEF Parted, Rising
      <3> QED BY <2>2, <2>3, <3>2
    <2>8. kinds[line[j]] = "envelope" /\ line[i] <= copied[c] /\ line[j] > joined[c]
      BY <2>3, <2>4, <2>6, <2>7 DEF Parted
    <2>9. line[j] \in joined[c] + 1 .. copied[c]
      BY <2>2, <2>3, <2>5, <2>8
    <2>10. (\E k \in 1 .. s : line[k] = line[j]) \/ Overrun(c, line[j])
      BY <2>4, <2>7, <2>8, <2>9 DEF Parted
    <2>11. ASSUME NEW k \in 1 .. s, line[k] = line[j] PROVE k \in 1 .. i
      <3>1. line[k] < line[i]
        BY <2>3, <2>11
      <3>2. ~(i < k)
        BY <2>4, <2>5, <2>7, <2>11, <3>1 DEF Parted, Rising
      <3> QED BY <2>2, <2>3, <3>2
    <2> QED BY <2>10, <2>11 DEF line
  <1> QED BY <1>1, Inductive, PTL
=============================================================================
