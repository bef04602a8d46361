--------------------------- MODULE Splitter_proofs ---------------------------
(***************************************************************************)
(* For any amount of payload and any room: what the splitter relays is     *)
(* intact, and complete to a side whose stream ends in order, and handle   *)
(* returns when no connection is left.                                     *)
(*                                                                         *)
(* The argument looks at a connection through two sequences a side: what   *)
(* was written to it (R) and what it sent that is still unused (Q).  While *)
(* a side is open the two meet: what one was given and what the other has  *)
(* unused are together what the other sent.                                *)
(***************************************************************************)
EXTENDS Splitter, SequenceTheorems, TLAPS

R(s) == got[s] \o out[s]
Q(s) == buf[s] \o in[s]

\* What s sent after its first k units is unused, and nothing else is.
Rest(s, k) == /\ k <= sent[s] /\ Len(Q(s)) = sent[s] - k
              /\ \A i \in 1 .. Len(Q(s)) : Q(s)[i] = script[s][i + k]

Early   == {"none", "line", "headers", "dial", "handshake"}
Before  == Early \cup Answering
Asked   == script["client"][1] = Line
Granted == listed => script["far"][1] = Ok
Relayed == stage \in {"relay", "closing"} \/ (stage = "done" /\ Told)

Shape ==
    /\ TypeOK
    /\ sent \in [Sides -> Nat]
    /\ script \in Scripts
    /\ listed <=> script["far"] # Content

\* How much of the exchange was read.
Exchange ==
    /\ stage \in {"none", "line"} => Rest("client", 0)
    /\ stage = "headers" => Asked /\ (Rest("client", 1) \/ Rest("client", 2))
    /\ stage \in {"dial", "handshake", "status", "drain"} => Asked /\ Rest("client", 3)
    /\ stage \in Early \cup {"status"} => Rest("far", 0)
    /\ stage \in {"handshake"} \cup Answering => listed
    /\ stage = "drain" => Granted /\ (Rest("far", 1) \/ Rest("far", 2))

\* What was said before the relay.
Said ==
    /\ stage \in Before => R("client") = <<>>
    /\ stage \in Early => R("far") = <<>>
    /\ stage \in Answering => R("far") = <<Line, Blank>>

\* The relay loses nothing on the way to a side that is there.
Flow ==
    /\ stage \in {"relay", "closing"} => Asked /\ Granted
    /\ Relayed => \A s \in Sides : end[s] = "open" =>
         /\ Len(R(s)) >= Preamble(s)
         /\ Rest(Other(s), Lines(Other(s)) + Len(R(s)) - Preamble(s))

\* A copy has ended only after its source, or because its reader reset.
Emptied ==
    \/ stage = "relay" /\ copying # Sides
    \/ stage = "closing"
    \/ stage = "done" /\ Told /\ helper # "gone"
    => \A s \in Sides : end[s] = "open" =>
         \/ end[Other(s)] = "reset"
         \/ end[Other(s)] = "left" /\ Q(Other(s)) = <<>>

Inv == Shape /\ Exchange /\ Said /\ Flow /\ Emptied /\ StreamsIntact

-----------------------------------------------------------------------------
(* Sequences *)

\* A unit put at the end of the second part is put at the end of the whole.
LEMMA PutLast ==
    ASSUME NEW a \in Seq(Units), NEW b \in Seq(Units), NEW x \in Units
    PROVE  a \o Append(b, x) = Append(a \o b, x)
<1>1. Append(b, x) = b \o <<x>> /\ Append(a \o b, x) = (a \o b) \o <<x>>
  BY AppendIsConcat, ConcatProperties
<1>2. <<x>> \in Seq(Units)
  OBVIOUS
<1> QED
  BY <1>1, <1>2, ConcatAssociative

\* The whole begins with the first unit of the first part.
LEMMA TakeFirst ==
    ASSUME NEW a \in Seq(Units), NEW b \in Seq(Units), a # <<>>
    PROVE  /\ Tail(a) \o b \in Seq(Units)
           /\ Len(Tail(a) \o b) = Len(a \o b) - 1
           /\ Len(a \o b) >= 1
           /\ Head(a) = (a \o b)[1]
           /\ \A i \in 1 .. Len(Tail(a) \o b) : (Tail(a) \o b)[i] = (a \o b)[i + 1]
<1>1. Tail(a) \in Seq(Units) /\ Len(Tail(a)) = Len(a) - 1 /\ Len(a) \in Nat /\ Len(a) >= 1
  BY HeadTailProperties, EmptySeq, LenProperties
<1>2. \A i \in 1 .. Len(a) - 1 : Tail(a)[i] = a[i + 1]
  BY HeadTailProperties
<1> QED
  BY <1>1, <1>2, ConcatProperties

\* A unit that moves from one part to the other leaves the whole as it was.
LEMMA MoveFirst ==
    ASSUME NEW a \in Seq(Units), NEW b \in Seq(Units), b # <<>>
    PROVE  Append(a, Head(b)) \o Tail(b) = a \o b
<1>1. Head(b) \in Units /\ Tail(b) \in Seq(Units) /\ b = <<Head(b)>> \o Tail(b)
  BY HeadTailProperties
<1>2. Append(a, Head(b)) = a \o <<Head(b)>>
  BY <1>1, AppendIsConcat
<1>3. <<Head(b)>> \in Seq(Units)
  BY <1>1
<1> QED
  BY <1>1, <1>2, <1>3, ConcatAssociative

-----------------------------------------------------------------------------
(* The two sides and what they have to send *)

LEMMA OtherSide ==
    /\ Other("client") = "far" /\ Other("far") = "client"
    /\ \A s \in Sides : Other(s) \in Sides /\ Other(s) # s /\ Other(Other(s)) = s
<1>1. \A s \in Sides : \E o \in Sides : o # s
  BY DEF Sides
<1>2. \A s \in Sides : Other(s) \in Sides /\ Other(s) # s
  BY <1>1 DEF Other
<1> QED
  BY <1>2 DEF Sides

LEMMA ContentFacts ==
    /\ Content \in Seq(Units) /\ Len(Content) = Payload
    /\ \A i \in 1 .. Payload : Content[i] = i
BY SizesAssumption DEF Content, Units

\* A script with an exchange at its head.
LEMMA WithLines ==
    ASSUME NEW u \in Units
    PROVE  /\ <<u, Header, Blank>> \o Content \in Seq(Units)
           /\ Len(<<u, Header, Blank>> \o Content) = 3 + Payload
           /\ (<<u, Header, Blank>> \o Content)[1] = u
           /\ (<<u, Header, Blank>> \o Content)[2] = Header
           /\ (<<u, Header, Blank>> \o Content)[3] = Blank
           /\ \A i \in 1 .. Payload : (<<u, Header, Blank>> \o Content)[i + 3] = i
<1>1. <<u, Header, Blank>> \in Seq(Units)
  BY SizesAssumption DEF Units, Header, Blank
<1> QED
  BY <1>1, ContentFacts, ConcatProperties, SizesAssumption

LEMMA ScriptFacts ==
    ASSUME Shape
    PROVE  /\ \A s \in Sides : script[s] \in Seq(Units)
           /\ Asked => /\ Len(script["client"]) = 3 + Payload
                       /\ script["client"][2] = Header /\ script["client"][3] = Blank
                       /\ \A i \in 1 .. Payload : script["client"][i + 3] = i
           /\ listed /\ Granted =>
                       /\ Len(script["far"]) = 3 + Payload
                       /\ script["far"][2] = Header /\ script["far"][3] = Blank
                       /\ \A i \in 1 .. Payload : script["far"][i + 3] = i
           /\ ~listed => script["far"] = Content
<1>1. Line \in Units /\ BadLine \in Units /\ Ok \in Units /\ Failed \in Units
  BY SizesAssumption DEF Units, Line, BadLine, Ok, Failed
<1>2. \/ script["client"] = <<BadLine>>
      \/ script["client"] = <<Line, Header, Blank>> \o Content
  BY DEF Shape, Scripts
<1>3. \/ script["far"] = <<Failed>>
      \/ script["far"] = <<Ok, Header, Blank>> \o Content
      \/ script["far"] = Content
  BY DEF Shape, Scripts
<1>4. \A s \in Sides : script[s] \in Seq(Units)
  <2>1. <<BadLine>> \in Seq(Units) /\ <<Failed>> \in Seq(Units)
    BY <1>1
  <2>2. script["client"] \in Seq(Units)
    BY <1>1, <1>2, <2>1, WithLines
  <2>3. script["far"] \in Seq(Units)
    BY <1>1, <1>3, <2>1, WithLines, ContentFacts
  <2> QED
    BY <2>2, <2>3 DEF Sides
<1>5. Asked => script["client"] = <<Line, Header, Blank>> \o Content
  BY <1>2 DEF Asked, Line, BadLine
<1>6. listed => script["far"] # Content
  BY DEF Shape
<1>7. listed /\ Granted => script["far"] = <<Ok, Header, Blank>> \o Content
  BY <1>3, <1>6 DEF Granted, Ok, Failed
<1>8. ~listed => script["far"] = Content
  BY DEF Shape
<1>9. Asked => /\ Len(script["client"]) = 3 + Payload
               /\ script["client"][2] = Header /\ script["client"][3] = Blank
               /\ \A i \in 1 .. Payload : script["client"][i + 3] = i
  BY <1>1, <1>5, WithLines
<1>10. listed /\ Granted =>
               /\ Len(script["far"]) = 3 + Payload
               /\ script["far"][2] = Header /\ script["far"][3] = Blank
               /\ \A i \in 1 .. Payload : script["far"][i + 3] = i
  BY <1>1, <1>7, WithLines
<1> QED
  BY <1>4, <1>8, <1>9, <1>10

\* The payload of each side follows its lines.
LEMMA PayloadFacts ==
    ASSUME Shape, Asked, Granted, NEW s \in Sides
    PROVE  /\ Lines(s) \in Nat /\ Preamble(s) \in Nat
           /\ Len(script[s]) = Lines(s) + Payload
           /\ \A i \in 1 .. Payload : script[s][i + Lines(s)] = i
<1>1. CASE s = "client"
  BY <1>1, ScriptFacts DEF Lines, Preamble
<1>2. CASE s = "far" /\ listed
  BY <1>2, ScriptFacts DEF Lines, Preamble
<1>3. CASE s = "far" /\ ~listed
  BY <1>3, ScriptFacts, ContentFacts, SizesAssumption DEF Lines, Preamble
<1> QED
  BY <1>1, <1>2, <1>3 DEF Sides

LEMMA Typed ==
    ASSUME Shape, NEW s \in Sides
    PROVE  /\ buf[s] \in Seq(Units) /\ in[s] \in Seq(Units) /\ Q(s) \in Seq(Units)
           /\ out[s] \in Seq(Units) /\ got[s] \in Seq(Units) /\ R(s) \in Seq(Units)
           /\ sent[s] \in Nat /\ Len(script[s]) \in Nat /\ sent[s] <= Len(script[s])
<1>1. /\ buf[s] \in Seq(Units) /\ in[s] \in Seq(Units)
      /\ out[s] \in Seq(Units) /\ got[s] \in Seq(Units)
  BY DEF Shape, TypeOK, Streams
<1>2. sent[s] \in 0 .. Len(script[s]) /\ script[s] \in Seq(Units)
  BY ScriptFacts DEF Shape, TypeOK
<1> QED
  BY <1>1, <1>2, ConcatProperties, LenProperties DEF Q, R

-----------------------------------------------------------------------------
(* Every step keeps the shapes *)

LEMMA LinesTyped == \A u \in {Line, Blank, Ok, Failed} : u \in Units
BY SizesAssumption DEF Units, Line, Blank, Ok, Failed

LEMMA TellTyped ==
    ASSUME Shape, NEW u \in Units, Tell(u)
    PROVE  out' \in Streams
BY DEF Tell, Shape, TypeOK, Streams, Sides

\* The first unit of a buffer, and what is behind it.
LEMMA HeadTyped ==
    ASSUME Shape, NEW s \in Sides, buf[s] # <<>>
    PROVE  Head(buf[s]) \in Units /\ [buf EXCEPT ![s] = Tail(@)] \in Streams
<1>1. buf \in Streams
  BY DEF Shape, TypeOK
<1>2. buf[s] \in Seq(Units) /\ Head(buf[s]) \in Units /\ Tail(buf[s]) \in Seq(Units)
  BY <1>1, HeadTailProperties DEF Streams
<1> QED
  BY <1>1, <1>2 DEF Streams

\* The shapes, in parts.
Control ==
    /\ helper \in {"starting", "running", "deaf", "gone"}
    /\ stage \in Stages
    /\ end \in [Sides -> {"none", "open", "left", "reset", "cut"}]
    /\ copying \subseteq Sides
    /\ copying # {} => stage \in {"relay", "closing"}
Amounts == sent \in [Sides -> Nat] /\ \A s \in Sides : sent[s] <= Len(script[s])
Flows   == in \in Streams /\ buf \in Streams /\ out \in Streams /\ got \in Streams

LEMMA ShapeParts ==
    ASSUME Shape
    PROVE  Control /\ Amounts /\ Flows
<1>1. Control /\ Flows
  BY DEF Shape, TypeOK, Control, Flows
<1>2. Amounts
  BY Typed DEF Amounts, Shape
<1> QED
  BY <1>1, <1>2

LEMMA ShapeKept ==
    ASSUME Shape, UNCHANGED <<listed, script>>, Control', Amounts', Flows'
    PROVE  Shape'
<1>1. listed' \in BOOLEAN /\ (listed' <=> script'["far"] # Content)
  BY DEF Shape, TypeOK
<1>2. \A s \in Sides : sent'[s] \in 0 .. Len(script'[s])
  BY ScriptFacts, LenProperties DEF Amounts
<1>3. TypeOK'
  BY <1>1, <1>2 DEF TypeOK, Control, Flows
<1> QED
  BY <1>1, <1>3 DEF Shape, Amounts

LEMMA ShapeStep ==
    ASSUME Shape, [Next]_vars
    PROVE  Shape'
<1> USE ShapeParts
<1>1. CASE UNCHANGED vars
  BY <1>1 DEF vars, Shape, TypeOK
<1>2. ASSUME NEW s \in Sides, Send(s) PROVE Shape'
  <2>1. script[s][sent[s] + 1] \in Units
    BY <1>2, ScriptFacts, Typed, ElementOfSeq DEF Send, ToSend
  <2>2. in' \in Streams
    BY <1>2, <2>1, AppendProperties DEF Send, Flows, Streams
  <2>3. Amounts'
    BY <1>2, Typed DEF Send, ToSend, Amounts
  <2> QED
    BY <1>2, <2>2, <2>3, ShapeKept DEF Send, Control, Flows
<1>3. ASSUME NEW s \in Sides, Receive(s) PROVE Shape'
  <2>1. Head(out[s]) \in Units /\ Tail(out[s]) \in Seq(Units)
    BY <1>3, Typed, HeadTailProperties DEF Receive
  <2>2. got' \in Streams /\ out' \in Streams
    BY <1>3, <2>1, AppendProperties DEF Receive, Flows, Streams
  <2> QED
    BY <1>3, <2>2, ShapeKept DEF Receive, Control, Amounts, Flows
<1>4. ASSUME NEW s \in Sides, Leave(s) PROVE Shape'
  BY <1>4, ShapeKept DEF Leave, Control, Amounts, Flows
<1>5. CASE StartHelper \/ Accept \/ AcceptFails \/ ClaudeExits \/ CloseBoth \/ Return
  <2>1. Control'
    BY <1>5 DEF StartHelper, Accept, AcceptFails, ClaudeExits, CloseBoth, Return,
          Control, Stages, Asking, Sides
  <2> QED
    BY <1>5, <2>1, ShapeKept DEF StartHelper, Accept, AcceptFails, ClaudeExits,
          CloseBoth, Return, Amounts, Flows
<1>6. ASSUME NEW s \in Sides, Fill(s) PROVE Shape'
  <2>1. buf' \in Streams /\ in' \in Streams
    BY <1>6, Typed DEF Fill, Flows, Streams
  <2> QED
    BY <1>6, <2>1, ShapeKept DEF Fill, Control, Amounts, Flows
<1>7. ASSUME NEW s \in Sides, NEW next \in Stages, NEW u \in Units \cup {0},
             buf[s] # <<>>, ReadLine(s, next, u), copying' \subseteq Sides,
             copying' # {} => next \in {"relay", "closing"}
      PROVE  Shape'
  <2>1. buf' \in Streams
    BY <1>7, HeadTyped DEF ReadLine
  <2>2. out' \in Streams
    BY <1>7, TellTyped DEF ReadLine, Flows
  <2> QED
    BY <1>7, <2>1, <2>2, ShapeKept DEF ReadLine, Control, Amounts, Flows
<1>8. CASE ReadConnect \/ ReadHeader \/ ReadStatus \/ Drain
  BY <1>7, <1>8, LinesTyped DEF ReadConnect, ReadHeader, ReadStatus, Drain, Control,
        Stages, Asking, Answering, Sides
<1>9. CASE Dial
  <2>1. out' \in Streams
    BY <1>9, TellTyped, LinesTyped DEF Dial, Flows
  <2>2. Control'
    BY <1>9 DEF Dial, Control, Stages, Sides
  <2> QED
    BY <1>9, <2>1, <2>2, ShapeKept DEF Dial, Amounts, Flows
<1>10. CASE Handshake
  <2>1. <<Line, Blank>> \in Seq(Units)
    BY LinesTyped
  <2>2. out' \in Streams
    BY <1>10, <2>1 DEF Handshake, Flows, Streams
  <2>3. Control'
    BY <1>10 DEF Handshake, Control, Stages, Answering
  <2> QED
    BY <1>10, <2>2, <2>3, ShapeKept DEF Handshake, Amounts, Flows
<1>11. ASSUME NEW s \in Sides, HandshakeFails \/ ReadFails(s) PROVE Shape'
  <2>1. out' \in Streams
    BY <1>11, TellTyped, LinesTyped DEF HandshakeFails, ReadFails, Flows
  <2>2. Control'
    BY <1>11 DEF HandshakeFails, ReadFails, Reads, Control, Stages, Asking, Answering
  <2> QED
    BY <1>11, <2>1, <2>2, ShapeKept DEF HandshakeFails, ReadFails, Amounts, Flows
<1>12. ASSUME NEW s \in Sides, CopyWrite(s) PROVE Shape'
  <2>1. buf' \in Streams /\ Head(buf[s]) \in Units
    BY <1>12, HeadTyped DEF CopyWrite
  <2>2. out' \in Streams
    <3>1. Other(s) \in Sides /\ out \in Streams /\ out[Other(s)] \in Seq(Units)
      BY OtherSide, Typed DEF Flows
    <3>2. Append(out[Other(s)], Head(buf[s])) \in Seq(Units)
      BY <2>1, <3>1, AppendProperties
    <3>3. \/ out' = [out EXCEPT ![Other(s)] = Append(@, Head(buf[s]))]
          \/ out' = out
      BY <1>12 DEF CopyWrite
    <3> QED
      BY <3>1, <3>2, <3>3 DEF Streams
  <2>3. Control'
    BY <1>12, OtherSide DEF CopyWrite, Control
  <2> QED
    BY <1>12, <2>1, <2>2, <2>3, ShapeKept DEF CopyWrite, Amounts, Flows
<1>13. ASSUME NEW s \in Sides, CopyEnds(s) PROVE Shape'
  BY <1>13, ShapeKept DEF CopyEnds, Control, Amounts, Flows
<1>14. ASSUME NEW s \in Sides, Cut(s) PROVE Shape'
  <2>1. out' \in Streams
    BY <1>14, EmptySeq DEF Cut, Flows, Streams
  <2> QED
    BY <1>14, <2>1, ShapeKept DEF Cut, Control, Amounts, Flows
<1> QED
  BY <1>1, <1>2, <1>3, <1>4, <1>5, <1>6, <1>8, <1>9, <1>10, <1>11, <1>12, <1>13, <1>14
     DEF Next, Peers, Sides

-----------------------------------------------------------------------------
(* Steps that change neither what was said nor what is unused *)

Still == /\ UNCHANGED <<listed, script>>
         /\ \A s \in Sides : sent'[s] = sent[s] /\ R(s)' = R(s) /\ Q(s)' = Q(s)

LEMMA StillRest ==
    ASSUME NEW s \in Sides, script' = script, sent'[s] = sent[s], Q(s)' = Q(s)
    PROVE  \A k : Rest(s, k)' <=> Rest(s, k)
BY DEF Rest

\* What claude was told is part of what was written to it.
LEMMA ToldInR ==
    /\ Told <=> \E i \in 1 .. Len(R("client")) : R("client")[i] = Ok
    /\ Told' <=> \E i \in 1 .. Len(R("client")') : R("client")'[i] = Ok
BY DEF Told, R, Contains

LEMMA StillIntact ==
    ASSUME StreamsIntact, UNCHANGED listed, \A s \in Sides : R(s)' = R(s)
    PROVE  StreamsIntact'
<1>1. \A s \in Sides : Preamble(s)' = Preamble(s)
  BY DEF Preamble
<1> QED
  BY <1>1 DEF StreamsIntact, R

\* At the same place, with no side newly open.
LEMMA SameStage ==
    ASSUME Inv, Still, stage' = stage, \A s \in Sides : end'[s] = "open" => end[s] = "open"
    PROVE  Exchange' /\ Said' /\ Flow' /\ StreamsIntact' /\ (Told' <=> Told)
<1>1. \A s \in Sides : \A k : Rest(s, k)' <=> Rest(s, k)
  BY StillRest DEF Still
<1>2. Told' <=> Told
  BY ToldInR DEF Still, Sides
<1>3. (Asked' <=> Asked) /\ (Granted' <=> Granted)
  BY DEF Still, Asked, Granted
<1>4. Exchange'
  BY <1>1, <1>3 DEF Inv, Exchange, Sides, Still
<1>5. Said'
  BY DEF Inv, Said, Still, Sides
<1>6. Relayed' <=> Relayed
  BY <1>2 DEF Relayed
<1>7. ASSUME NEW s \in Sides, Relayed, end[s] = "open"
      PROVE  /\ Len(R(s)') >= Preamble(s)'
             /\ Rest(Other(s), Lines(Other(s)) + Len(R(s)) - Preamble(s))'
  <2>1. Other(s) \in Sides /\ Preamble(s)' = Preamble(s) /\ Lines(Other(s))' = Lines(Other(s))
    BY OtherSide DEF Still, Preamble, Lines
  <2>2. R(s)' = R(s)
    BY DEF Still
  <2>3. /\ Len(R(s)) >= Preamble(s)
        /\ Rest(Other(s), Lines(Other(s)) + Len(R(s)) - Preamble(s))
    BY <1>7 DEF Inv, Flow
  <2>4. /\ Q(Other(s))' = Q(Other(s)) /\ sent'[Other(s)] = sent[Other(s)]
        /\ script' = script
    BY <2>1 DEF Still
  <2> QED
    BY <2>1, <2>2, <2>3, <2>4 DEF Rest
<1>8. Flow'
  BY <1>3, <1>6, <1>7 DEF Inv, Flow
<1>9. StreamsIntact'
  BY StillIntact DEF Inv, Still
<1> QED
  BY <1>2, <1>4, <1>5, <1>8, <1>9

LEMMA ReceiveStill == ASSUME Inv, NEW s \in Sides, Receive(s) PROVE Still
<1>1. /\ got[s] \in Seq(Units) /\ out[s] \in Seq(Units) /\ out[s] # <<>>
      /\ got \in Streams /\ out \in Streams
  BY Typed, ShapeParts DEF Inv, Receive, Flows
<1>2. Append(got[s], Head(out[s])) \o Tail(out[s]) = got[s] \o out[s]
  BY <1>1, MoveFirst
<1>3. \A r \in Sides : R(r)' = R(r)
  BY <1>1, <1>2 DEF Receive, R, Streams
<1> QED
  BY <1>3 DEF Receive, Still, Q

LEMMA FillStill == ASSUME Inv, NEW s \in Sides, Fill(s) PROVE Still
<1>1. in[s] \in Seq(Units) /\ buf[s] = <<>> /\ in \in Streams /\ buf \in Streams
  BY Typed, ShapeParts DEF Inv, Fill, Flows
<1>2. in[s] \o <<>> = buf[s] \o in[s]
  BY <1>1, ConcatEmptySeq
<1>3. \A r \in Sides : Q(r)' = Q(r)
  BY <1>1, <1>2 DEF Fill, Q, Streams
<1> QED
  BY <1>3 DEF Fill, Still, R

\* The first end of a copy: its source is used up or gone, or its reader is.
LEMMA FirstEnd ==
    ASSUME Inv, NEW s \in Sides, CopyEnds(s)
    PROVE  Emptied'
<1>1. Control /\ Still /\ UNCHANGED <<end, stage, helper>>
  BY ShapeParts DEF Inv, CopyEnds, Still, R, Q
<1>2. Told' <=> Told
  BY <1>1, SameStage
<1>3. stage \in {"relay", "closing"}
  BY <1>1 DEF CopyEnds, Control
<1>4. CASE stage = "closing"
  BY <1>1, <1>4, OtherSide DEF Inv, Emptied, Still
<1>5. CASE stage = "relay"
  <2> SUFFICES ASSUME NEW r \in Sides, end[r] = "open"
               PROVE  \/ end[Other(r)] = "reset"
                      \/ end[Other(r)] = "left" /\ Q(Other(r)) = <<>>
    BY <1>1, OtherSide DEF Emptied, Still
  <2>1. CASE copying # Sides
    BY <1>5, <2>1 DEF Inv, Emptied
  <2>2. CASE r = s
    BY <1>5, <2>2 DEF CopyEnds, AtEnd
  <2>3. CASE s = Other(r)
    <3>1. AtEnd(s)
      BY <1>5, <2>3, OtherSide DEF CopyEnds
    <3>2. buf[s] = <<>> /\ (end[s] = "reset" \/ (end[s] = "left" /\ in[s] = <<>>))
      BY <3>1 DEF AtEnd
    <3> QED
      BY <2>3, <3>2 DEF Q
  <2> QED
    BY <2>2, <2>3, OtherSide DEF Sides
<1> QED
  BY <1>3, <1>4, <1>5

LEMMA QuietSteps ==
    ASSUME Inv, NEW s \in Sides,
           \/ Receive(s) \/ Fill(s) \/ Leave(s) \/ StartHelper \/ AcceptFails
           \/ CopyEnds(s) \/ UNCHANGED vars
    PROVE  Exchange' /\ Said' /\ Flow' /\ StreamsIntact' /\ Emptied'
<1>1. Still /\ stage' = stage
  BY ReceiveStill, FillStill DEF Receive, Fill, Leave, StartHelper, AcceptFails, CopyEnds,
     vars, Still, R, Q
<1>2. \A r \in Sides : end'[r] = "open" => end[r] = "open"
  BY ShapeParts DEF Inv, Control, Receive, Fill, Leave, StartHelper, AcceptFails, CopyEnds, vars
<1>3. Exchange' /\ Said' /\ Flow' /\ StreamsIntact' /\ (Told' <=> Told)
  BY <1>1, <1>2, SameStage
<1>4. CASE CopyEnds(s)
  BY <1>3, <1>4, FirstEnd
<1>5. CASE ~CopyEnds(s)
  <2>1. copying' = copying
    BY <1>5 DEF Receive, Fill, Leave, StartHelper, AcceptFails, vars
  <2>2. helper' # "gone" => helper # "gone"
    BY <1>5 DEF Receive, Fill, Leave, StartHelper, AcceptFails, vars
  <2>3. \A r \in Sides : end[r] # "open" => end'[r] = end[r]
    BY <1>5, ShapeParts DEF Inv, Control, Receive, Fill, Leave, StartHelper, AcceptFails, vars
  <2>4. ASSUME NEW r \in Sides, end[r] = "open",
               \/ end[Other(r)] = "reset"
               \/ end[Other(r)] = "left" /\ Q(Other(r)) = <<>>
        PROVE  \/ end'[Other(r)] = "reset"
               \/ end'[Other(r)] = "left" /\ Q(Other(r))' = <<>>
    BY <1>1, <2>3, <2>4, OtherSide DEF Still
  <2> QED
    BY <1>1, <1>2, <1>3, <2>1, <2>2, <2>4 DEF Inv, Emptied
<1> QED
  BY <1>3, <1>4, <1>5

-----------------------------------------------------------------------------
(* The exchange *)

\* handle returns before there is a relay, with or without a refusal.
LEMMA Refused ==
    ASSUME Inv, stage \in Before, stage' = "done", UNCHANGED listed,
           R("far")' = R("far"), R("client")' \in {<<>>, <<Failed>>}
    PROVE  Exchange' /\ Said' /\ Flow' /\ StreamsIntact' /\ Emptied'
<1>1. ~Told'
  BY ToldInR DEF Ok, Failed
<1>2. Exchange' /\ Said'
  BY DEF Exchange, Said, Before, Early, Answering
<1>3. Flow' /\ Emptied'
  BY <1>1 DEF Flow, Relayed, Emptied
<1>4. StreamsIntact'
  <2>1. \A i \in DOMAIN R("client")' : i <= 1 /\ R("client")'[i] < 0
    BY DEF Failed
  <2>2. Preamble("client")' = 1 /\ Preamble("far")' = Preamble("far")
    BY DEF Preamble
  <2> QED
    BY <2>1, <2>2 DEF Inv, StreamsIntact, R, Sides
<1> QED
  BY <1>2, <1>3, <1>4

\* What a write to claude adds, before the relay.
LEMMA TellSays ==
    ASSUME Inv, stage \in Before, NEW u \in Units, Tell(u), got' = got
    PROVE  /\ R("client")' \in {<<>>, <<u>>} /\ R("far")' = R("far")
           /\ end["client"] = "open" => R("client")' = <<u>>
<1>1. /\ got["client"] \in Seq(Units) /\ out["client"] \in Seq(Units)
      /\ out \in Streams
  BY Typed, ShapeParts DEF Inv, Flows, Sides
<1>2. got["client"] \o out["client"] = <<>>
  BY DEF Inv, Said, R
<1>3. got["client"] \o Append(out["client"], u) = Append(<<>>, u)
  <2>1. got["client"] \o Append(out["client"], u) = Append(got["client"] \o out["client"], u)
    BY <1>1, PutLast
  <2> QED
    BY <1>2, <2>1
<1>4. Append(<<>>, u) = <<u>>
  OBVIOUS
<1>5. "client" \in Sides /\ "far" \in Sides
  BY DEF Sides
<1> QED
  BY <1>1, <1>2, <1>3, <1>4, <1>5 DEF Tell, R, Streams

\* One unit of a buffer is used.
LEMMA ReadRest ==
    ASSUME Inv, NEW s \in Sides, NEW k \in Nat, Rest(s, k), buf[s] # <<>>,
           buf' = [buf EXCEPT ![s] = Tail(@)], UNCHANGED <<in, sent, script>>
    PROVE  /\ Head(buf[s]) = script[s][k + 1] /\ k + 1 <= sent[s]
           /\ Rest(s, k + 1)'
           /\ Q(Other(s))' = Q(Other(s))
<1>1. buf[s] \in Seq(Units) /\ in[s] \in Seq(Units) /\ buf \in Streams /\ sent[s] \in Nat
  BY Typed, ShapeParts DEF Inv, Flows
<1> DEFINE t == Tail(buf[s]) \o in[s]
<1>2. /\ Len(t) = Len(Q(s)) - 1 /\ Len(Q(s)) >= 1 /\ Len(Q(s)) \in Nat
      /\ Head(buf[s]) = Q(s)[1]
      /\ \A i \in 1 .. Len(t) : t[i] = Q(s)[i + 1]
  <2>1. /\ Len(Tail(buf[s]) \o in[s]) = Len(buf[s] \o in[s]) - 1
        /\ Len(buf[s] \o in[s]) >= 1
        /\ Head(buf[s]) = (buf[s] \o in[s])[1]
        /\ \A i \in 1 .. Len(Tail(buf[s]) \o in[s]) :
              (Tail(buf[s]) \o in[s])[i] = (buf[s] \o in[s])[i + 1]
    BY <1>1, TakeFirst
  <2>2. Len(Q(s)) \in Nat
    BY <1>1, ConcatProperties, LenProperties DEF Q
  <2> QED
    BY <2>1, <2>2 DEF Q
<1>3. Q(s)' = t
  BY <1>1 DEF Q, Streams
<1>4. Q(Other(s))' = Q(Other(s))
  BY <1>1, OtherSide DEF Q, Streams
<1> HIDE DEF t
<1>5. Head(buf[s]) = script[s][k + 1] /\ k + 1 <= sent[s]
  BY <1>1, <1>2 DEF Rest
<1>6. \A i \in 1 .. Len(t) : t[i] = script[s][i + (k + 1)]
  <2> SUFFICES ASSUME NEW i \in 1 .. Len(t) PROVE t[i] = script[s][i + (k + 1)]
    OBVIOUS
  <2>1. t[i] = Q(s)[i + 1]
    BY <1>2
  <2>2. i \in Nat /\ i + 1 \in 1 .. Len(Q(s)) /\ (i + 1) + k = i + (k + 1)
    BY <1>2
  <2>3. Q(s)[i + 1] = script[s][(i + 1) + k]
    BY <2>2 DEF Rest
  <2> QED
    BY <2>1, <2>2, <2>3
<1>7. Rest(s, k + 1)'
  <2>1. Len(Q(s)) = sent[s] - k
    BY DEF Rest
  <2>2. Len(t) = Len(Q(s)) - 1 /\ Len(Q(s)) \in Nat /\ sent[s] \in Nat
    BY <1>1, <1>2
  <2>3. Len(t) = sent[s] - (k + 1)
    BY <2>1, <2>2, SMTT(30)
  <2>4. UNCHANGED <<sent, script>>
    OBVIOUS
  <2> QED
    BY <1>3, <1>5, <1>6, <2>3, <2>4, Zenon DEF Rest
<1> QED
  BY <1>4, <1>5, <1>7

\* A side sends a unit more.
LEMMA SendRest ==
    ASSUME Inv, NEW s \in Sides, NEW k \in Nat, Send(s), Rest(s, k)
    PROVE  Rest(s, k)'
<1>1. /\ buf[s] \in Seq(Units) /\ in[s] \in Seq(Units) /\ in \in Streams
      /\ sent[s] \in Nat /\ sent \in [Sides -> Nat] /\ Q(s) \in Seq(Units)
  BY Typed, ShapeParts DEF Inv, Flows, Amounts
<1>2. script[s][sent[s] + 1] \in Units
  BY ScriptFacts, Typed, ElementOfSeq DEF Inv, Send, ToSend
<1> DEFINE u == script[s][sent[s] + 1]
<1>3. Q(s)' = Append(Q(s), u)
  <2>1. buf[s] \o Append(in[s], u) = Append(buf[s] \o in[s], u)
    BY <1>1, <1>2, PutLast
  <2>2. buf'[s] = buf[s] /\ in'[s] = Append(in[s], u)
    BY <1>1 DEF Send, Streams
  <2> QED
    BY <2>1, <2>2 DEF Q
<1>4. sent'[s] = sent[s] + 1 /\ script' = script
  BY <1>1 DEF Send
<1>5. /\ Len(Q(s)') = Len(Q(s)) + 1 /\ Len(Q(s)) \in Nat
      /\ Q(s)'[Len(Q(s)) + 1] = u
      /\ \A i \in 1 .. Len(Q(s)) : Q(s)'[i] = Q(s)[i]
  BY <1>1, <1>2, <1>3, AppendProperties, LenProperties
<1>6. k <= sent[s] /\ Len(Q(s)) = sent[s] - k
      /\ \A i \in 1 .. Len(Q(s)) : Q(s)[i] = script[s][i + k]
  BY DEF Rest
<1>7. \A i \in 1 .. Len(Q(s)') : Q(s)'[i] = script[s][i + k]
  <2>1. (Len(Q(s)) + 1) + k = sent[s] + 1
    BY <1>1, <1>5, <1>6
  <2>2. \A i \in 1 .. Len(Q(s)') : i \in 1 .. Len(Q(s)) \/ i = Len(Q(s)) + 1
    BY <1>5
  <2> QED
    BY <1>5, <1>6, <2>1, <2>2
<1> QED
  BY <1>1, <1>4, <1>5, <1>6, <1>7 DEF Rest

LEMMA SendStep ==
    ASSUME Inv, NEW s \in Sides, Send(s)
    PROVE  Exchange' /\ Said' /\ Flow' /\ StreamsIntact' /\ Emptied'
<1>1. /\ UNCHANGED <<helper, stage, listed, script, end, copying>>
      /\ \A r \in Sides : R(r)' = R(r)
      /\ Q(Other(s))' = Q(Other(s)) /\ sent'[Other(s)] = sent[Other(s)]
      /\ end[s] = "open"
  BY ShapeParts, OtherSide DEF Inv, Flows, Amounts, Streams, Send, R, Q
<1>2. \A r \in Sides : \A k \in Nat : Rest(r, k) => Rest(r, k)'
  <2>1. \A k \in Nat : Rest(s, k) => Rest(s, k)'
    BY SendRest
  <2>2. \A k : Rest(Other(s), k) => Rest(Other(s), k)'
    BY <1>1, OtherSide, StillRest
  <2> QED
    BY <2>1, <2>2, OtherSide DEF Sides
<1>3. (Asked' <=> Asked) /\ (Granted' <=> Granted) /\ (Told' <=> Told)
  BY <1>1, ToldInR DEF Asked, Granted, Sides
<1>4. Exchange'
  BY <1>1, <1>2, <1>3 DEF Inv, Exchange, Sides
<1>5. Said'
  BY <1>1 DEF Inv, Said, Sides
<1>6. stage # "done"
  BY DEF Send
<1>7. Flow'
  <2>1. CASE stage \in {"relay", "closing"}
    <3> SUFFICES ASSUME NEW r \in Sides, end[r] = "open"
                 PROVE  /\ Len(R(r)') >= Preamble(r)'
                        /\ Rest(Other(r), Lines(Other(r)) + Len(R(r)) - Preamble(r))'
      BY <1>1, <1>3, <2>1 DEF Inv, Flow, Relayed
    <3> DEFINE n == Lines(Other(r)) + Len(R(r)) - Preamble(r)
    <3>1. Len(R(r)) >= Preamble(r) /\ Rest(Other(r), n)
      BY <2>1 DEF Inv, Flow, Relayed
    <3>2. n \in Nat
      <4>1. Asked /\ Granted /\ Other(r) \in Sides
        BY <2>1, OtherSide DEF Inv, Flow
      <4>2. Lines(Other(r)) \in Nat /\ Preamble(r) \in Nat
        BY <4>1, PayloadFacts DEF Inv
      <4>3. Len(R(r)) \in Nat
        BY Typed, LenProperties DEF Inv
      <4> QED
        BY <3>1, <4>2, <4>3
    <3>3. Preamble(r)' = Preamble(r) /\ Lines(Other(r))' = Lines(Other(r)) /\ R(r)' = R(r)
      BY <1>1 DEF Preamble, Lines
    <3>4. n' = n
      BY <3>3
    <3> HIDE DEF n
    <3>5. PICK k \in Nat : k = n
      BY <3>2
    <3>6. Rest(Other(r), k)
      BY <3>1, <3>5 DEF Rest
    <3>7. Rest(Other(r), k)'
      BY <1>2, <3>6, OtherSide
    <3>8. Rest(Other(r), n)'
      BY <3>4, <3>5, <3>7 DEF Rest
    <3> QED
      BY <3>1, <3>3, <3>8 DEF n
  <2>2. CASE stage \notin {"relay", "closing"}
    BY <1>1, <1>6, <2>2 DEF Flow, Relayed
  <2> QED
    BY <2>1, <2>2
<1>8. Emptied'
  BY <1>1, <1>3, OtherSide DEF Inv, Emptied, Sides
<1>9. StreamsIntact'
  BY <1>1, StillIntact DEF Inv
<1> QED
  BY <1>4, <1>5, <1>7, <1>8, <1>9

LEMMA AcceptStep ==
    ASSUME Inv, Accept
    PROVE  Exchange' /\ Said' /\ Flow' /\ StreamsIntact' /\ Emptied'
<1>1. Still /\ stage = "none" /\ stage' = "line"
  BY DEF Accept, Still, R, Q
<1>2. \A s \in Sides : \A k : Rest(s, k)' <=> Rest(s, k)
  BY <1>1, StillRest DEF Still
<1>3. Exchange' /\ Said'
  BY <1>1, <1>2 DEF Inv, Exchange, Said, Still, Sides, Before, Early, Answering
<1>4. Flow' /\ Emptied'
  BY <1>1 DEF Flow, Relayed, Emptied
<1>5. StreamsIntact'
  BY <1>1, StillIntact DEF Inv, Still
<1> QED
  BY <1>3, <1>4, <1>5

\* handle returns from the exchange: a read or a dial fails, a line is not
\* what it has to be, or the helper ends.
LEMMA RefusedSteps ==
    ASSUME Inv, NEW s \in Sides,
           \/ ReadConnect /\ stage' = "done"
           \/ ReadStatus /\ stage' = "done"
           \/ ReadFails(s) \/ HandshakeFails
           \/ Dial /\ stage' = "done"
           \/ ClaudeExits /\ stage \in Before
    PROVE  Exchange' /\ Said' /\ Flow' /\ StreamsIntact' /\ Emptied'
<1>1. stage \in Before /\ stage' = "done" /\ UNCHANGED <<listed, got>>
  BY DEF ReadConnect, ReadStatus, ReadFails, Reads, HandshakeFails, Dial, ClaudeExits, ReadLine,
     Before, Early, Asking, Answering
<1>2. Tell(Failed) \/ UNCHANGED out
  BY DEF ReadConnect, ReadStatus, ReadFails, HandshakeFails, Dial, ClaudeExits, ReadLine, Failed
<1>3. CASE Tell(Failed)
  BY <1>1, <1>3, TellSays, LinesTyped, Refused
<1>4. CASE UNCHANGED out
  <2>1. R("client")' = R("client") /\ R("far")' = R("far") /\ R("client") = <<>>
    BY <1>1, <1>4 DEF R, Inv, Said
  <2> QED
    BY <1>1, <2>1, Refused
<1> QED
  BY <1>2, <1>3, <1>4

\* A step of the exchange that says nothing.
LEMMA SilentStep ==
    ASSUME Inv, UNCHANGED <<listed, got, out>>, stage' \in Before,
           stage' \in Early <=> stage \in Early, stage \in Before
    PROVE  Said' /\ Flow' /\ StreamsIntact' /\ Emptied'
<1>1. \A s \in Sides : R(s)' = R(s)
  BY DEF R
<1>2. Said'
  <2>1. R("client")' = R("client") /\ R("far")' = R("far")
    BY <1>1 DEF Sides
  <2>2. stage' \in Answering => stage \in Answering
    BY DEF Before, Early, Answering
  <2> QED
    BY <2>1, <2>2 DEF Inv, Said
<1>3. Flow' /\ Emptied'
  BY DEF Flow, Relayed, Emptied, Before, Early, Answering
<1> QED
  BY <1>1, <1>2, <1>3, StillIntact DEF Inv

LEMMA ReadConnectStep ==
    ASSUME Inv, ReadConnect, stage' # "done"
    PROVE  Exchange' /\ Said' /\ Flow' /\ StreamsIntact' /\ Emptied'
<1>1. /\ stage = "line" /\ stage' = "headers" /\ buf["client"] # <<>>
      /\ Head(buf["client"]) = Line
      /\ buf' = [buf EXCEPT !["client"] = Tail(@)]
      /\ UNCHANGED <<in, sent, script, listed, got, out>>
  BY DEF ReadConnect, ReadLine
<1>2. Rest("client", 0) /\ Rest("far", 0)
  BY <1>1 DEF Inv, Exchange, Early
<1>3. /\ Rest("client", 1)' /\ Q("far")' = Q("far")
      /\ script["client"][1] = Line
  BY <1>1, <1>2, ReadRest, OtherSide DEF Sides
<1>4. Rest("far", 0)'
  BY <1>1, <1>2, <1>3, StillRest DEF Sides
<1>5. Exchange'
  BY <1>1, <1>3, <1>4 DEF Exchange, Asked, Answering
<1> QED
  BY <1>1, <1>5, SilentStep DEF Before, Early

LEMMA ReadHeaderStep ==
    ASSUME Inv, ReadHeader
    PROVE  Exchange' /\ Said' /\ Flow' /\ StreamsIntact' /\ Emptied'
<1>1. /\ stage = "headers" /\ buf["client"] # <<>>
      /\ stage' = IF Head(buf["client"]) = Blank THEN "dial" ELSE "headers"
      /\ buf' = [buf EXCEPT !["client"] = Tail(@)]
      /\ UNCHANGED <<in, sent, script, listed, got, out>>
  BY DEF ReadHeader, ReadLine
<1>2. Asked /\ Rest("far", 0) /\ (Rest("client", 1) \/ Rest("client", 2))
  BY <1>1 DEF Inv, Exchange, Early
<1>3. script["client"][2] = Header /\ script["client"][3] = Blank
  BY <1>2, ScriptFacts DEF Inv
<1>4. \/ Rest("client", 2)' /\ stage' = "headers"
      \/ Rest("client", 3)' /\ stage' = "dial"
  <2>1. CASE Rest("client", 1)
    <3>1. Head(buf["client"]) = Header /\ Rest("client", 2)'
      BY <1>1, <1>3, <2>1, ReadRest DEF Sides
    <3> QED
      BY <1>1, <3>1 DEF Header, Blank
  <2>2. CASE Rest("client", 2)
    <3>1. Head(buf["client"]) = Blank /\ Rest("client", 3)'
      BY <1>1, <1>3, <2>2, ReadRest DEF Sides
    <3> QED
      BY <1>1, <3>1
  <2> QED
    BY <1>2, <2>1, <2>2
<1>5. Q("far")' = Q("far")
  BY <1>1, <1>2, ReadRest, OtherSide DEF Sides
<1>6. Rest("far", 0)' /\ Asked'
  BY <1>1, <1>2, <1>5, StillRest DEF Sides, Asked
<1>7. Exchange'
  BY <1>4, <1>6 DEF Exchange, Answering
<1> QED
  BY <1>1, <1>4, <1>7, SilentStep DEF Before, Early

LEMMA ReadStatusStep ==
    ASSUME Inv, ReadStatus, stage' # "done"
    PROVE  Exchange' /\ Said' /\ Flow' /\ StreamsIntact' /\ Emptied'
<1>1. /\ stage = "status" /\ stage' = "drain" /\ buf["far"] # <<>>
      /\ Head(buf["far"]) = Ok
      /\ buf' = [buf EXCEPT !["far"] = Tail(@)]
      /\ UNCHANGED <<in, sent, script, listed, got, out>>
  BY DEF ReadStatus, ReadLine
<1>2. Rest("far", 0) /\ Asked /\ Rest("client", 3)
  BY <1>1 DEF Inv, Exchange
<1>3. /\ Rest("far", 1)' /\ Q("client")' = Q("client")
      /\ script["far"][1] = Ok
  BY <1>1, <1>2, ReadRest, OtherSide DEF Sides
<1>4. Rest("client", 3)' /\ Asked' /\ Granted'
  BY <1>1, <1>2, <1>3, StillRest DEF Sides, Asked, Granted
<1>5. listed' <=> listed
  BY <1>1
<1>6. Exchange'
  BY <1>1, <1>3, <1>4, <1>5 DEF Inv, Exchange, Early, Answering
<1> QED
  BY <1>1, <1>6, SilentStep DEF Before, Early, Answering

LEMMA HandshakeStep ==
    ASSUME Inv, Handshake
    PROVE  Exchange' /\ Said' /\ Flow' /\ StreamsIntact' /\ Emptied'
<1>1. /\ stage = "handshake" /\ stage' = "status"
      /\ UNCHANGED <<listed, script, sent, in, buf, got>>
  BY DEF Handshake
<1>2. \A s \in Sides : \A k : Rest(s, k)' <=> Rest(s, k)
  BY <1>1, StillRest DEF Q
<1>3. Exchange'
  <2>1. listed' /\ (Asked' <=> Asked)
    BY <1>1 DEF Inv, Exchange, Asked
  <2> QED
    BY <1>1, <1>2, <2>1 DEF Inv, Exchange, Early, Answering, Sides
<1>4. R("client")' = R("client") /\ R("far")' = <<Line, Blank>>
  <2>1. got \in Streams /\ out \in Streams /\ got["far"] \in Seq(Units) /\ out["far"] \in Seq(Units)
    BY ShapeParts, Typed DEF Inv, Flows, Sides
  <2>2. got["far"] = <<>>
    BY <1>1, <2>1, ConcatEqualIffEmpty, EmptySeq DEF Inv, Said, R, Early
  <2>3. <<Line, Blank>> \in Seq(Units)
    BY LinesTyped
  <2>4. <<>> \o <<Line, Blank>> = <<Line, Blank>>
    BY <2>3, ConcatEmptySeq
  <2> QED
    BY <2>1, <2>2, <2>4 DEF Handshake, R, Streams, Sides
<1>5. Said'
  BY <1>1, <1>4 DEF Inv, Said, Before, Early, Answering
<1>6. Flow' /\ Emptied'
  BY <1>1 DEF Flow, Relayed, Emptied
<1>7. StreamsIntact'
  <2>1. listed
    BY <1>1 DEF Inv, Exchange
  <2>2. Preamble("far")' = 2 /\ Preamble("client")' = 1 /\ Preamble("client") = 1
    BY <1>1, <2>1 DEF Preamble
  <2>3. \A i \in DOMAIN R("far")' : i <= 2 /\ R("far")'[i] < 0
    BY <1>4 DEF Line, Blank
  <2> QED
    BY <1>4, <2>2, <2>3 DEF Inv, StreamsIntact, R, Sides
<1> QED
  BY <1>3, <1>5, <1>6, <1>7

-----------------------------------------------------------------------------
(* The relay *)

\* handle tells claude Ok and starts the copies, with both readers as they are.
LEMMA RelayStarts ==
    ASSUME Inv, stage \in Before, stage' = "relay", copying' = Sides, Tell(Ok),
           UNCHANGED <<got, listed, script>>, Asked, Granted,
           Rest("client", 3)', Rest("far", Lines("far"))',
           R("far") = IF listed THEN <<Line, Blank>> ELSE <<>>,
           end'["client"] = "open" => end["client"] = "open"
    PROVE  Exchange' /\ Said' /\ Flow' /\ StreamsIntact' /\ Emptied'
<1>1. /\ R("client")' \in {<<>>, <<Ok>>} /\ R("far")' = R("far")
      /\ end'["client"] = "open" => R("client")' = <<Ok>>
  BY TellSays, LinesTyped
<1>2. Exchange' /\ Said' /\ Emptied'
  BY DEF Exchange, Said, Emptied, Before, Early, Answering
<1>3. /\ Preamble("client")' = 1 /\ Lines("client")' = 3
      /\ Preamble("far")' = Len(R("far")') /\ Lines("far")' \in Nat /\ Preamble("far")' \in Nat
      /\ Lines("far")' = Lines("far")
  BY <1>1 DEF Preamble, Lines
<1>4. Flow'
  <2>1. Asked' /\ Granted'
    BY DEF Asked, Granted
  <2>2. ASSUME end'["client"] = "open"
        PROVE  /\ Len(R("client")') >= Preamble("client")'
               /\ Rest("far", Lines("far") + Len(R("client")) - Preamble("client"))'
    <3>1. Len(R("client")') = 1
      BY <1>1, <2>2
    <3>2. (Lines("far") + Len(R("client")) - Preamble("client"))' = Lines("far")'
      <4>1. \A n \in Nat : n + 1 - 1 = n
        OBVIOUS
      <4> QED
        BY <1>3, <3>1, <4>1
    <3> QED
      BY <1>3, <3>1, <3>2 DEF Rest
  <2>3. /\ Len(R("far")') >= Preamble("far")'
        /\ Rest("client", Lines("client") + Len(R("far")) - Preamble("far"))'
    <3>1. Len(R("far")') = Preamble("far")' /\ 3 + Preamble("far")' - Preamble("far")' = 3
      BY <1>3
    <3>2. (Lines("client") + Len(R("far")) - Preamble("far"))' = 3
      BY <1>3, <3>1
    <3> QED
      BY <1>3, <3>1, <3>2 DEF Rest
  <2> QED
    BY <2>1, <2>2, <2>3, OtherSide DEF Flow, Sides
<1>5. StreamsIntact'
  <2>1. \A i \in DOMAIN R("client")' : i <= 1 /\ R("client")'[i] < 0
    BY <1>1 DEF Ok
  <2>2. \A i \in DOMAIN R("far")' : i <= Preamble("far")' /\ R("far")'[i] < 0
    BY <1>1, <1>3 DEF Line, Blank
  <2> QED
    BY <1>3, <2>1, <2>2 DEF StreamsIntact, R, Sides
<1> QED
  BY <1>2, <1>4, <1>5

LEMMA DialStep ==
    ASSUME Inv, Dial, stage' # "done"
    PROVE  Exchange' /\ Said' /\ Flow' /\ StreamsIntact' /\ Emptied'
<1>1. /\ stage = "dial" /\ UNCHANGED <<listed, script, sent, in, buf, got>>
      /\ \/ listed /\ stage' = "handshake" /\ UNCHANGED out
         \/ ~listed /\ stage' = "relay" /\ copying' = Sides /\ Tell(Ok)
      /\ end' = [end EXCEPT !["far"] = "open"]
  BY DEF Dial
<1>2. Asked /\ Rest("client", 3) /\ Rest("far", 0) /\ R("far") = <<>>
  BY <1>1 DEF Inv, Exchange, Said, Early
<1>3. Rest("client", 3)' /\ Rest("far", 0)' /\ Asked'
  BY <1>1, <1>2, StillRest DEF Sides, Q, Asked
<1>4. CASE listed /\ stage' = "handshake" /\ UNCHANGED out
  <2>1. listed'
    BY <1>1, <1>4
  <2>2. Exchange'
    BY <1>3, <1>4, <2>1 DEF Exchange, Answering
  <2> QED
    BY <1>1, <1>4, <2>2, SilentStep DEF Before, Early
<1>5. CASE ~listed /\ stage' = "relay" /\ copying' = Sides /\ Tell(Ok)
  <2>1. Lines("far")' = 0 /\ Granted
    BY <1>1, <1>5 DEF Lines, Granted
  <2>2. Rest("far", Lines("far"))'
    BY <1>3, <2>1 DEF Rest
  <2>3. end'["client"] = end["client"]
    BY <1>1, ShapeParts DEF Inv, Control, Sides
  <2> QED
    BY <1>1, <1>2, <1>3, <1>5, <2>1, <2>2, <2>3, RelayStarts DEF Before, Early
<1> QED
  BY <1>1, <1>4, <1>5

LEMMA DrainStep ==
    ASSUME Inv, Drain
    PROVE  Exchange' /\ Said' /\ Flow' /\ StreamsIntact' /\ Emptied'
<1>1. /\ stage = "drain" /\ buf["far"] # <<>>
      /\ buf' = [buf EXCEPT !["far"] = Tail(@)]
      /\ UNCHANGED <<in, sent, script, listed, got, end>>
      /\ \/ Head(buf["far"]) = Blank /\ stage' = "relay" /\ copying' = Sides /\ Tell(Ok)
         \/ Head(buf["far"]) # Blank /\ stage' = "drain" /\ UNCHANGED out
  BY DEF Drain, ReadLine, Ok
<1>2. /\ Asked /\ Granted /\ listed /\ Rest("client", 3)
      /\ Rest("far", 1) \/ Rest("far", 2)
      /\ R("far") = <<Line, Blank>>
  BY <1>1 DEF Inv, Exchange, Said, Answering
<1>3. script["far"][2] = Header /\ script["far"][3] = Blank
  BY <1>2, ScriptFacts DEF Inv
<1>4. \/ Rest("far", 2)' /\ stage' = "drain" /\ UNCHANGED out
      \/ Rest("far", 3)' /\ stage' = "relay" /\ copying' = Sides /\ Tell(Ok)
  <2>1. CASE Rest("far", 1)
    <3>1. Head(buf["far"]) = Header /\ Rest("far", 2)'
      BY <1>1, <1>3, <2>1, ReadRest DEF Sides
    <3> QED
      BY <1>1, <3>1 DEF Header, Blank
  <2>2. CASE Rest("far", 2)
    <3>1. Head(buf["far"]) = Blank /\ Rest("far", 3)'
      BY <1>1, <1>3, <2>2, ReadRest DEF Sides
    <3> QED
      BY <1>1, <3>1
  <2> QED
    BY <1>2, <2>1, <2>2
<1>5. Q("client")' = Q("client")
  BY <1>1, <1>2, ReadRest, OtherSide DEF Sides
<1>6. Rest("client", 3)' /\ Asked' /\ Granted'
  BY <1>1, <1>2, <1>5, StillRest DEF Sides, Asked, Granted
<1>7. CASE Rest("far", 2)' /\ stage' = "drain" /\ UNCHANGED out
  <2>1. listed'
    BY <1>1, <1>2
  <2>2. Exchange'
    BY <1>6, <1>7, <2>1 DEF Exchange, Early
  <2> QED
    BY <1>1, <1>7, <2>2, SilentStep DEF Before, Early, Answering
<1>8. CASE Rest("far", 3)' /\ stage' = "relay" /\ copying' = Sides /\ Tell(Ok)
  <2>1. Lines("far")' = 3
    BY <1>1, <1>2 DEF Lines
  <2>2. Rest("far", Lines("far"))'
    BY <1>8, <2>1 DEF Rest
  <2>3. R("far") = IF listed THEN <<Line, Blank>> ELSE <<>>
    BY <1>2
  <2> QED
    BY <1>1, <1>2, <1>6, <1>8, <2>2, <2>3, RelayStarts DEF Before, Answering
<1> QED
  BY <1>4, <1>7, <1>8

\* relay closes both connections, waits for the second copy and returns; or
\* the helper ends.
LEMMA EndSteps ==
    ASSUME Inv, CloseBoth \/ Return \/ (ClaudeExits /\ stage \notin Before)
    PROVE  Exchange' /\ Said' /\ Flow' /\ StreamsIntact' /\ Emptied'
<1>1. /\ Still /\ UNCHANGED <<listed, script>>
      /\ stage \notin Before /\ stage' \in {"closing", "done"}
      /\ \A s \in Sides : end'[s] = "open" => end[s] = "open"
  BY ShapeParts DEF Inv, Control, CloseBoth, Return, ClaudeExits, Still, R, Q, Before, Early,
     Answering
<1>2. Told' <=> Told
  BY <1>1, ToldInR DEF Still, Sides
<1>3. Exchange' /\ Said'
  BY <1>1 DEF Exchange, Said, Before, Early, Answering
<1>4. (stage' = "closing" => stage = "relay") /\ (Relayed' => Relayed)
  BY <1>1, <1>2, ShapeParts DEF Inv, Control, Stages, Asking, CloseBoth, Return, ClaudeExits,
     Relayed, Before, Early
<1>5. Flow'
  <2>1. ASSUME stage' = "closing" PROVE Asked' /\ Granted'
    BY <1>1, <1>4, <2>1 DEF Inv, Flow, Asked, Granted
  <2>2. ASSUME NEW s \in Sides, Relayed', end'[s] = "open"
        PROVE  /\ Len(R(s)') >= Preamble(s)'
               /\ Rest(Other(s), Lines(Other(s)) + Len(R(s)) - Preamble(s))'
    <3>1. /\ Len(R(s)) >= Preamble(s)
          /\ Rest(Other(s), Lines(Other(s)) + Len(R(s)) - Preamble(s))
      BY <1>1, <1>4, <2>2 DEF Inv, Flow
    <3>2. /\ Preamble(s)' = Preamble(s) /\ Lines(Other(s))' = Lines(Other(s))
          /\ R(s)' = R(s) /\ Q(Other(s))' = Q(Other(s)) /\ sent'[Other(s)] = sent[Other(s)]
      BY <1>1, OtherSide DEF Preamble, Lines, Still
    <3> QED
      BY <1>1, <3>1, <3>2 DEF Rest
  <2> QED
    BY <1>1, <2>1, <2>2 DEF Flow
<1>6. Emptied'
  <2>1. CASE ClaudeExits
    BY <1>1, <2>1 DEF ClaudeExits, Emptied
  <2>2. CASE CloseBoth \/ Return
    <3>1. /\ UNCHANGED <<end, helper>>
          /\ (stage = "relay" /\ copying # Sides) \/ stage = "closing"
      BY <2>2 DEF CloseBoth, Return
    <3> QED
      BY <1>1, <3>1, OtherSide DEF Inv, Emptied, Still
  <2> QED
    BY <2>1, <2>2
<1>7. StreamsIntact'
  BY <1>1, StillIntact DEF Inv, Still
<1> QED
  BY <1>3, <1>5, <1>6, <1>7

\* What is left of a side's units after its lines and what was written.
LEMMA Room ==
    ASSUME NEW l \in Nat, NEW m \in Nat, NEW p \in Nat, NEW c \in Nat,
           m >= p, (l + m - p) + 1 <= l + c
    PROVE  m + 1 - p \in 1 .. c
OBVIOUS

\* A copy writes a unit, or loses it and learns that its reader is gone.
LEMMA CopyWriteStep ==
    ASSUME Inv, NEW s \in Sides, CopyWrite(s)
    PROVE  Exchange' /\ Said' /\ Flow' /\ StreamsIntact' /\ Emptied'
<1> DEFINE o == Other(s)
<1>1. /\ stage = "relay" /\ s \in copying /\ buf[s] # <<>>
      /\ buf' = [buf EXCEPT ![s] = Tail(@)]
      /\ UNCHANGED <<helper, stage, listed, script, sent, in, got, copying>>
      /\ \/ /\ end[o] = "open" /\ end' = end
            /\ out' = [out EXCEPT ![o] = Append(@, Head(buf[s]))]
         \/ /\ end[o] = "left" /\ out' = out
            /\ end' = [end EXCEPT ![o] = "reset"]
  BY DEF CopyWrite
<1>2. o \in Sides /\ o # s /\ Other(o) = s
  BY OtherSide
<1>3. Asked /\ Granted /\ Asked' /\ Granted'
  BY <1>1 DEF Inv, Flow, Asked, Granted
<1>4. /\ Lines(s) \in Nat /\ Preamble(o) \in Nat /\ Len(script[s]) = Lines(s) + Payload
      /\ \A i \in 1 .. Payload : script[s][i + Lines(s)] = i
      /\ \A r \in Sides : Preamble(r)' = Preamble(r) /\ Lines(r)' = Lines(r)
  BY <1>1, <1>2, <1>3, PayloadFacts DEF Inv, Preamble, Lines
<1>5. /\ R(o) \in Seq(Units) /\ Len(R(o)) \in Nat /\ Q(s) \in Seq(Units)
      /\ sent[s] \in Nat /\ sent[s] <= Len(script[s])
      /\ got[o] \in Seq(Units) /\ out[o] \in Seq(Units) /\ Head(buf[s]) \in Units
      /\ out \in Streams /\ buf \in Streams /\ Control
  BY <1>1, <1>2, Typed, HeadTyped, ShapeParts, LenProperties DEF Inv, Flows
<1>6. R(s)' = R(s) /\ Q(o)' = Q(o)
  BY <1>1, <1>2, <1>5 DEF R, Q, Streams
<1>7. Exchange' /\ Said'
  BY <1>1 DEF Exchange, Said, Before, Early, Answering
<1>8. end'[s] = end[s] /\ (end'[o] = end[o] \/ end'[o] = "reset")
  BY <1>1, <1>2, <1>5 DEF Control
\* What s is given is not touched.
<1>9. ASSUME end'[s] = "open"
      PROVE  /\ Len(R(s)') >= Preamble(s)'
             /\ Rest(Other(s), Lines(Other(s)) + Len(R(s)) - Preamble(s))'
  <2>1. /\ Len(R(s)) >= Preamble(s)
        /\ Rest(o, Lines(o) + Len(R(s)) - Preamble(s))
    BY <1>1, <1>8, <1>9 DEF Inv, Flow, Relayed
  <2>2. /\ Preamble(s)' = Preamble(s) /\ Lines(o)' = Lines(o)
        /\ sent'[o] = sent[o] /\ script' = script
    BY <1>1, <1>2, <1>4
  <2> QED
    BY <1>6, <2>1, <2>2 DEF Rest
\* The other is given the next unit.
<1>10. ASSUME end'[o] = "open"
       PROVE  /\ Len(R(o)') >= Preamble(o)'
              /\ Rest(s, Lines(s) + Len(R(o)) - Preamble(o))'
              /\ Len(R(o)') = Len(R(o)) + 1
              /\ \A i \in 1 .. Len(R(o)) : R(o)'[i] = R(o)[i]
              /\ R(o)'[Len(R(o)) + 1] = Len(R(o)) + 1 - Preamble(o)
              /\ Len(R(o)) >= Preamble(o)
  <2>1. end[o] = "open" /\ out' = [out EXCEPT ![o] = Append(@, Head(buf[s]))]
    BY <1>1, <1>2, <1>5, <1>10 DEF Control
  <2>2. R(o)' = Append(R(o), Head(buf[s]))
    <3>1. got[o] \o Append(out[o], Head(buf[s])) = Append(got[o] \o out[o], Head(buf[s]))
      BY <1>5, PutLast
    <3>2. out'[o] = Append(out[o], Head(buf[s])) /\ got' = got
      BY <1>1, <1>2, <1>5, <2>1 DEF Streams
    <3> QED
      BY <3>1, <3>2 DEF R
  <2>3. /\ Len(R(o)') = Len(R(o)) + 1 /\ R(o)'[Len(R(o)) + 1] = Head(buf[s])
        /\ \A i \in 1 .. Len(R(o)) : R(o)'[i] = R(o)[i]
    BY <1>5, <2>2, AppendProperties
  <2> DEFINE n == Lines(s) + Len(R(o)) - Preamble(o)
  <2>4. Len(R(o)) >= Preamble(o) /\ Rest(s, n)
    BY <1>1, <1>2, <2>1 DEF Inv, Flow, Relayed
  <2>5. n \in Nat
    BY <1>4, <1>5, <2>4
  <2>6. n' = n + 1
    BY <1>2, <1>4, <1>5, <2>3
  <2>7. PICK k \in Nat : k = n
    BY <2>5
  <2>8. Head(buf[s]) = script[s][k + 1] /\ k + 1 <= sent[s] /\ Rest(s, k + 1)'
    <3>1. Rest(s, k)
      BY <2>4, <2>7
    <3> QED
      BY <1>1, <3>1, ReadRest
  <2>9. Rest(s, n)'
    BY <2>6, <2>7, <2>8 DEF Rest
  <2>10. Len(R(o)) + 1 - Preamble(o) \in 1 .. Payload
    <3>1. k + 1 <= Lines(s) + Payload
      BY <1>4, <1>5, <2>8, SizesAssumption
    <3>2. PICK l \in Nat, p \in Nat, m \in Nat : l = Lines(s) /\ p = Preamble(o) /\ m = Len(R(o))
      BY <1>4, <1>5
    <3>3. m >= p /\ (l + m - p) + 1 <= l + Payload
      BY <2>4, <2>7, <3>1, <3>2
    <3>4. m + 1 - p \in 1 .. Payload
      BY <3>3, Room, SizesAssumption
    <3> QED
      BY <3>2, <3>4
  <2>11. (Len(R(o)) + 1 - Preamble(o)) + Lines(s) = k + 1
    BY <1>4, <1>5, <2>7
  <2>12. Head(buf[s]) = Len(R(o)) + 1 - Preamble(o)
    BY <1>4, <2>8, <2>10, <2>11
  <2> QED
    BY <1>2, <1>4, <1>5, <2>3, <2>4, <2>9, <2>12
<1>11. Flow'
  BY <1>1, <1>2, <1>3, <1>9, <1>10, OtherSide DEF Flow, Sides
<1>12. Emptied'
  <2> SUFFICES ASSUME copying # Sides, NEW r \in Sides, end'[r] = "open"
               PROVE  end'[Other(r)] = "reset"
                      \/ (end'[Other(r)] = "left" /\ Q(Other(r))' = <<>>)
    BY <1>1 DEF Emptied
  <2>1. end[r] = "open"
    BY <1>1, <1>2, <1>5 DEF Control
  <2>2. end[Other(r)] = "reset" \/ (end[Other(r)] = "left" /\ Q(Other(r)) = <<>>)
    BY <1>1, <2>1 DEF Inv, Emptied
  <2>3. CASE r = s
    BY <1>1, <1>2, <1>5, <1>6, <1>8, <2>2, <2>3
  <2>4. CASE r = o
    <3>1. Q(s) # <<>>
      BY <1>1, Typed, ConcatEqualIffEmpty, EmptySeq DEF Inv, Q
    <3>2. end[s] = "reset"
      BY <1>2, <2>2, <2>4, <3>1
    <3> QED
      BY <1>2, <1>8, <2>4, <3>2
  <2> QED
    BY <1>2, <2>3, <2>4 DEF Sides
<1>13. StreamsIntact'
  <2>1. \A i \in DOMAIN R(s)' :
           IF i <= Preamble(s)' THEN R(s)'[i] < 0 ELSE R(s)'[i] = i - Preamble(s)'
    BY <1>4, <1>6 DEF Inv, StreamsIntact, R
  <2>2. \A i \in DOMAIN R(o) :
           IF i <= Preamble(o) THEN R(o)[i] < 0 ELSE R(o)[i] = i - Preamble(o)
    BY <1>2 DEF Inv, StreamsIntact, R
  <2>3. \A i \in DOMAIN R(o)' :
           IF i <= Preamble(o)' THEN R(o)'[i] < 0 ELSE R(o)'[i] = i - Preamble(o)'
    <3>1. CASE end'[o] = "open"
      <4>1. DOMAIN R(o) = 1 .. Len(R(o)) /\ DOMAIN R(o)' = 1 .. Len(R(o)')
        BY <1>5
      <4>2. \A i \in DOMAIN R(o)' : i \in DOMAIN R(o) \/ i = Len(R(o)) + 1
        BY <1>5, <1>10, <3>1, <4>1
      <4>3. /\ Len(R(o)) \in Nat /\ Preamble(o) \in Nat /\ Len(R(o)) >= Preamble(o)
            /\ Preamble(o)' = Preamble(o)
        BY <1>2, <1>4, <1>5, <1>10, <3>1
      <4>4. ASSUME NEW i \in DOMAIN R(o)
            PROVE  IF i <= Preamble(o)' THEN R(o)'[i] < 0 ELSE R(o)'[i] = i - Preamble(o)'
        BY <1>10, <2>2, <3>1, <4>1, <4>3
      <4>5. ASSUME NEW i, i = Len(R(o)) + 1
            PROVE  IF i <= Preamble(o)' THEN R(o)'[i] < 0 ELSE R(o)'[i] = i - Preamble(o)'
        BY <1>10, <3>1, <4>3, <4>5
      <4> QED
        BY <4>2, <4>4, <4>5
    <3>2. CASE end'[o] # "open"
      <4>1. R(o)' = R(o)
        BY <1>1, <3>2 DEF R
      <4> QED
        BY <1>2, <1>4, <2>2, <4>1
    <3> QED
      BY <3>1, <3>2
  <2> QED
    BY <1>2, <2>1, <2>3 DEF StreamsIntact, R, Sides
<1> QED
  BY <1>7, <1>11, <1>12, <1>13

\* A reset of ours: the side is no longer there, and what it was not given
\* before the reset is lost, which leaves a beginning of what was written.
LEMMA CutStep ==
    ASSUME Inv, NEW s \in Sides, Cut(s)
    PROVE  Exchange' /\ Said' /\ Flow' /\ StreamsIntact' /\ Emptied'
<1> DEFINE o == Other(s)
<1>1. /\ stage \in {"closing", "done"} /\ end[s] = "open"
      /\ end' = [end EXCEPT ![s] = "cut"] /\ out' = [out EXCEPT ![s] = <<>>]
      /\ UNCHANGED <<helper, stage, listed, script, sent, in, buf, got, copying>>
  BY DEF Cut
<1>2. o \in Sides /\ o # s /\ Other(o) = s /\ Sides = {s, o}
  BY OtherSide DEF Sides
<1>3. /\ got[s] \in Seq(Units) /\ out[s] \in Seq(Units)
      /\ out \in Streams /\ Control
  BY Typed, ShapeParts DEF Inv, Flows
<1>4. R(o)' = R(o) /\ \A r \in Sides : Q(r)' = Q(r)
  BY <1>1, <1>2, <1>3 DEF R, Q, Streams
<1>5. R(s)' = got[s]
  <2>1. out'[s] = <<>> /\ got'[s] = got[s]
    BY <1>1, <1>3 DEF Streams
  <2> QED
    BY <1>3, <2>1, ConcatEmptySeq DEF R
<1>6. /\ Len(R(s)') <= Len(R(s)) /\ Len(R(s)') \in Nat /\ Len(R(s)) \in Nat
      /\ \A i \in 1 .. Len(R(s)') : R(s)'[i] = R(s)[i]
      /\ R(s)' \in Seq(Units) /\ R(s) \in Seq(Units)
  <2> DEFINE q == got[s] \o out[s]
  <2>1. /\ Len(got[s]) <= Len(q) /\ Len(got[s]) \in Nat /\ Len(q) \in Nat
        /\ q \in Seq(Units) /\ \A i \in 1 .. Len(got[s]) : q[i] = got[s][i]
    <3>1. PICK a \in Nat, b \in Nat : a = Len(got[s]) /\ b = Len(out[s])
      BY <1>3, LenProperties
    <3>2. q \in Seq(Units) /\ Len(q) = a + b
      BY <1>3, <3>1, ConcatProperties
    <3>3. \A i \in 1 .. a + b : q[i] = IF i <= a THEN got[s][i] ELSE out[s][i - a]
      BY <1>3, <3>1, ConcatProperties
    <3>4. \A i \in 1 .. a : i \in 1 .. a + b /\ i <= a
      OBVIOUS
    <3> HIDE DEF q
    <3>5. \A i \in 1 .. a : q[i] = got[s][i]
      BY <3>3, <3>4
    <3>6. a <= a + b /\ a + b \in Nat
      OBVIOUS
    <3> QED
      BY <3>1, <3>2, <3>5, <3>6, Zenon
  <2>2. R(s) = q
    BY DEF R
  <2> HIDE DEF q
  <2> QED
    BY <1>3, <1>5, <2>1, <2>2
<1>7. Told' => Told
  <2>1. "client" \in Sides
    BY DEF Sides
  <2>2. CASE s = "client"
    BY <1>6, <2>2, ToldInR
  <2>3. CASE o = "client"
    BY <1>4, <2>3, ToldInR
  <2> QED
    BY <1>2, <2>1, <2>2, <2>3
<1>8. Exchange' /\ Said'
  BY <1>1 DEF Exchange, Said, Before, Early, Answering
<1>9. \A r \in Sides : Preamble(r)' = Preamble(r) /\ Lines(r)' = Lines(r)
  BY <1>1 DEF Preamble, Lines
<1>10. end'[s] # "open" /\ end'[o] = end[o]
  BY <1>1, <1>2, <1>3 DEF Control
<1>11. Relayed' => Relayed
  BY <1>1, <1>7 DEF Relayed
<1>12. Flow'
  <2>1. stage' \in {"relay", "closing"} => Asked' /\ Granted'
    BY <1>1 DEF Inv, Flow, Asked, Granted
  <2>2. ASSUME Relayed', end'[o] = "open"
        PROVE  /\ Len(R(o)') >= Preamble(o)'
               /\ Rest(Other(o), Lines(Other(o)) + Len(R(o)) - Preamble(o))'
    <3>1. /\ Len(R(o)) >= Preamble(o)
          /\ Rest(s, Lines(s) + Len(R(o)) - Preamble(o))
      BY <1>2, <1>10, <1>11, <2>2 DEF Inv, Flow
    <3>2. Q(s)' = Q(s) /\ sent' = sent /\ script' = script
      BY <1>1, <1>4
    <3> QED
      BY <1>2, <1>4, <1>9, <3>1, <3>2 DEF Rest
  <2> QED
    BY <1>2, <1>10, <2>1, <2>2 DEF Flow
<1>13. Emptied'
  BY <1>1, <1>2, <1>7, <1>10 DEF Inv, Emptied
<1>14. StreamsIntact'
  <2>1. /\ DOMAIN R(s) = 1 .. Len(R(s)) /\ DOMAIN R(s)' = 1 .. Len(R(s)')
        /\ \A i \in DOMAIN R(s) : IF i <= Preamble(s) THEN R(s)[i] < 0
                                                     ELSE R(s)[i] = i - Preamble(s)
    <3>1. \A i \in DOMAIN R(s) : IF i <= Preamble(s) THEN R(s)[i] < 0
                                                   ELSE R(s)[i] = i - Preamble(s)
      BY DEF Inv, StreamsIntact, R
    <3> QED
      BY <1>6, <3>1
  <2>2. \A i \in DOMAIN R(s)' : IF i <= Preamble(s)' THEN R(s)'[i] < 0
                                                    ELSE R(s)'[i] = i - Preamble(s)'
    BY <1>6, <1>9, <2>1
  <2>3. \A i \in DOMAIN R(o)' : IF i <= Preamble(o)' THEN R(o)'[i] < 0
                                                    ELSE R(o)'[i] = i - Preamble(o)'
    BY <1>2, <1>4, <1>9 DEF Inv, StreamsIntact, R
  <2> QED
    BY <1>2, <2>2, <2>3 DEF StreamsIntact, R
<1> QED
  BY <1>8, <1>12, <1>13, <1>14

-----------------------------------------------------------------------------
(* The invariant *)

LEMMA InitInv == Init => Inv
<1> SUFFICES ASSUME Init PROVE Inv
  OBVIOUS
<1>1. /\ in = [s \in Sides |-> <<>>] /\ buf = [s \in Sides |-> <<>>]
      /\ out = [s \in Sides |-> <<>>] /\ got = [s \in Sides |-> <<>>]
      /\ sent = [s \in Sides |-> 0] /\ stage = "none" /\ script \in Scripts
  BY DEF Init
<1>2. \A s \in Sides : Q(s) = <<>> /\ R(s) = <<>> /\ sent[s] = 0
  BY <1>1 DEF Q, R
<1>3. Asked \in BOOLEAN /\ \A s \in Sides : script[s] \in Seq(Units)
  <2>1. Line \in Units /\ BadLine \in Units /\ Ok \in Units /\ Failed \in Units
    BY SizesAssumption DEF Units, Line, BadLine, Ok, Failed
  <2>2. script["client"] \in {<<BadLine>>, <<Line, Header, Blank>> \o Content}
    BY <1>1 DEF Scripts
  <2>3. script["far"] \in {<<Failed>>, <<Ok, Header, Blank>> \o Content, Content}
    BY <1>1 DEF Scripts
  <2>4. <<BadLine>> \in Seq(Units) /\ <<Failed>> \in Seq(Units)
    BY <2>1
  <2> QED
    BY <2>1, <2>2, <2>3, <2>4, WithLines, ContentFacts DEF Sides, Asked
<1>4. Shape
  <2>1. \A s \in Sides : sent[s] \in 0 .. Len(script[s])
    BY <1>2, <1>3, LenProperties
  <2>2. [s \in Sides |-> <<>>] \in Streams
    BY EmptySeq DEF Streams
  <2>3. TypeOK
    BY <1>1, <2>1, <2>2 DEF Init, TypeOK, Stages
  <2> QED
    BY <1>1, <2>3 DEF Shape, Init
<1>5. \A s \in Sides : Rest(s, 0)
  BY <1>2 DEF Rest
<1>6. Exchange /\ Said
  BY <1>1, <1>2, <1>5 DEF Exchange, Said, Early, Answering, Sides
<1>7. Flow /\ Emptied
  BY <1>1 DEF Flow, Relayed, Emptied
<1>8. StreamsIntact
  <2>1. \A s \in Sides : got[s] \o out[s] = <<>>
    BY <1>2 DEF R
  <2>2. DOMAIN <<>> = {}
    OBVIOUS
  <2> QED
    BY <2>1, <2>2, Zenon DEF StreamsIntact
<1> QED
  BY <1>4, <1>6, <1>7, <1>8 DEF Inv

LEMMA NextInv == Inv /\ [Next]_vars => Inv'
<1> SUFFICES ASSUME Inv, [Next]_vars PROVE Inv'
  OBVIOUS
<1> DEFINE Goal == Exchange' /\ Said' /\ Flow' /\ StreamsIntact' /\ Emptied'
<1>1. Shape'
  BY ShapeStep DEF Inv
<1>2. "client" \in Sides
  BY DEF Sides
<1>3. ASSUME NEW s \in Sides, Send(s) PROVE Goal
  BY <1>3, SendStep
<1>4. ASSUME NEW s \in Sides, Receive(s) \/ Fill(s) \/ Leave(s) \/ CopyEnds(s) PROVE Goal
  BY <1>4, QuietSteps
<1>5. ASSUME StartHelper \/ AcceptFails \/ UNCHANGED vars PROVE Goal
  BY <1>2, <1>5, QuietSteps
<1>6. ASSUME NEW s \in Sides, ReadFails(s) PROVE Goal
  BY <1>6, RefusedSteps
<1>7. ASSUME HandshakeFails PROVE Goal
  BY <1>2, <1>7, RefusedSteps
<1>8. ASSUME ReadConnect PROVE Goal
  BY <1>2, <1>8, RefusedSteps, ReadConnectStep
<1>9. ASSUME ReadStatus PROVE Goal
  BY <1>2, <1>9, RefusedSteps, ReadStatusStep
<1>10. ASSUME Dial PROVE Goal
  BY <1>2, <1>10, RefusedSteps, DialStep
<1>11. ASSUME ClaudeExits PROVE Goal
  BY <1>2, <1>11, RefusedSteps, EndSteps
<1>12. ASSUME Accept \/ ReadHeader \/ Handshake \/ Drain \/ CloseBoth \/ Return PROVE Goal
  BY <1>12, AcceptStep, ReadHeaderStep, HandshakeStep, DrainStep, EndSteps
<1>13. ASSUME NEW s \in Sides, CopyWrite(s) PROVE Goal
  BY <1>13, CopyWriteStep
<1>14. ASSUME NEW s \in Sides, Cut(s) PROVE Goal
  BY <1>14, CutStep
<1>15. Goal
  BY <1>3, <1>4, <1>5, <1>6, <1>7, <1>8, <1>9, <1>10, <1>11, <1>12, <1>13, <1>14
     DEF Next, Peers
<1> QED
  BY <1>1, <1>15 DEF Inv

LEMMA Invariance == Spec => []Inv
BY InitInv, NextInv, PTL DEF Spec

-----------------------------------------------------------------------------
(* The theorems *)

\* The states have the shapes the code gives them, and relay leaves no copying
\* goroutine behind when handle returns.
THEOREM TypeCorrect == Spec => []TypeOK
<1>1. Inv => TypeOK
  BY DEF Inv, Shape
<1> QED
  BY <1>1, Invariance, PTL

\* What either side receives is the exchange's lines and then what the other
\* sent after its own, in order and without a gap, whatever the two readers
\* had read ahead when relay took them over (handle, relay).
THEOREM StreamsStayIntact == Spec => []StreamsIntact
<1>1. Inv => StreamsIntact
  BY DEF Inv
<1> QED
  BY <1>1, Invariance, PTL

\* relay closes both connections at the first end of a copy, which may reset a
\* side that is still sending; and yet a side whose stream ends in order was
\* given all that the other sent before it left in order: a copy from a side
\* that left in order ends with nothing of its left, a copy to a side that is
\* there ends for no other reason, and what a reset discards it never ends in
\* order (relay, splitter.go:136-138).
THEOREM RelayIsComplete == Spec => []Complete
<1>1. Inv => Complete
  <2> SUFFICES ASSUME Inv, helper # "gone", stage = "done", Told,
                      NEW s \in Sides, end[s] = "open", out[s] = <<>>,
                      end[Other(s)] = "left"
               PROVE  sent[Other(s)] - Lines(Other(s)) = Len(got[s]) - Preamble(s)
    BY DEF Complete
  <2> DEFINE o == Other(s)
  <2>1. o \in Sides
    BY OtherSide
  <2>2. Q(o) = <<>>
    BY DEF Inv, Emptied
  <2>3. Rest(o, Lines(o) + Len(R(s)) - Preamble(s))
    BY DEF Inv, Flow, Relayed
  <2>4. sent[o] - (Lines(o) + Len(R(s)) - Preamble(s)) = 0
    BY <2>2, <2>3 DEF Rest
  <2>5. sent[o] \in Nat /\ Len(R(s)) \in Nat
    BY <2>1, Typed, LenProperties DEF Inv
  <2>6. Lines(o) \in Nat /\ Preamble(s) \in Nat
    BY DEF Lines, Preamble
  <2>7. sent[o] - Lines(o) = Len(R(s)) - Preamble(s)
    <3> HIDE DEF o
    <3> QED
      BY <2>4, <2>5, <2>6, SMTT(30)
  <2>8. got[s] \in Seq(Units) /\ got[s] \o <<>> = got[s]
    BY Typed, ConcatEmptySeq DEF Inv
  <2> QED
    BY <2>7, <2>8 DEF R
<1> QED
  BY <1>1, Invariance, PTL
-----------------------------------------------------------------------------
(* Liveness.  The prover cannot expand ENABLED, so the fairness of Spec is  *)
(* written out with the guards of the steps in its place.                   *)
OwnReady ==
    \/ stage \in Asking /\ buf["client"] # <<>>
    \/ stage \in Answering /\ buf["far"] # <<>>
    \/ stage = "dial"
    \/ stage = "handshake" /\ end["far"] # "open"
    \/ stage = "relay" /\ copying # Sides
    \/ stage = "closing" /\ copying = {}
    \/ \E s \in Sides :
          \/ /\ Reads(s) \/ (stage = "relay" /\ s \in copying)
             /\ buf[s] = <<>> /\ in[s] # <<>>
          \/ Reads(s) /\ AtEnd(s)

CopierReady(s) ==
    /\ s \in copying
    /\ \/ stage = "closing" \/ AtEnd(s)
       \/ /\ buf[s] # <<>>
          /\ \/ end[Other(s)] = "reset"
             \/ stage = "relay" /\ end[Other(s)] = "left"
             \/ stage = "relay" /\ end[Other(s)] = "open" /\ Len(out[Other(s)]) < Cap

ScheduledCopier(s) == <>[]CopierReady(s) => []<><<Copier(s)>>_vars

Scheduled ==
    /\ <>[]OwnReady => []<><<Own>>_vars
    /\ \A s \in Sides : ScheduledCopier(s)

\* The connections are closed, and s is still, or no longer, copied from.
Runs(s)  == stage = "closing" /\ s \in copying
Rests(s) == stage = "closing" /\ s \notin copying

\* Once relay closes the two connections handle returns: neither goroutine is
\* left behind, whatever the peers have sent, read or failed to read, and the
\* second receive from done does not wait for ever (splitter.go:139).
THEOREM RelayReturns ==
    Init /\ [][Next]_vars /\ Scheduled => (stage = "closing" ~> stage = "done")
<1> DEFINE Closing == stage = "closing"
           Done    == stage = "done"
           Fair    == [][Next]_vars /\ Scheduled
<1>1. ASSUME NEW s \in Sides
      PROVE  [Next]_vars => /\ Closing => Closing' \/ Done'
                            /\ Rests(s) => Rests(s)' \/ Done'
  <2> SUFFICES ASSUME [Next]_vars, Closing
               PROVE  Done' \/ (Closing' /\ copying' \subseteq copying)
    BY DEF Rests
  <2>1. CASE Return \/ ClaudeExits
    BY <2>1 DEF Return, ClaudeExits
  <2>2. CASE UNCHANGED <<stage, copying>>
    BY <2>2
  <2>3. CASE Peers \/ UNCHANGED vars
    BY <2>3 DEF Peers, Send, Receive, Leave, Cut, vars
  <2>4. CASE StartHelper \/ AcceptFails
    BY <2>4 DEF StartHelper, AcceptFails
  <2>5. ASSUME NEW r \in Sides, Fill(r) \/ ReadFails(r) \/ CopyWrite(r) \/ CopyEnds(r)
        PROVE  Closing' /\ copying' \subseteq copying
    BY <2>5 DEF Fill, ReadFails, CopyWrite, CopyEnds, Reads, Asking, Answering
  <2>6. ~Accept /\ ~ReadConnect /\ ~ReadHeader /\ ~Dial /\ ~Handshake /\ ~HandshakeFails
        /\ ~ReadStatus /\ ~Drain /\ ~CloseBoth
    BY DEF Accept, ReadConnect, ReadHeader, Dial, Handshake, HandshakeFails, ReadStatus,
           Drain, CloseBoth
  <2> QED
    BY <2>1, <2>3, <2>4, <2>5, <2>6 DEF Next
<1>2. ASSUME NEW s \in Sides PROVE Runs(s) /\ <<Copier(s)>>_vars => ~Runs(s)'
  BY DEF Runs, Copier, CopyWrite, CopyEnds
<1>3. Rests("client") /\ Rests("far") /\ <<Own>>_vars => Done'
  BY DEF Rests, Own, ReadConnect, ReadHeader, ReadStatus, Drain, Dial, HandshakeFails,
         CloseBoth, Return, Fill, ReadFails, Reads, Asking, Answering
<1>4. ASSUME NEW s \in Sides
      PROVE  (Closing => Runs(s) \/ Rests(s)) /\ (Rests(s) => Closing)
             /\ (Runs(s) => Closing /\ CopierReady(s)) /\ ~(Runs(s) /\ Rests(s))
  BY DEF Runs, Rests, CopierReady
<1>5. Inv /\ Rests("client") /\ Rests("far") => OwnReady
  BY DEF Rests, OwnReady, Inv, Shape, TypeOK, Sides
<1>6. Init /\ [][Next]_vars => []Inv
  BY InitInv, NextInv, PTL
<1>7. Fair => ScheduledCopier("client") /\ ScheduledCopier("far")
              /\ (<>[]OwnReady => []<><<Own>>_vars)
  BY DEF Scheduled, Sides
<1>8. "client" \in Sides /\ "far" \in Sides
  BY DEF Sides
<1> HIDE DEF Closing, Done
<1>9. Fair => (Closing ~> Done \/ Rests("client"))
  <2>1. /\ [Next]_vars => (Closing => Closing' \/ Done')
        /\ Runs("client") /\ <<Copier("client")>>_vars => ~Runs("client")'
        /\ Closing => Runs("client") \/ Rests("client")
        /\ Runs("client") => CopierReady("client")
    BY <1>1, <1>2, <1>4, <1>8
  <2> QED
    BY <1>7, <2>1, PTL DEF ScheduledCopier
<1>10. Fair => (Rests("client") ~> Done \/ (Rests("client") /\ Rests("far")))
  <2>1. /\ [Next]_vars => (Rests("client") => Rests("client")' \/ Done')
        /\ Runs("far") /\ <<Copier("far")>>_vars => ~Runs("far")'
        /\ Rests("client") => Runs("far") \/ Rests("far")
        /\ Runs("far") => CopierReady("far")
    BY <1>1, <1>2, <1>4, <1>8
  <2> QED
    BY <1>7, <2>1, PTL DEF ScheduledCopier
<1>11. Fair /\ []Inv => (Rests("client") /\ Rests("far") ~> Done)
  <2>1. [Next]_vars => /\ Rests("client") => Rests("client")' \/ Done'
                       /\ Rests("far") => Rests("far")' \/ Done'
    BY <1>1, <1>8
  <2> QED
    BY <1>3, <1>5, <1>7, <2>1, PTL
<1>12. Init /\ Fair => (Closing ~> Done)
  BY <1>6, <1>9, <1>10, <1>11, PTL
<1> QED
  BY <1>12 DEF Closing, Done

\* Both sides have ended.
BothEnded == \A s \in Sides : end[s] \in {"left", "reset"}

\* There is no connection to the other end before it was dialed, claude's is
\* there from Accept on, and handle resets neither while it uses them.
EndsByStage ==
    /\ stage \in {"none", "line", "headers", "dial"} => end["far"] = "none"
    /\ stage \in {"handshake", "relay", "closing"} \cup Answering => end["far"] # "none"
    /\ stage \notin {"none", "done"} => end["client"] # "none"
    /\ stage \notin {"closing", "done"} => \A s \in Sides : end[s] # "cut"

\* Dial is what opens it, and closing what may reset it.
LEMMA DialedLater == Init /\ [][Next]_vars => []EndsByStage
<1>1. Init => EndsByStage
  BY DEF Init, EndsByStage, Sides, Answering
<1>2. Inv /\ EndsByStage /\ [Next]_vars => EndsByStage'
  <2> SUFFICES ASSUME Inv, EndsByStage, [Next]_vars PROVE EndsByStage'
    OBVIOUS
  <2> USE DEF EndsByStage, Answering
  <2>0. end \in [Sides -> {"none", "open", "left", "reset", "cut"}] /\ "far" \in Sides
        /\ "client" \in Sides
    BY DEF Inv, Shape, TypeOK, Sides
  <2>1. ASSUME UNCHANGED <<stage, end>> PROVE EndsByStage'
    BY <2>1
  <2>2. ASSUME NEW s \in Sides, Leave(s) \/ Cut(s) PROVE EndsByStage'
    BY <2>0, <2>2 DEF Leave, Cut
  <2>3. CASE Accept \/ ClaudeExits \/ Dial
    BY <2>0, <2>3 DEF Accept, ClaudeExits, Dial
  <2>4. CASE ReadConnect \/ ReadHeader
    BY <2>4 DEF ReadConnect, ReadHeader, ReadLine
  <2>5. CASE Handshake \/ HandshakeFails \/ ReadStatus \/ Drain \/ CloseBoth \/ Return
    BY <2>5 DEF Handshake, HandshakeFails, ReadStatus, Drain, ReadLine, CloseBoth, Return
  <2>6. ASSUME NEW s \in Sides, ReadFails(s) \/ CopyWrite(s) PROVE EndsByStage'
    BY <2>0, <2>6, OtherSide DEF ReadFails, CopyWrite
  <2>7. ASSUME NEW s \in Sides, Send(s) \/ Receive(s) \/ Fill(s) \/ CopyEnds(s)
        PROVE  UNCHANGED <<stage, end>>
    BY <2>7 DEF Send, Receive, Fill, CopyEnds
  <2>8. StartHelper \/ AcceptFails \/ UNCHANGED vars => UNCHANGED <<stage, end>>
    BY DEF StartHelper, AcceptFails, vars
  <2> QED
    BY <2>1, <2>2, <2>3, <2>4, <2>5, <2>6, <2>7, <2>8 DEF Next, Peers
<1>3. Init /\ [][Next]_vars => []Inv
  BY InitInv, NextInv, PTL
<1> QED
  BY <1>1, <1>2, <1>3, PTL

\* What is left for handle to do when both have ended: in the exchange with
\* the proxy, of which k lines were read, there is something in the reader,
\* only on its way to it, or nothing; ...
Answer(k)   == /\ BothEnded /\ Rest("far", k)
               /\ stage = (IF k = 0 THEN "status" ELSE "drain")
Readable(k) == Answer(k) /\ buf["far"] # <<>>
Arrived(k)  == Answer(k) /\ buf["far"] = <<>> /\ in["far"] # <<>>
NoMore(k)   == Answer(k) /\ buf["far"] = <<>> /\ in["far"] = <<>>

\* ... while both are copied, the same of what claude sent, and what its
\* copier writes to has only left, or was found to have reset; and when a
\* copier has ended, the other may have something on its way to its reader.
Copied      == BothEnded /\ stage = "relay" /\ copying = Sides
Full(e)     == Copied /\ buf["client"] # <<>> /\ in["client"] # <<>> /\ end["far"] = e
LastOf(e)   == Copied /\ buf["client"] # <<>> /\ in["client"] = <<>> /\ end["far"] = e
Waits       == Copied /\ buf["client"] = <<>> /\ in["client"] # <<>> /\ in["far"] # <<>>
WaitsAlone  == Copied /\ buf["client"] = <<>> /\ in["client"] # <<>> /\ in["far"] = <<>>
Spent       == Copied /\ buf["client"] = <<>> /\ in["client"] = <<>>
Stray       == \E s \in copying : in[s] # <<>>
Half        == BothEnded /\ stage = "relay" /\ copying # Sides /\ Stray
Halved      == BothEnded /\ stage = "relay" /\ copying # Sides /\ ~Stray

\* The moves a step can make there: to less that is left, never back to more.
Waning ==
    /\ BothEnded /\ stage = "handshake" => (BothEnded /\ stage = "handshake")' \/ (stage = "done")'
    /\ Readable(0) => Readable(0)' \/ Answer(1)' \/ (stage = "done")'
    /\ Readable(1) => Readable(1)' \/ Answer(2)' \/ (stage = "done")'
    /\ Readable(2) => Readable(2)' \/ Copied' \/ (stage = "done")'
    /\ \A k \in 0 .. 2 :
          /\ Arrived(k) => Arrived(k)' \/ Readable(k)' \/ (stage = "done")'
          /\ NoMore(k) => NoMore(k)' \/ (stage = "done")'
    /\ Full("left") => \/ Full("left")' \/ Full("reset")' \/ Waits' \/ WaitsAlone'
                       \/ Half' \/ Halved' \/ (stage = "done")'
    /\ Full("reset") => Full("reset")' \/ Half' \/ Halved' \/ (stage = "done")'
    /\ Waits => \/ Waits' \/ WaitsAlone' \/ LastOf("left")' \/ LastOf("reset")'
                \/ Half' \/ Halved' \/ (stage = "done")'
    /\ WaitsAlone => \/ WaitsAlone' \/ LastOf("left")' \/ LastOf("reset")'
                     \/ Half' \/ Halved' \/ (stage = "done")'
    /\ LastOf("left") => \/ LastOf("left")' \/ LastOf("reset")' \/ Spent'
                       \/ Half' \/ Halved' \/ (stage = "done")'
    /\ LastOf("reset") => LastOf("reset")' \/ Half' \/ Halved' \/ (stage = "done")'
    /\ Spent => Spent' \/ Half' \/ Halved' \/ (stage = "done")'
    /\ Half => Half' \/ Halved' \/ (stage = "closing")' \/ (stage = "done")'
    /\ Halved => Halved' \/ (stage = "closing")' \/ (stage = "done")'

\* Every step leaves what is left as it is, or less.
LEMMA Wanes ==
    ASSUME Inv, EndsByStage, BothEnded, [Next]_vars
    PROVE  Waning
<1>0. /\ "client" \in Sides /\ "far" \in Sides /\ Sides = {"client", "far"}
      /\ Other("client") = "far" /\ Other("far") = "client"
      /\ end \in [Sides -> {"none", "open", "left", "reset", "cut"}]
      /\ in \in [Sides -> Seq(Units)] /\ buf \in [Sides -> Seq(Units)]
      /\ copying \subseteq Sides
      /\ end["client"] \in {"left", "reset"} /\ end["far"] \in {"left", "reset"}
  BY OtherSide DEF Inv, Shape, TypeOK, Streams, Sides, BothEnded
<1> USE <1>0
<1> DEFINE Reading == \E k \in 0 .. 2 : Readable(k) \/ Arrived(k) \/ NoMore(k)
           Copying == (\E e \in {"left", "reset"} : Full(e) \/ LastOf(e))
                        \/ Waits \/ WaitsAlone \/ Spent \/ Half \/ Halved
<1>20. Reading => stage \in {"status", "drain"}
  BY DEF Readable, Arrived, NoMore, Answer
<1>21. Copying => stage = "relay"
  BY DEF Full, LastOf, Waits, WaitsAlone, Spent, Half, Halved, Copied
<1>22. ~Reading /\ ~Copying /\ stage # "handshake" => Waning
  BY DEF Waning
<1> HIDE DEF Reading, Copying
<1>1. CASE (stage = "done")'
  BY <1>1 DEF Waning
<1>2. ASSUME UNCHANGED <<stage, end, buf, in, sent, script, copying>> PROVE Waning
  <2>1. /\ BothEnded' /\ Stray' = Stray
        /\ \A k \in 0 .. 2 : Rest("far", k)' = Rest("far", k)
    BY <1>2 DEF BothEnded, Stray, Rest, Q
  <2>2. \A k \in 0 .. 2 : /\ Readable(k) => Readable(k)'
                          /\ Arrived(k) => Arrived(k)'
                          /\ NoMore(k) => NoMore(k)'
    BY <1>2, <2>1 DEF Readable, Arrived, NoMore, Answer
  <2>3. /\ \A e \in {"left", "reset"} : (Full(e) => Full(e)') /\ (LastOf(e) => LastOf(e)')
        /\ (Waits => Waits') /\ (WaitsAlone => WaitsAlone') /\ (Spent => Spent')
        /\ (Half => Half') /\ (Halved => Halved')
    BY <1>2, <2>1 DEF Full, LastOf, Waits, WaitsAlone, Spent, Half, Halved, Copied
  <2> QED
    BY <1>2, <2>1, <2>2, <2>3 DEF Waning
<1>3. ASSUME NEW s \in Sides, Fill(s) PROVE Waning
  <2>1. /\ buf[s] = <<>> /\ in[s] # <<>>
        /\ buf' = [buf EXCEPT ![s] = in[s]] /\ in' = [in EXCEPT ![s] = <<>>]
        /\ UNCHANGED <<stage, end, sent, script, copying>>
        /\ Reads(s) \/ (stage = "relay" /\ s \in copying)
    BY <1>3 DEF Fill
  <2>2. BothEnded' /\ \A k : Rest("far", k)' <=> Rest("far", k)
    <3>1. script' = script /\ sent'["far"] = sent["far"] /\ Q("far")' = Q("far")
      BY <1>3, <2>1, FillStill DEF Still
    <3> QED
      BY <2>1, <3>1, StillRest DEF BothEnded
  <2>3. CASE stage \in Answering
    <3>1. s = "far"
      BY <2>1, <2>3 DEF Reads, Asking, Answering
    <3>2. ~Copying /\ stage # "handshake"
      BY <1>21, <2>3 DEF Answering
    <3>3. \A k \in 0 .. 2 : ~Readable(k) /\ ~NoMore(k) /\ (Arrived(k) => Readable(k)')
      BY <2>1, <2>2, <3>1 DEF Readable, NoMore, Arrived, Answer
    <3> QED
      BY <3>2, <3>3 DEF Waning, Copying
  <2>4. CASE stage = "relay" /\ s \in copying
    <3>1. ~Reading /\ BothEnded' /\ (Half => Half' \/ Halved') /\ ~Halved
      BY <1>20, <2>1, <2>2, <2>4 DEF Half, Halved, Stray
    <3>2. CASE s = "client"
      <4>1. /\ \A e \in {"left", "reset"} : ~Full(e) /\ ~LastOf(e)
            /\ ~Spent
            /\ Waits \/ WaitsAlone => LastOf("left")' \/ LastOf("reset")'
        BY <2>1, <2>2, <2>4, <3>2 DEF Full, LastOf, Spent, Waits, WaitsAlone, Copied
      <4> QED
        BY <2>4, <3>1, <4>1 DEF Waning, Reading
    <3>3. CASE s = "far"
      <4>1. /\ \A e \in {"left", "reset"} : (Full(e) => Full(e)') /\ (LastOf(e) => LastOf(e)')
            /\ Spent => Spent'
            /\ Waits => WaitsAlone'
            /\ ~WaitsAlone
        BY <2>1, <2>2, <2>4, <3>3 DEF Full, LastOf, Spent, Waits, WaitsAlone, Copied
      <4> QED
        BY <2>4, <3>1, <4>1 DEF Waning, Reading
    <3> QED
      BY <3>2, <3>3
  <2>5. stage \notin Asking
    BY DEF EndsByStage, Asking
  <2> QED
    BY <2>1, <2>3, <2>4, <2>5 DEF Reads
<1>4. CASE ReadStatus
  <2>1. /\ stage = "status" /\ buf["far"] # <<>>
        /\ buf' = [buf EXCEPT !["far"] = Tail(@)]
        /\ UNCHANGED <<in, sent, script, end>>
        /\ stage' \in {"drain", "done"}
    BY <1>4 DEF ReadStatus, ReadLine
  <2>2. Rest("far", 0) /\ BothEnded'
    BY <2>1 DEF Inv, Exchange, Early, BothEnded
  <2>3. Rest("far", 1)'
    BY <2>1, <2>2, ReadRest
  <2>4. ~Copying /\ \A k \in 0 .. 2 : ~Arrived(k) /\ ~NoMore(k) /\ (k # 0 => ~Readable(k))
    BY <1>21, <2>1 DEF Arrived, NoMore, Readable, Answer
  <2>5. Answer(1)' \/ (stage = "done")'
    BY <2>1, <2>2, <2>3 DEF Answer
  <2> QED
    BY <2>1, <2>4, <2>5 DEF Waning, Copying
<1>5. CASE Drain
  <2>1. /\ stage = "drain" /\ buf["far"] # <<>>
        /\ buf' = [buf EXCEPT !["far"] = Tail(@)]
        /\ UNCHANGED <<in, sent, script, end>>
        /\ \/ Head(buf["far"]) = Blank /\ stage' = "relay" /\ copying' = Sides
           \/ Head(buf["far"]) # Blank /\ stage' = "drain"
    BY <1>5 DEF Drain, ReadLine
  <2>2. /\ listed /\ Granted /\ BothEnded'
        /\ script["far"][2] = Header /\ script["far"][3] = Blank
    <3>1. listed /\ Granted
      BY <2>1 DEF Inv, Exchange, Answering
    <3> QED
      BY <2>1, <3>1, ScriptFacts DEF Inv, BothEnded
  <2>3. Readable(1) => Answer(2)'
    <3>1. Readable(1) => Head(buf["far"]) = script["far"][2] /\ Rest("far", 2)'
      BY <2>1, ReadRest DEF Readable, Answer
    <3> QED
      BY <2>1, <2>2, <3>1 DEF Answer, Header, Blank
  <2>4. Readable(2) => Copied'
    <3>1. Readable(2) => Head(buf["far"]) = script["far"][3]
      BY <2>1, ReadRest DEF Readable, Answer
    <3> QED
      BY <2>1, <2>2, <3>1 DEF Copied
  <2>5. ~Copying /\ ~Readable(0) /\ \A k \in 0 .. 2 : ~Arrived(k) /\ ~NoMore(k)
    BY <1>21, <2>1 DEF Arrived, NoMore, Readable, Answer
  <2> QED
    BY <2>1, <2>3, <2>4, <2>5 DEF Waning, Copying
<1>6. ASSUME NEW s \in Sides, CopyWrite(s) PROVE Waning
  <2>1. /\ stage = "relay" /\ end[Other(s)] = "left" /\ buf[s] # <<>>
        /\ buf' = [buf EXCEPT ![s] = Tail(@)] /\ end' = [end EXCEPT ![Other(s)] = "reset"]
        /\ UNCHANGED <<stage, in, copying>>
    BY <1>6 DEF CopyWrite
  <2>2. BothEnded' /\ (Half => Half') /\ (Halved => Halved') /\ ~Reading
    BY <1>20, <2>1 DEF BothEnded, Half, Halved, Stray
  <2>3. CASE s = "client"
    <3>1. /\ ~Full("reset") /\ ~LastOf("reset") /\ ~Waits /\ ~WaitsAlone /\ ~Spent
          /\ Full("left") => Full("reset")' \/ Waits' \/ WaitsAlone'
          /\ LastOf("left") => LastOf("reset")' \/ Spent'
      BY <2>1, <2>2, <2>3 DEF Full, LastOf, Spent, Waits, WaitsAlone, Copied
    <3> QED
      BY <2>1, <2>2, <3>1 DEF Waning, Reading
  <2>4. CASE s = "far"
    <3>1. /\ \A e \in {"left", "reset"} : (Full(e) => Full(e)') /\ (LastOf(e) => LastOf(e)')
          /\ Spent => Spent'
          /\ Waits => Waits'
          /\ WaitsAlone => WaitsAlone'
      BY <2>1, <2>2, <2>4 DEF Full, LastOf, Spent, Waits, WaitsAlone, Copied
    <3> QED
      BY <2>1, <2>2, <3>1 DEF Waning, Reading
  <2> QED
    BY <2>3, <2>4
<1>7. ASSUME NEW s \in Sides, CopyEnds(s) PROVE Waning
  <2>1. /\ copying' = copying \ {s} /\ UNCHANGED <<stage, in, end>>
        /\ stage \in {"relay", "closing"}
    BY <1>7 DEF CopyEnds, Inv, Shape, TypeOK
  <2>2. BothEnded' /\ copying' # Sides /\ (Halved => Halved')
    BY <2>1 DEF BothEnded, Halved, Stray
  <2>3. CASE stage = "relay"
    <3>1. Half' \/ Halved'
      BY <2>1, <2>2, <2>3 DEF Half, Halved
    <3> QED
      BY <1>20, <2>2, <2>3, <3>1 DEF Waning, Reading
  <2> QED
    BY <1>20, <1>21, <1>22, <2>1, <2>3
<1>8. CASE CloseBoth
  <2>1. stage = "relay" /\ (stage = "closing")' /\ copying # Sides
    BY <1>8 DEF CloseBoth
  <2>2. /\ \A e \in {"left", "reset"} : ~Full(e) /\ ~LastOf(e)
        /\ ~Waits /\ ~WaitsAlone /\ ~Spent
    BY <2>1 DEF Full, LastOf, Waits, WaitsAlone, Spent, Copied
  <2> QED
    BY <1>20, <2>1, <2>2 DEF Waning, Reading
<1>9. ~Accept /\ ~ReadConnect /\ ~ReadHeader /\ ~Dial /\ ~Handshake
  BY DEF EndsByStage, Accept, ReadConnect, ReadHeader, Dial, Handshake
<1>10. \A s \in Sides : ~Send(s) /\ ~Receive(s) /\ ~Leave(s) /\ ~Cut(s)
  BY DEF BothEnded, Send, Receive, Leave, Cut
<1>11. ClaudeExits \/ HandshakeFails \/ Return \/ (\E s \in Sides : ReadFails(s))
         => (stage = "done")'
  BY DEF ClaudeExits, HandshakeFails, Return, ReadFails
<1>12. StartHelper \/ AcceptFails \/ UNCHANGED vars
         => UNCHANGED <<stage, end, buf, in, sent, script, copying>>
  BY DEF StartHelper, AcceptFails, vars
<1> QED
  BY <1>1, <1>2, <1>3, <1>4, <1>5, <1>6, <1>7, <1>8, <1>9, <1>10, <1>11, <1>12
     DEF Next, Peers

\* A step of handle's own, or of relay's, is a step on; ...
LEMMA OwnWanes ==
    ASSUME Inv, Own
    PROVE  /\ ~((BothEnded /\ stage = "handshake") /\ (BothEnded /\ stage = "handshake")')
           /\ \A k \in 0 .. 2 : /\ ~(Readable(k) /\ Readable(k)')
                                /\ ~(Arrived(k) /\ Arrived(k)')
                                /\ ~(NoMore(k) /\ NoMore(k)')
           /\ ~(Waits /\ Waits') /\ ~(WaitsAlone /\ WaitsAlone')
           /\ ~(Half /\ Half') /\ ~(Halved /\ Halved')
<1> DEFINE Goal == /\ \A k \in 0 .. 2 : /\ ~(Readable(k) /\ Readable(k)')
                                        /\ ~(Arrived(k) /\ Arrived(k)')
                                        /\ ~(NoMore(k) /\ NoMore(k)')
                   /\ ~(Waits /\ Waits') /\ ~(WaitsAlone /\ WaitsAlone')
                   /\ ~(Half /\ Half') /\ ~(Halved /\ Halved')
<1>0. /\ "client" \in Sides /\ "far" \in Sides /\ Sides = {"client", "far"}
      /\ in \in [Sides -> Seq(Units)] /\ buf \in [Sides -> Seq(Units)]
      /\ copying \subseteq Sides
  BY DEF Inv, Shape, TypeOK, Streams, Sides
<1> USE <1>0
<1>1. ASSUME (stage # stage')
      PROVE  Goal /\ ~(stage = "handshake" /\ (stage = "handshake")')
  <2>1. CASE stage = "status"
    BY <1>1, <2>1 DEF Readable, Arrived, NoMore, Answer, Waits, WaitsAlone, Half, Halved, Copied
  <2>2. CASE stage # "status"
    BY <1>1, <2>2 DEF Readable, Arrived, NoMore, Answer, Waits, WaitsAlone, Half, Halved, Copied
  <2> QED
    BY <1>1, <2>1, <2>2
<1>2. CASE Drain
  <2>1. /\ stage = "drain" /\ buf["far"] # <<>>
        /\ buf' = [buf EXCEPT !["far"] = Tail(@)] /\ UNCHANGED <<in, sent, script>>
    BY <1>2 DEF Drain, ReadLine
  <2>2. ASSUME NEW k \in 0 .. 2, Readable(k) PROVE ~Rest("far", k)'
    <3>1. Rest("far", k) /\ Rest("far", k + 1)' /\ sent["far"] \in Nat
      BY <2>1, <2>2, ReadRest DEF Readable, Answer, Inv, Shape
    <3>2. Len(Q("far")') = sent["far"] - (k + 1)
      BY <2>1, <3>1 DEF Rest
    <3> QED
      BY <2>1, <3>1, <3>2 DEF Rest
  <2> QED
    BY <2>1, <2>2 DEF Readable, Arrived, NoMore, Answer, Waits, WaitsAlone, Half, Halved,
                      Copied
<1>3. ASSUME NEW s \in Sides, Fill(s) PROVE Goal /\ stage \notin {"handshake"}
  <2>1. /\ buf[s] = <<>> /\ in[s] # <<>>
        /\ buf' = [buf EXCEPT ![s] = in[s]] /\ in' = [in EXCEPT ![s] = <<>>]
        /\ UNCHANGED <<stage, copying>>
        /\ Reads(s) \/ (stage = "relay" /\ s \in copying)
    BY <1>3 DEF Fill
  <2>2. stage # "handshake" /\ (stage \in Answering => s = "far")
    BY <2>1 DEF Reads, Asking, Answering
  <2>3. ASSUME NEW k \in 0 .. 2
        PROVE  /\ ~(Readable(k) /\ Readable(k)') /\ ~(Arrived(k) /\ Arrived(k)')
               /\ ~(NoMore(k) /\ NoMore(k)')
    BY <2>1, <2>2 DEF Readable, Arrived, NoMore, Answer, Answering
  <2>4. ~(Waits /\ Waits') /\ ~(WaitsAlone /\ WaitsAlone')
    BY <2>1 DEF Waits, WaitsAlone, Copied, Reads, Asking, Answering
  <2>5. ~(Half /\ Half') /\ ~(Halved /\ Halved')
    BY <2>1 DEF Half, Halved, Stray, Reads, Asking, Answering
  <2> QED
    BY <2>2, <2>3, <2>4, <2>5
<1>4. CASE ReadHeader
  BY <1>4 DEF ReadHeader, Readable, Arrived, NoMore, Answer, Waits, WaitsAlone, Half,
              Halved, Copied
<1>5. ReadConnect \/ ReadStatus \/ Dial \/ HandshakeFails \/ CloseBoth \/ Return
        \/ (\E s \in Sides : ReadFails(s))
        => stage # stage'
  BY DEF ReadConnect, ReadStatus, ReadLine, Dial, HandshakeFails, CloseBoth, Return,
         ReadFails, Reads, Asking, Answering
<1>6. ReadHeader \/ Drain => stage # "handshake"
  BY DEF ReadHeader, Drain
<1> QED
  BY <1>1, <1>2, <1>3, <1>4, <1>5, <1>6 DEF Own

\* ... and so is one of the copier of what claude sent.
LEMMA CopierWanes ==
    ASSUME Inv, Copier("client")
    PROVE  /\ \A e \in {"left", "reset"} : ~(Full(e) /\ Full(e)') /\ ~(LastOf(e) /\ LastOf(e)')
           /\ ~(Spent /\ Spent')
<1>0. "client" \in Sides /\ "far" \in Sides /\ Other("client") = "far"
      /\ end \in [Sides -> {"none", "open", "left", "reset", "cut"}]
  BY OtherSide DEF Inv, Shape, TypeOK, Sides
<1>1. CASE CopyWrite("client")
  BY <1>0, <1>1 DEF CopyWrite, Full, LastOf, Spent, Copied, BothEnded
<1>2. CASE CopyEnds("client")
  BY <1>0, <1>2 DEF CopyEnds, Full, LastOf, Spent, Copied
<1> QED
  BY <1>1, <1>2 DEF Copier

\* Who has a step, at each of them.
LEMMA WhoIsReady ==
    ASSUME Inv
    PROVE  /\ BothEnded /\ stage = "handshake" => OwnReady
           /\ \A k \in 0 .. 2 : Readable(k) \/ Arrived(k) \/ NoMore(k) => OwnReady
           /\ Waits \/ WaitsAlone \/ Half \/ Halved => OwnReady
           /\ \A e \in {"left", "reset"} : Full(e) \/ LastOf(e) => CopierReady("client")
           /\ Spent => CopierReady("client")
<1>0. "client" \in Sides /\ "far" \in Sides /\ Other("client") = "far"
  BY OtherSide DEF Sides
<1>1. /\ BothEnded /\ stage = "handshake" => OwnReady
      /\ Half \/ Halved => OwnReady
  BY <1>0 DEF OwnReady, BothEnded, Half, Halved
<1>2. ASSUME NEW k \in 0 .. 2, Answer(k)
      PROVE  Readable(k) \/ Arrived(k) \/ NoMore(k) => OwnReady
  <2>1. stage \in Answering /\ Reads("far") /\ end["far"] \in {"left", "reset"}
    BY <1>0, <1>2 DEF Answer, Answering, Reads, BothEnded
  <2> QED
    BY <1>0, <2>1 DEF Readable, Arrived, NoMore, OwnReady, AtEnd
<1>3. \A k \in 0 .. 2 : Readable(k) \/ Arrived(k) \/ NoMore(k) => Answer(k)
  BY DEF Readable, Arrived, NoMore
<1>4. Waits \/ WaitsAlone => OwnReady
  BY <1>0 DEF Waits, WaitsAlone, Copied, OwnReady
<1>5. /\ \A e \in {"left", "reset"} : Full(e) \/ LastOf(e) => CopierReady("client")
      /\ Spent => CopierReady("client")
  BY <1>0 DEF Full, LastOf, Spent, Copied, CopierReady, AtEnd, BothEnded
<1> QED
  BY <1>1, <1>2, <1>3, <1>4, <1>5

\* With k lines read, one more is read, which ends the exchange when it was
\* the third, or handle returns; ...
AnswerLeads(k) ==
    /\ Arrived(k) ~> Readable(k) \/ stage = "done"
    /\ NoMore(k) ~> stage = "done"
    /\ Readable(k) ~> \/ k # 2 /\ Answer(k + 1)
                      \/ k = 2 /\ Copied
                      \/ stage = "done"

LEMMA AnswerEnds ==
    ASSUME NEW k \in 0 .. 2
    PROVE  Init /\ [][Next]_vars /\ Scheduled => AnswerLeads(k)
<1> DEFINE Done  == stage = "done"
           Next1 == (k # 2 /\ Answer(k + 1)) \/ (k = 2 /\ Copied)
           Fair  == Init /\ [][Next]_vars /\ Scheduled
<1>1. Fair => [](Inv /\ EndsByStage) /\ [][Next]_vars /\ (<>[]OwnReady => []<><<Own>>_vars)
  BY InitInv, NextInv, DialedLater, PTL DEF Scheduled
<1>2. Inv /\ EndsByStage /\ [Next]_vars
        => /\ Arrived(k) => Arrived(k)' \/ Readable(k)' \/ Done'
           /\ NoMore(k) => NoMore(k)' \/ Done'
           /\ Readable(k) => Readable(k)' \/ Next1' \/ Done'
  <2> SUFFICES ASSUME Inv, EndsByStage, [Next]_vars, BothEnded
               PROVE  /\ Arrived(k) => Arrived(k)' \/ Readable(k)' \/ Done'
                      /\ NoMore(k) => NoMore(k)' \/ Done'
                      /\ Readable(k) => Readable(k)' \/ Next1' \/ Done'
    BY DEF Arrived, NoMore, Readable, Answer
  <2>1. Waning
    BY Wanes
  <2>2. CASE k = 0
    BY <2>1, <2>2 DEF Waning
  <2>3. CASE k = 1
    BY <2>1, <2>3 DEF Waning
  <2>4. CASE k = 2
    BY <2>1, <2>4 DEF Waning
  <2> QED
    BY <2>2, <2>3, <2>4
<1>3. Inv /\ <<Own>>_vars => /\ ~(Readable(k) /\ Readable(k)') /\ ~(Arrived(k) /\ Arrived(k)')
                             /\ ~(NoMore(k) /\ NoMore(k)')
  BY OwnWanes
<1>4. Inv => /\ Arrived(k) => OwnReady
             /\ NoMore(k) => OwnReady
             /\ Readable(k) => OwnReady
  BY WhoIsReady
<1> HIDE DEF Done, Next1, Fair
<1>5. Fair => Arrived(k) ~> Readable(k) \/ Done
  BY <1>1, <1>2, <1>3, <1>4, PTL
<1>6. Fair => NoMore(k) ~> Done
  BY <1>1, <1>2, <1>3, <1>4, PTL
<1>7. Fair => Readable(k) ~> Next1 \/ Done
  BY <1>1, <1>2, <1>3, <1>4, PTL
<1>8. Next1 => (k # 2 /\ Answer(k + 1)) \/ (k = 2 /\ Copied)
  BY DEF Next1
<1> QED
  BY <1>5, <1>6, <1>7, <1>8, PTL DEF Fair, Done, AnswerLeads

\* ... while both directions are copied, and when one of them is no more.
LEMMA CopiesEnd ==
    Init /\ [][Next]_vars /\ Scheduled => (BothEnded /\ stage = "relay" ~> stage = "done")
<1> DEFINE Done    == stage = "done"
           Closing == stage = "closing"
           Out     == Half \/ Halved \/ Done
           Fair    == Init /\ [][Next]_vars /\ Scheduled
<1>1. Fair => /\ [](Inv /\ EndsByStage) /\ [][Next]_vars
              /\ <>[]OwnReady => []<><<Own>>_vars
              /\ ScheduledCopier("client")
  <2>1. Scheduled => /\ <>[]OwnReady => []<><<Own>>_vars
                     /\ ScheduledCopier("client")
    BY DEF Scheduled, Sides
  <2> QED
    BY <2>1, InitInv, NextInv, DialedLater, PTL
<1>2. Inv /\ EndsByStage /\ [Next]_vars
        => /\ Full("left") => \/ Full("left")' \/ Full("reset")' \/ Waits' \/ WaitsAlone'
                              \/ Out'
           /\ Full("reset") => Full("reset")' \/ Out'
           /\ Waits => Waits' \/ WaitsAlone' \/ LastOf("left")' \/ LastOf("reset")' \/ Out'
           /\ WaitsAlone => WaitsAlone' \/ LastOf("left")' \/ LastOf("reset")' \/ Out'
           /\ LastOf("left") => LastOf("left")' \/ LastOf("reset")' \/ Spent' \/ Out'
           /\ LastOf("reset") => LastOf("reset")' \/ Out'
           /\ Spent => Spent' \/ Out'
           /\ Half => Half' \/ Halved' \/ Closing' \/ Done'
           /\ Halved => Halved' \/ Closing' \/ Done'
  <2>1. Inv /\ EndsByStage /\ BothEnded /\ [Next]_vars => Waning
    BY Wanes
  <2>2. /\ \A e \in {"left", "reset"} : Full(e) \/ LastOf(e) => BothEnded
        /\ Waits \/ WaitsAlone \/ Spent \/ Half \/ Halved => BothEnded
    BY DEF Full, LastOf, Waits, WaitsAlone, Spent, Half, Halved, Copied
  <2> QED
    BY <2>1, <2>2 DEF Waning
<1>3. Inv /\ <<Own>>_vars => /\ ~(Waits /\ Waits') /\ ~(WaitsAlone /\ WaitsAlone')
                             /\ ~(Half /\ Half') /\ ~(Halved /\ Halved')
  BY OwnWanes
<1>4. Inv /\ <<Copier("client")>>_vars
        => /\ ~(Full("left") /\ Full("left")') /\ ~(LastOf("left") /\ LastOf("left")')
           /\ ~(Full("reset") /\ Full("reset")') /\ ~(LastOf("reset") /\ LastOf("reset")')
           /\ ~(Spent /\ Spent')
  BY CopierWanes
<1>5. Inv => /\ Waits \/ WaitsAlone \/ Half \/ Halved => OwnReady
             /\ \/ Full("left") \/ Full("reset") \/ LastOf("left") \/ LastOf("reset")
                \/ Spent
                => CopierReady("client")
  BY WhoIsReady
<1>6. Inv /\ BothEnded /\ stage = "relay"
        => \/ Full("left") \/ Full("reset") \/ LastOf("left") \/ LastOf("reset")
           \/ Waits \/ WaitsAlone \/ Spent \/ Half \/ Halved
  <2>1. Inv /\ BothEnded => end["far"] \in {"left", "reset"}
    BY DEF BothEnded, Sides
  <2> QED
    BY <2>1 DEF Full, LastOf, Waits, WaitsAlone, Spent, Half, Halved, Copied
<1>7. Fair => (Closing ~> Done)
  BY RelayReturns
<1> HIDE DEF Done, Closing, Out, Fair
<1>8. Fair => (Halved ~> Done)
  BY <1>1, <1>2, <1>3, <1>5, <1>7, PTL
<1>9. Fair => (Out ~> Done)
  <2>1. Out => Half \/ Halved \/ Done
    BY DEF Out
  <2>2. Fair => (Half ~> Halved \/ Closing \/ Done)
    BY <1>1, <1>2, <1>3, <1>5, PTL
  <2> QED
    BY <1>7, <1>8, <2>1, <2>2, PTL
<1>10. Fair => /\ Spent ~> Out
               /\ LastOf("reset") ~> Out
               /\ Full("reset") ~> Out
  BY <1>1, <1>2, <1>4, <1>5, PTL DEF ScheduledCopier
<1>11. Fair => (LastOf("left") ~> LastOf("reset") \/ Spent \/ Out)
  BY <1>1, <1>2, <1>4, <1>5, PTL DEF ScheduledCopier
<1>12. Fair => (WaitsAlone ~> LastOf("left") \/ LastOf("reset") \/ Out)
  BY <1>1, <1>2, <1>3, <1>5, PTL
<1>13. Fair => (Waits ~> WaitsAlone \/ LastOf("left") \/ LastOf("reset") \/ Out)
  BY <1>1, <1>2, <1>3, <1>5, PTL
<1>14. Fair => (Full("left") ~> Full("reset") \/ Waits \/ WaitsAlone \/ Out)
  BY <1>1, <1>2, <1>4, <1>5, PTL DEF ScheduledCopier
<1>15. Fair => (Waits \/ WaitsAlone \/ LastOf("left") \/ LastOf("reset") \/ Spent ~> Out)
  BY <1>10, <1>11, <1>12, <1>13, PTL
<1>16. Fair => (BothEnded /\ stage = "relay" ~> Out)
  BY <1>1, <1>6, <1>10, <1>14, <1>15, <1>9, PTL DEF Out
<1>17. Fair => (BothEnded /\ stage = "relay" ~> Done)
  BY <1>9, <1>16, PTL
<1> QED
  BY <1>17 DEF Fair, Done

\* Claude's connection is gone while its CONNECT is read, of which k lines
\* were: there is something in the reader, only on its way to it, or nothing.
Asks(k)     == /\ end["client"] \in {"left", "reset"} /\ Rest("client", k)
               /\ stage = (IF k = 0 THEN "line" ELSE "headers")
HasLine(k)  == Asks(k) /\ buf["client"] # <<>>
Coming(k)   == Asks(k) /\ buf["client"] = <<>> /\ in["client"] # <<>>
NoLine(k)   == Asks(k) /\ buf["client"] = <<>> /\ in["client"] = <<>>

\* A step leaves it so, or moves it on: ReadHeader's last line to the dialing.
LEMMA AskingMoves ==
    ASSUME Inv, EndsByStage, [Next]_vars, NEW k \in 0 .. 2, Asks(k)
    PROVE  /\ Coming(k) => Coming(k)' \/ HasLine(k)' \/ (stage = "done")'
           /\ NoLine(k) => NoLine(k)' \/ (stage = "done")'
           /\ HasLine(k) => \/ HasLine(k)' \/ (k # 2 /\ Asks(k + 1))' \/ (stage = "dial")'
                            \/ (stage = "done")'
           /\ Own => /\ ~(Coming(k) /\ Coming(k)') /\ ~(NoLine(k) /\ NoLine(k)')
                     /\ ~(HasLine(k) /\ HasLine(k)')
           /\ OwnReady
<1>1. /\ "client" \in Sides /\ "far" \in Sides /\ Sides = {"client", "far"}
      /\ in \in [Sides -> Seq(Units)] /\ buf \in [Sides -> Seq(Units)]
      /\ end \in [Sides -> {"none", "open", "left", "reset", "cut"}]
      /\ stage \in {"line", "headers"} /\ end["client"] \in {"left", "reset"}
      /\ end["far"] = "none" /\ copying = {} /\ sent["client"] \in Nat
  BY DEF Inv, Shape, TypeOK, Streams, Sides, Asks, EndsByStage
<1> USE <1>1
<1> DEFINE Goal == /\ Coming(k) => Coming(k)' \/ HasLine(k)' \/ (stage = "done")'
                   /\ NoLine(k) => NoLine(k)' \/ (stage = "done")'
                   /\ HasLine(k) => \/ HasLine(k)' \/ (k # 2 /\ Asks(k + 1))'
                                    \/ (stage = "dial")' \/ (stage = "done")'
           Moved == /\ ~(Coming(k) /\ Coming(k)') /\ ~(NoLine(k) /\ NoLine(k)')
                    /\ ~(HasLine(k) /\ HasLine(k)')
<1>2. OwnReady
  BY DEF OwnReady, Asking, Reads, AtEnd
<1>3. ASSUME (stage = "done")' PROVE Goal /\ Moved
  BY <1>3 DEF Coming, NoLine, HasLine, Asks
<1>4. ASSUME UNCHANGED <<stage, end, buf, in, sent, script>> PROVE Goal
  <2>1. Rest("client", k)' = Rest("client", k)
    BY <1>4 DEF Rest, Q
  <2> QED
    BY <1>4, <2>1 DEF Coming, NoLine, HasLine, Asks
<1>5. ASSUME NEW s \in Sides, Fill(s) PROVE Goal /\ Moved
  <2>1. /\ s = "client" /\ buf[s] = <<>> /\ in[s] # <<>>
        /\ buf' = [buf EXCEPT ![s] = in[s]] /\ in' = [in EXCEPT ![s] = <<>>]
        /\ UNCHANGED <<stage, end, sent, script>>
    BY <1>5 DEF Fill, Reads, Answering
  <2>2. Rest("client", k)' <=> Rest("client", k)
    <3>1. Q("client")' = Q("client")
      BY <1>5, FillStill DEF Still
    <3> QED
      BY <2>1, <3>1, StillRest
  <2> QED
    BY <2>1, <2>2 DEF Coming, NoLine, HasLine, Asks
<1>6. ASSUME ReadConnect \/ ReadHeader PROVE Goal /\ Moved
  <2>1. /\ buf["client"] # <<>> /\ buf' = [buf EXCEPT !["client"] = Tail(@)]
        /\ UNCHANGED <<in, sent, script, end>>
        /\ stage' \in {"headers", "dial", "done"}
        /\ stage' = "headers" /\ stage = "headers" => Head(buf["client"]) # Blank
    BY <1>6 DEF ReadConnect, ReadHeader, ReadLine
  <2>2. /\ Head(buf["client"]) = script["client"][k + 1] /\ Rest("client", k + 1)'
    BY <2>1, ReadRest DEF Asks
  <2>3. ~Rest("client", k)'
    <3>1. Len(Q("client")') = sent["client"] - (k + 1) /\ k + 1 <= sent["client"]
      BY <2>1, <2>2 DEF Rest
    <3>2. sent["client"] - (k + 1) # sent["client"] - k
      OBVIOUS
    <3> QED
      BY <2>1, <3>1, <3>2 DEF Rest
  <2>4. stage' = "headers" => k # 2
    <3>1. Asks(2) => Asked
      BY DEF Inv, Exchange, Asks
    <3>2. Asked => script["client"][3] = Blank
      BY ScriptFacts DEF Inv
    <3>3. ASSUME k = 2, stage' = "headers" PROVE FALSE
      <4>1. stage = "headers" /\ Head(buf["client"]) = script["client"][3]
        BY <2>2, <3>3 DEF Asks
      <4> QED
        BY <2>1, <3>1, <3>2, <3>3, <4>1
    <3> QED
      BY <3>3
  <2>5. stage' = "headers" => (k # 2 /\ Asks(k + 1))'
    BY <2>1, <2>2, <2>4 DEF Asks
  <2>6. Moved
    BY <2>3 DEF Coming, NoLine, HasLine, Asks
  <2>7. ~Coming(k) /\ ~NoLine(k)
    BY <2>1 DEF Coming, NoLine
  <2> QED
    BY <2>1, <2>5, <2>6, <2>7
<1>7. StartHelper \/ AcceptFails \/ UNCHANGED vars
        => UNCHANGED <<stage, end, buf, in, sent, script>>
  BY DEF StartHelper, AcceptFails, vars
<1>8. ClaudeExits \/ (\E s \in Sides : ReadFails(s)) => (stage = "done")'
  BY DEF ClaudeExits, ReadFails
<1>9. /\ ~Accept /\ ~Dial /\ ~Handshake /\ ~HandshakeFails /\ ~ReadStatus /\ ~Drain
      /\ ~CloseBoth /\ ~Return
      /\ \A s \in Sides : ~CopyWrite(s) /\ ~CopyEnds(s)
  BY DEF Accept, Dial, Handshake, HandshakeFails, ReadStatus, Drain, CloseBoth, Return,
         CopyWrite, CopyEnds
<1>10. \A s \in Sides : ~Send(s) /\ ~Receive(s) /\ ~Leave(s) /\ ~Cut(s)
  BY DEF Send, Receive, Leave, Cut
<1>11. Goal
  BY <1>3, <1>4, <1>5, <1>6, <1>7, <1>8, <1>9, <1>10 DEF Next, Peers
<1>12. Own => Moved
  BY <1>3, <1>5, <1>6, <1>8, <1>9 DEF Own
<1> QED
  BY <1>2, <1>11, <1>12

AskingLeads(k) ==
    Asks(k) ~> \/ k # 2 /\ Asks(k + 1)
               \/ stage = "dial"
               \/ stage = "done"

LEMMA AskingEnds ==
    ASSUME NEW k \in 0 .. 2
    PROVE  Init /\ [][Next]_vars /\ Scheduled => AskingLeads(k)
<1> DEFINE Out  == (k # 2 /\ Asks(k + 1)) \/ stage = "dial" \/ stage = "done"
           Done == stage = "done"
           Fair == Init /\ [][Next]_vars /\ Scheduled
<1>1. Fair => [](Inv /\ EndsByStage) /\ [][Next]_vars /\ (<>[]OwnReady => []<><<Own>>_vars)
  BY InitInv, NextInv, DialedLater, PTL DEF Scheduled
<1>2. Coming(k) \/ NoLine(k) \/ HasLine(k) <=> Asks(k)
  BY DEF Coming, NoLine, HasLine
<1>3. Done => Out
  BY DEF Out, Done
<1>4. Inv /\ EndsByStage /\ [Next]_vars
        => /\ Coming(k) => Coming(k)' \/ HasLine(k)' \/ Done'
           /\ NoLine(k) => NoLine(k)' \/ Done'
           /\ HasLine(k) => HasLine(k)' \/ Out'
  BY <1>2, AskingMoves
<1>5. Inv /\ EndsByStage /\ <<Next /\ Own>>_vars
        => /\ ~(Coming(k) /\ Coming(k)') /\ ~(NoLine(k) /\ NoLine(k)')
           /\ ~(HasLine(k) /\ HasLine(k)')
  BY <1>2, AskingMoves
<1>6. Inv /\ EndsByStage => (Asks(k) => OwnReady)
  BY DEF Inv, Shape, TypeOK, EndsByStage, Asks, OwnReady, Asking, Reads, AtEnd, Sides
<1> HIDE DEF Out, Done, Fair
<1>7. Own => Next
  BY DEF Own, Next
<1>8. Inv /\ EndsByStage /\ <<Own>>_vars
        => /\ ~(Coming(k) /\ Coming(k)') /\ ~(NoLine(k) /\ NoLine(k)')
           /\ ~(HasLine(k) /\ HasLine(k)')
  BY <1>5, <1>7
<1>9. Fair => HasLine(k) ~> Out
  BY <1>1, <1>2, <1>4, <1>6, <1>8, PTL
<1>10. Fair => Coming(k) ~> HasLine(k) \/ Out
  BY <1>1, <1>2, <1>3, <1>4, <1>6, <1>8, PTL
<1>11. Fair => NoLine(k) ~> Out
  BY <1>1, <1>2, <1>3, <1>4, <1>6, <1>8, PTL
<1>12. Fair => Asks(k) ~> Out
  BY <1>2, <1>9, <1>10, <1>11, PTL
<1> QED
  BY <1>12, PTL DEF Fair, Out, AskingLeads

\* What is dialed is reached, with a connection to it, or is given up.
LEMMA DialingEnds ==
    Init /\ [][Next]_vars /\ Scheduled
      => (stage = "dial" ~> stage = "done" \/ end["far"] = "open")
<1> DEFINE Dialing == stage = "dial"
           Out     == stage = "done" \/ end["far"] = "open"
           Fair    == Init /\ [][Next]_vars /\ Scheduled
<1>1. Fair => []Inv /\ [][Next]_vars /\ (<>[]OwnReady => []<><<Own>>_vars)
  BY InitInv, NextInv, PTL DEF Scheduled
<1>2. Inv /\ [Next]_vars /\ Dialing => (Dialing' \/ Out') /\ (Own => ~Dialing')
  <2> SUFFICES ASSUME Inv, [Next]_vars, Dialing
               PROVE  (Dialing' \/ Out') /\ (Own => ~Dialing')
    OBVIOUS
  <2>1. end \in [Sides -> {"none", "open", "left", "reset", "cut"}] /\ "far" \in Sides
        /\ copying = {}
    BY DEF Inv, Shape, TypeOK, Sides
  <2>2. CASE Dial
    BY <2>1, <2>2 DEF Dial
  <2>3. CASE ClaudeExits
    BY <2>1, <2>3 DEF ClaudeExits, Own, Dial, ReadConnect, ReadHeader, ReadStatus, Drain,
       HandshakeFails, CloseBoth, Return, Fill, ReadFails, Reads, Asking, Answering
  <2>4. ASSUME stage' = stage PROVE ~Own
    BY <2>1, <2>4 DEF Own, Dial, ReadConnect, ReadHeader, ReadStatus, Drain, HandshakeFails,
       CloseBoth, Return, Fill, ReadFails, Reads, Asking, Answering
  <2>5. CASE StartHelper \/ AcceptFails \/ Peers \/ UNCHANGED vars
    BY <2>4, <2>5 DEF StartHelper, AcceptFails, Peers, Send, Receive, Leave, Cut, vars
  <2>6. /\ ~Accept /\ ~ReadConnect /\ ~ReadHeader /\ ~Handshake /\ ~HandshakeFails
        /\ ~ReadStatus /\ ~Drain /\ ~CloseBoth /\ ~Return
        /\ \A s \in Sides : ~Fill(s) /\ ~ReadFails(s) /\ ~CopyWrite(s) /\ ~CopyEnds(s)
    BY <2>1 DEF Accept, ReadConnect, ReadHeader, Handshake, HandshakeFails, ReadStatus,
       Drain, CloseBoth, Return, Fill, ReadFails, Reads, Asking, Answering, CopyWrite, CopyEnds
  <2> QED
    BY <2>2, <2>3, <2>5, <2>6 DEF Next
<1>3. Dialing => OwnReady
  BY DEF OwnReady
<1> HIDE DEF Dialing, Out, Fair
<1>4. Fair => (Dialing ~> Out)
  BY <1>1, <1>2, <1>3, PTL
<1> QED
  BY <1>4 DEF Dialing, Out, Fair

\* When both sides have ended handle returns, whatever is still in its
\* readers: no read of the exchange with the proxy and no copy waits for a peer
\* that is gone (handle, relay).
LEMMA BothEndedEnds ==
    Init /\ [][Next]_vars /\ Scheduled => (BothEnded ~> stage = "done")
<1> DEFINE Done == stage = "done"
           Fair == Init /\ [][Next]_vars /\ Scheduled
           Hand == BothEnded /\ stage = "handshake"
           Rel  == BothEnded /\ stage = "relay"
           Clos == stage = "closing"
<1>1. Fair => [](Inv /\ EndsByStage) /\ [][Next]_vars /\ (<>[]OwnReady => []<><<Own>>_vars)
  BY InitInv, NextInv, DialedLater, PTL DEF Scheduled
<1>2. Inv /\ EndsByStage /\ BothEnded
        => Hand \/ Rel \/ Clos \/ Done \/ Answer(0) \/ Answer(1) \/ Answer(2)
  BY DEF Inv, Exchange, Shape, TypeOK, Stages, Asking, Answering, Early, EndsByStage,
         BothEnded, Answer, Sides
<1>3. \A k \in 0 .. 2 : Answer(k) => Readable(k) \/ Arrived(k) \/ NoMore(k)
  BY DEF Readable, Arrived, NoMore
<1>4. Copied => Rel
  BY DEF Copied
<1>5. Fair => (Hand ~> Done)
  <2>1. Inv /\ EndsByStage /\ [Next]_vars => (Hand => Hand' \/ Done')
    BY Wanes DEF Waning
  <2>2. Inv /\ <<Own>>_vars => ~(Hand /\ Hand')
    BY OwnWanes
  <2>3. Inv => (Hand => OwnReady)
    BY WhoIsReady
  <2> HIDE DEF Hand, Done, Fair
  <2> QED
    BY <1>1, <2>1, <2>2, <2>3, PTL
<1>6. Fair => (Rel ~> Done) /\ (Clos ~> Done)
  BY CopiesEnd, RelayReturns, PTL
<1>7. Fair => AnswerLeads(0) /\ AnswerLeads(1) /\ AnswerLeads(2)
  BY AnswerEnds
<1>8. /\ 0 # 2 /\ Answer(0 + 1) => Answer(1)
      /\ 1 # 2 /\ Answer(1 + 1) => Answer(2)
      /\ 0 # 2 /\ 1 # 2 /\ ~(0 = 2) /\ ~(1 = 2) /\ ~(2 # 2)
  OBVIOUS
<1>9. /\ Answer(0) => Readable(0) \/ Arrived(0) \/ NoMore(0)
      /\ Answer(1) => Readable(1) \/ Arrived(1) \/ NoMore(1)
      /\ Answer(2) => Readable(2) \/ Arrived(2) \/ NoMore(2)
  BY <1>3
<1>10. Done <=> stage = "done"
  OBVIOUS
<1> HIDE DEF Hand, Done, Fair, Rel, Clos
<1>11. Fair => (Answer(2) ~> Done)
  BY <1>4, <1>6, <1>7, <1>8, <1>9, <1>10, PTL DEF AnswerLeads
<1>12. Fair => (Answer(1) ~> Done)
  BY <1>7, <1>8, <1>9, <1>10, <1>11, PTL DEF AnswerLeads
<1>13. Fair => (Answer(0) ~> Done)
  BY <1>7, <1>8, <1>9, <1>10, <1>12, PTL DEF AnswerLeads
<1>14. Fair => (BothEnded ~> Done)
  BY <1>1, <1>2, <1>5, <1>6, <1>11, <1>12, <1>13, PTL
<1> QED
  BY <1>14 DEF Fair, Done

\* When no connection is left handle returns, whatever it was doing and
\* whatever is still in its readers, or goes on to open one: no read of
\* claude's CONNECT, of the exchange with the proxy or of a copy waits for a
\* peer that is gone (handle, relay).  It is the first conjunct of HandleEnds.
THEOREM HandleEndsForBoth ==
    Init /\ [][Next]_vars /\ Scheduled
      => (stage # "none" /\ (\A s \in Sides : end[s] # "open")
            ~> stage = "done" \/ end["far"] = "open")
<1> DEFINE Left    == stage # "none" /\ (\A s \in Sides : end[s] # "open")
           Done    == stage = "done"
           Closing == stage = "closing"
           Dialing == stage = "dial"
           Open    == end["far"] = "open"
           Fair    == Init /\ [][Next]_vars /\ Scheduled
<1>1. Fair => [](Inv /\ EndsByStage)
  BY InitInv, NextInv, DialedLater, PTL
<1>2. Inv /\ EndsByStage /\ Left
        => Done \/ Closing \/ BothEnded \/ Dialing \/ Asks(0) \/ Asks(1) \/ Asks(2)
  <2> SUFFICES ASSUME Inv, EndsByStage, Left, ~Done, ~Closing, ~Dialing
               PROVE  BothEnded \/ Asks(0) \/ Asks(1) \/ Asks(2)
    OBVIOUS
  <2>1. end \in [Sides -> {"none", "open", "left", "reset", "cut"}] /\ stage \in Stages
        /\ "client" \in Sides /\ "far" \in Sides
    BY DEF Inv, Shape, TypeOK, Sides
  <2>2. end["client"] \in {"left", "reset"}
    BY <2>1 DEF EndsByStage
  <2>3. CASE stage \in Asking
    BY <2>2, <2>3 DEF Inv, Exchange, Asks, Asking
  <2>4. CASE stage \notin Asking
    <3>1. end["far"] \in {"left", "reset"}
      BY <2>1, <2>4 DEF EndsByStage, Stages
    <3> QED
      BY <2>2, <3>1 DEF BothEnded, Sides
  <2> QED
    BY <2>3, <2>4
<1>3. Fair => (BothEnded ~> Done) /\ (Closing ~> Done) /\ (Dialing ~> Done \/ Open)
  BY BothEndedEnds, RelayReturns, DialingEnds
<1>4. Fair => AskingLeads(0) /\ AskingLeads(1) /\ AskingLeads(2)
  BY AskingEnds
<1>5. /\ 0 # 2 /\ Asks(0 + 1) => Asks(1)
      /\ 1 # 2 /\ Asks(1 + 1) => Asks(2)
      /\ ~(2 # 2)
  OBVIOUS
<1>6. (Done <=> stage = "done") /\ (Dialing <=> stage = "dial")
  OBVIOUS
<1> HIDE DEF Left, Done, Closing, Dialing, Open, Fair
<1>7. Fair => (Asks(2) ~> Done \/ Dialing)
  BY <1>4, <1>5, <1>6, PTL DEF AskingLeads
<1>8. Fair => (Asks(1) ~> Done \/ Dialing)
  BY <1>4, <1>5, <1>6, <1>7, PTL DEF AskingLeads
<1>9. Fair => (Asks(0) ~> Done \/ Dialing)
  BY <1>4, <1>5, <1>6, <1>8, PTL DEF AskingLeads
<1>10. Fair => (Left ~> Done \/ Open)
  BY <1>1, <1>2, <1>3, <1>7, <1>8, <1>9, PTL
<1> QED
  BY <1>10 DEF Left, Done, Open, Fair
=============================================================================
