------------------------------- MODULE Splitter -------------------------------
(***************************************************************************)
(* internal/splitter, run by the helper beside claude on a device: one     *)
(* connection of claude's, its CONNECT, the connection made for it (by     *)
(* outer TLS to the proxy for a host of the allow list, else straight to   *)
(* the host), and relay's two copying goroutines.  Connections share only  *)
(* a configuration, so one stands for all.                                 *)
(*                                                                         *)
(* What is sent is a sequence of units: lines of the CONNECT exchange are  *)
(* negative numbers, the payload after them counts from 1.                 *)
(***************************************************************************)
EXTENDS Integers, Sequences, SequencesExt

CONSTANTS
    Payload,     \* payload units each side has to send
    Cap          \* units that fit between the splitter and a peer that does not read

ASSUME SizesAssumption == Payload \in Nat /\ Cap \in Nat \ {0}

Sides == {"client", "far"}
Other(s) == CHOOSE o \in Sides : o # s

Line == -1  BadLine == -2  Header == -3  Blank == -4    \* asking
Ok == -5    Failed == -6                                \* answering

VARIABLES
    helper,      \* "starting", "running", "deaf" (Serve has returned), "gone"
    stage,       \* of handle
    listed,      \* claude asks for a host of the allow list
    script,      \* of each side: what it has to send, if it is let
    sent,        \* how much of it was sent
    in,          \* sent by a side and not read by the splitter
    buf,         \* read ahead by the bufio.Reader on a side, not yet used
    out,         \* written to a side and not received
    got,         \* received by a side
    end,         \* of each side: "none", "open", "left", "reset", or "cut" by a reset of ours
    copying      \* the sides whose copying goroutine runs

vars == <<helper, stage, listed, script, sent, in, buf, out, got, end, copying>>

Content  == [i \in 1 .. Payload |-> i]
Scripts  == [client : {<<BadLine>>, <<Line, Header, Blank>> \o Content},
             far    : {<<Failed>>, <<Ok, Header, Blank>> \o Content, Content}]

Init ==
    /\ helper = "starting" /\ stage = "none"
    /\ listed \in BOOLEAN
    /\ script \in Scripts
    /\ listed <=> script["far"] # Content        \* only the proxy answers a CONNECT
    /\ sent = [s \in Sides |-> 0]
    /\ in  = [s \in Sides |-> <<>>] /\ buf = [s \in Sides |-> <<>>]
    /\ out = [s \in Sides |-> <<>>] /\ got = [s \in Sides |-> <<>>]
    /\ end = [s \in Sides |-> "none"]
    /\ copying = {}

Asking    == {"line", "headers"}                 \* handle reads from claude
Answering == {"status", "drain"}                 \* handle reads from the proxy
Reads(s)  == stage \in (IF s = "client" THEN Asking ELSE Answering)

-----------------------------------------------------------------------------
(* The peers *)

ToSend(s) == /\ sent[s] < Len(script[s])
             /\ (s = "far" /\ listed) => Contains(got[s], Blank)

Send(s) ==
    /\ end[s] = "open" /\ stage # "done"
    /\ ToSend(s)
    /\ sent' = [sent EXCEPT ![s] = @ + 1]
    /\ in' = [in EXCEPT ![s] = Append(@, script[s][sent[s] + 1])]
    /\ UNCHANGED <<helper, stage, listed, script, buf, out, got, end, copying>>

Receive(s) ==
    /\ end[s] = "open" /\ out[s] # <<>>
    /\ got' = [got EXCEPT ![s] = Append(@, Head(out[s]))]
    /\ out' = [out EXCEPT ![s] = Tail(@)]
    /\ UNCHANGED <<helper, stage, listed, script, sent, in, buf, end, copying>>

\* A side that leaves without having received everything resets the connection.
Leave(s) ==
    /\ end[s] = "open"
    /\ \E e \in {"left", "reset"} :
          /\ e = "left" => out[s] = <<>>
          /\ end' = [end EXCEPT ![s] = e]
    /\ UNCHANGED <<helper, stage, listed, script, sent, in, buf, out, got, copying>>

\* A connection that is closed (by relay, or as handle returns) while input is
\* unread, or that gets input afterwards, may be reset, and then what was
\* written to it and not received is lost.
Cut(s) ==
    /\ stage \in {"closing", "done"} /\ end[s] = "open"
    /\ in[s] # <<>> \/ ToSend(s)
    /\ end' = [end EXCEPT ![s] = "cut"]
    /\ out' = [out EXCEPT ![s] = <<>>]
    /\ UNCHANGED <<helper, stage, listed, script, sent, in, buf, got, copying>>

-----------------------------------------------------------------------------
(* The helper *)

\* The device's certificate and key are loaded, the listener is bound.
StartHelper ==
    /\ helper = "starting"
    /\ helper' \in {"running", "gone"}
    /\ UNCHANGED <<stage, listed, script, sent, in, buf, out, got, end, copying>>

Accept ==
    /\ helper = "running" /\ stage = "none"
    /\ stage' = "line"
    /\ end' = [end EXCEPT !["client"] = "open"]
    /\ UNCHANGED <<helper, listed, script, sent, in, buf, out, got, copying>>

AcceptFails ==
    /\ helper = "running"
    /\ helper' = "deaf"
    /\ UNCHANGED <<stage, listed, script, sent, in, buf, out, got, end, copying>>

\* The helper returns claude's exit code, and its process ends with all it had.
ClaudeExits ==
    /\ helper \in {"running", "deaf"}
    /\ helper' = "gone" /\ stage' = "done"
    /\ copying' = {}
    /\ end' = [end EXCEPT !["client"] = "left"]
    /\ UNCHANGED <<listed, script, sent, in, buf, out, got>>

-----------------------------------------------------------------------------
(* handle: until the relay *)

\* A bufio.Reader reads when it has nothing left, and takes what there is.
Fill(s) ==
    /\ Reads(s) \/ (stage = "relay" /\ s \in copying)
    /\ buf[s] = <<>> /\ in[s] # <<>>
    /\ buf' = [buf EXCEPT ![s] = in[s]]
    /\ in' = [in EXCEPT ![s] = <<>>]
    /\ UNCHANGED <<helper, stage, listed, script, sent, out, got, end, copying>>

\* A write to claude, whose failure is ignored.
Tell(u) == out' = IF end["client"] = "open"
                  THEN [out EXCEPT !["client"] = Append(@, u)] ELSE out

\* Reading a line from s: what comes next, and what is said to claude.
ReadLine(s, next, answer) ==
    /\ buf' = [buf EXCEPT ![s] = Tail(@)]
    /\ stage' = next
    /\ IF answer = 0 THEN UNCHANGED out ELSE Tell(answer)
    /\ UNCHANGED <<helper, listed, script, sent, in, got, end>>

ReadConnect ==
    /\ stage = "line" /\ buf["client"] # <<>>
    /\ IF Head(buf["client"]) = Line THEN ReadLine("client", "headers", 0)
                                     ELSE ReadLine("client", "done", Failed)
    /\ UNCHANGED copying

ReadHeader ==
    /\ stage = "headers" /\ buf["client"] # <<>>
    /\ ReadLine("client", IF Head(buf["client"]) = Blank THEN "dial" ELSE "headers", 0)
    /\ UNCHANGED copying

AtEnd(s) == /\ buf[s] = <<>>
            /\ end[s] = "reset" \/ (end[s] = "left" /\ in[s] = <<>>)

ReadFailsClientOnly(s) ==                \* the proxy's silence is waited out
    /\ s = "client" /\ Reads(s) /\ AtEnd(s)
    /\ stage' = "done"
    /\ UNCHANGED <<helper, listed, script, sent, in, buf, out, got, end, copying>>

ReadFails(s) ==
    /\ Reads(s) /\ AtEnd(s)
    /\ IF stage = "status" THEN Tell(Failed) ELSE UNCHANGED out
    /\ stage' = "done"
    /\ UNCHANGED <<helper, listed, script, sent, in, buf, got, end, copying>>

\* The relay starts with the readers' buffers as they are.
Dial ==
    /\ stage = "dial"
    /\ \/ /\ end' = [end EXCEPT !["far"] = "open"]
          /\ \/ listed /\ stage' = "handshake" /\ UNCHANGED <<out, copying>>
             \/ ~listed /\ stage' = "relay" /\ copying' = Sides /\ Tell(Ok)
       \/ stage' = "done" /\ Tell(Failed) /\ UNCHANGED <<end, copying>>
    /\ UNCHANGED <<helper, listed, script, sent, in, buf, got>>

\* Outer mutual TLS, and the CONNECT for the same target.
Handshake ==
    /\ stage = "handshake" /\ end["far"] = "open"
    /\ stage' = "status"
    /\ out' = [out EXCEPT !["far"] = <<Line, Blank>>]
    /\ UNCHANGED <<helper, listed, script, sent, in, buf, got, end, copying>>

\* When it is the CONNECT that cannot be written, claude is told nothing.
HandshakeFails ==
    /\ stage = "handshake"
    /\ stage' = "done"
    /\ Tell(Failed) \/ UNCHANGED out
    /\ UNCHANGED <<helper, listed, script, sent, in, buf, got, end, copying>>

ReadStatus ==
    /\ stage = "status" /\ buf["far"] # <<>>
    /\ IF Head(buf["far"]) = Ok THEN ReadLine("far", "drain", 0)
                                ELSE ReadLine("far", "done", Failed)
    /\ UNCHANGED copying

DrainRaw ==                              \* the relay reads the bare connections
    /\ stage = "drain" /\ buf["far"] # <<>>
    /\ IF Head(buf["far"]) = Blank
       THEN /\ stage' = "relay" /\ Tell(Ok) /\ copying' = Sides
            /\ buf' = [s \in Sides |-> <<>>]
       ELSE /\ buf' = [buf EXCEPT !["far"] = Tail(@)]
            /\ UNCHANGED <<stage, out, copying>>
    /\ UNCHANGED <<helper, listed, script, sent, in, got, end>>

Drain ==
    /\ stage = "drain" /\ buf["far"] # <<>>
    /\ IF Head(buf["far"]) = Blank
       THEN ReadLine("far", "relay", Ok) /\ copying' = Sides
       ELSE ReadLine("far", "drain", 0) /\ UNCHANGED copying

-----------------------------------------------------------------------------
(* relay: the goroutine that copies what s sends, and the one that waits *)

\* To a side that has left, a write is lost and answered by a reset.
CopyWrite(s) ==
    LET o == Other(s) IN
    /\ stage = "relay" /\ s \in copying /\ buf[s] # <<>>
    /\ \/ /\ end[o] = "open" /\ Len(out[o]) < Cap
          /\ out' = [out EXCEPT ![o] = Append(@, Head(buf[s]))]
          /\ UNCHANGED end
       \/ /\ end[o] = "left"
          /\ end' = [end EXCEPT ![o] = "reset"]
          /\ UNCHANGED out
    /\ buf' = [buf EXCEPT ![s] = Tail(@)]
    /\ UNCHANGED <<helper, stage, listed, script, sent, in, got, copying>>

CopyEndsAtOnce(s) ==                     \* what was read ahead is not flushed
    /\ s \in copying
    /\ stage = "closing" \/ end[s] # "open"
    /\ copying' = copying \ {s}
    /\ UNCHANGED <<helper, stage, listed, script, sent, in, buf, out, got, end>>

CopyEnds(s) ==
    /\ s \in copying
    /\ \/ stage = "closing"
       \/ AtEnd(s)
       \/ (buf[s] # <<>> /\ end[Other(s)] = "reset")
    /\ copying' = copying \ {s}
    /\ UNCHANGED <<helper, stage, listed, script, sent, in, buf, out, got, end>>

CloseAfterBoth ==                        \* relay waits for both directions
    /\ stage = "relay" /\ copying = {}
    /\ stage' = "closing"
    /\ UNCHANGED <<helper, listed, script, sent, in, buf, out, got, end, copying>>

\* Either direction's end closes both connections, and may reset them (Cut).
CloseBoth ==
    /\ stage = "relay" /\ copying # Sides
    /\ stage' = "closing"
    /\ UNCHANGED <<helper, listed, script, sent, in, buf, out, got, end, copying>>

ReturnAtOnce ==                          \* the second goroutine is not waited for
    /\ stage = "closing"
    /\ stage' = "done"
    /\ UNCHANGED <<helper, listed, script, sent, in, buf, out, got, end, copying>>

Return ==
    /\ stage = "closing" /\ copying = {}
    /\ stage' = "done"
    /\ UNCHANGED <<helper, listed, script, sent, in, buf, out, got, end, copying>>

-----------------------------------------------------------------------------
Peers == \E s \in Sides : Send(s) \/ Receive(s) \/ Leave(s) \/ Cut(s)

\* Steps that wait for nobody once they can be taken.
Own == \/ ReadConnect \/ ReadHeader \/ ReadStatus \/ Drain \/ Dial
       \/ (HandshakeFails /\ end["far"] # "open")
       \/ CloseBoth \/ Return
       \/ \E s \in Sides : Fill(s) \/ ReadFails(s)
Copier(s) == CopyWrite(s) \/ CopyEnds(s)

Next == \/ Peers
        \/ StartHelper \/ Accept \/ AcceptFails \/ ClaudeExits
        \/ ReadConnect \/ ReadHeader \/ Dial \/ Handshake \/ HandshakeFails
        \/ ReadStatus \/ Drain \/ CloseBoth \/ Return
        \/ \E s \in Sides : Fill(s) \/ ReadFails(s) \/ CopyWrite(s) \/ CopyEnds(s)

Spec == Init /\ [][Next]_vars
             /\ WF_vars(Own) /\ \A s \in Sides : WF_vars(Copier(s))

-----------------------------------------------------------------------------
(* Properties *)

Stages == {"none", "dial", "handshake", "relay", "closing", "done"} \cup Asking \cup Answering
Units  == -6 .. Payload
Streams == [Sides -> Seq(Units)]

\* The states have the shapes the code gives them, and relay leaves no
\* goroutine behind: handle returns after both (the second receive from done).
TypeOK ==
    /\ helper \in {"starting", "running", "deaf", "gone"}
    /\ stage \in Stages /\ listed \in BOOLEAN
    /\ \A q \in {in, buf, out, got} : q \in Streams
    /\ \A s \in Sides : sent[s] \in 0 .. Len(script[s])
    /\ end \in [Sides -> {"none", "open", "left", "reset", "cut"}]
    /\ copying \subseteq Sides
    /\ copying # {} => stage \in {"relay", "closing"}

\* Of what a side receives, the lines of the CONNECT exchange; of what it
\* sends, likewise.
Preamble(s) == IF s = "client" THEN 1 ELSE IF listed THEN 2 ELSE 0
Lines(s)    == IF s = "client" \/ listed THEN 3 ELSE 0

\* What either side receives is the answer or question of the exchange, and
\* then what the other sent after its own, from the first unit on, in order
\* and without a gap, whatever the bufio readers had read ahead.
StreamsIntact ==
    \A s \in Sides :
        LET q == got[s] \o out[s] IN
        \A i \in DOMAIN q : IF i <= Preamble(s) THEN q[i] < 0 ELSE q[i] = i - Preamble(s)

\* Once claude was told Ok, an orderly end of the stream is never premature:
\* a side that has received all there is, and was not reset, was given
\* everything the other sent before it left in order, though relay closes both
\* ends at the first end of a copy.  (A side that is still sending when relay
\* closes may be reset and lose the last of it: see Cut.)
Told == Contains(got["client"] \o out["client"], Ok)
Complete ==
    helper # "gone" /\ stage = "done" /\ Told =>
        \A s \in Sides :
            LET o == Other(s) IN
            end[s] = "open" /\ out[s] = <<>> /\ end[o] = "left"
                => sent[o] - Lines(o) = Len(got[s]) - Preamble(s)

\* When no connection is left, handle returns, whatever it was doing, or goes
\* on to open one: each blocking read of the CONNECT exchange fails then, of
\* claude's lines too.  Once a relay runs, one side's leaving is enough, so
\* long as the other reads (relay: the first copier's end closes both).
BothRead == \A s \in Sides : end[s] = "open" => out[s] = <<>>
HandleEnds ==
    /\ stage # "none" /\ (\A s \in Sides : end[s] # "open")
         ~> stage = "done" \/ end["far"] = "open"
    /\ []<>BothRead =>
         (stage = "relay" /\ (\E s \in Sides : end[s] # "open") ~> stage = "done")
=============================================================================
