-------------------------- MODULE MuxChannelProofs --------------------------
(***************************************************************************)
(* Safety of one multiplexer channel for every window, frame size and      *)
(* amount of data, on transports where a frame becomes visible to the peer *)
(* only when its write returns.                                            *)
(*                                                                         *)
(* The invariant has one part about what each peer holds (Local) and one   *)
(* about each direction of the wire (Link).  Local expresses the credits   *)
(* and flags of the channel record by the totals of the frames the peer    *)
(* has selected (put), written (Done) and received (got).  Link says that  *)
(* the frames between two peers continue each other's totals without a     *)
(* gap, so that the head of the wire starts at what the receiver has got.  *)
(***************************************************************************)
EXTENDS MuxChannel, TLAPS

\* Totals of the frames p has written completely.
Done(p) == IF writing[p] = NoFrame THEN put[p] ELSE writing[p].pos

Le(s, t) == /\ s.db <= t.db /\ s.df <= t.df /\ s.wb <= t.wb
            /\ s.wf <= t.wf /\ s.fin <= t.fin /\ s.cl <= t.cl

\* A frame selected by p: DATA and FIN come before any FIN, nothing after
\* CLOSED, no DATA after FIN, and CLOSED only after the peer's FIN.
FrameOK(p, f) ==
    /\ f.pos.cl = 0
    /\ f.kind = "DATA" => f.pos.fin = 0
    /\ f.kind = "FIN" => f.pos.fin = 0 /\ f.pos.db = put[p].db
    /\ f.kind = "CLOSED" => f.pos.fin = 1 /\ got[p].fin = 1

\* Received chunks the application has consumed or discarded completely.
Taken(p) == got[p].df - Len(inbound[p])

Credit(p) ==
    /\ ch[p].send_bytes = ByteWindow[Other(p)] + got[p].wb - put[p].db
    /\ ch[p].send_frames = FrameWindow[Other(p)] + got[p].wf - put[p].df
    /\ ch[p].receive_bytes = ByteWindow[p] + Done(p).wb - got[p].db
    /\ ch[p].receive_frames = FrameWindow[p] + Done(p).wf - got[p].df
    /\ put[p].wb + ch[p].consumed_bytes <= read[p]
    /\ put[p].wf + ch[p].consumed_frames <= Taken(p)
    /\ ~ch[p].remote_fin => /\ put[p].wb + ch[p].consumed_bytes = read[p]
                            /\ put[p].wf + ch[p].consumed_frames = Taken(p)

Buffers(p) ==
    /\ read[p] <= got[p].db
    /\ inbound[p] = <<>> => read[p] = got[p].db
    /\ inbound[p] # <<>> => inbound[p][Len(inbound[p])] = got[p].db
    /\ \A i \in 1 .. Len(inbound[p]) : inbound[p][i] <= got[p].db
    /\ put[p].db <= written[p]
    /\ written[p] - put[p].db <= ByteWindow[p]

Flags(p) ==
    /\ put[p].fin = IF ch[p].fin_sent THEN 1 ELSE 0
    /\ got[p].fin = IF ch[p].remote_fin THEN 1 ELSE 0
    /\ put[p].cl = IF ch[p].closed_sent \/ writing[p].kind = "CLOSED" THEN 1 ELSE 0
    /\ got[p].cl = IF ch[p].remote_closed THEN 1 ELSE 0
    /\ ch[p].fin_sent => ch[p].local_fin_requested /\ put[p].db = written[p]
    /\ put[p].cl = 1 => ch[p].fin_sent /\ ch[p].remote_fin /\ ch[p].local_close_requested
    /\ ch[p].removed => ch[p].closed_sent /\ ch[p].remote_closed
    /\ ch[p].discard_inbound => inbound[p] = <<>>
    /\ app[p] = "closed" => ch[p].remote_closed
    /\ eof[p] => ch[p].remote_fin /\ inbound[p] = <<>>
    /\ fault[p] = "none"

Writer(p) ==
    writing[p] # NoFrame =>
        put[p] = After(writing[p]) /\ Le(writing[p].pos, put[p]) /\ FrameOK(p, writing[p])

Local(p) == Credit(p) /\ Buffers(p) /\ Flags(p) /\ Writer(p)

Link(p) ==
    /\ \A i \in 1 .. Len(wire[p]) : FrameOK(p, wire[p][i]) /\ Le(After(wire[p][i]), Done(p))
    /\ \A i \in 1 .. Len(wire[p]) : \A j \in 1 .. Len(wire[p]) :
            j = i + 1 => wire[p][j].pos = After(wire[p][i])
    /\ wire[p] = <<>> => got[Other(p)] = Done(p)
    /\ wire[p] # <<>> => /\ wire[p][1].pos = got[Other(p)]
                         /\ After(wire[p][Len(wire[p])]) = Done(p)
    /\ Le(got[Other(p)], Done(p))
    /\ got[Other(p)].fin = 1 => got[Other(p)].db = put[p].db

IInv == ChannelTypeOK /\ \A p \in Peers : Local(p) /\ Link(p)

-----------------------------------------------------------------------------
(* There are two peers.                                                    *)
LEMMA PeerFacts ==
    ASSUME NEW p \in Peers
    PROVE  /\ Other(p) \in Peers /\ Other(p) # p /\ Other(Other(p)) = p
           /\ \A r \in Peers : r = p \/ r = Other(p)
BY Zenon DEF Peers, Other

(* What appending an element does to a sequence.                           *)
LEMMA AppendFacts ==
    ASSUME NEW S, NEW s \in Seq(S), NEW e \in S
    PROVE  /\ Append(s, e) \in Seq(S) /\ Append(s, e) # <<>>
           /\ Len(Append(s, e)) = Len(s) + 1 /\ Len(s) \in Nat
           /\ Append(s, e)[Len(s) + 1] = e
           /\ \A i \in 1 .. Len(s) : Append(s, e)[i] = s[i]
OBVIOUS

(* What removing the head does to a sequence.                              *)
LEMMA TailFacts ==
    ASSUME NEW S, NEW s \in Seq(S), s # <<>>
    PROVE  /\ Tail(s) \in Seq(S) /\ Head(s) \in S /\ Head(s) = s[1]
           /\ Len(s) \in Nat \ {0} /\ Len(Tail(s)) = Len(s) - 1
           /\ \A i \in 1 .. Len(s) - 1 : Tail(s)[i] = s[i + 1]
           /\ Tail(s) = <<>> <=> Len(s) = 1
<1>1. Len(s) \in Nat /\ Len(s) # 0
  OBVIOUS
<1>2. Tail(s) \in Seq(S) /\ Head(s) \in S /\ Head(s) = s[1]
  OBVIOUS
<1>3. Len(Tail(s)) = Len(s) - 1
  OBVIOUS
<1>4. \A i \in 1 .. Len(s) - 1 : Tail(s)[i] = s[i + 1]
  OBVIOUS
<1>5. \A t \in Seq(S) : t = <<>> <=> Len(t) = 0
  OBVIOUS
<1>6. Tail(s) = <<>> <=> Len(Tail(s)) = 0
  BY <1>2, <1>5, Zenon
<1>7. Tail(s) = <<>> <=> Len(s) = 1
  BY <1>1, <1>3, <1>6
<1> QED
  BY <1>1, <1>2, <1>3, <1>4, <1>7, Zenon

(* The totals after a frame are at least those before it.                  *)
LEMMA AfterFacts ==
    ASSUME NEW f \in Frames
    PROVE  After(f) \in Totals /\ Le(f.pos, After(f)) /\ f.pos \in Totals
BY DEF Frames, After, Totals, Le

(* A peer none of whose variables change keeps its part of the invariant.  *)
LEMMA LocalStable ==
    ASSUME NEW p \in Peers, Local(p),
           app'[p] = app[p], written'[p] = written[p], read'[p] = read[p],
           eof'[p] = eof[p], ch'[p] = ch[p], inbound'[p] = inbound[p],
           writing'[p] = writing[p],
           put'[p] = put[p], got'[p] = got[p], fault'[p] = fault[p]
    PROVE  Local(p)'
BY DEF Local, Credit, Buffers, Flags, Writer, FrameOK, Done, Taken

(* A direction of the wire that no step touches keeps its part.            *)
LEMMA LinkStable ==
    ASSUME NEW p \in Peers, Link(p),
           wire'[p] = wire[p], writing'[p] = writing[p], put'[p] = put[p],
           got'[Other(p)] = got[Other(p)], got[p].fin = 1 => got'[p].fin = 1
    PROVE  Link(p)'
BY DEF Link, FrameOK, Done

(* The first state satisfies the invariant.                                *)
LEMMA InitIInv == Init => IInv
<1> SUFFICES ASSUME Init PROVE IInv
  BY Zenon
<1> USE ChannelAssumption
<1>1. Zero \in Totals
  BY Zenon DEF Zero, Totals
<1>2. \A p \in Peers : NewChannel(p) \in Channel /\ Other(p) \in Peers
  BY Zenon, PeerFacts DEF NewChannel, Channel
<1>3. ChannelTypeOK
  BY <1>1, <1>2 DEF Init, ChannelTypeOK, Faults
<1>4. ASSUME NEW p \in Peers PROVE Local(p) /\ Link(p)
  <2>1. /\ writing[p] = NoFrame /\ put[p] = Zero /\ got[p] = Zero /\ got[Other(p)] = Zero
        /\ wire[p] = <<>> /\ inbound[p] = <<>> /\ read[p] = 0 /\ written[p] = 0
        /\ ch[p] = NewChannel(p) /\ Other(p) \in Peers
    BY Zenon, PeerFacts DEF Init
  <2>2. Done(p) = Zero
    BY Zenon, <2>1 DEF Done
  <2>3. Credit(p)
    <3>1. Taken(p) = 0
      BY <2>1 DEF Taken, Zero
    <3> QED
      BY <2>1, <2>2, <3>1 DEF Credit, Zero, NewChannel
  <2>4. Buffers(p)
    BY <2>1 DEF Buffers, Zero
  <2>5. Flags(p)
    BY <2>1 DEF Flags, Zero, NewChannel, Init, NoFrame
  <2>6. Writer(p)
    BY Zenon, <2>1 DEF Writer
  <2>7. Link(p)
    BY <2>1, <2>2 DEF Link, Zero, Le
  <2> QED
    BY Zenon, <2>3, <2>4, <2>5, <2>6, <2>7 DEF Local
<1> QED
  BY Zenon, <1>3, <1>4 DEF IInv

-----------------------------------------------------------------------------
(* Steps of the application change only its own peer's part.               *)
LEMMA AppFrame ==
    ASSUME NEW p \in Peers, IInv, ChannelTypeOK', Local(p)',
           UNCHANGED <<writing, wire, put, got, fault>>,
           app'[Other(p)] = app[Other(p)], written'[Other(p)] = written[Other(p)],
           read'[Other(p)] = read[Other(p)], eof'[Other(p)] = eof[Other(p)],
           ch'[Other(p)] = ch[Other(p)], inbound'[Other(p)] = inbound[Other(p)]
    PROVE  IInv'
<1>1. Other(p) \in Peers /\ \A r \in Peers : r = p \/ r = Other(p)
  BY Zenon, PeerFacts
<1>2. Local(Other(p))'
  BY Zenon, <1>1, LocalStable DEF IInv
<1>3. \A r \in Peers : Link(r)'
  BY Zenon, <1>1, LinkStable DEF IInv
<1> QED
  BY Zenon, <1>1, <1>2, <1>3 DEF IInv

(* poll_write preserves the invariant.                                     *)
LEMMA WriteIInv ==
    ASSUME NEW p \in Peers, NEW n \in Nat, IInv, Write(p, n) PROVE IInv'
<1>0. Other(p) \in Peers /\ Other(p) # p
  BY Zenon, PeerFacts
<1>1. written \in [Peers -> Nat] /\ put[p] \in Totals /\ ByteWindow[p] \in Nat
  BY Zenon, ChannelAssumption DEF IInv, ChannelTypeOK
<1>2. /\ written' = [written EXCEPT ![p] = written[p] + n]
      /\ UNCHANGED <<app, read, eof, aborted, ch, inbound, writing, wire, put, got, fault>>
      /\ n <= ByteWindow[p] - outbound_len(p) /\ ~ch[p].local_fin_requested
  BY Zenon DEF Write
<1>3. /\ written'[p] = written[p] + n /\ written'[Other(p)] = written[Other(p)]
      /\ written' \in [Peers -> Nat]
  BY <1>0, <1>1, <1>2
<1>4. ChannelTypeOK'
  BY Zenon, <1>2, <1>3 DEF IInv, ChannelTypeOK
<1>5. Credit(p)' /\ Writer(p)'
  BY Zenon, <1>2 DEF IInv, Local, Credit, Writer, FrameOK, Done, Taken
<1>6. Buffers(p)'
  <2>1. written[p] \in Nat /\ put[p].db \in Nat /\ ByteWindow[p] \in Nat
    BY Zenon, <1>1 DEF Totals
  <2>2. put[p].db <= written[p] /\ n <= ByteWindow[p] - (written[p] - put[p].db)
    BY Zenon, <1>2 DEF IInv, Local, Buffers, outbound_len
  <2>3. put[p].db <= written'[p] /\ written'[p] - put[p].db <= ByteWindow[p]
    BY <1>3, <2>1, <2>2
  <2> QED
    BY Zenon, <1>2, <2>3 DEF IInv, Local, Buffers
<1>7. Flags(p)'
  BY Zenon, <1>2 DEF IInv, Local, Flags
<1> QED
  BY Zenon, <1>2, <1>3, <1>4, <1>5, <1>6, <1>7, AppFrame DEF Local

(* poll_read preserves the invariant.                                      *)
LEMMA ReadIInv ==
    ASSUME NEW p \in Peers, NEW n \in Nat, IInv, Read(p, n) PROVE IInv'
<1>0. Other(p) \in Peers /\ Other(p) # p
  BY Zenon, PeerFacts
<1> DEFINE s == inbound[p]
           fin == read[p] + n = Head(s)
           open == ~ch[p].remote_fin
<1>1. /\ read \in [Peers -> Nat] /\ put[p] \in Totals /\ got[p] \in Totals
      /\ ch \in [Peers -> Channel] /\ ch[p] \in Channel /\ inbound \in [Peers -> Seq(Nat)]
      /\ s \in Seq(Nat)
  BY Zenon DEF IInv, ChannelTypeOK
<1>2. /\ read' = [read EXCEPT ![p] = read[p] + n]
      /\ inbound' = [inbound EXCEPT ![p] = IF fin THEN Tail(s) ELSE s]
      /\ ch' = [ch EXCEPT
                  ![p].consumed_bytes = IF open THEN ch[p].consumed_bytes + n
                                        ELSE ch[p].consumed_bytes,
                  ![p].consumed_frames = IF open /\ fin THEN ch[p].consumed_frames + 1
                                         ELSE ch[p].consumed_frames]
  BY Zenon DEF Read
<1>u. /\ UNCHANGED <<app, written, eof, aborted, writing, wire, put, got, fault>>
      /\ read[p] + n <= Head(s) /\ s # <<>>
  BY Zenon DEF Read
<1>3. /\ read'[p] = read[p] + n /\ read'[Other(p)] = read[Other(p)]
      /\ inbound'[p] = (IF fin THEN Tail(s) ELSE s) /\ inbound'[Other(p)] = inbound[Other(p)]
      /\ ch'[Other(p)] = ch[Other(p)]
  BY Zenon, <1>0, <1>1, <1>2
<1> DEFINE cb == IF open THEN ch[p].consumed_bytes + n ELSE ch[p].consumed_bytes
           cf == IF open /\ fin THEN ch[p].consumed_frames + 1 ELSE ch[p].consumed_frames
<1>4. /\ cb \in Nat /\ cf \in Nat
      /\ ch' = [ch EXCEPT ![p].consumed_bytes = cb, ![p].consumed_frames = cf]
  <2>1. ch[p].consumed_bytes \in Nat /\ ch[p].consumed_frames \in Nat
    BY Zenon, <1>1 DEF Channel
  <2>2. cb \in Nat /\ cf \in Nat
    BY <2>1
  <2> QED
    BY Zenon, <1>2, <2>2
<1> HIDE DEF cb, cf, fin
<1>5. /\ ch'[p] = [ch[p] EXCEPT !.consumed_bytes = cb, !.consumed_frames = cf]
      /\ ch'[p] \in Channel /\ ch' \in [Peers -> Channel]
  BY Zenon, <1>1, <1>4 DEF Channel
<1>6. /\ Tail(s) \in Seq(Nat) /\ Head(s) \in Nat /\ Head(s) = s[1]
      /\ Len(s) \in Nat \ {0} /\ Len(Tail(s)) = Len(s) - 1
      /\ \A i \in 1 .. Len(s) - 1 : Tail(s)[i] = s[i + 1]
      /\ Tail(s) = <<>> <=> Len(s) = 1
  BY Zenon, <1>1, <1>u, TailFacts
<1>7. ChannelTypeOK'
  <2>1. read' \in [Peers -> Nat] /\ inbound' \in [Peers -> Seq(Nat)]
    BY SMTT(30), <1>1, <1>2, <1>6 DEF fin
  <2> QED
    BY Zenon, <1>u, <1>5, <2>1 DEF IInv, ChannelTypeOK
<1>8. Credit(p)'
  <2>1. /\ ch'[p].send_bytes = ch[p].send_bytes /\ ch'[p].send_frames = ch[p].send_frames
        /\ ch'[p].receive_bytes = ch[p].receive_bytes
        /\ ch'[p].receive_frames = ch[p].receive_frames
        /\ ch'[p].remote_fin = ch[p].remote_fin
        /\ ch'[p].consumed_bytes = cb /\ ch'[p].consumed_frames = cf
    BY Zenon, <1>1, <1>5 DEF Channel
  <2>2. ch[p].consumed_bytes \in Nat /\ ch[p].consumed_frames \in Nat
        /\ put[p].wb \in Nat /\ put[p].wf \in Nat /\ got[p].df \in Nat /\ read[p] \in Nat
    BY Zenon, <1>1 DEF Channel, Totals
  <2>3. Credit(p)
    BY Zenon DEF IInv, Local
  <2>4. Taken(p) \in Int /\ Taken(p)' = IF fin THEN Taken(p) + 1 ELSE Taken(p)
    <3>1. got[p].df \in Nat /\ got' = got /\ Len(s) \in Nat
      BY Zenon, <1>1, <1>u, <1>6 DEF Totals
    <3>2. Len(inbound'[p]) = IF fin THEN Len(s) - 1 ELSE Len(s)
      BY Zenon, <1>3, <1>6
    <3> QED
      BY <3>1, <3>2 DEF Taken
  <2>5. Done(p)' = Done(p)
    BY Zenon, <1>u DEF Done
  <2>6. /\ put[p].wb + cb <= read[p] + n
        /\ put[p].wf + cf <= Taken(p)'
        /\ open => put[p].wb + cb = read[p] + n /\ put[p].wf + cf = Taken(p)'
    BY <2>2, <2>3, <2>4 DEF Credit, cb, cf
  <2> QED
    BY Zenon, <1>u, <1>3, <2>1, <2>3, <2>5, <2>6 DEF Credit
<1>9. Buffers(p)'
  <2>1. got[p].db \in Nat /\ read[p] \in Nat
    BY Zenon, <1>1 DEF Totals
  <2>2. Buffers(p)
    BY Zenon DEF IInv, Local
  <2>3. CASE fin
    <3>1. inbound'[p] = Tail(s) /\ read'[p] = s[1]
      BY Zenon, <1>3, <1>6, <2>3 DEF fin
    <3>2. s[1] <= got[p].db /\ (Len(s) = 1 => s[1] = got[p].db)
      BY SMTT(60), <1>u, <1>6, <2>2 DEF Buffers
    <3>3. Tail(s) # <<>> => Tail(s)[Len(Tail(s))] = got[p].db
      <4>1. Tail(s) # <<>> => Len(s) - 1 \in 1 .. Len(s) - 1
        BY <1>6
      <4>2. Tail(s) # <<>> => Tail(s)[Len(s) - 1] = s[Len(s)]
        BY <1>6, <4>1
      <4> QED
        BY Zenon, <1>u, <1>6, <2>2, <4>2 DEF Buffers
    <3>4. ASSUME NEW i \in 1 .. Len(Tail(s)) PROVE Tail(s)[i] <= got[p].db
      BY SMTT(60), <1>6, <2>2 DEF Buffers
    <3> QED
      BY Zenon, <1>u, <1>6, <2>2, <3>1, <3>2, <3>3, <3>4 DEF Buffers
  <2>4. CASE ~fin
    <3>1. inbound'[p] = s /\ read'[p] <= s[1]
      BY Zenon, <1>u, <1>3, <1>6, <2>4
    <3>2. s[1] <= got[p].db
      BY <1>6, <2>2 DEF Buffers
    <3>3. read'[p] <= got[p].db
      BY SMTT(30), <1>3, <1>6, <2>1, <3>1, <3>2
    <3>4. inbound'[p] # <<>>
      BY Zenon, <1>u, <3>1
    <3> QED
      BY Zenon, <1>u, <2>2, <3>1, <3>3, <3>4 DEF Buffers
  <2> QED
    BY Zenon, <2>3, <2>4
<1>10. Flags(p)'
  BY ZenonT(30), <1>1, <1>u, <1>3, <1>5 DEF IInv, Local, Flags, Channel
<1>11. Writer(p)'
  BY Zenon, <1>u DEF IInv, Local, Writer, FrameOK
<1> QED
  BY Zenon, <1>u, <1>3, <1>7, <1>8, <1>9, <1>10, <1>11, AppFrame DEF Local

(* Seeing the end of the stream, and the return or the cancellation of     *)
(* close, preserve the invariant.                                          *)
LEMMA ReturnIInv ==
    ASSUME NEW p \in Peers, IInv, ReadEof(p) \/ CancelClose(p) \/ CloseReturns(p)
    PROVE  IInv'
<1>0. Other(p) \in Peers /\ Other(p) # p
  BY Zenon, PeerFacts
<1>1. /\ app \in [Peers -> {"open", "closing", "closed", "dropped"}]
      /\ eof \in [Peers -> BOOLEAN]
  BY Zenon DEF IInv, ChannelTypeOK
<1>2. UNCHANGED <<written, read, aborted, ch, inbound, writing, wire, put, got, fault>>
  BY Zenon DEF ReadEof, CancelClose, CloseReturns
<1>3. /\ app' \in [Peers -> {"open", "closing", "closed", "dropped"}]
      /\ eof' \in [Peers -> BOOLEAN]
      /\ app'[Other(p)] = app[Other(p)] /\ eof'[Other(p)] = eof[Other(p)]
      /\ app'[p] = "closed" => app[p] = "closed" \/ ch[p].remote_closed
      /\ eof'[p] = eof[p] \/ (ch[p].remote_fin /\ inbound[p] = <<>>)
  <2>1. CASE ReadEof(p)
    BY Zenon, <1>0, <1>1, <2>1 DEF ReadEof
  <2>2. CASE CancelClose(p)
    <3>1. eof' = eof /\ app' = [app EXCEPT ![p] = "open"]
      BY Zenon, <2>2 DEF CancelClose
    <3>2. /\ eof' \in [Peers -> BOOLEAN] /\ eof'[Other(p)] = eof[Other(p)]
          /\ eof'[p] = eof[p] \/ (ch[p].remote_fin /\ inbound[p] = <<>>)
      BY Zenon, <1>1, <3>1
    <3>3. /\ app' \in [Peers -> {"open", "closing", "closed", "dropped"}]
          /\ app'[Other(p)] = app[Other(p)]
          /\ app'[p] = "closed" => app[p] = "closed" \/ ch[p].remote_closed
      BY Zenon, <1>0, <1>1, <3>1
    <3> QED
      BY Zenon, <3>2, <3>3
  <2>3. CASE CloseReturns(p)
    <3>1. eof' = eof /\ app' = [app EXCEPT ![p] = "closed"] /\ ch[p].remote_closed
      BY Zenon, <2>3 DEF CloseReturns
    <3>2. /\ eof' \in [Peers -> BOOLEAN] /\ eof'[Other(p)] = eof[Other(p)]
          /\ eof'[p] = eof[p] \/ (ch[p].remote_fin /\ inbound[p] = <<>>)
      BY Zenon, <1>1, <3>1
    <3>3. /\ app' \in [Peers -> {"open", "closing", "closed", "dropped"}]
          /\ app'[Other(p)] = app[Other(p)]
          /\ app'[p] = "closed" => app[p] = "closed" \/ ch[p].remote_closed
      BY Zenon, <1>0, <1>1, <3>1
    <3> QED
      BY Zenon, <3>2, <3>3
  <2> QED
    BY Zenon, <2>1, <2>2, <2>3
<1>4. ChannelTypeOK'
  BY Zenon, <1>2, <1>3 DEF IInv, ChannelTypeOK
<1>5. Credit(p)' /\ Buffers(p)' /\ Writer(p)'
  BY Zenon, <1>2 DEF IInv, Local, Credit, Buffers, Writer, FrameOK, Done, Taken
<1>6. Flags(p)'
  BY Zenon, <1>2, <1>3 DEF IInv, Local, Flags
<1> QED
  BY Zenon, <1>2, <1>3, <1>4, <1>5, <1>6, AppFrame DEF Local

(* Requests to end the write half or the channel preserve the invariant.   *)
LEMMA RequestIInv ==
    ASSUME NEW p \in Peers, IInv, Shutdown(p) \/ CloseChannel(p)
    PROVE  IInv'
<1>0. Other(p) \in Peers /\ Other(p) # p
  BY Zenon, PeerFacts
<1>1. /\ app \in [Peers -> {"open", "closing", "closed", "dropped"}]
      /\ ch \in [Peers -> Channel] /\ ch[p] \in Channel
  BY Zenon DEF IInv, ChannelTypeOK
<1>2. /\ UNCHANGED <<written, read, eof, aborted, inbound, writing, wire, put, got, fault>>
      /\ app' \in [Peers -> {"open", "closing", "closed", "dropped"}]
      /\ app'[Other(p)] = app[Other(p)] /\ app'[p] # "closed"
  BY Zenon, <1>0, <1>1 DEF Shutdown, CloseChannel
<1>3. PICK b \in BOOLEAN :
        ch' = [ch EXCEPT ![p].local_fin_requested = TRUE,
                         ![p].local_close_requested = b \/ ch[p].local_close_requested]
  <2>1. CASE Shutdown(p)
    BY ZenonT(30), <1>1, <2>1 DEF Shutdown, Channel
  <2>2. CASE CloseChannel(p)
    BY Zenon, <1>1, <2>2 DEF CloseChannel, Channel
  <2> QED
    BY ZenonT(30), <2>1, <2>2
<1>4. /\ ch'[p] = [ch[p] EXCEPT !.local_fin_requested = TRUE,
                                !.local_close_requested = b \/ ch[p].local_close_requested]
      /\ ch'[p] \in Channel /\ ch' \in [Peers -> Channel] /\ ch'[Other(p)] = ch[Other(p)]
  BY Zenon, <1>0, <1>1, <1>3 DEF Channel
<1>5. ChannelTypeOK'
  BY Zenon, <1>2, <1>4 DEF IInv, ChannelTypeOK
<1>6. Credit(p)'
  <2>1. /\ ch'[p].send_bytes = ch[p].send_bytes /\ ch'[p].send_frames = ch[p].send_frames
        /\ ch'[p].receive_bytes = ch[p].receive_bytes
        /\ ch'[p].receive_frames = ch[p].receive_frames
        /\ ch'[p].remote_fin = ch[p].remote_fin
        /\ ch'[p].consumed_bytes = ch[p].consumed_bytes
        /\ ch'[p].consumed_frames = ch[p].consumed_frames
    BY Zenon, <1>1, <1>4 DEF Channel
  <2>2. Done(p)' = Done(p) /\ Taken(p)' = Taken(p)
    BY Zenon, <1>2 DEF Done, Taken
  <2> QED
    BY Zenon, <1>2, <2>1, <2>2 DEF IInv, Local, Credit
<1>7. Buffers(p)' /\ Writer(p)'
  BY Zenon, <1>2 DEF IInv, Local, Buffers, Writer, FrameOK, Done
<1>8. Flags(p)'
  BY ZenonT(30), <1>1, <1>2, <1>4 DEF IInv, Local, Flags, Channel
<1> QED
  BY Zenon, <1>2, <1>4, <1>5, <1>6, <1>7, <1>8, AppFrame DEF Local

(* Dropping the channel preserves the invariant.                           *)
LEMMA DropIInv ==
    ASSUME NEW p \in Peers, IInv, Drop(p) PROVE IInv'
<1>0. Other(p) \in Peers /\ Other(p) # p
  BY Zenon, PeerFacts
<1> DEFINE s == inbound[p]
           open == ~ch[p].remote_fin
           cb == IF open THEN ch[p].consumed_bytes + inbound_len(p) ELSE ch[p].consumed_bytes
           cf == IF open THEN ch[p].consumed_frames + Len(s) ELSE ch[p].consumed_frames
<1>1. /\ read \in [Peers -> Nat] /\ put[p] \in Totals /\ got[p] \in Totals
      /\ ch \in [Peers -> Channel] /\ ch[p] \in Channel /\ inbound \in [Peers -> Seq(Nat)]
      /\ app \in [Peers -> {"open", "closing", "closed", "dropped"}]
      /\ aborted \in [Peers -> BOOLEAN] /\ s \in Seq(Nat)
  BY Zenon DEF IInv, ChannelTypeOK
<1>2. /\ read' = [read EXCEPT ![p] = got[p].db]
      /\ inbound' = [inbound EXCEPT ![p] = <<>>]
      /\ app' = [app EXCEPT ![p] = "dropped"]
      /\ aborted' = [aborted EXCEPT ![p] = ~ch[p].local_fin_requested]
  BY Zenon DEF Drop
<1>u. UNCHANGED <<written, eof, writing, wire, put, got, fault>>
  BY Zenon DEF Drop
<1>3. ch' = [ch EXCEPT ![p].consumed_bytes = cb, ![p].consumed_frames = cf,
                       ![p].discard_inbound = TRUE, ![p].local_fin_requested = TRUE,
                       ![p].local_close_requested = TRUE]
  BY Zenon DEF Drop
<1>l. Len(s) \in Nat
  BY <1>1
<1>4. /\ got[p].db \in Nat /\ got[p].df \in Nat /\ read[p] \in Nat
      /\ put[p].wb \in Nat /\ put[p].wf \in Nat
      /\ ch[p].consumed_bytes \in Nat /\ ch[p].consumed_frames \in Nat
  BY Zenon, <1>1 DEF Totals, Channel
<1>5. Credit(p) /\ Buffers(p) /\ Flags(p)
  BY Zenon DEF IInv, Local
<1>6. cb \in Nat /\ cf \in Nat
  BY SMTT(30), <1>4, <1>5, <1>l DEF Buffers, inbound_len
<1>7. Taken(p) \in Int /\ Taken(p) = got[p].df - Len(s) /\ Taken(p)' = got[p].df
  <2>1. got'[p] = got[p] /\ Len(inbound'[p]) = 0
    BY Zenon, <1>1, <1>2, <1>u
  <2> QED
    BY <1>4, <1>l, <2>1 DEF Taken
<1>8. /\ put[p].wb + cb <= got[p].db /\ put[p].wf + cf <= got[p].df
      /\ open => put[p].wb + cb = got[p].db /\ put[p].wf + cf = got[p].df
  <2>1. /\ put[p].wb + cb <= got[p].db
        /\ open => put[p].wb + cb = got[p].db
    BY SMTT(30), <1>4, <1>5 DEF Buffers, Credit, inbound_len
  <2>2. PICK L \in Nat : L = Len(s)
    BY Zenon, <1>l
  <2>3. /\ Taken(p) = got[p].df - L
        /\ cf = IF open THEN ch[p].consumed_frames + L ELSE ch[p].consumed_frames
    BY Zenon, <1>7, <2>2
  <2> HIDE DEF cf
  <2>4. /\ put[p].wf + cf <= got[p].df
        /\ open => put[p].wf + cf = got[p].df
    BY <1>4, <1>5, <2>3 DEF Credit
  <2> QED
    BY Zenon, <2>1, <2>4
<1> HIDE DEF cb, cf
<1>9. /\ ch'[p] = [ch[p] EXCEPT !.consumed_bytes = cb, !.consumed_frames = cf,
                       !.discard_inbound = TRUE, !.local_fin_requested = TRUE,
                       !.local_close_requested = TRUE]
      /\ ch'[p] \in Channel /\ ch' \in [Peers -> Channel] /\ ch'[Other(p)] = ch[Other(p)]
  BY ZenonT(30), <1>0, <1>1, <1>3, <1>6 DEF Channel
<1>10. /\ read'[p] = got[p].db /\ inbound'[p] = <<>> /\ app'[p] = "dropped"
       /\ read'[Other(p)] = read[Other(p)] /\ inbound'[Other(p)] = inbound[Other(p)]
       /\ app'[Other(p)] = app[Other(p)]
  BY Zenon, <1>0, <1>1, <1>2
<1>11. ChannelTypeOK'
  <2>1. /\ read' \in [Peers -> Nat] /\ inbound' \in [Peers -> Seq(Nat)]
        /\ app' \in [Peers -> {"open", "closing", "closed", "dropped"}]
        /\ aborted' \in [Peers -> BOOLEAN]
    BY <1>1, <1>2, <1>4
  <2> QED
    BY Zenon, <1>u, <1>9, <2>1 DEF IInv, ChannelTypeOK
<1>12. Credit(p)'
  <2>1. /\ ch'[p].send_bytes = ch[p].send_bytes /\ ch'[p].send_frames = ch[p].send_frames
        /\ ch'[p].receive_bytes = ch[p].receive_bytes
        /\ ch'[p].receive_frames = ch[p].receive_frames
        /\ ch'[p].remote_fin = ch[p].remote_fin
        /\ ch'[p].consumed_bytes = cb /\ ch'[p].consumed_frames = cf
    BY ZenonT(30), <1>1, <1>9 DEF Channel
  <2>2. Done(p)' = Done(p)
    BY Zenon, <1>u DEF Done
  <2> QED
    BY Zenon, <1>5, <1>7, <1>8, <1>10, <1>u, <2>1, <2>2 DEF Credit
<1>13. Buffers(p)'
  BY <1>4, <1>5, <1>10, <1>u DEF Buffers
<1>14. Flags(p)'
  BY ZenonT(30), <1>1, <1>5, <1>9, <1>10, <1>u DEF Flags, Channel
<1>15. Writer(p)'
  BY Zenon, <1>u DEF IInv, Local, Writer, FrameOK
<1> QED
  BY Zenon, <1>9, <1>10, <1>11, <1>12, <1>13, <1>14, <1>15, <1>u, AppFrame DEF Local

-----------------------------------------------------------------------------
(* The writer selects a frame: what has been written completely (Done) and *)
(* the wire stay as they are.                                              *)
LEMMA SelectFrame ==
    ASSUME NEW p \in Peers, NEW f \in Frames, IInv,
           f.pos = put[p], writing[p] = NoFrame,
           writing' = [writing EXCEPT ![p] = f],
           put' = [put EXCEPT ![p] = After(f)],
           UNCHANGED <<app, written, read, eof, aborted, inbound, wire, got, fault>>,
           ch' \in [Peers -> Channel], ch'[Other(p)] = ch[Other(p)],
           Credit(p)', Buffers(p)', Flags(p)', FrameOK(p, f)',
           put'[p].db = put[p].db \/ put[p].fin = 0
    PROVE  IInv'
<1>0. Other(p) \in Peers /\ Other(p) # p /\ Other(Other(p)) = p
      /\ \A r \in Peers : r = p \/ r = Other(p)
  BY Zenon, PeerFacts
<1>1. /\ writing \in [Peers -> Frames \cup {NoFrame}] /\ put \in [Peers -> Totals]
      /\ got \in [Peers -> Totals] /\ wire \in [Peers -> Seq(Frames)]
  BY Zenon DEF IInv, ChannelTypeOK
<1>2. After(f) \in Totals /\ Le(f.pos, After(f)) /\ f # NoFrame
  <2>1. f.kind # "NONE"
    BY Zenon DEF Frames
  <2> QED
    BY <2>1, AfterFacts DEF NoFrame
<1>3. /\ writing'[p] = f /\ put'[p] = After(f)
      /\ writing'[Other(p)] = writing[Other(p)] /\ put'[Other(p)] = put[Other(p)]
      /\ writing' \in [Peers -> Frames \cup {NoFrame}] /\ put' \in [Peers -> Totals]
  BY Zenon, <1>0, <1>1, <1>2
<1>4. ChannelTypeOK'
  BY Zenon, <1>3 DEF IInv, ChannelTypeOK
<1>5. Writer(p)'
  BY Zenon, <1>2, <1>3 DEF Writer, Le
<1>6. Local(Other(p))'
  BY Zenon, <1>0, <1>3, LocalStable DEF IInv
<1>7. Link(Other(p))'
  BY Zenon, <1>0, <1>3, LinkStable DEF IInv
<1>8. Link(p)'
  <2>1. Link(p)
    BY Zenon DEF IInv
  <2>2. Done(p) = put[p] /\ Done(p)' = put[p]
    BY Zenon, <1>2, <1>3 DEF Done
  <2>3. wire' = wire /\ got' = got
    BY Zenon
  <2>4. put[p].fin \in Nat /\ got[Other(p)].fin \in Nat
    BY Zenon, <1>0, <1>1 DEF Totals
  <2>5. ASSUME NEW i \in 1 .. Len(wire[p])
        PROVE  FrameOK(p, wire[p][i])'
    <3>1. FrameOK(p, wire[p][i]) /\ Le(After(wire[p][i]), put[p]) /\ wire[p][i] \in Frames
      BY <1>1, <2>1, <2>2 DEF Link
    <3>2. wire[p][i].kind = "FIN" => put[p].fin # 0
      <4>1. wire[p][i].kind = "FIN" => After(wire[p][i]).fin = wire[p][i].pos.fin + 1
        BY Zenon DEF After
      <4>2. After(wire[p][i]).fin <= put[p].fin
        BY Zenon, <3>1 DEF Le
      <4>3. wire[p][i].kind = "FIN" => wire[p][i].pos.fin = 0
        BY Zenon, <3>1 DEF FrameOK
      <4> QED
        BY <2>4, <4>1, <4>2, <4>3
    <3> QED
      <4>1. wire'[p][i] = wire[p][i] /\ got'[p] = got[p]
        BY Zenon, <2>3
      <4>2. wire[p][i].kind = "FIN" => put'[p].db = put[p].db
        BY Zenon, <3>2
      <4> QED
        BY Zenon, <3>1, <4>1, <4>2 DEF FrameOK
  <2>6. got[Other(p)].fin = 1 => got[Other(p)].db = put'[p].db
    BY <2>1, <2>2, <2>4 DEF Link, Le
  <2> QED
    BY Zenon, <2>1, <2>2, <2>3, <2>5, <2>6 DEF Link
<1> QED
  BY Zenon, <1>0, <1>4, <1>5, <1>6, <1>7, <1>8 DEF IInv, Local

(* What selecting frame f does to the totals of its sender.                *)
LEMMA SelectTotals ==
    ASSUME NEW p \in Peers, IInv, NEW kind \in {"DATA", "WINDOW", "FIN", "CLOSED"},
           NEW bytes \in Nat, NEW frames \in Nat, Idle(p), Select(p, kind, bytes, frames),
           NEW f, f = [kind |-> kind, bytes |-> bytes, frames |-> frames, pos |-> put[p]]
    PROVE  /\ f \in Frames /\ f.pos = put[p] /\ f.kind = kind /\ writing[p] = NoFrame
           /\ writing' = [writing EXCEPT ![p] = f] /\ put' = [put EXCEPT ![p] = After(f)]
           /\ UNCHANGED <<app, written, read, eof, aborted, inbound, wire, got, fault>>
           /\ writing'[p] = f /\ put[p] \in Totals /\ put'[p] \in Totals
           /\ put'[p].db = (IF kind = "DATA" THEN put[p].db + bytes ELSE put[p].db)
           /\ put'[p].df = (IF kind = "DATA" THEN put[p].df + 1 ELSE put[p].df)
           /\ put'[p].wb = (IF kind = "WINDOW" THEN put[p].wb + bytes ELSE put[p].wb)
           /\ put'[p].wf = (IF kind = "WINDOW" THEN put[p].wf + frames ELSE put[p].wf)
           /\ put'[p].fin = (IF kind = "FIN" THEN put[p].fin + 1 ELSE put[p].fin)
           /\ put'[p].cl = (IF kind = "CLOSED" THEN put[p].cl + 1 ELSE put[p].cl)
           /\ Done(p) = put[p] /\ Done(p)' = put[p] /\ Taken(p)' = Taken(p)
<1>1. writing \in [Peers -> Frames \cup {NoFrame}] /\ put \in [Peers -> Totals]
  BY Zenon DEF IInv, ChannelTypeOK
<1>2. f \in Frames /\ f.pos = put[p] /\ f.kind = kind /\ put[p] \in Totals
  BY Zenon, <1>1 DEF Frames
<1>3. /\ writing' = [writing EXCEPT ![p] = f] /\ put' = [put EXCEPT ![p] = After(f)]
      /\ UNCHANGED <<app, written, read, eof, aborted, inbound, wire, got, fault>>
      /\ writing[p] = NoFrame
  BY Zenon DEF Select, Idle
<1>4. writing'[p] = f /\ put'[p] = After(f) /\ put'[p] \in Totals
  BY Zenon, <1>1, <1>2, <1>3, AfterFacts
<1>5. Done(p) = put[p] /\ Done(p)' = put[p]
  <2>1. f # NoFrame
    BY Zenon, <1>2 DEF NoFrame
  <2> QED
    BY Zenon, <1>2, <1>3, <1>4, <2>1 DEF Done
<1>6. Taken(p)' = Taken(p)
  BY Zenon, <1>3 DEF Taken
<1>7. /\ put'[p].db = (IF kind = "DATA" THEN put[p].db + bytes ELSE put[p].db)
      /\ put'[p].df = (IF kind = "DATA" THEN put[p].df + 1 ELSE put[p].df)
      /\ put'[p].wb = (IF kind = "WINDOW" THEN put[p].wb + bytes ELSE put[p].wb)
      /\ put'[p].wf = (IF kind = "WINDOW" THEN put[p].wf + frames ELSE put[p].wf)
      /\ put'[p].fin = (IF kind = "FIN" THEN put[p].fin + 1 ELSE put[p].fin)
      /\ put'[p].cl = (IF kind = "CLOSED" THEN put[p].cl + 1 ELSE put[p].cl)
  <2>1. f.bytes = bytes /\ f.frames = frames
    BY Zenon
  <2> QED
    BY <1>2, <1>4, <2>1 DEF After
<1> QED
  BY Zenon, <1>2, <1>3, <1>4, <1>5, <1>6, <1>7

(* Selecting a WINDOW frame preserves the invariant.                       *)
LEMMA SelectWindowIInv ==
    ASSUME NEW p \in Peers, IInv, SelectWindow(p) PROVE IInv'
<1> DEFINE cb == ch[p].consumed_bytes
           cf == ch[p].consumed_frames
<1>f. PICK f : f = [kind |-> "WINDOW", bytes |-> cb, frames |-> cf, pos |-> put[p]]
  BY Zenon
<1>0. Other(p) \in Peers /\ Other(p) # p
  BY Zenon, PeerFacts
<1>1. /\ ch \in [Peers -> Channel] /\ ch[p] \in Channel /\ cb \in Nat /\ cf \in Nat
      /\ Credit(p) /\ Buffers(p) /\ Flags(p) /\ put[p] \in Totals
  BY Zenon DEF IInv, ChannelTypeOK, Channel, Local
<1>2. /\ Idle(p) /\ Select(p, "WINDOW", cb, cf) /\ ~ch[p].remote_fin
      /\ ch' = [ch EXCEPT ![p].consumed_bytes = 0, ![p].consumed_frames = 0]
  BY Zenon DEF SelectWindow, WindowReady
<1>3. /\ f \in Frames /\ f.pos = put[p] /\ f.kind = "WINDOW" /\ writing[p] = NoFrame
      /\ writing' = [writing EXCEPT ![p] = f] /\ put' = [put EXCEPT ![p] = After(f)]
      /\ UNCHANGED <<app, written, read, eof, aborted, inbound, wire, got, fault>>
      /\ writing'[p] = f
      /\ put'[p].db = put[p].db /\ put'[p].df = put[p].df
      /\ put'[p].wb = put[p].wb + cb /\ put'[p].wf = put[p].wf + cf
      /\ put'[p].fin = put[p].fin /\ put'[p].cl = put[p].cl
      /\ Done(p)' = Done(p) /\ Taken(p)' = Taken(p)
  BY <1>1, <1>2, <1>f, SelectTotals
<1>4. /\ ch'[p] = [ch[p] EXCEPT !.consumed_bytes = 0, !.consumed_frames = 0]
      /\ ch' \in [Peers -> Channel] /\ ch'[Other(p)] = ch[Other(p)]
  BY Zenon, <1>0, <1>1, <1>2 DEF Channel
<1>5. Credit(p)'
  <2>1. /\ ch'[p].send_bytes = ch[p].send_bytes /\ ch'[p].send_frames = ch[p].send_frames
        /\ ch'[p].receive_bytes = ch[p].receive_bytes
        /\ ch'[p].receive_frames = ch[p].receive_frames
        /\ ch'[p].remote_fin = ch[p].remote_fin
        /\ ch'[p].consumed_bytes = 0 /\ ch'[p].consumed_frames = 0
    BY ZenonT(30), <1>1, <1>4 DEF Channel
  <2>2. put[p].wb \in Nat /\ put[p].wf \in Nat
    BY Zenon, <1>1 DEF Totals
  <2>3. put'[p].wb + 0 = put[p].wb + cb /\ put'[p].wf + 0 = put[p].wf + cf
    BY <1>1, <1>3, <2>2
  <2>4. got' = got /\ read' = read
    BY Zenon, <1>3
  <2> QED
    BY Zenon, <1>1, <1>3, <2>1, <2>3, <2>4 DEF Credit
<1>u. UNCHANGED <<app, written, read, eof, inbound, got, fault>>
  BY Zenon, <1>3
<1>v. /\ put'[p].db = put[p].db /\ put'[p].fin = put[p].fin /\ put'[p].cl = put[p].cl
      /\ writing[p].kind # "CLOSED" /\ writing'[p].kind # "CLOSED"
  BY <1>3 DEF NoFrame
<1>6. Buffers(p)'
  BY Zenon, <1>1, <1>u, <1>v DEF Buffers
<1>7. Flags(p)'
  <2>1. /\ ch'[p].fin_sent = ch[p].fin_sent /\ ch'[p].remote_fin = ch[p].remote_fin
        /\ ch'[p].closed_sent = ch[p].closed_sent /\ ch'[p].removed = ch[p].removed
        /\ ch'[p].remote_closed = ch[p].remote_closed
        /\ ch'[p].local_fin_requested = ch[p].local_fin_requested
        /\ ch'[p].local_close_requested = ch[p].local_close_requested
        /\ ch'[p].discard_inbound = ch[p].discard_inbound
    BY Zenon, <1>1, <1>4 DEF Channel
  <2> QED
    BY ZenonT(30), <1>1, <1>u, <1>v, <2>1 DEF Flags
<1>8. FrameOK(p, f)'
  <2>1. put[p].cl = 0
    BY Zenon, <1>1, <1>2 DEF Flags
  <2> QED
    BY Zenon, <1>3, <2>1 DEF FrameOK
<1> QED
  BY Zenon, <1>3, <1>4, <1>5, <1>6, <1>7, <1>8, SelectFrame

(* Selecting a FIN frame preserves the invariant.                          *)
LEMMA SelectFinIInv ==
    ASSUME NEW p \in Peers, IInv, SelectFin(p) PROVE IInv'
<1>f. PICK f : f = [kind |-> "FIN", bytes |-> 0, frames |-> 0, pos |-> put[p]]
  BY Zenon
<1>0. Other(p) \in Peers /\ Other(p) # p
  BY Zenon, PeerFacts
<1>1. /\ ch \in [Peers -> Channel] /\ ch[p] \in Channel /\ put[p] \in Totals
      /\ written[p] \in Nat /\ Credit(p) /\ Buffers(p) /\ Flags(p)
  BY Zenon DEF IInv, ChannelTypeOK, Local
<1>2. /\ Idle(p) /\ Select(p, "FIN", 0, 0) /\ ~ch[p].fin_sent
      /\ ch[p].local_fin_requested /\ written[p] - put[p].db = 0
      /\ ch' = [ch EXCEPT ![p].fin_sent = TRUE]
  BY Zenon DEF SelectFin, FinReady, outbound_len
<1>3. /\ f \in Frames /\ f.pos = put[p] /\ f.kind = "FIN" /\ writing[p] = NoFrame
      /\ writing' = [writing EXCEPT ![p] = f] /\ put' = [put EXCEPT ![p] = After(f)]
      /\ UNCHANGED <<app, written, read, eof, aborted, inbound, wire, got, fault>>
      /\ writing'[p] = f
      /\ put'[p].db = put[p].db /\ put'[p].df = put[p].df
      /\ put'[p].wb = put[p].wb /\ put'[p].wf = put[p].wf
      /\ put'[p].fin = put[p].fin + 1 /\ put'[p].cl = put[p].cl
      /\ Done(p)' = Done(p) /\ Taken(p)' = Taken(p)
  BY <1>1, <1>2, <1>f, SelectTotals
<1>4. /\ ch'[p] = [ch[p] EXCEPT !.fin_sent = TRUE]
      /\ ch' \in [Peers -> Channel] /\ ch'[Other(p)] = ch[Other(p)]
  BY Zenon, <1>0, <1>1, <1>2 DEF Channel
<1>5. /\ put[p].fin = 0 /\ put[p].cl = 0 /\ put[p].db = written[p]
  <2>1. put[p].db \in Nat
    BY Zenon, <1>1 DEF Totals
  <2>2. put[p].db = written[p]
    BY <1>1, <1>2, <2>1
  <2> QED
    BY Zenon, <1>1, <1>2, <2>2 DEF Flags
<1>u. UNCHANGED <<app, written, read, eof, inbound, got, fault>>
  BY Zenon, <1>3
<1>v. /\ put'[p].db = put[p].db /\ put'[p].fin = 1 /\ put'[p].cl = put[p].cl
      /\ writing[p].kind # "CLOSED" /\ writing'[p].kind # "CLOSED"
  BY <1>3, <1>5 DEF NoFrame
<1>6. Credit(p)'
  <2>1. /\ ch'[p].send_bytes = ch[p].send_bytes /\ ch'[p].send_frames = ch[p].send_frames
        /\ ch'[p].receive_bytes = ch[p].receive_bytes
        /\ ch'[p].receive_frames = ch[p].receive_frames
        /\ ch'[p].remote_fin = ch[p].remote_fin
        /\ ch'[p].consumed_bytes = ch[p].consumed_bytes
        /\ ch'[p].consumed_frames = ch[p].consumed_frames
    BY Zenon, <1>1, <1>4 DEF Channel
  <2> QED
    BY Zenon, <1>1, <1>3, <1>u, <2>1 DEF Credit
<1>7. Buffers(p)'
  BY Zenon, <1>1, <1>u, <1>v DEF Buffers
<1>8. Flags(p)'
  <2>1. /\ ch'[p].fin_sent /\ ch'[p].remote_fin = ch[p].remote_fin
        /\ ch'[p].closed_sent = ch[p].closed_sent /\ ch'[p].removed = ch[p].removed
        /\ ch'[p].remote_closed = ch[p].remote_closed
        /\ ch'[p].local_fin_requested = ch[p].local_fin_requested
        /\ ch'[p].local_close_requested = ch[p].local_close_requested
        /\ ch'[p].discard_inbound = ch[p].discard_inbound
    BY Zenon, <1>1, <1>4 DEF Channel
  <2> QED
    BY Zenon, <1>1, <1>2, <1>5, <1>u, <1>v, <2>1 DEF Flags
<1>9. FrameOK(p, f)'
  BY Zenon, <1>3, <1>5, <1>v DEF FrameOK
<1> QED
  BY Zenon, <1>3, <1>4, <1>6, <1>7, <1>8, <1>9, SelectFrame

(* Selecting a CLOSED frame preserves the invariant.                       *)
LEMMA SelectClosedIInv ==
    ASSUME NEW p \in Peers, IInv, SelectClosed(p) PROVE IInv'
<1>f. PICK f : f = [kind |-> "CLOSED", bytes |-> 0, frames |-> 0, pos |-> put[p]]
  BY Zenon
<1>1. ch \in [Peers -> Channel] /\ Credit(p) /\ Buffers(p) /\ Flags(p)
  BY Zenon DEF IInv, ChannelTypeOK, Local
<1>2. /\ Idle(p) /\ Select(p, "CLOSED", 0, 0) /\ ch' = ch
      /\ ch[p].fin_sent /\ ch[p].remote_fin /\ ch[p].local_close_requested
      /\ ~ch[p].closed_sent
  BY ZenonT(30) DEF SelectClosed
<1>3. /\ f \in Frames /\ f.pos = put[p] /\ f.kind = "CLOSED" /\ writing[p] = NoFrame
      /\ writing' = [writing EXCEPT ![p] = f] /\ put' = [put EXCEPT ![p] = After(f)]
      /\ UNCHANGED <<app, written, read, eof, aborted, inbound, wire, got, fault>>
      /\ writing'[p] = f
      /\ put'[p].db = put[p].db /\ put'[p].df = put[p].df
      /\ put'[p].wb = put[p].wb /\ put'[p].wf = put[p].wf
      /\ put'[p].fin = put[p].fin /\ put'[p].cl = put[p].cl + 1
      /\ Done(p)' = Done(p) /\ Taken(p)' = Taken(p)
  BY SMTT(30), <1>2, <1>f, SelectTotals
<1>4. put[p].cl = 0 /\ put[p].fin = 1 /\ got[p].fin = 1
  BY <1>1, <1>2, <1>3 DEF Flags, NoFrame
<1>u. UNCHANGED <<app, written, read, eof, inbound, got, fault>>
  BY Zenon, <1>3
<1>v. /\ put'[p].db = put[p].db /\ put'[p].fin = put[p].fin /\ put'[p].cl = 1
      /\ writing'[p].kind = "CLOSED"
  BY <1>3, <1>4
<1>6. Credit(p)'
  BY Zenon, <1>1, <1>2, <1>3, <1>u DEF Credit
<1>7. Buffers(p)'
  BY Zenon, <1>1, <1>u, <1>v DEF Buffers
<1>8. Flags(p)'
  BY Zenon, <1>1, <1>2, <1>u, <1>v DEF Flags
<1>9. FrameOK(p, f)'
  BY Zenon, <1>3, <1>4, <1>u DEF FrameOK
<1> QED
  BY Zenon, <1>1, <1>2, <1>3, <1>6, <1>7, <1>8, <1>9, SelectFrame

(* Selecting a DATA frame preserves the invariant.                         *)
LEMMA SelectDataIInv ==
    ASSUME NEW p \in Peers, IInv, SelectData(p) PROVE IInv'
<1>0. Other(p) \in Peers /\ Other(p) # p
  BY Zenon, PeerFacts
<1>1. /\ ch \in [Peers -> Channel] /\ ch[p] \in Channel /\ put[p] \in Totals
      /\ written[p] \in Nat /\ Credit(p) /\ Buffers(p) /\ Flags(p)
      /\ MaxFrameSize[Other(p)] \in Nat /\ ByteWindow[Other(p)] \in Nat
      /\ FrameWindow[Other(p)] \in Nat /\ got[p] \in Totals /\ ByteWindow[p] \in Nat
  BY Zenon, <1>0, ChannelAssumption DEF IInv, ChannelTypeOK, Local
<1>2. /\ put[p].db \in Nat /\ put[p].df \in Nat /\ got[p].wb \in Nat /\ got[p].wf \in Nat
      /\ ch[p].send_bytes \in Nat /\ ch[p].send_frames \in Nat
      /\ put[p].db <= written[p]
  BY Zenon, <1>1 DEF Totals, Channel, Buffers
<1>3. PICK n \in Nat : /\ n = DataAmount(p) /\ n <= ch[p].send_bytes
                       /\ n <= written[p] - put[p].db
  BY <1>1, <1>2 DEF DataAmount, outbound_len
<1>4. /\ Idle(p) /\ Select(p, "DATA", n, 0)
      /\ ch' = [ch EXCEPT ![p].send_bytes = ch[p].send_bytes - n,
                          ![p].send_frames = ch[p].send_frames - 1]
      /\ ch[p].send_frames # 0 /\ written[p] - put[p].db # 0
  BY Zenon, <1>3 DEF SelectData, outbound_len
<1>f. PICK f : f = [kind |-> "DATA", bytes |-> n, frames |-> 0, pos |-> put[p]]
  BY Zenon
<1>5. /\ f \in Frames /\ f.pos = put[p] /\ f.kind = "DATA" /\ writing[p] = NoFrame
      /\ writing' = [writing EXCEPT ![p] = f] /\ put' = [put EXCEPT ![p] = After(f)]
      /\ UNCHANGED <<app, written, read, eof, aborted, inbound, wire, got, fault>>
      /\ writing'[p] = f
      /\ put'[p].db = put[p].db + n /\ put'[p].df = put[p].df + 1
      /\ put'[p].wb = put[p].wb /\ put'[p].wf = put[p].wf
      /\ put'[p].fin = put[p].fin /\ put'[p].cl = put[p].cl
      /\ Done(p)' = Done(p) /\ Taken(p)' = Taken(p)
  BY <1>4, <1>f, SelectTotals
<1>6. ~ch[p].fin_sent /\ put[p].fin = 0 /\ put[p].cl = 0
  <2>1. ~ch[p].fin_sent
    BY SMTT(30), <1>1, <1>2, <1>4 DEF Flags
  <2> QED
    BY Zenon, <1>1, <2>1 DEF Flags
<1>7. /\ ch[p].send_bytes - n \in Nat /\ ch[p].send_frames - 1 \in Nat
  BY <1>2, <1>3, <1>4
<1>8. /\ ch'[p] = [ch[p] EXCEPT !.send_bytes = ch[p].send_bytes - n,
                                !.send_frames = ch[p].send_frames - 1]
      /\ ch' \in [Peers -> Channel] /\ ch'[Other(p)] = ch[Other(p)]
  BY Zenon, <1>0, <1>1, <1>4, <1>7 DEF Channel
<1>u. UNCHANGED <<app, written, read, eof, inbound, got, fault>>
  BY Zenon, <1>5
<1>v. /\ put'[p].db = put[p].db + n /\ put'[p].fin = put[p].fin /\ put'[p].cl = put[p].cl
      /\ writing[p].kind # "CLOSED" /\ writing'[p].kind # "CLOSED"
  BY <1>5 DEF NoFrame
<1>9. Credit(p)'
  <2>1. /\ ch'[p].send_bytes = ch[p].send_bytes - n
        /\ ch'[p].send_frames = ch[p].send_frames - 1
        /\ ch'[p].receive_bytes = ch[p].receive_bytes
        /\ ch'[p].receive_frames = ch[p].receive_frames
        /\ ch'[p].remote_fin = ch[p].remote_fin
        /\ ch'[p].consumed_bytes = ch[p].consumed_bytes
        /\ ch'[p].consumed_frames = ch[p].consumed_frames
    BY ZenonT(30), <1>1, <1>8 DEF Channel
  <2>2. /\ ch[p].send_bytes = ByteWindow[Other(p)] + got[p].wb - put[p].db
        /\ ch[p].send_frames = FrameWindow[Other(p)] + got[p].wf - put[p].df
    BY Zenon, <1>1 DEF Credit
  <2>3. /\ ch'[p].send_bytes = ByteWindow[Other(p)] + got[p].wb - (put[p].db + n)
        /\ ch'[p].send_frames = FrameWindow[Other(p)] + got[p].wf - (put[p].df + 1)
    BY <1>1, <1>2, <2>1, <2>2
  <2> QED
    BY Zenon, <1>1, <1>5, <1>u, <2>1, <2>3 DEF Credit
<1>10. Buffers(p)'
  <2>1. put'[p].db <= written[p] /\ written[p] - put'[p].db <= ByteWindow[p]
    BY SMTT(30), <1>1, <1>2, <1>3, <1>v DEF Buffers
  <2> QED
    BY Zenon, <1>1, <1>u, <2>1 DEF Buffers
<1>11. Flags(p)'
  <2>1. /\ ch'[p].fin_sent = ch[p].fin_sent /\ ch'[p].remote_fin = ch[p].remote_fin
        /\ ch'[p].closed_sent = ch[p].closed_sent /\ ch'[p].removed = ch[p].removed
        /\ ch'[p].remote_closed = ch[p].remote_closed
        /\ ch'[p].local_fin_requested = ch[p].local_fin_requested
        /\ ch'[p].local_close_requested = ch[p].local_close_requested
        /\ ch'[p].discard_inbound = ch[p].discard_inbound
    BY Zenon, <1>1, <1>8 DEF Channel
  <2> QED
    BY Zenon, <1>1, <1>6, <1>u, <1>v, <2>1 DEF Flags
<1>12. FrameOK(p, f)'
  BY Zenon, <1>5, <1>6 DEF FrameOK
<1> QED
  BY Zenon, <1>5, <1>6, <1>8, <1>9, <1>10, <1>11, <1>12, SelectFrame

-----------------------------------------------------------------------------
(* The order of totals is a partial order.                                 *)
LEMMA LeFacts ==
    ASSUME NEW s \in Totals, NEW t \in Totals, NEW u \in Totals, Le(s, t), Le(t, u)
    PROVE  Le(s, u) /\ Le(s, s)
BY DEF Le, Totals

(* What completing frame f does to the wire and to the totals.             *)
LEMMA CompleteLink ==
    ASSUME NEW p \in Peers, IInv, NEW f, f = writing[p], f # NoFrame,
           wire' = [wire EXCEPT ![p] = Append(wire[p], f)],
           writing' = [writing EXCEPT ![p] = NoFrame], UNCHANGED <<put, got>>
    PROVE  /\ Link(p)' /\ f \in Frames /\ put[p] = After(f)
           /\ Done(p) = f.pos /\ Done(p)' = put[p]
           /\ wire' \in [Peers -> Seq(Frames)]
           /\ writing' \in [Peers -> Frames \cup {NoFrame}] /\ writing'[p] = NoFrame
<1>0. Other(p) \in Peers
  BY Zenon, PeerFacts
<1> DEFINE L == Len(wire[p])
<1>1. /\ writing \in [Peers -> Frames \cup {NoFrame}] /\ put[p] \in Totals
      /\ wire \in [Peers -> Seq(Frames)] /\ wire[p] \in Seq(Frames)
      /\ got[Other(p)] \in Totals /\ Link(p) /\ Writer(p)
  BY Zenon, <1>0 DEF IInv, ChannelTypeOK, Local
<1>2. /\ f \in Frames /\ put[p] = After(f) /\ FrameOK(p, f) /\ Le(f.pos, put[p])
      /\ f.pos \in Totals
  <2>1. f \in Frames
    BY Zenon, <1>1
  <2> QED
    BY Zenon, <1>1, <2>1, AfterFacts DEF Writer
<1>3. writing'[p] = NoFrame /\ writing' \in [Peers -> Frames \cup {NoFrame}]
  BY Zenon, <1>1
<1>4. Done(p) = f.pos /\ Done(p)' = put[p]
  BY Zenon, <1>3 DEF Done
<1>5. /\ Append(wire[p], f) \in Seq(Frames) /\ Append(wire[p], f) # <<>>
      /\ Len(Append(wire[p], f)) = L + 1 /\ L \in Nat
      /\ Append(wire[p], f)[L + 1] = f
      /\ \A i \in 1 .. L : Append(wire[p], f)[i] = wire[p][i]
  BY <1>1, <1>2, AppendFacts
<1>6. wire'[p] = Append(wire[p], f) /\ wire' \in [Peers -> Seq(Frames)]
  BY Zenon, <1>1, <1>5
<1>e. wire[p] = <<>> <=> L = 0
  BY <1>1
<1>7. /\ Len(wire'[p]) = L + 1 /\ wire'[p] # <<>> /\ wire'[p][L + 1] = f
      /\ \A i \in 1 .. L : wire'[p][i] = wire[p][i]
  BY Zenon, <1>5, <1>6
<1>8. ASSUME NEW i \in 1 .. L + 1
      PROVE  FrameOK(p, wire[p][i])' /\ Le(After(wire'[p][i]), put[p])
  <2>1. CASE i = L + 1
    <3>1. wire'[p][i] = f
      BY Zenon, <1>7, <2>1
    <3>2. Le(put[p], put[p])
      <4>1. put[p] \in Totals
        BY Zenon, <1>1
      <4> QED
        BY SMTT(30), <4>1 DEF Le, Totals
    <3> QED
      BY Zenon, <1>2, <3>1, <3>2 DEF FrameOK
  <2>2. CASE i # L + 1
    <3>1. i \in 1 .. L
      BY <1>5, <2>2
    <3>2. wire'[p][i] = wire[p][i] /\ wire[p][i] \in Frames
      BY <1>1, <1>7, <3>1
    <3>3. FrameOK(p, wire[p][i]) /\ Le(After(wire[p][i]), f.pos)
      BY Zenon, <1>1, <1>4, <3>1 DEF Link
    <3>4. Le(After(wire[p][i]), put[p])
      BY Zenon, <1>1, <1>2, <3>2, <3>3, AfterFacts, LeFacts
    <3> QED
      BY Zenon, <3>2, <3>3, <3>4 DEF FrameOK
  <2> QED
    BY Zenon, <2>1, <2>2
<1>9. ASSUME NEW i \in 1 .. L + 1, NEW j \in 1 .. L + 1, j = i + 1
      PROVE  wire'[p][j].pos = After(wire'[p][i])
  <2>1. i \in 1 .. L
    BY <1>5, <1>9
  <2>2. wire'[p][i] = wire[p][i]
    BY Zenon, <1>7, <2>1
  <2>3. CASE j = L + 1
    <3>1. wire'[p][j] = f /\ i = L
      BY <1>5, <1>7, <1>9, <2>3
    <3>2. wire[p] # <<>>
      BY <1>e, <2>1, <3>1
    <3> QED
      BY Zenon, <1>1, <1>4, <2>2, <3>1, <3>2 DEF Link
  <2>4. CASE j # L + 1
    <3>1. j \in 1 .. L
      BY <1>5, <2>4
    <3>2. wire'[p][j] = wire[p][j]
      BY Zenon, <1>7, <3>1
    <3> QED
      BY Zenon, <1>1, <1>9, <2>1, <2>2, <3>1, <3>2 DEF Link
  <2> QED
    BY Zenon, <2>3, <2>4
<1>10. wire'[p][1].pos = got[Other(p)]
  <2>1. CASE L = 0
    BY <1>1, <1>4, <1>e, <1>7, <2>1 DEF Link
  <2>2. CASE L # 0
    <3>1. 1 \in 1 .. L
      BY <1>5, <2>2
    <3> QED
      BY Zenon, <1>1, <1>e, <1>7, <2>2, <3>1 DEF Link
  <2> QED
    BY Zenon, <2>1, <2>2
<1>11. Le(got[Other(p)], put[p])
  BY ZenonT(30), <1>1, <1>2, <1>4, LeFacts DEF Link
<1>12. Link(p)'
  <2>1. got'[Other(p)] = got[Other(p)] /\ put'[p] = put[p]
    BY Zenon
  <2>2. After(wire'[p][Len(wire'[p])]) = put[p]
    BY Zenon, <1>2, <1>7
  <2>3. got[Other(p)].fin = 1 => got[Other(p)].db = put[p].db
    BY Zenon, <1>1 DEF Link
  <2> HIDE DEF L
  <2> QED
    BY <1>4, <1>7, <1>8, <1>9, <1>10, <1>11, <2>1, <2>2, <2>3 DEF Link
<1> QED
  BY Zenon, <1>2, <1>3, <1>4, <1>6, <1>12

(* Completing a frame preserves the invariant: a WINDOW frame raises the   *)
(* receive credit by what Done(p) gains, CLOSED sets closed_sent.          *)
LEMMA CompleteIInv ==
    ASSUME NEW p \in Peers, IInv, CompleteFrame(p) PROVE IInv'
<1>f. PICK f : f = writing[p]
  BY Zenon
<1>0. Other(p) \in Peers /\ Other(p) # p /\ Other(Other(p)) = p
      /\ \A r \in Peers : r = p \/ r = Other(p)
  BY Zenon, PeerFacts
<1>1. /\ ch \in [Peers -> Channel] /\ ch[p] \in Channel /\ put[p] \in Totals
      /\ got[p] \in Totals /\ Credit(p) /\ Buffers(p) /\ Flags(p)
      /\ wire \in [Peers -> Seq(Frames)]
      /\ writing \in [Peers -> Frames \cup {NoFrame}]
      /\ ByteWindow[p] \in Nat /\ FrameWindow[p] \in Nat
  BY Zenon, ChannelAssumption DEF IInv, ChannelTypeOK, Local
<1>2. /\ f # NoFrame /\ wire' = [wire EXCEPT ![p] = Append(wire[p], f)]
      /\ writing' = [writing EXCEPT ![p] = NoFrame]
  BY Zenon, <1>1, <1>f DEF CompleteFrame, Flags
<1>u. UNCHANGED <<app, written, read, eof, aborted, inbound, put, got, fault>>
  BY Zenon DEF CompleteFrame
<1>3. /\ Link(p)' /\ f \in Frames /\ put[p] = After(f) /\ Done(p) = f.pos /\ Done(p)' = put[p]
      /\ wire' \in [Peers -> Seq(Frames)]
      /\ writing' \in [Peers -> Frames \cup {NoFrame}] /\ writing'[p] = NoFrame
  BY Zenon, <1>f, <1>2, <1>u, CompleteLink
<1>4. wire'[Other(p)] = wire[Other(p)]
      /\ writing'[Other(p)] = writing[Other(p)]
  BY Zenon, <1>0, <1>1, <1>2
<1>5. /\ f.kind \in {"DATA", "WINDOW", "FIN", "CLOSED"} /\ f.bytes \in Nat /\ f.frames \in Nat
      /\ f.pos \in Totals
  BY Zenon, <1>3 DEF Frames
<1>c. ch' = CASE f.kind = "WINDOW" ->
                    [ch EXCEPT ![p].receive_bytes = ch[p].receive_bytes + f.bytes,
                               ![p].receive_frames = ch[p].receive_frames + f.frames]
               [] f.kind = "CLOSED" ->
                    [ch EXCEPT ![p].closed_sent = TRUE,
                               ![p].removed = ch[p].remote_closed]
               [] f.kind \in {"DATA", "FIN"} -> ch
  BY Zenon, <1>f DEF CompleteFrame
<1> DEFINE rb == IF f.kind = "WINDOW" THEN f.bytes ELSE 0
           rf == IF f.kind = "WINDOW" THEN f.frames ELSE 0
<1>6. /\ rb \in Nat /\ rf \in Nat /\ put[p].wb = f.pos.wb + rb /\ put[p].wf = f.pos.wf + rf
  BY <1>3, <1>5 DEF After, Totals
<1>7. /\ ch' \in [Peers -> Channel] /\ ch'[Other(p)] = ch[Other(p)]
      /\ ch'[p].send_bytes = ch[p].send_bytes /\ ch'[p].send_frames = ch[p].send_frames
      /\ ch'[p].receive_bytes = ch[p].receive_bytes + rb
      /\ ch'[p].receive_frames = ch[p].receive_frames + rf
      /\ ch'[p].consumed_bytes = ch[p].consumed_bytes
      /\ ch'[p].consumed_frames = ch[p].consumed_frames
      /\ ch'[p].remote_fin = ch[p].remote_fin /\ ch'[p].fin_sent = ch[p].fin_sent
      /\ ch'[p].remote_closed = ch[p].remote_closed
      /\ ch'[p].local_fin_requested = ch[p].local_fin_requested
      /\ ch'[p].local_close_requested = ch[p].local_close_requested
      /\ ch'[p].discard_inbound = ch[p].discard_inbound
      /\ ch'[p].closed_sent = (ch[p].closed_sent \/ f.kind = "CLOSED")
      /\ ch'[p].removed = (IF f.kind = "CLOSED" THEN ch[p].remote_closed ELSE ch[p].removed)
  <2>1. CASE f.kind = "WINDOW"
    <3>1. ch' = [ch EXCEPT ![p].receive_bytes = ch[p].receive_bytes + f.bytes,
                           ![p].receive_frames = ch[p].receive_frames + f.frames]
      BY Zenon, <1>c, <2>1
    <3>2. ch[p].receive_bytes + f.bytes \in Nat /\ ch[p].receive_frames + f.frames \in Nat
      BY SMTT(30), <1>1, <1>5 DEF Channel
    <3>3. /\ ch' \in [Peers -> Channel] /\ ch'[Other(p)] = ch[Other(p)]
          /\ ch'[p] = [ch[p] EXCEPT !.receive_bytes = ch[p].receive_bytes + f.bytes,
                                    !.receive_frames = ch[p].receive_frames + f.frames]
      BY Zenon, <1>0, <1>1, <3>1, <3>2 DEF Channel
    <3> QED
      BY Zenon, <1>1, <2>1, <3>3 DEF Channel
  <2>2. CASE f.kind = "CLOSED"
    <3>1. ch' = [ch EXCEPT ![p].closed_sent = TRUE, ![p].removed = ch[p].remote_closed]
      BY Zenon, <1>c, <2>2
    <3>2. /\ ch' \in [Peers -> Channel] /\ ch'[Other(p)] = ch[Other(p)]
          /\ ch'[p] = [ch[p] EXCEPT !.closed_sent = TRUE, !.removed = ch[p].remote_closed]
      BY Zenon, <1>0, <1>1, <3>1 DEF Channel
    <3>3. rb = 0 /\ rf = 0 /\ ch[p].receive_bytes \in Nat /\ ch[p].receive_frames \in Nat
      BY Zenon, <1>1, <2>2 DEF Channel
    <3>4. /\ ch'[p].receive_bytes = ch[p].receive_bytes + rb
          /\ ch'[p].receive_frames = ch[p].receive_frames + rf
      <4>1. /\ ch'[p].receive_bytes = ch[p].receive_bytes
            /\ ch'[p].receive_frames = ch[p].receive_frames
        BY Zenon, <1>1, <3>2 DEF Channel
      <4> HIDE DEF rb, rf
      <4> QED
        BY <3>3, <4>1
    <3>5. ch[p] \in Channel
      BY Zenon, <1>1
    <3> HIDE DEF rb, rf
    <3>6. /\ ch'[p].closed_sent /\ ch'[p].removed = ch[p].remote_closed
      BY ZenonT(30), <3>2, <3>5 DEF Channel
    <3> QED
      BY ZenonT(30), <2>2, <3>2, <3>4, <3>5, <3>6 DEF Channel
  <2>3. CASE f.kind \in {"DATA", "FIN"}
    <3>1. ch' = ch
      BY Zenon, <1>c, <2>3
    <3> QED
      BY SMTT(30), <1>1, <2>3, <3>1 DEF Channel
  <2> QED
    BY Zenon, <1>5, <2>1, <2>2, <2>3
<1> HIDE DEF rb, rf
<1>8. ChannelTypeOK'
  BY Zenon, <1>u, <1>3, <1>4, <1>7 DEF IInv, ChannelTypeOK
<1>9. Credit(p)'
  <2>1. Taken(p)' = Taken(p)
    BY Zenon, <1>u DEF Taken
  <2>2. /\ ch[p].receive_bytes = ByteWindow[p] + f.pos.wb - got[p].db
        /\ ch[p].receive_frames = FrameWindow[p] + f.pos.wf - got[p].df
    BY Zenon, <1>1, <1>3 DEF Credit
  <2>3. f.pos.wb \in Nat /\ f.pos.wf \in Nat /\ got[p].db \in Nat /\ got[p].df \in Nat
    BY Zenon, <1>1, <1>5 DEF Totals
  <2>4. /\ ch'[p].receive_bytes = ByteWindow[p] + put[p].wb - got[p].db
        /\ ch'[p].receive_frames = FrameWindow[p] + put[p].wf - got[p].df
    <3>1. /\ ch'[p].receive_bytes = (ByteWindow[p] + f.pos.wb - got[p].db) + rb
          /\ ch'[p].receive_frames = (FrameWindow[p] + f.pos.wf - got[p].df) + rf
      BY Zenon, <1>7, <2>2
    <3>2. ByteWindow[p] \in Nat /\ FrameWindow[p] \in Nat
      BY Zenon, <1>1
    <3> QED
      BY <1>6, <2>3, <3>1, <3>2
  <2>5. Done(p)'.wb = put[p].wb /\ Done(p)'.wf = put[p].wf
    BY Zenon, <1>3
  <2> QED
    BY Zenon, <1>1, <1>u, <1>7, <2>1, <2>4, <2>5 DEF Credit
<1>10. Buffers(p)'
  BY ZenonT(30), <1>1, <1>u DEF Buffers
<1>11. Flags(p)'
  <2>1. writing[p].kind = f.kind /\ writing'[p].kind # "CLOSED"
    BY <1>f, <1>3 DEF NoFrame
  <2> QED
    BY ZenonT(30), <1>1, <1>u, <1>4, <1>7, <2>1 DEF Flags
<1>12. Writer(p)'
  BY Zenon, <1>3 DEF Writer
<1>13. Local(Other(p))' /\ Link(Other(p))'
  <2>1. Local(Other(p)) /\ Link(Other(p))
    BY Zenon, <1>0 DEF IInv
  <2> QED
    BY Zenon, <1>0, <1>u, <1>4, <1>7, <2>1, LocalStable, LinkStable
<1> QED
  BY Zenon, <1>0, <1>3, <1>8, <1>9, <1>10, <1>11, <1>12, <1>13 DEF IInv, Local

-----------------------------------------------------------------------------
(* A frame completely written has been selected.                           *)
LEMMA DoneFacts ==
    ASSUME NEW p \in Peers, IInv
    PROVE  Done(p) \in Totals /\ put[p] \in Totals /\ got[p] \in Totals /\ Le(Done(p), put[p])
<1>1. put[p] \in Totals /\ got[p] \in Totals /\ Writer(p) /\ writing[p] \in Frames \cup {NoFrame}
  BY Zenon DEF IInv, ChannelTypeOK, Local
<1>2. CASE writing[p] = NoFrame
  BY <1>1, <1>2 DEF Done, Le, Totals
<1>3. CASE writing[p] # NoFrame
  BY Zenon, <1>1, <1>3, AfterFacts DEF Done, Writer
<1> QED
  BY Zenon, <1>1, <1>2, <1>3

(* The frame at the head of the wire continues what its receiver has got,  *)
(* and its receiver has not forgotten the channel.                         *)
LEMMA HeadFacts ==
    ASSUME NEW p \in Peers, IInv, NEW q, q = Other(p), wire[q] # <<>>,
           NEW f, f = Head(wire[q])
    PROVE  /\ f \in Frames /\ f = wire[q][1] /\ f.pos = got[p] /\ FrameOK(q, f)
           /\ Le(After(f), Done(q)) /\ After(f) \in Totals /\ ~ch[p].removed
<1>0. q \in Peers /\ Other(q) = p
  BY Zenon, PeerFacts
<1>1. wire[q] \in Seq(Frames) /\ Link(q) /\ Flags(p) /\ ch[p] \in Channel
  BY Zenon, <1>0 DEF IInv, ChannelTypeOK, Local
<1>2. f \in Frames /\ f = wire[q][1] /\ Len(wire[q]) \in Nat \ {0}
  BY Zenon, <1>1, TailFacts
<1>3. f.pos = got[p] /\ FrameOK(q, f) /\ Le(After(f), Done(q))
  <2>1. 1 \in 1 .. Len(wire[q])
    BY SMTT(30), <1>2
  <2> QED
    BY Zenon, <1>0, <1>1, <1>2, <2>1 DEF Link
<1>4. ~ch[p].removed
  BY <1>1, <1>3 DEF FrameOK, Flags
<1> QED
  BY Zenon, <1>2, <1>3, <1>4, AfterFacts

(* Receiving the head of the wire keeps both directions in order.          *)
LEMMA ReceiveLink ==
    ASSUME NEW p \in Peers, IInv, NEW q, q = Other(p), wire[q] # <<>>,
           NEW f, f = Head(wire[q]),
           wire' = [wire EXCEPT ![q] = Tail(wire[q])],
           got' = [got EXCEPT ![p] = After(f)],
           UNCHANGED <<writing, put>>
    PROVE  /\ Link(p)' /\ Link(q)' /\ got'[p] = After(f) /\ got'[q] = got[q]
           /\ wire' \in [Peers -> Seq(Frames)] /\ got' \in [Peers -> Totals]
           /\ got[p].fin = 1 => got'[p].fin = 1
<1>0. q \in Peers /\ q # p /\ Other(q) = p /\ Other(p) = q
  BY Zenon, PeerFacts
<1> DEFINE w == wire[q]
           L == Len(wire[q])
<1>1. /\ wire \in [Peers -> Seq(Frames)] /\ w \in Seq(Frames) /\ got \in [Peers -> Totals]
      /\ Link(q) /\ Link(p) /\ got[p] \in Totals
  BY Zenon, <1>0 DEF IInv, ChannelTypeOK
<1>2. /\ f \in Frames /\ f = w[1] /\ f.pos = got[p] /\ FrameOK(q, f)
      /\ Le(After(f), Done(q)) /\ After(f) \in Totals
  BY HeadFacts
<1>3. /\ Tail(w) \in Seq(Frames) /\ L \in Nat \ {0} /\ Len(Tail(w)) = L - 1
      /\ \A i \in 1 .. L - 1 : Tail(w)[i] = w[i + 1]
      /\ Tail(w) = <<>> <=> L = 1
  BY Zenon, <1>1, TailFacts
<1>4. /\ wire'[q] = Tail(w) /\ wire'[p] = wire[p] /\ wire' \in [Peers -> Seq(Frames)]
      /\ got'[p] = After(f) /\ got'[q] = got[q] /\ got' \in [Peers -> Totals]
  BY Zenon, <1>0, <1>1, <1>2, <1>3
<1>5. got[p].fin = 1 => got'[p].fin = 1
  <2>1. /\ f.kind = "FIN" => f.pos.fin = 0
        /\ f.kind # "FIN" => After(f).fin = f.pos.fin
    BY Zenon, <1>2 DEF After, FrameOK
  <2>2. f.pos.fin = got[p].fin /\ got'[p].fin = After(f).fin
    BY Zenon, <1>2, <1>4
  <2> QED
    BY <2>1, <2>2
<1>6. Link(p)'
  BY Zenon, <1>0, <1>1, <1>4, <1>5, LinkStable
<1>7. Done(q)' = Done(q) /\ put'[q] = put[q]
  BY Zenon DEF Done
<1>8. ASSUME NEW i \in 1 .. L - 1
      PROVE  /\ wire'[q][i] = w[i + 1] /\ FrameOK(q, wire[q][i])'
             /\ Le(After(wire'[q][i]), Done(q))
  <2>1. i + 1 \in 1 .. L /\ wire'[q][i] = w[i + 1]
    BY <1>3, <1>4
  <2>2. FrameOK(q, w[i + 1]) /\ Le(After(w[i + 1]), Done(q))
    BY ZenonT(30), <1>1, <2>1 DEF Link
  <2> QED
    BY Zenon, <1>4, <1>7, <2>1, <2>2 DEF FrameOK
<1>9. ASSUME NEW i \in 1 .. L - 1, NEW j \in 1 .. L - 1, j = i + 1
      PROVE  wire'[q][j].pos = After(wire'[q][i])
  <2>1. i + 1 \in 1 .. L /\ j + 1 \in 1 .. L /\ j + 1 = (i + 1) + 1
    BY <1>3, <1>9
  <2>2. wire'[q][i] = w[i + 1] /\ wire'[q][j] = w[j + 1]
    BY Zenon, <1>8
  <2>3. w[j + 1].pos = After(w[i + 1])
    BY Zenon, <1>1, <2>1 DEF Link
  <2> QED
    BY Zenon, <2>2, <2>3
<1>10. Tail(w) = <<>> => After(f) = Done(q)
  BY Zenon, <1>1, <1>2, <1>3 DEF Link
<1>11. Tail(w) # <<>> => /\ wire'[q][1].pos = After(f)
                         /\ After(wire'[q][L - 1]) = Done(q)
  <2> SUFFICES ASSUME Tail(w) # <<>>
               PROVE  /\ wire'[q][1].pos = After(f)
                      /\ After(wire'[q][L - 1]) = Done(q)
    BY Zenon
  <2>1. /\ 1 \in 1 .. L /\ 2 \in 1 .. L /\ 2 = 1 + 1
        /\ 1 \in 1 .. L - 1 /\ L - 1 \in 1 .. L - 1 /\ (L - 1) + 1 = L
    BY <1>3
  <2>2. wire'[q][1] = w[2] /\ wire'[q][L - 1] = w[L]
    BY Zenon, <1>8, <2>1
  <2>3. w[2].pos = After(w[1])
    BY Zenon, <1>1, <2>1 DEF Link
  <2>4. After(w[L]) = Done(q)
    BY Zenon, <1>1 DEF Link
  <2> QED
    BY Zenon, <1>2, <2>2, <2>3, <2>4
<1>12. After(f).fin = 1 => After(f).db = put[q].db
  <2>1. /\ f.kind = "FIN" => After(f).db = f.pos.db /\ f.pos.db = put[q].db
        /\ f.kind # "FIN" => After(f).fin = f.pos.fin
        /\ f.kind = "DATA" => f.pos.fin = 0
        /\ f.kind # "DATA" => After(f).db = f.pos.db
    BY Zenon, <1>2 DEF After, FrameOK
  <2>2. got[p].fin = 1 => got[p].db = put[q].db
    BY Zenon, <1>0, <1>1 DEF Link
  <2> QED
    BY <1>2, <2>1, <2>2
<1>13. Link(q)'
  <2>1. Len(wire'[q]) = L - 1 /\ (wire'[q] = <<>> <=> Tail(w) = <<>>) /\ got'[Other(q)] = After(f)
    BY Zenon, <1>0, <1>3, <1>4
  <2> HIDE DEF L, w
  <2> QED
    BY ZenonT(30), <1>2, <1>7, <1>8, <1>9, <1>10, <1>11, <1>12, <2>1 DEF Link
<1> QED
  BY Zenon, <1>4, <1>5, <1>6, <1>13

(* A received frame changes its receiver's part of the invariant; the rest *)
(* follows from the order of the wire.                                     *)
LEMMA ReceiveFrame ==
    ASSUME NEW p \in Peers, IInv, NEW q, q = Other(p), wire[q] # <<>>,
           NEW f, f = Head(wire[q]), Receive(p, "none"),
           ch' \in [Peers -> Channel], ch'[q] = ch[q],
           inbound' \in [Peers -> Seq(Nat)], inbound'[q] = inbound[q],
           read' \in [Peers -> Nat], read'[q] = read[q],
           Credit(p)', Buffers(p)', Flags(p)'
    PROVE  IInv'
<1>0. q \in Peers /\ q # p /\ \A r \in Peers : r = p \/ r = q
  BY Zenon, PeerFacts
<1>1. /\ wire' = [wire EXCEPT ![q] = Tail(wire[q])] /\ got' = [got EXCEPT ![p] = After(f)]
      /\ fault' = [fault EXCEPT ![p] = "none"]
      /\ UNCHANGED <<app, written, eof, aborted, writing, put>>
  BY ZenonT(30) DEF Receive
<1>2. /\ Link(p)' /\ Link(q)' /\ got'[q] = got[q]
      /\ wire' \in [Peers -> Seq(Frames)] /\ got' \in [Peers -> Totals]
      /\ got[p].fin = 1 => got'[p].fin = 1
  BY ZenonT(30), <1>1, ReceiveLink
<1>3. fault' = fault
  BY <1>1 DEF IInv, Local, Flags, ChannelTypeOK
<1>4. ChannelTypeOK'
  BY Zenon, <1>1, <1>2, <1>3 DEF IInv, ChannelTypeOK
<1>5. Writer(p)'
  BY Zenon, <1>1, <1>2 DEF IInv, Local, Writer, FrameOK
<1>6. Local(q)'
  <2>1. Local(q)
    BY Zenon, <1>0 DEF IInv
  <2> QED
    BY Zenon, <1>0, <1>1, <1>2, <1>3, <2>1, LocalStable
<1> QED
  BY Zenon, <1>0, <1>2, <1>4, <1>5, <1>6 DEF IInv, Local

(* A frame in the place of the head of the wire passes every check of its  *)
(* handler.                                                                *)
LEMMA Admitted ==
    ASSUME NEW p \in Peers, IInv, NEW q, q = Other(p), NEW f \in Frames,
           f.pos = got[p], FrameOK(q, f), Le(After(f), Done(q))
    PROVE  /\ f.kind = "DATA" => /\ f.bytes <= ch[p].receive_bytes
                                 /\ 1 <= ch[p].receive_frames /\ ~ch[p].remote_fin
           /\ f.kind = "WINDOW" => /\ ch[p].send_bytes + f.bytes <= ByteWindow[q]
                                   /\ ch[p].send_frames + f.frames <= FrameWindow[q]
           /\ f.kind = "FIN" => ~ch[p].remote_fin
           /\ f.kind = "CLOSED" => ch[p].fin_sent /\ ch[p].remote_fin /\ ~ch[p].remote_closed
<1>0. q \in Peers /\ Other(q) = p /\ Other(p) = q
  BY Zenon, PeerFacts
<1>1. /\ f \in Frames /\ f.pos = got[p] /\ FrameOK(q, f) /\ Le(After(f), Done(q))
      /\ After(f) \in Totals
  BY Zenon, AfterFacts
<1>2. /\ Done(p) \in Totals /\ put[p] \in Totals /\ got[p] \in Totals /\ Le(Done(p), put[p])
      /\ Done(q) \in Totals /\ put[q] \in Totals /\ got[q] \in Totals /\ Le(Done(q), put[q])
  BY Zenon, <1>0, DoneFacts
<1>3. /\ Credit(p) /\ Credit(q) /\ Flags(p) /\ Buffers(q)
      /\ ch[p] \in Channel /\ ch[q] \in Channel /\ read[q] \in Nat
  BY Zenon, <1>0 DEF IInv, Local, ChannelTypeOK
<1>4. Le(got[q], Done(p))
  BY Zenon, <1>0 DEF IInv, Link
<1>5. /\ ByteWindow[p] \in Nat /\ FrameWindow[p] \in Nat
      /\ ByteWindow[q] \in Nat /\ FrameWindow[q] \in Nat
  BY Zenon, <1>0, ChannelAssumption
<1>6. f.bytes \in Nat /\ f.frames \in Nat
  BY Zenon, <1>1 DEF Frames
<1>7. ASSUME f.kind = "DATA"
      PROVE  /\ f.bytes <= ch[p].receive_bytes
             /\ 1 <= ch[p].receive_frames /\ ~ch[p].remote_fin
  <2>1. After(f).db = got[p].db + f.bytes /\ After(f).df = got[p].df + 1
    BY ZenonT(30), <1>1, <1>7 DEF After
  <2>2. /\ got[p].db + f.bytes <= put[q].db /\ got[p].df + 1 <= put[q].df
    BY SMTT(30), <1>1, <1>2, <1>6, <2>1 DEF Le, Totals
  <2>3. /\ 0 <= ByteWindow[p] + got[q].wb - put[q].db
        /\ 0 <= FrameWindow[p] + got[q].wf - put[q].df
    BY SMTT(30), <1>0, <1>3 DEF Credit, Channel
  <2>4. /\ f.bytes <= ByteWindow[p] + Done(p).wb - got[p].db
        /\ 1 <= FrameWindow[p] + Done(p).wf - got[p].df
    BY SMTT(30), <1>2, <1>4, <1>5, <1>6, <2>2, <2>3 DEF Le, Totals
  <2>5. ~ch[p].remote_fin
    BY SMTT(30), <1>1, <1>3, <1>7 DEF FrameOK, Flags
  <2> QED
    BY Zenon, <1>3, <2>4, <2>5 DEF Credit
<1>8. ASSUME f.kind = "WINDOW"
      PROVE  /\ ch[p].send_bytes + f.bytes <= ByteWindow[q]
             /\ ch[p].send_frames + f.frames <= FrameWindow[q]
  <2>1. After(f).wb = got[p].wb + f.bytes /\ After(f).wf = got[p].wf + f.frames
    BY ZenonT(30), <1>1, <1>8 DEF After
  <2>2. /\ got[p].wb + f.bytes <= put[q].wb /\ got[p].wf + f.frames <= put[q].wf
    BY <1>1, <1>2, <1>6, <2>1 DEF Le, Totals
  <2>3. Taken(q) \in Int /\ Taken(q) <= got[q].df
    <3>1. inbound[q] \in Seq(Nat)
      BY Zenon, <1>0 DEF IInv, ChannelTypeOK
    <3>2. PICK L \in Nat : L = Len(inbound[q])
      BY <3>1
    <3>3. got[q].df \in Nat
      BY Zenon, <1>2 DEF Totals
    <3>4. Taken(q) = got[q].df - L
      BY Zenon, <3>2 DEF Taken
    <3> QED
      BY <3>2, <3>3, <3>4
  <2>4. /\ put[q].wb <= read[q] /\ read[q] <= got[q].db /\ put[q].wf <= Taken(q)
    <3>1. /\ put[q].wb + ch[q].consumed_bytes <= read[q]
          /\ put[q].wf + ch[q].consumed_frames <= Taken(q)
          /\ read[q] <= got[q].db
      BY Zenon, <1>3 DEF Credit, Buffers
    <3>2. /\ put[q].wb \in Nat /\ put[q].wf \in Nat
          /\ ch[q].consumed_bytes \in Nat /\ ch[q].consumed_frames \in Nat
      BY Zenon, <1>2, <1>3 DEF Totals, Channel
    <3>3. read[q] \in Nat
      BY Zenon, <1>3
    <3> QED
      BY <2>3, <3>1, <3>2, <3>3
  <2>5. /\ got[p].wb + f.bytes <= put[p].db /\ got[p].wf + f.frames <= put[p].df
    <3>1. got[q].db <= put[p].db /\ got[q].df <= put[p].df
      BY <1>2, <1>4 DEF Le, Totals
    <3>2. /\ put[q].wb \in Nat /\ put[q].wf \in Nat /\ got[q].db \in Nat /\ got[q].df \in Nat
          /\ put[p].db \in Nat /\ put[p].df \in Nat /\ got[p].wb \in Nat /\ got[p].wf \in Nat
          /\ read[q] \in Nat
      BY Zenon, <1>2, <1>3 DEF Totals
    <3> QED
      BY SMTT(30), <1>6, <2>2, <2>3, <2>4, <3>1, <3>2
  <2>6. /\ ch[p].send_bytes = ByteWindow[q] + got[p].wb - put[p].db
        /\ ch[p].send_frames = FrameWindow[q] + got[p].wf - put[p].df
    BY Zenon, <1>0, <1>3 DEF Credit
  <2>7. got[p].wb \in Nat /\ got[p].wf \in Nat /\ put[p].db \in Nat /\ put[p].df \in Nat
    BY ZenonT(30), <1>2 DEF Totals
  <2> QED
    BY <1>5, <1>6, <2>5, <2>6, <2>7
<1>9. f.kind = "FIN" => ~ch[p].remote_fin
  BY SMTT(30), <1>1, <1>3 DEF FrameOK, Flags
<1>10. ASSUME f.kind = "CLOSED"
       PROVE  ch[p].fin_sent /\ ch[p].remote_fin /\ ~ch[p].remote_closed
  <2>1. got[p].fin = 1 /\ got[p].cl = 0 /\ got[q].fin = 1
    BY ZenonT(30), <1>1, <1>10 DEF FrameOK
  <2>2. 1 <= put[p].fin
    BY <1>2, <1>4, <2>1 DEF Le, Totals
  <2> QED
    BY <1>3, <2>1, <2>2 DEF Flags
<1> QED
  BY Zenon, <1>7, <1>8, <1>9, <1>10

(* Receiving DATA preserves the invariant: its bytes use receive credit and *)
(* are buffered, or discarded and counted as consumed.                     *)
LEMMA ReceiveDataIInv ==
    ASSUME NEW p \in Peers, IInv, ReceiveData(p) PROVE IInv'
<1>q. PICK q : q = Other(p)
  BY Zenon
<1>w. wire[q] # <<>> /\ Head(wire[q]).kind = "DATA"
  BY Zenon, <1>q DEF ReceiveData, Arrives
<1>f. PICK f : f = Head(wire[q])
  BY Zenon
<1>0. q \in Peers /\ q # p /\ Other(p) = q
  BY Zenon, <1>q, PeerFacts
<1>1. /\ f \in Frames /\ f.pos = got[p] /\ FrameOK(q, f) /\ Le(After(f), Done(q))
      /\ After(f) \in Totals /\ ~ch[p].removed
  BY Zenon, <1>q, <1>w, <1>f, HeadFacts
<1>2. PICK n \in Nat : n = f.bytes
  BY Zenon, <1>1 DEF Frames
<1>3. n <= ch[p].receive_bytes /\ 1 <= ch[p].receive_frames /\ ~ch[p].remote_fin
  BY Zenon, <1>q, <1>w, <1>f, <1>1, <1>2, Admitted
<1>4. /\ ch \in [Peers -> Channel] /\ ch[p] \in Channel /\ read \in [Peers -> Nat]
      /\ read[p] \in Nat /\ inbound \in [Peers -> Seq(Nat)] /\ inbound[p] \in Seq(Nat)
      /\ got \in [Peers -> Totals] /\ got[p] \in Totals /\ put[p] \in Totals
      /\ Credit(p) /\ Buffers(p) /\ Flags(p) /\ fault \in [Peers -> Faults]
  BY Zenon DEF IInv, ChannelTypeOK, Local
<1>5. /\ ch[p].receive_bytes \in Nat /\ ch[p].receive_frames \in Nat
      /\ ch[p].consumed_bytes \in Nat /\ ch[p].consumed_frames \in Nat
      /\ got[p].db \in Nat /\ got[p].df \in Nat /\ put[p].wb \in Nat /\ put[p].wf \in Nat
      /\ Done(p) \in Totals /\ Done(p).wb \in Nat /\ Done(p).wf \in Nat
      /\ ByteWindow[p] \in Nat /\ FrameWindow[p] \in Nat
  BY Zenon, <1>4, ChannelAssumption, DoneFacts DEF Channel, Totals
<1>6. DataError(p, n) = "none" /\ Applies(p, DataError(p, n))
  <2>1. ~(ch[p].receive_bytes < n) /\ ~(ch[p].receive_frames < 1)
    BY <1>3, <1>5
  <2> QED
    BY Zenon, <1>1, <1>3, <2>1 DEF DataError, Applies
<1> DEFINE d == ch[p].discard_inbound
           cb == IF d THEN ch[p].consumed_bytes + n ELSE ch[p].consumed_bytes
           cf == IF d THEN ch[p].consumed_frames + 1 ELSE ch[p].consumed_frames
           s == inbound[p]
           e == got[p].db + n
<1>7. /\ Receive(p, "none")
      /\ ch' = [ch EXCEPT ![p].receive_bytes = ch[p].receive_bytes - n,
                          ![p].receive_frames = ch[p].receive_frames - 1,
                          ![p].consumed_bytes = cb, ![p].consumed_frames = cf]
      /\ read' = IF d THEN [read EXCEPT ![p] = read[p] + n] ELSE read
      /\ inbound' = IF ~d THEN [inbound EXCEPT ![p] = Append(s, e)] ELSE inbound
  BY Zenon, <1>q, <1>f, <1>2, <1>6 DEF ReceiveData
<1>8. cb \in Nat /\ cf \in Nat /\ e \in Nat
  BY <1>5
<1>9. /\ ch[p].receive_bytes - n \in Nat /\ ch[p].receive_frames - 1 \in Nat
  BY <1>3, <1>5
<1>10. /\ Append(s, e) \in Seq(Nat) /\ Append(s, e) # <<>>
       /\ Len(Append(s, e)) = Len(s) + 1 /\ Len(s) \in Nat
       /\ Append(s, e)[Len(s) + 1] = e
       /\ \A i \in 1 .. Len(s) : Append(s, e)[i] = s[i]
  <2>1. s \in Seq(Nat) /\ e \in Nat
    BY Zenon, <1>4, <1>8
  <2> HIDE DEF e, s
  <2> QED
    BY <2>1, AppendFacts
<1>11. /\ read' \in [Peers -> Nat] /\ read'[q] = read[q]
       /\ read'[p] = (IF d THEN read[p] + n ELSE read[p])
       /\ inbound' \in [Peers -> Seq(Nat)] /\ inbound'[q] = inbound[q]
       /\ inbound'[p] = (IF d THEN s ELSE Append(s, e))
  BY <1>0, <1>4, <1>7, <1>10
<1> HIDE DEF cb, cf, e
<1>12. /\ ch'[p] = [ch[p] EXCEPT !.receive_bytes = ch[p].receive_bytes - n,
                          !.receive_frames = ch[p].receive_frames - 1,
                          !.consumed_bytes = cb, !.consumed_frames = cf]
       /\ ch' \in [Peers -> Channel] /\ ch'[q] = ch[q]
  BY ZenonT(30), <1>0, <1>4, <1>7, <1>8, <1>9 DEF Channel
<1>u. /\ UNCHANGED <<app, written, eof, aborted, writing, put>>
      /\ got' = [got EXCEPT ![p] = After(f)] /\ fault' = [fault EXCEPT ![p] = "none"]
  BY ZenonT(30), <1>7, <1>f, <1>q DEF Receive
<1>13. /\ got'[p].db = e /\ e = got[p].db + n /\ got'[p].df = got[p].df + 1
       /\ got'[p].wb = got[p].wb /\ got'[p].wf = got[p].wf
       /\ got'[p].fin = got[p].fin /\ got'[p].cl = got[p].cl /\ fault'[p] = "none"
  <2>1. got'[p] = After(f) /\ fault'[p] = "none"
    BY Zenon, <1>4, <1>u
  <2>2. f.kind = "DATA"
    BY Zenon, <1>w, <1>f
  <2> QED
    BY <1>1, <1>2, <2>1, <2>2 DEF After, e
<1>14. Credit(p)'
  <2>1. /\ ch'[p].send_bytes = ch[p].send_bytes /\ ch'[p].send_frames = ch[p].send_frames
        /\ ch'[p].receive_bytes = ch[p].receive_bytes - n
        /\ ch'[p].receive_frames = ch[p].receive_frames - 1
        /\ ch'[p].remote_fin = ch[p].remote_fin
        /\ ch'[p].consumed_bytes = cb /\ ch'[p].consumed_frames = cf
    BY Zenon, <1>4, <1>12 DEF Channel
  <2>2. Taken(p) \in Int /\ Taken(p)' = IF d THEN Taken(p) + 1 ELSE Taken(p)
    <3>1. PICK L \in Nat : L = Len(s)
      BY Zenon, <1>10
    <3>2. Len(inbound'[p]) = IF d THEN L ELSE L + 1
      BY Zenon, <1>10, <1>11, <3>1
    <3>3. Taken(p) = got[p].df - L /\ Taken(p)' = (got[p].df + 1) - (IF d THEN L ELSE L + 1)
      BY Zenon, <1>13, <3>1, <3>2 DEF Taken
    <3>4. CASE d
      BY <1>5, <3>3, <3>4
    <3>5. CASE ~d
      BY <1>5, <3>3, <3>5
    <3> QED
      BY Zenon, <3>4, <3>5
  <2>3. Done(p)' = Done(p)
    BY Zenon, <1>u DEF Done
  <2>4. /\ ch[p].receive_bytes = ByteWindow[p] + Done(p).wb - got[p].db
        /\ ch[p].receive_frames = FrameWindow[p] + Done(p).wf - got[p].df
        /\ put[p].wb + ch[p].consumed_bytes = read[p]
        /\ put[p].wf + ch[p].consumed_frames = Taken(p)
    BY Zenon, <1>3, <1>4 DEF Credit
  <2>5. /\ ch'[p].receive_bytes = ByteWindow[p] + Done(p).wb - (got[p].db + n)
        /\ ch'[p].receive_frames = FrameWindow[p] + Done(p).wf - (got[p].df + 1)
    BY <1>5, <2>1, <2>4
  <2>r. read[p] \in Nat
    BY Zenon, <1>4
  <2>6. put[p].wb + cb = (IF d THEN read[p] + n ELSE read[p])
    BY <1>5, <2>r, <2>4 DEF cb
  <2>7. put[p].wf + cf = (IF d THEN Taken(p) + 1 ELSE Taken(p))
    BY <1>5, <2>2, <2>4 DEF cf
  <2>8. /\ put[p].wb + cb = read'[p] /\ put[p].wf + cf = Taken(p)'
    BY Zenon, <1>11, <2>2, <2>6, <2>7
  <2>9. /\ read'[p] <= read'[p] /\ Taken(p)' <= Taken(p)'
    <3>1. read'[p] \in Int /\ Taken(p)' \in Int
      BY <1>11, <2>2
    <3> QED
      BY <3>1
  <2> QED
    BY Zenon, <1>4, <1>u, <1>13, <2>1, <2>3, <2>5, <2>8, <2>9 DEF Credit
<1>15. Buffers(p)'
  <2>1. put[p].db <= written[p] /\ written[p] - put[p].db <= ByteWindow[p]
        /\ read[p] <= got[p].db
        /\ (s = <<>> => read[p] = got[p].db)
    BY ZenonT(30), <1>4 DEF Buffers
  <2>2. CASE d
    <3>1. s = <<>> /\ inbound'[p] = <<>>
      BY ZenonT(30), <1>4, <1>11, <2>2 DEF Flags
    <3>2. read'[p] = got[p].db + n /\ got[p].db + n <= got[p].db + n
      BY SMTT(30), <1>5, <1>11, <2>1, <2>2, <3>1
    <3> QED
      BY <1>u, <1>13, <2>1, <3>1, <3>2 DEF Buffers
  <2>3. CASE ~d
    <3>1. inbound'[p] = Append(s, e) /\ read'[p] = read[p]
      BY Zenon, <1>11, <2>3
    <3>2. read[p] <= e
      BY SMTT(30), <1>4, <1>5, <1>13, <2>1
    <3>a. \A v \in Nat : v <= got[p].db => v <= e
      BY <1>5, <1>13
    <3>3. ASSUME NEW i \in 1 .. Len(s) + 1 PROVE Append(s, e)[i] <= e
      <4>1. CASE i = Len(s) + 1
        BY <1>8, <1>10, <4>1
      <4>2. CASE i # Len(s) + 1
        <5>1. i \in 1 .. Len(s)
          BY <1>10, <4>2
        <5>2. s[i] \in Nat /\ s[i] <= got[p].db
          BY SMTT(30), <1>4, <5>1 DEF Buffers
        <5>3. s[i] <= e
          BY Zenon, <3>a, <5>2
        <5> QED
          BY Zenon, <1>10, <5>1, <5>3
      <4> QED
        BY Zenon, <4>1, <4>2
    <3> QED
      BY Zenon, <1>u, <1>10, <1>13, <2>1, <3>1, <3>2, <3>3 DEF Buffers
  <2> QED
    BY Zenon, <2>2, <2>3
<1>16. Flags(p)'
  <2>1. /\ ch'[p].fin_sent = ch[p].fin_sent /\ ch'[p].remote_fin = ch[p].remote_fin
        /\ ch'[p].closed_sent = ch[p].closed_sent /\ ch'[p].removed = ch[p].removed
        /\ ch'[p].remote_closed = ch[p].remote_closed
        /\ ch'[p].local_fin_requested = ch[p].local_fin_requested
        /\ ch'[p].local_close_requested = ch[p].local_close_requested
        /\ ch'[p].discard_inbound = ch[p].discard_inbound
    BY Zenon, <1>4, <1>12 DEF Channel
  <2>2. ch[p].discard_inbound => inbound'[p] = <<>>
    BY Zenon, <1>4, <1>11 DEF Flags
  <2>3. ~eof[p]
    BY Zenon, <1>3, <1>4 DEF Flags
  <2> QED
    BY ZenonT(30), <1>4, <1>u, <1>13, <2>1, <2>2, <2>3 DEF Flags
<1>17. /\ ch' \in [Peers -> Channel] /\ ch'[q] = ch[q]
       /\ inbound' \in [Peers -> Seq(Nat)] /\ inbound'[q] = inbound[q]
       /\ read' \in [Peers -> Nat] /\ read'[q] = read[q] /\ Receive(p, "none")
  BY Zenon, <1>7, <1>11, <1>12
<1> QED
  BY Zenon, <1>q, <1>w, <1>f, <1>14, <1>15, <1>16, <1>17, ReceiveFrame

(* Receiving WINDOW preserves the invariant: the returned credit is added.   *)
LEMMA ReceiveWindowIInv ==
    ASSUME NEW p \in Peers, IInv, ReceiveWindow(p) PROVE IInv'
<1>q. PICK q : q = Other(p)
  BY Zenon
<1>w. wire[q] # <<>> /\ Head(wire[q]).kind = "WINDOW"
  BY Zenon, <1>q DEF ReceiveWindow, Arrives
<1>f. PICK f : f = Head(wire[q])
  BY Zenon
<1>0. q \in Peers /\ q # p /\ Other(p) = q
  BY Zenon, <1>q, PeerFacts
<1>k. f.kind = "WINDOW"
  BY Zenon, <1>w, <1>f
<1>1. /\ f \in Frames /\ f.pos = got[p] /\ FrameOK(q, f) /\ Le(After(f), Done(q))
      /\ After(f) \in Totals /\ ~ch[p].removed
  BY Zenon, <1>q, <1>w, <1>f, HeadFacts
<1>2. f.bytes \in Nat /\ f.frames \in Nat
  BY Zenon, <1>1 DEF Frames
<1>3. /\ ch[p].send_bytes + f.bytes <= ByteWindow[q]
      /\ ch[p].send_frames + f.frames <= FrameWindow[q]
  BY Zenon, <1>q, <1>k, <1>1, Admitted
<1>4. /\ ch \in [Peers -> Channel] /\ ch[p] \in Channel /\ got \in [Peers -> Totals]
      /\ got[p] \in Totals /\ put[p] \in Totals /\ read[p] \in Nat
      /\ Credit(p) /\ Buffers(p) /\ Flags(p) /\ fault \in [Peers -> Faults]
  BY Zenon DEF IInv, ChannelTypeOK, Local
<1>t. /\ read \in [Peers -> Nat] /\ inbound \in [Peers -> Seq(Nat)]
  BY Zenon DEF IInv, ChannelTypeOK
<1>5. /\ ch[p].send_bytes \in Nat /\ ch[p].send_frames \in Nat
      /\ got[p].wb \in Nat /\ got[p].wf \in Nat /\ put[p].db \in Nat /\ put[p].df \in Nat
      /\ ch[p].consumed_bytes \in Nat /\ ch[p].consumed_frames \in Nat
      /\ put[p].wb \in Nat /\ put[p].wf \in Nat
      /\ ByteWindow[q] \in Nat /\ FrameWindow[q] \in Nat
  BY Zenon, <1>0, <1>4, ChannelAssumption DEF Channel, Totals
<1>6. WindowError(p, f) = "none"
  <2>1. /\ ~(ch[p].send_bytes + f.bytes > ByteWindow[q])
        /\ ~(ch[p].send_frames + f.frames > FrameWindow[q])
    BY <1>2, <1>3, <1>5
  <2> QED
    BY ZenonT(30), <1>0, <2>1 DEF WindowError
<1>7. Receive(p, "none") /\ UNCHANGED <<inbound, read>>
  BY Zenon, <1>q, <1>f, <1>6 DEF ReceiveWindow, Applies
<1>8. ch' = [ch EXCEPT ![p].send_bytes = ch[p].send_bytes + f.bytes,
                   ![p].send_frames = ch[p].send_frames + f.frames]
  BY Zenon, <1>q, <1>f, <1>1, <1>6 DEF ReceiveWindow, Applies
<1>9. /\ ch'[p] = [ch[p] EXCEPT !.send_bytes = ch[p].send_bytes + f.bytes,
                          !.send_frames = ch[p].send_frames + f.frames]
      /\ ch' \in [Peers -> Channel] /\ ch'[q] = ch[q]
  <2>1. ch[p].send_bytes + f.bytes \in Nat /\ ch[p].send_frames + f.frames \in Nat
    BY <1>2, <1>5
  <2> QED
    BY ZenonT(30), <1>0, <1>4, <1>8, <2>1 DEF Channel
<1>u. /\ UNCHANGED <<app, written, eof, aborted, writing, put>>
      /\ got' = [got EXCEPT ![p] = After(f)] /\ fault' = [fault EXCEPT ![p] = "none"]
  BY ZenonT(30), <1>7, <1>f, <1>q DEF Receive
<1>10. /\ got'[p].db = got[p].db
       /\ got'[p].df = got[p].df
       /\ got'[p].wb = got[p].wb + f.bytes
       /\ got'[p].wf = got[p].wf + f.frames
       /\ got'[p].fin = got[p].fin
       /\ got'[p].cl = got[p].cl
       /\ fault'[p] = "none"
  <2>1. got'[p] = After(f) /\ fault'[p] = "none"
    BY Zenon, <1>4, <1>u
  <2> QED
    BY <1>1, <1>k, <2>1 DEF After
<1>11. Credit(p)'
  <2>1. /\ ch'[p].send_bytes = ch[p].send_bytes + f.bytes
        /\ ch'[p].send_frames = ch[p].send_frames + f.frames
        /\ ch'[p].receive_bytes = ch[p].receive_bytes
        /\ ch'[p].receive_frames = ch[p].receive_frames
        /\ ch'[p].remote_fin = ch[p].remote_fin
        /\ ch'[p].consumed_bytes = ch[p].consumed_bytes
        /\ ch'[p].consumed_frames = ch[p].consumed_frames
    BY Zenon, <1>4, <1>9 DEF Channel
  <2>2. Taken(p)' = Taken(p)
    BY Zenon, <1>7, <1>10 DEF Taken
  <2>3. Done(p)' = Done(p)
    BY Zenon, <1>u DEF Done
  <2>4. /\ ch[p].send_bytes = ByteWindow[q] + got[p].wb - put[p].db
        /\ ch[p].send_frames = FrameWindow[q] + got[p].wf - put[p].df
    BY ZenonT(30), <1>0, <1>4 DEF Credit
  <2>5. /\ ch'[p].send_bytes = ByteWindow[q] + (got[p].wb + f.bytes) - put[p].db
        /\ ch'[p].send_frames = FrameWindow[q] + (got[p].wf + f.frames) - put[p].df
    BY <1>2, <1>5, <2>1, <2>4
  <2> QED
    BY Zenon, <1>0, <1>4, <1>7, <1>u, <1>10, <2>1, <2>2, <2>3, <2>5 DEF Credit
<1>12. Buffers(p)'
  <2>1. inbound' = inbound /\ read' = read
    BY ZenonT(30), <1>7
  <2> QED
    BY Zenon, <1>4, <1>u, <1>10, <2>1 DEF Buffers
<1>13. Flags(p)'
  <2>1. /\ ch'[p].fin_sent = ch[p].fin_sent
        /\ ch'[p].remote_fin = ch[p].remote_fin
        /\ ch'[p].closed_sent = ch[p].closed_sent
        /\ ch'[p].removed = ch[p].removed
        /\ ch'[p].remote_closed = ch[p].remote_closed
        /\ ch'[p].local_fin_requested = ch[p].local_fin_requested
        /\ ch'[p].local_close_requested = ch[p].local_close_requested
        /\ ch'[p].discard_inbound = ch[p].discard_inbound
    BY Zenon, <1>4, <1>9 DEF Channel
  <2>2. inbound' = inbound
    BY Zenon, <1>7
  <2> QED
    BY ZenonT(30), <1>4, <1>u, <1>10, <2>1, <2>2 DEF Flags
<1>14. /\ ch' \in [Peers -> Channel] /\ ch'[q] = ch[q]
       /\ inbound' \in [Peers -> Seq(Nat)] /\ inbound'[q] = inbound[q]
       /\ read' \in [Peers -> Nat] /\ read'[q] = read[q]
  BY Zenon, <1>t, <1>7, <1>9
<1> QED
  BY Zenon, <1>q, <1>w, <1>f, <1>7, <1>11, <1>12, <1>13, <1>14, ReceiveFrame

(* Receiving FIN preserves the invariant: credit not yet sent is forgotten.  *)
LEMMA ReceiveFinIInv ==
    ASSUME NEW p \in Peers, IInv, ReceiveFin(p) PROVE IInv'
<1>q. PICK q : q = Other(p)
  BY Zenon
<1>w. wire[q] # <<>> /\ Head(wire[q]).kind = "FIN"
  BY Zenon, <1>q DEF ReceiveFin, Arrives
<1>f. PICK f : f = Head(wire[q])
  BY Zenon
<1>0. q \in Peers /\ q # p /\ Other(p) = q
  BY Zenon, <1>q, PeerFacts
<1>k. f.kind = "FIN"
  BY Zenon, <1>w, <1>f
<1>1. /\ f \in Frames /\ f.pos = got[p] /\ FrameOK(q, f) /\ Le(After(f), Done(q))
      /\ After(f) \in Totals /\ ~ch[p].removed
  BY Zenon, <1>q, <1>w, <1>f, HeadFacts
<1>2. f.bytes \in Nat /\ f.frames \in Nat
  BY Zenon, <1>1 DEF Frames
<1>3. ~ch[p].remote_fin
  BY Zenon, <1>q, <1>k, <1>1, Admitted
<1>4. /\ ch \in [Peers -> Channel] /\ ch[p] \in Channel /\ got \in [Peers -> Totals]
      /\ got[p] \in Totals /\ put[p] \in Totals /\ read[p] \in Nat
      /\ Credit(p) /\ Buffers(p) /\ Flags(p) /\ fault \in [Peers -> Faults]
  BY Zenon DEF IInv, ChannelTypeOK, Local
<1>t. /\ read \in [Peers -> Nat] /\ inbound \in [Peers -> Seq(Nat)]
  BY Zenon DEF IInv, ChannelTypeOK
<1>5. /\ ch[p].send_bytes \in Nat /\ ch[p].send_frames \in Nat
      /\ got[p].wb \in Nat /\ got[p].wf \in Nat /\ put[p].db \in Nat /\ put[p].df \in Nat
      /\ ch[p].consumed_bytes \in Nat /\ ch[p].consumed_frames \in Nat
      /\ put[p].wb \in Nat /\ put[p].wf \in Nat
      /\ ByteWindow[q] \in Nat /\ FrameWindow[q] \in Nat
  BY Zenon, <1>0, <1>4, ChannelAssumption DEF Channel, Totals
<1>6. FinError(p) = "none"
  BY Zenon, <1>3 DEF FinError
<1>7. Receive(p, "none") /\ UNCHANGED <<inbound, read>>
  BY Zenon, <1>q, <1>f, <1>6 DEF ReceiveFin, Applies
<1>8. ch' = [ch EXCEPT ![p].remote_fin = TRUE,
                   ![p].consumed_bytes = 0,
                   ![p].consumed_frames = 0]
  BY Zenon, <1>q, <1>f, <1>1, <1>6 DEF ReceiveFin, Applies
<1>9. /\ ch'[p] = [ch[p] EXCEPT !.remote_fin = TRUE,
                          !.consumed_bytes = 0,
                          !.consumed_frames = 0]
      /\ ch' \in [Peers -> Channel] /\ ch'[q] = ch[q]
  BY ZenonT(30), <1>0, <1>4, <1>8 DEF Channel
<1>u. /\ UNCHANGED <<app, written, eof, aborted, writing, put>>
      /\ got' = [got EXCEPT ![p] = After(f)] /\ fault' = [fault EXCEPT ![p] = "none"]
  BY ZenonT(30), <1>7, <1>f, <1>q DEF Receive
<1>10. /\ got'[p].db = got[p].db
       /\ got'[p].df = got[p].df
       /\ got'[p].wb = got[p].wb
       /\ got'[p].wf = got[p].wf
       /\ got'[p].fin = got[p].fin + 1
       /\ got'[p].cl = got[p].cl
       /\ fault'[p] = "none"
  <2>1. got'[p] = After(f) /\ fault'[p] = "none"
    BY Zenon, <1>4, <1>u
  <2> QED
    BY SMTT(30), <1>1, <1>k, <2>1 DEF After
<1>11. Credit(p)'
  <2>1. /\ ch'[p].send_bytes = ch[p].send_bytes
        /\ ch'[p].send_frames = ch[p].send_frames
        /\ ch'[p].receive_bytes = ch[p].receive_bytes
        /\ ch'[p].receive_frames = ch[p].receive_frames
        /\ ch'[p].remote_fin = TRUE
        /\ ch'[p].consumed_bytes = 0
        /\ ch'[p].consumed_frames = 0
    BY Zenon, <1>4, <1>9 DEF Channel
  <2>2. Taken(p)' = Taken(p)
    BY Zenon, <1>7, <1>10 DEF Taken
  <2>3. Done(p)' = Done(p)
    BY Zenon, <1>u DEF Done
  <2>4. /\ put[p].wb + ch[p].consumed_bytes = read[p]
        /\ put[p].wf + ch[p].consumed_frames = Taken(p)
    BY ZenonT(30), <1>3, <1>4 DEF Credit
  <2>5. put[p].wb + 0 <= read[p] /\ put[p].wf + 0 <= Taken(p)
    BY <1>5, <2>4
  <2> QED
    BY Zenon, <1>4, <1>7, <1>u, <1>10, <2>1, <2>2, <2>3, <2>5 DEF Credit
<1>12. Buffers(p)'
  <2>1. inbound' = inbound /\ read' = read
    BY ZenonT(30), <1>7
  <2> QED
    BY Zenon, <1>4, <1>u, <1>10, <2>1 DEF Buffers
<1>13. Flags(p)'
  <2>1. /\ ch'[p].fin_sent = ch[p].fin_sent
        /\ ch'[p].remote_fin = TRUE
        /\ ch'[p].closed_sent = ch[p].closed_sent
        /\ ch'[p].removed = ch[p].removed
        /\ ch'[p].remote_closed = ch[p].remote_closed
        /\ ch'[p].local_fin_requested = ch[p].local_fin_requested
        /\ ch'[p].local_close_requested = ch[p].local_close_requested
        /\ ch'[p].discard_inbound = ch[p].discard_inbound
    BY <1>4, <1>9 DEF Channel
  <2>2. inbound' = inbound
    BY Zenon, <1>7
  <2>3. got'[p].fin = 1
    BY SMTT(30), <1>3, <1>4, <1>10 DEF Flags
  <2> QED
    BY ZenonT(30), <1>4, <1>u, <1>10, <2>1, <2>2, <2>3 DEF Flags
<1>14. /\ ch' \in [Peers -> Channel] /\ ch'[q] = ch[q]
       /\ inbound' \in [Peers -> Seq(Nat)] /\ inbound'[q] = inbound[q]
       /\ read' \in [Peers -> Nat] /\ read'[q] = read[q]
  BY Zenon, <1>t, <1>7, <1>9
<1> QED
  BY Zenon, <1>q, <1>w, <1>f, <1>7, <1>11, <1>12, <1>13, <1>14, ReceiveFrame

(* Receiving CLOSED preserves the invariant.                                *)
LEMMA ReceiveClosedIInv ==
    ASSUME NEW p \in Peers, IInv, ReceiveClosed(p) PROVE IInv'
<1>q. PICK q : q = Other(p)
  BY Zenon
<1>w. wire[q] # <<>> /\ Head(wire[q]).kind = "CLOSED"
  BY Zenon, <1>q DEF ReceiveClosed, Arrives
<1>f. PICK f : f = Head(wire[q])
  BY Zenon
<1>0. q \in Peers /\ q # p /\ Other(p) = q
  BY Zenon, <1>q, PeerFacts
<1>k. f.kind = "CLOSED"
  BY Zenon, <1>w, <1>f
<1>1. /\ f \in Frames /\ f.pos = got[p] /\ FrameOK(q, f) /\ Le(After(f), Done(q))
      /\ After(f) \in Totals /\ ~ch[p].removed
  BY Zenon, <1>q, <1>w, <1>f, HeadFacts
<1>2. f.bytes \in Nat /\ f.frames \in Nat
  BY Zenon, <1>1 DEF Frames
<1>3. ch[p].fin_sent /\ ch[p].remote_fin /\ ~ch[p].remote_closed
  BY Zenon, <1>q, <1>k, <1>1, Admitted
<1>4. /\ ch \in [Peers -> Channel] /\ ch[p] \in Channel /\ got \in [Peers -> Totals]
      /\ got[p] \in Totals /\ put[p] \in Totals /\ read[p] \in Nat
      /\ Credit(p) /\ Buffers(p) /\ Flags(p) /\ fault \in [Peers -> Faults]
  BY Zenon DEF IInv, ChannelTypeOK, Local
<1>t. /\ read \in [Peers -> Nat] /\ inbound \in [Peers -> Seq(Nat)]
  BY Zenon DEF IInv, ChannelTypeOK
<1>5. /\ ch[p].send_bytes \in Nat /\ ch[p].send_frames \in Nat
      /\ got[p].wb \in Nat /\ got[p].wf \in Nat /\ put[p].db \in Nat /\ put[p].df \in Nat
      /\ ch[p].consumed_bytes \in Nat /\ ch[p].consumed_frames \in Nat
      /\ put[p].wb \in Nat /\ put[p].wf \in Nat
      /\ ByteWindow[q] \in Nat /\ FrameWindow[q] \in Nat
  BY Zenon, <1>0, <1>4, ChannelAssumption DEF Channel, Totals
<1>6. ClosedError(p) = "none"
  BY Zenon, <1>3 DEF ClosedError
<1>7. Receive(p, "none") /\ UNCHANGED <<inbound, read>>
  BY Zenon, <1>q, <1>f, <1>6 DEF ReceiveClosed, Applies
<1>8. ch' = [ch EXCEPT ![p].remote_closed = TRUE,
                   ![p].removed = ch[p].closed_sent]
  BY Zenon, <1>q, <1>f, <1>1, <1>6 DEF ReceiveClosed, Applies
<1>9. /\ ch'[p] = [ch[p] EXCEPT !.remote_closed = TRUE,
                          !.removed = ch[p].closed_sent]
      /\ ch' \in [Peers -> Channel] /\ ch'[q] = ch[q]
  BY ZenonT(30), <1>0, <1>4, <1>8 DEF Channel
<1>u. /\ UNCHANGED <<app, written, eof, aborted, writing, put>>
      /\ got' = [got EXCEPT ![p] = After(f)] /\ fault' = [fault EXCEPT ![p] = "none"]
  BY ZenonT(30), <1>7, <1>f, <1>q DEF Receive
<1>10. /\ got'[p].db = got[p].db
       /\ got'[p].df = got[p].df
       /\ got'[p].wb = got[p].wb
       /\ got'[p].wf = got[p].wf
       /\ got'[p].fin = got[p].fin
       /\ got'[p].cl = got[p].cl + 1
       /\ fault'[p] = "none"
  <2>1. got'[p] = After(f) /\ fault'[p] = "none"
    BY Zenon, <1>4, <1>u
  <2> QED
    BY <1>1, <1>k, <2>1 DEF After
<1>11. Credit(p)'
  <2>1. /\ ch'[p].send_bytes = ch[p].send_bytes
        /\ ch'[p].send_frames = ch[p].send_frames
        /\ ch'[p].receive_bytes = ch[p].receive_bytes
        /\ ch'[p].receive_frames = ch[p].receive_frames
        /\ ch'[p].remote_fin = ch[p].remote_fin
        /\ ch'[p].consumed_bytes = ch[p].consumed_bytes
        /\ ch'[p].consumed_frames = ch[p].consumed_frames
    BY Zenon, <1>4, <1>9 DEF Channel
  <2>2. Taken(p)' = Taken(p)
    BY Zenon, <1>7, <1>10 DEF Taken
  <2>3. Done(p)' = Done(p)
    BY Zenon, <1>u DEF Done
  <2> QED
    BY Zenon, <1>4, <1>7, <1>u, <1>10, <2>1, <2>2, <2>3 DEF Credit
<1>12. Buffers(p)'
  <2>1. inbound' = inbound /\ read' = read
    BY ZenonT(30), <1>7
  <2> QED
    BY Zenon, <1>4, <1>u, <1>10, <2>1 DEF Buffers
<1>13. Flags(p)'
  <2>1. /\ ch'[p].fin_sent = ch[p].fin_sent
        /\ ch'[p].remote_fin = ch[p].remote_fin
        /\ ch'[p].closed_sent = ch[p].closed_sent
        /\ ch'[p].removed = ch[p].closed_sent
        /\ ch'[p].remote_closed = TRUE
        /\ ch'[p].local_fin_requested = ch[p].local_fin_requested
        /\ ch'[p].local_close_requested = ch[p].local_close_requested
        /\ ch'[p].discard_inbound = ch[p].discard_inbound
    BY <1>4, <1>9 DEF Channel
  <2>2. inbound' = inbound
    BY Zenon, <1>7
  <2>3. got'[p].cl = 1
    BY <1>3, <1>4, <1>10 DEF Flags
  <2> QED
    BY ZenonT(30), <1>4, <1>u, <1>10, <2>1, <2>2, <2>3 DEF Flags
<1>14. /\ ch' \in [Peers -> Channel] /\ ch'[q] = ch[q]
       /\ inbound' \in [Peers -> Seq(Nat)] /\ inbound'[q] = inbound[q]
       /\ read' \in [Peers -> Nat] /\ read'[q] = read[q]
  BY Zenon, <1>t, <1>7, <1>9
<1> QED
  BY Zenon, <1>q, <1>w, <1>f, <1>7, <1>11, <1>12, <1>13, <1>14, ReceiveFrame

-----------------------------------------------------------------------------
(* Every step preserves the invariant.                                     *)
LEMMA NextIInv ==
    ASSUME IInv, [Next]_vars PROVE IInv'
<1>1. ASSUME NEW p \in Peers, AppStep(p) PROVE IInv'
  <2>n. 1 .. MaxBytes[p] \subseteq Nat /\ 1 .. MaxBytes[Other(p)] \subseteq Nat
    BY ChannelAssumption, PeerFacts
  <2>1. ASSUME NEW n \in 1 .. MaxBytes[p], Write(p, n) PROVE IInv'
    BY Zenon, <2>n, <2>1, WriteIInv
  <2>2. ASSUME NEW n \in 1 .. MaxBytes[Other(p)], Read(p, n) PROVE IInv'
    BY Zenon, <2>n, <2>2, ReadIInv
  <2>3. CASE ReadEof(p) \/ CancelClose(p) \/ CloseReturns(p)
    BY Zenon, <2>3, ReturnIInv
  <2>4. CASE Shutdown(p) \/ CloseChannel(p)
    BY Zenon, <2>4, RequestIInv
  <2>5. CASE Drop(p)
    BY Zenon, <2>5, DropIInv
  <2> QED
    BY Zenon, <1>1, <2>1, <2>2, <2>3, <2>4, <2>5 DEF AppStep
<1>2. ASSUME NEW p \in Peers, WriterStep(p) PROVE IInv'
  BY Zenon, <1>2, SelectWindowIInv, SelectFinIInv, SelectClosedIInv, SelectDataIInv,
     CompleteIInv DEF WriterStep
<1>3. ASSUME NEW p \in Peers, ReaderStep(p) PROVE IInv'
  BY Zenon, <1>3, ReceiveDataIInv, ReceiveWindowIInv, ReceiveFinIInv, ReceiveClosedIInv DEF ReaderStep
<1>4. CASE UNCHANGED vars
  <2>1. ChannelTypeOK'
    BY Zenon, <1>4 DEF vars, IInv, ChannelTypeOK
  <2>2. ASSUME NEW p \in Peers PROVE Local(p)' /\ Link(p)'
    BY Zenon, <1>4, LocalStable, LinkStable DEF vars, IInv
  <2> QED
    BY Zenon, <2>1, <2>2 DEF IInv
<1> QED
  BY Zenon, <1>1, <1>2, <1>3, <1>4 DEF Next

(* What a peer's part of the invariant says about its buffers and credits. *)
LEMMA Bounds ==
    ASSUME IInv, NEW p \in Peers
    PROVE  /\ got[p].db - read[p] <= ByteWindow[p] /\ Len(inbound[p]) <= FrameWindow[p]
           /\ written[p] - put[p].db <= ByteWindow[p]
           /\ ch[p].receive_bytes <= ByteWindow[p] /\ ch[p].receive_frames <= FrameWindow[p]
<1>1. /\ Credit(p) /\ Buffers(p) /\ ch[p] \in Channel /\ read[p] \in Nat
      /\ inbound[p] \in Seq(Nat) /\ ByteWindow[p] \in Nat /\ FrameWindow[p] \in Nat
  BY Zenon, ChannelAssumption DEF IInv, Local, ChannelTypeOK
<1>2. /\ Done(p) \in Totals /\ put[p] \in Totals /\ got[p] \in Totals /\ Le(Done(p), put[p])
  BY Zenon, DoneFacts
<1>3. /\ Done(p).wb \in Nat /\ Done(p).wf \in Nat /\ put[p].wb \in Nat /\ put[p].wf \in Nat
      /\ got[p].db \in Nat /\ got[p].df \in Nat
      /\ Done(p).wb <= put[p].wb /\ Done(p).wf <= put[p].wf
  BY Zenon, <1>2 DEF Totals, Le
<1>4. /\ ch[p].receive_bytes \in Nat /\ ch[p].receive_frames \in Nat
      /\ ch[p].consumed_bytes \in Nat /\ ch[p].consumed_frames \in Nat
  BY Zenon, <1>1 DEF Channel
<1>5. /\ ch[p].receive_bytes = ByteWindow[p] + Done(p).wb - got[p].db
      /\ ch[p].receive_frames = FrameWindow[p] + Done(p).wf - got[p].df
      /\ put[p].wb + ch[p].consumed_bytes <= read[p]
      /\ put[p].wf + ch[p].consumed_frames <= Taken(p)
      /\ read[p] <= got[p].db /\ written[p] - put[p].db <= ByteWindow[p]
  BY ZenonT(30), <1>1 DEF Credit, Buffers
<1>6. PICK L \in Nat : L = Len(inbound[p])
  BY <1>1
<1>7. Taken(p) = got[p].df - L
  BY Zenon, <1>6 DEF Taken
<1>8. /\ read[p] \in Nat /\ ByteWindow[p] \in Nat /\ FrameWindow[p] \in Nat
  BY Zenon, <1>1
<1>9. /\ got[p].db - read[p] <= ByteWindow[p] /\ L <= FrameWindow[p]
      /\ ch[p].receive_bytes <= ByteWindow[p] /\ ch[p].receive_frames <= FrameWindow[p]
  BY <1>3, <1>4, <1>5, <1>7, <1>8
<1> QED
  BY Zenon, <1>5, <1>6, <1>9

(* What the invariant says about the end of a stream and of a channel.     *)
LEMMA Endings ==
    ASSUME IInv, NEW p \in Peers, NEW q, q = Other(p)
    PROVE  /\ eof[p] => read[p] = written[q]
           /\ app[p] = "closed" => ch[q].local_close_requested
           /\ ch[p].removed => /\ wire[q] = <<>> /\ writing[q] = NoFrame
                               /\ ch[q].closed_sent \/ writing[q].kind = "CLOSED"
<1>0. q \in Peers /\ Other(q) = p
  BY Zenon, PeerFacts
<1>1. /\ Flags(p) /\ Flags(q) /\ Buffers(p) /\ Link(q) /\ Writer(q)
      /\ ch[p] \in Channel /\ ch[q] \in Channel
  BY Zenon, <1>0 DEF IInv, Local, ChannelTypeOK
<1>2. /\ got[p] \in Totals /\ Done(q) \in Totals /\ put[q] \in Totals /\ Le(Done(q), put[q])
  BY Zenon, <1>0, DoneFacts
<1>3. Le(got[p], Done(q)) /\ (got[p].fin = 1 => got[p].db = put[q].db)
  BY ZenonT(30), <1>0, <1>1 DEF Link
<1>4. got[p].fin <= put[q].fin /\ got[p].cl <= put[q].cl
  BY <1>2, <1>3 DEF Le, Totals
<1>5. eof[p] => read[p] = written[q]
  <2>1. eof[p] => got[p].fin = 1 /\ read[p] = got[p].db
    BY ZenonT(30), <1>1 DEF Flags, Buffers
  <2>2. got[p].fin = 1 => ch[q].fin_sent
    BY <1>1, <1>4 DEF Flags
  <2>3. ch[q].fin_sent => put[q].db = written[q]
    BY ZenonT(30), <1>1 DEF Flags
  <2> QED
    BY Zenon, <1>3, <2>1, <2>2, <2>3
<1>6. ch[p].remote_closed => put[q].cl = 1
  BY <1>1, <1>4 DEF Flags
<1>7. app[p] = "closed" => ch[q].local_close_requested
  BY Zenon, <1>1, <1>6 DEF Flags
<1>8. ASSUME ch[p].removed
      PROVE  /\ wire[q] = <<>> /\ writing[q] = NoFrame
             /\ ch[q].closed_sent \/ writing[q].kind = "CLOSED"
  <2>1. wire[q] = <<>>
    BY Zenon, <1>8, HeadFacts
  <2>2. ch[p].remote_closed /\ got[p].cl = 1
    BY Zenon, <1>1, <1>8 DEF Flags
  <2>3. got[p] = Done(q)
    BY ZenonT(30), <1>0, <1>1, <2>1 DEF Link
  <2>4. writing[q] = NoFrame
    BY SMTT(30), <1>1, <2>2, <2>3 DEF Done, Writer, FrameOK
  <2>5. ch[q].closed_sent \/ writing[q].kind = "CLOSED"
    <3>1. put[q].cl = IF ch[q].closed_sent \/ writing[q].kind = "CLOSED" THEN 1 ELSE 0
      BY Zenon, <1>1 DEF Flags
    <3> QED
      BY <1>6, <2>2, <3>1
  <2> QED
    BY Zenon, <2>1, <2>4, <2>5
<1> QED
  BY Zenon, <1>5, <1>7, <1>8

(* What the invariant says when nothing is in flight in either direction.  *)
LEMMA Quiescent ==
    ASSUME IInv PROVE CreditReturns
<1> SUFFICES ASSUME NEW p \in Peers, NEW q, q = Other(p),
                    wire[p] = <<>>, wire[q] = <<>>, writing[p] = NoFrame, writing[q] = NoFrame,
                    inbound[q] = <<>>, ~WindowReady(q), ~ch[q].remote_fin
             PROVE  ch[p].send_bytes = ByteWindow[q] /\ ch[p].send_frames = FrameWindow[q]
  BY Zenon DEF CreditReturns
<1>0. q \in Peers /\ Other(q) = p
  BY Zenon, PeerFacts
<1>1. got[q] = put[p] /\ got[p] = put[q]
  BY Zenon, <1>0 DEF IInv, Link, Done
<1>2. /\ Credit(p) /\ Credit(q) /\ Buffers(q) /\ ch[q] \in Channel
      /\ put[p] \in Totals /\ put[q] \in Totals
      /\ ByteWindow[q] \in Nat /\ FrameWindow[q] \in Nat
  BY Zenon, <1>0, ChannelAssumption DEF IInv, Local, ChannelTypeOK
<1>3. ch[q].consumed_bytes = 0 /\ ch[q].consumed_frames = 0
  BY Zenon DEF WindowReady
<1>4. Taken(q) = got[q].df - 0
  BY Zenon DEF Taken
<1>5. /\ put[q].wb + 0 = got[q].db /\ put[q].wf + 0 = got[q].df - 0
  BY Zenon, <1>2, <1>3, <1>4 DEF Credit, Buffers
<1>6. /\ ch[p].send_bytes = ByteWindow[q] + put[q].wb - put[p].db
      /\ ch[p].send_frames = FrameWindow[q] + put[q].wf - put[p].df
  BY Zenon, <1>0, <1>1, <1>2 DEF Credit
<1>7. /\ put[p].db \in Nat /\ put[p].df \in Nat /\ put[q].wb \in Nat /\ put[q].wf \in Nat
  BY Zenon, <1>2 DEF Totals
<1>8. put[q].wb = put[p].db /\ put[q].wf = put[p].df
  BY <1>1, <1>5, <1>7
<1>9. ByteWindow[q] \in Nat /\ FrameWindow[q] \in Nat
  BY Zenon, <1>2
<1> QED
  BY <1>6, <1>7, <1>8, <1>9

(* The invariant holds in every reachable state of a channel whose         *)
(* transport shows a frame only when its write returns.                    *)
THEOREM ChannelInvariant == Spec => []IInv
<1>1. IInv /\ [Next]_vars => IInv'
  BY Zenon, NextIInv
<1> QED
  BY <1>1, InitIInv, PTL DEF Spec

(* Two peers that run this code never end the connection with a protocol   *)
(* error on a channel (NoProtocolFault), never buffer more than the        *)
(* windows (BuffersBounded), never overflow the receive credit             *)
(* (ReceiveCreditBounded), and give all credit back (CreditReturns).       *)
THEOREM ChannelFlowControl ==
    Spec => [](ChannelTypeOK /\ NoProtocolFault /\ BuffersBounded
               /\ ReceiveCreditBounded /\ CreditReturns)
<1>1. IInv => ChannelTypeOK /\ NoProtocolFault /\ BuffersBounded
              /\ ReceiveCreditBounded /\ CreditReturns
  <2> SUFFICES ASSUME IInv
               PROVE  ChannelTypeOK /\ NoProtocolFault /\ BuffersBounded
                      /\ ReceiveCreditBounded /\ CreditReturns
    BY Zenon
  <2>1. ChannelTypeOK
    BY Zenon DEF IInv
  <2>2. NoProtocolFault
    BY Zenon DEF IInv, Local, Flags, NoProtocolFault
  <2>3. BuffersBounded
    BY Zenon, Bounds DEF BuffersBounded, inbound_len, outbound_len
  <2>4. ReceiveCreditBounded
    BY Zenon, Bounds DEF ReceiveCreditBounded
  <2>5. CreditReturns
    BY Zenon, Quiescent
  <2> QED
    BY Zenon, <2>1, <2>2, <2>3, <2>4, <2>5
<1> QED
  BY <1>1, ChannelInvariant, PTL

(* The end of a stream is seen only after all of its bytes (EofIsComplete), *)
(* close returns only after the peer's close (CloseConfirmsPeer), and a    *)
(* removed channel has no frame left to arrive (RemovedIsQuiet).           *)
THEOREM ChannelEndings ==
    Spec => [](EofIsComplete /\ CloseConfirmsPeer /\ RemovedIsQuiet)
<1>1. IInv => EofIsComplete /\ CloseConfirmsPeer /\ RemovedIsQuiet
  BY Zenon, Endings DEF EofIsComplete, CloseConfirmsPeer, RemovedIsQuiet
<1> QED
  BY <1>1, ChannelInvariant, PTL

=============================================================================
