------------------------ MODULE MuxConnectionProofs -------------------------
(***************************************************************************)
(* Proofs about MuxConnection, for any number of channels, any limits and  *)
(* any applications: both peers agree on the outcome of an open().         *)
(***************************************************************************)
EXTENDS MuxConnection, TLAPS

(* A function on S; a sequence; the record CoreInner. *)
IsMap(f, S) == f = [x \in S |-> f[x]]
IsSeq(s) == s \in Seq(Range(s))
IsCore(c) ==
    /\ c = [next_id |-> c.next_id, last_peer_id |-> c.last_peer_id,
            pending_outgoing |-> c.pending_outgoing, pending_incoming |-> c.pending_incoming,
            controls |-> c.controls, tombstones |-> c.tombstones, terminal |-> c.terminal]
    /\ c.next_id \in Nat \ {0} /\ c.last_peer_id \in Nat
    /\ c.pending_incoming \subseteq Ids /\ IsSeq(c.controls)

Shape ==
    /\ IsMap(core, Peers) /\ IsMap(handle, Peers) /\ IsMap(writing, Peers) /\ IsMap(wire, Peers)
    /\ IsMap(opener, Ids)
    /\ \A p \in Peers : IsCore(core[p]) /\ IsMap(handle[p], Ids) /\ IsSeq(wire[p])

(* The frames of p that are queued, being written or under way. *)
Under(p) == Range(core[p].controls) \cup {writing[p]} \cup Range(wire[p])

(* p has refused the channel for good. *)
Refused(p, id) ==
    /\ handle[p][id] = "none" /\ id <= core[p].last_peer_id
    /\ id \notin core[p].pending_incoming

(* A request is answered once: with ACCEPT, and then the application has had the channel, or  *)
(* with REJECT, and then it never will.                                                       *)
FrameOK(p, f) ==
    /\ f.kind = "OPEN" => f.id \in Ids
    /\ f.kind = "ACCEPT" => f.id \in Ids /\ ~owns_id(p, f.id) /\ handle[p][f.id] # "none"
    /\ f.kind = "REJECT" => f.id \in Ids /\ ~owns_id(p, f.id) /\ Refused(p, f.id)

FramesAgree == \A p \in Peers : \A f \in Under(p) : FrameOK(p, f)

RequestsAgree ==
    \A p \in Peers, id \in Ids :
        /\ id \in core[p].pending_incoming =>
              ~owns_id(p, id) /\ id <= core[p].last_peer_id /\ handle[p][id] = "none"
        /\ ~owns_id(p, id) /\ handle[p][id] # "none" => id <= core[p].last_peer_id

Returned == {"delivered", "open", "dropping"}

OpenersAgree ==
    \A id \in Ids :
        /\ opener[id] \in Returned => handle[Other(Owner(id))][id] # "none"
        /\ opener[id] = "rejected" => Refused(Other(Owner(id)), id)

OutcomeInv == Shape /\ FramesAgree /\ RequestsAgree /\ OpenersAgree

-----------------------------------------------------------------------------
(* What a step may do to the answers. *)

(* The largest identifier seen only grows, and new requests are beyond it. *)
Requested ==
    \A p \in Peers :
        /\ core'[p].last_peer_id >= core[p].last_peer_id
        /\ \A id \in core'[p].pending_incoming \ core[p].pending_incoming :
              ~owns_id(p, id) /\ id > core[p].last_peer_id /\ id <= core'[p].last_peer_id

(* The application gets a channel of the peer only for a request, which is then answered. *)
Handed ==
    \A p \in Peers, id \in Ids : ~owns_id(p, id) =>
        /\ handle[p][id] # "none" => handle'[p][id] # "none"
        /\ handle[p][id] = "none" /\ handle'[p][id] # "none" =>
              id \in core[p].pending_incoming \ core'[p].pending_incoming

(* What a frame says is so when it is queued. *)
Told == \A p \in Peers : \A f \in Under(p)' : f \notin Under(p) => FrameOK(p, f)'

(* An opener hears what the peer has done. *)
Heard ==
    \A id \in Ids :
        /\ opener'[id] \in Returned =>
             opener[id] \in Returned \/ handle[Other(Owner(id))][id] # "none"
        /\ opener'[id] = "rejected" =>
             opener[id] = "rejected" \/ Refused(Other(Owner(id)), id)

(* A sequence read as the set of its elements. *)
LEMMA Elements ==
    ASSUME NEW S, NEW s \in Seq(S)
    PROVE  /\ Range(s) \subseteq S
           /\ \A e \in S : Append(s, e) \in Seq(S) /\ Range(Append(s, e)) = Range(s) \cup {e}
           /\ s # <<>> => /\ Head(s) \in Range(s) /\ Tail(s) \in Seq(S)
                          /\ Range(Tail(s)) \subseteq Range(s)
<1>1. Range(s) \subseteq S
  BY DEF Range
<1>2. ASSUME NEW e \in S
      PROVE  Append(s, e) \in Seq(S) /\ Range(Append(s, e)) = Range(s) \cup {e}
  <2> DEFINE t == Append(s, e)
  <2>1. /\ t \in Seq(S) /\ DOMAIN t = 1 .. (Len(s) + 1) /\ DOMAIN s = 1 .. Len(s)
        /\ t[Len(s) + 1] = e /\ Len(s) \in Nat
        /\ \A i \in 1 .. Len(s) : t[i] = s[i]
    OBVIOUS
  <2> HIDE DEF t
  <2>2. \A i \in 1 .. (Len(s) + 1) : i \in 1 .. Len(s) \/ i = Len(s) + 1
    BY <2>1
  <2>3. \A i \in 1 .. Len(s) : i \in 1 .. (Len(s) + 1)
    BY <2>1
  <2>4. Len(s) + 1 \in 1 .. (Len(s) + 1)
    BY <2>1
  <2>5. Range(t) = Range(s) \cup {e}
    BY <2>1, <2>2, <2>3, <2>4, Zenon DEF Range
  <2> QED BY <2>1, <2>5, Zenon DEF t
<1>3. ASSUME s # <<>>
      PROVE  Head(s) \in Range(s) /\ Tail(s) \in Seq(S) /\ Range(Tail(s)) \subseteq Range(s)
  <2>1. /\ Len(s) \in Nat \ {0} /\ DOMAIN s = 1 .. Len(s) /\ Head(s) = s[1]
        /\ Tail(s) \in Seq(S) /\ DOMAIN Tail(s) = 1 .. (Len(s) - 1)
        /\ \A i \in 1 .. (Len(s) - 1) : Tail(s)[i] = s[i + 1]
    BY <1>3
  <2>2. \A i \in 1 .. (Len(s) - 1) : i + 1 \in 1 .. Len(s)
    BY <2>1
  <2>3. 1 \in 1 .. Len(s)
    BY <2>1
  <2> QED BY <2>1, <2>2, <2>3, Zenon DEF Range
<1> QED BY <1>1, <1>2, <1>3, Zenon

(* An identifier has one owner. *)
LEMMA Owners ==
    ASSUME NEW id \in Nat, NEW p \in Peers
    PROVE  /\ owns_id(p, id) => Owner(id) = p
           /\ ~owns_id(p, id) => Owner(id) = Other(p) /\ owns_id(Other(p), id)
           /\ Owner(id) \in Peers /\ owns_id(Owner(id), id) /\ ~owns_id(Other(Owner(id)), id)
           /\ Other(p) \in Peers /\ Other(Other(p)) = p /\ Other(p) # p
<1>1. id % 2 \in {0, 1}
  OBVIOUS
<1>2. \A q \in Peers : owns_id(q, id) <=> ~owns_id(Other(q), id)
  BY <1>1 DEF Peers, Other, owns_id
<1>3. \E q \in Peers : owns_id(q, id)
  BY <1>1, Zenon DEF Peers, owns_id
<1>4. Owner(id) \in Peers /\ owns_id(Owner(id), id)
  BY <1>3, Zenon DEF Owner
<1>5. Other(p) \in Peers /\ Other(Other(p)) = p /\ Other(p) # p
  BY Zenon DEF Peers, Other
<1>6. \A q, r \in Peers : q # r => r = Other(q)
  BY Zenon DEF Peers, Other
<1> QED BY <1>2, <1>4, <1>5, <1>6, Zenon

(* Identifiers are numbers. *)
LEMMA Numbers == Ids \subseteq Nat
BY ConnectionAssumption DEF Ids

(* The fields of CoreInner that matter here. *)
LEMMA CoreFields ==
    ASSUME NEW c, IsCore(c)
    PROVE  /\ c.next_id \in Nat \ {0} /\ c.last_peer_id \in Nat
           /\ c.pending_incoming \subseteq Ids /\ IsSeq(c.controls)
BY Zenon DEF IsCore

(* A refusal is for good. *)
LEMMA RefusedStays ==
    ASSUME Shape, Shape', RequestsAgree, Requested, Handed,
           NEW p \in Peers, NEW id \in Ids, ~owns_id(p, id), Refused(p, id)
    PROVE  Refused(p, id)'
<1>0. IsCore(core[p]) /\ IsCore(core'[p])
  BY Zenon DEF Shape
<1>1. core[p].last_peer_id \in Nat /\ core'[p].last_peer_id \in Nat /\ id \in Nat
  BY <1>0, CoreFields, Numbers, Zenon
<1>2. handle'[p][id] = "none"
  BY Zenon DEF Handed, Refused
<1>3. id <= core'[p].last_peer_id
  BY <1>1 DEF Requested, Refused
<1>4. id \notin core'[p].pending_incoming
  BY <1>1 DEF Requested, Refused
<1> QED BY <1>2, <1>3, <1>4, Zenon DEF Refused

(* A step that does no more than this keeps the agreement. *)
LEMMA StepKeeps ==
    ASSUME OutcomeInv, Shape', Requested, Handed, Told, Heard
    PROVE  OutcomeInv'
<1> USE DEF OutcomeInv
<1>a. \A p \in Peers : IsCore(core[p]) /\ IsCore(core'[p])
  BY Zenon DEF Shape
<1>0. \A p \in Peers, id \in Ids :
        /\ id \in Nat /\ core[p].last_peer_id \in Nat /\ core'[p].last_peer_id \in Nat
        /\ core'[p].pending_incoming \subseteq Ids
  BY <1>a, CoreFields, Numbers, Zenon
<1>1. \A p \in Peers, id \in Ids : ~owns_id(p, id) /\ Refused(p, id) => Refused(p, id)'
  BY RefusedStays, Zenon
<1>2. \A p \in Peers, id \in Ids :
        ~owns_id(p, id) /\ handle[p][id] # "none" => handle'[p][id] # "none"
  BY Zenon DEF Handed
<1>3. FramesAgree'
  <2> SUFFICES ASSUME NEW p \in Peers, NEW f \in Under(p)'
               PROVE  FrameOK(p, f)'
    BY Zenon DEF FramesAgree
  <2>1. CASE f \notin Under(p)
    BY <2>1, Zenon DEF Told
  <2>2. CASE f \in Under(p)
    <3>1. FrameOK(p, f)
      BY <2>2, Zenon DEF FramesAgree
    <3> QED BY <1>1, <1>2, <3>1, Zenon DEF FrameOK
  <2> QED BY <2>1, <2>2, Zenon
<1>4. RequestsAgree'
  <2> SUFFICES ASSUME NEW p \in Peers, NEW id \in Ids
               PROVE  /\ id \in core'[p].pending_incoming =>
                           /\ ~owns_id(p, id) /\ id <= core'[p].last_peer_id
                           /\ handle'[p][id] = "none"
                      /\ ~owns_id(p, id) /\ handle'[p][id] # "none" =>
                           id <= core'[p].last_peer_id
    BY Zenon DEF RequestsAgree
  <2>1. /\ id \in core[p].pending_incoming =>
             ~owns_id(p, id) /\ id <= core[p].last_peer_id /\ handle[p][id] = "none"
        /\ ~owns_id(p, id) /\ handle[p][id] # "none" => id <= core[p].last_peer_id
    BY Zenon DEF RequestsAgree
  <2>2. /\ core'[p].last_peer_id >= core[p].last_peer_id
        /\ id \in core'[p].pending_incoming /\ id \notin core[p].pending_incoming =>
             ~owns_id(p, id) /\ id > core[p].last_peer_id /\ id <= core'[p].last_peer_id
    BY Zenon DEF Requested
  <2>3. ~owns_id(p, id) /\ handle[p][id] = "none" /\ handle'[p][id] # "none" =>
          id \in core[p].pending_incoming /\ id \notin core'[p].pending_incoming
    BY Zenon DEF Handed
  <2> QED BY <1>0, <2>1, <2>2, <2>3
<1>5. OpenersAgree'
  <2> SUFFICES ASSUME NEW id \in Ids
               PROVE  /\ opener'[id] \in Returned => handle'[Other(Owner(id))][id] # "none"
                      /\ opener'[id] = "rejected" => Refused(Other(Owner(id)), id)'
    BY Zenon DEF OpenersAgree
  <2>0. id \in Nat /\ "client" \in Peers
    BY Numbers, Zenon DEF Peers
  <2>1. Other(Owner(id)) \in Peers /\ ~owns_id(Other(Owner(id)), id)
    BY <2>0, Owners, Zenon
  <2>2. /\ opener'[id] \in Returned => handle[Other(Owner(id))][id] # "none"
        /\ opener'[id] = "rejected" => Refused(Other(Owner(id)), id)
    BY Zenon DEF Heard, OpenersAgree
  <2> QED BY <1>1, <1>2, <2>1, <2>2, Zenon
<1> QED BY <1>3, <1>4, <1>5, Zenon

-----------------------------------------------------------------------------
(* Functions, sequences and CoreInner after an assignment. *)

(* A sequence is one of its elements. *)
LEMMA OfElements ==
    ASSUME NEW S, NEW s \in Seq(S)
    PROVE  IsSeq(s)
<1>1. DOMAIN s = 1 .. Len(s) /\ Len(s) \in Nat
  OBVIOUS
<1>2. \A i \in 1 .. Len(s) : s[i] \in Range(s)
  BY <1>1, Zenon DEF Range
<1> DEFINE R == Range(s)
<1>3. \A i \in 1 .. Len(s) : s[i] \in R
  BY <1>2, Zenon
<1> HIDE DEF R
<1>4. s \in Seq(R)
  BY <1>1, <1>3
<1> QED BY <1>4, Zenon DEF IsSeq, R

(* A sequence after an append or a removal. *)
LEMMA Sequence ==
    ASSUME NEW s, IsSeq(s)
    PROVE  /\ \A e : IsSeq(Append(s, e)) /\ Range(Append(s, e)) = Range(s) \cup {e}
           /\ s # <<>> => /\ Head(s) \in Range(s) /\ IsSeq(Tail(s))
                          /\ Range(Tail(s)) \subseteq Range(s)
<1>1. ASSUME NEW e
      PROVE  IsSeq(Append(s, e)) /\ Range(Append(s, e)) = Range(s) \cup {e}
  <2>1. s \in Seq(Range(s) \cup {e})
    BY DEF IsSeq
  <2>2. /\ Append(s, e) \in Seq(Range(s) \cup {e})
        /\ Range(Append(s, e)) = Range(s) \cup {e}
    BY <2>1, Elements, Zenon
  <2> QED BY <2>2, Zenon DEF IsSeq
<1>2. ASSUME s # <<>>
      PROVE  Head(s) \in Range(s) /\ IsSeq(Tail(s)) /\ Range(Tail(s)) \subseteq Range(s)
  <2>1. /\ Head(s) \in Range(s) /\ Tail(s) \in Seq(Range(s))
        /\ Range(Tail(s)) \subseteq Range(s)
    BY <1>2, Elements, Zenon DEF IsSeq
  <2> QED BY <2>1, OfElements, Zenon
<1> QED BY <1>1, <1>2, Zenon

(* The empty sequence. *)
LEMMA NoFrames == IsSeq(<<>>) /\ Range(<<>>) = {}
BY DEF IsSeq, Range

(* d is CoreInner with these fields. *)
Holds(d, last, pending, controls) ==
    /\ IsCore(d) /\ d.last_peer_id = last /\ d.pending_incoming = pending
    /\ d.controls = controls

(* One field is assigned. *)
LEMMA Assigned ==
    ASSUME NEW c, IsCore(c), NEW v
    PROVE  /\ v \in Nat \ {0} =>
                Holds([c EXCEPT !.next_id = v], c.last_peer_id, c.pending_incoming, c.controls)
           /\ v \in Nat =>
                Holds([c EXCEPT !.last_peer_id = v], v, c.pending_incoming, c.controls)
           /\ v \subseteq Ids =>
                Holds([c EXCEPT !.pending_incoming = v], c.last_peer_id, v, c.controls)
           /\ IsSeq(v) =>
                Holds([c EXCEPT !.controls = v], c.last_peer_id, c.pending_incoming, v)
           /\ Holds([c EXCEPT !.pending_outgoing = v], c.last_peer_id, c.pending_incoming, c.controls)
           /\ Holds([c EXCEPT !.tombstones = v], c.last_peer_id, c.pending_incoming, c.controls)
           /\ Holds([c EXCEPT !.terminal = v], c.last_peer_id, c.pending_incoming, c.controls)
BY DEF Holds, IsCore

(* enqueue_control. *)
LEMMA Enqueued ==
    ASSUME NEW c, IsCore(c), NEW kind, NEW id
    PROVE  LET d == enqueue_control(c, kind, id)
           IN  /\ Holds(d, c.last_peer_id, c.pending_incoming, Append(c.controls, Frame(kind, id)))
               /\ Range(d.controls) = Range(c.controls) \cup {Frame(kind, id)}
<1>1. IsSeq(c.controls)
  BY CoreFields, Zenon
<1>2. /\ IsSeq(Append(c.controls, Frame(kind, id)))
      /\ Range(Append(c.controls, Frame(kind, id))) = Range(c.controls) \cup {Frame(kind, id)}
  BY <1>1, Sequence, Zenon
<1>3. enqueue_control(c, kind, id) = [c EXCEPT !.controls = Append(c.controls, Frame(kind, id))]
  BY Zenon DEF enqueue_control
<1>4. Holds(enqueue_control(c, kind, id), c.last_peer_id, c.pending_incoming,
            Append(c.controls, Frame(kind, id)))
  BY <1>2, <1>3, Assigned, Zenon
<1> QED BY <1>2, <1>4, Zenon DEF Holds

(* remember_closed changes nothing but the tombstones. *)
LEMMA Remembered ==
    ASSUME NEW c, IsCore(c), NEW id
    PROVE  Holds(remember_closed(c, id), c.last_peer_id, c.pending_incoming, c.controls)
<1> DEFINE t == IF id \in Range(c.tombstones) THEN c.tombstones ELSE Append(c.tombstones, id)
           old == IF Len(t) > ClosedChannelCapacity THEN Len(t) - ClosedChannelCapacity ELSE 0
<1>1. remember_closed(c, id) = [c EXCEPT !.tombstones = SubSeq(t, old + 1, Len(t))]
  BY Zenon DEF remember_closed
<1> HIDE DEF t, old
<1> QED BY <1>1, Assigned, Zenon

(* The same, of CoreInner with these fields. *)
LEMMA Then ==
    ASSUME NEW c, NEW l, NEW q, NEW k, Holds(c, l, q, k), NEW v
    PROVE  /\ v \in Nat \ {0} => Holds([c EXCEPT !.next_id = v], l, q, k)
           /\ v \in Nat => Holds([c EXCEPT !.last_peer_id = v], v, q, k)
           /\ v \subseteq Ids => Holds([c EXCEPT !.pending_incoming = v], l, v, k)
           /\ IsSeq(v) => Holds([c EXCEPT !.controls = v], l, q, v)
           /\ Holds([c EXCEPT !.pending_outgoing = v], l, q, k)
           /\ Holds([c EXCEPT !.tombstones = v], l, q, k)
           /\ Holds([c EXCEPT !.terminal = v], l, q, k)
           /\ \A kind : Holds(enqueue_control(c, kind, v), l, q, Append(k, Frame(kind, v)))
           /\ Holds(remember_closed(c, v), l, q, k)
<1>1. IsCore(c) /\ c.last_peer_id = l /\ c.pending_incoming = q /\ c.controls = k
  BY Zenon DEF Holds
<1> QED BY <1>1, Assigned, Enqueued, Remembered, Zenon

(* The other assignments to CoreInner. *)
LEMMA CoreOperations ==
    ASSUME NEW c, NEW l, NEW q, NEW k, Holds(c, l, q, k), NEW id
    PROVE  /\ Holds(answered(c, id), l, q, k)
           /\ Holds(withdrawn(c, id), l, q \ {id}, k)
           /\ \A error : Holds(failed(c, error), l, {}, <<>>)
           /\ id \in Ids => Holds(pended(c, id), id, q \cup {id}, k)
<1>1. c.pending_incoming = q /\ q \subseteq Ids
  BY CoreFields, Zenon DEF Holds
<1>2. Holds(answered(c, id), l, q, k)
  <2>1. answered(c, id) = [c EXCEPT !.pending_outgoing = c.pending_outgoing \ {id}]
    BY Zenon DEF answered
  <2>2. Holds([c EXCEPT !.pending_outgoing = c.pending_outgoing \ {id}], l, q, k)
    BY Then, Zenon
  <2> QED BY <2>1, <2>2, Zenon
<1>3. Holds(withdrawn(c, id), l, q \ {id}, k)
  <2>1. withdrawn(c, id) = [c EXCEPT !.pending_incoming = q \ {id}] /\ q \ {id} \subseteq Ids
    BY <1>1, Zenon DEF withdrawn
  <2>2. Holds([c EXCEPT !.pending_incoming = q \ {id}], l, q \ {id}, k)
    BY <2>1, Then, Zenon
  <2> QED BY <2>1, <2>2, Zenon
<1>4. ASSUME NEW error PROVE Holds(failed(c, error), l, {}, <<>>)
  <2> DEFINE d1 == [c EXCEPT !.terminal = error]
             d2 == [d1 EXCEPT !.controls = <<>>]
             d3 == [d2 EXCEPT !.pending_incoming = {}]
             d4 == [d3 EXCEPT !.pending_outgoing = {}]
  <2>1. failed(c, error) = d4
    BY Zenon DEF failed
  <2>2. Holds(d1, l, q, k)
    BY Then, Zenon
  <2> HIDE DEF d1
  <2>3. Holds(d2, l, q, <<>>)
    BY <2>2, Then, NoFrames, Zenon
  <2> HIDE DEF d2
  <2>4. Holds(d3, l, {}, <<>>)
    BY <2>3, Then, Zenon
  <2> HIDE DEF d3
  <2>5. Holds(d4, l, {}, <<>>)
    BY <2>4, Then, Zenon
  <2> QED BY <2>1, <2>5, Zenon
<1>5. ASSUME id \in Ids PROVE Holds(pended(c, id), id, q \cup {id}, k)
  <2> DEFINE d1 == [c EXCEPT !.last_peer_id = id]
             d2 == [d1 EXCEPT !.pending_incoming = q \cup {id}]
  <2>1. id \in Nat /\ q \cup {id} \subseteq Ids
    BY <1>1, <1>5, Numbers, Zenon
  <2>2. Holds(d1, id, q, k)
    BY <2>1, Then, Zenon
  <2>3. pended(c, id) = d2
    BY <1>1, Zenon DEF pended
  <2> HIDE DEF d1
  <2>4. Holds(d2, id, q \cup {id}, k)
    BY <2>1, <2>2, Then, Zenon
  <2> QED BY <2>3, <2>4, Zenon
<1> QED BY <1>2, <1>3, <1>4, <1>5, Zenon

(* A frame is queued with the change it announces. *)
LEMMA Announced ==
    ASSUME NEW c, NEW l, NEW q, NEW k, Holds(c, l, q, k), NEW id \in Ids
    PROVE  /\ Holds(requested(c, id), l, q, Append(k, Frame("OPEN", id)))
           /\ Holds(withdrawn(enqueue_control(c, "ACCEPT", id), id), l, q \ {id},
                    Append(k, Frame("ACCEPT", id)))
           /\ Holds(reject_request(c, id), l, q \ {id}, Append(k, Frame("REJECT", id)))
           /\ Holds(refused(c, id), id, q, Append(k, Frame("REJECT", id)))
<1>0. id \in Nat /\ id + 2 \in Nat \ {0}
  BY Numbers
<1>1. Holds(requested(c, id), l, q, Append(k, Frame("OPEN", id)))
  <2> DEFINE e == enqueue_control(c, "OPEN", id)
             d == [e EXCEPT !.next_id = id + 2]
  <2>1. Holds(e, l, q, Append(k, Frame("OPEN", id)))
    BY Then, Zenon
  <2>2. requested(c, id) = [d EXCEPT !.pending_outgoing = d.pending_outgoing \cup {id}]
    BY Zenon DEF requested
  <2> HIDE DEF e
  <2>3. Holds(d, l, q, Append(k, Frame("OPEN", id)))
    BY <1>0, <2>1, Then, Zenon
  <2> HIDE DEF d
  <2>4. Holds([d EXCEPT !.pending_outgoing = d.pending_outgoing \cup {id}], l, q,
              Append(k, Frame("OPEN", id)))
    BY <2>3, Then, Zenon
  <2> QED BY <2>2, <2>4, Zenon
<1>2. \A kind : Holds(withdrawn(enqueue_control(c, kind, id), id), l, q \ {id},
                     Append(k, Frame(kind, id)))
  BY Then, CoreOperations, Zenon
<1>3. Holds(reject_request(c, id), l, q \ {id}, Append(k, Frame("REJECT", id)))
  BY <1>2, Then, Zenon DEF reject_request
<1>4. Holds(refused(c, id), id, q, Append(k, Frame("REJECT", id)))
  <2> DEFINE d == [c EXCEPT !.last_peer_id = id]
  <2>1. Holds(d, id, q, k)
    BY <1>0, Then, Zenon
  <2>2. refused(c, id) = remember_closed(enqueue_control(d, "REJECT", id), id)
    BY Zenon DEF refused
  <2> HIDE DEF d
  <2>3. Holds(enqueue_control(d, "REJECT", id), id, q, Append(k, Frame("REJECT", id)))
    BY <2>1, Then, Zenon
  <2>4. Holds(remember_closed(enqueue_control(d, "REJECT", id), id), id, q,
              Append(k, Frame("REJECT", id)))
    BY <2>3, Then, Zenon
  <2> QED BY <2>2, <2>4, Zenon
<1> QED BY <1>1, <1>2, <1>3, <1>4, Zenon

-----------------------------------------------------------------------------
(* The steps. *)

(* Nothing happens to the application's channels, or to the openers. *)
LEMMA NothingHanded == handle' = handle => Handed
BY Zenon DEF Handed

LEMMA NothingHeard == opener' = opener => Heard
BY Zenon DEF Heard

(* Nothing happens to the requests and the frames. *)
LEMMA NothingTold ==
    ASSUME Shape, core' = core, writing' = writing, wire' = wire
    PROVE  Requested /\ Told
<1>1. \A p \in Peers : core[p].last_peer_id \in Nat
  BY CoreFields, Zenon DEF Shape
<1> QED BY <1>1 DEF Requested, Told, Under

(* CoreInner of one peer becomes d. *)
LEMMA PeerStep ==
    ASSUME Shape, NEW p \in Peers, NEW d, IsCore(d), core' = [core EXCEPT ![p] = d],
           IsMap(writing', Peers), IsMap(wire', Peers), \A q \in Peers : IsSeq(wire'[q]),
           \A q \in Peers : q # p => writing'[q] = writing[q] /\ Range(wire'[q]) \subseteq Range(wire[q])
    PROVE  /\ IsMap(core', Peers) /\ core'[p] = d /\ \A q \in Peers : IsCore(core'[q])
           /\ (/\ d.last_peer_id >= core[p].last_peer_id
               /\ \A id \in d.pending_incoming \ core[p].pending_incoming :
                    /\ ~owns_id(p, id) /\ id > core[p].last_peer_id
                    /\ id <= d.last_peer_id) => Requested
           /\ (\A f \in Range(d.controls) \cup {writing'[p]} \cup Range(wire'[p]) :
                 f \in Under(p) \/ FrameOK(p, f)') => Told
<1>0. IsMap(core, Peers)
  BY Zenon DEF Shape
<1>1. IsMap(core', Peers) /\ core'[p] = d /\ \A q \in Peers : q # p => core'[q] = core[q]
  BY <1>0, Zenon DEF IsMap
<1>2. \A q \in Peers : IsCore(core'[q]) /\ core[q].last_peer_id \in Nat
  BY <1>1, CoreFields, Zenon DEF Shape
<1>3. ASSUME d.last_peer_id >= core[p].last_peer_id,
             \A id \in d.pending_incoming \ core[p].pending_incoming :
                ~owns_id(p, id) /\ id > core[p].last_peer_id /\ id <= d.last_peer_id
      PROVE  Requested
  BY <1>1, <1>2, <1>3 DEF Requested
<1>4. ASSUME \A f \in Range(d.controls) \cup {writing'[p]} \cup Range(wire'[p]) :
                f \in Under(p) \/ FrameOK(p, f)'
      PROVE  Told
  <2>1. Under(p)' = Range(d.controls) \cup {writing'[p]} \cup Range(wire'[p])
    BY <1>1, Zenon DEF Under
  <2>2. \A q \in Peers : q # p => Under(q)' \subseteq Under(q)
    BY <1>1, Zenon DEF Under
  <2> QED BY <1>4, <2>1, <2>2, Zenon DEF Told
<1> QED BY <1>1, <1>2, <1>3, <1>4, Zenon

(* Steps of applications that touch neither CoreInner nor frames: an open() that returns or   *)
(* is dropped, Incoming::recv and drop, a response that fails, and the use of a channel.      *)
LEMMA ApplicationSteps ==
    ASSUME OutcomeInv, core' = core, writing' = writing, wire' = wire,
           IsMap(handle', Peers), \A p \in Peers : IsMap(handle'[p], Ids), IsMap(opener', Ids),
           \A p \in Peers, id \in Ids :
               ~owns_id(p, id) => (handle'[p][id] = "none" <=> handle[p][id] = "none"),
           \A id \in Ids : /\ opener'[id] \in Returned => opener[id] \in Returned
                           /\ opener'[id] = "rejected" => opener[id] = "rejected"
    PROVE  OutcomeInv'
<1>1. Shape'
  BY Zenon DEF OutcomeInv, Shape
<1>2. Requested /\ Told
  BY NothingTold, Zenon DEF OutcomeInv
<1>3. Handed /\ Heard
  BY Zenon DEF Handed, Heard
<1> QED BY <1>1, <1>2, <1>3, StepKeeps, Zenon

(* The openers after one was assigned. *)
LEMMA OpenerAssigned ==
    ASSUME Shape, NEW id \in Ids, NEW v, opener' = [opener EXCEPT ![id] = v]
    PROVE  /\ IsMap(opener', Ids) /\ opener'[id] = v
           /\ \A i \in Ids : i # id => opener'[i] = opener[i]
BY Zenon DEF Shape, IsMap

(* MuxHandle::open returns, or its future is dropped. *)
LEMMA OpenerSteps ==
    ASSUME OutcomeInv, NEW id \in Ids,
           OpenReturns(id) \/ CancelOpen(id) \/ CancelDelivered(id) \/ CancelReset(id)
    PROVE  OutcomeInv'
<1> USE DEF OutcomeInv
<1>1. core' = core /\ writing' = writing /\ wire' = wire
  BY Zenon DEF OpenReturns, CancelOpen, CancelDelivered, CancelReset, driver
<1>2. PICK v : /\ opener' = [opener EXCEPT ![id] = v] /\ v # "rejected"
               /\ v \in Returned => opener[id] \in Returned
  BY Zenon DEF OpenReturns, CancelOpen, CancelDelivered, CancelReset, Returned
<1>3. /\ IsMap(opener', Ids) /\ opener'[id] = v
      /\ \A i \in Ids : i # id => opener'[i] = opener[i]
  BY <1>2, OpenerAssigned, Zenon
<1>4. CASE handle' = handle
  BY <1>1, <1>2, <1>3, <1>4, ApplicationSteps, Zenon DEF Shape
<1>5. CASE handle' = [handle EXCEPT ![Owner(id)][id] = "held"]
  <2>1. id \in Nat /\ "client" \in Peers
    BY Numbers, Zenon DEF Peers
  <2>2. Owner(id) \in Peers /\ \A p \in Peers : ~owns_id(p, id) => p # Owner(id)
    BY <2>1, Owners, Zenon
  <2>3. /\ IsMap(handle', Peers) /\ (\A q \in Peers : IsMap(handle'[q], Ids))
        /\ \A q \in Peers, i \in Ids : q # Owner(id) \/ i # id => handle'[q][i] = handle[q][i]
    BY <1>5, <2>2, Zenon DEF Shape, IsMap
  <2> QED BY <1>1, <1>2, <1>3, <2>2, <2>3, ApplicationSteps, Zenon
<1>6. handle' = handle \/ handle' = [handle EXCEPT ![Owner(id)][id] = "held"]
  BY Zenon DEF OpenReturns, CancelOpen, CancelDelivered, CancelReset, apps
<1> QED BY <1>4, <1>5, <1>6, Zenon

(* Incoming::recv and drop, a response that fails, and the use of a channel. *)
LEMMA ChannelSteps ==
    ASSUME OutcomeInv, NEW p \in Peers, NEW id \in Ids,
           \/ ResponseFails(p, id)
           \/ Write(p, id) \/ Read(p, id) \/ DropChannel(p, id)
    PROVE  OutcomeInv'
<1> USE DEF OutcomeInv
<1>1. core' = core /\ writing' = writing /\ wire' = wire /\ opener' = opener
  BY Zenon DEF ResponseFails, Write, Read, DropChannel, driver
<1>2. IsMap(opener', Ids)
  BY <1>1, Zenon DEF Shape
<1>3. CASE handle' = handle
  BY <1>1, <1>2, <1>3, ApplicationSteps, Zenon DEF Shape
<1>4. ASSUME NEW v, v # "none", handle[p][id] # "none", handle' = [handle EXCEPT ![p][id] = v]
      PROVE  OutcomeInv'
  <2>1. /\ IsMap(handle', Peers) /\ (\A q \in Peers : IsMap(handle'[q], Ids))
        /\ handle'[p][id] = v
        /\ \A q \in Peers, i \in Ids : q # p \/ i # id => handle'[q][i] = handle[q][i]
    BY <1>4, Zenon DEF Shape, IsMap
  <2> QED BY <1>1, <1>2, <1>4, <2>1, ApplicationSteps, Zenon
<1>5. \/ handle' = handle
      \/ \E v : /\ v # "none" /\ handle[p][id] # "none"
               /\ handle' = [handle EXCEPT ![p][id] = v]
  <2>1. CASE ResponseFails(p, id) \/ Read(p, id)
    BY <2>1, Zenon DEF ResponseFails, Read, apps
  <2>2. CASE Write(p, id)
    <3>1. handle[p][id] = "held" /\ "held" # "none" /\ "written" # "none"
      BY <2>2, Zenon DEF Write
    <3> QED BY <2>2, <3>1, Zenon DEF Write
  <2>3. CASE DropChannel(p, id)
    <3>1. handle[p][id] # "none" /\ "dropped" # "none"
      BY <2>3, Zenon DEF DropChannel
    <3> QED BY <2>3, <3>1, Zenon DEF DropChannel
  <2> QED BY <2>1, <2>2, <2>3, Zenon
<1> QED BY <1>3, <1>4, <1>5, Zenon

(* Incoming::recv, and the drop of the Incoming handle. *)
LEMMA IncomingSteps ==
    ASSUME OutcomeInv, NEW p \in Peers, Recv(p) \/ DropIncoming(p)
    PROVE  OutcomeInv'
<1>1. core' = core /\ writing' = writing /\ wire' = wire /\ handle' = handle /\ opener' = opener
  BY Zenon DEF Recv, DropIncoming, driver
<1> QED BY <1>1, ApplicationSteps, Zenon DEF OutcomeInv, Shape

(* The queue after a frame was added to it. *)
LEMMA QueuedFrames ==
    ASSUME NEW p \in Peers, IsCore(core[p]), NEW g
    PROVE  \A f \in Range(Append(core[p].controls, g)) : f \in Under(p) \/ f = g
<1>1. IsSeq(core[p].controls)
  BY CoreFields, Zenon
<1>2. Range(Append(core[p].controls, g)) = Range(core[p].controls) \cup {g}
  BY <1>1, Sequence, Zenon
<1> QED BY <1>2, Zenon DEF Under

(* Frames that answer nothing, and frames that only move on: from the queue to the writer, to *)
(* the transport and to the reader.                                                           *)
Quiet(f) == f.kind \notin {"OPEN", "ACCEPT", "REJECT"}

Passed(p) ==
    /\ IsMap(writing', Peers) /\ IsMap(wire', Peers) /\ \A q \in Peers : IsSeq(wire'[q])
    /\ \A q \in Peers : q # p => writing'[q] = writing[q] /\ Range(wire'[q]) \subseteq Range(wire[q])
    /\ \A f \in {writing'[p]} \cup Range(wire'[p]) : f \in Under(p) \/ Quiet(f)

(* Nothing is written or read. *)
LEMMA NothingPassed ==
    ASSUME Shape, NEW p \in Peers, writing' = writing, wire' = wire
    PROVE  Passed(p)
BY Zenon DEF Shape, Passed, Under

(* The application's channels and the openers stay as they are. *)
LEMMA Untouched ==
    ASSUME Shape
    PROVE  /\ handle' = handle =>
                IsMap(handle', Peers) /\ (\A q \in Peers : IsMap(handle'[q], Ids)) /\ Handed
           /\ opener' = opener => IsMap(opener', Ids) /\ Heard
BY NothingHanded, NothingHeard, Zenon DEF Shape

(* CoreInner of p becomes d, with later requests, and queues only true answers. *)
LEMMA DriverSteps ==
    ASSUME OutcomeInv, NEW p \in Peers, NEW d, IsCore(d), core' = [core EXCEPT ![p] = d], Passed(p),
           IsMap(handle', Peers), \A q \in Peers : IsMap(handle'[q], Ids), IsMap(opener', Ids),
           Handed, Heard,
           d.last_peer_id >= core[p].last_peer_id,
           \A id \in d.pending_incoming \ core[p].pending_incoming :
              ~owns_id(p, id) /\ id > core[p].last_peer_id /\ id <= d.last_peer_id,
           \A f \in Range(d.controls) : f \in Under(p) \/ FrameOK(p, f)'
    PROVE  OutcomeInv'
<1> USE DEF OutcomeInv
<1>1. /\ IsMap(writing', Peers) /\ IsMap(wire', Peers) /\ (\A q \in Peers : IsSeq(wire'[q]))
      /\ \A q \in Peers : q # p => writing'[q] = writing[q] /\ Range(wire'[q]) \subseteq Range(wire[q])
      /\ \A f \in {writing'[p]} \cup Range(wire'[p]) : f \in Under(p) \/ Quiet(f)
  BY Zenon DEF Passed
<1>2. IsMap(core', Peers) /\ core'[p] = d /\ \A q \in Peers : IsCore(core'[q])
  BY <1>1, PeerStep, Zenon
<1>3. Shape'
  BY <1>1, <1>2, Zenon DEF Shape
<1>4. Requested
  BY <1>1, PeerStep, Zenon
<1>5. \A f : Quiet(f) => FrameOK(p, f)'
  BY Zenon DEF Quiet, FrameOK
<1>6. \A f \in Range(d.controls) \cup {writing'[p]} \cup Range(wire'[p]) :
        f \in Under(p) \/ FrameOK(p, f)'
  BY <1>1, <1>5, Zenon
<1>7. Told
  BY <1>1, <1>6, PeerStep, Zenon
<1> QED BY <1>3, <1>4, <1>7, StepKeeps, Zenon

(* The same for a step that takes no new request. *)
LEMMA CoreSteps ==
    ASSUME OutcomeInv, NEW p \in Peers, NEW d, NEW q, NEW k,
           Holds(d, core[p].last_peer_id, q, k), q \subseteq core[p].pending_incoming,
           core' = [core EXCEPT ![p] = d], Passed(p),
           IsMap(handle', Peers), \A r \in Peers : IsMap(handle'[r], Ids), IsMap(opener', Ids),
           Handed, Heard,
           \A f \in Range(k) : f \in Under(p) \/ FrameOK(p, f)'
    PROVE  OutcomeInv'
<1>1. IsCore(d) /\ d.last_peer_id = core[p].last_peer_id /\ d.pending_incoming = q /\ d.controls = k
  BY Zenon DEF Holds
<1>2. core[p].last_peer_id \in Nat
  BY CoreFields, Zenon DEF OutcomeInv, Shape
<1>3. d.last_peer_id >= core[p].last_peer_id
  BY <1>1, <1>2
<1>4. \A id \in d.pending_incoming \ core[p].pending_incoming :
        ~owns_id(p, id) /\ id > core[p].last_peer_id /\ id <= d.last_peer_id
  BY <1>1, Zenon
<1>5. \A f \in Range(d.controls) : f \in Under(p) \/ FrameOK(p, f)'
  BY <1>1, Zenon
<1> QED BY <1>1, <1>3, <1>4, <1>5, DriverSteps, Zenon

(* CoreInner as it is. *)
LEMMA Itself ==
    ASSUME OutcomeInv, NEW p \in Peers
    PROVE  /\ IsCore(core[p]) /\ core[p].next_id \in Nat \ {0} /\ core[p].last_peer_id \in Nat
           /\ Holds(core[p], core[p].last_peer_id, core[p].pending_incoming, core[p].controls)
           /\ \A f \in Range(core[p].controls) : f \in Under(p)
           /\ core = [core EXCEPT ![p] = core[p]]
<1>1. IsCore(core[p]) /\ IsMap(core, Peers)
  BY Zenon DEF OutcomeInv, Shape
<1>2. core = [core EXCEPT ![p] = core[p]]
  BY <1>1, Zenon DEF IsMap
<1> QED BY <1>1, <1>2, CoreFields, Zenon DEF Holds, Under

(* MuxHandle::open up to its wait for the peer. *)
LEMMA OpenSteps ==
    ASSUME OutcomeInv, NEW p \in Peers, Open(p) \/ OpenExhausted(p)
    PROVE  OutcomeInv'
<1> DEFINE c == core[p]
           id == core[p].next_id
<1>1. id \in Ids /\ id + 2 \in Nat \ {0}
  BY Itself, ConnectionAssumption DEF Open, OpenExhausted, MayOpen, Ids
<1>2. Shape /\ writing' = writing /\ wire' = wire /\ handle' = handle
  BY Zenon DEF Open, OpenExhausted, apps, driver, OutcomeInv
<1>3. /\ IsMap(handle', Peers) /\ (\A q \in Peers : IsMap(handle'[q], Ids)) /\ Handed
      /\ Passed(p)
  BY <1>2, Untouched, NothingPassed, Zenon
<1>4. CASE Open(p)
  <2>1. core' = [core EXCEPT ![p] = requested(c, id)] /\ opener' = [opener EXCEPT ![id] = "waiting"]
    BY <1>4, Zenon DEF Open
  <2>2. Holds(requested(c, id), c.last_peer_id, c.pending_incoming, Append(c.controls, Frame("OPEN", id)))
    BY <1>1, Itself, Announced, Zenon
  <2>3. \A f : f = Frame("OPEN", id) => FrameOK(p, f)'
    BY <1>1 DEF FrameOK, Frame
  <2>4. \A f \in Range(Append(c.controls, Frame("OPEN", id))) : f \in Under(p) \/ FrameOK(p, f)'
    BY <2>3, Itself, QueuedFrames, Zenon
  <2>5. IsMap(opener', Ids) /\ Heard
    BY <1>1, <1>2, <2>1, OpenerAssigned, Zenon DEF Heard, Returned
  <2> QED BY <1>3, <2>1, <2>2, <2>4, <2>5, CoreSteps, Zenon
<1>5. CASE OpenExhausted(p)
  <2>1. core' = [core EXCEPT ![p] = [c EXCEPT !.next_id = id + 2]] /\ opener' = opener
    BY <1>5, Zenon DEF OpenExhausted
  <2>2. Holds([c EXCEPT !.next_id = id + 2], c.last_peer_id, c.pending_incoming, c.controls)
    BY <1>1, Itself, Assigned, Zenon
  <2>3. IsMap(opener', Ids) /\ Heard
    BY <1>2, <2>1, Untouched, Zenon
  <2> QED BY <1>3, <2>1, <2>2, <2>3, Itself, CoreSteps, Zenon
<1> QED BY <1>4, <1>5, Zenon

(* IncomingRequest::accept, and its reject or drop with room in the control queue: the        *)
(* request is taken off pending_incoming and answered in one step.                            *)
LEMMA ResponseSteps ==
    ASSUME OutcomeInv, NEW p \in Peers, NEW id \in Ids, id \in core[p].pending_incoming,
           writing' = writing, wire' = wire, opener' = opener,
           \/ /\ core' = [core EXCEPT ![p] = withdrawn(enqueue_control(core[p], "ACCEPT", id), id)]
              /\ handle' = [handle EXCEPT ![p][id] = "held"]
           \/ /\ core' = [core EXCEPT ![p] = reject_request(core[p], id)]
              /\ handle' = handle
    PROVE  OutcomeInv'
<1> DEFINE c == core[p]
<1>1. Passed(p) /\ IsMap(opener', Ids) /\ Heard
  BY Untouched, NothingPassed, Zenon DEF OutcomeInv
<1>2. /\ ~owns_id(p, id) /\ id <= c.last_peer_id /\ handle[p][id] = "none"
      /\ c.pending_incoming \ {id} \subseteq c.pending_incoming
  BY Zenon DEF OutcomeInv, RequestsAgree
<1>3. ASSUME NEW d, NEW k, Holds(d, c.last_peer_id, c.pending_incoming \ {id}, k),
             core' = [core EXCEPT ![p] = d]
      PROVE  core'[p].last_peer_id = c.last_peer_id /\ core'[p].pending_incoming = c.pending_incoming \ {id}
  <2>1. core'[p] = d
    BY <1>3, Zenon DEF OutcomeInv, Shape, IsMap
  <2> QED BY <1>3, <2>1, Zenon DEF Holds
<1>4. CASE /\ core' = [core EXCEPT ![p] = withdrawn(enqueue_control(core[p], "ACCEPT", id), id)]
           /\ handle' = [handle EXCEPT ![p][id] = "held"]
  <2> DEFINE d == withdrawn(enqueue_control(c, "ACCEPT", id), id)
             k == Append(c.controls, Frame("ACCEPT", id))
  <2>1. Holds(d, c.last_peer_id, c.pending_incoming \ {id}, k) /\ core' = [core EXCEPT ![p] = d]
    BY <1>4, Itself, Announced, Zenon
  <2>2. /\ IsMap(handle', Peers) /\ (\A q \in Peers : IsMap(handle'[q], Ids))
        /\ handle'[p][id] = "held"
        /\ \A q \in Peers, i \in Ids : q # p \/ i # id => handle'[q][i] = handle[q][i]
    <3>1. IsMap(handle, Peers) /\ \A q \in Peers : IsMap(handle[q], Ids)
      BY Zenon DEF OutcomeInv, Shape
    <3> QED BY <1>4, <3>1, Zenon DEF IsMap
  <2>3. id \notin core'[p].pending_incoming
    BY <1>3, <2>1, Zenon
  <2>4. Handed
    BY <2>2, <2>3, Zenon DEF Handed
  <2>5. \A f : f = Frame("ACCEPT", id) => FrameOK(p, f)'
    BY <1>2, <2>2 DEF FrameOK, Frame
  <2>6. \A f \in Range(k) : f \in Under(p) \/ FrameOK(p, f)'
    BY <2>5, Itself, QueuedFrames, Zenon
  <2> HIDE DEF d, k
  <2> QED BY <1>1, <1>2, <2>1, <2>2, <2>4, <2>6, CoreSteps, Zenon
<1>5. CASE core' = [core EXCEPT ![p] = reject_request(core[p], id)] /\ handle' = handle
  <2> DEFINE d == reject_request(c, id)
             k == Append(c.controls, Frame("REJECT", id))
  <2>1. Holds(d, c.last_peer_id, c.pending_incoming \ {id}, k) /\ core' = [core EXCEPT ![p] = d]
    BY <1>5, Itself, Announced, Zenon
  <2>2. IsMap(handle', Peers) /\ (\A q \in Peers : IsMap(handle'[q], Ids)) /\ Handed
    BY <1>5, Untouched, Zenon DEF OutcomeInv
  <2>3. core'[p].last_peer_id = c.last_peer_id /\ id \notin core'[p].pending_incoming
    BY <1>3, <2>1, Zenon
  <2>4. Refused(p, id)'
    BY <1>2, <1>5, <2>3, Zenon DEF Refused
  <2>5. \A f : f = Frame("REJECT", id) => FrameOK(p, f)'
    BY <1>2, <2>4 DEF FrameOK, Frame
  <2>6. \A f \in Range(k) : f \in Under(p) \/ FrameOK(p, f)'
    BY <2>5, Itself, QueuedFrames, Zenon
  <2> HIDE DEF d, k
  <2> QED BY <1>1, <1>2, <2>1, <2>2, <2>6, CoreSteps, Zenon
<1> QED BY <1>4, <1>5, Zenon

(* Core::fail: nothing is told to the peer, and an opener only hears of the failure. *)
LEMMA FailSteps ==
    ASSUME OutcomeInv, NEW p \in Peers, NEW error, Fail(p, error), Passed(p), handle' = handle
    PROVE  OutcomeInv'
<1>1. IsMap(handle', Peers) /\ (\A q \in Peers : IsMap(handle'[q], Ids)) /\ Handed
  BY Untouched, Zenon DEF OutcomeInv
<1>2. CASE ~Live(p)
  <2>1. core' = [core EXCEPT ![p] = core[p]] /\ opener' = opener
    BY <1>2, Itself, Zenon DEF Fail
  <2>2. IsMap(opener', Ids) /\ Heard
    BY <2>1, Untouched, Zenon DEF OutcomeInv
  <2> QED BY <1>1, <2>1, <2>2, Itself, CoreSteps, Zenon
<1>3. CASE Live(p)
  <2>1. /\ core' = [core EXCEPT ![p] = failed(core[p], error)]
        /\ opener' = [id \in Ids |-> IF id \in core[p].pending_outgoing /\ opener[id] = "waiting"
                                     THEN "failed" ELSE opener[id]]
    BY <1>3, Zenon DEF Fail
  <2>2. IsMap(opener', Ids) /\ \A id \in Ids : opener'[id] \in {"failed", opener[id]}
    BY <2>1, Zenon DEF IsMap
  <2>3. Heard
    BY <2>2, Zenon DEF Heard, Returned
  <2>4. Holds(failed(core[p], error), core[p].last_peer_id, {}, <<>>)
    BY Itself, CoreOperations, Zenon
  <2>5. \A f \in Range(<<>>) : f \in Under(p) \/ FrameOK(p, f)'
    BY NoFrames, Zenon
  <2>6. {} \subseteq core[p].pending_incoming
    BY Zenon
  <2> DEFINE d == failed(core[p], error)
             q == {}
             k == <<>>
  <2>7. /\ Holds(d, core[p].last_peer_id, q, k) /\ q \subseteq core[p].pending_incoming
        /\ core' = [core EXCEPT ![p] = d]
        /\ \A f \in Range(k) : f \in Under(p) \/ FrameOK(p, f)'
    BY <2>1, <2>4, <2>5, <2>6, Zenon
  <2> HIDE DEF d, q, k
  <2> QED BY <1>1, <2>2, <2>3, <2>7, CoreSteps, Zenon
<1> QED BY <1>2, <1>3, Zenon

(* The answers of the application to a request. *)
LEMMA RequestSteps ==
    ASSUME OutcomeInv, NEW p \in Peers, NEW id \in Ids,
           Accept(p, id) \/ Reject(p, id) \/ DropRequest(p, id)
    PROVE  OutcomeInv'
<1>0. Shape /\ writing' = writing /\ wire' = wire
  BY Zenon DEF OutcomeInv, Accept, Reject, DropRequest, driver
<1>1. CASE Accept(p, id)
  BY <1>0, <1>1, ResponseSteps, Zenon DEF Accept
<1>2. CASE Reject(p, id)
  BY <1>0, <1>2, ResponseSteps, Zenon DEF Reject
<1>3. CASE DropRequest(p, id)
  <2>0. handle' = handle
    BY <1>3, Zenon DEF DropRequest
  <2>1. CASE core' = core /\ opener' = opener
    BY <1>0, <2>0, <2>1, ApplicationSteps, Zenon DEF Shape
  <2>2. CASE /\ id \in core[p].pending_incoming /\ opener' = opener
             /\ core' = [core EXCEPT ![p] = reject_request(core[p], id)]
    BY <1>0, <2>0, <2>2, ResponseSteps, Zenon
  <2>3. CASE Fail(p, "ResourceExhausted")
    BY <1>0, <2>0, <2>3, FailSteps, NothingPassed, Zenon
  <2> QED BY <1>3, <2>1, <2>2, <2>3, Zenon DEF DropRequest
<1> QED BY <1>1, <1>2, <1>3, Zenon

(* A frame is given to the writer, leaves it for the transport, or is read. *)
LEMMA FramesPass ==
    ASSUME Shape, NEW p \in Peers, NEW v, v \in Under(p) \/ Quiet(v),
           writing' = [writing EXCEPT ![p] = v],
           \/ wire' = wire
           \/ wire' = [wire EXCEPT ![p] = Append(wire[p], writing[p])]
           \/ /\ wire[Other(p)] # <<>>
              /\ wire' = [wire EXCEPT ![Other(p)] = Tail(wire[Other(p)])]
    PROVE  Passed(p)
<1>0. Other(p) \in Peers /\ Other(p) # p
  BY Zenon DEF Peers, Other
<1>1. IsMap(writing, Peers) /\ IsMap(wire, Peers) /\ \A q \in Peers : IsSeq(wire[q])
  BY Zenon DEF Shape
<1>2. /\ IsMap(writing', Peers) /\ writing'[p] = v
      /\ \A q \in Peers : q # p => writing'[q] = writing[q]
  BY <1>1, Zenon DEF IsMap
<1>3. ASSUME NEW r \in Peers, NEW s, IsSeq(s), wire' = [wire EXCEPT ![r] = s],
             r # p => Range(s) \subseteq Range(wire[r]),
             r = p => Range(s) \subseteq Under(p)
      PROVE  Passed(p)
  <2>1. /\ IsMap(wire', Peers) /\ wire'[r] = s
        /\ \A q \in Peers : q # r => wire'[q] = wire[q]
    BY <1>1, <1>3, Zenon DEF IsMap
  <2>2. \A q \in Peers : IsSeq(wire'[q])
    BY <1>1, <1>3, <2>1, Zenon
  <2>3. Range(wire'[p]) \subseteq Under(p)
    BY <1>3, <2>1, Zenon DEF Under
  <2>4. \A q \in Peers : q # p => Range(wire'[q]) \subseteq Range(wire[q])
    BY <1>3, <2>1, Zenon
  <2> QED BY <1>2, <2>1, <2>2, <2>3, <2>4, Zenon DEF Passed
<1>4. CASE wire' = wire
  <2>1. wire' = [wire EXCEPT ![p] = wire[p]]
    BY <1>1, <1>4, Zenon DEF IsMap
  <2> QED BY <1>1, <1>3, <2>1, Zenon DEF Under
<1>5. CASE wire' = [wire EXCEPT ![p] = Append(wire[p], writing[p])]
  <2>1. /\ IsSeq(Append(wire[p], writing[p]))
        /\ Range(Append(wire[p], writing[p])) = Range(wire[p]) \cup {writing[p]}
    BY <1>1, Sequence, Zenon
  <2>2. Range(Append(wire[p], writing[p])) \subseteq Under(p)
    BY <2>1, Zenon DEF Under
  <2> QED BY <1>3, <1>5, <2>1, <2>2, Zenon
<1>6. CASE wire[Other(p)] # <<>> /\ wire' = [wire EXCEPT ![Other(p)] = Tail(wire[Other(p)])]
  <2>1. IsSeq(Tail(wire[Other(p)])) /\ Range(Tail(wire[Other(p)])) \subseteq Range(wire[Other(p)])
    BY <1>0, <1>1, <1>6, Sequence, Zenon
  <2> QED BY <1>0, <1>3, <1>6, <2>1, Zenon
<1> QED BY <1>4, <1>5, <1>6, Zenon

(* The same where the writer keeps its frame. *)
LEMMA FramesRead ==
    ASSUME Shape, NEW p \in Peers, writing' = writing, wire[Other(p)] # <<>>,
           wire' = [wire EXCEPT ![Other(p)] = Tail(wire[Other(p)])]
    PROVE  Passed(p)
<1>1. writing' = [writing EXCEPT ![p] = writing[p]]
  BY Zenon DEF Shape, IsMap
<1>2. writing[p] \in Under(p)
  BY Zenon DEF Under
<1> QED BY <1>1, <1>2, FramesPass, Zenon

(* select_frame takes a frame from the control queue only if there is one. *)
LEMMA QueueFirst ==
    ASSUME NEW queued \in BOOLEAN, NEW control, NEW data, NEW n,
           Source(queued, control, data, n) = "queue"
    PROVE  queued
<1> DEFINE q == [name |-> "queue", some |-> queued]
           c == [name |-> "control", some |-> control # {}]
           d == [name |-> "data", some |-> data # {}]
           First(order) == order[Least({i \in 1 .. 3 : order[i].some})].name
<1>1. ~(~queued /\ control = {} /\ data = {})
  BY Zenon DEF Source
<1>2. ASSUME NEW order, order \in {<<d, q, c>>, <<q, c, d>>}, First(order) = "queue"
      PROVE  queued
  <2> DEFINE S == {i \in 1 .. 3 : order[i].some}
  <2>0. S \subseteq 1 .. 3 /\ 1 .. 3 = {1, 2, 3}
    OBVIOUS
  <2>a. \E i \in {1, 2, 3} : order[i].some
    <3>1. CASE order = <<d, q, c>>
      BY <1>1, <3>1, Zenon
    <3>2. CASE order = <<q, c, d>>
      BY <1>1, <3>2, Zenon
    <3> QED BY <1>2, <3>1, <3>2, Zenon
  <2>1. S \subseteq {1, 2, 3} /\ (1 \in S \/ 2 \in S \/ 3 \in S)
    BY <2>0, <2>a, Zenon
  <2>2. \E i \in S : \A j \in S : i <= j
    BY <2>1
  <2>3. Least(S) \in S
    BY <2>2, Zenon DEF Least
  <2>4. PICK i \in S : order[i].name = "queue"
    BY <1>2, <2>3, Zenon
  <2> QED BY <1>2, <2>1, <2>4
<1>3. Source(queued, control, data, n) \in {First(<<d, q, c>>), First(<<q, c, d>>)}
  BY <1>1, Zenon DEF Source
<1> QED BY <1>2, <1>3, Zenon

(* The writer: select_frame and complete_frame. *)
LEMMA WriterSteps ==
    ASSUME OutcomeInv, NEW p \in Peers,
           SelectQueued(p) \/ SelectControl(p) \/ SelectData(p) \/ CompleteFrame(p)
    PROVE  OutcomeInv'
<1> DEFINE c == core[p]
<1>0. /\ Shape /\ handle' = handle /\ opener' = opener
  BY Zenon DEF OutcomeInv, SelectQueued, SelectControl, SelectData, CompleteFrame, apps
<1>1. /\ IsMap(handle', Peers) /\ (\A q \in Peers : IsMap(handle'[q], Ids)) /\ Handed
      /\ IsMap(opener', Ids) /\ Heard
  BY <1>0, Untouched, Zenon
<1>2. \A f \in Range(c.controls) : f \in Under(p) \/ FrameOK(p, f)'
  BY Itself, Zenon
<1>3. ASSUME core' = core, Passed(p) PROVE OutcomeInv'
  <2>1. core' = [core EXCEPT ![p] = c]
    BY <1>3, Itself, Zenon
  <2>2. c.pending_incoming \subseteq c.pending_incoming
    BY Zenon
  <2> QED BY <1>1, <1>2, <1>3, <2>1, <2>2, Itself, CoreSteps, Zenon
<1>4. CASE SelectQueued(p)
  <2>1. /\ core' = [core EXCEPT ![p] = [c EXCEPT !.controls = Tail(c.controls)]]
        /\ writing' = [writing EXCEPT ![p] = Head(c.controls)] /\ wire' = wire
        /\ c.controls # <<>>
    BY <1>4, QueueFirst, Zenon DEF SelectQueued, source
  <2>2. IsSeq(c.controls)
    BY Itself, CoreFields, Zenon
  <2>3. /\ Head(c.controls) \in Range(c.controls) /\ IsSeq(Tail(c.controls))
        /\ Range(Tail(c.controls)) \subseteq Range(c.controls)
    BY <2>1, <2>2, Sequence, Zenon
  <2>4. Holds([c EXCEPT !.controls = Tail(c.controls)], c.last_peer_id, c.pending_incoming,
              Tail(c.controls))
    BY <2>3, Itself, Then, Zenon
  <2>5. Head(c.controls) \in Under(p)
    BY <2>3, Itself, Zenon
  <2>6. Passed(p)
    BY <1>0, <2>1, <2>5, FramesPass, Zenon
  <2>7. \A f \in Range(Tail(c.controls)) : f \in Under(p) \/ FrameOK(p, f)'
    BY <1>2, <2>3, Zenon
  <2>8. c.pending_incoming \subseteq c.pending_incoming
    BY Zenon
  <2> QED BY <1>1, <2>1, <2>4, <2>6, <2>7, <2>8, CoreSteps, Zenon
<1>5. CASE SelectControl(p)
  <2>1. PICK ch, id : writing' = [writing EXCEPT ![p] = Frame(ControlFrame(ch), id)]
    BY <1>5, Zenon DEF SelectControl
  <2>2. Quiet(Frame(ControlFrame(ch), id))
    BY Zenon DEF Quiet, Frame, ControlFrame
  <2>3. core' = core /\ wire' = wire
    BY <1>5, Zenon DEF SelectControl
  <2> QED BY <1>0, <1>3, <2>1, <2>2, <2>3, FramesPass, Zenon
<1>6. CASE SelectData(p)
  <2>1. PICK id : writing' = [writing EXCEPT ![p] = Frame("DATA", id)]
    BY <1>6, Zenon DEF SelectData
  <2>2. Quiet(Frame("DATA", id))
    BY Zenon DEF Quiet, Frame
  <2>3. core' = core /\ wire' = wire
    BY <1>6, Zenon DEF SelectData
  <2> QED BY <1>0, <1>3, <2>1, <2>2, <2>3, FramesPass, Zenon
<1>7. CASE CompleteFrame(p)
  <2>1. /\ wire' = [wire EXCEPT ![p] = Append(wire[p], writing[p])]
        /\ writing' = [writing EXCEPT ![p] = NoFrame]
    BY <1>7, Zenon DEF CompleteFrame
  <2>2. Quiet(NoFrame)
    BY Zenon DEF Quiet, NoFrame, Frame
  <2>3. Passed(p)
    BY <1>0, <2>1, <2>2, FramesPass, Zenon
  <2>4. CASE core' = core
    BY <1>3, <2>3, <2>4, Zenon
  <2>5. ASSUME NEW id, core' = [core EXCEPT ![p] = remember_closed(answered(c, id), id)]
        PROVE  OutcomeInv'
    <3>1. Holds(remember_closed(answered(c, id), id), c.last_peer_id, c.pending_incoming, c.controls)
      BY Itself, CoreOperations, Then, Zenon
    <3>2. c.pending_incoming \subseteq c.pending_incoming
      BY Zenon
    <3> QED BY <1>1, <1>2, <2>3, <2>5, <3>1, <3>2, CoreSteps, Zenon
  <2>6. \/ core' = core
        \/ core' = [core EXCEPT ![p] = remember_closed(answered(c, writing[p].id), writing[p].id)]
    BY <1>7, Zenon DEF CompleteFrame, Completed
  <2> QED BY <2>4, <2>5, <2>6, Zenon
<1> QED BY <1>4, <1>5, <1>6, <1>7, Zenon

(* An opener hears the outcome of its request, which the peer's answer states. *)
LEMMA OutcomeHeard ==
    ASSUME Shape, NEW id, NEW v, opener' = [opener EXCEPT ![id] = v],
           id \in Ids /\ v \in Returned => handle[Other(Owner(id))][id] # "none",
           id \in Ids /\ v = "rejected" => Refused(Other(Owner(id)), id)
    PROVE  IsMap(opener', Ids) /\ Heard
<1>1. IsMap(opener, Ids)
  BY Zenon DEF Shape
<1>2. IsMap(opener', Ids) /\ \A i \in Ids : opener'[i] = IF i = id THEN v ELSE opener[i]
  BY <1>1, Zenon DEF IsMap
<1> QED BY <1>2, Zenon DEF Heard

(* The reader takes a frame that is no error: receive_open. *)
LEMMA OpenReceived ==
    ASSUME OutcomeInv, NEW p \in Peers, NEW id \in Ids, ~owns_id(p, id), id > core[p].last_peer_id,
           ReceiveOpen(p, id), Passed(p), handle' = handle
    PROVE  OutcomeInv'
<1> DEFINE c == core[p]
<1>0. Shape /\ opener' = opener
  BY Zenon DEF OutcomeInv, ReceiveOpen
<1>1. /\ IsMap(handle', Peers) /\ (\A q \in Peers : IsMap(handle'[q], Ids)) /\ Handed
      /\ IsMap(opener', Ids) /\ Heard
  BY <1>0, Untouched, Zenon
<1>2. id \in Nat /\ c.last_peer_id \in Nat
  BY Itself, Numbers, Zenon
<1>3. handle[p][id] = "none" /\ id \notin c.pending_incoming
  BY <1>2 DEF OutcomeInv, RequestsAgree
<1>4. ASSUME NEW d, NEW q, NEW k, Holds(d, id, q, k), core' = [core EXCEPT ![p] = d],
             q \subseteq c.pending_incoming \cup {id},
             \A f \in Range(k) : f \in Under(p) \/ FrameOK(p, f)'
      PROVE  OutcomeInv'
  <2>1. IsCore(d) /\ d.last_peer_id = id /\ d.pending_incoming = q /\ d.controls = k
    BY <1>4, Zenon DEF Holds
  <2>2. d.last_peer_id >= c.last_peer_id /\ id <= d.last_peer_id
    BY <1>2, <2>1
  <2>3. \A i \in d.pending_incoming \ c.pending_incoming :
          ~owns_id(p, i) /\ i > c.last_peer_id /\ i <= d.last_peer_id
    BY <1>4, <2>1, <2>2, Zenon
  <2> QED BY <1>1, <1>4, <2>1, <2>2, <2>3, DriverSteps, Zenon
<1>5. CASE core' = [core EXCEPT ![p] = refused(c, id)]
  <2> DEFINE k == Append(c.controls, Frame("REJECT", id))
  <2>1. Holds(refused(c, id), id, c.pending_incoming, k)
    BY Itself, Announced, Zenon
  <2>2. core'[p] = refused(c, id)
    BY <1>0, <1>5, Zenon DEF Shape, IsMap
  <2>3. core'[p].last_peer_id = id /\ core'[p].pending_incoming = c.pending_incoming
    BY <2>1, <2>2, Zenon DEF Holds
  <2>4. Refused(p, id)'
    BY <1>2, <1>3, <2>3 DEF Refused
  <2>5. \A f : f = Frame("REJECT", id) => FrameOK(p, f)'
    BY <2>4 DEF FrameOK, Frame
  <2>6. \A f \in Range(k) : f \in Under(p) \/ FrameOK(p, f)'
    BY <2>5, Itself, QueuedFrames, Zenon
  <2>7. c.pending_incoming \subseteq c.pending_incoming \cup {id}
    BY Zenon
  <2> QED BY <1>4, <1>5, <2>1, <2>6, <2>7, Zenon
<1>6. CASE core' = [core EXCEPT ![p] = pended(c, id)]
  <2>1. Holds(pended(c, id), id, c.pending_incoming \cup {id}, c.controls)
    BY Itself, CoreOperations, Zenon
  <2>2. \A f \in Range(c.controls) : f \in Under(p) \/ FrameOK(p, f)'
    BY Itself, Zenon
  <2>3. c.pending_incoming \cup {id} \subseteq c.pending_incoming \cup {id}
    BY Zenon
  <2> QED BY <1>4, <1>6, <2>1, <2>2, <2>3, Zenon
<1> QED BY <1>5, <1>6, Zenon DEF ReceiveOpen

(* receive_accept, receive_reject, receive_reset and the frames of a channel: what the opener *)
(* hears is what the frame says.                                                              *)
LEMMA OtherReceived ==
    ASSUME OutcomeInv, NEW p \in Peers, NEW f, FrameOK(Other(p), f), Passed(p), handle' = handle,
           \/ f.kind = "ACCEPT" /\ ReceiveAccept(p, f.id)
           \/ f.kind = "REJECT" /\ ReceiveReject(p, f.id)
           \/ ReceiveReset(p, f.id) \/ ReceiveOnChannel(p, f)
    PROVE  OutcomeInv'
<1> DEFINE c == core[p]
           id == f.id
           q == Other(p)
<1>0. Shape /\ Other(p) \in Peers
  BY Zenon DEF OutcomeInv, Peers, Other
<1>1. IsMap(handle', Peers) /\ (\A r \in Peers : IsMap(handle'[r], Ids)) /\ Handed
  BY <1>0, Untouched, Zenon
<1>2. \A g \in Range(c.controls) : g \in Under(p) \/ FrameOK(p, g)'
  BY Itself, Zenon
<1>3. ASSUME id \in Ids, ~owns_id(q, id) PROVE Other(Owner(id)) = q
  <2>1. id \in Nat
    BY <1>3, Numbers, Zenon
  <2> QED BY <1>0, <1>3, <2>1, Owners, Zenon
<1>4. PICK d, r : /\ Holds(d, c.last_peer_id, r, c.controls) /\ r \subseteq c.pending_incoming
                  /\ core' = [core EXCEPT ![p] = d]
  <2>0. /\ c.pending_incoming \subseteq c.pending_incoming
        /\ c.pending_incoming \ {id} \subseteq c.pending_incoming
    BY Zenon
  <2>1. CASE core' = core
    BY <2>0, <2>1, Itself, Zenon
  <2>2. /\ Holds(answered(c, id), c.last_peer_id, c.pending_incoming, c.controls)
        /\ Holds(remember_closed(answered(c, id), id), c.last_peer_id, c.pending_incoming, c.controls)
        /\ Holds(remember_closed(c, id), c.last_peer_id, c.pending_incoming, c.controls)
    BY Itself, CoreOperations, Then, Zenon
  <2>3. Holds(withdrawn(answered(c, id), id), c.last_peer_id, c.pending_incoming \ {id}, c.controls)
    BY <2>2, CoreOperations, Zenon
  <2>4. Holds(remember_closed(withdrawn(answered(c, id), id), id), c.last_peer_id,
              c.pending_incoming \ {id}, c.controls)
    BY <2>3, Then, Zenon
  <2>5. \/ core' = core
        \/ core' = [core EXCEPT ![p] = answered(c, id)]
        \/ core' = [core EXCEPT ![p] = remember_closed(answered(c, id), id)]
        \/ core' = [core EXCEPT ![p] = remember_closed(c, id)]
        \/ core' = [core EXCEPT ![p] = remember_closed(withdrawn(answered(c, id), id), id)]
    BY Zenon DEF ReceiveAccept, ReceiveReject, ReceiveReset, ReceiveOnChannel, Ignored
  <2> QED BY <2>0, <2>1, <2>2, <2>4, <2>5, Zenon
<1>5. IsMap(opener', Ids) /\ Heard
  <2>1. CASE opener' = opener
    BY <1>0, <2>1, Untouched, Zenon
  <2>2. CASE f.kind = "ACCEPT" /\ opener' = [opener EXCEPT ![id] = "delivered"]
    <3>1. id \in Ids /\ ~owns_id(q, id) /\ handle[q][id] # "none"
      BY <2>2, Zenon DEF FrameOK
    <3>2. handle[Other(Owner(id))][id] # "none"
      BY <1>3, <3>1, Zenon
    <3>3. "delivered" # "rejected"
      BY Zenon
    <3> QED BY <1>0, <2>2, <3>2, <3>3, OutcomeHeard, Zenon
  <2>3. CASE f.kind = "REJECT" /\ opener' = [opener EXCEPT ![id] = IF opener[id] = "waiting"
                                                                 THEN "rejected" ELSE opener[id]]
    <3>1. id \in Ids /\ ~owns_id(q, id) /\ Refused(q, id)
      BY <2>3, Zenon DEF FrameOK
    <3>2. Refused(Other(Owner(id)), id)
      BY <1>3, <3>1, Zenon
    <3>3. CASE opener[id] = "waiting"
      <4>1. opener' = [opener EXCEPT ![id] = "rejected"] /\ "rejected" \notin Returned
        BY <2>3, <3>3, Zenon DEF Returned
      <4> QED BY <1>0, <3>2, <4>1, OutcomeHeard, Zenon
    <3>4. CASE opener[id] # "waiting"
      <4>1. opener' = opener
        BY <1>0, <2>3, <3>1, <3>4, Zenon DEF Shape, IsMap
      <4> QED BY <1>0, <4>1, Untouched, Zenon
    <3> QED BY <3>3, <3>4, Zenon
  <2>4. CASE opener' = [opener EXCEPT ![id] = IF owns_id(p, id) /\ opener[id] = "waiting"
                                              THEN "reset" ELSE opener[id]]
    <3>1. CASE owns_id(p, id) /\ opener[id] = "waiting"
      <4>1. opener' = [opener EXCEPT ![id] = "reset"] /\ "reset" \notin Returned /\ "reset" # "rejected"
        BY <2>4, <3>1, Zenon DEF Returned
      <4> QED BY <1>0, <4>1, OutcomeHeard, Zenon
    <3>2. CASE ~(owns_id(p, id) /\ opener[id] = "waiting")
      <4>1. opener' = opener
        BY <1>0, <2>4, <3>2, Zenon DEF Shape, IsMap
      <4> QED BY <1>0, <4>1, Untouched, Zenon
    <3> QED BY <3>1, <3>2, Zenon
  <2> QED BY <2>1, <2>2, <2>3, <2>4, Zenon
          DEF ReceiveAccept, ReceiveReject, ReceiveReset, ReceiveOnChannel, Ignored
<1> QED BY <1>1, <1>2, <1>4, <1>5, CoreSteps, Zenon

(* reader_loop. *)
LEMMA ReaderSteps ==
    ASSUME OutcomeInv, NEW p \in Peers, Receive(p)
    PROVE  OutcomeInv'
<1> DEFINE f == Head(wire[Other(p)])
<1>0. Shape /\ Other(p) \in Peers
  BY Zenon DEF OutcomeInv, Peers, Other
<1>1. /\ handle' = handle /\ wire[Other(p)] # <<>>
      /\ wire' = [wire EXCEPT ![Other(p)] = Tail(wire[Other(p)])]
  BY Zenon DEF Receive
<1>2. FrameOK(Other(p), f)
  <2>1. IsSeq(wire[Other(p)])
    BY <1>0, Zenon DEF Shape
  <2>2. f \in Range(wire[Other(p)])
    BY <1>1, <2>1, Sequence, Zenon
  <2> QED BY <1>0, <2>2, Zenon DEF OutcomeInv, FramesAgree, Under
<1>3. CASE FrameError(p, f) # "none"
  <2>1. Fail(p, FrameError(p, f)) /\ writing' = [writing EXCEPT ![p] = NoFrame]
    BY <1>3, Zenon DEF Receive, DriverReturns
  <2>2. Quiet(NoFrame)
    BY Zenon DEF Quiet, NoFrame, Frame
  <2>3. Passed(p)
    BY <1>0, <1>1, <2>1, <2>2, FramesPass, Zenon
  <2> QED BY <1>1, <2>1, <2>3, FailSteps, Zenon
<1>4. CASE FrameError(p, f) = "none"
  <2>1. Process(p, f) /\ writing' = writing
    BY <1>4, Zenon DEF Receive
  <2>2. Passed(p)
    BY <1>0, <1>1, <2>1, FramesRead, Zenon
  <2>3. CASE f.kind = "OPEN"
    <3>1. ReceiveOpen(p, f.id) /\ OpenError(p, f.id) = "none"
      BY <1>4, <2>1, <2>3, Zenon DEF Process, FrameError
    <3>2. f.id \in Ids
      BY <1>2, <2>3, Zenon DEF FrameOK
    <3>3. ~owns_id(p, f.id) /\ ~(f.id <= core[p].last_peer_id)
      BY <3>1, Zenon DEF OpenError
    <3>4. f.id \in Nat /\ core[p].last_peer_id \in Nat
      BY <3>2, Itself, Numbers, Zenon
    <3>5. f.id > core[p].last_peer_id
      BY <3>3, <3>4
    <3> HIDE DEF f
    <3> QED BY <1>1, <2>2, <3>1, <3>2, <3>3, <3>5, OpenReceived, Zenon
  <2>4. CASE f.kind # "OPEN"
    <3>1. \/ f.kind = "ACCEPT" /\ ReceiveAccept(p, f.id)
          \/ f.kind = "REJECT" /\ ReceiveReject(p, f.id)
          \/ ReceiveReset(p, f.id) \/ ReceiveOnChannel(p, f)
      BY <2>1, <2>4, Zenon DEF Process
    <3> HIDE DEF f
    <3> QED BY <1>1, <1>2, <2>2, <3>1, OtherReceived, Zenon
  <2> QED BY <2>3, <2>4, Zenon
<1> QED BY <1>3, <1>4, Zenon

(* The driver returns or is dropped. *)
LEMMA EndSteps ==
    ASSUME OutcomeInv, NEW p \in Peers, TransportEnds(p) \/ WriterEnds(p) \/ DropDriver(p)
    PROVE  OutcomeInv'
<1>1. PICK error : Fail(p, error) /\ writing' = [writing EXCEPT ![p] = NoFrame]
  BY Zenon DEF TransportEnds, WriterEnds, DropDriver, DriverReturns
<1>2. Shape /\ handle' = handle /\ wire' = wire
  BY Zenon DEF OutcomeInv, TransportEnds, WriterEnds, DropDriver, apps
<1>3. Quiet(NoFrame)
  BY Zenon DEF Quiet, NoFrame, Frame
<1>4. Passed(p)
  BY <1>1, <1>2, <1>3, FramesPass, Zenon
<1> QED BY <1>1, <1>2, <1>4, FailSteps, Zenon

-----------------------------------------------------------------------------
(* The invariant. *)

(* A new connection. *)
LEMMA OutcomeInvInit == Init => OutcomeInv
<1> SUFFICES ASSUME Init PROVE OutcomeInv
  BY Zenon
<1>1. \A p \in Peers :
        /\ core[p] = [next_id |-> first_id(p), last_peer_id |-> 0, pending_outgoing |-> {},
                      pending_incoming |-> {}, controls |-> <<>>, tombstones |-> <<>>,
                      terminal |-> "none"]
        /\ handle[p] = [id \in Ids |-> "none"] /\ writing[p] = NoFrame /\ wire[p] = <<>>
  BY Zenon DEF Init
<1>2. \A p \in Peers : first_id(p) \in Nat \ {0}
  BY DEF first_id, Peers
<1>3. \A p \in Peers : IsCore(core[p]) /\ core[p].pending_incoming = {} /\ core[p].controls = <<>>
  <2> TAKE p \in Peers
  <2>0. core[p] = [next_id |-> first_id(p), last_peer_id |-> 0, pending_outgoing |-> {},
                   pending_incoming |-> {}, controls |-> <<>>, tombstones |-> <<>>,
                   terminal |-> "none"]
    BY <1>1, Zenon
  <2>1. /\ core[p].next_id = first_id(p) /\ core[p].last_peer_id = 0
        /\ core[p].pending_outgoing = {} /\ core[p].pending_incoming = {}
        /\ core[p].controls = <<>> /\ core[p].tombstones = <<>> /\ core[p].terminal = "none"
    BY <2>0
  <2>2. IsSeq(core[p].controls)
    BY <2>1, NoFrames, Zenon
  <2>3. /\ core[p].next_id \in Nat \ {0} /\ core[p].last_peer_id \in Nat
        /\ core[p].pending_incoming \subseteq Ids
    BY <1>2, <2>1
  <2>4. core[p] = [next_id |-> core[p].next_id, last_peer_id |-> core[p].last_peer_id,
                   pending_outgoing |-> core[p].pending_outgoing,
                   pending_incoming |-> core[p].pending_incoming,
                   controls |-> core[p].controls, tombstones |-> core[p].tombstones,
                   terminal |-> core[p].terminal]
    BY <2>0, <2>1, Zenon
  <2> QED BY <2>1, <2>2, <2>3, <2>4, Zenon DEF IsCore
<1>4. /\ IsMap(core, Peers) /\ IsMap(handle, Peers) /\ IsMap(writing, Peers)
      /\ IsMap(wire, Peers) /\ IsMap(opener, Ids)
  <2>1. IsMap(core, Peers)
    BY Zenon DEF Init, IsMap
  <2>2. IsMap(handle, Peers)
    BY Zenon DEF Init, IsMap
  <2>3. IsMap(writing, Peers) /\ IsMap(wire, Peers)
    BY Zenon DEF Init, IsMap
  <2>4. IsMap(opener, Ids)
    BY Zenon DEF Init, IsMap
  <2> QED BY <2>1, <2>2, <2>3, <2>4, Zenon
<1>5. \A p \in Peers : IsMap(handle[p], Ids) /\ IsSeq(wire[p])
  BY <1>1, NoFrames, Zenon DEF IsMap
<1>6. Shape
  BY <1>3, <1>4, <1>5, Zenon DEF Shape
<1>7. \A p \in Peers : Under(p) = {NoFrame}
  BY <1>1, <1>3, NoFrames, Zenon DEF Under
<1>8. FramesAgree
  BY <1>7 DEF FramesAgree, FrameOK, NoFrame, Frame
<1>9. RequestsAgree
  BY <1>1, <1>3, Zenon DEF RequestsAgree
<1>10. OpenersAgree
  BY Zenon DEF Init, OpenersAgree, Returned
<1> QED BY <1>6, <1>8, <1>9, <1>10, Zenon DEF OutcomeInv

(* Every step of the two peers. *)
LEMMA OutcomeInvNext == OutcomeInv /\ [Next]_vars => OutcomeInv'
<1> SUFFICES ASSUME OutcomeInv, [Next]_vars PROVE OutcomeInv'
  BY Zenon
<1>1. ASSUME NEW p \in Peers,
             \/ Open(p) \/ OpenExhausted(p) \/ Recv(p) \/ DropIncoming(p)
             \/ SelectQueued(p) \/ SelectControl(p) \/ SelectData(p) \/ CompleteFrame(p)
             \/ Receive(p) \/ TransportEnds(p) \/ WriterEnds(p) \/ DropDriver(p)
      PROVE  OutcomeInv'
  BY <1>1, OpenSteps, IncomingSteps, WriterSteps, ReaderSteps, EndSteps, Zenon
<1>2. ASSUME NEW id \in Ids,
             OpenReturns(id) \/ CancelOpen(id) \/ CancelDelivered(id) \/ CancelReset(id)
      PROVE  OutcomeInv'
  BY <1>2, OpenerSteps, Zenon
<1>3. ASSUME NEW p \in Peers, NEW id \in Ids,
             \/ Accept(p, id) \/ Reject(p, id) \/ ResponseFails(p, id) \/ DropRequest(p, id)
             \/ Write(p, id) \/ Read(p, id) \/ DropChannel(p, id)
      PROVE  OutcomeInv'
  BY <1>3, RequestSteps, ChannelSteps, Zenon
<1>4. CASE UNCHANGED vars
  <2>1. core' = core /\ writing' = writing /\ wire' = wire /\ handle' = handle /\ opener' = opener
    BY <1>4, Zenon DEF vars, apps, driver
  <2> QED BY <2>1, ApplicationSteps, Zenon DEF OutcomeInv, Shape
<1> QED BY <1>1, <1>2, <1>3, <1>4, Zenon DEF Next

(* Whatever is opened, cancelled, accepted, rejected, dropped or lost with the transport:     *)
(* MuxHandle::open returns a channel only if the peer's application accepted it, and a        *)
(* rejection only of a channel that the application neither has nor will have.                *)
THEOREM OutcomesHold == Spec => []OutcomesAgree
<1>1. OutcomeInv => OutcomesAgree
  BY Zenon DEF OutcomeInv, OpenersAgree, OutcomesAgree, Returned, Refused
<1> QED BY <1>1, OutcomeInvInit, OutcomeInvNext, PTL DEF Spec

=============================================================================
