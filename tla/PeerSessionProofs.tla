------------------------- MODULE PeerSessionProofs -------------------------
(***************************************************************************)
(* Proof about PeerSession, for any number of broken links, early timeouts *)
(* and changes of the permissions: what one side believes of the other is  *)
(* so.  The invariant says what the frames under way between the two mean: *)
(* where they can be, what must have happened for each to be sent, and     *)
(* that the last news of the permissions is what the host grants.          *)
(***************************************************************************)
EXTENDS PeerSession, SequenceTheorems, TLAPS

Within(q) == {q[i] : i \in 1..Len(q)}

Spoken == {"hello", "reply", "confirm", "abort", "accepted", "rejected", "perms", "bye"}
Kinds == Spoken \cup {"preamble", "ack", "eof", "end"}
Frame == [t : Kinds, p : Rights \cup {"none"}]

Places == {"start", "await", "dial", "hello", "reply", "confirm", "approval", "decide",
           "live", "drain", "over"}
Reasons == {"none", "refused", "offline", "protocol", "wrongPassword", "aborted", "rejected",
            "local", "peerClosed", "lost"}

Shape ==
    /\ pc \in [Sides -> Places] /\ link \in [Sides -> Links \cup {"none"}]
    /\ out \in [Sides -> Seq(Frame)] /\ rx \in [Sides -> Seq(Frame)]
    /\ net \in [Links -> [Sides -> Seq(Frame)]]
    /\ closed \in [Sides -> BOOLEAN] /\ route \in [Sides -> BOOLEAN]
    /\ perms \in [Sides -> Rights \cup {"none"}]
    /\ reason \in [Sides -> Reasons]

\* Both have chosen a link, the same.
Met == link.v = link.h /\ link.v # "none"

\* The viewer asks for a direct link at most once, with the first bytes of the stream.
Asks(q) == \E f \in Within(q) : f.t = "preamble"

\* What a side has of the link where it is.
PlaceOK ==
    /\ \A s \in Sides : pc[s] \in {"start", "await", "dial"} => link[s] = "none"
    /\ \A s \in Sides : pc[s] \notin {"start", "await", "dial", "over"} => link[s] # "none"
    /\ pc.h \in {"confirm", "decide", "live"} => Met
    /\ pc.v \in {"confirm", "approval", "live"} => Met
    /\ (link.v = "relay" /\ pc.v # "over" /\ served) => route.v
    /\ link.h = "relay" => link.v = "relay"
    /\ pc.v = "start" => net.direct.v = <<>> /\ link.h # "direct"
    /\ link.h = "direct" => ~Asks(net.direct.v)
    /\ net.direct.v # <<>> => ~Asks(Tail(net.direct.v))

\* Where frames can be: on the link of the side that sent them, and received over the same.
FrameOK ==
    /\ \A s \in Sides : link[s] = "none" => out[s] = <<>>
    /\ \A k \in Links, s \in Sides : \A f \in Within(net[k][s]) : f.t \in Spoken => link[s] = k
    /\ \A f \in Within(rx.v) : f.t \in Spoken => Met
    /\ rx.h # <<>> => (Met \/ (link.h = "none" /\ link.v = "relay"))
    /\ \A f \in Within(rx.h) : f.t \in Spoken
    /\ \A k \in Links : \A f \in Within(net[k].v) : f.t # "ack"
    /\ \A f \in Within(out.v) : f.t \notin {"ack", "preamble"}

\* Everything the host sent that the viewer has not processed.
FromHost == Within(out.h) \cup Within(rx.v) \cup Within(net.direct.h) \cup Within(net.relay.h)

\* The host has answered, the host has seen the right confirmation.
Answering == {"confirm", "decide", "live", "drain", "over"}
Convinced == {"decide", "live", "drain", "over"}

\* What must have happened for a frame of the host to be under way.
TalkOK ==
    /\ \A f \in FromHost :
          /\ f.t = "reply" => pc.h \in Answering
          /\ f.t = "confirm" => knows /\ pc.h \in Convinced
          /\ (f.t = "abort" /\ ~counted) =>
                 /\ \A g \in FromHost : g.t # "reply"
                 /\ pc.v # "confirm" /\ pc.h \in {"drain", "over"}
    /\ pc.v = "confirm" => pc.h \in Answering
    /\ pc.v \in Inside => knows /\ pc.h \in Convinced
    /\ reason.v = "wrongPassword" => counted

\* The permissions as the host says them last are those it grants, unless its frames do
\* not get through any more.
Tells(f) == f.t \in {"accepted", "perms"}
Quiet(q) == \A f \in Within(q) : ~Tells(f)
LastSays(q, p) == \A i \in 1..Len(q) :
    (Tells(q[i]) /\ (\A j \in 1..Len(q) : j > i => ~Tells(q[j]))) => q[i].p = p

Connected == /\ ~closed.v /\ pc.v # "over" /\ pc.h = "live"
             /\ link.h = "relay" => served
             /\ link.h = "direct" => \A f \in Within(net.direct.h) : f.t # "eof"

NewsOK ==
    Connected =>
      /\ LastSays(out.h, perms.h)
      /\ Quiet(out.h) => LastSays(net[link.h].h, perms.h)
      /\ Quiet(out.h) /\ Quiet(net[link.h].h) => LastSays(rx.v, perms.h)
      /\ (Quiet(out.h) /\ Quiet(net[link.h].h) /\ Quiet(rx.v) /\ pc.v = "live")
            => perms.v = perms.h

Inv == Shape /\ PlaceOK /\ FrameOK /\ TalkOK /\ NewsOK

-----------------------------------------------------------------------------
(* Sequences of frames *)

LEMMA WithinTail ==
    ASSUME NEW q \in Seq(Frame), q # <<>>
    PROVE  /\ Tail(q) \in Seq(Frame) /\ Head(q) \in Frame /\ Head(q) \in Within(q)
           /\ Within(Tail(q)) \subseteq Within(q)
           /\ Len(Tail(q)) = Len(q) - 1 /\ Len(q) \in Nat /\ Len(q) >= 1
           /\ \A i \in 1..Len(Tail(q)) : Tail(q)[i] = q[i + 1]
<1>1. /\ Tail(q) \in Seq(Frame) /\ Head(q) \in Frame /\ Head(q) = q[1]
      /\ Len(Tail(q)) = Len(q) - 1 /\ Len(q) \in Nat /\ Len(q) >= 1
      /\ \A i \in 1..Len(Tail(q)) : Tail(q)[i] = q[i + 1]
  BY HeadTailProperties, EmptySeq, LenProperties
<1>2. Head(q) \in Within(q)
  BY <1>1 DEF Within
<1>3. ASSUME NEW i \in 1..Len(Tail(q))  PROVE Tail(q)[i] \in Within(q)
  BY <1>1 DEF Within
<1>. QED  BY <1>1, <1>2, <1>3 DEF Within

LEMMA WithinSplit ==
    ASSUME NEW q \in Seq(Frame), q # <<>>
    PROVE  Within(q) \subseteq {Head(q)} \cup Within(Tail(q))
<1>1. /\ Head(q) = q[1] /\ Len(q) \in Nat /\ Len(Tail(q)) = Len(q) - 1
      /\ \A i \in 1..Len(Tail(q)) : Tail(q)[i] = q[i + 1]
  BY HeadTailProperties, WithinTail
<1>2. ASSUME NEW i \in 1..Len(q)  PROVE q[i] = Head(q) \/ q[i] \in Within(Tail(q))
  <2>1. CASE i = 1
    BY <1>1, <2>1
  <2>2. CASE i > 1
    <3>1. (i - 1) \in 1..Len(Tail(q)) /\ Tail(q)[i - 1] = q[i]
      BY <1>1, <2>2
    <3>. QED  BY <3>1 DEF Within
  <2>. QED  BY <1>1, <2>1, <2>2
<1>. QED  BY <1>2 DEF Within

LEMMA WithinConcat ==
    ASSUME NEW q \in Seq(Frame), NEW r \in Seq(Frame)
    PROVE  q \o r \in Seq(Frame) /\ Within(q \o r) = Within(q) \cup Within(r)
<1>1. /\ q \o r \in Seq(Frame) /\ Len(q \o r) = Len(q) + Len(r)
      /\ Len(q) \in Nat /\ Len(r) \in Nat
      /\ \A i \in 1..(Len(q) + Len(r)) : (q \o r)[i] = IF i <= Len(q) THEN q[i] ELSE r[i - Len(q)]
  BY ConcatProperties, LenProperties
<1>2. ASSUME NEW f \in Within(q)  PROVE f \in Within(q \o r)
  <2>1. PICK i \in 1..Len(q) : f = q[i]
    BY DEF Within
  <2>2. i \in 1..Len(q \o r) /\ (q \o r)[i] = f
    BY <1>1, <2>1
  <2>. QED  BY <2>2 DEF Within
<1>3. ASSUME NEW f \in Within(r)  PROVE f \in Within(q \o r)
  <2>1. PICK i \in 1..Len(r) : f = r[i]
    BY DEF Within
  <2>2. (Len(q) + i) \in 1..Len(q \o r) /\ (q \o r)[Len(q) + i] = f
    BY <1>1, <2>1
  <2>. QED  BY <2>2 DEF Within
<1>4. ASSUME NEW f \in Within(q \o r)  PROVE f \in Within(q) \cup Within(r)
  <2>1. PICK i \in 1..Len(q \o r) : f = (q \o r)[i]
    BY DEF Within
  <2>2. CASE i <= Len(q)
    BY <1>1, <2>1, <2>2 DEF Within
  <2>3. CASE i > Len(q)
    <3>1. (i - Len(q)) \in 1..Len(r) /\ f = r[i - Len(q)]
      BY <1>1, <2>1, <2>3
    <3>. QED  BY <3>1 DEF Within
  <2>. QED  BY <1>1, <2>1, <2>2, <2>3
<1>. QED  BY <1>1, <1>2, <1>3, <1>4

LEMMA WithinOne ==
    ASSUME NEW f
    PROVE  Within(<<f>>) = {f}
<1>1. Len(<<f>>) = 1 /\ <<f>>[1] = f
  OBVIOUS
<1>. QED  BY <1>1 DEF Within

LEMMA WithinNone == Within(<<>>) = {}
<1>1. Len(<<>>) = 0
  OBVIOUS
<1>. QED  BY <1>1 DEF Within

\* What is sent after it does not ask again.
LEMMA AsksNoMore ==
    ASSUME NEW q \in Seq(Frame), NEW f \in Frame, f.t # "preamble",
           q # <<>> => ~Asks(Tail(q))
    PROVE  /\ q \o <<f>> \in Seq(Frame) /\ q \o <<f>> # <<>> /\ ~Asks(Tail(q \o <<f>>))
           /\ Asks(q \o <<f>>) => Asks(q)
<1>. DEFINE r == q \o <<f>>
<1>1. <<f>> \in Seq(Frame)
  OBVIOUS
<1>2. r \in Seq(Frame) /\ Within(r) = Within(q) \cup {f} /\ r # <<>>
  <2>1. r \in Seq(Frame) /\ Within(r) = Within(q) \cup Within(<<f>>)
    BY <1>1, WithinConcat
  <2>2. Within(r) = Within(q) \cup {f}
    BY <2>1, WithinOne
  <2>. QED  BY <2>1, <2>2, WithinNone
<1>3. \A i \in 1..Len(Tail(r)) : Tail(r)[i].t # "preamble"
  <2>1. /\ Len(r) = Len(q) + 1 /\ Len(q) \in Nat /\ Len(Tail(r)) = Len(q)
        /\ \A i \in 1..Len(Tail(r)) : Tail(r)[i] = r[i + 1]
    <3>1. Len(r) = Len(q) + 1 /\ Len(q) \in Nat
      BY <1>1
    <3>2. Len(Tail(r)) = Len(r) - 1 /\ \A i \in 1..Len(Tail(r)) : Tail(r)[i] = r[i + 1]
      BY <1>2, WithinTail
    <3>. QED  BY <3>1, <3>2
  <2>2. \A i \in 1..Len(q) : r[i] = q[i]
    BY <1>1
  <2>3. r[Len(q) + 1] = f
    BY <1>1
  <2>. HIDE DEF r
  <2>4. ASSUME NEW i \in 1..Len(Tail(r))  PROVE Tail(r)[i].t # "preamble"
    <3>1. CASE i = Len(q)
      BY <2>1, <2>3, <3>1
    <3>2. CASE i < Len(q)
      <4>1. q # <<>> /\ (i + 1) \in 1..Len(q) /\ Tail(r)[i] = q[i + 1]
        BY <2>1, <2>2, <3>2
      <4>2. i \in 1..Len(Tail(q)) /\ Tail(q)[i] = q[i + 1]
        BY <2>1, <3>2, <4>1, WithinTail
      <4>3. q[i + 1] \in Within(Tail(q))
        BY <4>2 DEF Within
      <4>. QED  BY <4>1, <4>3 DEF Asks
    <3>. QED  BY <2>1, <3>1, <3>2
  <2>. QED  BY <2>4
<1>4. ~Asks(Tail(r))
  BY <1>3 DEF Asks, Within
<1>5. Asks(r) => Asks(q)
  BY <1>2 DEF Asks
<1>. QED  BY <1>2, <1>4, <1>5

\* A frame is taken from the front.
LEMMA SaysTail ==
    ASSUME NEW q \in Seq(Frame), q # <<>>, NEW p
    PROVE  /\ LastSays(q, p) => LastSays(Tail(q), p)
           /\ Quiet(q) <=> ~Tells(Head(q)) /\ Quiet(Tail(q))
           /\ LastSays(q, p) /\ Tells(Head(q)) /\ Quiet(Tail(q)) => Head(q).p = p
<1>1. /\ Len(q) \in Nat /\ Len(q) >= 1 /\ Head(q) = q[1]
      /\ Len(Tail(q)) = Len(q) - 1
      /\ \A i \in 1..Len(Tail(q)) : Tail(q)[i] = q[i + 1]
  BY WithinTail, HeadTailProperties
<1>2. ASSUME LastSays(q, p), NEW i \in 1..Len(Tail(q)), Tells(Tail(q)[i]),
             \A j \in 1..Len(Tail(q)) : j > i => ~Tells(Tail(q)[j])
      PROVE  Tail(q)[i].p = p
  <2>1. (i + 1) \in 1..Len(q) /\ Tells(q[i + 1])
    BY <1>1, <1>2
  <2>2. ASSUME NEW j \in 1..Len(q), j > i + 1  PROVE ~Tells(q[j])
    <3>1. (j - 1) \in 1..Len(Tail(q)) /\ j - 1 > i /\ Tail(q)[j - 1] = q[j]
      BY <1>1, <2>2
    <3>. QED  BY <1>2, <3>1
  <2>3. q[i + 1].p = p
    BY <1>2, <2>1, <2>2 DEF LastSays
  <2>. QED  BY <1>1, <2>3
<1>3. Quiet(q) => ~Tells(Head(q)) /\ Quiet(Tail(q))
  BY WithinTail DEF Quiet
<1>4. ASSUME ~Tells(Head(q)), Quiet(Tail(q)), NEW f \in Within(q)  PROVE ~Tells(f)
  <2>1. PICK i \in 1..Len(q) : f = q[i]
    BY DEF Within
  <2>2. CASE i = 1
    BY <1>1, <1>4, <2>1, <2>2
  <2>3. CASE i > 1
    <3>1. (i - 1) \in 1..Len(Tail(q)) /\ Tail(q)[i - 1] = f
      BY <1>1, <2>1, <2>3
    <3>. QED  BY <1>4, <3>1 DEF Quiet, Within
  <2>. QED  BY <1>1, <2>2, <2>3
<1>5. ASSUME LastSays(q, p), Tells(Head(q)), Quiet(Tail(q))  PROVE Head(q).p = p
  <2>1. ASSUME NEW j \in 1..Len(q), j > 1  PROVE ~Tells(q[j])
    <3>1. (j - 1) \in 1..Len(Tail(q)) /\ Tail(q)[j - 1] = q[j]
      BY <1>1, <2>1
    <3>. QED  BY <1>5, <3>1 DEF Quiet, Within
  <2>. QED  BY <1>1, <1>5, <2>1 DEF LastSays
<1>6. LastSays(q, p) => LastSays(Tail(q), p)
  BY <1>2 DEF LastSays
<1>7. ~Tells(Head(q)) /\ Quiet(Tail(q)) => Quiet(q)
  BY <1>4 DEF Quiet
<1>. QED  BY <1>3, <1>5, <1>6, <1>7

\* A frame is put behind the others.
LEMMA SaysMore ==
    ASSUME NEW q \in Seq(Frame), NEW f \in Frame, NEW p
    PROVE  /\ q \o <<f>> \in Seq(Frame)
           /\ Tells(f) /\ f.p = p => LastSays(q \o <<f>>, p)
           /\ ~Tells(f) /\ LastSays(q, p) => LastSays(q \o <<f>>, p)
           /\ Quiet(q \o <<f>>) <=> Quiet(q) /\ ~Tells(f)
<1>. DEFINE r == q \o <<f>>
<1>1. /\ r \in Seq(Frame) /\ Len(r) = Len(q) + 1 /\ Len(q) \in Nat
      /\ r[Len(q) + 1] = f /\ \A i \in 1..Len(q) : r[i] = q[i]
  <2>1. PICK e \in Seq(Frame) : e = <<f>> /\ Len(e) = 1 /\ e[1] = f
    <3>1. <<f>> \in Seq(Frame) /\ Len(<<f>>) = 1 /\ <<f>>[1] = f
      OBVIOUS
    <3>. QED  BY <3>1
  <2>2. /\ q \o e \in Seq(Frame) /\ Len(q \o e) = Len(q) + Len(e)
        /\ \A i \in 1..(Len(q) + Len(e)) : (q \o e)[i] = IF i <= Len(q) THEN q[i] ELSE e[i - Len(q)]
    BY ConcatProperties
  <2>3. Len(q) \in Nat
    BY LenProperties
  <2>4. (Len(q) + 1) \in 1..(Len(q) + Len(e)) /\ ~(Len(q) + 1 <= Len(q)) /\ Len(q) + 1 - Len(q) = 1
    BY <2>1, <2>3
  <2>5. (q \o e)[Len(q) + 1] = f
    BY <2>1, <2>2, <2>4
  <2>6. \A i \in 1..Len(q) : (q \o e)[i] = q[i]
    BY <2>1, <2>2, <2>3
  <2>7. r = q \o e
    BY <2>1
  <2>8. r \in Seq(Frame) /\ Len(r) = Len(q) + 1
    BY <2>1, <2>2, <2>7
  <2>9. r[Len(q) + 1] = f /\ \A i \in 1..Len(q) : r[i] = q[i]
    BY <2>5, <2>6, <2>7
  <2>. HIDE DEF r
  <2>. QED  BY <2>3, <2>8, <2>9
<1>2. Within(r) = Within(q) \cup {f}
  <2>1. <<f>> \in Seq(Frame)
    OBVIOUS
  <2>. QED  BY <2>1, WithinConcat, WithinOne
<1>3. Quiet(r) <=> Quiet(q) /\ ~Tells(f)
  BY <1>2 DEF Quiet
<1>. HIDE DEF r
<1>4. ASSUME Tells(f), f.p = p, NEW i \in 1..Len(r), Tells(r[i]),
             \A j \in 1..Len(r) : j > i => ~Tells(r[j])
      PROVE  r[i].p = p
  <2>1. ~(i < Len(q) + 1)
    BY <1>1, <1>4
  <2>2. i = Len(q) + 1
    BY <1>1, <2>1
  <2>. QED  BY <1>1, <1>4, <2>2
<1>5. ASSUME ~Tells(f), LastSays(q, p), NEW i \in 1..Len(r), Tells(r[i]),
             \A j \in 1..Len(r) : j > i => ~Tells(r[j])
      PROVE  r[i].p = p
  <2>1. i \in 1..Len(q)
    BY <1>1, <1>5
  <2>2. \A j \in 1..Len(q) : j > i => ~Tells(q[j])
    BY <1>1, <1>5, <2>1
  <2>. QED  BY <1>1, <1>5, <2>1, <2>2 DEF LastSays
<1>6. ASSUME Tells(f), f.p = p  PROVE LastSays(r, p)
  BY <1>4, <1>6 DEF LastSays
<1>7. ASSUME ~Tells(f), LastSays(q, p)  PROVE LastSays(r, p)
  BY <1>5, <1>7 DEF LastSays
<1>. QED  BY <1>1, <1>3, <1>6, <1>7 DEF r

LEMMA SaysNothing ==
    ASSUME NEW p
    PROVE  LastSays(<<>>, p) /\ Quiet(<<>>)
<1>1. Len(<<>>) = 0
  OBVIOUS
<1>. QED  BY <1>1, WithinNone DEF LastSays, Quiet

-----------------------------------------------------------------------------
(* What the operators of the module do to the variables *)

LEMMA SidesAre == Sides = {"v", "h"} /\ Other("v") = "h" /\ Other("h") = "v"
BY DEF Sides, Other

LEMMA PutDoes ==
    ASSUME Shape, NEW s \in Sides, NEW fs \in Seq(Frame), Put(s, fs)
    PROVE  /\ out' \in [Sides -> Seq(Frame)]
           /\ out'[s] = out[s] \o fs /\ Within(out'[s]) = Within(out[s]) \cup Within(fs)
           /\ \A t \in Sides \ {s} : out'[t] = out[t]
<1>1. out[s] \in Seq(Frame) /\ out[s] \o fs \in Seq(Frame)
  BY WithinConcat DEF Shape
<1>2. out' \in [Sides -> Seq(Frame)] /\ out'[s] = out[s] \o fs
  BY <1>1 DEF Shape, Put
<1>. QED  BY <1>1, <1>2, WithinConcat DEF Shape, Put

LEMMA TravelDoes ==
    ASSUME Shape, NEW k \in Links, NEW s \in Sides, NEW fs \in Seq(Frame), Travel(k, s, fs)
    PROVE  /\ net' \in [Links -> [Sides -> Seq(Frame)]]
           /\ net'[k][s] = net[k][s] \o fs
           /\ Within(net'[k][s]) = Within(net[k][s]) \cup Within(fs)
           /\ \A j \in Links, t \in Sides : j # k \/ t # s => net'[j][t] = net[j][t]
<1>1. net[k] \in [Sides -> Seq(Frame)] /\ net[k][s] \in Seq(Frame)
  BY DEF Shape
<1>2. net[k][s] \o fs \in Seq(Frame) /\ Within(net[k][s] \o fs) = Within(net[k][s]) \cup Within(fs)
  BY <1>1, WithinConcat
<1>3. net' = [net EXCEPT ![k] = [net[k] EXCEPT ![s] = net[k][s] \o fs]]
  BY DEF Travel
<1>4. [net[k] EXCEPT ![s] = net[k][s] \o fs] \in [Sides -> Seq(Frame)]
  BY <1>1, <1>2
<1>. QED  BY <1>1, <1>2, <1>3, <1>4 DEF Shape

LEMMA GotDoes ==
    ASSUME Shape, NEW s \in Sides, NEW m, Got(s, m)
    PROVE  /\ rx[s] # <<>> /\ Head(rx[s]) \in Within(rx[s]) /\ Head(rx[s]).t = m
           /\ Head(rx[s]) \in Frame
           /\ rx' \in [Sides -> Seq(Frame)] /\ rx'[s] = Tail(rx[s])
           /\ Within(rx'[s]) \subseteq Within(rx[s])
           /\ \A t \in Sides \ {s} : rx'[t] = rx[t]
<1>1. rx[s] \in Seq(Frame) /\ rx[s] # <<>>
  BY DEF Shape, Got
<1>2. /\ Tail(rx[s]) \in Seq(Frame) /\ Head(rx[s]) \in Within(rx[s]) /\ Head(rx[s]) \in Frame
      /\ Within(Tail(rx[s])) \subseteq Within(rx[s])
  BY <1>1, WithinTail
<1>. QED  BY <1>1, <1>2 DEF Shape, Got

LEMMA GotoDoes ==
    ASSUME Shape, NEW s \in Sides, NEW p \in Places, Goto(s, p)
    PROVE  /\ pc' \in [Sides -> Places] /\ pc'[s] = p
           /\ \A t \in Sides \ {s} : pc'[t] = pc[t]
BY DEF Shape, Goto

LEMMA CutDoes ==
    ASSUME Shape, NEW t \in Sides, NEW k \in Links, Cut(t, k)
    PROVE  /\ closed' \in [Sides -> BOOLEAN] /\ \A x \in Sides : closed[x] => closed'[x]
           /\ link[t] = k => closed'[t]
<1>. DEFINE c == closed[t] \/ link[t] = k \/ (k = "relay" /\ pc[t] = "await" /\ route[t])
<1>1. closed \in [Sides -> BOOLEAN] /\ closed' = [closed EXCEPT ![t] = c]
  BY DEF Shape, Cut
<1>2. /\ closed[t] => c
      /\ link[t] = k => c
  OBVIOUS
<1>3. c \in BOOLEAN
  BY <1>1 DEF Shape
<1>. HIDE DEF c
<1>. QED  BY <1>1, <1>2, <1>3

LEMMA FrameIs ==
    /\ \A t \in Kinds : F(t) \in Frame /\ F(t).t = t /\ <<F(t)>> \in Seq(Frame)
    /\ \A t \in Kinds, p \in Rights :
          FP(t, p) \in Frame /\ FP(t, p).t = t /\ FP(t, p).p = p /\ <<FP(t, p)>> \in Seq(Frame)
<1>1. ASSUME NEW t \in Kinds  PROVE F(t) \in Frame /\ F(t).t = t
  BY DEF F, Frame
<1>2. ASSUME NEW t \in Kinds, NEW p \in Rights
      PROVE  FP(t, p) \in Frame /\ FP(t, p).t = t /\ FP(t, p).p = p
  BY DEF FP, Frame
<1>3. ASSUME NEW f \in Frame  PROVE <<f>> \in Seq(Frame)
  OBVIOUS
<1>. QED  BY <1>1, <1>2, <1>3

-----------------------------------------------------------------------------
(* What keeps each part of the invariant *)

\* Links are chosen once, and a frame is sent over the link of its side and received by
\* a side that uses the same.
LEMMA FrameStep ==
    ASSUME Shape, Shape', FrameOK,
           \A s \in Sides : link[s] # "none" => link'[s] = link[s],
           \A s \in Sides : link'[s] = "none" => out'[s] = out[s] \/ out'[s] = <<>>,
           \A k \in Links, s \in Sides : \A f \in Within(net'[k][s]) :
               f \in Within(net[k][s]) \/ f.t \notin Spoken \/ link'[s] = k,
           \A f \in Within(rx'.v) : f \in Within(rx.v) \/ f.t \notin Spoken \/ Met',
           rx'.h # <<>> => \/ rx.h # <<>> /\ (link.h # "none" \/ link'.h \in {"none", "relay"})
                           \/ Met' \/ (link'.h = "none" /\ link'.v = "relay"),
           \A f \in Within(rx'.h) : f \in Within(rx.h) \/ f.t \in Spoken,
           \A k \in Links : \A f \in Within(net'[k].v) :
               f \in Within(net[k].v) \/ f \in Within(out.v) \/ f.t # "ack",
           \A f \in Within(out'.v) : f \in Within(out.v) \/ f.t \notin {"ack", "preamble"}
    PROVE  FrameOK'
<1>1. Met => Met'
  BY SidesAre DEF Met
<1>2. ASSUME NEW s \in Sides, link'[s] = "none"  PROVE out'[s] = <<>>
  BY <1>2 DEF FrameOK
<1>3. ASSUME NEW k \in Links, NEW s \in Sides, NEW f \in Within(net'[k][s]), f.t \in Spoken
      PROVE  link'[s] = k
  <2>1. CASE f \in Within(net[k][s])
    <3>1. link[s] = k /\ k # "none"
      BY <1>3, <2>1 DEF FrameOK, Links
    <3>. QED  BY <3>1
  <2>. QED  BY <1>3, <2>1
<1>4. ASSUME NEW f \in Within(rx'.v), f.t \in Spoken  PROVE Met'
  BY <1>1, <1>4 DEF FrameOK
<1>5. ASSUME rx'.h # <<>>  PROVE (Met \/ (link.h = "none" /\ link.v = "relay"))'
  <2>1. CASE rx.h # <<>> /\ (link.h # "none" \/ link'.h \in {"none", "relay"})
    <3>1. Met \/ (link.h = "none" /\ link.v = "relay")
      BY <2>1 DEF FrameOK
    <3>2. CASE link.h = "none" /\ link.v = "relay"
      <4>1. link'.v = "relay" /\ link'.h \in {"none", "relay"}
        BY <2>1, <3>2, SidesAre
      <4>. QED  BY <4>1 DEF Met
    <3>. QED  BY <1>1, <3>1, <3>2
  <2>. QED  BY <1>5, <2>1
<1>6. \A f \in Within(rx'.h) : f.t \in Spoken
  BY DEF FrameOK
<1>7. /\ \A k \in Links : \A f \in Within(net'[k].v) : f.t # "ack"
      /\ \A f \in Within(out'.v) : f.t \notin {"ack", "preamble"}
  BY DEF FrameOK
<1>. QED  BY <1>2, <1>3, <1>4, <1>5, <1>6, <1>7 DEF FrameOK

\* Neither side gets on in the handshake, and the host says nothing of it.
LEMMA TalkStep ==
    ASSUME TalkOK,
           \A f \in FromHost' : f \in FromHost \/ f.t \notin {"reply", "confirm", "abort"},
           knows' = knows, counted => counted',
           pc.h \in Answering => pc'.h \in Answering,
           pc.h \in Convinced => pc'.h \in Convinced,
           pc.h \in {"drain", "over"} => pc'.h \in {"drain", "over"},
           pc'.v = "confirm" => pc.v = "confirm",
           pc'.v \in Inside => pc.v \in Inside,
           reason'.v = "wrongPassword" => reason.v = "wrongPassword" \/ counted
    PROVE  TalkOK'
<1>1. ASSUME NEW f \in FromHost', f.t = "reply"  PROVE pc'.h \in Answering
  BY <1>1 DEF TalkOK
<1>2. ASSUME NEW f \in FromHost', f.t = "confirm"  PROVE knows' /\ pc'.h \in Convinced
  BY <1>2 DEF TalkOK
<1>3. ASSUME NEW f \in FromHost', f.t = "abort", ~counted'
      PROVE  /\ \A g \in FromHost' : g.t # "reply"
             /\ pc'.v # "confirm" /\ pc'.h \in {"drain", "over"}
  BY <1>3 DEF TalkOK
<1>4. pc'.v = "confirm" => pc'.h \in Answering
  BY DEF TalkOK
<1>5. pc'.v \in Inside => knows' /\ pc'.h \in Convinced
  BY DEF TalkOK
<1>6. reason'.v = "wrongPassword" => counted'
  BY DEF TalkOK
<1>. QED  BY <1>1, <1>2, <1>3, <1>4, <1>5, <1>6 DEF TalkOK

LEMMA NewsCut ==
    ASSUME ~Connected'
    PROVE  NewsOK'
BY DEF NewsOK

\* Nothing happens between the host and the viewer.
LEMMA NewsStep ==
    ASSUME NewsOK, Connected' => Connected, link'.h = link.h, perms' = perms,
           out'.h = out.h, rx'.v = rx.v, net'[link.h].h = net[link.h].h,
           pc'.v = "live" => pc.v = "live"
    PROVE  NewsOK'
BY DEF NewsOK

\* The viewer takes a frame that says nothing of the permissions.
LEMMA NewsHeard ==
    ASSUME Shape, NewsOK, Connected' => Connected, link'.h = link.h, perms' = perms,
           out'.h = out.h, net'[link.h].h = net[link.h].h,
           rx.v # <<>>, rx'.v = Tail(rx.v), ~Tells(Head(rx.v)),
           pc'.v = "live" => pc.v = "live"
    PROVE  NewsOK'
<1>1. rx.v \in Seq(Frame)
  BY SidesAre DEF Shape
<1>2. /\ LastSays(rx.v, perms.h) => LastSays(Tail(rx.v), perms.h)
      /\ Quiet(rx.v) <=> Quiet(Tail(rx.v))
  BY <1>1, SaysTail
<1>. QED  BY <1>2 DEF NewsOK

\* The viewer takes one that does.
LEMMA NewsTaken ==
    ASSUME Shape, NewsOK, Connected' => Connected, link'.h = link.h, perms'.h = perms.h,
           out'.h = out.h, net'[link.h].h = net[link.h].h,
           rx.v # <<>>, rx'.v = Tail(rx.v), Tells(Head(rx.v)), perms'.v = Head(rx.v).p
    PROVE  NewsOK'
<1>1. rx.v \in Seq(Frame)
  BY SidesAre DEF Shape
<1>2. /\ LastSays(rx.v, perms.h) => LastSays(Tail(rx.v), perms.h)
      /\ LastSays(rx.v, perms.h) /\ Quiet(Tail(rx.v)) => Head(rx.v).p = perms.h
  BY <1>1, SaysTail
<1>. QED  BY <1>2 DEF NewsOK

\* The host says something: what its permissions are, or something else.
LEMMA NewsSaid ==
    ASSUME Shape, NewsOK, NEW f \in Frame, link'.h = link.h, net' = net, rx'.v = rx.v,
           out'.h = out.h \o <<f>>,
           \/ Tells(f) /\ f.p = perms'.h
           \/ ~Tells(f) /\ perms' = perms /\ (Connected' => Connected) /\ pc'.v = pc.v
    PROVE  NewsOK'
<1>1. out.h \in Seq(Frame)
  BY SidesAre DEF Shape
<1>2. /\ Tells(f) /\ f.p = perms'.h => LastSays(out'.h, perms'.h)
      /\ ~Tells(f) /\ LastSays(out.h, perms.h) => LastSays(out'.h, perms.h)
      /\ Quiet(out'.h) <=> Quiet(out.h) /\ ~Tells(f)
  BY <1>1, SaysMore
<1>3. CASE Tells(f) /\ f.p = perms'.h
  BY <1>2, <1>3 DEF NewsOK
<1>4. CASE ~Tells(f) /\ perms' = perms /\ (Connected' => Connected) /\ pc'.v = pc.v
  BY <1>2, <1>4 DEF NewsOK
<1>. QED  BY <1>3, <1>4

\* A frame of the host goes from its queue to the network, and from there to the viewer.
LEMMA NewsSent ==
    ASSUME Shape, NewsOK, Connected' => Connected, link'.h = link.h, perms' = perms,
           pc'.v = pc.v, rx'.v = rx.v, link.h \in Links,
           out.h # <<>>, out'.h = Tail(out.h),
           net'[link.h].h = net[link.h].h \o <<Head(out.h)>>
    PROVE  NewsOK'
<1>1. out.h \in Seq(Frame) /\ net[link.h].h \in Seq(Frame) /\ Head(out.h) \in Frame
  BY SidesAre, WithinTail DEF Shape
<1>2. /\ LastSays(out.h, perms.h) => LastSays(Tail(out.h), perms.h)
      /\ Quiet(out.h) <=> ~Tells(Head(out.h)) /\ Quiet(Tail(out.h))
      /\ LastSays(out.h, perms.h) /\ Tells(Head(out.h)) /\ Quiet(Tail(out.h))
            => Head(out.h).p = perms.h
  BY <1>1, SaysTail
<1>3. LET r == net[link.h].h \o <<Head(out.h)>> IN
      /\ Tells(Head(out.h)) /\ Head(out.h).p = perms.h => LastSays(r, perms.h)
      /\ ~Tells(Head(out.h)) /\ LastSays(net[link.h].h, perms.h) => LastSays(r, perms.h)
      /\ Quiet(r) <=> Quiet(net[link.h].h) /\ ~Tells(Head(out.h))
  BY <1>1, SaysMore
<1>. QED  BY <1>2, <1>3 DEF NewsOK

LEMMA NewsArrived ==
    ASSUME Shape, NewsOK, Connected' => Connected, link'.h = link.h, perms' = perms,
           pc'.v = pc.v, out'.h = out.h, link.h \in Links,
           net[link.h].h # <<>>, net'[link.h].h = Tail(net[link.h].h),
           rx'.v = rx.v \o <<Head(net[link.h].h)>>
    PROVE  NewsOK'
<1>. DEFINE n == net[link.h].h
<1>1. n \in Seq(Frame) /\ rx.v \in Seq(Frame) /\ Head(n) \in Frame
  BY SidesAre, WithinTail DEF Shape
<1>2. /\ LastSays(n, perms.h) => LastSays(Tail(n), perms.h)
      /\ Quiet(n) <=> ~Tells(Head(n)) /\ Quiet(Tail(n))
      /\ LastSays(n, perms.h) /\ Tells(Head(n)) /\ Quiet(Tail(n)) => Head(n).p = perms.h
  BY <1>1, SaysTail
<1>3. /\ Tells(Head(n)) /\ Head(n).p = perms.h => LastSays(rx.v \o <<Head(n)>>, perms.h)
      /\ ~Tells(Head(n)) /\ LastSays(rx.v, perms.h) => LastSays(rx.v \o <<Head(n)>>, perms.h)
      /\ Quiet(rx.v \o <<Head(n)>>) <=> Quiet(rx.v) /\ ~Tells(Head(n))
  BY <1>1, SaysMore
<1>. QED  BY <1>2, <1>3 DEF NewsOK

-----------------------------------------------------------------------------
(* The end of one side *)

\* Whatever a side ends with, a goodbye, the end of its stream or nothing.
Farewells == {<<>>, <<F("eof")>>, <<F("bye")>>, <<F("bye")>> \o <<F("eof")>>}

LEMMA FarewellIs ==
    ASSUME NEW fs \in Farewells
    PROVE  fs \in Seq(Frame) /\ \A f \in Within(fs) : f.t \in {"bye", "eof"}
<1>1. /\ F("eof") \in Frame /\ F("bye") \in Frame /\ F("eof").t = "eof" /\ F("bye").t = "bye"
  BY FrameIs DEF Kinds, Spoken
<1>2. fs \in Seq(Frame)
  <2>1. <<>> \in Seq(Frame)
    OBVIOUS
  <2>2. <<F("eof")>> \in Seq(Frame) /\ <<F("bye")>> \in Seq(Frame)
    BY FrameIs DEF Kinds, Spoken
  <2>3. <<F("bye")>> \o <<F("eof")>> \in Seq(Frame)
    BY <2>2, WithinConcat
  <2>. QED  BY <2>1, <2>2, <2>3 DEF Farewells
<1>3. Within(fs) \subseteq {F("bye"), F("eof")}
  <2>1. <<F("eof")>> \in Seq(Frame) /\ <<F("bye")>> \in Seq(Frame)
    BY FrameIs DEF Kinds, Spoken
  <2>2. Within(<<F("bye")>> \o <<F("eof")>>) = {F("bye")} \cup {F("eof")}
    BY <2>1, WithinConcat, WithinOne
  <2>. QED  BY <2>2, WithinNone, WithinOne DEF Farewells
<1>. QED  BY <1>1, <1>2, <1>3

LEMMA EndKeeps ==
    ASSUME Inv, NEW s \in Sides, NEW why \in Reasons \ {"none"}, Over(s, why),
           NEW fs \in Farewells, Put(s, fs), link[s] = "none" => fs = <<>>,
           UNCHANGED <<link, closed, served, knows, perms>>,
           rx' = rx \/ (\E m \in Spoken : Got(s, m)),
           counted => counted', s = "v" /\ why = "wrongPassword" => counted
    PROVE  Inv'
<1>1. /\ fs \in Seq(Frame) /\ \A f \in Within(fs) : f.t \in {"bye", "eof"}
  BY FarewellIs
<1>2. /\ out' \in [Sides -> Seq(Frame)]
      /\ out'[s] = out[s] \o fs /\ Within(out'[s]) = Within(out[s]) \cup Within(fs)
      /\ \A t \in Sides \ {s} : out'[t] = out[t]
  BY <1>1, PutDoes DEF Inv
<1>3. /\ net' \in [Links -> [Sides -> Seq(Frame)]]
      /\ Within(net'.relay[s]) = Within(net.relay[s]) \cup {F("end")}
      /\ \A j \in Links, t \in Sides : j # "relay" \/ t # s => net'[j][t] = net[j][t]
      /\ F("end").t = "end"
  <2>1. "relay" \in Links /\ "end" \in Kinds
    BY DEF Links, Kinds
  <2>2. <<F("end")>> \in Seq(Frame) /\ F("end").t = "end" /\ Travel("relay", s, <<F("end")>>)
    BY <2>1, FrameIs DEF Over, EndSession
  <2>3. /\ net' \in [Links -> [Sides -> Seq(Frame)]]
        /\ Within(net'.relay[s]) = Within(net.relay[s]) \cup Within(<<F("end")>>)
        /\ \A j \in Links, t \in Sides : j # "relay" \/ t # s => net'[j][t] = net[j][t]
    <3>1. PICK e \in Seq(Frame) : e = <<F("end")>>
      BY <2>2
    <3>2. PICK k \in Links : k = "relay"
      BY <2>1
    <3>3. Shape /\ Travel(k, s, e)
      BY <2>2, <3>1, <3>2 DEF Inv
    <3>4. /\ net' \in [Links -> [Sides -> Seq(Frame)]]
          /\ Within(net'[k][s]) = Within(net[k][s]) \cup Within(e)
          /\ \A j \in Links, t \in Sides : j # k \/ t # s => net'[j][t] = net[j][t]
      BY <3>3, TravelDoes
    <3>. QED  BY <3>1, <3>2, <3>4
  <2>. QED  BY <2>2, <2>3, WithinOne
<1>4. /\ pc' \in [Sides -> Places] /\ pc'[s] = "over" /\ \A t \in Sides \ {s} : pc'[t] = pc[t]
  BY GotoDoes DEF Inv, Over, Places
<1>5. /\ rx' \in [Sides -> Seq(Frame)]
      /\ rx[s] = <<>> => rx'[s] = <<>>
      /\ \A t \in Sides : Within(rx'[t]) \subseteq Within(rx[t])
      /\ \A t \in Sides \ {s} : rx'[t] = rx[t]
  <2>1. ASSUME rx' = rx
        PROVE  /\ rx' \in [Sides -> Seq(Frame)]
               /\ \A t \in Sides : rx'[t] = rx[t]
    BY <2>1 DEF Inv, Shape
  <2>2. ASSUME NEW m \in Spoken, Got(s, m)
        PROVE  /\ rx' \in [Sides -> Seq(Frame)] /\ rx[s] # <<>>
               /\ Within(rx'[s]) \subseteq Within(rx[s])
               /\ \A t \in Sides \ {s} : rx'[t] = rx[t]
    BY <2>2, GotDoes DEF Inv
  <2>3. CASE rx' = rx
    BY <2>1, <2>3
  <2>4. CASE \E m \in Spoken : Got(s, m)
    BY <2>2, <2>4
  <2>. QED  BY <2>3, <2>4
<1>6. reason' \in [Sides -> Reasons] /\ reason'[s] = why /\ \A t \in Sides \ {s} : reason'[t] = reason[t]
  BY DEF Inv, Shape, Over
<1>7. route' \in [Sides -> BOOLEAN] /\ \A t \in Sides \ {s} : route'[t] = route[t]
  BY DEF Inv, Shape, Over
<1>8. Shape'
  <2>1. /\ link' \in [Sides -> Links \cup {"none"}] /\ closed' \in [Sides -> BOOLEAN]
        /\ perms' \in [Sides -> Rights \cup {"none"}]
    BY DEF Inv, Shape
  <2>. QED  BY <1>2, <1>3, <1>4, <1>5, <1>6, <1>7, <2>1 DEF Shape
<1>9. PlaceOK'
  <2>1. net'.direct.v = net.direct.v
    BY <1>3, SidesAre DEF Links
  <2>2. /\ link.h = "relay" => link.v = "relay"
        /\ pc.v = "start" => net.direct.v = <<>> /\ link.h # "direct"
        /\ link.h = "direct" => ~Asks(net.direct.v)
        /\ net.direct.v # <<>> => ~Asks(Tail(net.direct.v))
    BY DEF Inv, PlaceOK
  <2>3. (/\ link.h = "relay" => link.v = "relay"
         /\ pc.v = "start" => net.direct.v = <<>> /\ link.h # "direct"
         /\ link.h = "direct" => ~Asks(net.direct.v)
         /\ net.direct.v # <<>> => ~Asks(Tail(net.direct.v)))'
    BY <1>4, <2>1, <2>2, SidesAre DEF Asks
  <2>. QED  BY <1>4, <1>7, <2>3, SidesAre DEF Inv, PlaceOK, Met
<1>10. FrameOK'
  <2>1. \A t \in Sides : link'[t] = "none" => out'[t] = out[t] \/ out'[t] = <<>>
    <3>1. ASSUME link[s] = "none"  PROVE out'[s] = out[s]
      <4>1. out[s] = <<>> /\ fs = <<>>
        BY <3>1 DEF Inv, FrameOK
      <4>. QED  BY <1>2, <4>1
    <3>. QED  BY <1>2, <3>1
  <2>2. \A k \in Links, t \in Sides : \A f \in Within(net'[k][t]) :
           f \in Within(net[k][t]) \/ f.t = "end"
    BY <1>3
  <2>3. \A t \in Sides : \A f \in Within(out'[t]) : f \in Within(out[t]) \/ f.t \in {"bye", "eof"}
    BY <1>1, <1>2
  <2>4. rx.h = <<>> => rx'.h = <<>>
    <3>1. CASE s = "h"
      BY <1>5, <3>1
    <3>2. CASE s # "h"
      BY <1>5, <3>2, SidesAre
    <3>. QED  BY <3>1, <3>2
  <2>. QED  BY <1>5, <1>8, <2>1, <2>2, <2>3, <2>4, SidesAre, FrameStep DEF Inv, Spoken
<1>11. TalkOK'
  <2>1. \A f \in FromHost' : f \in FromHost \/ f.t \in {"bye", "eof", "end"}
    BY <1>1, <1>2, <1>3, <1>5, SidesAre DEF FromHost, Links
  <2>2. /\ pc.h \in Answering => pc'.h \in Answering
        /\ pc.h \in Convinced => pc'.h \in Convinced
        /\ pc.h \in {"drain", "over"} => pc'.h \in {"drain", "over"}
        /\ pc'.v = "confirm" => pc.v = "confirm"
        /\ pc'.v \in Inside => pc.v \in Inside
        /\ reason'.v = "wrongPassword" => reason.v = "wrongPassword" \/ counted
    BY <1>4, <1>6, SidesAre DEF Answering, Convinced, Inside
  <2>. QED  BY <2>1, <2>2, TalkStep DEF Inv
<1>12. NewsOK'
  BY <1>4, SidesAre, NewsCut DEF Connected
<1>. QED  BY <1>8, <1>9, <1>10, <1>11, <1>12 DEF Inv

-----------------------------------------------------------------------------
(* A side that reads a frame, or none, and says something, or nothing *)

LEMMA SpeakKeeps ==
    ASSUME Inv, NEW s \in Sides, pc[s] \notin {"start", "await", "dial", "over"},
           pc' \in [Sides -> Places], \A t \in Sides \ {s} : pc'[t] = pc[t],
           pc'[s] \notin {"start", "await", "dial", "over"},
           s = "h" /\ pc'.h \in {"confirm", "decide", "live"} => Met,
           s = "v" /\ pc'.v \in {"confirm", "approval", "live"} => Met,
           NEW fs \in Seq(Frame), \A f \in Within(fs) : f.t \in Spoken, Put(s, fs),
           UNCHANGED <<link, net, closed, route, served>>,
           rx' = rx \/ (\E m \in Spoken : Got(s, m)),
           perms' \in [Sides -> Rights \cup {"none"}], reason' \in [Sides -> Reasons]
    PROVE  /\ Shape' /\ PlaceOK' /\ FrameOK'
           /\ s = "v" => \A f \in FromHost' : f \in FromHost
           /\ s = "h" => \A f \in FromHost' : f \in FromHost \/ f \in Within(fs)
           /\ s = "v" => out'.h = out.h
           /\ s = "h" => out'.h = out.h \o fs /\ rx'.v = rx.v
           /\ pc'.h = pc.h => (Connected' => Connected)
<1>1. /\ out' \in [Sides -> Seq(Frame)]
      /\ out'[s] = out[s] \o fs /\ Within(out'[s]) = Within(out[s]) \cup Within(fs)
      /\ \A t \in Sides \ {s} : out'[t] = out[t]
  BY PutDoes DEF Inv
<1>2. /\ rx' \in [Sides -> Seq(Frame)]
      /\ \A t \in Sides : rx[t] = <<>> => rx'[t] = <<>>
      /\ \A t \in Sides : Within(rx'[t]) \subseteq Within(rx[t])
      /\ \A t \in Sides \ {s} : rx'[t] = rx[t]
  <2>1. ASSUME rx' = rx
        PROVE  /\ rx' \in [Sides -> Seq(Frame)]
               /\ \A t \in Sides : rx'[t] = rx[t]
    BY <2>1 DEF Inv, Shape
  <2>2. ASSUME NEW m \in Spoken, Got(s, m)
        PROVE  /\ rx' \in [Sides -> Seq(Frame)] /\ rx[s] # <<>>
               /\ Within(rx'[s]) \subseteq Within(rx[s])
               /\ \A t \in Sides \ {s} : rx'[t] = rx[t]
    BY <2>2, GotDoes DEF Inv
  <2>3. CASE rx' = rx
    BY <2>1, <2>3
  <2>4. CASE \E m \in Spoken : Got(s, m)
    BY <2>2, <2>4
  <2>. QED  BY <2>3, <2>4
<1>3. pc'.v # "over" => pc.v # "over"
  BY SidesAre
<1>4. Shape'
  <2>1. /\ link' \in [Sides -> Links \cup {"none"}] /\ closed' \in [Sides -> BOOLEAN]
        /\ net' \in [Links -> [Sides -> Seq(Frame)]] /\ route' \in [Sides -> BOOLEAN]
    BY DEF Inv, Shape
  <2>. QED  BY <1>1, <1>2, <1>3, <2>1 DEF Shape
<1>5. PlaceOK'
  <2>1. link[s] # "none"
    BY DEF Inv, PlaceOK
  <2>2. /\ \A t \in Sides : pc'[t] \in {"start", "await", "dial"} => link'[t] = "none"
        /\ \A t \in Sides : pc'[t] \notin {"start", "await", "dial", "over"} => link'[t] # "none"
    BY <2>1 DEF Inv, PlaceOK
  <2>3. pc'.h \in {"confirm", "decide", "live"} => Met'
    <3>1. CASE s = "h"
      BY <3>1 DEF Met
    <3>2. CASE s # "h"
      BY <3>2, SidesAre DEF Inv, PlaceOK, Met
    <3>. QED  BY <3>1, <3>2
  <2>4. pc'.v \in {"confirm", "approval", "live"} => Met'
    <3>1. CASE s = "v"
      BY <3>1 DEF Met
    <3>2. CASE s # "v"
      BY <3>2, SidesAre DEF Inv, PlaceOK, Met
    <3>. QED  BY <3>1, <3>2
  <2>5. (/\ link.h = "relay" => link.v = "relay"
         /\ pc.v = "start" => net.direct.v = <<>> /\ link.h # "direct"
         /\ link.h = "direct" => ~Asks(net.direct.v)
         /\ net.direct.v # <<>> => ~Asks(Tail(net.direct.v)))'
    <3>1. pc'.v = "start" => pc.v = "start"
      BY SidesAre
    <3>. QED  BY <3>1 DEF Inv, PlaceOK, Asks
  <2>. QED  BY <1>3, <2>2, <2>3, <2>4, <2>5 DEF Inv, PlaceOK
<1>6. FrameOK'
  <2>1. \A t \in Sides : link'[t] = "none" => out'[t] = out[t]
    BY <1>1 DEF Inv, PlaceOK
  <2>2. \A t \in Sides : \A f \in Within(out'[t]) : f \in Within(out[t]) \/ f.t \in Spoken
    BY <1>1
  <2>3. rx'.h # <<>> => rx.h # <<>>
    BY <1>2, SidesAre
  <2>. QED  BY <1>2, <1>4, <2>1, <2>2, <2>3, SidesAre, FrameStep DEF Inv, Spoken
<1>7. /\ s = "v" => \A f \in FromHost' : f \in FromHost
      /\ s = "h" => \A f \in FromHost' : f \in FromHost \/ f \in Within(fs)
  BY <1>1, <1>2, SidesAre DEF FromHost
<1>8. /\ s = "v" => out'.h = out.h
      /\ s = "h" => out'.h = out.h \o fs /\ rx'.v = rx.v
  BY <1>1, <1>2, SidesAre
<1>9. ASSUME pc'.h = pc.h, Connected'  PROVE Connected
  <2>1. pc.v # "over"
    BY <1>3, <1>9 DEF Connected
  <2>. QED  BY <1>9, <2>1 DEF Connected
<1>. QED  BY <1>4, <1>5, <1>6, <1>7, <1>8, <1>9

LEMMA FrameOnly ==
    ASSUME NEW f \in Frame
    PROVE  <<f>> \in Seq(Frame) /\ Within(<<f>>) = {f} /\ \A q \in Seq(Frame) : q \o <<>> = q
<1>1. <<f>> \in Seq(Frame) /\ \A q \in Seq(Frame) : q \o <<>> = q
  OBVIOUS
<1>. QED  BY <1>1, WithinOne

\* A frame the viewer takes is one of the host's, and says that the two have met.
LEMMA ViewerGets ==
    ASSUME Inv, NEW m \in Spoken, Got("v", m)
    PROVE  /\ rx.v # <<>> /\ Head(rx.v) \in FromHost /\ Head(rx.v).t = m /\ Met
           /\ Head(rx.v) \in Frame /\ rx'.v = Tail(rx.v)
<1>1. "v" \in Sides
  BY DEF Sides
<1>2. /\ rx.v # <<>> /\ Head(rx.v) \in Within(rx.v) /\ Head(rx.v).t = m
      /\ Head(rx.v) \in Frame /\ rx'.v = Tail(rx.v)
  BY <1>1, GotDoes DEF Inv
<1>. QED  BY <1>2 DEF Inv, FrameOK, FromHost

LEMMA SayHelloKeeps == Inv /\ SayHello => Inv'
<1>. SUFFICES ASSUME Inv, SayHello  PROVE Inv'
  OBVIOUS
<1>1. F("hello") \in Frame /\ F("hello").t = "hello" /\ "v" \in Sides
  BY FrameIs DEF Kinds, Spoken, Sides
<1>2. <<F("hello")>> \in Seq(Frame) /\ \A f \in Within(<<F("hello")>>) : f.t \in Spoken
  BY <1>1, FrameOnly DEF Spoken
<1>3. /\ pc' \in [Sides -> Places] /\ pc'.v = "reply" /\ pc'.h = pc.h /\ pc.v = "hello"
      /\ Put("v", <<F("hello")>>)
      /\ UNCHANGED <<link, net, rx, closed, route, served, knows, perms, counted, reason>>
  BY <1>1, SidesAre, GotoDoes DEF SayHello, Inv, Places, engines, outcome
<1>4. /\ Shape' /\ PlaceOK' /\ FrameOK' /\ \A f \in FromHost' : f \in FromHost
      /\ out'.h = out.h
      /\ Connected' => Connected
  <2>1. perms' \in [Sides -> Rights \cup {"none"}] /\ reason' \in [Sides -> Reasons]
    BY <1>3 DEF Inv, Shape
  <2>. QED  BY <1>1, <1>2, <1>3, <2>1, SidesAre, SpeakKeeps
<1>5. TalkOK'
  BY <1>3, <1>4, TalkStep DEF Inv, Inside
<1>6. NewsOK'
  BY <1>3, <1>4, NewsStep DEF Inv
<1>. QED  BY <1>4, <1>5, <1>6 DEF Inv

LEMMA ReplyKeeps == Inv /\ Reply => Inv'
<1>. SUFFICES ASSUME Inv, Reply  PROVE Inv'
  OBVIOUS
<1>1. "h" \in Sides /\ "hello" \in Spoken
  BY DEF Sides, Spoken
<1>2. /\ pc.h = "hello" /\ Got("h", "hello")
      /\ UNCHANGED <<link, net, closed, route, served, knows, perms, counted, reason>>
  BY DEF Reply, engines, outcome
<1>3. Met
  <2>1. rx.h # <<>> /\ link.h # "none"
    BY <1>1, <1>2, GotDoes DEF Inv, PlaceOK
  <2>. QED  BY <2>1 DEF Inv, FrameOK
<1>4. perms' \in [Sides -> Rights \cup {"none"}] /\ reason' \in [Sides -> Reasons]
  BY <1>2 DEF Inv, Shape
<1>5. ASSUME NEW p \in {"confirm", "drain"}, NEW f \in Frame, f.t \in Spoken,
             Goto("h", p), Put("h", <<f>>)
      PROVE  /\ Shape' /\ PlaceOK' /\ FrameOK' /\ NewsOK'
             /\ \A g \in FromHost' : g \in FromHost \/ g = f
             /\ pc'.v = pc.v /\ pc'.h = p
  <2>1. pc' \in [Sides -> Places] /\ pc'.h = p /\ pc'.v = pc.v
    BY <1>1, <1>5, SidesAre, GotoDoes DEF Inv, Places
  <2>2. <<f>> \in Seq(Frame) /\ Within(<<f>>) = {f}
    BY <1>5, FrameOnly
  <2>3. /\ Shape' /\ PlaceOK' /\ FrameOK'
        /\ \A g \in FromHost' : g \in FromHost \/ g \in Within(<<f>>)
    BY <1>1, <1>2, <1>3, <1>4, <1>5, <2>1, <2>2, SidesAre, SpeakKeeps
  <2>4. NewsOK'
    BY <2>1, NewsCut DEF Connected
  <2>. QED  BY <2>1, <2>2, <2>3, <2>4
<1>6. \A g \in FromHost : g.t # "reply" /\ g.t # "confirm"
  BY <1>2 DEF Inv, TalkOK, Answering, Convinced
<1>7. pc.v # "confirm" /\ pc.v \notin Inside
  BY <1>2 DEF Inv, TalkOK, Answering, Convinced
<1>8. CASE Goto("h", "confirm") /\ Put("h", <<F("reply")>>)
  <2>1. F("reply") \in Frame /\ F("reply").t = "reply"
    BY FrameIs DEF Kinds, Spoken
  <2>2. /\ Shape' /\ PlaceOK' /\ FrameOK' /\ NewsOK'
        /\ \A g \in FromHost' : g \in FromHost \/ g = F("reply")
        /\ pc'.v = pc.v /\ pc'.h = "confirm"
    BY <1>5, <1>8, <2>1 DEF Spoken
  <2>3. \A g \in FromHost' : g.t = "abort" => counted'
    BY <1>2, <2>1, <2>2 DEF Inv, TalkOK
  <2>4. TalkOK'
    BY <1>2, <1>6, <1>7, <2>1, <2>2, <2>3 DEF Inv, TalkOK, Answering
  <2>. QED  BY <2>2, <2>4 DEF Inv
<1>9. CASE Goto("h", "drain") /\ Put("h", <<F("abort")>>)
  <2>1. F("abort") \in Frame /\ F("abort").t = "abort"
    BY FrameIs DEF Kinds, Spoken
  <2>2. /\ Shape' /\ PlaceOK' /\ FrameOK' /\ NewsOK'
        /\ \A g \in FromHost' : g \in FromHost \/ g = F("abort")
        /\ pc'.v = pc.v /\ pc'.h = "drain"
    BY <1>5, <1>9, <2>1 DEF Spoken
  <2>3. \A g \in FromHost' : g.t # "reply" /\ g.t # "confirm"
    BY <1>6, <2>1, <2>2
  <2>4. TalkOK'
    BY <1>2, <1>7, <2>2, <2>3 DEF Inv, TalkOK, Answering
  <2>. QED  BY <2>2, <2>4 DEF Inv
<1>. QED  BY <1>8, <1>9 DEF Reply

LEMMA ConfirmKeeps == Inv /\ Confirm => Inv'
<1>. SUFFICES ASSUME Inv, Confirm  PROVE Inv'
  OBVIOUS
<1>1. F("confirm") \in Frame /\ F("confirm").t = "confirm" /\ "v" \in Sides /\ "reply" \in Spoken
  BY FrameIs DEF Kinds, Spoken, Sides
<1>2. <<F("confirm")>> \in Seq(Frame) /\ \A f \in Within(<<F("confirm")>>) : f.t \in Spoken
  BY <1>1, FrameOnly DEF Spoken
<1>3. /\ pc' \in [Sides -> Places] /\ pc'.v = "confirm" /\ pc'.h = pc.h /\ pc.v = "reply"
      /\ Put("v", <<F("confirm")>>) /\ Got("v", "reply")
      /\ UNCHANGED <<link, net, closed, route, served, knows, perms, counted, reason>>
  BY <1>1, SidesAre, GotoDoes DEF Confirm, Inv, Places, engines, outcome
<1>4. /\ rx.v # <<>> /\ Head(rx.v) \in FromHost /\ Head(rx.v).t = "reply" /\ Met
      /\ rx'.v = Tail(rx.v)
  BY <1>1, <1>3, ViewerGets
<1>5. /\ Shape' /\ PlaceOK' /\ FrameOK' /\ \A f \in FromHost' : f \in FromHost
      /\ out'.h = out.h
      /\ Connected' => Connected
  <2>1. perms' \in [Sides -> Rights \cup {"none"}] /\ reason' \in [Sides -> Reasons]
    BY <1>3 DEF Inv, Shape
  <2>. QED  BY <1>1, <1>2, <1>3, <1>4, <2>1, SidesAre, SpeakKeeps
<1>6. pc.h \in Answering /\ \A f \in FromHost : f.t = "abort" => counted
  BY <1>4 DEF Inv, TalkOK
<1>7. TalkOK'
  BY <1>3, <1>5, <1>6 DEF Inv, TalkOK, Inside
<1>8. NewsOK'
  BY <1>3, <1>4, <1>5, NewsHeard DEF Inv, Tells
<1>. QED  BY <1>5, <1>7, <1>8 DEF Inv

\* The host goes on after it has heard the viewer's confirmation, or later.
LEMMA HostSays ==
    ASSUME Inv, pc.h \in {"confirm", "decide", "live"},
           pc' \in [Sides -> Places], pc'.v = pc.v, pc'.h \in {"decide", "live", "drain"},
           NEW f \in Frame, f.t \in Spoken, Put("h", <<f>>),
           UNCHANGED <<link, net, closed, route, served>>,
           rx' = rx \/ Got("h", "confirm"),
           perms' \in [Sides -> Rights \cup {"none"}], reason' \in [Sides -> Reasons]
    PROVE  /\ Shape' /\ PlaceOK' /\ FrameOK'
           /\ \A g \in FromHost' : g \in FromHost \/ g = f
           /\ out'.h = out.h \o <<f>> /\ rx'.v = rx.v
           /\ pc'.h = pc.h => (Connected' => Connected)
<1>1. Met /\ "h" \in Sides /\ "confirm" \in Spoken
  BY DEF Inv, PlaceOK, Sides, Spoken
<1>2. <<f>> \in Seq(Frame) /\ Within(<<f>>) = {f}
  BY FrameOnly
<1>. QED  BY <1>1, <1>2, SidesAre, SpeakKeeps

LEMMA VerifiedKeeps == Inv /\ Verified => Inv'
<1>. SUFFICES ASSUME Inv, Verified  PROVE Inv'
  OBVIOUS
<1>1. F("confirm") \in Frame /\ F("confirm").t = "confirm" /\ "h" \in Sides
  BY FrameIs DEF Kinds, Spoken, Sides
<1>2. /\ pc' \in [Sides -> Places] /\ pc'.h = "decide" /\ pc'.v = pc.v /\ pc.h = "confirm" /\ knows
      /\ Put("h", <<F("confirm")>>) /\ Got("h", "confirm")
      /\ UNCHANGED <<link, net, closed, route, served, knows, perms, counted, reason>>
  BY <1>1, SidesAre, GotoDoes DEF Verified, Verify, SameKeys, Inv, Places, engines, outcome
<1>3. perms' \in [Sides -> Rights \cup {"none"}] /\ reason' \in [Sides -> Reasons]
  BY <1>2 DEF Inv, Shape
<1>4. /\ Shape' /\ PlaceOK' /\ FrameOK'
      /\ \A g \in FromHost' : g \in FromHost \/ g = F("confirm")
  BY <1>1, <1>2, <1>3, HostSays DEF Spoken
<1>5. TalkOK'
  <2>1. \A g \in FromHost : g.t = "abort" => counted
    BY <1>2 DEF Inv, TalkOK
  <2>. QED  BY <1>1, <1>2, <1>4, <2>1 DEF Inv, TalkOK, Answering, Convinced
<1>6. NewsOK'
  BY <1>2, NewsCut DEF Connected
<1>. QED  BY <1>4, <1>5, <1>6 DEF Inv

LEMMA BadPasswordKeeps == Inv /\ BadPassword => Inv'
<1>. SUFFICES ASSUME Inv, BadPassword  PROVE Inv'
  OBVIOUS
<1>1. F("abort") \in Frame /\ F("abort").t = "abort" /\ "h" \in Sides
  BY FrameIs DEF Kinds, Spoken, Sides
<1>2. /\ pc' \in [Sides -> Places] /\ pc'.h = "drain" /\ pc'.v = pc.v /\ pc.h = "confirm"
      /\ Put("h", <<F("abort")>>) /\ Got("h", "confirm") /\ counted'
      /\ UNCHANGED <<link, net, closed, route, served, knows, perms, reason>>
  BY <1>1, SidesAre, GotoDoes DEF BadPassword, Inv, Places, engines
<1>3. perms' \in [Sides -> Rights \cup {"none"}] /\ reason' \in [Sides -> Reasons]
  BY <1>2 DEF Inv, Shape
<1>4. /\ Shape' /\ PlaceOK' /\ FrameOK'
      /\ \A g \in FromHost' : g \in FromHost \/ g = F("abort")
  BY <1>1, <1>2, <1>3, HostSays DEF Spoken
<1>5. TalkOK'
  BY <1>1, <1>2, <1>4 DEF Inv, TalkOK, Answering, Convinced
<1>6. NewsOK'
  BY <1>2, NewsCut DEF Connected
<1>. QED  BY <1>4, <1>5, <1>6 DEF Inv

LEMMA AcceptKeeps == Inv /\ Accept => Inv'
<1>. SUFFICES ASSUME Inv, Accept  PROVE Inv'
  OBVIOUS
<1>1. PICK p \in Rights : perms' = [perms EXCEPT !.h = p] /\ Put("h", <<FP("accepted", p)>>)
  BY DEF Accept
<1>2. /\ FP("accepted", p) \in Frame /\ FP("accepted", p).t = "accepted"
      /\ FP("accepted", p).p = p /\ "h" \in Sides
  BY FrameIs DEF Kinds, Spoken, Sides
<1>3. /\ pc' \in [Sides -> Places] /\ pc'.h = "live" /\ pc'.v = pc.v /\ pc.h = "decide"
      /\ UNCHANGED <<link, net, rx, closed, route, served, knows, counted, reason>>
  BY <1>2, SidesAre, GotoDoes DEF Accept, Inv, Places, engines, outcome
<1>4. /\ perms' \in [Sides -> Rights \cup {"none"}] /\ perms'.h = p
      /\ reason' \in [Sides -> Reasons]
  BY <1>1, <1>2, <1>3 DEF Inv, Shape
<1>5. /\ Shape' /\ PlaceOK' /\ FrameOK'
      /\ \A g \in FromHost' : g \in FromHost \/ g = FP("accepted", p)
      /\ out'.h = out.h \o <<FP("accepted", p)>> /\ rx'.v = rx.v
  BY <1>1, <1>2, <1>3, <1>4, HostSays DEF Spoken
<1>6. TalkOK'
  BY <1>2, <1>3, <1>5, TalkStep DEF Inv, Answering, Convinced
<1>7. NewsOK'
  BY <1>2, <1>3, <1>4, <1>5, NewsSaid DEF Inv, Tells
<1>. QED  BY <1>5, <1>6, <1>7 DEF Inv

LEMMA RejectKeeps == Inv /\ Reject => Inv'
<1>. SUFFICES ASSUME Inv, Reject  PROVE Inv'
  OBVIOUS
<1>1. F("rejected") \in Frame /\ F("rejected").t = "rejected" /\ "h" \in Sides
  BY FrameIs DEF Kinds, Spoken, Sides
<1>2. /\ pc' \in [Sides -> Places] /\ pc'.h = "drain" /\ pc'.v = pc.v /\ pc.h = "decide"
      /\ Put("h", <<F("rejected")>>)
      /\ UNCHANGED <<link, net, rx, closed, route, served, knows, perms, counted, reason>>
  BY <1>1, SidesAre, GotoDoes DEF Reject, Inv, Places, engines, outcome
<1>3. perms' \in [Sides -> Rights \cup {"none"}] /\ reason' \in [Sides -> Reasons]
  BY <1>2 DEF Inv, Shape
<1>4. /\ Shape' /\ PlaceOK' /\ FrameOK'
      /\ \A g \in FromHost' : g \in FromHost \/ g = F("rejected")
  BY <1>1, <1>2, <1>3, HostSays DEF Spoken
<1>5. TalkOK'
  BY <1>1, <1>2, <1>4, TalkStep DEF Inv, Answering, Convinced
<1>6. NewsOK'
  BY <1>2, NewsCut DEF Connected
<1>. QED  BY <1>4, <1>5, <1>6 DEF Inv

LEMMA SetPermissionsKeeps == Inv /\ SetPermissions => Inv'
<1>. SUFFICES ASSUME Inv, SetPermissions  PROVE Inv'
  OBVIOUS
<1>1. PICK p \in Rights : perms' = [perms EXCEPT !.h = p] /\ Put("h", <<FP("perms", p)>>)
  BY DEF SetPermissions
<1>2. /\ FP("perms", p) \in Frame /\ FP("perms", p).t = "perms" /\ FP("perms", p).p = p
      /\ "h" \in Sides
  BY FrameIs DEF Kinds, Spoken, Sides
<1>3. /\ pc' = pc /\ pc \in [Sides -> Places] /\ pc.h = "live"
      /\ UNCHANGED <<link, net, rx, closed, route, served, knows, counted, reason>>
  BY DEF SetPermissions, Inv, Shape, engines, outcome
<1>4. /\ perms' \in [Sides -> Rights \cup {"none"}] /\ perms'.h = p
      /\ reason' \in [Sides -> Reasons]
  BY <1>1, <1>2, <1>3 DEF Inv, Shape
<1>5. /\ Shape' /\ PlaceOK' /\ FrameOK'
      /\ \A g \in FromHost' : g \in FromHost \/ g = FP("perms", p)
      /\ out'.h = out.h \o <<FP("perms", p)>> /\ rx'.v = rx.v
  BY <1>1, <1>2, <1>3, <1>4, HostSays DEF Spoken
<1>6. TalkOK'
  BY <1>2, <1>3, <1>5, TalkStep DEF Inv
<1>7. NewsOK'
  BY <1>2, <1>3, <1>4, <1>5, NewsSaid DEF Inv, Tells
<1>. QED  BY <1>5, <1>6, <1>7 DEF Inv

\* The viewer goes on with what it heard.
LEMMA ViewerHears ==
    ASSUME Inv, pc.v \in {"confirm", "approval", "live"}, NEW m \in Spoken, Got("v", m),
           pc' \in [Sides -> Places], pc'.h = pc.h, pc'.v \in {"approval", "live"},
           UNCHANGED <<link, out, net, closed, route, served>>,
           perms' \in [Sides -> Rights \cup {"none"}], reason' \in [Sides -> Reasons]
    PROVE  /\ Shape' /\ PlaceOK' /\ FrameOK'
           /\ \A g \in FromHost' : g \in FromHost
           /\ Connected' => Connected
<1>1. "v" \in Sides /\ Met /\ <<>> \in Seq(Frame) /\ Within(<<>>) = {}
  BY WithinNone DEF Sides, Inv, PlaceOK
<1>2. Put("v", <<>>)
  <2>1. out.v \in Seq(Frame) /\ out.v \o <<>> = out.v
    BY <1>1 DEF Inv, Shape
  <2>2. [out EXCEPT !.v = out.v \o <<>>] = out
    BY <1>1, <2>1 DEF Inv, Shape
  <2>. QED  BY <2>2 DEF Put
<1>. QED  BY <1>1, <1>2, SidesAre, SpeakKeeps

LEMMA ConfirmedKeeps ==
    ASSUME Inv, Confirmed
    PROVE  Inv'
<1>1. "v" \in Sides /\ "confirm" \in Spoken
  BY DEF Sides, Spoken
<1>2. /\ rx.v # <<>> /\ Head(rx.v) \in FromHost /\ Head(rx.v).t = "confirm" /\ Met
      /\ rx'.v = Tail(rx.v)
  BY <1>1, ViewerGets DEF Confirmed
<1>3. knows /\ pc.h \in Convinced
  BY <1>2 DEF Inv, TalkOK
<1>4. /\ pc' \in [Sides -> Places] /\ pc'.v = "approval" /\ pc'.h = pc.h /\ pc.v = "confirm"
      /\ Got("v", "confirm")
      /\ UNCHANGED <<link, out, net, closed, route, served, knows, perms, counted, reason>>
  BY <1>1, <1>3, SidesAre, GotoDoes DEF Confirmed, SameKeys, Inv, Places
<1>5. perms' \in [Sides -> Rights \cup {"none"}] /\ reason' \in [Sides -> Reasons]
  BY <1>4 DEF Inv, Shape
<1>6. /\ Shape' /\ PlaceOK' /\ FrameOK' /\ \A g \in FromHost' : g \in FromHost
      /\ Connected' => Connected
  BY <1>1, <1>4, <1>5, ViewerHears
<1>7. TalkOK'
  BY <1>3, <1>4, <1>6 DEF Inv, TalkOK, Inside
<1>8. NewsOK'
  BY <1>2, <1>4, <1>6, NewsHeard DEF Inv, Tells
<1>. QED  BY <1>6, <1>7, <1>8 DEF Inv

LEMMA PermissionsChangedKeeps ==
    ASSUME Inv, PermissionsChanged
    PROVE  Inv'
<1>1. "v" \in Sides /\ "perms" \in Spoken
  BY DEF Sides, Spoken
<1>2. /\ rx.v # <<>> /\ Head(rx.v) \in Frame /\ Head(rx.v).t = "perms" /\ rx'.v = Tail(rx.v)
  BY <1>1, ViewerGets DEF PermissionsChanged
<1>3. /\ pc' = pc /\ pc \in [Sides -> Places] /\ pc.v = "live" /\ Got("v", "perms")
      /\ perms' = [perms EXCEPT !.v = Head(rx.v).p]
      /\ UNCHANGED <<link, out, net, closed, route, served, knows, counted, reason>>
  BY DEF PermissionsChanged, Inv, Shape, engines, outcome
<1>4. /\ perms' \in [Sides -> Rights \cup {"none"}] /\ perms'.v = Head(rx.v).p
      /\ perms'.h = perms.h /\ reason' \in [Sides -> Reasons]
  BY <1>1, <1>2, <1>3 DEF Inv, Shape, Frame
<1>5. /\ Shape' /\ PlaceOK' /\ FrameOK' /\ \A g \in FromHost' : g \in FromHost
      /\ Connected' => Connected
  BY <1>1, <1>3, <1>4, ViewerHears
<1>6. TalkOK'
  BY <1>3, <1>5, TalkStep DEF Inv
<1>7. NewsOK'
  BY <1>2, <1>3, <1>4, <1>5, NewsTaken DEF Inv, Tells
<1>. QED  BY <1>5, <1>6, <1>7 DEF Inv

\* Ending: what a side says last, if anything.
LEMMA LeaveDoes ==
    ASSUME NEW s \in Sides
    PROVE  /\ Leave(s, <<>>) => \E fs \in Farewells : Put(s, fs) /\ (link[s] = "none" => fs = <<>>)
           /\ Leave(s, <<F("bye")>>) => \E fs \in Farewells : Put(s, fs)
<1>1. ASSUME NEW f  PROVE <<>> \o <<f>> = <<f>>
  OBVIOUS
<1>. QED  BY <1>1 DEF Leave, Farewells

LEMMA SaysNoMore ==
    ASSUME Inv, NEW s \in Sides, out' = out
    PROVE  Put(s, <<>>) /\ <<>> \in Farewells
<1>1. out[s] \in Seq(Frame) /\ out[s] \o <<>> = out[s] /\ <<>> \in Farewells
  BY FrameOnly DEF Inv, Shape, Farewells
<1>2. [out EXCEPT ![s] = out[s] \o <<>>] = out
  BY <1>1 DEF Inv, Shape
<1>. QED  BY <1>1, <1>2 DEF Put

LEMMA AbortedKeeps ==
    ASSUME Inv, Aborted
    PROVE  Inv'
<1>1. "v" \in Sides /\ "abort" \in Spoken
  BY DEF Sides, Spoken
<1>2. Head(rx.v) \in FromHost /\ Head(rx.v).t = "abort"
  BY <1>1, ViewerGets DEF Aborted
<1>3. pc.v = "confirm" => counted
  BY <1>2 DEF Inv, TalkOK
<1>4. PICK why \in {"wrongPassword", "aborted"} :
         Over("v", why) /\ (why = "wrongPassword" => pc.v = "confirm")
  BY DEF Aborted
<1>5. PICK fs \in Farewells : Put("v", fs) /\ (link.v = "none" => fs = <<>>)
  BY <1>1, LeaveDoes DEF Aborted
<1>6. why \in Reasons \ {"none"}
  BY DEF Reasons
<1>. QED  BY <1>1, <1>3, <1>4, <1>5, <1>6, EndKeeps DEF Aborted

LEMMA AnsweredKeeps ==
    ASSUME Inv, Answered
    PROVE  Inv'
<1>1. "v" \in Sides /\ "accepted" \in Spoken /\ "rejected" \in Spoken
  BY DEF Sides, Spoken
<1>2. ASSUME Got("v", "accepted"), Goto("v", "live"), perms' = [perms EXCEPT !.v = Head(rx.v).p],
             UNCHANGED <<out, net, route, pendingDirect, reason>>
      PROVE  Inv'
  <2>1. /\ rx.v # <<>> /\ Head(rx.v) \in Frame /\ Head(rx.v).t = "accepted"
        /\ rx'.v = Tail(rx.v)
    BY <1>1, <1>2, ViewerGets
  <2>2. /\ pc' \in [Sides -> Places] /\ pc'.v = "live" /\ pc'.h = pc.h /\ pc.v = "approval"
        /\ UNCHANGED <<link, closed, served, knows, counted>>
    BY <1>1, <1>2, SidesAre, GotoDoes DEF Answered, Inv, Places
  <2>3. /\ perms' \in [Sides -> Rights \cup {"none"}] /\ perms'.v = Head(rx.v).p
        /\ perms'.h = perms.h /\ reason' \in [Sides -> Reasons]
    <3>1. Head(rx.v).p \in Rights \cup {"none"}
      BY <2>1 DEF Frame
    <3>2. perms \in [Sides -> Rights \cup {"none"}] /\ reason \in [Sides -> Reasons]
      BY DEF Inv, Shape
    <3>3. perms' = [perms EXCEPT !.v = Head(rx.v).p] /\ reason' = reason
      BY <1>2
    <3>. QED  BY <1>1, <3>1, <3>2, <3>3
  <2>4. /\ Shape' /\ PlaceOK' /\ FrameOK' /\ \A g \in FromHost' : g \in FromHost
        /\ Connected' => Connected
    BY <1>1, <1>2, <2>2, <2>3, ViewerHears
  <2>5. TalkOK'
    BY <1>2, <2>2, <2>4, TalkStep DEF Inv, Inside
  <2>6. NewsOK'
    BY <1>2, <2>1, <2>2, <2>3, <2>4, NewsTaken DEF Inv, Tells
  <2>. QED  BY <2>4, <2>5, <2>6 DEF Inv
<1>3. ASSUME Got("v", "rejected"), Over("v", "rejected"), Leave("v", <<>>), perms' = perms
      PROVE  Inv'
  <2>1. PICK fs \in Farewells : Put("v", fs) /\ (link.v = "none" => fs = <<>>)
    BY <1>1, <1>3, LeaveDoes
  <2>2. "rejected" \in Reasons \ {"none"} /\ UNCHANGED <<link, closed, served, knows, counted>>
    BY DEF Reasons, Answered
  <2>. QED  BY <1>1, <1>3, <2>1, <2>2, EndKeeps
<1>. QED  BY <1>2, <1>3 DEF Answered

LEMMA SayByeKeeps ==
    ASSUME Inv, NEW s \in Sides, SayBye(s)
    PROVE  Inv'
<1>1. F("bye") \in Frame /\ F("bye").t = "bye"
  BY FrameIs DEF Kinds, Spoken
<1>2. <<F("bye")>> \in Seq(Frame) /\ Within(<<F("bye")>>) = {F("bye")}
  BY <1>1, FrameOnly
<1>3. /\ pc' \in [Sides -> Places] /\ pc'[s] = "drain" /\ \A t \in Sides \ {s} : pc'[t] = pc[t]
      /\ pc[s] = "live" /\ Put(s, <<F("bye")>>)
      /\ UNCHANGED <<link, net, rx, closed, route, served, knows, perms, counted>>
  BY GotoDoes DEF SayBye, Inv, Places, engines
<1>4. /\ perms' \in [Sides -> Rights \cup {"none"}] /\ reason' \in [Sides -> Reasons]
      /\ reason'[s] = "local" /\ \A t \in Sides \ {s} : reason'[t] = reason[t]
  BY <1>3 DEF SayBye, Inv, Shape, Reasons
<1>5. /\ Shape' /\ PlaceOK' /\ FrameOK'
      /\ s = "v" => \A f \in FromHost' : f \in FromHost
      /\ s = "h" => \A f \in FromHost' : f \in FromHost \/ f \in Within(<<F("bye")>>)
      /\ s = "v" => out'.h = out.h
      /\ pc'.h = pc.h => (Connected' => Connected)
  BY <1>1, <1>2, <1>3, <1>4, SpeakKeeps DEF Spoken
<1>6. TalkOK'
  <2>1. \A f \in FromHost' : f \in FromHost \/ f.t = "bye"
    BY <1>1, <1>2, <1>5, SidesAre
  <2>2. /\ pc.h \in Answering => pc'.h \in Answering
        /\ pc.h \in Convinced => pc'.h \in Convinced
        /\ pc.h \in {"drain", "over"} => pc'.h \in {"drain", "over"}
        /\ pc'.v = "confirm" => pc.v = "confirm"
        /\ pc'.v \in Inside => pc.v \in Inside
        /\ reason'.v = "wrongPassword" => reason.v = "wrongPassword"
    BY <1>3, <1>4, SidesAre DEF Answering, Convinced, Inside
  <2>. QED  BY <1>3, <2>1, <2>2, TalkStep DEF Inv
<1>7. NewsOK'
  <2>1. CASE s = "v"
    BY <1>3, <1>5, <2>1, SidesAre, NewsStep DEF Inv
  <2>2. CASE s = "h"
    BY <1>3, <2>2, NewsCut DEF Connected
  <2>. QED  BY <2>1, <2>2, SidesAre
<1>. QED  BY <1>5, <1>6, <1>7 DEF Inv

LEMMA EndingKeeps ==
    ASSUME Inv, NEW s \in Sides, Ending(s) \/ (s = "h" /\ VideoFails)
    PROVE  Inv'
<1>1. ASSUME NEW why \in {"protocol", "local", "refused", "peerClosed"}, Over(s, why),
             Leave(s, <<>>), UNCHANGED <<link, closed, served, knows, perms, counted>>,
             rx' = rx \/ Got(s, "bye")
      PROVE  Inv'
  <2>1. PICK fs \in Farewells : Put(s, fs) /\ (link[s] = "none" => fs = <<>>)
    BY <1>1, LeaveDoes
  <2>2. why \in Reasons \ {"none"} /\ "bye" \in Spoken /\ why # "wrongPassword"
    BY DEF Reasons, Spoken
  <2>. QED  BY <1>1, <2>1, <2>2, EndKeeps
<1>2. ASSUME pc[s] = "live", Lost(s)
      PROVE  Inv'
  <2>1. PICK fs \in Farewells : Put(s, fs) /\ (link[s] = "none" => fs = <<>>)
    <3>1. link[s] # "none"
      BY <1>2 DEF Inv, PlaceOK
    <3>. QED  BY <1>2, <3>1, LeaveDoes DEF Lost
  <2>2. "lost" \in Reasons \ {"none"} /\ Over(s, "lost")
        /\ UNCHANGED <<link, rx, closed, served, knows, perms, counted>>
    BY <1>2 DEF Reasons, Lost
  <2>. QED  BY <2>1, <2>2, EndKeeps
<1>3. CASE LinkEnds(s)
  BY <1>1, <1>3 DEF LinkEnds
<1>4. CASE StepTimeout(s)
  BY <1>1, <1>4 DEF StepTimeout
<1>5. CASE Drained(s)
  BY <1>1, <1>5 DEF Drained
<1>6. CASE HearBye(s)
  BY <1>1, <1>6 DEF HearBye
<1>7. CASE PipeEnds(s) \/ PingTimeout(s) \/ (s = "h" /\ VideoFails)
  BY <1>2, <1>7 DEF PipeEnds, PingTimeout, VideoFails
<1>. QED  BY <1>3, <1>4, <1>5, <1>6, <1>7 DEF Ending

-----------------------------------------------------------------------------
(* The link *)

\* A side that has not chosen its link has met nobody, and the host hears and says nothing.
LEMMA NotYetMet ==
    ASSUME Inv, pc.v \in {"start", "dial"} \/ pc.h \in {"start", "await"}
    PROVE  /\ ~Met /\ pc.h \notin {"confirm", "decide", "live"}
           /\ pc.v \notin {"confirm", "approval", "live"}
           /\ pc.v \in {"start", "dial"} => link.v = "none" /\ rx.h = <<>> /\ link.h # "relay"
           /\ pc.h \in {"start", "await"} => link.h = "none"
<1>1. /\ pc.v \in {"start", "dial"} => link.v = "none"
      /\ pc.h \in {"start", "await"} => link.h = "none"
  BY SidesAre DEF Inv, PlaceOK
<1>2. ~Met
  BY <1>1 DEF Met
<1>. QED  BY <1>1, <1>2 DEF Inv, PlaceOK, FrameOK

LEMMA RefusedKeeps ==
    ASSUME Inv, HostRefuses \/ NoRelay
    PROVE  Inv'
<1>1. ASSUME NEW s \in Sides, NEW why \in {"refused", "offline"}, Over(s, why),
             UNCHANGED <<link, out, rx, closed, served, knows, perms, counted>>
      PROVE  Inv'
  <2>1. why \in Reasons \ {"none"} /\ why # "wrongPassword"
    BY DEF Reasons
  <2>2. PICK fs \in Farewells : fs = <<>>
    BY DEF Farewells
  <2>3. Put(s, fs)
    BY <1>1, <2>2, SaysNoMore
  <2>. QED  BY <1>1, <2>1, <2>2, <2>3, EndKeeps
<1>. QED  BY <1>1, SidesAre DEF HostRefuses, NoRelay

LEMMA HostWaitsKeeps ==
    ASSUME Inv, HostWaits
    PROVE  Inv'
<1>1. "h" \in Sides /\ "await" \in Places
  BY DEF Sides, Places
<1>2. /\ pc' \in [Sides -> Places] /\ pc'.h = "await" /\ pc'.v = pc.v /\ pc.h = "start"
      /\ UNCHANGED <<link, out, net, rx, closed, served, knows, perms, counted, reason>>
      /\ route' \in [Sides -> BOOLEAN] /\ route'.v = route.v
  BY <1>1, SidesAre, GotoDoes DEF HostWaits, Inv, Shape, traffic, outcome
<1>3. Shape'
  BY <1>2 DEF Inv, Shape
<1>4. PlaceOK'
  BY <1>2, SidesAre DEF Inv, PlaceOK, Met, Asks
<1>5. FrameOK'
  BY <1>2 DEF Inv, FrameOK, Met
<1>6. FromHost' = FromHost
  BY <1>2 DEF FromHost
<1>7. TalkOK'
  BY <1>2, <1>6, TalkStep DEF Inv, Answering, Convinced
<1>8. NewsOK'
  BY <1>2, NewsCut DEF Connected
<1>. QED  BY <1>3, <1>4, <1>5, <1>7, <1>8 DEF Inv

LEMMA DialKeeps ==
    ASSUME Inv, Dial
    PROVE  Inv'
<1>1. /\ "v" \in Sides /\ "dial" \in Places /\ "direct" \in Links
      /\ F("preamble") \in Frame /\ F("preamble").t = "preamble"
  BY FrameIs DEF Sides, Places, Links, Kinds
<1>2. /\ pc' \in [Sides -> Places] /\ pc'.v = "dial" /\ pc'.h = pc.h /\ pc.v = "start"
      /\ UNCHANGED <<link, out, rx, closed, route, served, knows, perms, counted, reason>>
  BY <1>1, SidesAre, GotoDoes DEF Dial, Inv, engines, outcome
<1>3. /\ net' \in [Links -> [Sides -> Seq(Frame)]]
      /\ net'.direct.v = <<F("preamble")>> /\ Within(net'.direct.v) = {F("preamble")}
      /\ Tail(net'.direct.v) = <<>>
      /\ \A j \in Links, t \in Sides : j # "direct" \/ t # "v" => net'[j][t] = net[j][t]
  <2>1. PICK fs \in Seq(Frame) : fs = <<F("preamble")>>
    BY <1>1, FrameOnly
  <2>2. PICK k \in Links : k = "direct"
    BY <1>1
  <2>3. PICK s \in Sides : s = "v"
    BY <1>1
  <2>4. Travel(k, s, fs) /\ Shape
    BY <2>1, <2>2, <2>3 DEF Dial, Inv
  <2>5. /\ net' \in [Links -> [Sides -> Seq(Frame)]]
        /\ net'[k][s] = net[k][s] \o fs
        /\ \A j \in Links, t \in Sides : j # k \/ t # s => net'[j][t] = net[j][t]
    BY <2>4, TravelDoes
  <2>6. net.direct.v = <<>>
    BY <1>2 DEF Inv, PlaceOK
  <2>7. net'.direct.v = <<F("preamble")>>
    BY <2>1, <2>2, <2>3, <2>5, <2>6
  <2>8. ASSUME NEW f  PROVE Tail(<<f>>) = <<>>
    OBVIOUS
  <2>9. Within(net'.direct.v) = {F("preamble")} /\ Tail(net'.direct.v) = <<>>
    BY <2>7, <2>8, WithinOne
  <2>. QED  BY <2>2, <2>3, <2>5, <2>7, <2>9
<1>4. Shape'
  BY <1>2, <1>3 DEF Inv, Shape
<1>5. ~Met /\ link.v = "none" /\ pc.h \notin {"confirm", "decide", "live"}
  BY <1>2, NotYetMet
<1>6. PlaceOK'
  <2>1. ~Asks(Tail(net'.direct.v))
    BY <1>3, WithinNone DEF Asks
  <2>2. link.h # "direct"
    BY <1>2 DEF Inv, PlaceOK
  <2>3. /\ link'.h = "direct" => ~Asks(net'.direct.v)
        /\ net'.direct.v # <<>> => ~Asks(Tail(net'.direct.v))
        /\ pc'.v # "start"
    BY <1>2, <2>1, <2>2
  <2>4. /\ \A s \in Sides : pc'[s] \in {"start", "await", "dial"} => link'[s] = "none"
        /\ \A s \in Sides : pc'[s] \notin {"start", "await", "dial", "over"} => link'[s] # "none"
        /\ link'.h = "relay" => link'.v = "relay"
        /\ (link'.v = "relay" /\ pc'.v # "over" /\ served') => route'.v
    BY <1>2, SidesAre DEF Inv, PlaceOK
  <2>. QED  BY <1>2, <1>5, <2>3, <2>4 DEF PlaceOK, Asks
<1>7. FrameOK'
  <2>1. \A k \in Links, s \in Sides : \A f \in Within(net'[k][s]) :
           f \in Within(net[k][s]) \/ f.t = "preamble"
    BY <1>1, <1>3
  <2>. QED  BY <1>2, <1>4, <2>1, SidesAre, FrameStep DEF Inv, Spoken
<1>8. FromHost' = FromHost
  BY <1>2, <1>3, SidesAre DEF FromHost, Links
<1>9. TalkOK'
  BY <1>2, <1>8, TalkStep DEF Inv, Inside
<1>10. NewsOK'
  BY <1>2, <1>5, NewsCut DEF Connected
<1>. QED  BY <1>4, <1>6, <1>7, <1>9, <1>10 DEF Inv

LEMMA DirectWorksKeeps ==
    ASSUME Inv, DirectWorks
    PROVE  Inv'
<1>1. "v" \in Sides /\ "h" \in Sides /\ "hello" \in Places /\ "direct" \in Links
  BY DEF Sides, Places, Links
<1>2. /\ pc' \in [Sides -> Places] /\ pc'.v = "hello" /\ pc'.h = pc.h /\ pc.v = "dial"
      /\ UNCHANGED <<out, rx, closed, route, served, knows, perms, counted, reason>>
  BY <1>1, SidesAre, GotoDoes DEF DirectWorks, Acknowledged, Inv, engines, outcome
<1>3. link' \in [Sides -> Links \cup {"none"}] /\ link'.v = "direct" /\ link'.h = link.h
  BY <1>1 DEF DirectWorks, Inv, Shape
<1>4. /\ net' \in [Links -> [Sides -> Seq(Frame)]]
      /\ Within(net'.direct.h) \subseteq Within(net.direct.h)
      /\ \A j \in Links, t \in Sides : j # "direct" \/ t # "h" => net'[j][t] = net[j][t]
  <2>1. net.direct \in [Sides -> Seq(Frame)] /\ net.direct.h \in Seq(Frame) /\ net.direct.h # <<>>
    BY <1>1 DEF Inv, Shape, DirectWorks, Acknowledged
  <2>2. net' = [net EXCEPT !.direct = [net.direct EXCEPT !.h = Tail(net.direct.h)]]
    BY <2>1 DEF DirectWorks
  <2>3. Tail(net.direct.h) \in Seq(Frame) /\ Within(Tail(net.direct.h)) \subseteq Within(net.direct.h)
    BY <2>1, WithinTail
  <2>4. [net.direct EXCEPT !.h = Tail(net.direct.h)] \in [Sides -> Seq(Frame)]
    BY <1>1, <2>1, <2>3
  <2>. QED  BY <1>1, <2>1, <2>2, <2>3, <2>4 DEF Inv, Shape
<1>5. Shape'
  BY <1>2, <1>3, <1>4 DEF Inv, Shape
<1>6. /\ ~Met /\ link.v = "none" /\ rx.h = <<>> /\ link.h # "relay"
      /\ pc.h \notin {"confirm", "decide", "live"}
  BY <1>2, NotYetMet
<1>7. PlaceOK'
  <2>1. net'.direct.v = net.direct.v
    BY <1>1, <1>4
  <2>. QED  BY <1>2, <1>3, <1>6, <2>1, SidesAre DEF Inv, PlaceOK, Asks
<1>8. FrameOK'
  <2>1. \A k \in Links, s \in Sides : \A f \in Within(net'[k][s]) : f \in Within(net[k][s])
    BY <1>4
  <2>. QED  BY <1>2, <1>3, <1>5, <1>6, <2>1, SidesAre, FrameStep DEF Inv
<1>9. \A f \in FromHost' : f \in FromHost
  BY <1>2, <1>4, SidesAre DEF FromHost, Links
<1>10. TalkOK'
  BY <1>2, <1>9, TalkStep DEF Inv, Inside
<1>11. NewsOK'
  BY <1>2, <1>6, NewsCut DEF Connected
<1>. QED  BY <1>5, <1>7, <1>8, <1>10, <1>11 DEF Inv

LEMMA RelayChosenKeeps ==
    ASSUME Inv, RelayChosen
    PROVE  Inv'
<1>1. "h" \in Sides /\ "hello" \in Places /\ "relay" \in Links
  BY DEF Sides, Places, Links
<1>2. /\ pc' \in [Sides -> Places] /\ pc'.h = "hello" /\ pc'.v = pc.v /\ pc.h = "await"
      /\ rx.h # <<>>
      /\ UNCHANGED <<out, net, rx, closed, route, served, knows, perms, counted, reason>>
  BY <1>1, SidesAre, GotoDoes DEF RelayChosen, Inv, traffic, engines, outcome
<1>3. link' \in [Sides -> Links \cup {"none"}] /\ link'.h = "relay" /\ link'.v = link.v
  <2>1. link \in [Sides -> Links \cup {"none"}]
    BY DEF Inv, Shape
  <2>2. link' = [link EXCEPT !.h = "relay"]
    BY DEF RelayChosen
  <2>. QED  BY <1>1, <2>1, <2>2
<1>4. ~Met /\ link.h = "none" /\ pc.v \notin {"confirm", "approval", "live"}
  BY <1>2, NotYetMet
<1>5. link.v = "relay" /\ Met'
  BY <1>2, <1>3, <1>4 DEF Inv, FrameOK, Met
<1>6. Shape'
  BY <1>2, <1>3 DEF Inv, Shape
<1>7. PlaceOK'
  <2>1. /\ pc'.v = "start" => net'.direct.v = <<>> /\ link'.h # "direct"
        /\ link'.h = "direct" => ~Asks(net'.direct.v)
        /\ net'.direct.v # <<>> => ~Asks(Tail(net'.direct.v))
    BY <1>2, <1>3 DEF Inv, PlaceOK
  <2>2. /\ \A s \in Sides : pc'[s] \in {"start", "await", "dial"} => link'[s] = "none"
        /\ \A s \in Sides : pc'[s] \notin {"start", "await", "dial", "over"} => link'[s] # "none"
        /\ link'.h = "relay" => link'.v = "relay"
        /\ (link'.v = "relay" /\ pc'.v # "over" /\ served') => route'.v
    BY <1>2, <1>3, <1>5, SidesAre DEF Inv, PlaceOK
  <2>. QED  BY <1>2, <1>4, <2>1, <2>2 DEF PlaceOK, Asks
<1>8. FrameOK'
  BY <1>2, <1>3, <1>4, <1>5, <1>6, SidesAre, FrameStep DEF Inv
<1>9. FromHost' = FromHost
  BY <1>2 DEF FromHost
<1>10. TalkOK'
  BY <1>2, <1>9, TalkStep DEF Inv, Answering, Convinced
<1>11. NewsOK'
  BY <1>2, NewsCut DEF Connected
<1>. QED  BY <1>6, <1>7, <1>8, <1>10, <1>11 DEF Inv

LEMMA TakeRelayKeeps ==
    ASSUME Inv, TakeRelay
    PROVE  Inv'
<1>1. /\ "v" \in Sides /\ "h" \in Sides /\ "hello" \in Places /\ "relay" \in Links
      /\ "direct" \in Links /\ F("eof") \in Frame /\ F("eof").t = "eof"
  BY FrameIs DEF Sides, Places, Links, Kinds
<1>2. /\ pc' \in [Sides -> Places] /\ pc'.v = "hello" /\ pc'.h = pc.h /\ pc.v \in {"start", "dial"}
      /\ UNCHANGED <<out, rx, closed, served, knows, perms, counted, reason>>
  BY <1>1, SidesAre, GotoDoes DEF TakeRelay, Inv, outcome
<1>3. link' \in [Sides -> Links \cup {"none"}] /\ link'.v = "relay" /\ link'.h = link.h
  <2>1. link \in [Sides -> Links \cup {"none"}]
    BY DEF Inv, Shape
  <2>2. link' = [link EXCEPT !.v = "relay"]
    BY DEF TakeRelay
  <2>. QED  BY <1>1, <2>1, <2>2
<1>4. route' \in [Sides -> BOOLEAN] /\ route'.v /\ route'.h = route.h
  <2>1. route \in [Sides -> BOOLEAN] /\ route' = [route EXCEPT !.v = TRUE]
    BY DEF Inv, Shape, TakeRelay
  <2>. QED  BY <1>1, <2>1
<1>5. /\ net' \in [Links -> [Sides -> Seq(Frame)]] /\ net'.relay = net.relay
      /\ Within(net'.direct.h) \subseteq Within(net.direct.h)
      /\ \/ net'.direct.v = net.direct.v
         \/ /\ net'.direct.v = net.direct.v \o <<F("eof")>>
            /\ Within(net'.direct.v) = Within(net.direct.v) \cup {F("eof")}
  <2>1. /\ net \in [Links -> [Sides -> Seq(Frame)]] /\ net.direct \in [Sides -> Seq(Frame)]
        /\ net.direct.v \in Seq(Frame)
    BY <1>1 DEF Inv, Shape
  <2>2. CASE pc.v = "dial"
    <3>1. Append(net.direct.v, F("eof")) = net.direct.v \o <<F("eof")>>
      BY <1>1, <2>1, AppendIsConcat
    <3>2. <<F("eof")>> \in Seq(Frame) /\ Within(<<F("eof")>>) = {F("eof")} /\ <<>> \in Seq(Frame)
      BY <1>1, FrameOnly
    <3>3. /\ net.direct.v \o <<F("eof")>> \in Seq(Frame)
          /\ Within(net.direct.v \o <<F("eof")>>) = Within(net.direct.v) \cup {F("eof")}
      BY <2>1, <3>2, WithinConcat
    <3>4. PICK q \in Seq(Frame) : q = net.direct.v \o <<F("eof")>>
      BY <3>3
    <3>5. net' = [net EXCEPT !.direct = [net.direct EXCEPT !.v = q, !.h = <<>>]]
      BY <2>2, <3>1, <3>4 DEF TakeRelay
    <3>6. /\ [net.direct EXCEPT !.v = q, !.h = <<>>] \in [Sides -> Seq(Frame)]
          /\ [net.direct EXCEPT !.v = q, !.h = <<>>].v = q
          /\ [net.direct EXCEPT !.v = q, !.h = <<>>].h = <<>>
      BY <1>1, <2>1, <3>2, <3>4
    <3>. QED  BY <1>1, <2>1, <3>3, <3>4, <3>5, <3>6, WithinNone
  <2>3. CASE pc.v # "dial"
    BY <2>1, <2>3 DEF TakeRelay
  <2>. QED  BY <2>2, <2>3
<1>6. Shape'
  BY <1>2, <1>3, <1>4, <1>5 DEF Inv, Shape
<1>7. /\ ~Met /\ link.v = "none" /\ rx.h = <<>> /\ link.h # "relay"
      /\ pc.h \notin {"confirm", "decide", "live"}
  BY <1>2, NotYetMet
<1>8. PlaceOK'
  <2>1. link.h = "direct" => ~Asks(net'.direct.v)
    BY <1>1, <1>5 DEF Inv, PlaceOK, Asks
  <2>2. net'.direct.v # <<>> => ~Asks(Tail(net'.direct.v))
    <3>1. CASE net'.direct.v = net.direct.v
      BY <3>1 DEF Inv, PlaceOK
    <3>2. CASE net'.direct.v = net.direct.v \o <<F("eof")>>
      <4>1. net.direct.v \in Seq(Frame)
        BY <1>1 DEF Inv, Shape
      <4>. QED  BY <1>1, <3>2, <4>1, AsksNoMore DEF Inv, PlaceOK
    <3>. QED  BY <1>5, <3>1, <3>2
  <2>3. /\ \A s \in Sides : pc'[s] \in {"start", "await", "dial"} => link'[s] = "none"
        /\ \A s \in Sides : pc'[s] \notin {"start", "await", "dial", "over"} => link'[s] # "none"
    BY <1>2, <1>3, SidesAre DEF Inv, PlaceOK
  <2>4. pc'.h \notin {"confirm", "decide", "live"}
    BY <1>2, <1>7
  <2>. QED  BY <1>2, <1>3, <1>4, <2>1, <2>2, <2>3, <2>4 DEF PlaceOK, Asks
<1>9. FrameOK'
  <2>1. \A k \in Links, s \in Sides : \A f \in Within(net'[k][s]) :
           f \in Within(net[k][s]) \/ f.t = "eof"
    BY <1>1, <1>5, SidesAre DEF Links
  <2>. QED  BY <1>2, <1>3, <1>6, <1>7, <2>1, SidesAre, FrameStep DEF Inv, Spoken
<1>10. \A f \in FromHost' : f \in FromHost
  BY <1>2, <1>5 DEF FromHost
<1>11. TalkOK'
  BY <1>2, <1>10, TalkStep DEF Inv, Inside
<1>12. NewsOK'
  BY <1>2, <1>7, NewsCut DEF Connected
<1>. QED  BY <1>6, <1>8, <1>9, <1>11, <1>12 DEF Inv

LEMMA TakeDirectKeeps ==
    ASSUME Inv, TakeDirect
    PROVE  Inv'
<1>1. /\ "v" \in Sides /\ "h" \in Sides /\ "hello" \in Places /\ "direct" \in Links
      /\ F("eof") \in Frame /\ F("ack") \in Frame /\ F("eof").t = "eof" /\ F("ack").t = "ack"
  BY FrameIs DEF Sides, Places, Links, Kinds
<1>2. /\ UNCHANGED <<out, closed, route, served, knows, perms, counted, reason>>
      /\ net.direct.v \in Seq(Frame) /\ net.direct.v # <<>>
      /\ Head(net.direct.v).t = "preamble" /\ Asks(net.direct.v)
  <2>1. /\ UNCHANGED <<out, closed, route, served, knows, perms, counted, reason>>
        /\ net.direct.v # <<>> /\ Head(net.direct.v).t = "preamble"
    BY DEF TakeDirect, outcome
  <2>2. net.direct.v \in Seq(Frame)
    BY <1>1 DEF Inv, Shape
  <2>. QED  BY <2>1, <2>2, WithinTail DEF Asks
<1>3. link.h # "direct" /\ pc.v # "start"
  BY <1>2 DEF Inv, PlaceOK
<1>4. PICK answer \in Seq(Frame) :
         /\ \A f \in Within(answer) : f.t \in {"ack", "eof"}
         /\ net' = [net EXCEPT !.direct.v = Tail(net.direct.v), !.direct.h = answer]
  <2>1. <<F("eof")>> \in Seq(Frame) /\ \A f \in Within(<<F("eof")>>) : f.t \in {"ack", "eof"}
    BY <1>1, FrameOnly
  <2>2. <<F("ack")>> \in Seq(Frame) /\ \A f \in Within(<<F("ack")>>) : f.t \in {"ack", "eof"}
    BY <1>1, FrameOnly
  <2>3. /\ <<F("ack"), F("eof")>> \in Seq(Frame)
        /\ \A f \in Within(<<F("ack"), F("eof")>>) : f.t \in {"ack", "eof"}
    <3>1. ASSUME NEW f, NEW g  PROVE Within(<<f, g>>) = {f, g}
      <4>1. Len(<<f, g>>) = 2 /\ <<f, g>>[1] = f /\ <<f, g>>[2] = g
        OBVIOUS
      <4>. QED  BY <4>1 DEF Within
    <3>2. <<F("ack"), F("eof")>> \in Seq(Frame)
      BY <1>1
    <3>. QED  BY <1>1, <3>1, <3>2
  <2>4. PICK answer \in {<<F("eof")>>, <<F("ack")>>, <<F("ack"), F("eof")>>} :
           net' = [net EXCEPT !.direct.v = Tail(net.direct.v), !.direct.h = answer]
    BY DEF TakeDirect
  <2>. QED  BY <2>1, <2>2, <2>3, <2>4
<1>5. /\ net' \in [Links -> [Sides -> Seq(Frame)]] /\ net'.relay = net.relay
      /\ net'.direct.v = Tail(net.direct.v) /\ net'.direct.h = answer
      /\ Within(net'.direct.v) \subseteq Within(net.direct.v)
  <2>1. net \in [Links -> [Sides -> Seq(Frame)]] /\ net.direct \in [Sides -> Seq(Frame)]
    BY <1>1 DEF Inv, Shape
  <2>2. Tail(net.direct.v) \in Seq(Frame) /\ Within(Tail(net.direct.v)) \subseteq Within(net.direct.v)
    BY <1>2, WithinTail
  <2>3. net' = [net EXCEPT !.direct = [net.direct EXCEPT !.v = Tail(net.direct.v), !.h = answer]]
    BY <1>4
  <2>4. LET d == [net.direct EXCEPT !.v = Tail(net.direct.v), !.h = answer] IN
        d \in [Sides -> Seq(Frame)] /\ d.v = Tail(net.direct.v) /\ d.h = answer
    BY <1>1, <2>1, <2>2
  <2>. QED  BY <1>1, <2>1, <2>2, <2>3, <2>4 DEF Links
<1>6. \/ UNCHANGED <<pc, link, rx>>
      \/ /\ pc.h = "await" /\ pc' \in [Sides -> Places] /\ pc'.h = "hello" /\ pc'.v = pc.v
         /\ link' \in [Sides -> Links \cup {"none"}] /\ link'.h = "direct" /\ link'.v = link.v
         /\ rx' \in [Sides -> Seq(Frame)] /\ rx'.h = <<>> /\ rx'.v = rx.v
  <2>1. CASE pendingDirect /\ pc.h = "await"
    <3>1. /\ Goto("h", "hello") /\ link' = [link EXCEPT !.h = "direct"]
          /\ rx' = [rx EXCEPT !.h = <<>>] /\ Shape
      BY <2>1 DEF TakeDirect, Inv
    <3>2. pc' \in [Sides -> Places] /\ pc'.h = "hello" /\ pc'.v = pc.v
      BY <1>1, <3>1, SidesAre, GotoDoes
    <3>3. <<>> \in Seq(Frame)
      OBVIOUS
    <3>4. link \in [Sides -> Links \cup {"none"}] /\ rx \in [Sides -> Seq(Frame)]
      BY <3>1 DEF Shape
    <3>5. link' \in [Sides -> Links \cup {"none"}] /\ link'.h = "direct" /\ link'.v = link.v
      BY <1>1, <3>1, <3>4
    <3>6. rx' \in [Sides -> Seq(Frame)] /\ rx'.h = <<>> /\ rx'.v = rx.v
      BY <1>1, <3>1, <3>3, <3>4
    <3>. QED  BY <2>1, <3>2, <3>5, <3>6
  <2>2. CASE ~(pendingDirect /\ pc.h = "await")
    BY <2>2 DEF TakeDirect
  <2>. QED  BY <2>1, <2>2
<1>7. Shape'
  BY <1>2, <1>5, <1>6 DEF Inv, Shape
<1>8. ~Asks(net'.direct.v) /\ (net'.direct.v # <<>> => ~Asks(Tail(net'.direct.v)))
  <2>1. ~Asks(net'.direct.v)
    BY <1>2, <1>5 DEF Inv, PlaceOK
  <2>2. net'.direct.v \in Seq(Frame)
    BY <1>1, <1>5
  <2>. QED  BY <2>1, <2>2, WithinTail DEF Asks
<1>9. pc.h = "await" => /\ ~Met /\ link.h = "none"
                        /\ pc.v \notin {"confirm", "approval", "live"}
  BY NotYetMet
<1>10. PlaceOK'
  <2>1. /\ pc'.v = pc.v /\ link'.v = link.v /\ pc'.v # "start" /\ (link'.h = "relay" => link.h = "relay")
    BY <1>3, <1>6
  <2>2. /\ \A s \in Sides : pc'[s] \in {"start", "await", "dial"} => link'[s] = "none"
        /\ \A s \in Sides : pc'[s] \notin {"start", "await", "dial", "over"} => link'[s] # "none"
    BY <1>6, SidesAre DEF Inv, PlaceOK
  <2>3. /\ pc'.h \in {"confirm", "decide", "live"} => Met'
        /\ pc'.v \in {"confirm", "approval", "live"} => Met'
    BY <1>6, <1>9 DEF Inv, PlaceOK, Met
  <2>4. /\ (link'.v = "relay" /\ pc'.v # "over" /\ served') => route'.v
        /\ link'.h = "relay" => link'.v = "relay"
    BY <1>2, <2>1 DEF Inv, PlaceOK
  <2>. QED  BY <1>8, <2>1, <2>2, <2>3, <2>4 DEF PlaceOK, Asks
<1>11. FrameOK'
  <2>1. \A k \in Links, s \in Sides : \A f \in Within(net'[k][s]) :
           f \in Within(net[k][s]) \/ (s = "h" /\ f.t \in {"ack", "eof"})
    BY <1>4, <1>5, SidesAre DEF Links
  <2>2. /\ \A s \in Sides : link[s] # "none" => link'[s] = link[s]
        /\ rx'.v = rx.v
        /\ rx'.h # <<>> => rx'.h = rx.h /\ link' = link
    <3>1. CASE UNCHANGED <<pc, link, rx>>
      BY <3>1
    <3>2. CASE pc.h = "await" /\ link'.v = link.v /\ rx'.h = <<>> /\ rx'.v = rx.v
      BY <1>9, <3>2, SidesAre
    <3>. QED  BY <1>6, <3>1, <3>2
  <2>3. \A f \in Within(rx'.h) : f \in Within(rx.h)
    BY <1>6, WithinNone
  <2>4. rx'.h # <<>> => rx.h # <<>> /\ (link.h # "none" \/ link'.h \in {"none", "relay"})
    BY <2>2
  <2>. QED  BY <1>2, <1>7, <2>1, <2>2, <2>3, <2>4, SidesAre, FrameStep DEF Inv, Spoken
<1>12. \A f \in FromHost' : f \in FromHost \/ f.t \in {"ack", "eof"}
  BY <1>2, <1>4, <1>5, <1>6 DEF FromHost
<1>13. TalkOK'
  BY <1>2, <1>6, <1>12, TalkStep DEF Inv, Answering, Convinced
<1>14. NewsOK'
  <2>1. CASE pc'.h = "live"
    <3>1. UNCHANGED <<pc, link, rx>>
      BY <1>6, <2>1
    <3>2. link.h = "relay"
      BY <1>3, <2>1, <3>1 DEF Inv, PlaceOK, Met, Shape, Sides, Links
    <3>. QED  BY <1>2, <1>5, <3>1, <3>2, NewsStep DEF Inv, Connected
  <2>2. CASE pc'.h # "live"
    BY <2>2, NewsCut DEF Connected
  <2>. QED  BY <2>1, <2>2
<1>. QED  BY <1>7, <1>10, <1>11, <1>13, <1>14 DEF Inv

-----------------------------------------------------------------------------
(* Frames on their way *)

\* Nobody is heard by the viewer before the two have met; a host that has said what it
\* permits has met the viewer.
LEMMA LiveMeans ==
    ASSUME Inv, pc.h = "live"
    PROVE  link.h \in Links /\ link.v = link.h
BY SidesAre DEF Inv, PlaceOK, Met, Shape

LEMMA ForwardKeeps ==
    ASSUME Inv, NEW s \in Sides, Forward(s)
    PROVE  Inv'
<1>1. /\ UNCHANGED <<pc, link, rx, closed, route, served, knows, perms, counted, reason>>
      /\ out[s] # <<>> /\ out[s] \in Seq(Frame)
  BY DEF Forward, Inv, Shape, engines, outcome
<1>2. link[s] \in Links
  BY <1>1 DEF Inv, Shape, FrameOK
<1>3. /\ Head(out[s]) \in Frame /\ Head(out[s]) \in Within(out[s])
      /\ Tail(out[s]) \in Seq(Frame) /\ Within(Tail(out[s])) \subseteq Within(out[s])
  BY <1>1, WithinTail
<1>4. /\ out' \in [Sides -> Seq(Frame)] /\ out'[s] = Tail(out[s])
      /\ \A t \in Sides \ {s} : out'[t] = out[t]
  <2>1. out \in [Sides -> Seq(Frame)] /\ out' = [out EXCEPT ![s] = Tail(out[s])]
    BY DEF Inv, Shape, Forward
  <2>. QED  BY <1>3, <2>1
<1>5. /\ net' \in [Links -> [Sides -> Seq(Frame)]]
      /\ net'[link[s]][s] = net[link[s]][s] \o <<Head(out[s])>>
      /\ Within(net'[link[s]][s]) = Within(net[link[s]][s]) \cup {Head(out[s])}
      /\ \A j \in Links, t \in Sides : j # link[s] \/ t # s => net'[j][t] = net[j][t]
  <2>1. PICK fs \in Seq(Frame) : fs = <<Head(out[s])>> /\ Within(fs) = {Head(out[s])}
    BY <1>3, FrameOnly
  <2>2. PICK k \in Links : k = link[s]
    BY <1>2
  <2>3. Travel(k, s, fs) /\ Shape
    BY <2>1, <2>2 DEF Forward, Inv
  <2>4. /\ net' \in [Links -> [Sides -> Seq(Frame)]] /\ net'[k][s] = net[k][s] \o fs
        /\ Within(net'[k][s]) = Within(net[k][s]) \cup Within(fs)
        /\ \A j \in Links, t \in Sides : j # k \/ t # s => net'[j][t] = net[j][t]
    BY <2>3, TravelDoes
  <2>. QED  BY <2>1, <2>2, <2>4
<1>6. Shape'
  BY <1>1, <1>4, <1>5 DEF Inv, Shape
<1>7. PlaceOK'
  <2>1. /\ Asks(net'.direct.v) => Asks(net.direct.v)
        /\ net'.direct.v # <<>> => ~Asks(Tail(net'.direct.v))
    <3>1. CASE s = "v" /\ link.v = "direct"
      <4>1. net.direct.v \in Seq(Frame) /\ Head(out.v).t # "preamble"
        BY <1>3, <3>1, SidesAre DEF Inv, Shape, FrameOK, Links
      <4>2. net.direct.v # <<>> => ~Asks(Tail(net.direct.v))
        BY DEF Inv, PlaceOK
      <4>3. net'.direct.v = net.direct.v \o <<Head(out.v)>> /\ Head(out.v) \in Frame
        BY <1>3, <1>5, <3>1
      <4>. QED  BY <4>1, <4>2, <4>3, AsksNoMore
    <3>2. CASE ~(s = "v" /\ link.v = "direct")
      <4>1. net'.direct.v = net.direct.v
        BY <1>2, <1>5, <3>2, SidesAre DEF Links
      <4>. QED  BY <4>1 DEF Inv, PlaceOK
    <3>. QED  BY <3>1, <3>2
  <2>2. pc.v # "start" \/ s # "v"
    BY <1>2 DEF Inv, PlaceOK, Links
  <2>3. pc.v = "start" => net'.direct.v = <<>>
    BY <1>5, <2>2, SidesAre DEF Inv, PlaceOK, Links
  <2>. QED  BY <1>1, <2>1, <2>3 DEF Inv, PlaceOK, Met, Asks
<1>8. FrameOK'
  <2>1. \A k \in Links, t \in Sides : \A f \in Within(net'[k][t]) :
           f \in Within(net[k][t]) \/ (k = link[s] /\ t = s /\ f = Head(out[s]))
    <3>1. ASSUME NEW k \in Links, NEW t \in Sides, NEW f \in Within(net'[k][t])
          PROVE  f \in Within(net[k][t]) \/ (k = link[s] /\ t = s /\ f = Head(out[s]))
      <4>1. CASE k = link[s] /\ t = s
        BY <1>5, <3>1, <4>1
      <4>2. CASE ~(k = link[s] /\ t = s)
        <5>1. net'[k][t] = net[k][t]
          BY <1>5, <4>2
        <5>. QED  BY <3>1, <5>1
      <4>. QED  BY <4>1, <4>2
    <3>. QED  BY <3>1
  <2>2. \A t \in Sides : link'[t] = "none" => out'[t] = out[t]
    BY <1>1, <1>2, <1>4 DEF Links
  <2>3. \A k \in Links : \A f \in Within(net'[k].v) : f \in Within(net[k].v) \/ f \in Within(out.v)
    BY <1>3, <2>1, SidesAre
  <2>4. \A f \in Within(out'.v) : f \in Within(out.v)
    BY <1>3, <1>4, SidesAre
  <2>5. \A k \in Links, t \in Sides : \A f \in Within(net'[k][t]) :
           f \in Within(net[k][t]) \/ f.t \notin Spoken \/ link'[t] = k
    BY <1>1, <2>1
  <2>6. rx'.h # <<>> => rx.h # <<>> /\ (link.h # "none" \/ link'.h \in {"none", "relay"})
    BY <1>1
  <2>. QED  BY <1>1, <1>6, <2>2, <2>3, <2>4, <2>5, <2>6, FrameStep DEF Inv
<1>9. \A f \in FromHost' : f \in FromHost
  <2>1. \A k \in Links : \A f \in Within(net'[k].h) : f \in Within(net[k].h) \/ f \in Within(out.h)
    BY <1>2, <1>3, <1>5, SidesAre
  <2>2. \A f \in Within(out'.h) : f \in Within(out.h)
    BY <1>3, <1>4, SidesAre
  <2>. QED  BY <1>1, <2>1, <2>2 DEF FromHost, Links
<1>10. TalkOK'
  BY <1>1, <1>9, TalkStep DEF Inv
<1>11. NewsOK'
  <2>1. CASE pc.h # "live"
    BY <1>1, <2>1, NewsCut DEF Connected
  <2>2. CASE pc.h = "live" /\ s = "v"
    <3>1. link.h \in Links /\ link.v = link.h /\ net'[link.h].h = net[link.h].h
      BY <1>5, <2>2, LiveMeans, SidesAre
    <3>2. net'.direct.h = net.direct.h
      BY <1>5, <2>2, SidesAre DEF Links
    <3>3. out'.h = out.h
      BY <1>4, <2>2, SidesAre
    <3>. QED  BY <1>1, <3>1, <3>2, <3>3, NewsStep DEF Inv, Connected
  <2>3. CASE pc.h = "live" /\ s = "h"
    <3>1. link.h = "direct" => Within(net.direct.h) \subseteq Within(net'.direct.h)
      BY <1>5, <2>3
    <3>2. Connected' => Connected
      BY <1>1, <3>1 DEF Connected
    <3>3. /\ out.h # <<>> /\ out'.h = Tail(out.h) /\ link.h \in Links
          /\ net'[link.h].h = net[link.h].h \o <<Head(out.h)>>
      BY <1>1, <1>2, <1>4, <1>5, <2>3
    <3>. QED  BY <1>1, <3>2, <3>3, NewsSent DEF Inv
  <2>. QED  BY <2>1, <2>2, <2>3, SidesAre
<1>. QED  BY <1>6, <1>7, <1>8, <1>10, <1>11 DEF Inv

LEMMA BreakDirectKeeps ==
    ASSUME Inv, BreakDirect
    PROVE  Inv'
<1>1. /\ UNCHANGED <<pc, link, out, rx, closed, route, served, knows, perms, counted, reason>>
      /\ "v" \in Sides /\ "h" \in Sides /\ "direct" \in Links /\ "relay" \in Links
  BY DEF BreakDirect, engines, outcome, Sides, Links
<1>2. /\ F("eof").t = "eof" /\ <<F("eof")>> \in Seq(Frame) /\ Within(<<F("eof")>>) = {F("eof")}
      /\ Tail(<<F("eof")>>) = <<>>
  <2>1. F("eof") \in Frame /\ F("eof").t = "eof"
    BY FrameIs DEF Kinds
  <2>2. ASSUME NEW f  PROVE Tail(<<f>>) = <<>>
    OBVIOUS
  <2>. QED  BY <2>1, <2>2, FrameOnly
<1>3. /\ net' \in [Links -> [Sides -> Seq(Frame)]] /\ net'.relay = net.relay
      /\ net'.direct.v = <<F("eof")>> /\ net'.direct.h = <<F("eof")>>
  <2>1. PICK e \in Seq(Frame) : e = <<F("eof")>>
    BY <1>2
  <2>2. net \in [Links -> [Sides -> Seq(Frame)]] /\ net' = [net EXCEPT !.direct = [s \in Sides |-> e]]
    BY <2>1 DEF Inv, Shape, BreakDirect
  <2>. QED  BY <1>1, <2>1, <2>2 DEF Links
<1>4. Shape'
  BY <1>1, <1>3 DEF Inv, Shape
<1>5. PlaceOK'
  <2>1. PICK s \in Sides : link[s] = "direct"
    BY DEF BreakDirect
  <2>2. pc.v # "start"
    BY <2>1, SidesAre DEF Inv, PlaceOK
  <2>3. ~Asks(net'.direct.v) /\ ~Asks(Tail(net'.direct.v))
    BY <1>2, <1>3, WithinNone DEF Asks
  <2>. QED  BY <1>1, <2>2, <2>3 DEF Inv, PlaceOK, Met, Asks
<1>6. FrameOK'
  <2>1. \A k \in Links, s \in Sides : \A f \in Within(net'[k][s]) :
           f \in Within(net[k][s]) \/ f.t = "eof"
    BY <1>2, <1>3, SidesAre DEF Links
  <2>2. rx'.h # <<>> => rx.h # <<>> /\ (link.h # "none" \/ link'.h \in {"none", "relay"})
    BY <1>1
  <2>. QED  BY <1>1, <1>4, <2>1, <2>2, FrameStep DEF Inv, Spoken
<1>7. \A f \in FromHost' : f \in FromHost \/ f.t = "eof"
  BY <1>1, <1>2, <1>3 DEF FromHost
<1>8. TalkOK'
  BY <1>1, <1>7, TalkStep DEF Inv
<1>9. NewsOK'
  <2>1. CASE Connected'
    <3>1. link.h # "direct"
      BY <1>1, <1>2, <1>3, <2>1 DEF Connected
    <3>2. link.h = "relay"
      BY <1>1, <2>1, <3>1, LiveMeans DEF Connected, Links
    <3>. QED  BY <1>1, <1>3, <3>2, NewsStep DEF Inv, Connected
  <2>. QED  BY <2>1, NewsCut
<1>. QED  BY <1>4, <1>5, <1>6, <1>8, <1>9 DEF Inv

LEMMA BreakRelayKeeps ==
    ASSUME Inv, NEW s \in Sides, BreakRelay(s)
    PROVE  Inv'
<1>1. /\ UNCHANGED <<pc, link, out, rx, knows, perms, counted, reason>> /\ ~served'
      /\ "v" \in Sides /\ "h" \in Sides /\ "direct" \in Links /\ "relay" \in Links
      /\ Other(s) \in Sides
  BY SidesAre DEF BreakRelay, outcome, Sides, Links
<1>2. /\ net' \in [Links -> [Sides -> Seq(Frame)]] /\ net'.direct = net.direct
      /\ net'.relay.v = <<>> /\ net'.relay.h = <<>>
  <2>. <<>> \in Seq(Frame)
    OBVIOUS
  <2>1. PICK e \in Seq(Frame) : e = <<>>
    OBVIOUS
  <2>2. net \in [Links -> [Sides -> Seq(Frame)]] /\ net' = [net EXCEPT !.relay = [x \in Sides |-> e]]
    BY <2>1 DEF Inv, Shape, BreakRelay
  <2>. QED  BY <1>1, <2>1, <2>2 DEF Links
<1>3. /\ closed' \in [Sides -> BOOLEAN] /\ \A t \in Sides : closed[t] => closed'[t]
      /\ route' \in [Sides -> BOOLEAN]
  <2>1. /\ closed \in [Sides -> BOOLEAN] /\ route \in [Sides -> BOOLEAN]
        /\ route' = [route EXCEPT ![Other(s)] = FALSE] /\ Cut(Other(s), "relay")
    BY DEF Inv, Shape, BreakRelay
  <2>. QED  BY <1>1, <2>1, CutDoes DEF Inv
<1>4. Shape'
  BY <1>1, <1>2, <1>3 DEF Inv, Shape
<1>5. PlaceOK'
  BY <1>1, <1>2 DEF Inv, PlaceOK, Met, Asks
<1>6. FrameOK'
  <2>1. \A k \in Links, t \in Sides : \A f \in Within(net'[k][t]) : f \in Within(net[k][t])
    BY <1>2, WithinNone, SidesAre DEF Links
  <2>2. rx'.h # <<>> => rx.h # <<>> /\ (link.h # "none" \/ link'.h \in {"none", "relay"})
    BY <1>1
  <2>. QED  BY <1>1, <1>4, <2>1, <2>2, FrameStep DEF Inv
<1>7. \A f \in FromHost' : f \in FromHost
  BY <1>1, <1>2, WithinNone DEF FromHost
<1>8. TalkOK'
  BY <1>1, <1>7, TalkStep DEF Inv
<1>9. NewsOK'
  <2>1. CASE Connected'
    <3>1. link.h = "direct"
      BY <1>1, <2>1, LiveMeans DEF Connected, Links
    <3>2. Connected
      BY <1>1, <1>2, <1>3, <2>1, <3>1 DEF Connected
    <3>. QED  BY <1>1, <1>2, <3>1, <3>2, NewsStep DEF Inv
  <2>. QED  BY <2>1, NewsCut
<1>. QED  BY <1>4, <1>5, <1>6, <1>8, <1>9 DEF Inv

\* A frame of the host that says nothing of the permissions gets lost.
LEMMA NewsDropped ==
    ASSUME Shape, NewsOK, Connected' => Connected, link'.h = link.h, perms' = perms,
           pc' = pc, out'.h = out.h, rx'.v = rx.v, link.h \in Links,
           net[link.h].h # <<>>, net'[link.h].h = Tail(net[link.h].h),
           ~Tells(Head(net[link.h].h))
    PROVE  NewsOK'
<1>1. net[link.h].h \in Seq(Frame)
  BY SidesAre DEF Shape
<1>2. /\ LastSays(net[link.h].h, perms.h) => LastSays(Tail(net[link.h].h), perms.h)
      /\ Quiet(net[link.h].h) <=> Quiet(Tail(net[link.h].h))
  BY <1>1, SaysTail
<1>. QED  BY <1>2 DEF NewsOK

\* What arrives, and what is left.
LEMMA ArriveDoes ==
    ASSUME Inv, NEW k \in Links, NEW s \in Sides, Arrive(k, s)
    PROVE  /\ UNCHANGED <<pc, link, out, knows, perms, counted, reason>>
           /\ net[k][s] # <<>> /\ Head(net[k][s]) \in Within(net[k][s])
           /\ Head(net[k][s]) \in Frame /\ Head(net[k][s]).t # "preamble"
           /\ net' \in [Links -> [Sides -> Seq(Frame)]] /\ net'[k][s] = Tail(net[k][s])
           /\ Within(net[k][s]) \subseteq {Head(net[k][s])} \cup Within(net'[k][s])
           /\ \A j \in Links, x \in Sides : j # k \/ x # s => net'[j][x] = net[j][x]
           /\ \A j \in Links, x \in Sides : Within(net'[j][x]) \subseteq Within(net[j][x])
<1>1. /\ UNCHANGED <<pc, link, out, knows, perms, counted, reason>>
      /\ net[k][s] # <<>> /\ Head(net[k][s]).t # "preamble"
      /\ net' = [net EXCEPT ![k][s] = Tail(net[k][s])]
  BY DEF Arrive, outcome
<1>2. net \in [Links -> [Sides -> Seq(Frame)]] /\ net[k] \in [Sides -> Seq(Frame)]
      /\ net[k][s] \in Seq(Frame)
  BY DEF Inv, Shape
<1>3. /\ Tail(net[k][s]) \in Seq(Frame) /\ Head(net[k][s]) \in Within(net[k][s])
      /\ Head(net[k][s]) \in Frame
      /\ Within(Tail(net[k][s])) \subseteq Within(net[k][s])
  BY <1>1, <1>2, WithinTail
<1>4. Within(net[k][s]) \subseteq {Head(net[k][s])} \cup Within(Tail(net[k][s]))
  BY <1>1, <1>2, WithinSplit
<1>5. net' = [net EXCEPT ![k] = [net[k] EXCEPT ![s] = Tail(net[k][s])]]
  BY <1>1
<1>6. [net[k] EXCEPT ![s] = Tail(net[k][s])] \in [Sides -> Seq(Frame)]
  BY <1>2, <1>3
<1>7. /\ net' \in [Links -> [Sides -> Seq(Frame)]] /\ net'[k][s] = Tail(net[k][s])
      /\ \A j \in Links, x \in Sides : j # k \/ x # s => net'[j][x] = net[j][x]
  BY <1>2, <1>5, <1>6
<1>8. \A j \in Links, x \in Sides : Within(net'[j][x]) \subseteq Within(net[j][x])
  <2>1. ASSUME NEW j \in Links, NEW x \in Sides
        PROVE  Within(net'[j][x]) \subseteq Within(net[j][x])
    <3>1. CASE j = k /\ x = s
      BY <1>3, <1>7, <3>1
    <3>2. CASE ~(j = k /\ x = s)
      <4>1. net'[j][x] = net[j][x]
        BY <1>7, <3>2
      <4>. QED  BY <4>1
    <3>. QED  BY <3>1, <3>2
  <2>. QED  BY <2>1
<1>. QED  BY <1>1, <1>3, <1>4, <1>7, <1>8

\* The links stay as they are, and nobody asks again.
LEMMA ArriveKeepsPlace ==
    ASSUME Inv, NEW k \in Links, NEW s \in Sides, Arrive(k, s),
           served' => served /\ route'.v = route.v
    PROVE  PlaceOK'
<1>1. /\ UNCHANGED <<pc, link>>
      /\ net[k][s] # <<>> /\ net'[k][s] = Tail(net[k][s]) /\ net'[k][s] \in Seq(Frame)
      /\ \A j \in Links, x \in Sides : j # k \/ x # s => net'[j][x] = net[j][x]
  BY ArriveDoes
<1>2. /\ Asks(net'.direct.v) => Asks(net.direct.v)
      /\ net'.direct.v # <<>> => ~Asks(Tail(net'.direct.v))
      /\ pc.v = "start" => net'.direct.v = <<>>
  <2>1. CASE k = "direct" /\ s = "v"
    <3>1. ~Asks(net'.direct.v) /\ net'.direct.v \in Seq(Frame) /\ pc.v # "start"
      BY <1>1, <2>1 DEF Inv, PlaceOK
    <3>. QED  BY <3>1, WithinTail DEF Asks
  <2>2. CASE ~(k = "direct" /\ s = "v")
    <3>1. net'.direct.v = net.direct.v
      BY <1>1, <2>2, SidesAre DEF Links
    <3>. QED  BY <3>1 DEF Inv, PlaceOK
  <2>. QED  BY <2>1, <2>2
<1>. QED  BY <1>1, <1>2 DEF Inv, PlaceOK, Met, Asks

\* A frame is taken only by a side that uses the link it came over, or that will.
LEMMA MessageKeeps ==
    ASSUME Inv, NEW k \in Links, NEW s \in Sides, Arrive(k, s),
           Head(net[k][s]).t \notin {"end", "eof"}
    PROVE  Inv'
<1>. DEFINE t == Other(s)
            m == Head(net[k][s])
            Taken == IF k = "relay" THEN served /\ route[t] /\ link[t] # "direct"
                                    ELSE link[t] = k /\ ~closed[t]
<1>1. /\ UNCHANGED <<pc, link, out, knows, perms, counted, reason>>
      /\ net[k][s] # <<>> /\ m \in Within(net[k][s]) /\ m \in Frame /\ m.t # "preamble"
      /\ net' \in [Links -> [Sides -> Seq(Frame)]] /\ net'[k][s] = Tail(net[k][s])
      /\ Within(net[k][s]) \subseteq {m} \cup Within(net'[k][s])
      /\ \A j \in Links, x \in Sides : j # k \/ x # s => net'[j][x] = net[j][x]
      /\ \A j \in Links, x \in Sides : Within(net'[j][x]) \subseteq Within(net[j][x])
  BY ArriveDoes
<1>2. /\ rx' = IF Taken THEN [rx EXCEPT ![t] = Append(rx[t], m)] ELSE rx
      /\ UNCHANGED <<closed, route, served>>
  BY DEF Arrive, engines
<1>3. t \in Sides /\ t # s /\ rx \in [Sides -> Seq(Frame)] /\ rx[t] \in Seq(Frame)
  BY SidesAre DEF Inv, Shape
<1>4. s = "v" => m.t \in Spoken
  BY <1>1 DEF Inv, FrameOK, Frame, Kinds
<1>. HIDE DEF m, Taken, t
<1>5. /\ rx[t] \o <<m>> \in Seq(Frame) /\ Within(rx[t] \o <<m>>) = Within(rx[t]) \cup {m}
      /\ Append(rx[t], m) = rx[t] \o <<m>>
  <2>1. <<m>> \in Seq(Frame) /\ Within(<<m>>) = {m}
    BY <1>1, FrameOnly
  <2>2. PICK q \in Seq(Frame) : q = rx[t]
    BY <1>3
  <2>3. PICK r \in Seq(Frame) : r = <<m>>
    BY <2>1
  <2>4. q \o r \in Seq(Frame) /\ Within(q \o r) = Within(q) \cup Within(r)
    BY WithinConcat
  <2>5. Append(q, m) = q \o <<m>>
    BY <1>1, AppendIsConcat
  <2>. QED  BY <2>1, <2>2, <2>3, <2>4, <2>5
<1>6. CASE ~Taken
  <2>1. rx' = rx
    BY <1>2, <1>6
  <2>2. Shape'
    BY <1>1, <1>2, <2>1 DEF Inv, Shape
  <2>3. PlaceOK'
    BY <1>2, ArriveKeepsPlace
  <2>4. FrameOK'
    <3>1. \A j \in Links, x \in Sides : \A f \in Within(net'[j][x]) : f \in Within(net[j][x])
      BY <1>1
    <3>2. rx'.h # <<>> => rx.h # <<>> /\ (link.h # "none" \/ link'.h \in {"none", "relay"})
      BY <1>1, <2>1
    <3>. QED  BY <1>1, <2>1, <2>2, <3>1, <3>2, SidesAre, FrameStep DEF Inv
  <2>5. \A f \in FromHost' : f \in FromHost
    BY <1>1, <2>1, SidesAre DEF FromHost, Links
  <2>6. TalkOK'
    BY <1>1, <2>5, TalkStep DEF Inv
  <2>7. NewsOK'
    <3>1. CASE Connected'
      <4>1. link.h \in Links /\ link.v = link.h
        BY <1>1, <3>1, LiveMeans DEF Connected
      <4>2. k # link.h \/ s # "h"
        <5>1. ASSUME k = link.h, s = "h"  PROVE FALSE
          <6>1. t = "v" /\ link.v = k
            BY <4>1, <5>1, SidesAre DEF t
          <6>2. ~closed.v /\ (k = "relay" => served /\ route.v)
            BY <1>1, <1>2, <3>1, <4>1, <5>1 DEF Connected, Inv, PlaceOK
          <6>3. k = "relay" => link.v # "direct"
            BY <6>1
          <6>. QED  BY <1>6, <6>1, <6>2, <6>3 DEF Taken
        <5>. QED  BY <5>1
      <4>3. net'[link.h].h = net[link.h].h
        BY <1>1, <4>1, <4>2, SidesAre
      <4>4. Connected
        BY <1>1, <1>2, <3>1, <4>3 DEF Connected
      <4>. QED  BY <1>1, <2>1, <4>3, <4>4, NewsStep DEF Inv
    <3>. QED  BY <3>1, NewsCut
  <2>. QED  BY <2>2, <2>3, <2>4, <2>6, <2>7 DEF Inv
<1>7. CASE Taken
  <2>1. /\ rx' \in [Sides -> Seq(Frame)] /\ rx'[t] = rx[t] \o <<m>>
        /\ Within(rx'[t]) = Within(rx[t]) \cup {m}
        /\ \A x \in Sides \ {t} : rx'[x] = rx[x]
    <3>1. PICK q \in Seq(Frame) : q = rx[t] \o <<m>>
      BY <1>5
    <3>2. rx' = [rx EXCEPT ![t] = q]
      BY <1>2, <1>5, <1>7, <3>1
    <3>. QED  BY <1>3, <1>5, <3>1, <3>2
  <2>2. Shape'
    BY <1>1, <1>2, <2>1 DEF Inv, Shape
  <2>3. PlaceOK'
    BY <1>2, ArriveKeepsPlace
  <2>4. m.t \in Spoken => link[s] = k
    BY <1>1 DEF Inv, FrameOK
  <2>5. link.h = "relay" => link.v = "relay"
    BY DEF Inv, PlaceOK
  <2>6. k \in {"direct", "relay"} /\ link.h \in {"none", "direct", "relay"}
    BY SidesAre DEF Links, Inv, Shape
  <2>7. s = "h" /\ m.t \in Spoken => Met
    <3>1. ASSUME s = "h", m.t \in Spoken  PROVE Met
      <4>1. t = "v" /\ link.h = k /\ (k = "direct" => link.v = "direct")
        BY <1>7, <2>4, <2>6, <3>1, SidesAre DEF t, Taken
      <4>. QED  BY <2>5, <2>6, <4>1 DEF Met
    <3>. QED  BY <3>1
  <2>8. s = "v" => Met \/ (link.h = "none" /\ link.v = "relay")
    <3>1. ASSUME s = "v"  PROVE Met \/ (link.h = "none" /\ link.v = "relay")
      <4>1. t = "h" /\ link.v = k
        BY <1>4, <2>4, <3>1, SidesAre DEF t
      <4>2. CASE k = "relay"
        <5>1. link.h # "direct"
          BY <1>7, <4>1, <4>2 DEF Taken
        <5>. QED  BY <2>6, <4>1, <4>2, <5>1 DEF Met
      <4>3. CASE k = "direct"
        <5>1. link.h = "direct"
          BY <1>7, <4>1, <4>3 DEF Taken
        <5>. QED  BY <4>1, <4>3, <5>1 DEF Met
      <4>. QED  BY <2>6, <4>2, <4>3
    <3>. QED  BY <3>1
  <2>9. FrameOK'
    <3>1. \A j \in Links, x \in Sides : \A f \in Within(net'[j][x]) : f \in Within(net[j][x])
      BY <1>1
    <3>2. \A f \in Within(rx'.v) : f \in Within(rx.v) \/ f.t \notin Spoken \/ Met'
      <4>1. CASE s = "h"
        BY <1>1, <2>1, <2>7, <4>1, SidesAre DEF t, Met
      <4>2. CASE s = "v"
        BY <2>1, <4>2, SidesAre DEF t
      <4>. QED  BY <4>1, <4>2, SidesAre
    <3>3. rx'.h # <<>> => \/ rx.h # <<>> /\ (link.h # "none" \/ link'.h \in {"none", "relay"})
                          \/ Met' \/ (link'.h = "none" /\ link'.v = "relay")
      <4>1. CASE s = "v"
        BY <1>1, <2>8, <4>1 DEF Met
      <4>2. CASE s = "h"
        <5>1. rx'.h = rx.h
          BY <2>1, <4>2, SidesAre DEF t
        <5>. QED  BY <1>1, <5>1
      <4>. QED  BY <4>1, <4>2, SidesAre
    <3>4. \A f \in Within(rx'.h) : f \in Within(rx.h) \/ f.t \in Spoken
      <4>1. CASE s = "v"
        BY <1>4, <2>1, <4>1, SidesAre DEF t
      <4>2. CASE s = "h"
        BY <2>1, <4>2, SidesAre DEF t
      <4>. QED  BY <4>1, <4>2, SidesAre
    <3>. QED  BY <1>1, <2>2, <3>1, <3>2, <3>3, <3>4, SidesAre, FrameStep DEF Inv
  <2>10. \A f \in FromHost' : f \in FromHost
    <3>1. \A f \in Within(rx'.v) : f \in FromHost
      <4>1. CASE s = "h"
        <5>1. m \in FromHost
          <6>1. CASE k = "direct"
            BY <1>1, <4>1, <6>1 DEF FromHost
          <6>2. CASE k = "relay"
            BY <1>1, <4>1, <6>2 DEF FromHost
          <6>. QED  BY <2>6, <6>1, <6>2
        <5>2. Within(rx'.v) = Within(rx.v) \cup {m}
          BY <2>1, <4>1, SidesAre DEF t
        <5>. QED  BY <5>1, <5>2 DEF FromHost
      <4>2. CASE s = "v"
        BY <2>1, <4>2, SidesAre DEF t, FromHost
      <4>. QED  BY <4>1, <4>2, SidesAre
    <3>. QED  BY <1>1, <3>1, SidesAre DEF FromHost, Links
  <2>11. TalkOK'
    BY <1>1, <2>10, TalkStep DEF Inv
  <2>12. NewsOK'
    <3>1. CASE Connected' /\ s = "h"
      <4>1. link.h \in Links /\ link.v = link.h
        BY <1>1, <3>1, LiveMeans DEF Connected
      <4>2. k = link.h
        BY <1>7, <2>6, <3>1, <4>1, SidesAre DEF t, Taken, Links
      <4>3. Connected
        <5>1. ASSUME link.h = "direct", NEW f \in Within(net.direct.h)  PROVE f.t # "eof"
          BY <1>1, <3>1, <4>2, <5>1 DEF Connected, m
        <5>. QED  BY <1>1, <1>2, <3>1, <5>1 DEF Connected
      <4>4. rx'.v = rx.v \o <<Head(net[link.h].h)>>
        BY <2>1, <3>1, <4>2, SidesAre DEF t, m
      <4>. QED  BY <1>1, <3>1, <4>1, <4>2, <4>3, <4>4, NewsArrived DEF Inv
    <3>2. CASE Connected' /\ s = "v"
      <4>1. link.h \in Links
        BY <1>1, <3>2, LiveMeans DEF Connected
      <4>2. net'[link.h].h = net[link.h].h /\ net'.direct.h = net.direct.h
        BY <1>1, <3>2, <4>1, SidesAre DEF Links
      <4>3. Connected
        BY <1>1, <1>2, <3>2, <4>2 DEF Connected
      <4>4. rx'.v = rx.v
        BY <2>1, <3>2, SidesAre DEF t
      <4>. QED  BY <1>1, <4>2, <4>3, <4>4, NewsStep DEF Inv
    <3>. QED  BY <3>1, <3>2, NewsCut, SidesAre
  <2>. QED  BY <2>2, <2>3, <2>9, <2>11, <2>12 DEF Inv
<1>. QED  BY <1>6, <1>7

\* The end of the session at the server, or of the stream.
LEMMA CutKeeps ==
    ASSUME Inv, NEW k \in Links, NEW s \in Sides, Arrive(k, s),
           Head(net[k][s]).t \in {"end", "eof"}
    PROVE  Inv'
<1>. DEFINE m == Head(net[k][s])
<1>1. /\ UNCHANGED <<pc, link, out, knows, perms, counted, reason>>
      /\ net[k][s] # <<>> /\ m \in Within(net[k][s]) /\ m \in Frame
      /\ net' \in [Links -> [Sides -> Seq(Frame)]] /\ net'[k][s] = Tail(net[k][s])
      /\ Within(net[k][s]) \subseteq {m} \cup Within(net'[k][s])
      /\ \A j \in Links, x \in Sides : j # k \/ x # s => net'[j][x] = net[j][x]
      /\ \A j \in Links, x \in Sides : Within(net'[j][x]) \subseteq Within(net[j][x])
  BY ArriveDoes
<1>2. Other(s) \in Sides /\ closed \in [Sides -> BOOLEAN] /\ route \in [Sides -> BOOLEAN] /\ Shape
  BY SidesAre DEF Inv, Shape
<1>3. /\ rx' = rx /\ closed' \in [Sides -> BOOLEAN] /\ route' \in [Sides -> BOOLEAN]
      /\ \A x \in Sides : closed[x] => closed'[x]
      /\ \/ m.t = "end" /\ ~served' /\ (served /\ link[Other(s)] = k => closed'[Other(s)])
         \/ m.t = "eof" /\ served' = served /\ route' = route
            /\ (link[Other(s)] = k => closed'[Other(s)])
  <2>1. CASE m.t = "end"
    <3>1. /\ ~served' /\ rx' = rx
          /\ IF served THEN route' = [route EXCEPT ![Other(s)] = FALSE] /\ Cut(Other(s), k)
                       ELSE UNCHANGED <<route, closed>>
      BY <2>1 DEF Arrive
    <3>2. CASE served
      BY <1>2, <2>1, <3>1, <3>2, CutDoes
    <3>3. CASE ~served
      BY <1>2, <2>1, <3>1, <3>3
    <3>. QED  BY <3>2, <3>3
  <2>2. CASE m.t = "eof"
    <3>1. Cut(Other(s), k) /\ UNCHANGED <<rx, served, route>>
      BY <2>2 DEF Arrive, engines
    <3>. QED  BY <1>2, <2>2, <3>1, CutDoes
  <2>. QED  BY <2>1, <2>2
<1>4. Shape'
  BY <1>1, <1>3 DEF Inv, Shape
<1>5. PlaceOK'
  BY <1>3, ArriveKeepsPlace
<1>6. FrameOK'
  <2>1. \A j \in Links, x \in Sides : \A f \in Within(net'[j][x]) : f \in Within(net[j][x])
    BY <1>1
  <2>2. rx'.h # <<>> => rx.h # <<>> /\ (link.h # "none" \/ link'.h \in {"none", "relay"})
    BY <1>1, <1>3
  <2>. QED  BY <1>1, <1>3, <1>4, <2>1, <2>2, SidesAre, FrameStep DEF Inv
<1>7. \A f \in FromHost' : f \in FromHost
  BY <1>1, <1>3, SidesAre DEF FromHost, Links
<1>8. TalkOK'
  BY <1>1, <1>7, TalkStep DEF Inv
<1>9. NewsOK'
  <2>1. CASE Connected'
    <3>1. link.h \in Links /\ link.v = link.h
      BY <1>1, <2>1, LiveMeans DEF Connected
    <3>2. CASE k # link.h \/ s # "h"
      <4>1. net'[link.h].h = net[link.h].h
        BY <1>1, <3>1, <3>2, SidesAre
      <4>2. Connected
        BY <1>1, <1>3, <2>1, <4>1, SidesAre DEF Connected
      <4>. QED  BY <1>1, <1>3, <4>1, <4>2, NewsStep DEF Inv
    <3>3. CASE k = link.h /\ s = "h"
      <4>1. Other(s) = "v" /\ link.v = k /\ ~closed'.v
        BY <2>1, <3>1, <3>3, SidesAre DEF Connected
      <4>2. ~served /\ ~served' /\ m.t = "end"
        BY <1>3, <4>1 DEF m
      <4>3. k = "direct"
        BY <1>1, <2>1, <3>3, <4>2 DEF Connected, Links
      <4>4. Connected
        <5>1. ASSUME NEW f \in Within(net.direct.h)  PROVE f.t # "eof"
          BY <1>1, <2>1, <3>3, <4>2, <4>3, <5>1 DEF Connected
        <5>2. ~closed.v
          BY <1>3, <4>1, SidesAre
        <5>. QED  BY <1>1, <2>1, <3>3, <4>3, <5>1, <5>2 DEF Connected
      <4>5. ~Tells(Head(net[link.h].h))
        BY <3>3, <4>2 DEF Tells, m
      <4>. QED  BY <1>1, <1>3, <3>1, <3>3, <4>4, <4>5, NewsDropped DEF Inv
    <3>. QED  BY <3>2, <3>3
  <2>. QED  BY <2>1, NewsCut
<1>. QED  BY <1>4, <1>5, <1>6, <1>8, <1>9 DEF Inv

-----------------------------------------------------------------------------
(* The invariant *)

LEMMA InvInit == Init => Inv
<1>. SUFFICES ASSUME Init  PROVE Inv
  OBVIOUS
<1>1. <<>> \in Seq(Frame) /\ Within(<<>>) = {} /\ "v" \in Sides /\ "h" \in Sides
      /\ "direct" \in Links /\ "relay" \in Links
  BY WithinNone DEF Sides, Links
<1>2. /\ pc.v = "start" /\ pc.h = "start" /\ link.v = "none" /\ link.h = "none"
      /\ out.v = <<>> /\ out.h = <<>> /\ rx.v = <<>> /\ rx.h = <<>>
      /\ reason.v = "none"
      /\ \A k \in Links, s \in Sides : net[k][s] = <<>>
  BY <1>1 DEF Init
<1>3. Shape
  BY <1>1 DEF Init, Shape, Places, Reasons
<1>4. PlaceOK
  BY <1>1, <1>2, SidesAre DEF PlaceOK, Asks
<1>5. FrameOK
  BY <1>1, <1>2, SidesAre DEF FrameOK
<1>6. TalkOK
  BY <1>1, <1>2 DEF TalkOK, FromHost, Inside
<1>7. NewsOK
  BY <1>2 DEF NewsOK, Connected
<1>. QED  BY <1>3, <1>4, <1>5, <1>6, <1>7 DEF Inv

LEMMA InvNext == Inv /\ [Next]_vars => Inv'
<1>. SUFFICES ASSUME Inv, [Next]_vars  PROVE Inv'
  OBVIOUS
<1>1. CASE Linking
  BY <1>1, RefusedKeeps, HostWaitsKeeps, DialKeeps, TakeDirectKeeps, DirectWorksKeeps,
     TakeRelayKeeps, RelayChosenKeeps DEF Linking
<1>2. CASE Shaking
  BY <1>2, SayHelloKeeps, ReplyKeeps, ConfirmKeeps, VerifiedKeeps, BadPasswordKeeps,
     ConfirmedKeeps, AbortedKeeps, AcceptKeeps, RejectKeeps, AnsweredKeeps DEF Shaking
<1>3. CASE PermissionsChanged \/ SetPermissions
  BY <1>3, PermissionsChangedKeeps, SetPermissionsKeeps
<1>4. CASE VideoFails
  BY <1>4, SidesAre, EndingKeeps
<1>5. CASE BreakDirect
  BY <1>5, BreakDirectKeeps
<1>6. ASSUME NEW s \in Sides, Moving(s) \/ Ending(s) \/ SayBye(s) \/ BreakRelay(s)
      PROVE  Inv'
  <2>1. CASE Moving(s)
    <3>1. CASE Forward(s)
      BY <3>1, ForwardKeeps
    <3>2. ASSUME NEW k \in Links, Arrive(k, s)  PROVE Inv'
      BY <3>2, MessageKeeps, CutKeeps
    <3>. QED  BY <2>1, <3>1, <3>2 DEF Moving
  <2>. QED  BY <1>6, <2>1, EndingKeeps, SayByeKeeps, BreakRelayKeeps
<1>7. CASE UNCHANGED vars
  <2>1. UNCHANGED <<pc, link, out, net, rx, closed, route, served, knows, perms, counted, reason>>
    BY <1>7 DEF vars, traffic, engines, outcome
  <2>2. Shape'
    BY <2>1 DEF Inv, Shape
  <2>3. PlaceOK'
    BY <2>1 DEF Inv, PlaceOK, Met, Asks
  <2>4. FrameOK'
    BY <2>1 DEF Inv, FrameOK, Met
  <2>5. TalkOK'
    BY <2>1 DEF Inv, TalkOK, FromHost, Inside
  <2>6. NewsOK'
    BY <2>1 DEF Inv, NewsOK, Connected
  <2>. QED  BY <2>2, <2>3, <2>4, <2>5, <2>6 DEF Inv
<1>. QED  BY <1>1, <1>2, <1>3, <1>4, <1>5, <1>6, <1>7 DEF Next

\* Nothing of the news is under way, so the viewer has heard the last of it.
LEMMA NewsIsHeard == Inv => SidesAgree
<1>. SUFFICES ASSUME Inv  PROVE SidesAgree
  OBVIOUS
<1>1. pc.v \in Inside => knows /\ link.v = link.h /\ pc.h \in {"decide", "live", "drain", "over"}
  BY DEF Inv, TalkOK, PlaceOK, Met, Inside, Convinced
<1>2. reason.v = "wrongPassword" => counted
  BY DEF Inv, TalkOK
<1>3. ASSUME pc.v = "live", pc.h = "live", rx.v = <<>>, out.h = <<>>, net[link.h].h = <<>>,
             served, ~closed.v
      PROVE  perms.v = perms.h
  <2>1. Connected
    BY <1>3, WithinNone DEF Connected
  <2>2. Quiet(out.h) /\ Quiet(net[link.h].h) /\ Quiet(rx.v)
    BY <1>3, SaysNothing
  <2>. QED  BY <1>3, <2>1, <2>2 DEF Inv, NewsOK
<1>. QED  BY <1>1, <1>2, <1>3 DEF SidesAgree

\* Whatever breaks, is cut or comes late: a viewer that is through the handshake knows the
\* password and is met on the same link by a host that has let it through; the attempt of
\* one that learnt that its password is wrong was counted; and once the news has arrived,
\* both sides have the same permissions.
THEOREM SidesStayAgreed == Spec => []SidesAgree
<1>1. Init => Inv
  BY InvInit
<1>2. Inv /\ [Next]_vars => Inv'
  BY InvNext
<1>3. Inv => SidesAgree
  BY NewsIsHeard
<1>. QED  BY <1>1, <1>2, <1>3, PTL DEF Spec
=============================================================================
