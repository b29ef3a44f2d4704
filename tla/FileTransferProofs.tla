------------------------- MODULE FileTransferProofs -------------------------
(***************************************************************************)
(* Proofs about FileTransfer, for every set of sources, number of          *)
(* transfers and size of the bulk lane: the chunks on their way continue   *)
(* the file they are for, and without the file permission nothing runs at  *)
(* the receiver.                                                           *)
(***************************************************************************)
EXTENDS FileTransfer, FiniteSetTheorems, SequenceTheorems, TLAPS

-----------------------------------------------------------------------------
(* Sequences of messages, whatever the messages are *)

IsSeq(q) == \E T : q \in Seq(T)

\* r is q with ms put in somewhere.
Inserted(q, ms, r) ==
    \E i \in 0..Len(q) :
        /\ Len(r) = Len(q) + Len(ms)
        /\ \A k \in 1..i : r[k] = q[k]
        /\ \A k \in 1..Len(ms) : r[i + k] = ms[k]
        /\ \A k \in (i + 1)..Len(q) : r[k + Len(ms)] = q[k]

LEMMA LenOf == ASSUME NEW q, IsSeq(q) PROVE Len(q) \in Nat
BY LenProperties DEF IsSeq

LEMMA TailOf ==
    ASSUME NEW q, IsSeq(q), q # <<>>
    PROVE  /\ IsSeq(Tail(q)) /\ Head(q) = q[1] /\ 1 \in 1..Len(q)
           /\ Len(Tail(q)) = Len(q) - 1 /\ Len(q) \in Nat
           /\ \A k \in 1..Len(Tail(q)) : k + 1 \in 1..Len(q) /\ Tail(q)[k] = q[k + 1]
<1>1. PICK T : q \in Seq(T)
  BY DEF IsSeq
<1>2. /\ Tail(q) \in Seq(T) /\ Head(q) = q[1] /\ Len(Tail(q)) = Len(q) - 1 /\ Len(q) \in Nat
      /\ \A k \in 1..Len(Tail(q)) : Tail(q)[k] = q[k + 1]
  BY <1>1, HeadTailProperties, LenProperties
<1>3. 1 \in 1..Len(q)
  BY <1>1
<1>. QED  BY <1>2, <1>3 DEF IsSeq

\* r is q followed by ms.
Concat(q, ms, r) == /\ IsSeq(r) /\ Len(r) = Len(q) + Len(ms)
                    /\ \A k \in 1..Len(q) : r[k] = q[k]
                    /\ \A k \in 1..Len(ms) : r[Len(q) + k] = ms[k]

LEMMA ConcatOf ==
    ASSUME NEW q, IsSeq(q), NEW ms, IsSeq(ms)
    PROVE  Concat(q, ms, q \o ms)
<1>1. PICK T : q \in Seq(T)
  BY DEF IsSeq
<1>2. PICK U : ms \in Seq(U)
  BY DEF IsSeq
<1>3. q \in Seq(T \cup U) /\ ms \in Seq(T \cup U)
  BY <1>1, <1>2, SeqMonotonic
<1>4. /\ q \o ms \in Seq(T \cup U) /\ Len(q \o ms) = Len(q) + Len(ms)
      /\ \A i \in 1..(Len(q) + Len(ms)) :
            (q \o ms)[i] = IF i <= Len(q) THEN q[i] ELSE ms[i - Len(q)]
  BY <1>3, ConcatProperties
<1>5. Len(q) \in Nat /\ Len(ms) \in Nat
  BY LenOf
<1>6. ASSUME NEW k \in 1..Len(q) PROVE (q \o ms)[k] = q[k]
  BY <1>4, <1>5
<1>7. ASSUME NEW k \in 1..Len(ms) PROVE (q \o ms)[Len(q) + k] = ms[k]
  <2>1. Len(q) + k \in 1..(Len(q) + Len(ms)) /\ ~(Len(q) + k <= Len(q)) /\ (Len(q) + k) - Len(q) = k
    BY <1>5
  <2>. QED  BY <1>4, <2>1
<1>8. IsSeq(q \o ms)
  BY <1>4 DEF IsSeq
<1>. QED  BY <1>4, <1>6, <1>7, <1>8 DEF Concat

LEMMA SingleOf == \A m : IsSeq(<<m>>) /\ Len(<<m>>) = 1 /\ <<m>>[1] = m
<1>. TAKE m
<1>1. <<m>> \in Seq({m})
  OBVIOUS
<1>. QED  BY <1>1 DEF IsSeq

LEMMA EmptyOf == IsSeq(<<>>) /\ Len(<<>>) = 0
BY EmptySeq DEF IsSeq

LEMMA AppendOf ==
    ASSUME NEW q, IsSeq(q), NEW m
    PROVE  /\ IsSeq(Append(q, m)) /\ Len(Append(q, m)) = Len(q) + 1 /\ Len(q) \in Nat
           /\ Append(q, m)[Len(q) + 1] = m
           /\ \A k \in 1..Len(q) : Append(q, m)[k] = q[k]
<1>1. PICK T : q \in Seq(T)
  BY DEF IsSeq
<1>2. PICK U : U = T \cup {m}
  OBVIOUS
<1>3. q \in Seq(U) /\ m \in U
  BY <1>1, <1>2, SeqMonotonic
<1>4. /\ Append(q, m) \in Seq(U) /\ Len(Append(q, m)) = Len(q) + 1
      /\ Append(q, m)[Len(q) + 1] = m /\ \A k \in 1..Len(q) : Append(q, m)[k] = q[k]
  BY <1>3, AppendProperties
<1>. QED  BY <1>4, LenOf DEF IsSeq

LEMMA PartOf ==
    ASSUME NEW q, IsSeq(q), NEW m \in Int, NEW n \in Int, 1 <= m, n <= Len(q)
    PROVE  /\ IsSeq(SubSeq(q, m, n)) /\ Len(SubSeq(q, m, n)) = IF m <= n THEN n - m + 1 ELSE 0
           /\ \A i \in 1..(n - m + 1) : SubSeq(q, m, n)[i] = q[m + i - 1]
<1>1. PICK T : q \in Seq(T)
  BY DEF IsSeq
<1>2. \A i \in m..n : q[i] \in T
  BY <1>1
<1>3. /\ SubSeq(q, m, n) \in Seq(T)
      /\ Len(SubSeq(q, m, n)) = IF m <= n THEN n - m + 1 ELSE 0
      /\ \A i \in 1..(n - m + 1) : SubSeq(q, m, n)[i] = q[m + i - 1]
  BY <1>2, SubSeqProperties
<1>. QED  BY <1>3 DEF IsSeq

\* A control message that overtakes bulk messages leaves the others in their order.
LEMMA OvertakingInserts ==
    ASSUME NEW q, IsSeq(q), NEW ms, IsSeq(ms), NEW r \in Overtaking(q, ms)
    PROVE  IsSeq(r) /\ Inserted(q, ms, r)
<1>1. PICK i \in 0..Len(q) : r = SubSeq(q, 1, i) \o ms \o SubSeq(q, i + 1, Len(q))
  BY DEF Overtaking
<1>2. Len(q) \in Nat /\ Len(ms) \in Nat
  BY LenOf
<1>3. PICK x : x = SubSeq(q, 1, i)
  OBVIOUS
<1>4. PICK y : y = x \o ms
  OBVIOUS
<1>5. PICK z : z = SubSeq(q, i + 1, Len(q))
  OBVIOUS
<1>6. IsSeq(x) /\ Len(x) = i /\ \A k \in 1..i : x[k] = q[k]
  <2>1. /\ IsSeq(x) /\ Len(x) = (IF 1 <= i THEN i - 1 + 1 ELSE 0)
        /\ \A k \in 1..(i - 1 + 1) : x[k] = q[1 + k - 1]
    BY <1>2, <1>3, PartOf
  <2>. QED  BY <2>1
<1>7. IsSeq(z) /\ Len(z) = Len(q) - i /\ \A k \in 1..(Len(q) - i) : z[k] = q[i + k]
  <2>1. /\ IsSeq(z) /\ Len(z) = (IF i + 1 <= Len(q) THEN Len(q) - (i + 1) + 1 ELSE 0)
        /\ \A k \in 1..(Len(q) - (i + 1) + 1) : z[k] = q[(i + 1) + k - 1]
    BY <1>2, <1>5, PartOf
  <2>. QED  BY <1>2, <2>1
<1>8. /\ IsSeq(y) /\ Len(y) = i + Len(ms) /\ \A k \in 1..i : y[k] = q[k]
      /\ \A k \in 1..Len(ms) : y[i + k] = ms[k]
  <2>1. Concat(x, ms, y)
    BY <1>4, <1>6, ConcatOf
  <2>. QED  BY <1>6, <2>1 DEF Concat
<1>9. /\ IsSeq(r) /\ Len(r) = Len(y) + Len(z) /\ \A k \in 1..Len(y) : r[k] = y[k]
      /\ \A k \in 1..Len(z) : r[Len(y) + k] = z[k]
  <2>1. r = y \o z
    BY <1>1, <1>3, <1>4, <1>5
  <2>2. Concat(y, z, r)
    BY <1>7, <1>8, <2>1, ConcatOf
  <2>. QED  BY <2>2 DEF Concat
<1>10. Len(r) = Len(q) + Len(ms)
  BY <1>2, <1>7, <1>8, <1>9
<1>11. ASSUME NEW k \in 1..i PROVE r[k] = q[k]
  BY <1>2, <1>8, <1>9
<1>12. ASSUME NEW k \in 1..Len(ms) PROVE r[i + k] = ms[k]
  <2>1. i + k \in 1..Len(y)
    BY <1>2, <1>8
  <2>. QED  BY <1>8, <1>9, <2>1
<1>13. ASSUME NEW k \in (i + 1)..Len(q) PROVE r[k + Len(ms)] = q[k]
  <2>1. k - i \in 1..Len(z) /\ Len(y) + (k - i) = k + Len(ms) /\ i + (k - i) = k
    BY <1>2, <1>7, <1>8
  <2>2. r[Len(y) + (k - i)] = z[k - i] /\ z[k - i] = q[i + (k - i)]
    BY <1>7, <1>9, <2>1
  <2>. QED  BY <2>1, <2>2
<1>. QED  BY <1>9, <1>10, <1>11, <1>12, <1>13 DEF Inserted

\* The cancellations of a finite set of transfers.
LEMMA CancelsOf ==
    ASSUME NEW S, IsFiniteSet(S)
    PROVE  IsSeq(Cancels(S)) /\ \A k \in 1..Len(Cancels(S)) : Cancels(S)[k].t = "cancel"
<1>. PICK n : n = Cardinality(S)
  OBVIOUS
<1>1. n \in Nat
  BY FS_CardinalityType
<1>2. PICK c : c = Cancels(S)
  OBVIOUS
<1>3. c = [i \in 1..n |-> [t |-> "cancel", id |-> SetToSeq(S)[i]]]
  BY <1>2 DEF Cancels
<1>4. PICK T : T = {c[i] : i \in 1..n}
  OBVIOUS
<1>5. c \in [1..n -> T]
  BY <1>3, <1>4
<1>6. c \in Seq(T) /\ Len(c) = n
  BY <1>1, <1>5, SeqDef
<1>7. IsSeq(c)
  BY <1>6 DEF IsSeq
<1>8. \A k \in 1..Len(c) : c[k].t = "cancel"
  BY <1>3, <1>6
<1>. QED  BY <1>2, <1>7, <1>8

-----------------------------------------------------------------------------
(* What a queue has in it *)

Has(q, kind, id) == \E k \in 1..Len(q) : q[k].t = kind /\ q[k].id = id
OneEach(q, kind) == \A j, k \in 1..Len(q) :
                        q[j].t = kind /\ q[k].t = kind /\ q[j].id = q[k].id => j = k
HasPerm(q) == \E k \in 1..Len(q) : q[k].t = "perm"

\* What is needed of the contents of a message.
Sound(m) == /\ m.t \in {"offer", "accept"} => m.id \in Ids
            /\ m.t \in {"offer", "fetch"} => m.src \in Sources
            /\ m.t = "chunk" => m.at \in Nat
            /\ m.t = "accept" => m.from \in Nat
            /\ m.t = "perm" => m.on \in BOOLEAN
AllSound(q) == \A k \in 1..Len(q) : Sound(q[k])

\* The items of r are those of q, in their order, and those of ms.
Woven(q, ms, r, g) ==
    /\ \A k \in DOMAIN g : k \in 1..Len(r) /\ g[k] \in 1..Len(q) /\ r[k] = q[g[k]]
    /\ \A j, k \in DOMAIN g : j < k => g[j] < g[k]
    /\ \A k \in 1..Len(r) : k \in DOMAIN g \/ \E j \in 1..Len(ms) : r[k] = ms[j]
    /\ \A n \in 1..Len(q) : \E k \in DOMAIN g : g[k] = n
    /\ \A j \in 1..Len(ms) : \E k \in 1..Len(r) : r[k] = ms[j]

LEMMA InsertedWoven ==
    ASSUME NEW q, IsSeq(q), NEW ms, IsSeq(ms), NEW r, Inserted(q, ms, r)
    PROVE  \E g : Woven(q, ms, r, g)
<1>1. Len(q) \in Nat /\ Len(ms) \in Nat
  BY LenOf
<1>2. PICK i \in 0..Len(q) :
        /\ Len(r) = Len(q) + Len(ms)
        /\ \A k \in 1..i : r[k] = q[k]
        /\ \A k \in 1..Len(ms) : r[i + k] = ms[k]
        /\ \A k \in (i + 1)..Len(q) : r[k + Len(ms)] = q[k]
  BY DEF Inserted
<1>3. PICK g : g = [k \in (1..i) \cup ((i + Len(ms) + 1)..Len(r)) |->
                      IF k <= i THEN k ELSE k - Len(ms)]
  OBVIOUS
<1>4. ASSUME NEW k \in DOMAIN g
      PROVE  /\ k \in 1..Len(r) /\ g[k] \in 1..Len(q) /\ r[k] = q[g[k]]
             /\ g[k] = IF k <= i THEN k ELSE k - Len(ms)
  <2>1. CASE k <= i
    <3>1. k \in 1..i /\ g[k] = k
      BY <1>1, <1>3, <2>1
    <3>. QED  BY <1>1, <1>2, <2>1, <3>1
  <2>2. CASE ~(k <= i)
    <3>1. k \in (i + Len(ms) + 1)..Len(r) /\ g[k] = k - Len(ms)
      BY <1>1, <1>3, <2>2
    <3>2. k - Len(ms) \in (i + 1)..Len(q) /\ (k - Len(ms)) + Len(ms) = k /\ k \in 1..Len(r)
      BY <1>1, <1>2, <3>1
    <3>3. r[(k - Len(ms)) + Len(ms)] = q[k - Len(ms)]
      BY <1>2, <3>2
    <3>. QED  BY <1>1, <2>2, <3>1, <3>2, <3>3
  <2>. QED  BY <2>1, <2>2
<1>5. ASSUME NEW j \in DOMAIN g, NEW k \in DOMAIN g, j < k PROVE g[j] < g[k]
  <2>1. /\ j \in (1..i) \cup ((i + Len(ms) + 1)..Len(r))
        /\ k \in (1..i) \cup ((i + Len(ms) + 1)..Len(r))
    BY <1>3
  <2>. QED  BY <1>1, <1>2, <1>4, <1>5, <2>1
<1>6. ASSUME NEW k \in 1..Len(r) PROVE k \in DOMAIN g \/ \E j \in 1..Len(ms) : r[k] = ms[j]
  <2>1. CASE k \in (1..i) \cup ((i + Len(ms) + 1)..Len(r))
    BY <1>3, <2>1
  <2>2. CASE k \notin (1..i) \cup ((i + Len(ms) + 1)..Len(r))
    <3>1. k - i \in 1..Len(ms) /\ i + (k - i) = k
      BY <1>1, <1>2, <2>2
    <3>2. r[i + (k - i)] = ms[k - i]
      BY <1>2, <3>1
    <3>. QED  BY <3>1, <3>2
  <2>. QED  BY <2>1, <2>2
<1>7. ASSUME NEW n \in 1..Len(q) PROVE \E k \in DOMAIN g : g[k] = n
  <2>1. CASE n <= i
    BY <1>1, <1>3, <2>1
  <2>2. CASE ~(n <= i)
    <3>1. /\ n + Len(ms) \in (i + Len(ms) + 1)..Len(r) /\ ~(n + Len(ms) <= i)
          /\ (n + Len(ms)) - Len(ms) = n
      BY <1>1, <1>2, <2>2
    <3>2. n + Len(ms) \in DOMAIN g
      BY <1>3, <3>1
    <3>. QED  BY <1>4, <3>1, <3>2
  <2>. QED  BY <2>1, <2>2
<1>8. ASSUME NEW j \in 1..Len(ms) PROVE \E k \in 1..Len(r) : r[k] = ms[j]
  <2>1. i + j \in 1..Len(r)
    BY <1>1, <1>2
  <2>. QED  BY <1>2, <2>1
<1>9. Woven(q, ms, r, g)
  BY <1>4, <1>5, <1>6, <1>7, <1>8 DEF Woven
<1>. QED  BY <1>9

LEMMA ConcatInserts ==
    ASSUME NEW q, IsSeq(q), NEW ms, IsSeq(ms), NEW r, r = q \o ms
    PROVE  IsSeq(r) /\ Inserted(q, ms, r) /\ Concat(q, ms, r)
<1>1. Concat(q, ms, r)
  BY ConcatOf
<1>2. Len(q) \in Nat /\ Len(ms) \in Nat /\ Len(q) \in 0..Len(q)
  BY LenOf
<1>3. \A k \in (Len(q) + 1)..Len(q) : r[k + Len(ms)] = q[k]
  BY <1>2
<1>. QED  BY <1>1, <1>2, <1>3 DEF Concat, Inserted

LEMMA AppendInserts ==
    ASSUME NEW q, IsSeq(q), NEW m, NEW r, r = Append(q, m)
    PROVE  IsSeq(r) /\ Inserted(q, <<m>>, r) /\ IsSeq(<<m>>)
<1>1. /\ IsSeq(r) /\ Len(r) = Len(q) + 1 /\ Len(q) \in Nat /\ r[Len(q) + 1] = m
      /\ \A k \in 1..Len(q) : r[k] = q[k]
  BY AppendOf
<1>2. PICK ms : ms = <<m>>
  OBVIOUS
<1>3. IsSeq(ms) /\ Len(ms) = 1 /\ ms[1] = m
  BY <1>2, SingleOf
<1>4. Len(q) \in 0..Len(q) /\ \A k \in 1..Len(ms) : r[Len(q) + k] = ms[k]
  BY <1>1, <1>3
<1>5. \A k \in (Len(q) + 1)..Len(q) : r[k + Len(ms)] = q[k]
  BY <1>1
<1>6. Inserted(q, ms, r)
  BY <1>1, <1>3, <1>4, <1>5 DEF Inserted
<1>. QED  BY <1>1, <1>2, <1>3, <1>6

LEMMA InsertedHas ==
    ASSUME NEW q, IsSeq(q), NEW ms, IsSeq(ms), NEW r, Inserted(q, ms, r)
    PROVE  \A kind, id : Has(r, kind, id) <=> Has(q, kind, id) \/ Has(ms, kind, id)
<1>1. PICK g : Woven(q, ms, r, g)
  BY InsertedWoven
<1>. TAKE kind, id
<1>2. ASSUME Has(r, kind, id) PROVE Has(q, kind, id) \/ Has(ms, kind, id)
  <2>1. PICK k \in 1..Len(r) : r[k].t = kind /\ r[k].id = id
    BY <1>2 DEF Has
  <2>2. CASE k \in DOMAIN g
    BY <1>1, <2>1, <2>2 DEF Woven, Has
  <2>3. CASE k \notin DOMAIN g
    BY <1>1, <2>1, <2>3 DEF Woven, Has
  <2>. QED  BY <2>2, <2>3
<1>3. ASSUME Has(q, kind, id) PROVE Has(r, kind, id)
  <2>1. PICK n \in 1..Len(q) : q[n].t = kind /\ q[n].id = id
    BY <1>3 DEF Has
  <2>2. PICK k \in DOMAIN g : g[k] = n
    BY <1>1 DEF Woven
  <2>3. k \in 1..Len(r) /\ r[k] = q[n]
    BY <1>1, <2>2 DEF Woven
  <2>. QED  BY <2>1, <2>3 DEF Has
<1>4. ASSUME Has(ms, kind, id) PROVE Has(r, kind, id)
  <2>1. PICK j \in 1..Len(ms) : ms[j].t = kind /\ ms[j].id = id
    BY <1>4 DEF Has
  <2>2. PICK k \in 1..Len(r) : r[k] = ms[j]
    BY <1>1 DEF Woven
  <2>. QED  BY <2>1, <2>2 DEF Has
<1>. QED  BY <1>2, <1>3, <1>4

LEMMA InsertedItems ==
    ASSUME NEW q, IsSeq(q), NEW ms, IsSeq(ms), NEW r, Inserted(q, ms, r)
    PROVE  /\ AllSound(q) /\ AllSound(ms) => AllSound(r)
           /\ ~HasPerm(q) /\ ~HasPerm(ms) => ~HasPerm(r)
<1>1. PICK g : Woven(q, ms, r, g)
  BY InsertedWoven
<1>2. ASSUME NEW k \in 1..Len(r)
      PROVE  (\E n \in 1..Len(q) : r[k] = q[n]) \/ (\E j \in 1..Len(ms) : r[k] = ms[j])
  BY <1>1 DEF Woven
<1>3. ASSUME AllSound(q), AllSound(ms), NEW k \in 1..Len(r) PROVE Sound(r[k])
  BY <1>2, <1>3 DEF AllSound
<1>4. ASSUME ~HasPerm(q), ~HasPerm(ms), NEW k \in 1..Len(r) PROVE r[k].t # "perm"
  BY <1>2, <1>4 DEF HasPerm
<1>. QED  BY <1>3, <1>4 DEF AllSound, HasPerm

\* A queue keeps one message of a kind for each transfer when what is put in is new.
LEMMA InsertedOne ==
    ASSUME NEW q, IsSeq(q), NEW ms, IsSeq(ms), NEW r, Inserted(q, ms, r), NEW kind,
           OneEach(q, kind), Len(ms) > 1 => \A j \in 1..Len(ms) : ms[j].t # kind,
           \A id : ~(Has(q, kind, id) /\ Has(ms, kind, id))
    PROVE  OneEach(r, kind)
<1>1. /\ Len(q) \in Nat /\ Len(ms) \in Nat
  BY LenOf
<1>2. PICK i \in 0..Len(q) :
        /\ Len(r) = Len(q) + Len(ms)
        /\ \A k \in 1..i : r[k] = q[k]
        /\ \A k \in 1..Len(ms) : r[i + k] = ms[k]
        /\ \A k \in (i + 1)..Len(q) : r[k + Len(ms)] = q[k]
  BY DEF Inserted
<1>3. PICK g : g = [k \in 1..Len(r) |-> IF k <= i THEN k ELSE k - Len(ms)]
  OBVIOUS
<1>4. ASSUME NEW k \in 1..Len(r), k <= i \/ k > i + Len(ms)
      PROVE  g[k] \in 1..Len(q) /\ r[k] = q[g[k]]
  <2>1. CASE k <= i
    BY <1>1, <1>2, <1>3, <2>1
  <2>2. CASE k > i + Len(ms)
    <3>1. k - Len(ms) \in (i + 1)..Len(q) /\ (k - Len(ms)) + Len(ms) = k /\ g[k] = k - Len(ms)
      BY <1>1, <1>2, <1>3, <2>2
    <3>2. r[(k - Len(ms)) + Len(ms)] = q[k - Len(ms)]
      BY <1>2, <3>1
    <3>. QED  BY <1>1, <3>1, <3>2
  <2>. QED  BY <1>4, <2>1, <2>2
<1>5. ASSUME NEW k \in 1..Len(r), ~(k <= i \/ k > i + Len(ms))
      PROVE  k - i \in 1..Len(ms) /\ r[k] = ms[k - i]
  <2>1. k - i \in 1..Len(ms) /\ i + (k - i) = k
    BY <1>1, <1>2, <1>5
  <2>2. r[i + (k - i)] = ms[k - i]
    BY <1>2, <2>1
  <2>. QED  BY <2>1, <2>2
<1>6. ASSUME NEW j \in 1..Len(r), NEW k \in 1..Len(r), r[j].t = kind, r[k].t = kind, r[j].id = r[k].id
      PROVE  j = k
  <2>1. CASE (j <= i \/ j > i + Len(ms)) /\ (k <= i \/ k > i + Len(ms))
    <3>1. g[j] = g[k]
      BY <1>4, <1>6, <2>1 DEF OneEach
    <3>. QED  BY <1>1, <1>2, <1>3, <2>1, <3>1
  <2>2. CASE (j <= i \/ j > i + Len(ms)) /\ ~(k <= i \/ k > i + Len(ms))
    <3>1. Has(q, kind, r[j].id)
      BY <1>4, <1>6, <2>2 DEF Has
    <3>2. Has(ms, kind, r[j].id)
      BY <1>5, <1>6, <2>2 DEF Has
    <3>. QED  BY <3>1, <3>2
  <2>3. CASE ~(j <= i \/ j > i + Len(ms)) /\ (k <= i \/ k > i + Len(ms))
    <3>1. Has(q, kind, r[j].id)
      BY <1>4, <1>6, <2>3 DEF Has
    <3>2. Has(ms, kind, r[j].id)
      BY <1>5, <1>6, <2>3 DEF Has
    <3>. QED  BY <3>1, <3>2
  <2>4. CASE ~(j <= i \/ j > i + Len(ms)) /\ ~(k <= i \/ k > i + Len(ms))
    <3>1. j - i \in 1..Len(ms) /\ k - i \in 1..Len(ms) /\ ms[j - i].t = kind
      BY <1>5, <1>6, <2>4
    <3>2. ~(Len(ms) > 1)
      BY <3>1
    <3>. QED  BY <1>1, <3>1, <3>2
  <2>. QED  BY <2>1, <2>2, <2>3, <2>4
<1>. QED  BY <1>6 DEF OneEach

LEMMA TailKeeps ==
    ASSUME NEW q, IsSeq(q), q # <<>>
    PROVE  /\ \A kind, id : Has(Tail(q), kind, id) => Has(q, kind, id)
           /\ AllSound(q) => Sound(Head(q)) /\ AllSound(Tail(q))
           /\ ~HasPerm(q) => Head(q).t # "perm" /\ ~HasPerm(Tail(q))
           /\ Has(q, Head(q).t, Head(q).id)
<1>1. PICK r : r = Tail(q)
  OBVIOUS
<1>2. /\ Head(q) = q[1] /\ 1 \in 1..Len(q)
      /\ \A k \in 1..Len(r) : k + 1 \in 1..Len(q) /\ r[k] = q[k + 1]
  BY <1>1, TailOf
<1>3. \A kind, id : Has(r, kind, id) => Has(q, kind, id)
  BY <1>2 DEF Has
<1>4. AllSound(q) => Sound(Head(q)) /\ AllSound(r)
  BY <1>2 DEF AllSound
<1>5. ~HasPerm(q) => Head(q).t # "perm" /\ ~HasPerm(r)
  BY <1>2 DEF HasPerm
<1>6. Has(q, Head(q).t, Head(q).id)
  BY <1>2 DEF Has
<1>. QED  BY <1>1, <1>3, <1>4, <1>5, <1>6

LEMMA TailOne ==
    ASSUME NEW q, IsSeq(q), q # <<>>, NEW kind, OneEach(q, kind)
    PROVE  /\ OneEach(Tail(q), kind)
           /\ Head(q).t = kind => ~Has(Tail(q), kind, Head(q).id)
<1>1. PICK r : r = Tail(q)
  OBVIOUS
<1>2. /\ Head(q) = q[1] /\ 1 \in 1..Len(q)
      /\ \A k \in 1..Len(r) : k + 1 \in 1..Len(q) /\ r[k] = q[k + 1]
  BY <1>1, TailOf
<1>3. ASSUME NEW j \in 1..Len(r), NEW k \in 1..Len(r), r[j].t = kind, r[k].t = kind, r[j].id = r[k].id
      PROVE  j = k
  <2>1. j + 1 = k + 1
    BY <1>2, <1>3 DEF OneEach
  <2>. QED  BY <2>1
<1>4. ASSUME Head(q).t = kind, NEW k \in 1..Len(r), r[k].t = kind, r[k].id = Head(q).id
      PROVE  FALSE
  <2>1. k + 1 = 1
    BY <1>2, <1>4 DEF OneEach
  <2>. QED  BY <2>1
<1>5. OneEach(r, kind)
  BY <1>3 DEF OneEach
<1>6. Head(q).t = kind => ~Has(r, kind, Head(q).id)
  BY <1>4 DEF Has
<1>. QED  BY <1>1, <1>5, <1>6

-----------------------------------------------------------------------------
(* The chunks of a transfer in a queue *)

LEMMA ChunkHas == \A q, id : Has(q, "chunk", id) <=> \E k \in 1..Len(q) : Chunk(q[k], id)
BY DEF Has, Chunk

LEMMA ContinuesNone ==
    ASSUME NEW q, NEW id, ~Has(q, "chunk", id), NEW a \in Nat
    PROVE  Continues(q, id, a, a)
BY ChunkHas DEF Continues

LEMMA ContinuesInserted ==
    ASSUME NEW q, IsSeq(q), NEW ms, IsSeq(ms), NEW r, Inserted(q, ms, r),
           NEW id, ~Has(ms, "chunk", id), NEW a, NEW b, Continues(q, id, a, b)
    PROVE  Continues(r, id, a, b)
<1>1. PICK g : Woven(q, ms, r, g)
  BY InsertedWoven
<1>2. ASSUME NEW k \in 1..Len(r), Chunk(r[k], id)
      PROVE  k \in DOMAIN g /\ g[k] \in 1..Len(q) /\ r[k] = q[g[k]]
  <2>1. \A j \in 1..Len(ms) : r[k] # ms[j]
    BY <1>2, ChunkHas
  <2>. QED  BY <1>1, <2>1 DEF Woven
<1>3. ASSUME NEW k \in 1..Len(r), Chunk(r[k], id) PROVE a <= r[k].at /\ r[k].at < b
  BY <1>2, <1>3 DEF Continues
<1>4. ASSUME NEW j \in 1..Len(r), NEW k \in 1..Len(r), j < k, Chunk(r[j], id), Chunk(r[k], id)
      PROVE  r[j].at < r[k].at
  <2>1. g[j] < g[k]
    BY <1>1, <1>2, <1>4 DEF Woven
  <2>. QED  BY <1>2, <1>4, <2>1 DEF Continues
<1>5. ASSUME NEW n \in a..(b - 1) PROVE \E k \in 1..Len(r) : Chunk(r[k], id) /\ r[k].at = n
  <2>1. PICK m \in 1..Len(q) : Chunk(q[m], id) /\ q[m].at = n
    BY DEF Continues
  <2>2. PICK k \in DOMAIN g : g[k] = m
    BY <1>1 DEF Woven
  <2>3. k \in 1..Len(r) /\ r[k] = q[m]
    BY <1>1, <2>2 DEF Woven
  <2>. QED  BY <2>1, <2>3
<1>. QED  BY <1>3, <1>4, <1>5 DEF Continues

LEMMA ContinuesTail ==
    ASSUME NEW q, IsSeq(q), q # <<>>, NEW id, ~Chunk(Head(q), id),
           NEW a, NEW b, Continues(q, id, a, b)
    PROVE  Continues(Tail(q), id, a, b)
<1>1. PICK r : r = Tail(q)
  OBVIOUS
<1>2. /\ Head(q) = q[1] /\ Len(r) = Len(q) - 1 /\ Len(q) \in Nat
      /\ \A k \in 1..Len(r) : k + 1 \in 1..Len(q) /\ r[k] = q[k + 1]
  BY <1>1, TailOf
<1>3. ASSUME NEW k \in 1..Len(r), Chunk(r[k], id) PROVE a <= r[k].at /\ r[k].at < b
  BY <1>2, <1>3 DEF Continues
<1>4. ASSUME NEW j \in 1..Len(r), NEW k \in 1..Len(r), j < k, Chunk(r[j], id), Chunk(r[k], id)
      PROVE  r[j].at < r[k].at
  <2>1. j + 1 < k + 1
    BY <1>4
  <2>. QED  BY <1>2, <1>4, <2>1 DEF Continues
<1>5. ASSUME NEW n \in a..(b - 1) PROVE \E k \in 1..Len(r) : Chunk(r[k], id) /\ r[k].at = n
  <2>1. PICK m \in 1..Len(q) : Chunk(q[m], id) /\ q[m].at = n
    BY DEF Continues
  <2>2. m # 1
    BY <1>2, <2>1
  <2>3. m - 1 \in 1..Len(r) /\ (m - 1) + 1 = m
    BY <1>2, <2>2
  <2>4. r[m - 1] = q[(m - 1) + 1]
    BY <1>2, <2>3
  <2>. QED  BY <2>1, <2>3, <2>4
<1>. QED  BY <1>1, <1>3, <1>4, <1>5 DEF Continues

LEMMA ContinuesTaken ==
    ASSUME NEW q, IsSeq(q), AllSound(q), q # <<>>, NEW id, Chunk(Head(q), id),
           NEW a \in Nat, NEW b \in Nat, Continues(q, id, a, b), Head(q).at = a
    PROVE  Continues(Tail(q), id, a + 1, b) /\ a + 1 <= b
<1>1. PICK r : r = Tail(q)
  OBVIOUS
<1>2. /\ Head(q) = q[1] /\ Len(r) = Len(q) - 1 /\ Len(q) \in Nat /\ 1 \in 1..Len(q)
      /\ \A k \in 1..Len(r) : k + 1 \in 1..Len(q) /\ r[k] = q[k + 1]
  BY <1>1, TailOf
<1>3. ASSUME NEW k \in 1..Len(q), Chunk(q[k], id) PROVE q[k].at \in Nat
  BY <1>3 DEF AllSound, Sound, Chunk
<1>4. ASSUME NEW k \in 1..Len(r), Chunk(r[k], id) PROVE a + 1 <= r[k].at /\ r[k].at < b
  <2>1. k + 1 \in 1..Len(q) /\ 1 < k + 1 /\ r[k] = q[k + 1] /\ Chunk(q[k + 1], id)
    BY <1>2, <1>4
  <2>2. q[1].at < q[k + 1].at /\ q[k + 1].at < b /\ q[1].at = a
    BY <1>2, <2>1 DEF Continues
  <2>3. q[k + 1].at \in Nat
    BY <1>3, <2>1
  <2>. QED  BY <2>1, <2>2, <2>3
<1>5. ASSUME NEW j \in 1..Len(r), NEW k \in 1..Len(r), j < k, Chunk(r[j], id), Chunk(r[k], id)
      PROVE  r[j].at < r[k].at
  <2>1. j + 1 < k + 1
    BY <1>5
  <2>. QED  BY <1>2, <1>5, <2>1 DEF Continues
<1>6. ASSUME NEW n \in (a + 1)..(b - 1) PROVE \E k \in 1..Len(r) : Chunk(r[k], id) /\ r[k].at = n
  <2>0. n \in a..(b - 1) /\ n # a
    OBVIOUS
  <2>1. PICK m \in 1..Len(q) : Chunk(q[m], id) /\ q[m].at = n
    BY <2>0 DEF Continues
  <2>2. m # 1
    BY <1>2, <2>0, <2>1
  <2>3. m - 1 \in 1..Len(r) /\ (m - 1) + 1 = m
    BY <1>2, <2>2
  <2>4. r[m - 1] = q[(m - 1) + 1]
    BY <1>2, <2>3
  <2>. QED  BY <2>1, <2>3, <2>4
<1>7. a < b
  <2>1. 1 \in 1..Len(q) /\ Chunk(q[1], id) /\ q[1].at = a
    BY <1>2
  <2>2. q[1].at < b
    BY <2>1 DEF Continues
  <2>. QED  BY <2>1, <2>2
<1>. QED  BY <1>1, <1>4, <1>5, <1>6, <1>7 DEF Continues

LEMMA ContinuesSent ==
    ASSUME NEW q, IsSeq(q), AllSound(q), NEW m, NEW id, Chunk(m, id),
           NEW a \in Nat, NEW b \in Nat, a <= b, Continues(q, id, a, b), m.at = b
    PROVE  Continues(Append(q, m), id, a, b + 1)
<1>1. PICK r : r = Append(q, m)
  OBVIOUS
<1>2. /\ Len(r) = Len(q) + 1 /\ Len(q) \in Nat /\ r[Len(q) + 1] = m
      /\ \A k \in 1..Len(q) : r[k] = q[k]
  BY <1>1, AppendOf
<1>3. ASSUME NEW k \in 1..Len(q), Chunk(q[k], id) PROVE q[k].at \in Nat /\ a <= q[k].at /\ q[k].at < b
  BY <1>3 DEF AllSound, Sound, Chunk, Continues
<1>4. ASSUME NEW k \in 1..Len(r), Chunk(r[k], id) PROVE a <= r[k].at /\ r[k].at < b + 1
  <2>1. CASE k = Len(q) + 1
    BY <1>2, <2>1
  <2>2. CASE k # Len(q) + 1
    <3>1. k \in 1..Len(q) /\ r[k] = q[k]
      BY <1>2, <2>2
    <3>. QED  BY <1>3, <1>4, <3>1
  <2>. QED  BY <2>1, <2>2
<1>5. ASSUME NEW j \in 1..Len(r), NEW k \in 1..Len(r), j < k, Chunk(r[j], id), Chunk(r[k], id)
      PROVE  r[j].at < r[k].at
  <2>1. j \in 1..Len(q) /\ r[j] = q[j]
    BY <1>2, <1>5
  <2>2. CASE k = Len(q) + 1
    BY <1>2, <1>3, <1>5, <2>1, <2>2
  <2>3. CASE k # Len(q) + 1
    <3>1. k \in 1..Len(q) /\ r[k] = q[k]
      BY <1>2, <2>3
    <3>. QED  BY <1>5, <2>1, <3>1 DEF Continues
  <2>. QED  BY <2>2, <2>3
<1>6. ASSUME NEW n \in a..((b + 1) - 1) PROVE \E k \in 1..Len(r) : Chunk(r[k], id) /\ r[k].at = n
  <2>1. CASE n = b
    <3>1. Len(q) + 1 \in 1..Len(r)
      BY <1>2
    <3>. QED  BY <1>2, <2>1, <3>1
  <2>2. CASE n # b
    <3>1. n \in a..(b - 1)
      BY <2>2
    <3>2. PICK k \in 1..Len(q) : Chunk(q[k], id) /\ q[k].at = n
      BY <3>1 DEF Continues
    <3>3. k \in 1..Len(r) /\ r[k] = q[k]
      BY <1>2
    <3>. QED  BY <3>2, <3>3
  <2>. QED  BY <2>1, <2>2
<1>. QED  BY <1>1, <1>4, <1>5, <1>6 DEF Continues

\* There are no more chunks than messages.
LEMMA ContinuesBound ==
    ASSUME NEW q, IsSeq(q), NEW id, NEW a \in Nat, NEW b \in Nat, a <= b, Continues(q, id, a, b)
    PROVE  b \in a..(a + Len(q))
<1>1. Len(q) \in Nat
  BY LenOf
<1>2. PICK f : f = [n \in a..(b - 1) |-> CHOOSE k \in 1..Len(q) : Chunk(q[k], id) /\ q[k].at = n]
  OBVIOUS
<1>3. ASSUME NEW n \in a..(b - 1) PROVE f[n] \in 1..Len(q) /\ q[f[n]].at = n
  BY <1>2 DEF Continues
<1>4. f \in Injection(a..(b - 1), 1..Len(q))
  <2>1. f \in [a..(b - 1) -> 1..Len(q)]
    BY <1>2, <1>3
  <2>2. ASSUME NEW m \in a..(b - 1), NEW n \in a..(b - 1), f[m] = f[n] PROVE m = n
    BY <1>3, <2>2
  <2>. QED  BY <2>1, <2>2 DEF Injection, IsInjective
<1>5. IsFiniteSet(1..Len(q)) /\ Cardinality(1..Len(q)) = Len(q)
  <2>. PICK n \in Int : n = Len(q)
    BY <1>1
  <2>1. /\ IsFiniteSet(1..n)
        /\ Cardinality(1..n) = IF 1 > n THEN 0 ELSE n - 1 + 1
    BY FS_Interval
  <2>. QED  BY <1>1, <2>1
<1>6. Cardinality(a..(b - 1)) = b - a
  <2>1. Cardinality(a..(b - 1)) = IF a > b - 1 THEN 0 ELSE (b - 1) - a + 1
    BY FS_Interval
  <2>. QED  BY <2>1
<1>7. Cardinality(a..(b - 1)) <= Cardinality(1..Len(q))
  BY <1>4, <1>5, FS_Injection
<1>. QED  BY <1>1, <1>5, <1>6, <1>7

-----------------------------------------------------------------------------
(* What the sender is allowed when it gets to a message *)

\* By the time the first k - 1 messages of q are taken, a sender with permission up
\* has none.
Off(q, up0, k) ==
    \/ ~up0 /\ \A j \in 1..(k - 1) : q[j].t # "perm"
    \/ \E j \in 1..(k - 1) : /\ q[j].t = "perm" /\ ~q[j].on
                             /\ \A i \in (j + 1)..(k - 1) : q[i].t # "perm"
OffEnd(q, up0) == Off(q, up0, Len(q) + 1)
\* The answers to a transfer find a sender without the permission.
Blocked(q, up0, id) == \A k \in 1..Len(q) : q[k].t = "accept" /\ q[k].id = id => Off(q, up0, k)

OffKept(q, up0, r, up1) == /\ OffEnd(q, up0) => OffEnd(r, up1)
                           /\ \A id : Blocked(q, up0, id) => Blocked(r, up1, id)

LEMMA OffPrefix ==
    ASSUME NEW q, NEW ms, NEW r, Concat(q, ms, r), IsSeq(q), NEW up0,
           NEW k \in 1..(Len(q) + 1)
    PROVE  Off(q, up0, k) <=> Off(r, up0, k)
<1>1. Len(q) \in Nat
  BY LenOf
<1>2. \A j \in 1..(k - 1) : r[j] = q[j]
  BY <1>1 DEF Concat
<1>3. \A j \in 1..(k - 1) : \A i \in (j + 1)..(k - 1) : i \in 1..(k - 1)
  OBVIOUS
<1>. QED  BY <1>2, <1>3 DEF Off

LEMMA OffConcat ==
    ASSUME NEW q, IsSeq(q), NEW ms, IsSeq(ms), NEW r, Concat(q, ms, r), NEW up0, ~HasPerm(ms)
    PROVE  /\ OffEnd(q, up0) => OffEnd(r, up0)
           /\ \A k \in (Len(q) + 1)..Len(r) : OffEnd(q, up0) => Off(r, up0, k)
<1>1. Len(q) \in Nat /\ Len(ms) \in Nat /\ Len(r) = Len(q) + Len(ms)
  BY LenOf DEF Concat
<1>2. ASSUME NEW k \in (Len(q) + 1)..Len(r) PROVE r[k].t # "perm"
  <2>1. k - Len(q) \in 1..Len(ms) /\ Len(q) + (k - Len(q)) = k
    BY <1>1
  <2>2. r[Len(q) + (k - Len(q))] = ms[k - Len(q)]
    BY <2>1 DEF Concat
  <2>. QED  BY <2>1, <2>2 DEF HasPerm
<1>3. ASSUME OffEnd(q, up0), NEW k \in (Len(q) + 1)..(Len(r) + 1) PROVE Off(r, up0, k)
  <2>1. Off(r, up0, Len(q) + 1)
    BY <1>1, <1>3, OffPrefix DEF OffEnd
  <2>2. CASE ~up0 /\ \A j \in 1..(Len(q) + 1 - 1) : r[j].t # "perm"
    <3>1. ASSUME NEW j \in 1..(k - 1) PROVE r[j].t # "perm"
      BY <1>1, <1>2, <2>2
    <3>. QED  BY <2>2, <3>1 DEF Off
  <2>3. CASE \E j \in 1..(Len(q) + 1 - 1) :
                /\ r[j].t = "perm" /\ ~r[j].on
                /\ \A i \in (j + 1)..(Len(q) + 1 - 1) : r[i].t # "perm"
    <3>1. PICK j \in 1..(Len(q) + 1 - 1) :
                /\ r[j].t = "perm" /\ ~r[j].on
                /\ \A i \in (j + 1)..(Len(q) + 1 - 1) : r[i].t # "perm"
      BY <2>3
    <3>2. ASSUME NEW i \in (j + 1)..(k - 1) PROVE r[i].t # "perm"
      BY <1>1, <1>2, <3>1
    <3>3. j \in 1..(k - 1)
      BY <1>1
    <3>. QED  BY <3>1, <3>2, <3>3 DEF Off
  <2>. QED  BY <2>1, <2>2, <2>3 DEF Off
<1>4. OffEnd(q, up0) => OffEnd(r, up0)
  <2>1. Len(r) + 1 \in (Len(q) + 1)..(Len(r) + 1)
    BY <1>1
  <2>. QED  BY <1>3, <2>1 DEF OffEnd
<1>5. \A k \in (Len(q) + 1)..Len(r) : OffEnd(q, up0) => Off(r, up0, k)
  BY <1>1, <1>3
<1>. QED  BY <1>4, <1>5

\* The permission that was taken back last counts.
LEMMA OffSaid ==
    ASSUME NEW r, Len(r) \in Nat \ {0}, r[Len(r)].t = "perm", ~r[Len(r)].on, NEW up0
    PROVE  OffEnd(r, up0)
<1>1. Len(r) \in 1..(Len(r) + 1 - 1) /\ \A i \in (Len(r) + 1)..(Len(r) + 1 - 1) : r[i].t # "perm"
  OBVIOUS
<1>. QED  BY <1>1 DEF OffEnd, Off

LEMMA OffTail ==
    ASSUME NEW q, IsSeq(q), q # <<>>, NEW up0, NEW up1,
           up1 = IF Head(q).t = "perm" THEN Head(q).on ELSE up0
    PROVE  OffKept(q, up0, Tail(q), up1)
<1>1. PICK r : r = Tail(q)
  OBVIOUS
<1>2. /\ Head(q) = q[1] /\ Len(r) = Len(q) - 1 /\ Len(q) \in Nat /\ 1 \in 1..Len(q)
      /\ \A k \in 1..Len(r) : k + 1 \in 1..Len(q) /\ r[k] = q[k + 1]
  BY <1>1, TailOf
<1>3. ASSUME NEW k \in 1..(Len(r) + 1), Off(q, up0, k + 1) PROVE Off(r, up1, k)
  <2>1. CASE ~up0 /\ \A j \in 1..(k + 1 - 1) : q[j].t # "perm"
    <3>1. q[1].t # "perm"
      BY <1>2, <2>1
    <3>2. ASSUME NEW j \in 1..(k - 1) PROVE r[j].t # "perm"
      <4>1. j \in 1..Len(r) /\ j + 1 \in 1..(k + 1 - 1)
        BY <1>2
      <4>2. r[j] = q[j + 1]
        BY <1>2, <4>1
      <4>. QED  BY <2>1, <4>1, <4>2
    <3>3. ~up1
      BY <1>2, <2>1, <3>1
    <3>. QED  BY <3>2, <3>3 DEF Off
  <2>2. CASE \E j \in 1..(k + 1 - 1) :
                /\ q[j].t = "perm" /\ ~q[j].on
                /\ \A i \in (j + 1)..(k + 1 - 1) : q[i].t # "perm"
    <3>1. PICK j \in 1..(k + 1 - 1) :
                /\ q[j].t = "perm" /\ ~q[j].on
                /\ \A i \in (j + 1)..(k + 1 - 1) : q[i].t # "perm"
      BY <2>2
    <3>2. ASSUME NEW i \in 1..(k - 1), j < i + 1 PROVE r[i].t # "perm"
      <4>1. i \in 1..Len(r) /\ i + 1 \in (j + 1)..(k + 1 - 1)
        BY <1>2, <3>2
      <4>2. r[i] = q[i + 1]
        BY <1>2, <4>1
      <4>. QED  BY <3>1, <4>1, <4>2
    <3>3. CASE j = 1
      <4>1. ~up1
        BY <1>2, <3>1, <3>3
      <4>2. \A i \in 1..(k - 1) : r[i].t # "perm"
        BY <3>2, <3>3
      <4>. QED  BY <4>1, <4>2 DEF Off
    <3>4. CASE j # 1
      <4>1. j - 1 \in 1..(k - 1) /\ j - 1 \in 1..Len(r) /\ (j - 1) + 1 = j
        BY <1>2, <3>4
      <4>2. r[j - 1] = q[j]
        BY <1>2, <4>1
      <4>3. ASSUME NEW i \in ((j - 1) + 1)..(k - 1) PROVE r[i].t # "perm"
        <5>1. i \in 1..(k - 1) /\ j < i + 1
          BY <4>1
        <5>. QED  BY <3>2, <5>1
      <4>. QED  BY <3>1, <4>1, <4>2, <4>3 DEF Off
    <3>. QED  BY <3>3, <3>4
  <2>. QED  BY <1>3, <2>1, <2>2 DEF Off
<1>4. OffEnd(q, up0) => OffEnd(r, up1)
  <2>1. Len(r) + 1 \in 1..(Len(r) + 1) /\ (Len(r) + 1) + 1 = Len(q) + 1
    BY <1>2
  <2>. QED  BY <1>3, <2>1 DEF OffEnd
<1>5. ASSUME NEW id, Blocked(q, up0, id) PROVE Blocked(r, up1, id)
  <2>1. ASSUME NEW k \in 1..Len(r), r[k].t = "accept", r[k].id = id PROVE Off(r, up1, k)
    <3>1. k + 1 \in 1..Len(q) /\ r[k] = q[k + 1] /\ k \in 1..(Len(r) + 1)
      BY <1>2
    <3>2. Off(q, up0, k + 1)
      BY <1>5, <2>1, <3>1 DEF Blocked
    <3>. QED  BY <1>3, <3>1, <3>2
  <2>. QED  BY <2>1 DEF Blocked
<1>. QED  BY <1>1, <1>4, <1>5 DEF OffKept

-----------------------------------------------------------------------------
(* What a step keeps of the queues and of the tables *)

\* r has offers and chunks only of transfers of which q has some, and one offer of each.
FwdCarries(q, r) ==
    /\ IsSeq(r) /\ AllSound(r) /\ OneEach(r, "offer")
    /\ \A id : Has(r, "offer", id) => Has(q, "offer", id)
    /\ \A id : Has(r, "chunk", id) => Has(q, "chunk", id)
FwdKeeps(q, r) == FwdCarries(q, r) /\ (~HasPerm(q) => ~HasPerm(r))
ChunksKept(q, r, id) == \A a, b \in Nat : Continues(q, id, a, b) => Continues(r, id, a, b)

\* The acceptances in r were in q.
BackKeeps(q, r) ==
    /\ IsSeq(r) /\ AllSound(r) /\ OneEach(r, "accept")
    /\ \A k \in 1..Len(r) : r[k].t = "accept" => \E j \in 1..Len(q) : q[j] = r[k]

Sent(q, kind) == IsSeq(q) /\ AllSound(q) /\ OneEach(q, kind)
\* Messages that no invariant is about.
Plain(ms) ==
    /\ IsSeq(ms) /\ AllSound(ms)
    /\ \A k \in 1..Len(ms) : ms[k].t \notin {"offer", "accept", "chunk", "perm"}

LEMMA PlainHas ==
    ASSUME NEW ms, Plain(ms)
    PROVE  /\ IsSeq(ms) /\ AllSound(ms) /\ ~HasPerm(ms)
           /\ \A kind, id : kind \in {"offer", "accept", "chunk"} => ~Has(ms, kind, id)
BY DEF Plain, HasPerm, Has

LEMMA FwdSame ==
    ASSUME NEW q, Sent(q, "offer")
    PROVE  FwdKeeps(q, q) /\ \A id : ChunksKept(q, q, id)
BY DEF Sent, FwdKeeps, FwdCarries, ChunksKept

LEMMA FwdTail ==
    ASSUME NEW q, Sent(q, "offer"), q # <<>>
    PROVE  /\ FwdKeeps(q, Tail(q))
           /\ \A id : ~Chunk(Head(q), id) => ChunksKept(q, Tail(q), id)
           /\ Sound(Head(q)) /\ Has(q, Head(q).t, Head(q).id)
           /\ Head(q).t = "offer" => ~Has(Tail(q), "offer", Head(q).id)
           /\ ~HasPerm(q) => Head(q).t # "perm"
<1>1. IsSeq(q) /\ AllSound(q) /\ OneEach(q, "offer")
  BY DEF Sent
<1>2. IsSeq(Tail(q))
  BY <1>1, TailOf
<1>3. /\ \A kind, id : Has(Tail(q), kind, id) => Has(q, kind, id)
      /\ Sound(Head(q)) /\ AllSound(Tail(q)) /\ Has(q, Head(q).t, Head(q).id)
      /\ ~HasPerm(q) => Head(q).t # "perm" /\ ~HasPerm(Tail(q))
  BY <1>1, TailKeeps
<1>4. OneEach(Tail(q), "offer") /\ (Head(q).t = "offer" => ~Has(Tail(q), "offer", Head(q).id))
  BY <1>1, TailOne
<1>5. ASSUME NEW id, ~Chunk(Head(q), id) PROVE ChunksKept(q, Tail(q), id)
  BY <1>1, <1>5, ContinuesTail DEF ChunksKept
<1>6. FwdKeeps(q, Tail(q))
  BY <1>2, <1>3, <1>4 DEF FwdKeeps, FwdCarries
<1>. QED  BY <1>3, <1>4, <1>5, <1>6

\* What may be put in front of bulk messages or at the end.
LEMMA FwdMore ==
    ASSUME NEW q, Sent(q, "offer"), NEW ms, IsSeq(ms), AllSound(ms),
           \A k \in 1..Len(ms) : ms[k].t \notin {"offer", "chunk"}, NEW r, IsSeq(r), Inserted(q, ms, r)
    PROVE  FwdCarries(q, r) /\ \A id : ChunksKept(q, r, id)
<1>1. IsSeq(q) /\ AllSound(q) /\ OneEach(q, "offer")
  BY DEF Sent
<1>2. \A id : ~Has(ms, "offer", id) /\ ~Has(ms, "chunk", id)
  BY DEF Has
<1>3. \A kind, id : Has(r, kind, id) <=> Has(q, kind, id) \/ Has(ms, kind, id)
  BY <1>1, InsertedHas
<1>4. AllSound(r)
  BY <1>1, InsertedItems
<1>5. OneEach(r, "offer")
  <2>1. \A j \in 1..Len(ms) : ms[j].t # "offer"
    OBVIOUS
  <2>2. \A id : ~(Has(q, "offer", id) /\ Has(ms, "offer", id))
    BY <1>2
  <2>. QED  BY <1>1, <2>1, <2>2, InsertedOne
<1>6. ASSUME NEW id PROVE ChunksKept(q, r, id)
  BY <1>1, <1>2, ContinuesInserted DEF ChunksKept
<1>7. \A id : Has(r, "offer", id) => Has(q, "offer", id)
  BY <1>2, <1>3
<1>8. \A id : Has(r, "chunk", id) => Has(q, "chunk", id)
  BY <1>2, <1>3
<1>9. FwdCarries(q, r)
  BY <1>4, <1>5, <1>7, <1>8 DEF FwdCarries
<1>. QED  BY <1>6, <1>9

LEMMA FwdInserted ==
    ASSUME NEW q, Sent(q, "offer"), NEW ms, Plain(ms), NEW r, IsSeq(r), Inserted(q, ms, r)
    PROVE  FwdKeeps(q, r) /\ \A id : ChunksKept(q, r, id)
<1>1. IsSeq(ms) /\ AllSound(ms) /\ ~HasPerm(ms) /\ \A k \in 1..Len(ms) : ms[k].t \notin {"offer", "chunk"}
  BY PlainHas DEF Plain
<1>2. FwdCarries(q, r) /\ \A id : ChunksKept(q, r, id)
  BY <1>1, FwdMore
<1>3. ~HasPerm(q) => ~HasPerm(r)
  BY <1>1, InsertedItems DEF Sent
<1>. QED  BY <1>2, <1>3 DEF FwdKeeps

LEMMA BackSame ==
    ASSUME NEW q, Sent(q, "accept"), NEW up0
    PROVE  BackKeeps(q, q) /\ OffKept(q, up0, q, up0)
BY DEF Sent, BackKeeps, OffKept

LEMMA BackTail ==
    ASSUME NEW q, Sent(q, "accept"), q # <<>>, NEW up0, NEW up1,
           up1 = IF Head(q).t = "perm" THEN Head(q).on ELSE up0
    PROVE  /\ BackKeeps(q, Tail(q)) /\ OffKept(q, up0, Tail(q), up1)
           /\ Sound(Head(q)) /\ Has(q, Head(q).t, Head(q).id)
           /\ Head(q).t = "accept" => ~Has(Tail(q), "accept", Head(q).id)
<1>1. IsSeq(q) /\ AllSound(q) /\ OneEach(q, "accept")
  BY DEF Sent
<1>2. /\ IsSeq(Tail(q))
      /\ \A k \in 1..Len(Tail(q)) : k + 1 \in 1..Len(q) /\ Tail(q)[k] = q[k + 1]
  BY <1>1, TailOf
<1>3. Sound(Head(q)) /\ AllSound(Tail(q)) /\ Has(q, Head(q).t, Head(q).id)
  BY <1>1, TailKeeps
<1>4. OneEach(Tail(q), "accept") /\ (Head(q).t = "accept" => ~Has(Tail(q), "accept", Head(q).id))
  BY <1>1, TailOne
<1>5. OffKept(q, up0, Tail(q), up1)
  BY <1>1, OffTail
<1>6. \A k \in 1..Len(Tail(q)) : \E j \in 1..Len(q) : q[j] = Tail(q)[k]
  BY <1>2
<1>7. BackKeeps(q, Tail(q))
  BY <1>2, <1>3, <1>4, <1>6 DEF BackKeeps
<1>. QED  BY <1>3, <1>4, <1>5, <1>7

InPlace(q, r) == \A k \in 1..Len(r) : r[k].t = "accept" => k \in 1..Len(q) /\ q[k] = r[k]

LEMMA BackMore ==
    ASSUME NEW q, Sent(q, "accept"), NEW ms, IsSeq(ms), AllSound(ms),
           \A k \in 1..Len(ms) : ms[k].t # "accept", NEW r, r = q \o ms
    PROVE  BackKeeps(q, r) /\ Concat(q, ms, r) /\ InPlace(q, r)
<1>1. IsSeq(q) /\ AllSound(q) /\ OneEach(q, "accept")
  BY DEF Sent
<1>2. IsSeq(r) /\ Inserted(q, ms, r) /\ Concat(q, ms, r)
  BY <1>1, ConcatInserts
<1>3. AllSound(r)
  BY <1>1, <1>2, InsertedItems
<1>4. OneEach(r, "accept")
  <2>1. \A j \in 1..Len(ms) : ms[j].t # "accept"
    OBVIOUS
  <2>2. \A id : ~(Has(q, "accept", id) /\ Has(ms, "accept", id))
    BY <2>1 DEF Has
  <2>. QED  BY <1>1, <1>2, <2>1, <2>2, InsertedOne
<1>5. Len(q) \in Nat /\ Len(ms) \in Nat /\ Len(r) = Len(q) + Len(ms)
  BY <1>1, <1>2, LenOf DEF Concat
<1>6. ASSUME NEW k \in 1..Len(r), r[k].t = "accept" PROVE k \in 1..Len(q) /\ q[k] = r[k]
  <2>1. CASE k \in 1..Len(q)
    BY <1>2, <2>1 DEF Concat
  <2>2. CASE k \notin 1..Len(q)
    <3>1. k - Len(q) \in 1..Len(ms) /\ Len(q) + (k - Len(q)) = k
      BY <1>5, <2>2
    <3>2. r[Len(q) + (k - Len(q))] = ms[k - Len(q)]
      BY <1>2, <3>1 DEF Concat
    <3>. QED  BY <1>6, <3>1, <3>2
  <2>. QED  BY <2>1, <2>2
<1>7. BackKeeps(q, r)
  BY <1>2, <1>3, <1>4, <1>6 DEF BackKeeps
<1>. QED  BY <1>2, <1>6, <1>7 DEF InPlace

LEMMA BackReplied ==
    ASSUME NEW q, Sent(q, "accept"), NEW ms, Plain(ms), NEW r, r = q \o ms, NEW up0
    PROVE  BackKeeps(q, r) /\ OffKept(q, up0, r, up0)
<1>1. IsSeq(q) /\ IsSeq(ms) /\ AllSound(ms) /\ ~HasPerm(ms) /\ \A k \in 1..Len(ms) : ms[k].t # "accept"
  BY PlainHas DEF Sent, Plain
<1>2. BackKeeps(q, r) /\ Concat(q, ms, r) /\ InPlace(q, r)
  BY <1>1, BackMore
<1>3. Len(q) \in Nat
  BY <1>1, LenOf
<1>4. ASSUME NEW id, Blocked(q, up0, id) PROVE Blocked(r, up0, id)
  <2>1. ASSUME NEW k \in 1..Len(r), r[k].t = "accept", r[k].id = id PROVE Off(r, up0, k)
    <3>1. k \in 1..Len(q) /\ q[k] = r[k] /\ k \in 1..(Len(q) + 1)
      BY <1>2, <1>3, <2>1 DEF InPlace
    <3>2. Off(q, up0, k)
      BY <1>4, <2>1, <3>1 DEF Blocked
    <3>. QED  BY <1>1, <1>2, <3>1, <3>2, OffPrefix
  <2>. QED  BY <2>1 DEF Blocked
<1>5. OffEnd(q, up0) => OffEnd(r, up0)
  BY <1>1, <1>2, OffConcat
<1>. QED  BY <1>2, <1>4, <1>5 DEF OffKept

\* r is q with one acceptance more.
AcceptedOnce(q, r, id, from, up0) ==
    /\ Sent(r, "accept")
    /\ \A k \in 1..Len(r) : r[k].t = "accept" =>
          (\E j \in 1..Len(q) : q[j] = r[k]) \/ (r[k].id = id /\ r[k].from = from)
    /\ OffEnd(q, up0) => OffEnd(r, up0) /\ Blocked(r, up0, id)
    /\ \A x : x # id /\ Blocked(q, up0, x) => Blocked(r, up0, x)

\* An answer that accepts a transfer nobody has answered.
LEMMA BackAccepted ==
    ASSUME NEW q, Sent(q, "accept"), NEW id \in Ids, ~Has(q, "accept", id), NEW from \in Nat,
           NEW r, r = q \o <<[t |-> "accept", id |-> id, from |-> from]>>, NEW up0
    PROVE  AcceptedOnce(q, r, id, from, up0)
<1>. PICK ms : ms = <<[t |-> "accept", id |-> id, from |-> from]>>
  OBVIOUS
<1>1. IsSeq(q) /\ AllSound(q) /\ OneEach(q, "accept")
  BY DEF Sent
<1>2. IsSeq(ms) /\ Len(ms) = 1 /\ ms[1] = [t |-> "accept", id |-> id, from |-> from]
  BY SingleOf
<1>3. AllSound(ms) /\ ~HasPerm(ms)
  <2>1. \A k \in 1..Len(ms) : ms[k] = [t |-> "accept", id |-> id, from |-> from]
    BY <1>2
  <2>. QED  BY <2>1 DEF AllSound, Sound, HasPerm
<1>4. IsSeq(r) /\ Inserted(q, ms, r) /\ Concat(q, ms, r)
  BY <1>1, <1>2, ConcatInserts
<1>5. AllSound(r)
  BY <1>1, <1>2, <1>3, <1>4, InsertedItems
<1>6. OneEach(r, "accept")
  <2>1. ASSUME NEW x, Has(ms, "accept", x) PROVE x = id
    BY <1>2, <2>1 DEF Has
  <2>2. ~(Len(ms) > 1)
    BY <1>2
  <2>3. \A x : ~(Has(q, "accept", x) /\ Has(ms, "accept", x))
    BY <2>1
  <2>. QED  BY <1>1, <1>2, <1>4, <2>2, <2>3, InsertedOne
<1>7. Len(q) \in Nat /\ Len(r) = Len(q) + 1
  BY <1>1, <1>2, <1>4, LenOf DEF Concat
<1>8. ASSUME NEW k \in 1..Len(r)
      PROVE  \/ k \in 1..Len(q) /\ q[k] = r[k]
             \/ k = Len(q) + 1 /\ r[k].id = id /\ r[k].from = from
  <2>1. CASE k \in 1..Len(q)
    BY <1>4, <2>1 DEF Concat
  <2>2. CASE k \notin 1..Len(q)
    <3>1. 1 \in 1..Len(ms) /\ k = Len(q) + 1
      BY <1>2, <1>7, <2>2
    <3>2. r[Len(q) + 1] = ms[1]
      BY <1>4, <3>1 DEF Concat
    <3>. QED  BY <1>2, <3>1, <3>2
  <2>. QED  BY <2>1, <2>2
<1>9. OffEnd(q, up0) => OffEnd(r, up0)
  BY <1>1, <1>2, <1>3, <1>4, OffConcat
<1>10. ASSUME NEW x, x # id, Blocked(q, up0, x) PROVE Blocked(r, up0, x)
  <2>1. ASSUME NEW k \in 1..Len(r), r[k].t = "accept", r[k].id = x PROVE Off(r, up0, k)
    <3>1. k \in 1..Len(q) /\ q[k] = r[k] /\ k \in 1..(Len(q) + 1)
      BY <1>7, <1>8, <1>10, <2>1
    <3>2. Off(q, up0, k)
      BY <1>10, <2>1, <3>1 DEF Blocked
    <3>. QED  BY <1>1, <1>4, <3>1, <3>2, OffPrefix
  <2>. QED  BY <2>1 DEF Blocked
<1>11. ASSUME OffEnd(q, up0) PROVE Blocked(r, up0, id)
  <2>1. ASSUME NEW k \in 1..Len(r), r[k].t = "accept", r[k].id = id PROVE Off(r, up0, k)
    <3>1. CASE k \in 1..Len(q) /\ q[k] = r[k]
      BY <2>1, <3>1 DEF Has
    <3>2. CASE k = Len(q) + 1
      <4>1. k \in (Len(q) + 1)..Len(r)
        BY <1>7, <3>2
      <4>. QED  BY <1>1, <1>2, <1>3, <1>4, <1>11, <4>1, OffConcat
    <3>. QED  BY <1>8, <3>1, <3>2
  <2>. QED  BY <2>1 DEF Blocked
<1>12. \A k \in 1..Len(r) : r[k].t = "accept" => (\E j \in 1..Len(q) : q[j] = r[k])
                                                    \/ (r[k].id = id /\ r[k].from = from)
  BY <1>8
<1>. QED  BY <1>4, <1>5, <1>6, <1>9, <1>10, <1>11, <1>12 DEF Sent, AcceptedOnce

-----------------------------------------------------------------------------
(* The tables *)

TakesOf(d, id) == id \in DOMAIN d /\ ~d[id].cancelled /\ d[id].file # None

RowOk(w) ==
    /\ DOMAIN w = {"src", "status", "queued", "cancelled", "file"} /\ w.src \in Sources
    /\ w.file # None => /\ DOMAIN w.file = {"node", "path", "received"}
                        /\ w.file.received \in Nat
                        /\ w.status \in {"Active", "Paused"}
Rows(d) == DOMAIN d \subseteq Ids /\ \A id \in DOMAIN d : RowOk(d[id])

\* No transfer of e takes or waits for more than in d, or runs again.
DownKeeps(d, e) ==
    /\ DOMAIN e = DOMAIN d /\ Rows(e)
    /\ \A id \in DOMAIN d :
          /\ e[id].queued => d[id].queued
          /\ e[id].status \in {"Active", "Paused"} => d[id].status \in {"Active", "Paused"}
          /\ TakesOf(e, id) => TakesOf(d, id) /\ e[id].file.received = d[id].file.received

LEMMA DownSame ==
    ASSUME NEW d, Rows(d)
    PROVE  DownKeeps(d, d)
BY DEF DownKeeps

\* A transfer fails or is complete: its file is closed.
LEMMA DownCloses ==
    ASSUME NEW d, Rows(d), NEW id \in DOMAIN d, NEW st, st \notin {"Active", "Paused"},
           NEW e, e = [d EXCEPT ![id].status = st, ![id].file = None]
    PROVE  DownKeeps(d, e) /\ ~TakesOf(e, id)
<1>1. RowOk(d[id]) /\ DOMAIN d \subseteq Ids
  BY DEF Rows
<1>2. /\ DOMAIN e = DOMAIN d /\ \A x \in DOMAIN d : x # id => e[x] = d[x]
      /\ e[id] = [[d[id] EXCEPT !.status = st] EXCEPT !.file = None]
  OBVIOUS
<1>3. /\ DOMAIN e[id] = {"src", "status", "queued", "cancelled", "file"}
      /\ e[id].status = st /\ e[id].file = None /\ e[id].queued = d[id].queued
      /\ e[id].src = d[id].src
  BY <1>1, <1>2 DEF RowOk
<1>4. \A x \in DOMAIN e : RowOk(e[x])
  BY <1>1, <1>2, <1>3 DEF RowOk, Rows
<1>5. ~TakesOf(e, id)
  BY <1>3 DEF TakesOf
<1>6. ASSUME NEW x \in DOMAIN d
      PROVE  /\ e[x].queued => d[x].queued
             /\ e[x].status \in {"Active", "Paused"} => d[x].status \in {"Active", "Paused"}
             /\ TakesOf(e, x) => TakesOf(d, x) /\ e[x].file.received = d[x].file.received
  <2>1. CASE x = id
    BY <1>3, <1>5, <2>1
  <2>2. CASE x # id
    BY <1>2, <2>2 DEF TakesOf
  <2>. QED  BY <2>1, <2>2
<1>. QED  BY <1>1, <1>2, <1>4, <1>5, <1>6 DEF DownKeeps, Rows

\* A transfer that runs is paused or goes on.
LEMMA DownToggles ==
    ASSUME NEW d, Rows(d), NEW id \in DOMAIN d, d[id].status \in {"Active", "Paused"},
           NEW st \in {"Active", "Paused"}, NEW e, e = [d EXCEPT ![id].status = st]
    PROVE  DownKeeps(d, e)
<1>1. RowOk(d[id]) /\ DOMAIN d \subseteq Ids
  BY DEF Rows
<1>2. /\ DOMAIN e = DOMAIN d /\ \A x \in DOMAIN d : x # id => e[x] = d[x]
      /\ e[id] = [d[id] EXCEPT !.status = st]
  OBVIOUS
<1>3. /\ DOMAIN e[id] = {"src", "status", "queued", "cancelled", "file"}
      /\ e[id].status = st /\ e[id].file = d[id].file /\ e[id].queued = d[id].queued
      /\ e[id].cancelled = d[id].cancelled /\ e[id].src = d[id].src
  BY <1>1, <1>2 DEF RowOk
<1>4. RowOk(e[id])
  BY <1>1, <1>3 DEF RowOk
<1>5. \A x \in DOMAIN e : RowOk(e[x])
  BY <1>2, <1>4 DEF Rows
<1>6. ASSUME NEW x \in DOMAIN d
      PROVE  /\ e[x].queued => d[x].queued
             /\ e[x].status \in {"Active", "Paused"} => d[x].status \in {"Active", "Paused"}
             /\ TakesOf(e, x) => TakesOf(d, x) /\ e[x].file.received = d[x].file.received
  <2>1. CASE x = id
    BY <1>2, <1>3, <2>1 DEF TakesOf
  <2>2. CASE x # id
    BY <1>2, <2>2 DEF TakesOf
  <2>. QED  BY <2>1, <2>2
<1>. QED  BY <1>1, <1>2, <1>5, <1>6 DEF DownKeeps, Rows

\* Transfers are cancelled.
LEMMA DownCancels ==
    ASSUME NEW d, Rows(d), NEW S, NEW e,
           e = [id \in DOMAIN d |->
                  IF id \in S THEN [d[id] EXCEPT !.status = "Cancelled", !.cancelled = TRUE, !.file = None]
                  ELSE d[id]]
    PROVE  /\ DownKeeps(d, e)
           /\ \A id \in S : ~TakesOf(e, id)
           /\ \A id \in DOMAIN d : e[id].status \in {"Active", "Paused"} => id \notin S
<1>1. DOMAIN e = DOMAIN d /\ DOMAIN d \subseteq Ids
  BY DEF Rows
<1>2. ASSUME NEW x \in DOMAIN d, x \in S
      PROVE  /\ RowOk(e[x]) /\ e[x].queued = d[x].queued
             /\ e[x].status = "Cancelled" /\ ~TakesOf(e, x)
  <2>1. RowOk(d[x])
    BY DEF Rows
  <2>2. e[x] = [[[d[x] EXCEPT !.status = "Cancelled"] EXCEPT !.cancelled = TRUE] EXCEPT !.file = None]
    BY <1>2
  <2>3. /\ DOMAIN e[x] = {"src", "status", "queued", "cancelled", "file"}
        /\ e[x].status = "Cancelled" /\ e[x].file = None /\ e[x].queued = d[x].queued
        /\ e[x].src = d[x].src
    BY <2>1, <2>2 DEF RowOk
  <2>. QED  BY <2>1, <2>3 DEF RowOk, TakesOf
<1>3. ASSUME NEW x \in DOMAIN d, x \notin S PROVE e[x] = d[x] /\ RowOk(e[x])
  BY <1>3 DEF Rows
<1>4. ASSUME NEW x \in DOMAIN d
      PROVE  /\ e[x].queued => d[x].queued
             /\ e[x].status \in {"Active", "Paused"} => d[x].status \in {"Active", "Paused"}
             /\ TakesOf(e, x) => TakesOf(d, x) /\ e[x].file.received = d[x].file.received
  <2>1. CASE x \in S
    BY <1>2, <2>1
  <2>2. CASE x \notin S
    BY <1>1, <1>3, <2>2 DEF TakesOf
  <2>. QED  BY <2>1, <2>2
<1>5. \A x \in DOMAIN e : RowOk(e[x])
  BY <1>1, <1>2, <1>3
<1>6. \A id \in S : ~TakesOf(e, id)
  BY <1>1, <1>2 DEF TakesOf
<1>7. \A id \in DOMAIN d : e[id].status \in {"Active", "Paused"} => id \notin S
  BY <1>2
<1>. QED  BY <1>1, <1>4, <1>5, <1>6, <1>7 DEF DownKeeps, Rows

Streams(s) == DOMAIN s = Ids /\ \A id \in Ids : s[id].pc # "none" =>
                  {"pc", "pos"} \subseteq DOMAIN s[id] /\ s[id].pos \in Nat
\* No task starts, and none moves.
StreamKeeps(s, t) == Streams(t) /\ \A id \in Ids :
                         t[id].pc # "none" => s[id].pc # "none" /\ t[id].pos = s[id].pos

LEMMA StreamSame ==
    ASSUME NEW s, Streams(s)
    PROVE  StreamKeeps(s, s)
BY DEF StreamKeeps

LEMMA StreamMoves ==
    ASSUME NEW s, Streams(s), NEW id \in Ids, NEW w, NEW t, t = [s EXCEPT ![id] = w],
           w.pc # "none" => /\ s[id].pc # "none" /\ {"pc", "pos"} \subseteq DOMAIN w
                            /\ w.pos = s[id].pos
    PROVE  StreamKeeps(s, t)
<1>1. DOMAIN t = Ids /\ t[id] = w /\ \A x \in Ids : x # id => t[x] = s[x]
  BY DEF Streams
<1>2. ASSUME NEW x \in Ids, t[x].pc # "none"
      PROVE  /\ s[x].pc # "none" /\ t[x].pos = s[x].pos
             /\ {"pc", "pos"} \subseteq DOMAIN t[x] /\ t[x].pos \in Nat
  <2>1. CASE x = id
    BY <1>1, <1>2, <2>1 DEF Streams
  <2>2. CASE x # id
    BY <1>1, <1>2, <2>2 DEF Streams
  <2>. QED  BY <2>1, <2>2
<1>. QED  BY <1>1, <1>2 DEF StreamKeeps, Streams

-----------------------------------------------------------------------------
(* The invariant *)

Uploads(u) == DOMAIN u \subseteq Ids /\ \A id \in DOMAIN u :
                  DOMAIN u[id] = {"src", "status"} /\ u[id].src \in Sources
Asked(a) == DOMAIN a \subseteq Ids /\ \A id \in DOMAIN a : a[id] \in Sources

Shape == /\ Sent(fwd, "offer") /\ Sent(back, "accept")
         /\ next \in Nat \ {0}
         /\ Uploads(up) /\ Asked(approvals) /\ Rows(down) /\ Streams(stream)

\* What is in the directory: a .part file has an inode, with the chunks it got.
Stored == /\ DOMAIN inodes = Inodes /\ \A n \in Inodes : IsSeq(inodes[n])
          /\ DOMAIN parts = Paths /\ \A p \in Paths : parts[p] \in Inodes \cup {0}

\* An id is offered once, and is then waiting for the owner or in the table.
Numbers == /\ \A id : Has(fwd, "offer", id) => id < next
           /\ \A id \in DOMAIN down \cup DOMAIN approvals : id < next /\ ~Has(fwd, "offer", id)
           /\ DOMAIN down \cap DOMAIN approvals = {}

Idle(id) == stream[id].pc = "none" /\ ~Has(fwd, "chunk", id)
Fresh(id) == \/ id >= next \/ Has(fwd, "offer", id) \/ id \in DOMAIN approvals
             \/ id \in DOMAIN down /\ down[id].queued

\* Where the acceptance, the chunks and the stream of a transfer are when it takes chunks.
Awaited(id) ==
    LET from == down[id].file.received
    IN /\ \A k \in 1..Len(back) : back[k].t = "accept" /\ back[k].id = id => back[k].from = from
       /\ \E to \in Nat : /\ from <= to /\ Continues(fwd, id, from, to)
                          /\ stream[id].pc # "none" => stream[id].pos = to

\* A transfer is accepted once, and its stream starts when the acceptance arrives.
Stage(id) == /\ Fresh(id) => Idle(id) /\ ~Has(back, "accept", id)
             /\ Has(back, "accept", id) => Idle(id)
             /\ TakesOf(down, id) => Awaited(id)
Stages == \A id \in Ids : Stage(id)

\* What is approved without the permission never gets a stream.
Perms ==
    /\ starting => mayDown
    /\ mode # "ask" => DOMAIN approvals = {}
    /\ mode # "ask" /\ ~mayDown => \A id \in DOMAIN down : down[id].status \notin {"Active", "Paused"}
    /\ mode # "download" => ~HasPerm(fwd)
    /\ mode # "download" /\ ~mayDown => OffEnd(back, mayUp)
    /\ ~mayDown => \A id \in Ids : TakesOf(down, id) => Idle(id) /\ Blocked(back, mayUp, id)

Inv == Shape /\ Stored /\ Numbers /\ Stages /\ Perms

\* A step that starts, accepts and offers nothing.
Keeps ==
    /\ FwdCarries(fwd, fwd') /\ BackKeeps(back, back')
    /\ mode # "download" /\ ~HasPerm(fwd) => ~HasPerm(fwd')
    /\ \A id \in Ids : TakesOf(down', id) => ChunksKept(fwd, fwd', id)
    /\ DownKeeps(down, down') /\ StreamKeeps(stream, stream')
    /\ DOMAIN approvals' \subseteq DOMAIN approvals /\ Asked(approvals') /\ Uploads(up')
    /\ next' = next /\ mode' = mode
    /\ starting' => mayDown'

\* The permissions are what they were, or the sender has learnt what it has.
SameRight == /\ mayDown' = mayDown
             /\ mode # "download" => OffKept(back, mayUp, back', mayUp')

LEMMA NoTakesOff ==
    ASSUME Shape, Perms, mode # "ask", ~mayDown
    PROVE  \A id \in Ids : ~TakesOf(down, id)
BY DEF Shape, Perms, TakesOf, Rows, RowOk

LEMMA KeptShape ==
    ASSUME Shape, Keeps
    PROVE  Shape'
BY DEF Shape, Keeps, FwdKeeps, FwdCarries, BackKeeps, Sent, DownKeeps, StreamKeeps

LEMMA KeptNumbers ==
    ASSUME Shape, Numbers, Keeps
    PROVE  Numbers'
<1>1. /\ \A id : Has(fwd', "offer", id) => Has(fwd, "offer", id)
      /\ DOMAIN down' = DOMAIN down /\ DOMAIN approvals' \subseteq DOMAIN approvals /\ next' = next
  BY DEF Keeps, FwdKeeps, FwdCarries, DownKeeps
<1>. QED  BY <1>1 DEF Numbers

\* The step does nothing for a transfer.
Untouched(id) ==
    /\ Fresh(id)' => Fresh(id)
    /\ Has(fwd', "chunk", id) => Has(fwd, "chunk", id)
    /\ \A k \in 1..Len(back') : back'[k].t = "accept" /\ back'[k].id = id =>
          \E j \in 1..Len(back) : back[j] = back'[k]
    /\ stream'[id].pc # "none" => stream[id].pc # "none" /\ stream'[id].pos = stream[id].pos
    /\ TakesOf(down', id) => /\ TakesOf(down, id) /\ ChunksKept(fwd, fwd', id)
                             /\ down'[id].file.received = down[id].file.received

LEMMA UntouchedStage ==
    ASSUME Shape, NEW id \in Ids, Stage(id), Untouched(id)
    PROVE  Stage(id)'
<1>1. Has(back', "accept", id) => Has(back, "accept", id)
  BY DEF Untouched, Has
<1>2. Idle(id) => Idle(id)'
  BY DEF Untouched, Idle
<1>3. ASSUME TakesOf(down', id) PROVE Awaited(id)'
  <2>1. TakesOf(down, id) /\ down'[id].file.received = down[id].file.received
    BY <1>3 DEF Untouched
  <2>2. PICK from : from = down[id].file.received
    OBVIOUS
  <2>3. from \in Nat /\ from = down'[id].file.received
    BY <2>1, <2>2 DEF Shape, Rows, RowOk, TakesOf
  <2>4. /\ \A k \in 1..Len(back) : back[k].t = "accept" /\ back[k].id = id => back[k].from = from
        /\ \E to \in Nat : /\ from <= to /\ Continues(fwd, id, from, to)
                           /\ stream[id].pc # "none" => stream[id].pos = to
    BY <2>1, <2>2 DEF Stage, Awaited
  <2>5. ASSUME NEW k \in 1..Len(back'), back'[k].t = "accept", back'[k].id = id
        PROVE  back'[k].from = from
    <3>1. PICK j \in 1..Len(back) : back[j] = back'[k]
      BY <2>5 DEF Untouched
    <3>. QED  BY <2>4, <2>5, <3>1
  <2>6. PICK to \in Nat : /\ from <= to /\ Continues(fwd, id, from, to)
                          /\ stream[id].pc # "none" => stream[id].pos = to
    BY <2>4
  <2>7. Continues(fwd', id, from, to)
    <3>1. ChunksKept(fwd, fwd', id)
      BY <1>3 DEF Untouched
    <3>. QED  BY <2>3, <2>6, <3>1 DEF ChunksKept
  <2>8. stream'[id].pc # "none" => stream'[id].pos = to
    BY <2>6 DEF Untouched
  <2>. QED  BY <2>3, <2>5, <2>6, <2>7, <2>8 DEF Awaited
<1>4. Fresh(id)' => Idle(id)' /\ ~Has(back', "accept", id)
  BY <1>1, <1>2 DEF Stage, Untouched
<1>5. Has(back', "accept", id) => Idle(id)'
  BY <1>1, <1>2 DEF Stage
<1>. QED  BY <1>3, <1>4, <1>5 DEF Stage

LEMMA UntouchedPerms ==
    ASSUME Shape, Perms, NEW id \in Ids, Untouched(id), ~mayDown, TakesOf(down', id),
           mode # "download" => (Blocked(back, mayUp, id) => Blocked(back', mayUp', id))
    PROVE  Idle(id)' /\ Blocked(back', mayUp', id)
<1>1. TakesOf(down, id)
  BY DEF Untouched
<1>2. mode # "download"
  BY <1>1, NoTakesOff
<1>3. Idle(id) /\ Blocked(back, mayUp, id)
  BY <1>1 DEF Perms
<1>4. Idle(id)'
  BY <1>3 DEF Untouched, Idle
<1>. QED  BY <1>2, <1>3, <1>4

LEMMA KeptUntouched ==
    ASSUME Shape, Keeps
    PROVE  \A id \in Ids : Untouched(id)
<1>. TAKE id \in Ids
<1>1. /\ \A x : Has(fwd', "offer", x) => Has(fwd, "offer", x)
      /\ \A x : Has(fwd', "chunk", x) => Has(fwd, "chunk", x)
      /\ DOMAIN down' = DOMAIN down /\ DOMAIN approvals' \subseteq DOMAIN approvals /\ next' = next
  BY DEF Keeps, FwdKeeps, FwdCarries, DownKeeps
<1>2. id \in DOMAIN down => (down'[id].queued => down[id].queued)
  BY DEF Keeps, DownKeeps
<1>3. Fresh(id)' => Fresh(id)
  BY <1>1, <1>2 DEF Fresh
<1>4. stream'[id].pc # "none" => stream[id].pc # "none" /\ stream'[id].pos = stream[id].pos
  BY DEF Keeps, StreamKeeps
<1>5. ASSUME TakesOf(down', id)
      PROVE  /\ TakesOf(down, id) /\ ChunksKept(fwd, fwd', id)
             /\ down'[id].file.received = down[id].file.received
  BY <1>1, <1>5 DEF Keeps, DownKeeps, TakesOf
<1>6. \A k \in 1..Len(back') : back'[k].t = "accept" /\ back'[k].id = id =>
          \E j \in 1..Len(back) : back[j] = back'[k]
  BY DEF Keeps, BackKeeps
<1>. QED  BY <1>1, <1>3, <1>4, <1>5, <1>6 DEF Untouched

LEMMA KeptStages ==
    ASSUME Shape, Stages, Keeps
    PROVE  Stages'
<1>1. ASSUME NEW id \in Ids PROVE Stage(id)'
  BY KeptUntouched, UntouchedStage DEF Stages
<1>. QED  BY <1>1 DEF Stages

LEMMA KeptPerms ==
    ASSUME Shape, Perms, Keeps, SameRight
    PROVE  Perms'
<1>1. starting' => mayDown'
  BY DEF Keeps
<1>2. mode' # "ask" => DOMAIN approvals' = {}
  BY DEF Keeps, Perms
<1>3. mode' # "ask" /\ ~mayDown' => \A id \in DOMAIN down' : down'[id].status \notin {"Active", "Paused"}
  BY DEF Keeps, SameRight, Perms, DownKeeps
<1>4. mode' # "download" => ~HasPerm(fwd')
  BY DEF Keeps, Perms, FwdKeeps, FwdCarries
<1>5. mode' # "download" /\ ~mayDown' => OffEnd(back', mayUp')
  BY DEF Keeps, SameRight, Perms, OffKept
<1>6. ASSUME ~mayDown', NEW id \in Ids, TakesOf(down', id)
      PROVE  Idle(id)' /\ Blocked(back', mayUp', id)
  <2>1. ~mayDown /\ Untouched(id)
    BY <1>6, KeptUntouched DEF SameRight
  <2>2. mode # "download" => (Blocked(back, mayUp, id) => Blocked(back', mayUp', id))
    BY DEF SameRight, OffKept
  <2>. QED  BY <1>6, <2>1, <2>2, UntouchedPerms
<1>. QED  BY <1>1, <1>2, <1>3, <1>4, <1>5, <1>6 DEF Perms

LEMMA Kept ==
    ASSUME Inv, Keeps, SameRight, Stored'
    PROVE  Inv'
BY KeptShape, KeptNumbers, KeptStages, KeptPerms DEF Inv

-----------------------------------------------------------------------------
(* The steps that do start, accept or offer something *)

\* A transfer is offered under an id that nothing in the session has.
LEMMA Offered ==
    ASSUME Inv, NEW s \in Sources, NEW tbl, Uploads(tbl), Offer(s, tbl),
           BackKeeps(back, back'), mode # "download" => OffKept(back, mayUp, back', mayUp')
    PROVE  Inv'
<1>. PICK ms : ms = <<[t |-> "offer", id |-> next, src |-> s]>>
  OBVIOUS
<1>. PICK r : r = fwd'
  OBVIOUS
<1>1. /\ next <= MaxOffers /\ next' = next + 1 /\ r \in Overtaking(fwd, ms)
      /\ up' = Put(tbl, next, [src |-> s, status |-> "Pending"])
      /\ UNCHANGED <<ctl, stream, receiver, perms, disk, world>>
  BY DEF Offer, Tell
<1>2. UNCHANGED <<stream, down, approvals, starting, mayUp, mayDown, inodes, parts, mode>>
  BY <1>1 DEF receiver, perms, disk, world
<1>3. Shape /\ Numbers /\ Stages /\ Perms /\ Stored
  BY DEF Inv
<1>4. next \in Nat /\ next \in Ids
  BY <1>1, <1>3, BoundsAssumption DEF Shape, Ids
<1>5. IsSeq(fwd) /\ AllSound(fwd) /\ OneEach(fwd, "offer")
  BY <1>3 DEF Shape, Sent
<1>6. IsSeq(ms) /\ Len(ms) = 1 /\ ms[1] = [t |-> "offer", id |-> next, src |-> s]
  BY SingleOf
<1>7. AllSound(ms) /\ ~HasPerm(ms) /\ \A kind, x : Has(ms, kind, x) => kind = "offer" /\ x = next
  <2>1. \A k \in 1..Len(ms) : ms[k] = [t |-> "offer", id |-> next, src |-> s]
    BY <1>6
  <2>. QED  BY <1>4, <2>1 DEF AllSound, Sound, HasPerm, Has
<1>8. IsSeq(r) /\ Inserted(fwd, ms, r)
  BY <1>1, <1>5, <1>6, OvertakingInserts
<1>9. \A kind, x : Has(r, kind, x) <=> Has(fwd, kind, x) \/ Has(ms, kind, x)
  BY <1>5, <1>6, <1>8, InsertedHas
<1>10. AllSound(r) /\ (~HasPerm(fwd) => ~HasPerm(r))
  BY <1>5, <1>6, <1>7, <1>8, InsertedItems
<1>11. OneEach(r, "offer")
  <2>1. ~(Len(ms) > 1)
    BY <1>6
  <2>2. ASSUME NEW x, Has(fwd, "offer", x), Has(ms, "offer", x) PROVE FALSE
    <3>1. x = next /\ x < next
      BY <1>3, <1>7, <2>2 DEF Numbers
    <3>. QED  BY <1>4, <3>1
  <2>. QED  BY <1>5, <1>6, <1>8, <2>1, <2>2, InsertedOne
<1>12. ASSUME NEW x PROVE ChunksKept(fwd, r, x)
  <2>1. ~Has(ms, "chunk", x)
    BY <1>7
  <2>. QED  BY <1>5, <1>6, <1>8, <2>1, ContinuesInserted DEF ChunksKept
<1>13. ASSUME NEW id \in Ids PROVE Untouched(id)
  <2>1. Fresh(id)' => Fresh(id)
    <3>1. id >= next' => id >= next
      BY <1>1, <1>4 DEF Ids
    <3>2. Has(r, "offer", id) => Has(fwd, "offer", id) \/ id >= next
      BY <1>4, <1>7, <1>9
    <3>. QED  BY <1>2, <3>1, <3>2 DEF Fresh
  <2>2. Has(r, "chunk", id) => Has(fwd, "chunk", id)
    BY <1>7, <1>9
  <2>3. \A k \in 1..Len(back') : back'[k].t = "accept" /\ back'[k].id = id =>
            \E j \in 1..Len(back) : back[j] = back'[k]
    BY DEF BackKeeps
  <2>4. TakesOf(down', id) => /\ TakesOf(down, id) /\ ChunksKept(fwd, r, id)
                              /\ down'[id].file.received = down[id].file.received
    BY <1>2, <1>12
  <2>. QED  BY <1>2, <2>1, <2>2, <2>3, <2>4 DEF Untouched
<1>14. Stages'
  BY <1>3, <1>13, UntouchedStage DEF Stages
<1>15. Numbers'
  <2>1. \A x : Has(r, "offer", x) => x < next + 1
    <3>. SUFFICES ASSUME NEW x, Has(r, "offer", x) PROVE x < next + 1
      OBVIOUS
    <3>1. CASE Has(fwd, "offer", x)
      <4>1. x \in Ids
        BY <1>5, <3>1 DEF Has, AllSound, Sound
      <4>2. x < next
        BY <1>3, <3>1 DEF Numbers
      <4>. QED  BY <1>4, <4>1, <4>2 DEF Ids
    <3>2. CASE Has(ms, "offer", x)
      BY <1>4, <1>7, <3>2
    <3>. QED  BY <1>9, <3>1, <3>2
  <2>2. ASSUME NEW x \in DOMAIN down \cup DOMAIN approvals PROVE x < next + 1 /\ ~Has(r, "offer", x)
    <3>1. x < next /\ ~Has(fwd, "offer", x)
      BY <1>3 DEF Numbers
    <3>2. x \in Ids
      BY <1>3 DEF Shape, Rows, Asked
    <3>3. x # next /\ x < next + 1
      BY <1>4, <3>1, <3>2 DEF Ids
    <3>. QED  BY <1>7, <1>9, <3>1, <3>3
  <2>3. DOMAIN down \cap DOMAIN approvals = {}
    BY <1>3 DEF Numbers
  <2>. QED  BY <1>1, <1>2, <2>1, <2>2, <2>3 DEF Numbers
<1>16. Shape'
  <2>1. Uploads(up')
    BY <1>1, <1>4 DEF Uploads, Put
  <2>2. Sent(fwd', "offer") /\ Sent(back', "accept")
    BY <1>8, <1>10, <1>11 DEF Sent, BackKeeps
  <2>3. next' \in Nat \ {0}
    BY <1>1, <1>4
  <2>. QED  BY <1>2, <1>3, <2>1, <2>2, <2>3 DEF Shape
<1>17. Perms'
  <2>1. ASSUME ~mayDown', NEW id \in Ids, TakesOf(down', id)
        PROVE  Idle(id)' /\ Blocked(back', mayUp', id)
    <3>1. mode # "download" => (Blocked(back, mayUp, id) => Blocked(back', mayUp', id))
      BY DEF OffKept
    <3>. QED  BY <1>2, <1>3, <1>13, <2>1, <3>1, UntouchedPerms
  <2>2. mode' # "download" => ~HasPerm(fwd')
    BY <1>2, <1>3, <1>10 DEF Perms
  <2>3. mode' # "download" /\ ~mayDown' => OffEnd(back', mayUp')
    BY <1>2, <1>3 DEF Perms, OffKept
  <2>4. /\ starting' => mayDown'
        /\ mode' # "ask" => DOMAIN approvals' = {}
        /\ mode' # "ask" /\ ~mayDown' => \A id \in DOMAIN down' : down'[id].status \notin {"Active", "Paused"}
    BY <1>2, <1>3 DEF Perms
  <2>. QED  BY <2>1, <2>2, <2>3, <2>4 DEF Perms
<1>18. Stored'
  BY <1>2, <1>3 DEF Stored
<1>. QED  BY <1>14, <1>15, <1>16, <1>17, <1>18 DEF Inv

LEMMA PutOf ==
    ASSUME NEW f, NEW x, NEW v
    PROVE  /\ DOMAIN Put(f, x, v) = DOMAIN f \cup {x} /\ Put(f, x, v)[x] = v
           /\ \A y \in DOMAIN f : y # x => Put(f, x, v)[y] = f[y]
BY DEF Put

\* The offer or the request of a transfer is used up, or its turn in the queue has come.
Taking(id) ==
    /\ FwdKeeps(fwd, fwd') /\ \A x : ChunksKept(fwd, fwd', x)
    /\ ~Has(fwd', "offer", id) /\ id < next /\ Fresh(id)
    /\ DOMAIN approvals' \subseteq DOMAIN approvals \ {id} /\ Asked(approvals')
    /\ next' = next /\ mode' = mode /\ up' = up /\ stream' = stream
    /\ mayUp' = mayUp /\ mayDown' = mayDown
    /\ starting' => mayDown' 
    /\ mode # "ask" => mayDown

\* Only one transfer gets a row or another one.
OnlyRow(id, w) ==
    /\ Rows(down') /\ DOMAIN down' = DOMAIN down \cup {id} /\ down'[id] = w
    /\ \A x \in DOMAIN down : x # id => down'[x] = down[x]
    /\ \A x \in Ids : x # id =>
          /\ Fresh(x)' => Fresh(x)
          /\ Has(fwd', "chunk", x) => Has(fwd, "chunk", x)
          /\ stream'[x].pc # "none" => stream[x].pc # "none" /\ stream'[x].pos = stream[x].pos
          /\ TakesOf(down', x) => /\ TakesOf(down, x) /\ ChunksKept(fwd, fwd', x)
                                  /\ down'[x].file.received = down[x].file.received

\* The row a transfer gets changes nothing that is on its way.
LEMMA RowPut ==
    ASSUME Shape, Numbers, NEW id \in Ids, Taking(id), NEW w, RowOk(w), down' = Put(down, id, w)
    PROVE  Numbers' /\ OnlyRow(id, w)
<1>1. /\ DOMAIN down' = DOMAIN down \cup {id} /\ down'[id] = w
      /\ \A x \in DOMAIN down : x # id => down'[x] = down[x]
  BY DEF Put
<1>2. Rows(down')
  BY <1>1 DEF Rows, Shape
<1>3. /\ \A x : Has(fwd', "offer", x) => Has(fwd, "offer", x)
      /\ \A x : Has(fwd', "chunk", x) => Has(fwd, "chunk", x)
      /\ next' = next /\ stream' = stream /\ DOMAIN approvals' \subseteq DOMAIN approvals \ {id}
      /\ ~Has(fwd', "offer", id) /\ id < next
  BY DEF Taking, FwdKeeps, FwdCarries
<1>4. Numbers'
  BY <1>1, <1>3 DEF Numbers
<1>5. ASSUME NEW x \in Ids, x # id
      PROVE  /\ Fresh(x)' => Fresh(x)
             /\ TakesOf(down', x) => /\ TakesOf(down, x) /\ ChunksKept(fwd, fwd', x)
                                     /\ down'[x].file.received = down[x].file.received
  <2>1. x \in DOMAIN down' => x \in DOMAIN down /\ down'[x] = down[x]
    BY <1>1, <1>5
  <2>2. Fresh(x)' => Fresh(x)
    BY <1>3, <2>1 DEF Fresh
  <2>3. ChunksKept(fwd, fwd', x)
    BY DEF Taking
  <2>. QED  BY <2>1, <2>2, <2>3 DEF TakesOf
<1>. QED  BY <1>1, <1>2, <1>3, <1>4, <1>5 DEF OnlyRow

\* The transfer is accepted, and its chunks will start where the file ends.
LEMMA Accepted ==
    ASSUME Inv, NEW id \in Ids, NEW s \in Sources, Taking(id), StartIncoming(id, s)
    PROVE  Inv'
<1>1. Shape /\ Numbers /\ Stages /\ Perms /\ Stored
  BY DEF Inv
<1>. DEFINE plain  == <<NameOf[s], 0>>
            resume == parts[plain] # 0 /\ targets[plain] = 0
            path   == IF resume THEN plain ELSE UniquePath(NameOf[s])
            node   == IF parts[path] # 0 THEN parts[path] ELSE CHOOSE n \in FreeInodes : TRUE
            length == IF resume THEN Len(inodes[node]) ELSE 0
            kept   == IF length <= SizeOf[s] THEN length ELSE 0
<1>2. /\ parts[path] # 0 \/ FreeInodes # {}
      /\ parts' = [parts EXCEPT ![path] = node]
      /\ inodes' = [inodes EXCEPT ![node] = IF kept = 0 THEN <<>> ELSE @]
      /\ down' = Put(down, id,
                    [src |-> s, status |-> "Active", queued |-> FALSE,
                     cancelled |-> id \in DOMAIN down /\ down[id].cancelled,
                     file |-> [node |-> node, path |-> path, received |-> kept]])
      /\ Reply(<<[t |-> "accept", id |-> id, from |-> kept]>>)
  BY DEF StartIncoming
<1>3. kept \in Nat
  <2>1. plain \in Paths
    BY BoundsAssumption DEF Paths
  <2>2. CASE resume
    <3>1. path = plain /\ parts[plain] # 0 /\ parts[plain] \in Inodes
      BY <1>1, <2>1, <2>2 DEF Stored
    <3>2. node \in Inodes
      BY <3>1
    <3>3. Len(inodes[node]) \in Nat
      BY <1>1, <3>2, LenOf DEF Stored
    <3>. HIDE DEF plain, path, node, resume
    <3>. QED  BY <2>2, <3>3
  <2>3. CASE ~resume
    <3>. HIDE DEF plain, path, node, resume
    <3>. QED  BY <2>3
  <2>. QED  BY <2>2, <2>3
<1>. HIDE DEF plain, resume, path, length, kept
<1>4. Stored'
  <2>1. path \in Paths => node \in Inodes
    <3>1. CASE parts[path] # 0
      BY <1>1, <1>2, <3>1 DEF Stored
    <3>2. CASE ~(parts[path] # 0)
      <4>1. node \in FreeInodes
        BY <1>2, <3>2
      <4>. QED  BY <4>1 DEF FreeInodes
    <3>. QED  BY <3>1, <3>2
  <2>. HIDE DEF node
  <2>2. DOMAIN parts' = Paths /\ \A p \in Paths : parts'[p] \in Inodes \cup {0}
    BY <1>1, <1>2, <2>1 DEF Stored
  <2>3. DOMAIN inodes' = Inodes /\ \A n \in Inodes : IsSeq(inodes'[n])
    <3>1. \A n \in Inodes : inodes'[n] = inodes[n] \/ inodes'[n] = <<>>
      BY <1>1, <1>2 DEF Stored
    <3>. QED  BY <1>1, <1>2, <3>1, EmptyOf DEF Stored
  <2>. QED  BY <2>2, <2>3 DEF Stored
<1>. HIDE DEF node
<1>. PICK w : w = [src |-> s, status |-> "Active", queued |-> FALSE,
                   cancelled |-> id \in DOMAIN down /\ down[id].cancelled,
                   file |-> [node |-> node, path |-> path, received |-> kept]]
  OBVIOUS
<1>5. RowOk(w) /\ ~w.queued /\ w.file.received = kept
  BY <1>3 DEF RowOk
<1>6. Numbers' /\ OnlyRow(id, w)
  BY <1>1, <1>2, <1>5, RowPut
<1>7. Idle(id) /\ ~Has(back, "accept", id)
  BY <1>1 DEF Taking, Stages, Stage
<1>8. back' = back \o <<[t |-> "accept", id |-> id, from |-> kept]>> /\ Sent(back, "accept")
  BY <1>1, <1>2 DEF Reply, Shape
<1>9. AcceptedOnce(back, back', id, kept, mayUp)
  BY <1>3, <1>7, <1>8, BackAccepted
<1>10. ASSUME NEW x \in Ids, x # id PROVE Untouched(x)
  <2>1. \A k \in 1..Len(back') : back'[k].t = "accept" /\ back'[k].id = x =>
            \E j \in 1..Len(back) : back[j] = back'[k]
    BY <1>9, <1>10 DEF AcceptedOnce
  <2>. QED  BY <1>6, <1>10, <2>1 DEF Untouched, OnlyRow
<1>11. Idle(id)'
  BY <1>7 DEF Idle, Taking, FwdKeeps, FwdCarries
<1>12. Stage(id)'
  <2>1. ~Fresh(id)'
    <3>1. ~(id >= next)
      BY <1>1 DEF Taking, Ids, Shape
    <3>. QED  BY <1>5, <1>6, <3>1 DEF Fresh, Taking, OnlyRow
  <2>2. Awaited(id)'
    <3>1. \A k \in 1..Len(back') : back'[k].t = "accept" /\ back'[k].id = id => back'[k].from = kept
      BY <1>7, <1>9 DEF Has, AcceptedOnce
    <3>2. Continues(fwd', id, kept, kept)
      BY <1>3, <1>11, ContinuesNone DEF Idle
    <3>3. kept <= kept /\ stream'[id].pc = "none"
      BY <1>3, <1>11 DEF Idle
    <3>. QED  BY <1>3, <1>5, <1>6, <3>1, <3>2, <3>3 DEF Awaited, OnlyRow
  <2>. QED  BY <1>11, <2>1, <2>2 DEF Stage
<1>13. Stages'
  BY <1>1, <1>10, <1>12, UntouchedStage DEF Stages
<1>14. Shape'
  BY <1>1, <1>6, <1>9 DEF Shape, Taking, FwdKeeps, FwdCarries, Sent, OnlyRow, AcceptedOnce
<1>15. Perms'
  <2>1. ASSUME ~mayDown', NEW x \in Ids, TakesOf(down', x) PROVE Idle(x)' /\ Blocked(back', mayUp', x)
    <3>1. ~mayDown /\ mode = "ask" /\ mayUp' = mayUp
      BY <2>1 DEF Taking
    <3>2. CASE x = id
      BY <1>1, <1>9, <1>11, <3>1, <3>2 DEF Perms, AcceptedOnce
    <3>3. CASE x # id
      <4>1. Blocked(back, mayUp, x) => Blocked(back', mayUp', x)
        BY <1>9, <3>1, <3>3 DEF AcceptedOnce
      <4>. QED  BY <1>1, <1>10, <2>1, <3>1, <3>3, <4>1, UntouchedPerms
    <3>. QED  BY <3>2, <3>3
  <2>2. mode' # "download" => ~HasPerm(fwd')
    BY <1>1 DEF Perms, Taking, FwdKeeps, FwdCarries
  <2>3. mode' # "download" /\ ~mayDown' => OffEnd(back', mayUp')
    BY <1>1, <1>9 DEF Perms, Taking, AcceptedOnce
  <2>4. mode' # "ask" => DOMAIN approvals' = {}
    BY <1>1 DEF Perms, Taking
  <2>5. mode' # "ask" /\ ~mayDown' => \A x \in DOMAIN down' : down'[x].status \notin {"Active", "Paused"}
    BY DEF Taking
  <2>6. starting' => mayDown'
    BY DEF Taking
  <2>. QED  BY <2>1, <2>2, <2>3, <2>4, <2>5, <2>6 DEF Perms
<1>. QED  BY <1>4, <1>6, <1>13, <1>14, <1>15 DEF Inv

\* Without a free slot the transfer waits in the table.
LEMMA Queued ==
    ASSUME Inv, NEW id \in Ids, NEW s \in Sources, Taking(id),
           down' = Put(down, id, [src |-> s, status |-> "Pending", queued |-> TRUE,
                                  cancelled |-> FALSE, file |-> None]),
           back' = back, inodes' = inodes, parts' = parts
    PROVE  Inv'
<1>1. Shape /\ Numbers /\ Stages /\ Perms /\ Stored
  BY DEF Inv
<1>. PICK w : w = [src |-> s, status |-> "Pending", queued |-> TRUE,
                   cancelled |-> FALSE, file |-> None]
  OBVIOUS
<1>2. RowOk(w) /\ w.file = None
  BY DEF RowOk
<1>3. Numbers' /\ OnlyRow(id, w)
  BY <1>1, <1>2, RowPut
<1>4. ASSUME NEW x \in Ids PROVE Untouched(x)
  <2>1. CASE x = id
    <3>1. ~TakesOf(down', id)
      BY <1>2, <1>3 DEF OnlyRow, TakesOf
    <3>. QED  BY <2>1, <3>1 DEF Untouched, Taking, FwdKeeps, FwdCarries
  <2>2. CASE x # id
    BY <1>3, <2>2 DEF Untouched, OnlyRow
  <2>. QED  BY <2>1, <2>2
<1>5. Stages'
  BY <1>1, <1>4, UntouchedStage DEF Stages
<1>6. Shape'
  BY <1>1, <1>3 DEF Shape, Taking, FwdKeeps, FwdCarries, Sent, OnlyRow
<1>7. Perms'
  <2>1. ASSUME ~mayDown', NEW x \in Ids, TakesOf(down', x) PROVE Idle(x)' /\ Blocked(back', mayUp', x)
    <3>1. ~mayDown /\ mayUp' = mayUp
      BY <2>1 DEF Taking
    <3>. QED  BY <1>1, <1>4, <2>1, <3>1, UntouchedPerms
  <2>. QED  BY <1>1, <2>1 DEF Perms, Taking, FwdKeeps, FwdCarries
<1>8. Stored'
  BY <1>1 DEF Stored
<1>. QED  BY <1>3, <1>5, <1>6, <1>7, <1>8 DEF Inv

\* The offer becomes a request to the owner.
LEMMA Requested ==
    ASSUME Inv, NEW id \in Ids, NEW s \in Sources, id < next, Has(fwd, "offer", id),
           FwdKeeps(fwd, fwd'), \A x : ChunksKept(fwd, fwd', x), ~Has(fwd', "offer", id),
           approvals' = Put(approvals, id, s), id \notin DOMAIN down, mode = "ask",
           UNCHANGED <<next, mode, up, stream, down, mayUp, mayDown, starting, back, inodes, parts>>
    PROVE  Inv'
<1>1. Shape /\ Numbers /\ Stages /\ Perms /\ Stored
  BY DEF Inv
<1>2. /\ DOMAIN approvals' = DOMAIN approvals \cup {id} /\ approvals'[id] = s
      /\ \A x \in DOMAIN approvals : x # id => approvals'[x] = approvals[x]
  BY DEF Put
<1>3. Asked(approvals')
  BY <1>1, <1>2 DEF Shape, Asked
<1>4. Numbers'
  BY <1>1, <1>2 DEF Numbers, FwdKeeps, FwdCarries
<1>5. ASSUME NEW x \in Ids PROVE Untouched(x)
  <2>1. Fresh(x)' => Fresh(x)
    BY <1>2 DEF Fresh, FwdKeeps, FwdCarries
  <2>. QED  BY <2>1 DEF Untouched, FwdKeeps, FwdCarries
<1>6. Stages'
  BY <1>1, <1>5, UntouchedStage DEF Stages
<1>7. Shape'
  BY <1>1, <1>3 DEF Shape, FwdKeeps, FwdCarries, Sent
<1>8. Perms'
  <2>1. ASSUME ~mayDown', NEW x \in Ids, TakesOf(down', x) PROVE Idle(x)' /\ Blocked(back', mayUp', x)
    BY <1>1, <1>5, <2>1, UntouchedPerms
  <2>. QED  BY <1>1, <2>1 DEF Perms, FwdKeeps, FwdCarries
<1>9. Stored'
  BY <1>1 DEF Stored
<1>. QED  BY <1>4, <1>6, <1>7, <1>8, <1>9 DEF Inv

\* Writing keeps a sequence a sequence.
LEMMA TableIsSeq ==
    ASSUME NEW n \in Nat, NEW T, NEW r \in [1..n -> T]
    PROVE  IsSeq(r)
<1>1. r \in Seq(T)
  BY SeqDef
<1>. QED  BY <1>1 DEF IsSeq

LEMMA WrittenIsSeq ==
    ASSUME NEW q, IsSeq(q), NEW at \in Nat, NEW x
    PROVE  IsSeq(Written(q, at, x))
<1>1. Len(q) \in Nat
  BY LenOf
<1>2. PICK n : n = IF Len(q) > at THEN Len(q) ELSE at + 1
  OBVIOUS
<1>3. PICK r : r = Written(q, at, x)
  OBVIOUS
<1>4. PICK T : T = {r[k] : k \in 1..n}
  OBVIOUS
<1>5. n \in Nat
  BY <1>1, <1>2
<1>6. r = [k \in 1..n |-> IF k = at + 1 THEN x ELSE IF k <= Len(q) THEN q[k] ELSE Hole]
  BY <1>2, <1>3 DEF Written
<1>7. r \in [1..n -> T]
  BY <1>4, <1>6
<1>. QED  BY <1>3, <1>5, <1>7, TableIsSeq

\* The next chunk of a transfer is written to its file.
LEMMA Taken ==
    ASSUME Inv, mayDown, fwd # <<>>, fwd' = Tail(fwd),
           NEW id \in Ids, Chunk(Head(fwd), id), TakesOf(down, id),
           Head(fwd).at = down[id].file.received,
           down' = [down EXCEPT ![id].file.received = @ + 1],
           NEW node, NEW at, at = Head(fwd).at, NEW x,
           inodes' = [inodes EXCEPT ![node] = Written(@, at, x)],
           UNCHANGED <<next, mode, up, stream, approvals, mayUp, mayDown, starting, back, parts>>
    PROVE  Inv'
<1>1. Shape /\ Numbers /\ Stages /\ Perms /\ Stored
  BY DEF Inv
<1>2. id \in DOMAIN down /\ RowOk(down[id]) /\ DOMAIN down \subseteq Ids /\ down[id].file # None
  BY <1>1 DEF TakesOf, Shape, Rows
<1>. PICK from : from = down[id].file.received
  OBVIOUS
<1>. PICK g : g = [down[id].file EXCEPT !.received = from + 1]
  OBVIOUS
<1>3. from \in Nat /\ DOMAIN g = {"node", "path", "received"} /\ g.received = from + 1
  BY <1>2 DEF RowOk
<1>4. /\ DOMAIN down' = DOMAIN down
      /\ \A y \in DOMAIN down : y # id => down'[y] = down[y]
      /\ down'[id] = [down[id] EXCEPT !.file = g]
  BY <1>2
<1>5. /\ DOMAIN down'[id] = {"src", "status", "queued", "cancelled", "file"}
      /\ down'[id].file = g /\ down'[id].status = down[id].status /\ down'[id].src = down[id].src
      /\ down'[id].queued = down[id].queued /\ down'[id].cancelled = down[id].cancelled
  BY <1>2, <1>4 DEF RowOk
<1>6. RowOk(down'[id])
  BY <1>2, <1>3, <1>5 DEF RowOk
<1>7. Rows(down')
  BY <1>1, <1>4, <1>6 DEF Rows, Shape
<1>8. /\ FwdKeeps(fwd, fwd') /\ \A y : ~Chunk(Head(fwd), y) => ChunksKept(fwd, fwd', y)
      /\ Has(fwd, "chunk", id)
  BY <1>1, FwdTail DEF Shape, Chunk
<1>9. ~Fresh(id) /\ ~Has(back, "accept", id)
  BY <1>1, <1>8 DEF Stages, Stage, Idle
<1>10. ~Fresh(id)'
  BY <1>2, <1>4, <1>5, <1>8, <1>9 DEF Fresh, FwdKeeps, FwdCarries
<1>11. ASSUME NEW y \in Ids, y # id PROVE Untouched(y)
  <2>1. Fresh(y)' => Fresh(y)
    BY <1>4, <1>8, <1>11 DEF Fresh, FwdKeeps, FwdCarries
  <2>2. ChunksKept(fwd, fwd', y)
    BY <1>8, <1>11 DEF Chunk
  <2>3. Has(fwd', "chunk", y) => Has(fwd, "chunk", y)
    BY <1>8 DEF FwdKeeps, FwdCarries
  <2>4. TakesOf(down', y) => TakesOf(down, y) /\ down'[y].file.received = down[y].file.received
    BY <1>4, <1>11 DEF TakesOf
  <2>. QED  BY <2>1, <2>2, <2>3, <2>4 DEF Untouched
<1>12. Stage(id)'
  <2>1. Awaited(id)
    BY <1>1 DEF Stages, Stage
  <2>2. PICK to \in Nat : /\ from <= to /\ Continues(fwd, id, from, to)
                          /\ stream[id].pc # "none" => stream[id].pos = to
    BY <2>1 DEF Awaited
  <2>3. Continues(fwd', id, from + 1, to) /\ from + 1 <= to
    BY <1>1, <1>3, <2>2, ContinuesTaken DEF Shape, Sent
  <2>4. down'[id].file.received = from + 1
    BY <1>3, <1>5
  <2>5. Awaited(id)'
    <3>1. \A k \in 1..Len(back') : ~(back'[k].t = "accept" /\ back'[k].id = id)
      BY <1>9 DEF Has
    <3>. QED  BY <2>2, <2>3, <2>4, <3>1 DEF Awaited
  <2>. QED  BY <1>9, <1>10, <2>5 DEF Stage
<1>13. Stages'
  BY <1>1, <1>11, <1>12, UntouchedStage DEF Stages
<1>14. Numbers'
  BY <1>1, <1>4, <1>8 DEF Numbers, FwdKeeps, FwdCarries
<1>15. Shape'
  BY <1>1, <1>7, <1>8 DEF Shape, FwdKeeps, FwdCarries, Sent
<1>16. Perms'
  BY <1>1, <1>8 DEF Perms, FwdKeeps, FwdCarries
<1>17. Stored'
  <2>1. ASSUME NEW n \in Inodes PROVE IsSeq(inodes'[n])
    <3>1. IsSeq(inodes[n]) /\ DOMAIN inodes = Inodes
      BY <1>1 DEF Stored
    <3>2. at \in Nat
      BY <1>3
    <3>. QED  BY <3>1, <3>2, WrittenIsSeq
  <2>. QED  BY <1>1, <2>1 DEF Stored
<1>. QED  BY <1>13, <1>14, <1>15, <1>16, <1>17 DEF Inv

\* A stream sends its next chunk.
LEMMA ChunkSent ==
    ASSUME Inv, NEW id \in Ids, stream[id].pc # "none", NEW m, Chunk(m, id), m.at = stream[id].pos,
           fwd' = Append(fwd, m), NEW w, DOMAIN w = {"pc", "src", "pos"}, w.pos = stream[id].pos + 1,
           stream' = [stream EXCEPT ![id] = w],
           UNCHANGED <<next, mode, up, down, approvals, mayUp, mayDown, starting, back, inodes, parts>>
    PROVE  Inv'
<1>1. Shape /\ Numbers /\ Stages /\ Perms /\ Stored
  BY DEF Inv
<1>. PICK pos : pos = stream[id].pos
  OBVIOUS
<1>2. DOMAIN stream = Ids /\ pos \in Nat
  BY <1>1 DEF Shape, Streams
<1>3. stream'[id] = w /\ DOMAIN stream' = Ids /\ \A y \in Ids : y # id => stream'[y] = stream[y]
  BY <1>2
<1>. PICK ms : ms = <<m>>
  OBVIOUS
<1>4. IsSeq(fwd) /\ AllSound(fwd) /\ OneEach(fwd, "offer") /\ Len(ms) = 1 /\ ms[1] = m
  BY <1>1, SingleOf DEF Shape, Sent
<1>5. IsSeq(fwd') /\ Inserted(fwd, ms, fwd') /\ IsSeq(ms)
  BY <1>4, AppendInserts
<1>6. AllSound(ms) /\ ~HasPerm(ms) /\ \A kind, x : Has(ms, kind, x) => kind = "chunk" /\ x = id
  <2>1. \A k \in 1..Len(ms) : ms[k] = m
    BY <1>4
  <2>. QED  BY <1>2, <2>1 DEF AllSound, Sound, HasPerm, Has, Chunk
<1>7. \A kind, x : Has(fwd', kind, x) <=> Has(fwd, kind, x) \/ Has(ms, kind, x)
  BY <1>4, <1>5, InsertedHas
<1>8. AllSound(fwd') /\ (~HasPerm(fwd) => ~HasPerm(fwd'))
  BY <1>4, <1>5, <1>6, InsertedItems
<1>9. OneEach(fwd', "offer")
  <2>1. ~(Len(ms) > 1) /\ \A x : ~(Has(fwd, "offer", x) /\ Has(ms, "offer", x))
    BY <1>4, <1>6
  <2>. QED  BY <1>4, <1>5, <2>1, InsertedOne
<1>10. ~Idle(id)
  BY DEF Idle
<1>11. ~Fresh(id) /\ ~Has(back, "accept", id)
  BY <1>1, <1>10 DEF Stages, Stage
<1>12. ASSUME NEW x PROVE Has(fwd', "offer", x) => Has(fwd, "offer", x)
  BY <1>6, <1>7
<1>13. ASSUME NEW y \in Ids, y # id PROVE Untouched(y)
  <2>1. Fresh(y)' => Fresh(y)
    BY <1>12 DEF Fresh
  <2>2. ChunksKept(fwd, fwd', y)
    <3>1. ~Has(ms, "chunk", y)
      BY <1>6, <1>13
    <3>. QED  BY <1>4, <1>5, <3>1, ContinuesInserted DEF ChunksKept
  <2>3. Has(fwd', "chunk", y) => Has(fwd, "chunk", y)
    BY <1>6, <1>7, <1>13
  <2>. QED  BY <1>3, <1>13, <2>1, <2>2, <2>3 DEF Untouched
<1>14. Stage(id)'
  <2>1. ASSUME TakesOf(down, id) PROVE Awaited(id)'
    <3>1. Awaited(id)
      BY <1>1, <2>1 DEF Stages, Stage
    <3>. PICK from : from = down[id].file.received
      OBVIOUS
    <3>2. from \in Nat
      BY <1>1, <2>1 DEF Shape, Rows, RowOk, TakesOf
    <3>3. from <= pos /\ Continues(fwd, id, from, pos)
      BY <3>1 DEF Awaited
    <3>4. Continues(fwd', id, from, pos + 1) /\ from <= pos + 1 /\ pos + 1 \in Nat
      BY <1>2, <1>4, <3>2, <3>3, ContinuesSent
    <3>5. stream'[id].pos = pos + 1
      BY <1>3
    <3>6. \A k \in 1..Len(back') : ~(back'[k].t = "accept" /\ back'[k].id = id)
      BY <1>11 DEF Has
    <3>. QED  BY <3>4, <3>5, <3>6 DEF Awaited
  <2>2. ~Fresh(id)'
    BY <1>11, <1>12 DEF Fresh
  <2>. QED  BY <1>11, <2>1, <2>2 DEF Stage
<1>15. Stages'
  BY <1>1, <1>13, <1>14, UntouchedStage DEF Stages
<1>16. Numbers'
  BY <1>1, <1>12 DEF Numbers
<1>17. Shape'
  <2>1. ASSUME NEW y \in Ids, stream'[y].pc # "none"
        PROVE  {"pc", "pos"} \subseteq DOMAIN stream'[y] /\ stream'[y].pos \in Nat
    <3>1. CASE y = id
      BY <1>2, <1>3, <3>1
    <3>2. CASE y # id
      BY <1>1, <1>3, <2>1, <3>2 DEF Shape, Streams
    <3>. QED  BY <3>1, <3>2
  <2>2. Streams(stream')
    BY <1>3, <2>1 DEF Streams
  <2>. QED  BY <1>1, <1>5, <1>8, <1>9, <2>2 DEF Shape, Sent
<1>18. Perms'
  <2>1. ASSUME ~mayDown', NEW x \in Ids, TakesOf(down', x) PROVE Idle(x)' /\ Blocked(back', mayUp', x)
    <3>1. x # id
      BY <1>1, <1>10, <2>1 DEF Perms
    <3>. QED  BY <1>1, <1>13, <2>1, <3>1, UntouchedPerms
  <2>. QED  BY <1>1, <1>8, <2>1 DEF Perms
<1>19. Stored'
  BY <1>1 DEF Stored
<1>. QED  BY <1>15, <1>16, <1>17, <1>18, <1>19 DEF Inv

\* The acceptance of a transfer starts its stream where the file ends.
LEMMA Started ==
    ASSUME Inv, back # <<>>, back' = Tail(back), mayUp, NEW id, NEW from,
           Head(back).t = "accept", Head(back).id = id, Head(back).from = from,
           NEW w, DOMAIN w = {"pc", "src", "pos"}, w.pos = from,
           stream' = [stream EXCEPT ![id] = w], Uploads(up'),
           UNCHANGED <<next, mode, down, approvals, mayUp, mayDown, starting, fwd, inodes, parts>>
    PROVE  Inv'
<1>1. Shape /\ Numbers /\ Stages /\ Perms /\ Stored
  BY DEF Inv
<1>2. /\ BackKeeps(back, back') /\ OffKept(back, mayUp, back', mayUp)
      /\ Sound(Head(back)) /\ Has(back, "accept", id) /\ ~Has(back', "accept", id)
  <2>1. mayUp = IF Head(back).t = "perm" THEN Head(back).on ELSE mayUp
    OBVIOUS
  <2>. QED  BY <1>1, <2>1, BackTail DEF Shape
<1>3. id \in Ids /\ from \in Nat
  BY <1>2 DEF Sound
<1>4. Idle(id) /\ ~Fresh(id)
  BY <1>1, <1>2, <1>3 DEF Stages, Stage
<1>5. stream'[id] = w /\ DOMAIN stream' = Ids /\ \A y \in Ids : y # id => stream'[y] = stream[y]
  BY <1>1, <1>3 DEF Shape, Streams
<1>6. FwdKeeps(fwd, fwd) /\ \A x : ChunksKept(fwd, fwd, x)
  BY <1>1, FwdSame DEF Shape
<1>7. ASSUME NEW y \in Ids, y # id PROVE Untouched(y)
  <2>1. Fresh(y)' => Fresh(y)
    BY DEF Fresh
  <2>. QED  BY <1>2, <1>5, <1>6, <1>7, <2>1 DEF Untouched, BackKeeps
<1>8. Stage(id)'
  <2>1. ASSUME TakesOf(down, id) PROVE Awaited(id)'
    <3>1. Awaited(id) /\ down[id].file.received \in Nat
      BY <1>1, <1>3, <2>1 DEF Stages, Stage, Shape, Rows, RowOk, TakesOf
    <3>2. from = down[id].file.received
      <4>1. Head(back) = back[1] /\ 1 \in 1..Len(back)
        BY <1>1, TailOf DEF Shape, Sent
      <4>. QED  BY <3>1, <4>1 DEF Awaited
    <3>3. Continues(fwd, id, from, from)
      BY <1>3, <1>4, ContinuesNone DEF Idle
    <3>4. \A k \in 1..Len(back') : ~(back'[k].t = "accept" /\ back'[k].id = id)
      BY <1>2 DEF Has
    <3>5. stream'[id].pos = from /\ from <= from
      BY <1>3, <1>5
    <3>. QED  BY <1>3, <3>2, <3>3, <3>4, <3>5 DEF Awaited
  <2>2. ~Fresh(id)'
    BY <1>4 DEF Fresh
  <2>. QED  BY <1>2, <2>1, <2>2 DEF Stage
<1>9. Stages'
  BY <1>1, <1>7, <1>8, UntouchedStage DEF Stages
<1>10. Numbers'
  BY <1>1 DEF Numbers
<1>11. Shape'
  <2>1. ASSUME NEW y \in Ids, stream'[y].pc # "none"
        PROVE  {"pc", "pos"} \subseteq DOMAIN stream'[y] /\ stream'[y].pos \in Nat
    <3>1. CASE y = id
      BY <1>3, <1>5, <3>1
    <3>2. CASE y # id
      BY <1>1, <1>5, <2>1, <3>2 DEF Shape, Streams
    <3>. QED  BY <3>1, <3>2
  <2>2. Streams(stream')
    BY <1>5, <2>1 DEF Streams
  <2>. QED  BY <1>1, <1>2, <2>2 DEF Shape, Sent, BackKeeps
<1>12. Perms'
  <2>1. ASSUME ~mayDown', NEW x \in Ids, TakesOf(down', x) PROVE Idle(x)' /\ Blocked(back', mayUp', x)
    <3>1. x # id
      <4>1. SUFFICES ASSUME x = id PROVE FALSE
        OBVIOUS
      <4>2. Blocked(back, mayUp, id)
        BY <1>1, <1>3, <2>1, <4>1 DEF Perms
      <4>3. back[1].t = "accept" /\ back[1].id = id /\ 1 \in 1..Len(back)
        BY <1>1, TailOf DEF Shape, Sent
      <4>4. Off(back, mayUp, 1)
        BY <4>2, <4>3 DEF Blocked
      <4>. QED  BY <4>4 DEF Off
    <3>2. Blocked(back, mayUp, x) => Blocked(back', mayUp', x)
      BY <1>2 DEF OffKept
    <3>. QED  BY <1>1, <1>7, <2>1, <3>1, <3>2, UntouchedPerms
  <2>. QED  BY <1>1, <1>2, <2>1 DEF Perms, OffKept
<1>13. Stored'
  BY <1>1 DEF Stored
<1>. QED  BY <1>9, <1>10, <1>11, <1>12, <1>13 DEF Inv

\* The permission of the receiver changes, and takes what runs with it.
LEMMA Permitted ==
    ASSUME Inv, Keeps, ~starting', NEW on, mayDown' = on,
           ~on => \A id \in DOMAIN down' : down'[id].status \notin {"Active", "Paused"},
           mode # "download" /\ ~on => OffEnd(back', mayUp'), Stored'
    PROVE  Inv'
<1>1. Shape' /\ Numbers' /\ Stages'
  BY KeptShape, KeptNumbers, KeptStages DEF Inv
<1>2. ASSUME ~mayDown', NEW x \in Ids PROVE ~TakesOf(down', x)
  BY <1>1, <1>2 DEF Shape, Rows, RowOk, TakesOf
<1>3. /\ mode' = mode /\ DOMAIN approvals' \subseteq DOMAIN approvals
      /\ mode # "download" /\ ~HasPerm(fwd) => ~HasPerm(fwd')
  BY DEF Keeps
<1>4. Perms'
  BY <1>2, <1>3 DEF Perms, Inv
<1>. QED  BY <1>1, <1>4 DEF Inv

\* A session that has just begun.
New == /\ up = <<>> /\ down = <<>> /\ approvals = <<>> /\ ~starting
       /\ stream = NoStreams /\ mayUp = TRUE /\ mayDown = TRUE
       /\ fwd = <<>> /\ back = <<>> /\ next = 1

LEMMA NewSession == New /\ Stored => Inv
<1>. SUFFICES ASSUME New, Stored PROVE Inv
  OBVIOUS
<1>1. DOMAIN up = {} /\ DOMAIN down = {} /\ DOMAIN approvals = {}
  BY DEF New
<1>2. IsSeq(fwd) /\ IsSeq(back) /\ Len(fwd) = 0 /\ Len(back) = 0
  BY EmptyOf DEF New
<1>3. Sent(fwd, "offer") /\ Sent(back, "accept") /\ ~HasPerm(fwd) /\ \A kind, id : ~Has(fwd, kind, id) /\ ~Has(back, kind, id)
  BY <1>2 DEF Sent, AllSound, OneEach, HasPerm, Has
<1>4. DOMAIN stream = Ids /\ \A id \in Ids : stream[id].pc = "none"
  BY DEF New, NoStreams
<1>5. Shape
  BY <1>1, <1>3, <1>4 DEF Shape, Uploads, Asked, Rows, Streams, New
<1>6. Numbers
  BY <1>1, <1>3 DEF Numbers
<1>7. Stages
  BY <1>1, <1>3, <1>4 DEF Stages, Stage, Idle, TakesOf
<1>8. Perms
  BY <1>1, <1>3 DEF Perms, New
<1>. QED  BY <1>5, <1>6, <1>7, <1>8 DEF Inv

-----------------------------------------------------------------------------
(* Messages that are told and replied *)

LEMMA PlainEmpty == Plain(<<>>)
BY EmptyOf DEF Plain, AllSound

LEMMA PlainOne ==
    ASSUME NEW m, Sound(m), m.t \notin {"offer", "accept", "chunk", "perm"}
    PROVE  Plain(<<m>>)
<1>1. PICK ms : ms = <<m>>
  OBVIOUS
<1>2. IsSeq(ms) /\ \A k \in 1..Len(ms) : ms[k] = m
  BY <1>1, SingleOf
<1>. QED  BY <1>1, <1>2 DEF Plain, AllSound

\* A list of cancellations, with something at its end.
Withdraws(S, told, c) ==
    /\ Concat(Cancels(S), told, c) /\ IsSeq(c)
    /\ \A k \in 1..Len(c) : c[k].t = "cancel" \/ \E j \in 1..Len(told) : c[k] = told[j]

LEMMA CancelsAnd ==
    ASSUME NEW S, IsFiniteSet(S), NEW told, IsSeq(told), NEW c, c = Cancels(S) \o told
    PROVE  Withdraws(S, told, c)
<1>1. PICK b : b = Cancels(S)
  OBVIOUS
<1>2. IsSeq(b) /\ \A k \in 1..Len(b) : b[k].t = "cancel"
  BY <1>1, CancelsOf
<1>3. Concat(b, told, c)
  BY <1>1, <1>2, ConcatOf
<1>4. Len(b) \in Nat /\ Len(told) \in Nat
  BY <1>2, LenOf
<1>5. ASSUME NEW k \in 1..Len(c) PROVE c[k].t = "cancel" \/ \E j \in 1..Len(told) : c[k] = told[j]
  <2>1. CASE k \in 1..Len(b)
    BY <1>2, <1>3, <2>1 DEF Concat
  <2>2. CASE k \notin 1..Len(b)
    <3>1. k - Len(b) \in 1..Len(told) /\ Len(b) + (k - Len(b)) = k
      BY <1>3, <1>4, <2>2 DEF Concat
    <3>2. c[Len(b) + (k - Len(b))] = told[k - Len(b)]
      BY <1>3, <3>1 DEF Concat
    <3>. QED  BY <3>1, <3>2
  <2>. QED  BY <2>1, <2>2
<1>. QED  BY <1>1, <1>3, <1>5 DEF Concat, Withdraws

LEMMA PlainCancels ==
    ASSUME NEW S, IsFiniteSet(S)
    PROVE  Plain(Cancels(S)) /\ Plain(Cancels(S) \o <<>>)
<1>1. Plain(Cancels(S))
  BY CancelsOf DEF Plain, AllSound, Sound
<1>2. PICK c : c = Cancels(S) \o <<>>
  OBVIOUS
<1>3. IsSeq(<<>>) /\ Len(<<>>) = 0
  BY EmptyOf
<1>4. Withdraws(S, <<>>, c)
  BY <1>2, <1>3, CancelsAnd
<1>5. Plain(c)
  BY <1>3, <1>4 DEF Withdraws, Plain, AllSound, Sound
<1>. QED  BY <1>1, <1>2, <1>5

LEMMA FwdTold ==
    ASSUME Shape, NEW ms, Plain(ms), Tell(ms)
    PROVE  FwdKeeps(fwd, fwd') /\ \A id : ChunksKept(fwd, fwd', id)
<1>1. IsSeq(fwd) /\ IsSeq(ms) /\ Sent(fwd, "offer")
  BY DEF Shape, Sent, Plain
<1>2. IsSeq(fwd') /\ Inserted(fwd, ms, fwd')
  BY <1>1, OvertakingInserts DEF Tell
<1>. QED  BY <1>1, <1>2, FwdInserted

LEMMA FwdStays ==
    ASSUME Shape, fwd' = fwd
    PROVE  FwdKeeps(fwd, fwd') /\ \A id : ChunksKept(fwd, fwd', id)
BY FwdSame DEF Shape

LEMMA BackStays ==
    ASSUME Shape, back' = back, mayUp' = mayUp
    PROVE  BackKeeps(back, back') /\ OffKept(back, mayUp, back', mayUp')
BY BackSame DEF Shape

LEMMA BackTold ==
    ASSUME Shape, NEW ms, Plain(ms), Reply(ms), mayUp' = mayUp
    PROVE  BackKeeps(back, back') /\ OffKept(back, mayUp, back', mayUp')
BY BackReplied DEF Shape, Reply

\* What runs at one end is a finite set.
LEMMA RunningFinite ==
    ASSUME Shape, NEW st
    PROVE  IsFiniteSet(With(st, up)) /\ IsFiniteSet(With(st, down))
<1>1. IsFiniteSet(Ids)
  BY BoundsAssumption, FS_Interval DEF Ids
<1>2. With(st, up) \subseteq Ids /\ With(st, down) \subseteq Ids
  BY DEF With, Shape, Uploads, Rows
<1>. QED  BY <1>1, <1>2, FS_Subset

LEMMA UploadsSet ==
    ASSUME NEW u, Uploads(u)
    PROVE  /\ \A id, st : Uploads([u EXCEPT ![id].status = st])
           /\ \A S : Uploads([id \in DOMAIN u |-> IF id \in S THEN [u[id] EXCEPT !.status = "Cancelled"]
                                                              ELSE u[id]])
           /\ \A S : Uploads([id \in DOMAIN u \ S |-> u[id]])
BY DEF Uploads

LEMMA UploadsStatus ==
    ASSUME Uploads(up), NEW id, NEW st, SetStatus(id, st)
    PROVE  Uploads(up')
BY UploadsSet DEF SetStatus

LEMMA UploadsCancelled ==
    ASSUME Uploads(up), NEW S, CancelUp(S)
    PROVE  Uploads(up')
BY UploadsSet DEF CancelUp

-----------------------------------------------------------------------------
(* The sender's steps *)

LEMMA SenderOffers ==
    ASSUME Inv, NEW s \in Sources, NEW tbl, Uploads(tbl), Offer(s, tbl), back' = back
    PROVE  Inv'
<1>1. mayUp' = mayUp
  BY DEF Offer, perms
<1>2. BackKeeps(back, back') /\ OffKept(back, mayUp, back', mayUp')
  BY <1>1, BackStays DEF Inv
<1>. QED  BY <1>2, Offered

LEMMA SendPathsKeeps ==
    ASSUME Inv, NEW s \in Sources, SendPaths(s)
    PROVE  Inv'
BY SenderOffers DEF SendPaths, Inv, Shape

LEMMA RetryKeeps ==
    ASSUME Inv, NEW id, Retry(id)
    PROVE  Inv'
<1>1. Uploads(up) /\ id \in DOMAIN up
  BY DEF Inv, Shape, Retry, With
<1>2. Uploads([x \in DOMAIN up \ {id} |-> up[x]]) /\ up[id].src \in Sources
  BY <1>1, UploadsSet DEF Uploads
<1>. QED  BY <1>2, SenderOffers DEF Retry

\* What a streaming task does without sending.
LEMMA StreamSteps ==
    ASSUME Inv, NEW id \in Ids, NEW w, stream' = [stream EXCEPT ![id] = w],
           w.pc # "none" => /\ stream[id].pc # "none" /\ {"pc", "pos"} \subseteq DOMAIN w
                            /\ w.pos = stream[id].pos,
           Uploads(up'), fwd' = fwd,
           UNCHANGED <<next, mode, down, approvals, mayUp, mayDown, starting, back, inodes, parts>>
    PROVE  Inv'
<1>1. Shape /\ Perms /\ Stored
  BY DEF Inv
<1>2. FwdKeeps(fwd, fwd') /\ \A x : ChunksKept(fwd, fwd', x)
  BY <1>1, FwdStays
<1>3. BackKeeps(back, back') /\ OffKept(back, mayUp, back', mayUp')
  BY <1>1, BackStays
<1>4. StreamKeeps(stream, stream') /\ DownKeeps(down, down')
  BY <1>1, StreamMoves, DownSame DEF Shape
<1>5. Keeps /\ SameRight
  BY <1>1, <1>2, <1>3, <1>4 DEF Keeps, SameRight, FwdKeeps, Shape, Perms
<1>6. Stored'
  BY <1>1 DEF Stored
<1>. QED  BY <1>5, <1>6, Kept

LEMMA StreamReadKeeps ==
    ASSUME Inv, NEW id \in Ids, StreamRead(id) \/ StreamResume(id)
    PROVE  Inv'
<1>1. /\ fwd' = fwd /\ UNCHANGED <<up, next, mode, down, approvals, mayUp, mayDown, starting, back, inodes, parts>>
      /\ stream[id].pc \in {"read", "paused"}
      /\ \/ stream' = [stream EXCEPT ![id] = [pc |-> "none"]]
         \/ stream' = [stream EXCEPT ![id].pc = "paused"]
         \/ ReadChunk(id)
  BY DEF StreamRead, StreamResume, receiver, perms, disk, world
<1>2. Uploads(up') /\ Streams(stream)
  BY <1>1 DEF Inv, Shape
<1>3. {"pc", "pos"} \subseteq DOMAIN stream[id]
  BY <1>1, <1>2 DEF Streams
<1>4. CASE stream' = [stream EXCEPT ![id] = [pc |-> "none"]]
  BY <1>1, <1>2, <1>4, StreamSteps
<1>5. CASE stream' = [stream EXCEPT ![id].pc = "paused"]
  <2>1. PICK w : w = [stream[id] EXCEPT !.pc = "paused"]
    OBVIOUS
  <2>2. stream' = [stream EXCEPT ![id] = w]
    BY <1>5, <2>1
  <2>3. {"pc", "pos"} \subseteq DOMAIN w /\ w.pos = stream[id].pos
    BY <1>3, <2>1
  <2>. QED  BY <1>1, <1>2, <2>2, <2>3, StreamSteps
<1>6. CASE ReadChunk(id)
  <2>1. PICK w : w = IF stream[id].pos < SizeOf[stream[id].src]
                     THEN [pc |-> "send", src |-> stream[id].src, pos |-> stream[id].pos,
                           data |-> <<stream[id].src, version[stream[id].src]>>]
                     ELSE [pc |-> "hash", src |-> stream[id].src, pos |-> stream[id].pos]
    OBVIOUS
  <2>2. stream' = [stream EXCEPT ![id] = w]
    BY <1>6, <2>1 DEF ReadChunk
  <2>3. {"pc", "pos"} \subseteq DOMAIN w /\ w.pos = stream[id].pos
    BY <2>1
  <2>. QED  BY <1>1, <1>2, <2>2, <2>3, StreamSteps
<1>. QED  BY <1>1, <1>4, <1>5, <1>6

LEMMA StreamFailsKeeps ==
    ASSUME Inv, NEW id \in Ids, StreamFails(id)
    PROVE  Inv'
<1>1. /\ fwd' = fwd /\ UNCHANGED <<next, mode, down, approvals, mayUp, mayDown, starting, back, inodes, parts>>
      /\ stream' = [stream EXCEPT ![id] = [pc |-> "none"]]
  BY DEF StreamFails, receiver, perms, disk
<1>2. Uploads(up')
  BY UploadsSet DEF StreamFails, SetStatus, Inv, Shape
<1>. QED  BY <1>1, <1>2, StreamSteps

LEMMA StreamSendKeeps ==
    ASSUME Inv, NEW id \in Ids, StreamSend(id)
    PROVE  Inv'
<1>1. /\ UNCHANGED <<up, next, mode, down, approvals, mayUp, mayDown, starting, back, inodes, parts>>
      /\ stream[id].pc # "none"
      /\ \/ /\ fwd' = Append(fwd, [t |-> "chunk", id |-> id, at |-> stream[id].pos, data |-> stream[id].data])
            /\ stream' = [stream EXCEPT ![id] = [pc |-> "read", src |-> stream[id].src, pos |-> stream[id].pos + 1]]
         \/ /\ fwd' = Append(fwd, [t |-> "done", id |-> id,
                                   hash |-> Whole(stream[id].src, version[stream[id].src])])
            /\ stream' = [stream EXCEPT ![id] = [pc |-> "none"]]
  BY DEF StreamSend, receiver, perms, disk, world
<1>2. CASE /\ fwd' = Append(fwd, [t |-> "chunk", id |-> id, at |-> stream[id].pos, data |-> stream[id].data])
           /\ stream' = [stream EXCEPT ![id] = [pc |-> "read", src |-> stream[id].src, pos |-> stream[id].pos + 1]]
  <2>1. PICK m : m = [t |-> "chunk", id |-> id, at |-> stream[id].pos, data |-> stream[id].data]
    OBVIOUS
  <2>2. PICK w : w = [pc |-> "read", src |-> stream[id].src, pos |-> stream[id].pos + 1]
    OBVIOUS
  <2>3. Chunk(m, id) /\ m.at = stream[id].pos
    BY <2>1 DEF Chunk
  <2>4. DOMAIN w = {"pc", "src", "pos"} /\ w.pos = stream[id].pos + 1
    BY <2>2
  <2>. QED  BY <1>1, <1>2, <2>1, <2>2, <2>3, <2>4, ChunkSent
<1>3. CASE /\ fwd' = Append(fwd, [t |-> "done", id |-> id,
                                  hash |-> Whole(stream[id].src, version[stream[id].src])])
           /\ stream' = [stream EXCEPT ![id] = [pc |-> "none"]]
  <2>1. PICK m : m = [t |-> "done", id |-> id, hash |-> Whole(stream[id].src, version[stream[id].src])]
    OBVIOUS
  <2>2. Plain(<<m>>)
    BY <2>1, PlainOne DEF Sound
  <2>3. Shape /\ Perms /\ Stored
    BY DEF Inv
  <2>4. IsSeq(fwd') /\ Inserted(fwd, <<m>>, fwd')
    BY <1>3, <2>1, <2>3, AppendInserts DEF Shape, Sent
  <2>5. FwdKeeps(fwd, fwd') /\ \A x : ChunksKept(fwd, fwd', x)
    BY <2>2, <2>3, <2>4, FwdInserted DEF Shape
  <2>6. BackKeeps(back, back') /\ OffKept(back, mayUp, back', mayUp')
    BY <1>1, <2>3, BackStays
  <2>7. StreamKeeps(stream, stream')
    <3>1. PICK w : w = [pc |-> "none"]
      OBVIOUS
    <3>2. stream' = [stream EXCEPT ![id] = w] /\ w.pc = "none"
      BY <1>3, <3>1
    <3>. QED  BY <2>3, <3>2, StreamMoves DEF Shape
  <2>8. DownKeeps(down, down')
    BY <1>1, <2>3, DownSame DEF Shape
  <2>9. Keeps /\ SameRight
    BY <1>1, <2>3, <2>5, <2>6, <2>7, <2>8 DEF Keeps, SameRight, FwdKeeps, Shape, Perms
  <2>10. Stored'
    BY <1>1, <2>3 DEF Stored
  <2>. QED  BY <2>9, <2>10, Kept
<1>. QED  BY <1>1, <1>2, <1>3

\* A step of the sender that offers nothing and starts no stream.
LEMMA SenderSteps ==
    ASSUME Inv, FwdKeeps(fwd, fwd'), \A x : ChunksKept(fwd, fwd', x),
           BackKeeps(back, back'), OffKept(back, mayUp, back', mayUp'), Uploads(up'),
           UNCHANGED <<next, mode, stream, down, approvals, mayDown, starting, inodes, parts>>
    PROVE  Inv'
<1>1. Shape /\ Perms /\ Stored
  BY DEF Inv
<1>2. StreamKeeps(stream, stream') /\ DownKeeps(down, down')
  BY <1>1, StreamSame, DownSame DEF Shape
<1>3. Keeps /\ SameRight
  BY <1>1, <1>2 DEF Keeps, SameRight, FwdKeeps, Shape, Perms
<1>4. Stored'
  BY <1>1 DEF Stored
<1>. QED  BY <1>3, <1>4, Kept

LEMMA OnBackKeeps ==
    ASSUME Inv, OnBack
    PROVE  Inv'
<1>. PICK m : m = Head(back)
  OBVIOUS
<1>1. Shape /\ Stages /\ back # <<>> /\ back' = Tail(back) /\ Sent(back, "accept") /\ Uploads(up)
  BY DEF Inv, OnBack, Shape
<1>2. Sound(m)
  <2>1. Sound(Head(back))
    BY <1>1, BackTail
  <2>. QED  BY <2>1
<1>3. ASSUME mayUp' = IF m.t = "perm" THEN m.on ELSE mayUp
      PROVE  BackKeeps(back, back') /\ OffKept(back, mayUp, back', mayUp')
  <2>1. PICK up1 : up1 = mayUp'
    OBVIOUS
  <2>2. up1 = IF Head(back).t = "perm" THEN Head(back).on ELSE mayUp
    BY <1>3, <2>1
  <2>3. BackKeeps(back, Tail(back)) /\ OffKept(back, mayUp, Tail(back), up1)
    BY <1>1, <2>2, BackTail
  <2>. QED  BY <1>1, <2>1, <2>3
<1>4. fwd' = fwd => FwdKeeps(fwd, fwd') /\ \A x : ChunksKept(fwd, fwd', x)
  BY <1>1, FwdStays
<1>5. CASE /\ m.t = "perm" /\ SetAllowedUp(m.on, <<>>)
           /\ UNCHANGED <<stream, mayDown, next, receiver, disk, world>>
  <2>1. PICK ids : /\ ids = (IF m.on THEN {} ELSE With(Running, up))
                   /\ mayUp' = m.on /\ CancelUp(ids) /\ Tell(Cancels(ids) \o <<>>)
    BY <1>5 DEF SetAllowedUp
  <2>2. IsFiniteSet(ids)
    BY <1>1, <2>1, RunningFinite, FS_EmptySet
  <2>3. Plain(Cancels(ids) \o <<>>)
    BY <2>2, PlainCancels
  <2>4. FwdKeeps(fwd, fwd') /\ \A x : ChunksKept(fwd, fwd', x)
    BY <1>1, <2>1, <2>3, FwdTold
  <2>5. BackKeeps(back, back') /\ OffKept(back, mayUp, back', mayUp')
    BY <1>3, <1>5, <2>1
  <2>6. UNCHANGED <<next, mode, stream, down, approvals, mayDown, starting, inodes, parts>>
    BY <1>5 DEF receiver, disk, world
  <2>. QED  BY <1>1, <2>1, <2>4, <2>5, <2>6, UploadsCancelled, SenderSteps
<1>6. CASE m.t = "fetch" /\ mayUp /\ Offer(m.src, up)
  <2>1. mayUp' = mayUp
    BY <1>6 DEF Offer, perms
  <2>2. BackKeeps(back, back') /\ OffKept(back, mayUp, back', mayUp')
    BY <1>3, <1>6, <2>1
  <2>3. m.src \in Sources
    BY <1>2, <1>6 DEF Sound
  <2>. QED  BY <1>1, <1>6, <2>2, <2>3, Offered
<1>7. CASE /\ m.t = "fetch" /\ ~mayUp /\ Tell(<<[t |-> "reject", id |-> 0]>>)
           /\ UNCHANGED <<manager, next, receiver, perms, disk, world>>
  <2>1. UNCHANGED <<up, mayUp, next, mode, stream, down, approvals, mayDown, starting, inodes, parts>>
    BY <1>7 DEF manager, receiver, perms, disk, world
  <2>2. Plain(<<[t |-> "reject", id |-> 0]>>)
    BY PlainOne DEF Sound
  <2>3. FwdKeeps(fwd, fwd') /\ \A x : ChunksKept(fwd, fwd', x)
    BY <1>1, <1>7, <2>2, FwdTold
  <2>. QED  BY <1>1, <1>3, <1>7, <2>1, <2>3, SenderSteps
<1>8. CASE /\ m.t \notin {"perm", "fetch"} /\ ~mayUp
           /\ UNCHANGED <<fwd, manager, next, receiver, perms, disk, world>>
  <2>1. UNCHANGED <<fwd, up, mayUp, next, mode, stream, down, approvals, mayDown, starting, inodes, parts>>
    BY <1>8 DEF manager, receiver, perms, disk, world
  <2>. QED  BY <1>1, <1>3, <1>4, <1>8, <2>1, SenderSteps
<1>9. CASE m.t = "accept" /\ mayUp /\ OnAccept(m) /\ UNCHANGED <<receiver, disk, world>>
  <2>1. UNCHANGED <<fwd, mayUp, next, mode, down, approvals, mayDown, starting, inodes, parts>>
    BY <1>9 DEF OnAccept, receiver, perms, disk, world
  <2>2. CASE Uploads(up') /\ UNCHANGED stream
    BY <1>3, <1>4, <1>9, <2>1, <2>2, SenderSteps
  <2>3. CASE /\ up' = [up EXCEPT ![m.id].status = "Active"]
             /\ stream' = [stream EXCEPT ![m.id] = [pc |-> "read", src |-> up[m.id].src, pos |-> m.from]]
    <3>1. PICK w : w = [pc |-> "read", src |-> up[m.id].src, pos |-> m.from]
      OBVIOUS
    <3>2. DOMAIN w = {"pc", "src", "pos"} /\ w.pos = m.from /\ stream' = [stream EXCEPT ![m.id] = w]
      BY <2>3, <3>1
    <3>3. Uploads(up')
      BY <1>1, <2>3, UploadsSet
    <3>4. PICK id, from : id = m.id /\ from = m.from
      OBVIOUS
    <3>5. /\ Head(back).t = "accept" /\ Head(back).id = id /\ Head(back).from = from /\ w.pos = from
          /\ stream' = [stream EXCEPT ![id] = w]
      BY <1>9, <3>2, <3>4
    <3>. QED  BY <1>1, <1>9, <2>1, <3>2, <3>3, <3>5, Started
  <2>4. \/ Uploads(up') /\ UNCHANGED stream
        \/ /\ up' = [up EXCEPT ![m.id].status = "Active"]
           /\ stream' = [stream EXCEPT ![m.id] = [pc |-> "read", src |-> up[m.id].src, pos |-> m.from]]
    <3>1. CASE m.id \notin With({"Pending"}, up)
      BY <1>1, <1>9, <3>1 DEF OnAccept
    <3>2. CASE m.id \in With({"Pending"}, up)
      <4>1. CASE m.from > SizeOf[up[m.id].src]
        <5>1. up' = [up EXCEPT ![m.id].status = "Failed"] /\ UNCHANGED stream
          BY <1>9, <3>2, <4>1 DEF OnAccept
        <5>. QED  BY <1>1, <5>1, UploadsSet
      <4>2. CASE ~(m.from > SizeOf[up[m.id].src])
        BY <1>9, <3>2, <4>2 DEF OnAccept
      <4>. QED  BY <4>1, <4>2
    <3>. QED  BY <3>1, <3>2
  <2>. QED  BY <2>2, <2>3, <2>4
<1>10. CASE /\ m.t \in {"reject", "verified"} /\ mayUp
            /\ SetStatus(m.id, IF m.t = "verified" /\ m.ok THEN "Completed" ELSE "Failed")
            /\ UNCHANGED <<fwd, ctl, stream, next, receiver, perms, disk, world>>
  <2>1. UNCHANGED <<fwd, mayUp, next, mode, stream, down, approvals, mayDown, starting, inodes, parts>>
    BY <1>10 DEF receiver, perms, disk, world
  <2>2. Uploads(up')
    BY <1>1, <1>10, UploadsStatus
  <2>. QED  BY <1>3, <1>4, <1>10, <2>1, <2>2, SenderSteps
<1>11. CASE /\ m.t = "cancel" /\ mayUp /\ CancelUp({m.id} \cap DOMAIN up)
            /\ UNCHANGED <<fwd, stream, next, receiver, perms, disk, world>>
  <2>1. UNCHANGED <<fwd, mayUp, next, mode, stream, down, approvals, mayDown, starting, inodes, parts>>
    BY <1>11 DEF receiver, perms, disk, world
  <2>2. Uploads(up')
    BY <1>1, <1>11, UploadsCancelled
  <2>. QED  BY <1>3, <1>4, <1>11, <2>1, <2>2, SenderSteps
<1>. QED  BY <1>5, <1>6, <1>7, <1>8, <1>9, <1>10, <1>11 DEF OnBack

-----------------------------------------------------------------------------
(* The receiver's steps *)

\* A step of the receiver that accepts nothing and asks nobody.
LEMMA ReceiverSteps ==
    ASSUME Inv, FwdKeeps(fwd, fwd'), \A id \in Ids : TakesOf(down', id) => ChunksKept(fwd, fwd', id),
           BackKeeps(back, back'), OffKept(back, mayUp, back', mayUp'), DownKeeps(down, down'),
           DOMAIN approvals' \subseteq DOMAIN approvals, Asked(approvals'), starting' => mayDown,
           UNCHANGED <<next, mode, stream, up, mayUp, mayDown>>, Stored'
    PROVE  Inv'
<1>1. StreamKeeps(stream, stream') /\ Uploads(up') /\ Perms
  BY StreamSame DEF Inv, Shape
<1>2. Keeps /\ SameRight
  BY <1>1 DEF Keeps, SameRight, FwdKeeps
<1>. QED  BY <1>2, Kept

LEMMA StartFailsKeeps ==
    ASSUME Inv, NEW id \in Ids, Taking(id), StartFails(id)
    PROVE  Inv'
<1>1. Shape /\ Stored /\ Rows(down)
  BY DEF Inv, Shape
<1>2. Plain(<<[t |-> "reject", id |-> id]>>)
  BY PlainOne DEF Sound
<1>3. BackKeeps(back, back') /\ OffKept(back, mayUp, back', mayUp')
  BY <1>1, <1>2, BackTold DEF StartFails, Taking
<1>4. DownKeeps(down, down')
  <2>1. CASE id \in DOMAIN down
    <3>1. down' = [down EXCEPT ![id].status = "Failed", ![id].file = None]
      BY <2>1 DEF StartFails
    <3>. QED  BY <1>1, <2>1, <3>1, DownCloses
  <2>2. CASE id \notin DOMAIN down
    BY <1>1, <2>2, DownSame DEF StartFails
  <2>. QED  BY <2>1, <2>2
<1>5. Stored'
  BY <1>1 DEF StartFails, disk, Stored
<1>. QED  BY <1>3, <1>4, <1>5, ReceiverSteps DEF Taking

LEMMA Answered ==
    ASSUME Inv, NEW id \in Ids, NEW s \in Sources, Taking(id), AcceptIncoming(id, s)
    PROVE  Inv'
<1>1. CASE StartIncoming(id, s)
  BY <1>1, Accepted
<1>2. CASE StartFails(id)
  BY <1>2, StartFailsKeeps
<1>3. CASE /\ down' = Put(down, id, [src |-> s, status |-> "Pending", queued |-> TRUE,
                                     cancelled |-> FALSE, file |-> None])
           /\ UNCHANGED <<back, disk, used>>
  BY <1>3, Queued DEF disk
<1>. QED  BY <1>1, <1>2, <1>3 DEF AcceptIncoming

LEMMA RespondKeeps ==
    ASSUME Inv, NEW id \in Ids, NEW accept, Respond(id, accept)
    PROVE  Inv'
<1>1. Shape /\ Numbers /\ Stored /\ Perms /\ Asked(approvals)
  BY DEF Inv, Shape
<1>2. /\ id \in DOMAIN approvals /\ ~starting
      /\ approvals' = [x \in DOMAIN approvals \ {id} |-> approvals[x]]
      /\ UNCHANGED <<up, stream, starting, mayUp, mayDown, fwd, mode, next>>
  BY DEF Respond, manager, perms
<1>3. Asked(approvals') /\ DOMAIN approvals' = DOMAIN approvals \ {id} /\ approvals[id] \in Sources
  BY <1>1, <1>2 DEF Asked
<1>4. FwdKeeps(fwd, fwd') /\ \A x : ChunksKept(fwd, fwd', x)
  BY <1>1, <1>2, FwdStays
<1>5. CASE AcceptIncoming(id, approvals[id])
  <2>1. Taking(id)
    <3>1. id < next /\ ~Has(fwd', "offer", id) /\ Fresh(id)
      BY <1>1, <1>2 DEF Numbers, Fresh
    <3>2. mode # "ask" => mayDown
      BY <1>1, <1>2 DEF Perms
    <3>. QED  BY <1>2, <1>3, <1>4, <3>1, <3>2 DEF Taking
  <2>. QED  BY <1>3, <1>5, <2>1, Answered
<1>6. CASE Reply(<<[t |-> "reject", id |-> id]>>) /\ UNCHANGED <<down, disk, used>>
  <2>1. Plain(<<[t |-> "reject", id |-> id]>>)
    BY PlainOne DEF Sound
  <2>2. BackKeeps(back, back') /\ OffKept(back, mayUp, back', mayUp')
    BY <1>1, <1>2, <1>6, <2>1, BackTold
  <2>3. DownKeeps(down, down')
    BY <1>1, <1>6, DownSame DEF Shape
  <2>4. Stored'
    BY <1>1, <1>6 DEF Stored, disk
  <2>. QED  BY <1>2, <1>3, <1>4, <2>2, <2>3, <2>4, ReceiverSteps
<1>. QED  BY <1>5, <1>6 DEF Respond

LEMMA StartQueuedKeeps ==
    ASSUME Inv, StartQueued
    PROVE  Inv'
<1>1. Shape /\ Numbers /\ Stored /\ Perms /\ Rows(down) /\ Asked(approvals)
  BY DEF Inv, Shape
<1>2. starting /\ UNCHANGED <<up, stream, approvals, mayUp, mayDown, fwd, mode, next>>
  BY DEF StartQueued, manager, perms
<1>3. FwdKeeps(fwd, fwd') /\ \A x : ChunksKept(fwd, fwd', x)
  BY <1>1, <1>2, FwdStays
<1>4. mayDown
  BY <1>1, <1>2 DEF Perms
<1>5. ASSUME NEW id \in DOMAIN down, down[id].queued,
             StartIncoming(id, down[id].src) \/ StartFails(id)
      PROVE  Inv'
  <2>1. id \in Ids /\ down[id].src \in Sources
    BY <1>1 DEF Rows, RowOk
  <2>2. Taking(id)
    <3>1. id < next /\ ~Has(fwd', "offer", id) /\ Fresh(id) /\ id \notin DOMAIN approvals
      BY <1>1, <1>2, <1>5 DEF Numbers, Fresh
    <3>2. starting' => mayDown'
      BY <1>2, <1>4
    <3>. QED  BY <1>1, <1>2, <1>3, <1>4, <3>1, <3>2 DEF Taking
  <2>. QED  BY <1>5, <2>1, <2>2, Accepted, StartFailsKeeps
<1>6. CASE UNCHANGED <<down, back, disk, used>>
  <2>1. BackKeeps(back, back') /\ OffKept(back, mayUp, back', mayUp')
    BY <1>1, <1>2, <1>6, BackStays
  <2>2. DownKeeps(down, down') /\ Stored'
    BY <1>1, <1>6, DownSame DEF Stored, disk
  <2>. QED  BY <1>1, <1>2, <1>3, <1>4, <1>6, <2>1, <2>2, ReceiverSteps
<1>. QED  BY <1>5, <1>6 DEF StartQueued

LEMMA DownloadKeeps ==
    ASSUME Inv, NEW s \in Sources, Download(s)
    PROVE  Inv'
<1>1. Shape /\ Stored /\ Perms
  BY DEF Inv
<1>2. /\ UNCHANGED <<up, stream, down, approvals, starting, mayUp, mayDown, fwd, inodes, parts, mode, next>>
      /\ Reply(<<[t |-> "fetch", id |-> 0, src |-> s]>>)
  BY DEF Download, manager, perms, disk, world
<1>3. Plain(<<[t |-> "fetch", id |-> 0, src |-> s]>>)
  BY PlainOne DEF Sound
<1>4. BackKeeps(back, back') /\ OffKept(back, mayUp, back', mayUp')
  BY <1>1, <1>2, <1>3, BackTold
<1>5. FwdKeeps(fwd, fwd') /\ \A x : ChunksKept(fwd, fwd', x)
  BY <1>1, <1>2, FwdStays
<1>6. DownKeeps(down, down') /\ Stored'
  BY <1>1, <1>2, DownSame DEF Stored, Shape
<1>7. Asked(approvals') /\ (starting' => mayDown)
  BY <1>1, <1>2 DEF Shape, Perms
<1>. QED  BY <1>2, <1>4, <1>5, <1>6, <1>7, ReceiverSteps

LEMMA NothingHere ==
    ASSUME Inv, UNCHANGED <<up, stream, down, approvals, starting, mayUp, mayDown, fwd, back,
                            inodes, parts, mode, next>>
    PROVE  Inv'
<1>1. Shape /\ Stored /\ Perms
  BY DEF Inv
<1>2. BackKeeps(back, back') /\ OffKept(back, mayUp, back', mayUp')
  BY <1>1, BackStays
<1>3. FwdKeeps(fwd, fwd') /\ \A x : ChunksKept(fwd, fwd', x)
  BY <1>1, FwdStays
<1>4. DownKeeps(down, down') /\ Stored'
  BY <1>1, DownSame DEF Stored, Shape
<1>5. Asked(approvals') /\ (starting' => mayDown)
  BY <1>1 DEF Shape, Perms
<1>. QED  BY <1>2, <1>3, <1>4, <1>5, ReceiverSteps

\* The permission of the receiver changes: what runs is cancelled, and the sender told.
LEMMA AllowedDown ==
    ASSUME Inv, FwdKeeps(fwd, fwd'), \A x : ChunksKept(fwd, fwd', x), ~starting, NEW on \in BOOLEAN, NEW told,
           IsSeq(told), \/ told = <<>> /\ mode = "download"
                        \/ told = <<[t |-> "perm", on |-> on]>>,
           SetAllowedDown(on, told),
           UNCHANGED <<next, mode, up, stream, approvals, starting, mayUp, inodes, parts>>
    PROVE  Inv'
<1>1. Shape /\ Stored /\ Rows(down) /\ Asked(approvals) /\ Streams(stream) /\ Uploads(up)
  BY DEF Inv, Shape
<1>2. PICK ids : /\ ids = (IF on THEN {} ELSE With(Running, down))
                 /\ mayDown' = on /\ CancelDown(ids) /\ Reply(Cancels(ids) \o told)
  BY DEF SetAllowedDown
<1>3. IsFiniteSet(ids)
  BY <1>1, <1>2, RunningFinite, FS_EmptySet
<1>4. PICK c : c = Cancels(ids) \o told
  OBVIOUS
<1>5. Withdraws(ids, told, c)
  BY <1>3, <1>4, CancelsAnd
<1>6. \A j \in 1..Len(told) : told[j] = [t |-> "perm", on |-> on]
  <2>1. CASE told = <<>>
    BY <2>1, EmptyOf
  <2>2. CASE told = <<[t |-> "perm", on |-> on]>>
    BY <2>2, SingleOf
  <2>. QED  BY <2>1, <2>2
<1>7. \A k \in 1..Len(c) : c[k].t \in {"cancel", "perm"}
  BY <1>5, <1>6 DEF Withdraws
<1>8. IsSeq(c) /\ AllSound(c) /\ \A k \in 1..Len(c) : c[k].t # "accept"
  <2>1. IsSeq(c)
    BY <1>5 DEF Withdraws
  <2>2. \A k \in 1..Len(c) : Sound(c[k]) /\ c[k].t # "accept"
    <3>. SUFFICES ASSUME NEW k \in 1..Len(c) PROVE Sound(c[k]) /\ c[k].t # "accept"
      OBVIOUS
    <3>1. c[k].t = "cancel" \/ c[k] = [t |-> "perm", on |-> on]
      BY <1>5, <1>6 DEF Withdraws
    <3>. QED  BY <3>1 DEF Sound
  <2>3. AllSound(c)
    BY <2>2 DEF AllSound
  <2>. QED  BY <2>1, <2>2, <2>3
<1>9. BackKeeps(back, back') /\ Concat(back, c, back')
  BY <1>1, <1>2, <1>4, <1>8, BackMore DEF Reply, Shape
<1>10. /\ DownKeeps(down, down')
       /\ \A id \in DOMAIN down : down'[id].status \in {"Active", "Paused"} => id \notin ids
  <2>1. down' = [id \in DOMAIN down |->
                   IF id \in ids
                   THEN [down[id] EXCEPT !.status = "Cancelled", !.cancelled = TRUE, !.file = None]
                   ELSE down[id]]
    BY <1>2 DEF CancelDown
  <2>2. Rows(down)
    BY <1>1
  <2>. QED  BY <2>1, <2>2, DownCancels
<1>11. ~on => \A id \in DOMAIN down' : down'[id].status \notin {"Active", "Paused"}
  <2>. SUFFICES ASSUME ~on, NEW id \in DOMAIN down', down'[id].status \in {"Active", "Paused"}
                PROVE  FALSE
    OBVIOUS
  <2>1. id \in DOMAIN down /\ down[id].status \in {"Active", "Paused"}
    BY <1>10 DEF DownKeeps
  <2>2. id \in ids
    BY <1>2, <2>1 DEF With, Running
  <2>. QED  BY <1>10, <2>1, <2>2
<1>12. mode # "download" /\ ~on => OffEnd(back', mayUp')
  <2>. SUFFICES ASSUME mode # "download", ~on PROVE OffEnd(back', mayUp')
    OBVIOUS
  <2>1. Len(told) = 1 /\ told[1] = [t |-> "perm", on |-> on]
    BY SingleOf
  <2>2. Len(Cancels(ids)) \in Nat /\ Len(back) \in Nat
    BY <1>1, <1>3, CancelsOf, LenOf DEF Shape, Sent
  <2>3. Len(c) = Len(Cancels(ids)) + 1 /\ c[Len(c)] = told[1]
    BY <1>5, <2>1, <2>2 DEF Withdraws, Concat
  <2>4. Len(back') = Len(back) + Len(c) /\ back'[Len(back')] = c[Len(c)]
    BY <1>9, <2>2, <2>3 DEF Concat
  <2>5. Len(back') \in Nat \ {0} /\ back'[Len(back')].t = "perm" /\ ~back'[Len(back')].on
    BY <2>1, <2>2, <2>3, <2>4
  <2>. QED  BY <2>5, OffSaid
<1>13. Keeps
  <2>1. StreamKeeps(stream, stream')
    BY <1>1, StreamSame
  <2>. QED  BY <1>1, <1>9, <1>10, <2>1 DEF Keeps, FwdKeeps
<1>14. Stored'
  BY <1>1 DEF Stored
<1>. QED  BY <1>2, <1>11, <1>12, <1>13, <1>14, Permitted

LEMMA OnFwdKeeps ==
    ASSUME Inv, OnFwd
    PROVE  Inv'
<1>. PICK m : m = Head(fwd)
  OBVIOUS
<1>1. /\ Shape /\ Numbers /\ Stages /\ Perms /\ Stored /\ fwd # <<>> /\ fwd' = Tail(fwd) /\ ~starting
      /\ Sent(fwd, "offer") /\ Rows(down) /\ Asked(approvals)
      /\ UNCHANGED <<up, stream, mode, next>>
  BY DEF Inv, OnFwd, Shape, manager
<1>2. /\ FwdKeeps(fwd, fwd') /\ \A id : ~Chunk(m, id) => ChunksKept(fwd, fwd', id)
      /\ Sound(m) /\ Has(fwd, m.t, m.id)
      /\ m.t = "offer" => ~Has(fwd', "offer", m.id)
      /\ mode # "download" => m.t # "perm"
  BY <1>1, FwdTail DEF Perms
<1>3. mayUp' = mayUp /\ back' = back => BackKeeps(back, back') /\ OffKept(back, mayUp, back', mayUp')
  BY <1>1, BackStays
<1>4. ASSUME NEW t, NEW id, t \in {"reject", "cancel"}, Reply(<<[t |-> t, id |-> id]>>), mayUp' = mayUp
      PROVE  BackKeeps(back, back') /\ OffKept(back, mayUp, back', mayUp')
  <2>1. Plain(<<[t |-> t, id |-> id]>>)
    BY <1>4, PlainOne DEF Sound
  <2>. QED  BY <1>1, <1>4, <2>1, BackTold
<1>5. CASE /\ m.t = "perm" /\ SetAllowedDown(m.on, <<>>)
           /\ UNCHANGED <<approvals, starting, mayUp, disk, used>>
  <2>1. mode = "download" /\ \A x : ChunksKept(fwd, fwd', x)
    BY <1>2, <1>5 DEF Chunk
  <2>2. IsSeq(<<>>) /\ UNCHANGED <<approvals, starting, mayUp, inodes, parts>>
    BY <1>5, EmptyOf DEF disk
  <2>3. m.on \in BOOLEAN
    BY <1>2, <1>5 DEF Sound
  <2>. QED  BY <1>1, <1>2, <1>5, <2>1, <2>2, <2>3, AllowedDown
<1>6. CASE /\ m.t # "perm" /\ m.t # "offer" /\ ~mayDown
           /\ UNCHANGED <<down, approvals, starting, perms, back, disk, used>>
  <2>1. UNCHANGED <<down, approvals, starting, mayUp, mayDown, back, inodes, parts>>
    BY <1>6 DEF perms, disk
  <2>2. \A id \in Ids : TakesOf(down', id) => ChunksKept(fwd, fwd', id)
    <3>1. ASSUME NEW id \in Ids, TakesOf(down, id) PROVE ~Chunk(m, id)
      BY <1>1, <1>2, <1>6, <3>1 DEF Perms, Idle, Chunk
    <3>. QED  BY <1>2, <2>1, <3>1
  <2>3. DownKeeps(down, down') /\ Stored'
    BY <1>1, <2>1, DownSame DEF Stored
  <2>. QED  BY <1>1, <1>2, <1>3, <2>1, <2>2, <2>3, ReceiverSteps
<1>7. CASE m.t = "offer" /\ OnOffer(m) /\ UNCHANGED <<starting, perms>>
  <2>1. /\ UNCHANGED <<starting, mayUp, mayDown>> /\ m.id \in Ids /\ m.src \in Sources
        /\ \A x : ChunksKept(fwd, fwd', x)
    BY <1>2, <1>7 DEF perms, Sound, Chunk
  <2>2. m.id < next /\ m.id \notin DOMAIN approvals /\ Fresh(m.id)
    BY <1>1, <1>2, <1>7 DEF Numbers, Fresh
  <2>3. CASE /\ Reply(<<[t |-> "reject", id |-> m.id]>>)
             /\ UNCHANGED <<down, approvals, disk, used>>
    <3>1. BackKeeps(back, back') /\ OffKept(back, mayUp, back', mayUp')
      BY <1>4, <2>1, <2>3
    <3>2. DownKeeps(down, down') /\ Stored'
      BY <1>1, <2>3, DownSame DEF Stored, disk
    <3>. QED  BY <1>1, <1>2, <2>1, <2>3, <3>1, <3>2, ReceiverSteps
  <2>4. CASE /\ m.id \notin DOMAIN down /\ mode = "ask"
             /\ approvals' = Put(approvals, m.id, m.src)
             /\ UNCHANGED <<down, back, disk, used>>
    <3>1. PICK id, s : id = m.id /\ s = m.src
      OBVIOUS
    <3>2. /\ id \in Ids /\ s \in Sources /\ id < next /\ Has(fwd, "offer", id) /\ ~Has(fwd', "offer", id)
          /\ approvals' = Put(approvals, id, s) /\ id \notin DOMAIN down
      BY <1>2, <1>7, <2>1, <2>2, <2>4, <3>1
    <3>3. UNCHANGED <<next, mode, up, stream, down, mayUp, mayDown, starting, back, inodes, parts>>
      BY <1>1, <2>1, <2>4 DEF disk
    <3>. QED  BY <1>2, <2>1, <2>4, <3>2, <3>3, Requested
  <2>5. CASE mayDown /\ AcceptIncoming(m.id, m.src) /\ UNCHANGED approvals
    <3>1. Taking(m.id)
      BY <1>1, <1>2, <1>7, <2>1, <2>2, <2>5 DEF Taking
    <3>. QED  BY <2>1, <2>5, <3>1, Answered
  <2>. QED  BY <1>7, <2>3, <2>4, <2>5 DEF OnOffer
<1>8. CASE /\ m.t = "chunk" /\ mayDown /\ OnChunk(m)
           /\ UNCHANGED <<approvals, starting, perms, parts, targets>>
  <2>1. UNCHANGED <<approvals, starting, mayUp, mayDown, parts>>
    BY <1>8 DEF perms
  <2>2. CASE ~TakesOf(down, m.id)
    <3>1. UNCHANGED <<down, inodes, back>>
      BY <1>8, <2>2 DEF OnChunk, Takes, TakesOf
    <3>2. \A id \in Ids : TakesOf(down', id) => ChunksKept(fwd, fwd', id)
      BY <1>2, <2>2, <3>1 DEF Chunk
    <3>3. DownKeeps(down, down') /\ Stored'
      BY <1>1, <2>1, <3>1, DownSame DEF Stored
    <3>. QED  BY <1>1, <1>2, <1>3, <2>1, <3>1, <3>2, <3>3, ReceiverSteps
  <2>3. CASE TakesOf(down, m.id) /\ FailChunk(m.id)
    <3>1. m.id \in DOMAIN down
      BY <2>3 DEF TakesOf
    <3>2. DownKeeps(down, down') /\ ~TakesOf(down', m.id)
      BY <1>1, <2>3, <3>1, DownCloses DEF FailChunk
    <3>3. \A id \in Ids : TakesOf(down', id) => ChunksKept(fwd, fwd', id)
      BY <1>2, <3>2 DEF Chunk
    <3>4. BackKeeps(back, back') /\ OffKept(back, mayUp, back', mayUp')
      BY <1>4, <2>1, <2>3 DEF FailChunk
    <3>5. Stored'
      BY <1>1, <2>1, <2>3 DEF FailChunk, Stored
    <3>. QED  BY <1>1, <1>2, <2>1, <3>2, <3>3, <3>4, <3>5, ReceiverSteps
  <2>4. CASE /\ TakesOf(down, m.id) /\ m.at = down[m.id].file.received
             /\ inodes' = [inodes EXCEPT ![down[m.id].file.node] = Written(@, m.at, m.data)]
             /\ down' = [down EXCEPT ![m.id].file.received = @ + 1]
             /\ UNCHANGED back
    <3>1. PICK id, at, x, node : id = m.id /\ at = m.at /\ x = m.data /\ node = down[m.id].file.node
      OBVIOUS
    <3>2. /\ id \in Ids /\ Chunk(Head(fwd), id) /\ TakesOf(down, id)
          /\ Head(fwd).at = down[id].file.received /\ at = Head(fwd).at
          /\ down' = [down EXCEPT ![id].file.received = @ + 1]
          /\ inodes' = [inodes EXCEPT ![node] = Written(@, at, x)]
      BY <1>1, <1>8, <2>4, <3>1 DEF Chunk, TakesOf, Rows
    <3>3. UNCHANGED <<next, mode, up, stream, approvals, mayUp, mayDown, starting, back, parts>>
      BY <1>1, <2>1, <2>4
    <3>. QED  BY <1>1, <1>8, <3>2, <3>3, Taken
  <2>. QED  BY <1>8, <2>2, <2>3, <2>4 DEF OnChunk, Takes, TakesOf
<1>9. CASE m.t = "done" /\ mayDown /\ OnDone(m) /\ UNCHANGED <<approvals, perms, inodes, used>>
  <2>1. UNCHANGED <<approvals, mayUp, mayDown, inodes>> /\ \A x : ChunksKept(fwd, fwd', x)
    BY <1>2, <1>9 DEF perms, Chunk
  <2>2. CASE UNCHANGED <<down, parts, targets, back, starting>>
    <3>1. DownKeeps(down, down') /\ Stored'
      BY <1>1, <2>1, <2>2, DownSame DEF Stored
    <3>. QED  BY <1>1, <1>2, <1>3, <2>1, <2>2, <3>1, ReceiverSteps
  <2>3. CASE m.id \in DOMAIN down /\ ~UNCHANGED <<down, parts, targets, back, starting>>
    <3>1. PICK st, ok : /\ st \notin {"Active", "Paused"}
                        /\ down' = [down EXCEPT ![m.id].file = None, ![m.id].status = st]
                        /\ Reply(<<[t |-> "verified", id |-> m.id, ok |-> ok]>>)
                        /\ \/ parts' = parts
                           \/ parts' = [parts EXCEPT ![down[m.id].file.path] = 0]
      <4>1. PICK ok : ok = Finish(down[m.id].file, SizeOf[down[m.id].src], m.hash)
        OBVIOUS
      <4>2. PICK st : st = IF ok THEN "Completed" ELSE "Failed"
        OBVIOUS
      <4>3. /\ down' = [down EXCEPT ![m.id].file = None, ![m.id].status = st]
            /\ Reply(<<[t |-> "verified", id |-> m.id, ok |-> ok]>>)
            /\ parts' = IF ok \/ down[m.id].file.received = SizeOf[down[m.id].src]
                        THEN [parts EXCEPT ![down[m.id].file.path] = 0] ELSE parts
        BY <1>9, <2>3, <4>1, <4>2 DEF OnDone
      <4>4. st \notin {"Active", "Paused"}
        BY <4>2
      <4>5. \/ parts' = parts
            \/ parts' = [parts EXCEPT ![down[m.id].file.path] = 0]
        BY <4>3
      <4>. QED  BY <4>3, <4>4, <4>5, Zenon
    <3>2. down' = [down EXCEPT ![m.id].status = st, ![m.id].file = None]
      <4>1. RowOk(down[m.id])
        BY <1>1, <2>3 DEF Rows
      <4>2. [[down[m.id] EXCEPT !.file = None] EXCEPT !.status = st]
              = [[down[m.id] EXCEPT !.status = st] EXCEPT !.file = None]
        BY <4>1 DEF RowOk
      <4>. QED  BY <2>3, <3>1, <4>2
    <3>3. DownKeeps(down, down')
      BY <1>1, <2>3, <3>1, <3>2, DownCloses
    <3>4. Plain(<<[t |-> "verified", id |-> m.id, ok |-> ok]>>)
      BY PlainOne DEF Sound
    <3>5. BackKeeps(back, back') /\ OffKept(back, mayUp, back', mayUp')
      BY <1>1, <2>1, <3>1, <3>4, BackTold
    <3>6. Stored'
      BY <1>1, <2>1, <3>1 DEF Stored
    <3>. QED  BY <1>1, <1>2, <1>9, <2>1, <3>3, <3>5, <3>6, ReceiverSteps
  <2>4. m.id \in DOMAIN down \/ UNCHANGED <<down, parts, targets, back, starting>>
    BY <1>9 DEF OnDone
  <2>. QED  BY <2>2, <2>3, <2>4
<1>10. CASE /\ m.t = "cancel" /\ mayDown /\ CancelDown({m.id})
            /\ UNCHANGED <<approvals, starting, perms, back, disk, used>>
  <2>1. UNCHANGED <<approvals, starting, mayUp, mayDown, back, inodes, parts>> /\ \A x : ChunksKept(fwd, fwd', x)
    BY <1>2, <1>10 DEF perms, disk, Chunk
  <2>2. DownKeeps(down, down') /\ Stored'
    BY <1>1, <1>10, <2>1, DownCancels DEF CancelDown, Stored
  <2>. QED  BY <1>1, <1>2, <1>3, <2>1, <2>2, ReceiverSteps
<1>11. CASE /\ m.t = "reject" /\ mayDown
            /\ UNCHANGED <<down, approvals, starting, perms, back, disk, used>>
  <2>1. UNCHANGED <<down, approvals, starting, mayUp, mayDown, back, inodes, parts>> /\ \A x : ChunksKept(fwd, fwd', x)
    BY <1>2, <1>11 DEF perms, disk, Chunk
  <2>2. DownKeeps(down, down') /\ Stored'
    BY <1>1, <2>1, DownSame DEF Stored
  <2>. QED  BY <1>1, <1>2, <1>3, <2>1, <2>2, ReceiverSteps
<1>. QED  BY <1>5, <1>6, <1>7, <1>8, <1>9, <1>10, <1>11 DEF OnFwd

-----------------------------------------------------------------------------
(* The people at both ends *)

\* Pausing and going on, at the end of the viewer.
LEMMA TogglesKeeps ==
    ASSUME Inv, NEW id \in Ids, ViewerPauses(id) \/ ViewerResumes(id),
           UNCHANGED <<fwd, back, stream, approvals, starting, mayUp, mayDown, inodes, parts, mode, next>>
    PROVE  Inv'
<1>1. Shape /\ Rows(down) /\ Uploads(up) /\ Streams(stream) /\ Asked(approvals) /\ Stored /\ Perms
  BY DEF Inv, Shape
<1>2. FwdKeeps(fwd, fwd') /\ \A x : ChunksKept(fwd, fwd', x)
  BY <1>1, FwdStays
<1>3. BackKeeps(back, back') /\ OffKept(back, mayUp, back', mayUp')
  BY <1>1, BackStays
<1>4. CASE mode = "download"
  <2>1. PICK st : /\ st \in {"Active", "Paused"} /\ id \in DOMAIN down
                  /\ down[id].status \in {"Active", "Paused"}
                  /\ down' = [down EXCEPT ![id].status = st] /\ up' = up
    <3>1. CASE ViewerPauses(id)
      BY <1>4, <3>1 DEF ViewerPauses, With
    <3>2. CASE ViewerResumes(id)
      BY <1>4, <3>2 DEF ViewerResumes, With
    <3>. QED  BY <3>1, <3>2
  <2>2. DownKeeps(down, down')
    BY <1>1, <2>1, DownToggles
  <2>3. Stored' /\ Asked(approvals') /\ (starting' => mayDown)
    BY <1>1 DEF Stored, Perms
  <2>. QED  BY <1>1, <1>2, <1>3, <2>1, <2>2, <2>3, ReceiverSteps
<1>5. CASE mode # "download"
  <2>1. PICK st : up' = [up EXCEPT ![id].status = st] /\ down' = down
    <3>1. CASE ViewerPauses(id)
      BY <1>5, <3>1 DEF ViewerPauses
    <3>2. CASE ViewerResumes(id)
      BY <1>5, <3>2 DEF ViewerResumes
    <3>. QED  BY <3>1, <3>2
  <2>2. Uploads(up')
    BY <1>1, <2>1, UploadsSet
  <2>. QED  BY <1>1, <1>2, <1>3, <2>1, <2>2, SenderSteps
<1>. QED  BY <1>4, <1>5

LEMMA CancelsKeeps ==
    ASSUME Inv, NEW id \in Ids, ViewerCancels(id),
           UNCHANGED <<stream, approvals, starting, mayUp, mayDown, inodes, parts, mode, next>>
    PROVE  Inv'
<1>1. Shape /\ Rows(down) /\ Uploads(up) /\ Streams(stream) /\ Asked(approvals) /\ Stored /\ Perms
  BY DEF Inv, Shape
<1>2. Plain(Cancels({id}))
  BY FS_Singleton, PlainCancels
<1>3. CASE mode = "download"
  <2>1. CancelDown({id}) /\ Reply(Cancels({id})) /\ UNCHANGED <<up, fwd>>
    BY <1>3 DEF ViewerCancels
  <2>2. FwdKeeps(fwd, fwd') /\ \A x : ChunksKept(fwd, fwd', x)
    BY <1>1, <2>1, FwdStays
  <2>3. BackKeeps(back, back') /\ OffKept(back, mayUp, back', mayUp')
    BY <1>1, <1>2, <2>1, BackTold
  <2>4. DownKeeps(down, down')
    BY <1>1, <2>1, DownCancels DEF CancelDown
  <2>5. Stored' /\ Asked(approvals') /\ (starting' => mayDown)
    BY <1>1 DEF Stored, Perms
  <2>. QED  BY <1>1, <2>1, <2>2, <2>3, <2>4, <2>5, ReceiverSteps
<1>4. CASE mode # "download"
  <2>1. CancelUp({id}) /\ Tell(Cancels({id})) /\ UNCHANGED <<down, back>>
    BY <1>4 DEF ViewerCancels
  <2>2. FwdKeeps(fwd, fwd') /\ \A x : ChunksKept(fwd, fwd', x)
    BY <1>1, <1>2, <2>1, FwdTold
  <2>3. BackKeeps(back, back') /\ OffKept(back, mayUp, back', mayUp')
    BY <1>1, <2>1, BackStays
  <2>4. Uploads(up')
    BY <1>1, <2>1, UploadsCancelled
  <2>. QED  BY <1>1, <2>1, <2>2, <2>3, <2>4, SenderSteps
<1>. QED  BY <1>3, <1>4

LEMMA ViewerKeeps ==
    ASSUME Inv, NEW id \in Ids, Viewer(id)
    PROVE  Inv'
<1>1. UNCHANGED <<stream, approvals, starting, mayUp, mayDown, inodes, parts, mode, next>>
  BY DEF Viewer, perms, disk, world
<1>2. CASE (ViewerPauses(id) \/ ViewerResumes(id)) /\ UNCHANGED <<fwd, back>>
  BY <1>1, <1>2, TogglesKeeps
<1>3. CASE ViewerCancels(id)
  BY <1>1, <1>3, CancelsKeeps
<1>. QED  BY <1>2, <1>3 DEF Viewer

\* The host of a download changes its permission: its manager cancels what it sends,
\* and its viewer is told.
LEMMA AllowedUp ==
    ASSUME Inv, mode = "download", NEW on \in BOOLEAN,
           SetAllowedUp(on, <<[t |-> "perm", on |-> on]>>),
           UNCHANGED <<down, mayDown, back, stream, approvals, starting, inodes, parts, mode, next>>
    PROVE  Inv'
<1>1. /\ Shape /\ Rows(down) /\ Uploads(up) /\ Streams(stream) /\ Asked(approvals) /\ Stored /\ Perms
      /\ Sent(fwd, "offer") /\ IsSeq(fwd) /\ Sent(back, "accept")
  BY DEF Inv, Shape, Sent
<1>2. PICK told : told = <<[t |-> "perm", on |-> on]>>
  OBVIOUS
<1>3. PICK ids : /\ ids = (IF on THEN {} ELSE With(Running, up))
                 /\ CancelUp(ids) /\ Tell(Cancels(ids) \o told)
  BY <1>2 DEF SetAllowedUp
<1>4. IsFiniteSet(ids)
  BY <1>1, <1>3, RunningFinite, FS_EmptySet
<1>5. PICK c : c = Cancels(ids) \o told
  OBVIOUS
<1>6. IsSeq(told) /\ Len(told) = 1 /\ told[1] = [t |-> "perm", on |-> on]
  BY <1>2, SingleOf
<1>7. Withdraws(ids, told, c)
  BY <1>4, <1>5, <1>6, CancelsAnd
<1>8. \A k \in 1..Len(c) : c[k].t = "cancel" \/ c[k] = [t |-> "perm", on |-> on]
  BY <1>6, <1>7 DEF Withdraws
<1>9. IsSeq(c) /\ AllSound(c) /\ \A k \in 1..Len(c) : c[k].t \notin {"offer", "chunk"}
  <2>1. IsSeq(c)
    BY <1>7 DEF Withdraws
  <2>2. \A k \in 1..Len(c) : Sound(c[k]) /\ c[k].t \notin {"offer", "chunk"}
    BY <1>8 DEF Sound
  <2>3. AllSound(c)
    BY <2>2 DEF AllSound
  <2>. QED  BY <2>1, <2>2, <2>3
<1>10. IsSeq(fwd') /\ Inserted(fwd, c, fwd')
  BY <1>1, <1>3, <1>5, <1>9, OvertakingInserts DEF Tell
<1>11. FwdCarries(fwd, fwd') /\ \A x : ChunksKept(fwd, fwd', x)
  BY <1>1, <1>9, <1>10, FwdMore
<1>12. BackKeeps(back, back')
  BY <1>1, BackSame
<1>13. DownKeeps(down, down') /\ StreamKeeps(stream, stream') /\ Uploads(up')
  BY <1>1, <1>3, DownSame, StreamSame, UploadsCancelled
<1>14. Keeps /\ SameRight
  BY <1>1, <1>11, <1>12, <1>13 DEF Keeps, SameRight, Perms
<1>15. Stored'
  BY <1>1 DEF Stored
<1>. QED  BY <1>14, <1>15, Kept

LEMMA SetPermissionKeeps ==
    ASSUME Inv, NEW on \in BOOLEAN, SetPermission(on)
    PROVE  Inv'
<1>1. UNCHANGED <<stream, approvals, starting, inodes, parts, mode, next>>
  BY DEF SetPermission, disk
<1>2. PICK told : told = <<[t |-> "perm", on |-> on]>>
  OBVIOUS
<1>3. CASE mode = "download"
  <2>1. SetAllowedUp(on, told) /\ UNCHANGED <<down, mayDown, back>>
    BY <1>2, <1>3 DEF SetPermission
  <2>. QED  BY <1>1, <1>2, <1>3, <2>1, AllowedUp
<1>4. CASE mode # "download"
  <2>1. ~starting /\ SetAllowedDown(on, told) /\ UNCHANGED <<up, mayUp, fwd>>
    BY <1>2, <1>4 DEF SetPermission
  <2>2. FwdKeeps(fwd, fwd') /\ \A x : ChunksKept(fwd, fwd', x)
    BY <2>1, FwdStays DEF Inv
  <2>3. IsSeq(told)
    BY <1>2, SingleOf
  <2>. QED  BY <1>1, <1>2, <2>1, <2>2, <2>3, AllowedDown
<1>. QED  BY <1>3, <1>4

LEMMA ReconnectKeeps ==
    ASSUME Inv, Reconnect
    PROVE  Inv'
<1>1. New'
  BY DEF New, Reconnect
<1>2. Stored'
  BY DEF Reconnect, Inv, Stored, disk
<1>. QED  BY <1>1, <1>2, NewSession, PTL

-----------------------------------------------------------------------------
(* Which message comes first *)

\* A message of the one kind is ahead of one of the other kind.
Ahead(q, kind, id, other, od) ==
    \E k, l \in 1..Len(q) : /\ k < l /\ q[k].t = kind /\ q[k].id = id
                            /\ q[l].t = other /\ q[l].id = od

LEMMA AheadHas ==
    \A q, kind, id, other, od :
        Ahead(q, kind, id, other, od) => Has(q, kind, id) /\ Has(q, other, od)
BY DEF Ahead, Has

LEMMA AheadTail ==
    ASSUME NEW q, IsSeq(q), q # <<>>
    PROVE  \A kind, id, other, od :
              /\ Ahead(Tail(q), kind, id, other, od) => Ahead(q, kind, id, other, od)
              /\ Ahead(q, kind, id, other, od) =>
                    \/ Ahead(Tail(q), kind, id, other, od)
                    \/ Head(q).t = kind /\ Head(q).id = id
<1>. PICK r : r = Tail(q)
  OBVIOUS
<1>1. /\ Head(q) = q[1] /\ 1 \in 1..Len(q) /\ Len(r) = Len(q) - 1 /\ Len(q) \in Nat
      /\ \A k \in 1..Len(r) : k + 1 \in 1..Len(q) /\ r[k] = q[k + 1]
  BY TailOf
<1>. TAKE kind, id, other, od
<1>2. ASSUME Ahead(r, kind, id, other, od) PROVE Ahead(q, kind, id, other, od)
  <2>1. PICK k, l \in 1..Len(r) : /\ k < l /\ r[k].t = kind /\ r[k].id = id
                                  /\ r[l].t = other /\ r[l].id = od
    BY <1>2 DEF Ahead
  <2>2. k + 1 \in 1..Len(q) /\ l + 1 \in 1..Len(q) /\ k + 1 < l + 1 /\ r[k] = q[k + 1] /\ r[l] = q[l + 1]
    BY <1>1, <2>1
  <2>. QED  BY <2>1, <2>2 DEF Ahead
<1>3. ASSUME Ahead(q, kind, id, other, od), ~(Head(q).t = kind /\ Head(q).id = id)
      PROVE  Ahead(r, kind, id, other, od)
  <2>1. PICK k, l \in 1..Len(q) : /\ k < l /\ q[k].t = kind /\ q[k].id = id
                                  /\ q[l].t = other /\ q[l].id = od
    BY <1>3 DEF Ahead
  <2>2. k # 1
    BY <1>1, <1>3, <2>1
  <2>3. PICK x, y \in 1..Len(r) : x = k - 1 /\ y = l - 1
    BY <1>1, <2>1, <2>2
  <2>4. r[x] = q[k] /\ r[y] = q[l] /\ x < y
    BY <1>1, <2>3, <2>1
  <2>. QED  BY <2>1, <2>4 DEF Ahead
<1>. QED  BY <1>2, <1>3

LEMMA AheadInserted ==
    ASSUME NEW q, IsSeq(q), NEW ms, IsSeq(ms), NEW r, Inserted(q, ms, r)
    PROVE  \A kind, id, other, od :
              /\ Ahead(q, kind, id, other, od) => Ahead(r, kind, id, other, od)
              /\ Ahead(r, kind, id, other, od) =>
                    Ahead(q, kind, id, other, od) \/ Has(ms, kind, id) \/ Has(ms, other, od)
<1>. TAKE kind, id, other, od
<1>1. PICK i \in 0..Len(q) :
        /\ Len(r) = Len(q) + Len(ms)
        /\ \A k \in 1..i : r[k] = q[k]
        /\ \A k \in 1..Len(ms) : r[i + k] = ms[k]
        /\ \A k \in (i + 1)..Len(q) : r[k + Len(ms)] = q[k]
  BY DEF Inserted
<1>2. Len(q) \in Nat /\ Len(ms) \in Nat
  BY LenOf
<1>. PICK n \in Nat : n = Len(ms)
  BY <1>2
<1>. PICK c \in Nat : c = Len(q)
  BY <1>2
<1>3. ASSUME NEW k \in 1..c
      PROVE  \E x \in 1..Len(r) : /\ r[x] = q[k] /\ x = IF k <= i THEN k ELSE k + n
  <2>1. CASE k <= i
    BY <1>1, <2>1
  <2>2. CASE ~(k <= i)
    <3>1. k \in (i + 1)..Len(q) /\ k + n \in 1..Len(r)
      BY <1>1, <2>2
    <3>. QED  BY <1>1, <2>2, <3>1
  <2>. QED  BY <2>1, <2>2
<1>4. ASSUME NEW x \in 1..Len(r)
      PROVE  \/ \E j \in 1..Len(ms) : r[x] = ms[j]
             \/ \E k \in 1..Len(q) : r[x] = q[k] /\ x = IF k <= i THEN k ELSE k + n
  <2>1. CASE x <= i
    <3>1. x \in 1..Len(q) /\ r[x] = q[x]
      BY <1>1, <2>1
    <3>. QED  BY <2>1, <3>1
  <2>2. CASE i < x /\ x <= i + n
    <3>1. PICK j \in 1..Len(ms) : x = i + j
      <4>1. x - i \in 1..Len(ms) /\ x = i + (x - i)
        BY <2>2
      <4>. QED  BY <4>1
    <3>. QED  BY <1>1, <3>1
  <2>3. CASE i + n < x
    <3>1. PICK k \in (i + 1)..Len(q) : x = k + n
      <4>1. x - n \in (i + 1)..Len(q) /\ x = (x - n) + n
        BY <1>1, <2>3
      <4>. QED  BY <4>1
    <3>. QED  BY <1>1, <3>1
  <2>. QED  BY <2>1, <2>2, <2>3
<1>5. ASSUME Ahead(q, kind, id, other, od) PROVE Ahead(r, kind, id, other, od)
  <2>1. PICK k, l \in 1..Len(q) : /\ k < l /\ q[k].t = kind /\ q[k].id = id
                                  /\ q[l].t = other /\ q[l].id = od
    BY <1>5 DEF Ahead
  <2>2. PICK x \in 1..Len(r) : r[x] = q[k] /\ x = IF k <= i THEN k ELSE k + n
    BY <1>3
  <2>3. PICK y \in 1..Len(r) : r[y] = q[l] /\ y = IF l <= i THEN l ELSE l + n
    BY <1>3
  <2>4. x < y
    BY <2>1, <2>2, <2>3
  <2>. QED  BY <2>1, <2>2, <2>3, <2>4 DEF Ahead
<1>6. ASSUME Ahead(r, kind, id, other, od), ~Has(ms, kind, id), ~Has(ms, other, od)
      PROVE  Ahead(q, kind, id, other, od)
  <2>1. PICK x, y \in 1..Len(r) : /\ x < y /\ r[x].t = kind /\ r[x].id = id
                                  /\ r[y].t = other /\ r[y].id = od
    BY <1>6 DEF Ahead
  <2>2. PICK k \in 1..Len(q) : r[x] = q[k] /\ x = IF k <= i THEN k ELSE k + n
    BY <1>4, <1>6, <2>1 DEF Has
  <2>3. PICK l \in 1..Len(q) : r[y] = q[l] /\ y = IF l <= i THEN l ELSE l + n
    BY <1>4, <1>6, <2>1 DEF Has
  <2>4. k < l
    BY <2>1, <2>2, <2>3
  <2>. QED  BY <2>1, <2>2, <2>3, <2>4 DEF Ahead
<1>. QED  BY <1>5, <1>6

\* What is put at the end is behind everything.
LEMMA AheadLast ==
    ASSUME NEW q, IsSeq(q), NEW m
    PROVE  \A kind, id, other, od :
              /\ Has(q, kind, id) /\ m.t = other /\ m.id = od => Ahead(Append(q, m), kind, id, other, od)
              /\ Ahead(q, kind, id, other, od) => Ahead(Append(q, m), kind, id, other, od)
              /\ Ahead(Append(q, m), kind, id, other, od) =>
                    Ahead(q, kind, id, other, od) \/ (Has(q, kind, id) /\ m.t = other /\ m.id = od)
<1>. PICK r : r = Append(q, m)
  OBVIOUS
<1>1. /\ IsSeq(r) /\ Len(r) = Len(q) + 1 /\ Len(q) \in Nat /\ r[Len(q) + 1] = m
      /\ \A k \in 1..Len(q) : r[k] = q[k]
  BY AppendOf
<1>. PICK c \in Nat : c = Len(q)
  BY <1>1
<1>. TAKE kind, id, other, od
<1>2. ASSUME Has(q, kind, id), m.t = other, m.id = od PROVE Ahead(r, kind, id, other, od)
  <2>1. PICK k \in 1..Len(q) : q[k].t = kind /\ q[k].id = id
    BY <1>2 DEF Has
  <2>2. k \in 1..Len(r) /\ c + 1 \in 1..Len(r) /\ k < c + 1
    BY <1>1
  <2>. QED  BY <1>1, <1>2, <2>1, <2>2 DEF Ahead
<1>3. ASSUME Ahead(r, kind, id, other, od)
      PROVE  Ahead(q, kind, id, other, od) \/ (Has(q, kind, id) /\ m.t = other /\ m.id = od)
  <2>1. PICK x, y \in 1..Len(r) : /\ x < y /\ r[x].t = kind /\ r[x].id = id
                                  /\ r[y].t = other /\ r[y].id = od
    BY <1>3 DEF Ahead
  <2>2. x \in 1..Len(q) /\ r[x] = q[x]
    BY <1>1, <2>1
  <2>3. CASE y = c + 1
    BY <1>1, <2>1, <2>2, <2>3 DEF Has
  <2>4. CASE y # c + 1
    <3>1. y \in 1..Len(q) /\ r[y] = q[y]
      BY <1>1, <2>4
    <3>. QED  BY <2>1, <2>2, <3>1 DEF Ahead
  <2>. QED  BY <2>3, <2>4
<1>4. ASSUME Ahead(q, kind, id, other, od) PROVE Ahead(r, kind, id, other, od)
  <2>1. PICK k, l \in 1..Len(q) : /\ k < l /\ q[k].t = kind /\ q[k].id = id
                                  /\ q[l].t = other /\ q[l].id = od
    BY <1>4 DEF Ahead
  <2>2. k \in 1..Len(r) /\ l \in 1..Len(r) /\ r[k] = q[k] /\ r[l] = q[l]
    BY <1>1
  <2>. QED  BY <2>1, <2>2 DEF Ahead
<1>. QED  BY <1>2, <1>3, <1>4

\* A control message overtakes bulk messages only.
LEMMA OvertakesBulk ==
    ASSUME NEW q, IsSeq(q), NEW m, NEW r \in Overtaking(q, <<m>>), NEW kind, NEW id,
           Has(q, kind, id), kind \notin {"chunk", "done"}
    PROVE  Ahead(r, kind, id, m.t, m.id)
<1>. PICK ms : ms = <<m>>
  OBVIOUS
<1>1. IsSeq(ms) /\ Len(ms) = 1 /\ ms[1] = m
  BY SingleOf
<1>2. PICK i \in 0..Len(q) : /\ \A k \in (i + 1)..Len(q) : IsBulk(q[k])
                             /\ r = SubSeq(q, 1, i) \o ms \o SubSeq(q, i + 1, Len(q))
  BY DEF Overtaking
<1>3. Len(q) \in Nat
  BY LenOf
<1>4. PICK x : x = SubSeq(q, 1, i)
  OBVIOUS
<1>5. PICK z : z = SubSeq(q, i + 1, Len(q))
  OBVIOUS
<1>6. IsSeq(x) /\ Len(x) = i /\ \A k \in 1..i : x[k] = q[k]
  <2>1. /\ IsSeq(x) /\ Len(x) = (IF 1 <= i THEN i - 1 + 1 ELSE 0)
        /\ \A k \in 1..(i - 1 + 1) : x[k] = q[1 + k - 1]
    BY <1>3, <1>4, PartOf
  <2>. QED  BY <2>1
<1>7. IsSeq(z)
  BY <1>3, <1>5, PartOf
<1>8. Has(x, kind, id)
  <2>1. PICK k \in 1..Len(q) : q[k].t = kind /\ q[k].id = id
    BY DEF Has
  <2>2. k \in 1..i
    BY <1>2, <1>3, <2>1 DEF IsBulk
  <2>. QED  BY <1>6, <2>1, <2>2 DEF Has
<1>9. PICK y : y = x \o ms
  OBVIOUS
<1>10. IsSeq(y) /\ Ahead(y, kind, id, m.t, m.id)
  <2>1. IsSeq(y) /\ Concat(x, ms, y)
    BY <1>1, <1>6, <1>9, ConcatInserts
  <2>2. PICK k \in 1..Len(x) : x[k].t = kind /\ x[k].id = id
    BY <1>8 DEF Has
  <2>3. Len(x) \in Nat /\ 1 \in 1..Len(ms)
    BY <1>1, <1>6
  <2>4. /\ k \in 1..Len(y) /\ Len(x) + 1 \in 1..Len(y) /\ k < Len(x) + 1
        /\ y[k] = x[k] /\ y[Len(x) + 1] = m
    BY <1>1, <2>1, <2>3 DEF Concat
  <2>. QED  BY <2>1, <2>2, <2>4 DEF Ahead
<1>11. r = y \o z
  BY <1>2, <1>4, <1>5, <1>9
<1>12. Inserted(y, z, r)
  BY <1>7, <1>10, <1>11, ConcatInserts
<1>. QED  BY <1>7, <1>10, <1>12, AheadInserted

\* The ids of the cancels of S are S.
LEMMA CancelsHas ==
    ASSUME NEW S, IsFiniteSet(S)
    PROVE  \A kind, id : Has(Cancels(S), kind, id) <=> kind = "cancel" /\ id \in S
<1>. PICK n : n = Cardinality(S)
  OBVIOUS
<1>1. n \in Nat /\ ExistsBijection(1..n, S)
  BY FS_CardinalityType
<1>2. PICK f : f = SetToSeq(S)
  OBVIOUS
<1>3. f \in Injection(1..n, S)
  <2>1. PICK g : g \in Bijection(1..n, S)
    BY <1>1 DEF ExistsBijection
  <2>2. g \in [1..n -> S] /\ IsInjective(g)
    BY <2>1 DEF Bijection, Injection
  <2>3. f \in [1..n -> S] /\ IsInjective(f)
    BY <1>2, <2>2 DEF SetToSeq
  <2>. QED  BY <2>3 DEF Injection
<1>4. f \in Surjection(1..n, S) /\ f \in [1..n -> S]
  <2>1. IsFiniteSet(1..n) /\ Cardinality(1..n) = n
    BY <1>1, FS_Interval
  <2>2. f \in Surjection(1..n, S)
    BY <1>3, <2>1, FS_Injection
  <2>. QED  BY <1>3, <2>2 DEF Injection
<1>5. \A x \in S : \E k \in 1..n : f[k] = x
  BY <1>4 DEF Surjection
<1>6. PICK c : c = Cancels(S)
  OBVIOUS
<1>7. c = [i \in 1..n |-> [t |-> "cancel", id |-> f[i]]]
  BY <1>2, <1>6 DEF Cancels
<1>8. Len(c) = n
  <2>1. PICK T : T = {c[i] : i \in 1..n}
    OBVIOUS
  <2>2. c \in [1..n -> T]
    BY <1>7, <2>1
  <2>. QED  BY <1>1, <2>2, SeqDef
<1>9. \A k \in 1..n : c[k].t = "cancel" /\ c[k].id = f[k] /\ f[k] \in S
  BY <1>4, <1>7
<1>10. \A id \in S : Has(c, "cancel", id)
  BY <1>5, <1>8, <1>9 DEF Has
<1>11. \A kind, id : Has(c, kind, id) => kind = "cancel" /\ id \in S
  BY <1>8, <1>9 DEF Has
<1>. QED  BY <1>6, <1>10, <1>11

-----------------------------------------------------------------------------
(* What has ended, at either end *)

Lively(i) == i \in With(Running, up)
Open(i) == i \in DOMAIN down /\ down[i].file # None
Still(i) == Idle(i) /\ ~Has(fwd, "done", i)
\* No more is to come of a transfer than what is on its way, and that is not its end.
Spent(i) == ~Lively(i) /\ stream[i].pc = "none" /\ ~Has(fwd, "done", i)

\* The receiver never takes chunks of it again.
Shut(i) == /\ i \in DOMAIN down /\ ~TakesOf(down, i)
           /\ down[i].cancelled \/ ~down[i].queued

\* A transfer that was cancelled here before it was accepted.
Halted(i) == /\ i \in DOMAIN down /\ down[i].cancelled
             /\ down[i].queued \/ down[i].file # None
\* Before the sender gets to an acceptance of the transfer it gives the transfer up.
Bars(md, m, i) == (m.t = "perm" /\ ~m.on) \/ (md = "download" /\ m.t = "cancel" /\ m.id = i)
Barrier(md, q, i) ==
    \E k \in 1..Len(q) : /\ Bars(md, q[k], i)
                         /\ \A j \in 1..(k - 1) : ~(q[j].t = "accept" /\ q[j].id = i)
Barred(i) == ~Lively(i) \/ Barrier(mode, back, i)

Sending1(i) ==
    /\ Fresh(i) \/ Has(back, "accept", i) \/ stream[i].pc # "none" => ~Has(fwd, "done", i)
    /\ Has(fwd, "cancel", i) => ~Lively(i) /\ i < next
    /\ i \in DOMAIN up => i < next
Refused(i) == Has(back, "reject", i) => Still(i) /\ ~Ahead(back, "accept", i, "reject", i)
Closed(i) == Has(back, "cancel", i) \/ Has(back, "verified", i) => Shut(i)
Taken1(i) ==
    /\ Halted(i) => Still(i) /\ Barred(i)
    /\ Open(i) => ~down[i].queued
    /\ ~mayDown /\ TakesOf(down, i) => ~Has(fwd, "done", i)
    /\ TakesOf(down, i) /\ ~Lively(i) => Spent(i) \/ Has(fwd, "cancel", i)
Order(i) == Sending1(i) /\ Refused(i) /\ Closed(i) /\ Taken1(i)
NothingOff == mode = "download" /\ ~mayUp => \A i \in Ids : ~Lively(i)
Orders == NothingOff /\ \A i \in Ids : Order(i)

\* A step that starts no stream, sends nothing in bulk and offers nothing.
Calm(i) ==
    /\ Fresh(i)' => Fresh(i)
    /\ \A kind \in {"chunk", "done"} : Has(fwd', kind, i) => Has(fwd, kind, i)
    /\ Has(fwd', "cancel", i) => Has(fwd, "cancel", i) \/ (~Lively(i)' /\ i < next')
    /\ next' \in Nat /\ next <= next'
    /\ Lively(i)' => Lively(i)
    /\ i \in DOMAIN up' => i \in DOMAIN up
    /\ stream'[i].pc # "none" => stream[i].pc # "none"
    /\ Has(back', "accept", i) => Has(back, "accept", i) \/ Fresh(i)
    /\ Has(back', "reject", i) => Has(back, "reject", i) \/ Fresh(i)
    /\ Ahead(back', "accept", i, "reject", i) => Ahead(back, "accept", i, "reject", i)
    /\ Has(back', "cancel", i) \/ Has(back', "verified", i) =>
          Has(back, "cancel", i) \/ Has(back, "verified", i) \/ Shut(i)'
    /\ Shut(i) => Shut(i)'
    /\ Halted(i)' => (Halted(i) \/ Fresh(i)) /\ ((Halted(i) => Barred(i)) => Barred(i)')
    /\ Open(i)' => ~down'[i].queued
    /\ TakesOf(down', i) => TakesOf(down, i) \/ Fresh(i)
    /\ ~mayDown' /\ TakesOf(down', i) => ~mayDown \/ Fresh(i)
    /\ TakesOf(down', i) /\ ~Lively(i)' =>
          \/ Fresh(i)
          \/ ~Lively(i) /\ (Has(fwd, "cancel", i) => Has(fwd', "cancel", i) \/ Spent(i)')
          \/ Spent(i)' \/ Has(fwd', "cancel", i)

LEMMA CalmOrder ==
    ASSUME Shape, NEW i \in Ids, Stage(i), Order(i), Calm(i)
    PROVE  Order(i)'
<1>. next \in Nat /\ i \in Nat
  BY BoundsAssumption DEF Shape, Ids
<1>a. \A kind \in {"chunk", "done"} : Has(fwd', kind, i) => Has(fwd, kind, i)
  BY DEF Calm
<1>b. Fresh(i) => Still(i) /\ ~Has(back, "accept", i)
  BY DEF Stage, Still, Order, Sending1
<1>c. Still(i) => Still(i)'
  BY <1>a DEF Calm, Still, Idle
<1>d. ~Has(fwd, "done", i) => ~Has(fwd', "done", i)
  BY <1>a
<1>e. Spent(i) => Spent(i)'
  BY <1>d DEF Calm, Spent
<1>f. Ahead(back, "accept", i, "reject", i) => Has(back, "accept", i) /\ Has(back, "reject", i)
  BY AheadHas
<1>1. Sending1(i)'
  <2>1. Fresh(i)' \/ Has(back', "accept", i) \/ stream'[i].pc # "none" =>
            Fresh(i) \/ Has(back, "accept", i) \/ stream[i].pc # "none"
    BY DEF Calm
  <2>2. Has(fwd', "cancel", i) => ~Lively(i)' /\ i < next'
    <3>. SUFFICES ASSUME Has(fwd, "cancel", i) PROVE ~Lively(i)' /\ i < next'
      BY DEF Calm
    <3>1. ~Lively(i) /\ i < next
      BY DEF Order, Sending1
    <3>2. ~Lively(i)' 
      BY <3>1 DEF Calm
    <3>3. i < next'
      BY <3>1 DEF Calm
    <3>. QED  BY <3>2, <3>3
  <2>3. i \in DOMAIN up' => i < next'
    <3>. SUFFICES ASSUME i \in DOMAIN up PROVE i < next'
      BY DEF Calm
    <3>1. i < next /\ next' \in Nat /\ next <= next'
      BY DEF Calm, Order, Sending1
    <3>. QED  BY <3>1
  <2>. QED  BY <1>d, <2>1, <2>2, <2>3 DEF Order, Sending1
<1>2. Refused(i)'
  <2>1. ~Ahead(back, "accept", i, "reject", i)
    BY <1>f DEF Order, Refused
  <2>2. Has(back', "reject", i) => Still(i)
    BY <1>b DEF Calm, Order, Refused
  <2>3. ~Ahead(back', "accept", i, "reject", i)
    BY <2>1 DEF Calm
  <2>. QED  BY <1>c, <2>2, <2>3 DEF Refused
<1>3. Closed(i)'
  BY DEF Calm, Order, Closed
<1>4. Taken1(i)'
  <2>1. Halted(i)' => Still(i)' /\ Barred(i)'
    BY <1>b, <1>c DEF Calm, Order, Taken1
  <2>2. Open(i)' => ~down'[i].queued
    BY DEF Calm
  <2>3. ~mayDown' /\ TakesOf(down', i) => ~Has(fwd', "done", i)
    <3>1. Fresh(i) => ~Has(fwd, "done", i)
      BY <1>b DEF Still
    <3>. QED  BY <1>d, <3>1 DEF Calm, Order, Taken1
  <2>4. TakesOf(down', i) /\ ~Lively(i)' => Spent(i)' \/ Has(fwd', "cancel", i)
    <3>. SUFFICES ASSUME TakesOf(down', i), ~Lively(i)', ~Spent(i)', ~Has(fwd', "cancel", i) PROVE FALSE
      OBVIOUS
    <3>1. CASE Fresh(i)
      <4>1. Still(i)'
        BY <1>b, <1>c, <3>1
      <4>2. stream'[i].pc = "none" /\ ~Has(fwd', "done", i)
        BY <4>1 DEF Still, Idle
      <4>. QED  BY <4>2 DEF Spent
    <3>2. CASE ~Fresh(i)
      <4>1. TakesOf(down, i)
        BY <3>2 DEF Calm
      <4>2. ~Lively(i) /\ ~Has(fwd, "cancel", i)
        BY <3>2 DEF Calm
      <4>. QED  BY <1>e, <4>1, <4>2 DEF Order, Taken1
    <3>. QED  BY <3>1, <3>2
  <2>. QED  BY <2>1, <2>2, <2>3, <2>4 DEF Taken1
<1>. QED  BY <1>1, <1>2, <1>3, <1>4 DEF Order

LEMMA AheadConcat ==
    ASSUME NEW q, IsSeq(q), NEW ms, IsSeq(ms)
    PROVE  \A kind, id, other, od : Ahead(q \o ms, kind, id, other, od) =>
              \/ Ahead(q, kind, id, other, od)
              \/ Has(q, kind, id) /\ Has(ms, other, od)
              \/ Has(ms, kind, id) /\ Has(ms, other, od)
<1>. PICK r : r = q \o ms
  OBVIOUS
<1>1. /\ Len(r) = Len(q) + Len(ms) /\ Len(q) \in Nat /\ Len(ms) \in Nat
      /\ \A k \in 1..Len(q) : r[k] = q[k]
      /\ \A k \in 1..Len(ms) : r[Len(q) + k] = ms[k]
  <2>1. Concat(q, ms, r)
    BY ConcatOf
  <2>2. Len(q) \in Nat /\ Len(ms) \in Nat
    BY LenOf
  <2>. QED  BY <2>1, <2>2 DEF Concat
<1>. PICK c \in Nat : c = Len(q)
  BY <1>1
<1>2. ASSUME NEW x \in 1..Len(r), ~(x <= c) PROVE \E k \in 1..Len(ms) : r[x] = ms[k]
  <2>1. x - c \in 1..Len(ms) /\ Len(q) + (x - c) = x
    BY <1>1, <1>2
  <2>2. r[Len(q) + (x - c)] = ms[x - c]
    BY <1>1, <2>1
  <2>. QED  BY <2>1, <2>2
<1>3. ASSUME NEW x \in 1..Len(r), x <= c PROVE x \in 1..Len(q) /\ r[x] = q[x]
  BY <1>1, <1>3
<1>. TAKE kind, id, other, od
<1>. SUFFICES ASSUME Ahead(r, kind, id, other, od)
              PROVE  \/ Ahead(q, kind, id, other, od)
                     \/ Has(q, kind, id) /\ Has(ms, other, od)
                     \/ Has(ms, kind, id) /\ Has(ms, other, od)
  OBVIOUS
<1>4. PICK x, y \in 1..Len(r) : /\ x < y /\ r[x].t = kind /\ r[x].id = id
                                /\ r[y].t = other /\ r[y].id = od
  BY DEF Ahead
<1>5. CASE y <= c
  <2>1. x <= c
    BY <1>4, <1>5
  <2>2. x \in 1..Len(q) /\ r[x] = q[x] /\ y \in 1..Len(q) /\ r[y] = q[y]
    BY <1>3, <1>5, <2>1
  <2>. QED  BY <1>4, <2>2 DEF Ahead
<1>6. CASE ~(y <= c)
  <2>1. Has(ms, other, od)
    BY <1>2, <1>4, <1>6 DEF Has
  <2>2. CASE x <= c
    <3>1. Has(q, kind, id)
      BY <1>3, <1>4, <2>2 DEF Has
    <3>. QED  BY <2>1, <3>1
  <2>3. CASE ~(x <= c)
    <3>1. Has(ms, kind, id)
      BY <1>2, <1>4, <2>3 DEF Has
    <3>. QED  BY <2>1, <3>1
  <2>. QED  BY <2>2, <2>3
<1>. QED  BY <1>5, <1>6

LEMMA BarrierTail ==
    ASSUME NEW q, IsSeq(q), q # <<>>
    PROVE  \A md, i : Barrier(md, q, i) => Bars(md, Head(q), i) \/ Barrier(md, Tail(q), i)
<1>. TAKE md, i
<1>. SUFFICES ASSUME Barrier(md, q, i), ~Bars(md, Head(q), i) PROVE Barrier(md, Tail(q), i)
  OBVIOUS
<1>. PICK r : r = Tail(q)
  OBVIOUS
<1>1. /\ Head(q) = q[1] /\ 1 \in 1..Len(q) /\ Len(r) = Len(q) - 1 /\ Len(q) \in Nat
      /\ \A k \in 1..Len(r) : k + 1 \in 1..Len(q) /\ r[k] = q[k + 1]
  BY TailOf
<1>2. PICK k \in 1..Len(q) : /\ Bars(md, q[k], i)
                             /\ \A j \in 1..(k - 1) : ~(q[j].t = "accept" /\ q[j].id = i)
  BY DEF Barrier
<1>3. k # 1
  BY <1>1, <1>2
<1>4. PICK x \in 1..Len(r) : x = k - 1
  BY <1>1, <1>3
<1>5. r[x] = q[k]
  BY <1>1, <1>4
<1>6. ASSUME NEW j \in 1..(x - 1) PROVE ~(r[j].t = "accept" /\ r[j].id = i)
  <2>1. j \in 1..Len(r) /\ j + 1 \in 1..(k - 1)
    BY <1>1, <1>4
  <2>. QED  BY <1>1, <1>2, <2>1
<1>. QED  BY <1>2, <1>5, <1>6 DEF Barrier

LEMMA BarrierConcat ==
    ASSUME NEW q, IsSeq(q), NEW ms, IsSeq(ms)
    PROVE  \A md, i :
              /\ Barrier(md, q, i) => Barrier(md, q \o ms, i)
              /\ ~Has(q, "accept", i) /\ Barrier(md, ms, i) => Barrier(md, q \o ms, i)
<1>. PICK r : r = q \o ms
  OBVIOUS
<1>1. /\ Len(r) = Len(q) + Len(ms) /\ Len(q) \in Nat /\ Len(ms) \in Nat
      /\ \A k \in 1..Len(q) : r[k] = q[k]
      /\ \A k \in 1..Len(ms) : r[Len(q) + k] = ms[k]
  <2>1. Concat(q, ms, r)
    BY ConcatOf
  <2>2. Len(q) \in Nat /\ Len(ms) \in Nat
    BY LenOf
  <2>. QED  BY <2>1, <2>2 DEF Concat
<1>. PICK c \in Nat : c = Len(q)
  BY <1>1
<1>. TAKE md, i
<1>2. ASSUME Barrier(md, q, i) PROVE Barrier(md, r, i)
  <2>1. PICK k \in 1..Len(q) : /\ Bars(md, q[k], i)
                               /\ \A j \in 1..(k - 1) : ~(q[j].t = "accept" /\ q[j].id = i)
    BY <1>2 DEF Barrier
  <2>2. k \in 1..Len(r) /\ r[k] = q[k] /\ \A j \in 1..(k - 1) : r[j] = q[j]
    BY <1>1
  <2>. QED  BY <2>1, <2>2 DEF Barrier
<1>3. ASSUME ~Has(q, "accept", i), Barrier(md, ms, i) PROVE Barrier(md, r, i)
  <2>1. PICK k \in 1..Len(ms) : /\ Bars(md, ms[k], i)
                                /\ \A j \in 1..(k - 1) : ~(ms[j].t = "accept" /\ ms[j].id = i)
    BY <1>3 DEF Barrier
  <2>2. c + k \in 1..Len(r) /\ r[c + k] = ms[k]
    <3>1. c + k \in 1..Len(r)
      BY <1>1
    <3>2. r[Len(q) + k] = ms[k]
      BY <1>1
    <3>. QED  BY <3>1, <3>2
  <2>3. ASSUME NEW j \in 1..(c + k - 1) PROVE ~(r[j].t = "accept" /\ r[j].id = i)
    <3>1. CASE j <= c
      <4>1. j \in 1..Len(q) /\ r[j] = q[j]
        BY <1>1, <3>1
      <4>. QED  BY <1>3, <4>1 DEF Has
    <3>2. CASE ~(j <= c)
      <4>1. PICK x \in 1..(k - 1) : x = j - c
        <5>1. j - c \in 1..(k - 1)
          <6>1. k \in Nat /\ j \in Nat /\ j >= 1 /\ j <= c + k - 1 /\ j > c
            BY <1>1, <3>2
          <6>. QED  BY <6>1
        <5>. QED  BY <5>1
      <4>2. x \in 1..Len(ms) /\ Len(q) + x = j
        BY <1>1, <4>1
      <4>3. r[j] = ms[x]
        BY <1>1, <4>2
      <4>. QED  BY <2>1, <4>1, <4>3
    <3>. QED  BY <3>1, <3>2
  <2>4. PICK x : x = c + k
    OBVIOUS
  <2>5. x \in 1..Len(r) /\ Bars(md, r[x], i)
    BY <2>1, <2>2, <2>4
  <2>6. \A j \in 1..(x - 1) : ~(r[j].t = "accept" /\ r[j].id = i)
    BY <2>3, <2>4
  <2>. QED  BY <2>5, <2>6 DEF Barrier
<1>. QED  BY <1>2, <1>3

-----------------------------------------------------------------------------
(* Calm steps of the sender, and of the receiver *)

\* What a step keeps of a transfer besides: the order of what is on its way to the
\* receiver, and the source.
Held(i) ==
    /\ i \in DOMAIN up' => i \in DOMAIN up /\ up'[i].src = up[i].src
    /\ i \in DOMAIN down => i \in DOMAIN down' /\ down'[i].src = down[i].src
    /\ \A j : Ahead(fwd', "done", j, "chunk", i) => Ahead(fwd, "done", j, "chunk", i)
    /\ TakesOf(down', i) /\ ~Fresh(i) =>
          \A j : Ahead(fwd, "cancel", i, "offer", j) => Ahead(fwd', "cancel", i, "offer", j) \/ Spent(i)

\* The sender tells the receiver ms.
SenderStep(ms) ==
    /\ UNCHANGED <<down, approvals, mode, mayDown>> /\ next' \in {next, next + 1}
    /\ back' = back \/ (back # <<>> /\ back' = Tail(back))
    /\ IsSeq(ms) /\ Inserted(fwd, ms, fwd')
SenderCalm(ms, i) ==
    /\ \A kind \in {"offer", "chunk", "done"} : ~Has(ms, kind, i)
    /\ Has(ms, "cancel", i) => ~Lively(i)' /\ i < next
    /\ Lively(i)' => Lively(i)
    /\ i \in DOMAIN up' => i \in DOMAIN up /\ up'[i].src = up[i].src
    /\ stream'[i].pc # "none" => stream[i].pc # "none"
    /\ back' # back => (Bars(mode, Head(back), i) => ~Lively(i)')
    /\ TakesOf(down, i) /\ ~Lively(i)' => ~Lively(i) \/ Spent(i)' \/ Has(ms, "cancel", i)

LEMMA InsertedNothing == \A q : IsSeq(q) => IsSeq(<<>>) /\ Inserted(q, <<>>, q)
<1>. TAKE q
<1>. SUFFICES ASSUME IsSeq(q) PROVE IsSeq(<<>>) /\ Inserted(q, <<>>, q)
  OBVIOUS
<1>. PICK ms : ms = <<>>
  OBVIOUS
<1>1. IsSeq(ms) /\ Len(ms) = 0 /\ Len(q) \in Nat
  BY EmptyOf, LenOf
<1>2. Len(q) \in 0..Len(q)
  BY <1>1
<1>3. /\ Len(q) = Len(q) + Len(ms)
      /\ \A k \in 1..Len(ms) : q[Len(q) + k] = ms[k]
      /\ \A k \in (Len(q) + 1)..Len(q) : q[k + Len(ms)] = q[k]
  BY <1>1
<1>4. Inserted(q, ms, q)
  BY <1>2, <1>3 DEF Inserted
<1>. QED  BY <1>1, <1>4

LEMMA SenderCalms ==
    ASSUME Shape, NEW ms, SenderStep(ms), NEW i \in Ids, Order(i), SenderCalm(ms, i)
    PROVE  Calm(i)
<1>. i \in Nat /\ next \in Nat /\ next' \in Nat /\ next <= next' /\ (i < next => i < next')
  BY BoundsAssumption DEF Shape, Ids, SenderStep
<1>0. /\ UNCHANGED <<down, approvals, mode, mayDown>> /\ next' \in {next, next + 1}
      /\ back' = back \/ (back # <<>> /\ back' = Tail(back))
      /\ IsSeq(ms) /\ Inserted(fwd, ms, fwd')
  BY DEF SenderStep
<1>1. IsSeq(back) /\ IsSeq(fwd)
  BY DEF Shape, Sent
<1>a. \A kind : Has(fwd', kind, i) <=> Has(fwd, kind, i) \/ Has(ms, kind, i)
  BY <1>0, <1>1, InsertedHas
<1>b. \A kind \in {"offer", "chunk", "done"} : Has(fwd', kind, i) => Has(fwd, kind, i)
  BY <1>a DEF SenderCalm
<1>2. Fresh(i)' => Fresh(i)
  <2>1. i >= next' => i >= next
    OBVIOUS
  <2>2. Has(fwd', "offer", i) => Has(fwd, "offer", i)
    BY <1>b
  <2>. QED  BY <1>0, <2>1, <2>2 DEF Fresh
<1>3. /\ \A kind : Has(back', kind, i) => Has(back, kind, i)
      /\ Ahead(back', "accept", i, "reject", i) => Ahead(back, "accept", i, "reject", i)
  <2>1. CASE back' = back
    BY <2>1
  <2>2. CASE back # <<>> /\ back' = Tail(back)
    BY <1>1, <2>2, TailKeeps, AheadTail
  <2>. QED  BY <1>0, <2>1, <2>2
<1>4. Barred(i) => Barred(i)'
  <2>. SUFFICES ASSUME Barred(i), Lively(i)' PROVE Barrier(mode', back', i)
    BY DEF Barred
  <2>1. Lively(i)
    BY DEF SenderCalm
  <2>2. Barrier(mode, back, i) /\ mode' = mode
    BY <1>0, <2>1 DEF Barred
  <2>3. CASE back' = back
    BY <2>2, <2>3
  <2>4. CASE back' # back
    <3>1. ~Bars(mode, Head(back), i)
      BY <2>4 DEF SenderCalm
    <3>. QED  BY <1>0, <1>1, <2>2, <2>4, <3>1, BarrierTail
  <2>. QED  BY <2>3, <2>4
<1>5. /\ Shut(i) => Shut(i)'
      /\ Halted(i)' => Halted(i)
      /\ TakesOf(down', i) => TakesOf(down, i)
  BY <1>0 DEF Shut, Halted, TakesOf
<1>6. Open(i)' => ~down'[i].queued
  BY <1>0 DEF Open, Order, Taken1
<1>7. TakesOf(down', i) /\ ~Lively(i)' =>
          \/ ~Lively(i) /\ (Has(fwd, "cancel", i) => Has(fwd', "cancel", i) \/ Spent(i)')
          \/ Spent(i)' \/ Has(fwd', "cancel", i)
  BY <1>5, <1>a DEF SenderCalm
<1>8. Has(fwd', "cancel", i) => Has(fwd, "cancel", i) \/ (~Lively(i)' /\ i < next')
  BY <1>a DEF SenderCalm
<1>9. Lively(i)' => Lively(i)
  BY DEF SenderCalm
<1>10. Calm(i)
  BY <1>0, <1>b, <1>2, <1>3, <1>4, <1>5, <1>6, <1>7, <1>8, <1>9 DEF Calm, SenderCalm
<1>. QED  BY <1>10

LEMMA SenderHolds ==
    ASSUME Shape, NEW ms, SenderStep(ms), NEW i \in Ids, SenderCalm(ms, i),
           \A j : ~Has(ms, "done", j)
    PROVE  Held(i)
<1>0. UNCHANGED <<down>> /\ IsSeq(ms) /\ Inserted(fwd, ms, fwd') /\ IsSeq(fwd)
  BY DEF SenderStep, Shape, Sent
<1>1. \A j : Ahead(fwd', "done", j, "chunk", i) => Ahead(fwd, "done", j, "chunk", i)
  <2>1. ~Has(ms, "chunk", i)
    BY DEF SenderCalm
  <2>. QED  BY <1>0, <2>1, AheadInserted
<1>2. \A j : Ahead(fwd, "cancel", i, "offer", j) => Ahead(fwd', "cancel", i, "offer", j)
  BY <1>0, AheadInserted
<1>. QED  BY <1>0, <1>1, <1>2 DEF Held, SenderCalm

ReceiverStep(ms) ==
    /\ UNCHANGED <<up, stream, mode, next>>
    /\ fwd' = fwd \/ (fwd # <<>> /\ fwd' = Tail(fwd))
    /\ IsSeq(ms) /\ back' = back \o ms
ReceiverCalm(ms, i) ==
    /\ Has(ms, "accept", i) => Fresh(i) /\ ~Has(ms, "reject", i)
    /\ Has(ms, "reject", i) => Fresh(i)
    /\ Has(ms, "cancel", i) \/ Has(ms, "verified", i) => Shut(i)'
    /\ Fresh(i)' => Fresh(i)
    /\ Shut(i) => Shut(i)'
    /\ i \in DOMAIN down => i \in DOMAIN down' /\ down'[i].src = down[i].src
    /\ Halted(i)' => Halted(i) \/ (Fresh(i) /\ (~Lively(i) \/ Barrier(mode, ms, i)))
    /\ Open(i)' => ~down'[i].queued
    /\ TakesOf(down', i) /\ ~Fresh(i) =>
          /\ TakesOf(down, i)
          /\ ~mayDown' => ~mayDown
          /\ fwd' # fwd /\ Head(fwd).t = "cancel" /\ Head(fwd).id = i => Spent(i)

LEMMA HasTail ==
    ASSUME NEW q, IsSeq(q), q # <<>>
    PROVE  \A kind, i : Has(q, kind, i) => Has(Tail(q), kind, i) \/ (Head(q).t = kind /\ Head(q).id = i)
<1>. PICK r : r = Tail(q)
  OBVIOUS
<1>1. /\ Head(q) = q[1] /\ 1 \in 1..Len(q) /\ Len(r) = Len(q) - 1 /\ Len(q) \in Nat
      /\ \A k \in 1..Len(r) : k + 1 \in 1..Len(q) /\ r[k] = q[k + 1]
  BY TailOf
<1>. TAKE kind, i
<1>. SUFFICES ASSUME Has(q, kind, i), ~(Head(q).t = kind /\ Head(q).id = i) PROVE Has(r, kind, i)
  OBVIOUS
<1>2. PICK k \in 1..Len(q) : q[k].t = kind /\ q[k].id = i
  BY DEF Has
<1>3. k # 1
  BY <1>1, <1>2
<1>4. PICK x \in 1..Len(r) : x = k - 1
  BY <1>1, <1>3
<1>5. r[x] = q[k]
  BY <1>1, <1>4
<1>. QED  BY <1>2, <1>4, <1>5 DEF Has

LEMMA ReceiverCalms ==
    ASSUME Shape, NEW ms, ReceiverStep(ms), NEW i \in Ids, Stage(i), Order(i), ReceiverCalm(ms, i)
    PROVE  Calm(i)
<1>. i \in Nat /\ next \in Nat /\ next' = next
  BY BoundsAssumption DEF Shape, Ids, ReceiverStep
<1>0. /\ UNCHANGED <<up, stream, mode, next>>
      /\ fwd' = fwd \/ (fwd # <<>> /\ fwd' = Tail(fwd))
      /\ IsSeq(ms) /\ back' = back \o ms
  BY DEF ReceiverStep
<1>1. IsSeq(back) /\ IsSeq(fwd)
  BY DEF Shape, Sent
<1>2. \A kind : Has(fwd', kind, i) => Has(fwd, kind, i)
  BY <1>0, <1>1, TailKeeps
<1>3. Has(fwd, "cancel", i) =>
         Has(fwd', "cancel", i) \/ (fwd' # fwd /\ Head(fwd).t = "cancel" /\ Head(fwd).id = i)
  BY <1>0, <1>1, HasTail
<1>4. \A kind : Has(back', kind, i) => Has(back, kind, i) \/ Has(ms, kind, i)
  BY <1>0, <1>1, ConcatInserts, InsertedHas
<1>5. Fresh(i) => ~Has(back, "accept", i)
  BY DEF Stage
<1>6. Ahead(back', "accept", i, "reject", i) => Ahead(back, "accept", i, "reject", i)
  <2>1. ~(Has(back, "accept", i) /\ Has(ms, "reject", i))
    BY <1>5 DEF ReceiverCalm
  <2>2. ~(Has(ms, "accept", i) /\ Has(ms, "reject", i))
    BY DEF ReceiverCalm
  <2>. QED  BY <1>0, <1>1, <2>1, <2>2, AheadConcat
<1>7. Lively(i)' <=> Lively(i)
  BY <1>0 DEF Lively, With
<1>8. Barrier(mode, back, i) => Barrier(mode', back', i)
  BY <1>0, <1>1, BarrierConcat
<1>9. Fresh(i) /\ Barrier(mode, ms, i) => Barrier(mode', back', i)
  BY <1>0, <1>1, <1>5, BarrierConcat
<1>10. Halted(i)' => (Halted(i) \/ Fresh(i)) /\ ((Halted(i) => Barred(i)) => Barred(i)')
  <2>. SUFFICES ASSUME Halted(i)', Halted(i) => Barred(i) PROVE (Halted(i) \/ Fresh(i)) /\ Barred(i)'
    BY DEF ReceiverCalm
  <2>1. CASE Halted(i)
    BY <1>7, <1>8, <2>1 DEF Barred
  <2>2. CASE ~Halted(i)
    <3>1. Fresh(i) /\ (~Lively(i) \/ Barrier(mode, ms, i))
      BY <2>2 DEF ReceiverCalm
    <3>. QED  BY <1>7, <1>9, <3>1 DEF Barred
  <2>. QED  BY <2>1, <2>2
<1>11. TakesOf(down', i) /\ ~Lively(i)' =>
          \/ Fresh(i)
          \/ ~Lively(i) /\ (Has(fwd, "cancel", i) => Has(fwd', "cancel", i) \/ Spent(i)')
  <2>. SUFFICES ASSUME TakesOf(down', i), ~Lively(i), ~Fresh(i), Has(fwd, "cancel", i), ~Has(fwd', "cancel", i)
                PROVE  Spent(i)'
    BY <1>7
  <2>1. Spent(i)
    BY <1>3 DEF ReceiverCalm
  <2>. QED  BY <1>0, <1>2, <1>7, <2>1 DEF Spent
<1>12. /\ TakesOf(down', i) => TakesOf(down, i) \/ Fresh(i)
       /\ ~mayDown' /\ TakesOf(down', i) => ~mayDown \/ Fresh(i)
       /\ Has(fwd', "cancel", i) => Has(fwd, "cancel", i)
  BY <1>2 DEF ReceiverCalm
<1>13. /\ Has(back', "accept", i) => Has(back, "accept", i) \/ Fresh(i)
       /\ Has(back', "reject", i) => Has(back, "reject", i) \/ Fresh(i)
       /\ Has(back', "cancel", i) \/ Has(back', "verified", i) =>
            Has(back, "cancel", i) \/ Has(back, "verified", i) \/ Shut(i)'
  BY <1>4 DEF ReceiverCalm
<1>14. (Fresh(i)' => Fresh(i)) /\ (Shut(i) => Shut(i)') /\ (Open(i)' => ~down'[i].queued)
  BY DEF ReceiverCalm
<1>. QED  BY <1>0, <1>2, <1>6, <1>7, <1>10, <1>11, <1>12, <1>13, <1>14 DEF Calm

LEMMA ReceiverHolds ==
    ASSUME Shape, NEW ms, ReceiverStep(ms), NEW i \in Ids, ReceiverCalm(ms, i)
    PROVE  Held(i)
<1>0. /\ UNCHANGED <<up>> /\ IsSeq(fwd)
      /\ fwd' = fwd \/ (fwd # <<>> /\ fwd' = Tail(fwd))
  BY DEF ReceiverStep, Shape, Sent
<1>1. \A j : Ahead(fwd', "done", j, "chunk", i) => Ahead(fwd, "done", j, "chunk", i)
  BY <1>0, AheadTail
<1>2. ASSUME TakesOf(down', i), ~Fresh(i), NEW j, Ahead(fwd, "cancel", i, "offer", j)
      PROVE  Ahead(fwd', "cancel", i, "offer", j) \/ Spent(i)
  <2>1. CASE fwd' = fwd
    BY <1>2, <2>1
  <2>2. CASE fwd' # fwd
    <3>1. Ahead(fwd', "cancel", i, "offer", j) \/ (Head(fwd).t = "cancel" /\ Head(fwd).id = i)
      <4>1. fwd # <<>> /\ fwd' = Tail(fwd)
        BY <1>0, <2>2
      <4>2. Ahead(Tail(fwd), "cancel", i, "offer", j) \/ (Head(fwd).t = "cancel" /\ Head(fwd).id = i)
        BY <1>0, <1>2, <4>1, AheadTail
      <4>. QED  BY <4>1, <4>2
    <3>. QED  BY <1>2, <2>2, <3>1 DEF ReceiverCalm
  <2>. QED  BY <2>1, <2>2
<1>. QED  BY <1>0, <1>1, <1>2 DEF Held, ReceiverCalm

-----------------------------------------------------------------------------
(* What every step but an offer and a new session keeps of a transfer *)

Steady(i) ==
    /\ Fresh(i)' => Fresh(i)
    /\ Lively(i)' => Lively(i)
    /\ i \in DOMAIN up' => i \in DOMAIN up /\ up'[i].src = up[i].src
    /\ Spent(i) => Spent(i)'
    /\ Spent(i) /\ ~Has(fwd, "chunk", i) => ~Has(fwd', "chunk", i)
    /\ TakesOf(down', i) => \/ TakesOf(down, i) /\ ~Fresh(i)
                            \/ Fresh(i) /\ Still(i)'
    /\ i \in DOMAIN down => i \in DOMAIN down' /\ down'[i].src = down[i].src
    /\ Fresh(i) => Still(i)
    /\ \A j : Ahead(fwd', "done", j, "chunk", i) =>
          Ahead(fwd, "done", j, "chunk", i) \/ (Has(fwd, "done", j) /\ stream[i].pc # "none")
    /\ TakesOf(down', i) /\ ~Fresh(i) =>
          \A j : Ahead(fwd, "cancel", i, "offer", j) => Ahead(fwd', "cancel", i, "offer", j) \/ Spent(i)

LEMMA CalmSteady ==
    ASSUME NEW i \in Ids, Stage(i), Order(i), Calm(i), Held(i)
    PROVE  Steady(i)
<1>1. \A kind \in {"chunk", "done"} : Has(fwd', kind, i) => Has(fwd, kind, i)
  BY DEF Calm
<1>2. Fresh(i) => Still(i)
  BY DEF Stage, Still, Order, Sending1
<1>3. Still(i) => Still(i)'
  BY <1>1 DEF Calm, Still, Idle
<1>4. Spent(i) => Spent(i)'
  BY <1>1 DEF Calm, Spent
<1>5. (Lively(i)' => Lively(i)) /\ (Fresh(i)' => Fresh(i))
  BY DEF Calm
<1>6. TakesOf(down', i) => (TakesOf(down, i) /\ ~Fresh(i)) \/ (Fresh(i) /\ Still(i)')
  BY <1>2, <1>3 DEF Calm
<1>. QED  BY <1>1, <1>2, <1>4, <1>5, <1>6 DEF Steady, Held

Even == Orders' /\ \A i \in Ids : Steady(i)

LEMMA SenderEven ==
    ASSUME Inv, NEW ms, SenderStep(ms), NEW i \in Ids, Order(i), SenderCalm(ms, i),
           \A j : Ahead(fwd', "done", j, "chunk", i) => Ahead(fwd, "done", j, "chunk", i)
    PROVE  Order(i)' /\ Steady(i)
<1>1. Shape /\ Stage(i)
  BY DEF Inv, Stages
<1>2. Calm(i)
  BY <1>1, SenderCalms
<1>3. Order(i)'
  BY <1>1, <1>2, CalmOrder
<1>4. Held(i)
  <2>1. UNCHANGED <<down>> /\ IsSeq(ms) /\ Inserted(fwd, ms, fwd') /\ IsSeq(fwd)
    BY <1>1 DEF SenderStep, Shape, Sent
  <2>2. \A j : Ahead(fwd, "cancel", i, "offer", j) => Ahead(fwd', "cancel", i, "offer", j)
    BY <2>1, AheadInserted
  <2>. QED  BY <2>1, <2>2 DEF Held, SenderCalm
<1>. QED  BY <1>1, <1>2, <1>3, <1>4, CalmSteady

\* Nothing in bulk is sent.
LEMMA SenderQuietly ==
    ASSUME Inv, NEW ms, SenderStep(ms), \A j : ~Has(ms, "done", j),
           NEW i \in Ids, Order(i), SenderCalm(ms, i)
    PROVE  Order(i)' /\ Steady(i)
<1>1. IsSeq(ms) /\ Inserted(fwd, ms, fwd') /\ IsSeq(fwd)
  BY DEF SenderStep, Shape, Sent, Inv
<1>2. \A j : Ahead(fwd', "done", j, "chunk", i) => Ahead(fwd, "done", j, "chunk", i)
  <2>1. ~Has(ms, "chunk", i)
    BY DEF SenderCalm
  <2>. QED  BY <1>1, <2>1, AheadInserted
<1>. QED  BY <1>2, SenderEven

LEMMA ReceiverEven ==
    ASSUME Inv, Orders, NEW ms, ReceiverStep(ms), mayUp' = mayUp, \A i \in Ids : ReceiverCalm(ms, i)
    PROVE  Even
<1>1. Shape
  BY DEF Inv
<1>2. ASSUME NEW i \in Ids PROVE Order(i)' /\ Steady(i)
  <2>1. Stage(i) /\ Order(i) /\ ReceiverCalm(ms, i)
    BY DEF Inv, Stages, Orders
  <2>2. Calm(i)
    BY <1>1, <2>1, ReceiverCalms
  <2>3. Held(i)
    BY <1>1, <2>1, ReceiverHolds
  <2>. QED  BY <1>1, <2>1, <2>2, <2>3, CalmOrder, CalmSteady
<1>3. NothingOff'
  <2>1. up' = up /\ mode' = mode
    BY DEF ReceiverStep
  <2>. QED  BY <2>1 DEF Orders, NothingOff, Lively, With
<1>. QED  BY <1>2, <1>3 DEF Even, Orders

\* All a step does is at the sender, and says ms.
LEMMA SenderAllEven ==
    ASSUME Inv, Orders, NEW ms, SenderStep(ms), \A j : ~Has(ms, "done", j),
           \A i \in Ids : SenderCalm(ms, i), NothingOff'
    PROVE  Even
<1>1. ASSUME NEW i \in Ids PROVE Order(i)' /\ Steady(i)
  BY SenderQuietly DEF Orders
<1>. QED  BY <1>1 DEF Even, Orders

LEMMA NothingIn == \A kind, i : ~Has(<<>>, kind, i)
BY EmptyOf DEF Has

LEMMA OneIn ==
    ASSUME NEW m
    PROVE  IsSeq(<<m>>) /\ \A kind, i : Has(<<m>>, kind, i) <=> m.t = kind /\ m.id = i
<1>. PICK q : q = <<m>>
  OBVIOUS
<1>1. IsSeq(q) /\ Len(q) = 1 /\ q[1] = m
  BY SingleOf
<1>2. \A kind, i : Has(q, kind, i) <=> m.t = kind /\ m.id = i
  BY <1>1 DEF Has
<1>. QED  BY <1>1, <1>2

LEMMA SameStep ==
    ASSUME Inv, UNCHANGED <<down, approvals, mode, mayDown, fwd>>, next' \in {next, next + 1},
           back' = back \/ (back # <<>> /\ back' = Tail(back))
    PROVE  SenderStep(<<>>)
<1>1. IsSeq(fwd)
  BY DEF Inv, Shape, Sent
<1>. QED  BY <1>1, InsertedNothing DEF SenderStep

\* Nothing that is looked at here changes.
LEMMA NothingEven ==
    ASSUME Inv, Orders,
           UNCHANGED <<up, stream, down, approvals, mayUp, mayDown, fwd, back, mode, next>>
    PROVE  Even
<1>1. SenderStep(<<>>)
  BY SameStep DEF Inv, Shape
<1>2. ASSUME NEW i \in Ids PROVE SenderCalm(<<>>, i)
  <2>1. Lively(i)' <=> Lively(i)
    BY DEF Lively, With
  <2>. QED  BY <2>1, NothingIn DEF SenderCalm
<1>3. NothingOff'
  BY DEF Orders, NothingOff, Lively, With
<1>. QED  BY <1>1, <1>2, <1>3, NothingIn, SenderAllEven

-----------------------------------------------------------------------------
(* The sender's steps *)

\* A change of the sender's table by itself: what the status of a transfer becomes.
LEMMA LivelySet ==
    ASSUME Uploads(up), NEW id, NEW st, up' = [up EXCEPT ![id].status = st]
    PROVE  /\ \A i : i \in DOMAIN up' => i \in DOMAIN up /\ up'[i].src = up[i].src
           /\ \A i : i # id => (Lively(i)' <=> Lively(i))
           /\ Lively(id)' => st \in Running
           /\ st \in Running /\ id \in DOMAIN up => Lively(id)'
<1>1. DOMAIN up' = DOMAIN up
  OBVIOUS
<1>2. \A i \in DOMAIN up : up'[i].src = up[i].src
  BY <1>1 DEF Uploads
<1>3. \A i \in DOMAIN up : i # id => up'[i] = up[i]
  OBVIOUS
<1>4. id \in DOMAIN up => up'[id].status = st
  BY DEF Uploads
<1>. QED  BY <1>1, <1>2, <1>3, <1>4 DEF Lively, With

LEMMA LivelyCancelled ==
    ASSUME Uploads(up), NEW S, CancelUp(S)
    PROVE  /\ \A i : i \in DOMAIN up' => i \in DOMAIN up /\ up'[i].src = up[i].src
           /\ \A i : Lively(i)' <=> Lively(i) /\ i \notin S
<1>1. /\ DOMAIN up' = DOMAIN up
      /\ \A i \in DOMAIN up : up'[i] = IF i \in S THEN [up[i] EXCEPT !.status = "Cancelled"] ELSE up[i]
  BY DEF CancelUp
<1>2. \A i \in DOMAIN up : up'[i].src = up[i].src
  BY <1>1 DEF Uploads
<1>3. \A i \in DOMAIN up : i \in S => up'[i].status = "Cancelled"
  BY <1>1 DEF Uploads
<1>4. \A i \in DOMAIN up : i \notin S => up'[i] = up[i]
  BY <1>1
<1>5. "Cancelled" \notin Running
  BY DEF Running
<1>. QED  BY <1>1, <1>2, <1>3, <1>4, <1>5 DEF Lively, With

\* A streaming task reads, waits, ends or fails.
LEMMA StreamsEven ==
    ASSUME Inv, Orders, NEW id \in Ids, StreamRead(id) \/ StreamResume(id) \/ StreamFails(id)
    PROVE  Even
<1>1. /\ UNCHANGED <<next, mode, down, approvals, mayUp, mayDown, back, fwd>>
      /\ Uploads(up) /\ Streams(stream) /\ stream[id].pc # "none"
      /\ \A i \in Ids : i # id => stream'[i] = stream[i]
  BY DEF StreamRead, StreamResume, StreamFails, ReadChunk, receiver, perms, disk, world, Inv, Shape, Streams
<1>2. SenderStep(<<>>)
  BY <1>1, SameStep DEF Inv, Shape
<1>3. ~Has(fwd, "done", id)
  BY <1>1 DEF Orders, Order, Sending1
<1>4. \A i \in Ids : stream'[i].pc # "none" => stream[i].pc # "none"
  BY <1>1
<1>5. CASE up' = up
  <2>1. \A i : Lively(i)' <=> Lively(i)
    BY <1>5 DEF Lively, With
  <2>2. \A i \in Ids : SenderCalm(<<>>, i)
    BY <1>1, <1>4, <1>5, <2>1, NothingIn DEF SenderCalm
  <2>3. NothingOff'
    BY <1>1, <2>1 DEF Orders, NothingOff
  <2>. QED  BY <1>2, <2>2, <2>3, NothingIn, SenderAllEven
<1>6. CASE up' # up
  <2>1. up' = [up EXCEPT ![id].status = "Failed"] /\ stream'[id].pc = "none"
    BY <1>1, <1>6 DEF StreamRead, StreamResume, StreamFails, SetStatus, ReadChunk, Streams
  <2>2. /\ \A i : i \in DOMAIN up' => i \in DOMAIN up /\ up'[i].src = up[i].src
        /\ \A i : Lively(i)' => Lively(i)
        /\ \A i : i # id => (Lively(i)' <=> Lively(i))
        /\ ~Lively(id)'
    <3>1. Uploads(up) /\ "Failed" \notin Running
      BY <1>1 DEF Running
    <3>2. /\ \A i : i \in DOMAIN up' => i \in DOMAIN up /\ up'[i].src = up[i].src
          /\ \A i : i # id => (Lively(i)' <=> Lively(i))
          /\ ~Lively(id)'
      BY <2>1, <3>1, LivelySet
    <3>. QED  BY <3>2
  <2>3. Spent(id)'
    BY <1>1, <1>3, <2>1, <2>2 DEF Spent
  <2>4. ASSUME NEW i \in Ids PROVE SenderCalm(<<>>, i)
    <3>1. Lively(i)' => Lively(i) /\ up'[i].src = up[i].src
      BY <2>2 DEF Lively, With
    <3>2. ~Lively(i)' => ~Lively(i) \/ Spent(i)'
      BY <2>2, <2>3
    <3>. QED  BY <1>1, <1>4, <2>2, <3>1, <3>2, NothingIn DEF SenderCalm
  <2>5. NothingOff'
    BY <1>1, <2>2 DEF Orders, NothingOff
  <2>. QED  BY <1>2, <2>4, <2>5, NothingIn, SenderAllEven
<1>. QED  BY <1>5, <1>6

\* A streaming task sends a chunk, or the hash.
LEMMA StreamSendEven ==
    ASSUME Inv, Orders, NEW id \in Ids, StreamSend(id)
    PROVE  Even
<1>1. /\ UNCHANGED <<up, next, mode, down, approvals, mayUp, mayDown, back>>
      /\ Shape /\ Stage(id) /\ Order(id) /\ Perms /\ Streams(stream) /\ stream[id].pc # "none"
      /\ \A i \in Ids : i # id => stream'[i] = stream[i]
  BY DEF StreamSend, receiver, perms, disk, world, Inv, Shape, Streams, Stages, Orders
<1>2. PICK m : /\ fwd' = Append(fwd, m) /\ m.t \in {"chunk", "done"} /\ m.id = id
               /\ m.t = "done" => stream'[id].pc = "none"
  <2>1. PICK a : a = [t |-> "chunk", id |-> id, at |-> stream[id].pos, data |-> stream[id].data]
    OBVIOUS
  <2>2. PICK b : b = [t |-> "done", id |-> id, hash |-> Whole(stream[id].src, version[stream[id].src])]
    OBVIOUS
  <2>3. CASE stream[id].pc = "send"
    <3>1. fwd' = Append(fwd, a)
      BY <2>1, <2>3 DEF StreamSend
    <3>. QED  BY <2>1, <3>1
  <2>4. CASE stream[id].pc # "send"
    <3>1. fwd' = Append(fwd, b) /\ stream' = [stream EXCEPT ![id] = [pc |-> "none"]]
      BY <2>2, <2>4 DEF StreamSend
    <3>2. stream'[id].pc = "none"
      BY <1>1, <3>1 DEF Streams
    <3>. QED  BY <2>2, <3>1, <3>2
  <2>. QED  BY <2>3, <2>4
<1>. PICK ms : ms = <<m>>
  OBVIOUS
<1>3. IsSeq(ms) /\ \A kind, i : Has(ms, kind, i) <=> m.t = kind /\ id = i
  BY <1>2, OneIn
<1>4. IsSeq(fwd) /\ Inserted(fwd, ms, fwd')
  BY <1>1, <1>2, AppendInserts DEF Shape, Sent
<1>5. SenderStep(ms)
  BY <1>1, <1>3, <1>4 DEF SenderStep, Shape
<1>6. \A i : Lively(i)' <=> Lively(i)
  BY <1>1 DEF Lively, With
<1>7. NothingOff'
  BY <1>1, <1>6 DEF Orders, NothingOff
<1>8. \A i, j : Ahead(fwd', "done", j, "chunk", i) =>
                   Ahead(fwd, "done", j, "chunk", i) \/ (Has(fwd, "done", j) /\ m.t = "chunk" /\ i = id)
  BY <1>2, <1>4, AheadLast
<1>9. ASSUME NEW i \in Ids, i # id PROVE Order(i)' /\ Steady(i)
  <2>1. SenderCalm(ms, i)
    BY <1>1, <1>2, <1>3, <1>6, <1>9 DEF SenderCalm
  <2>2. Order(i)
    BY DEF Orders
  <2>3. \A j : Ahead(fwd', "done", j, "chunk", i) => Ahead(fwd, "done", j, "chunk", i)
    BY <1>8, <1>9
  <2>. QED  BY <1>5, <2>1, <2>2, <2>3, SenderEven
<1>10. \A kind, i : Has(fwd', kind, i) <=> Has(fwd, kind, i) \/ (m.t = kind /\ id = i)
  BY <1>3, <1>4, InsertedHas
<1>11. /\ ~Fresh(id) /\ ~Has(back, "accept", id) /\ ~Has(fwd, "done", id) /\ ~Spent(id) /\ ~Still(id)
  BY <1>1 DEF Stage, Idle, Order, Sending1, Spent, Still
<1>12. ~Fresh(id)'
  BY <1>1, <1>2, <1>10, <1>11 DEF Fresh
<1>13. Order(id)'
  <2>1. Sending1(id)'
    BY <1>1, <1>2, <1>6, <1>10, <1>11, <1>12 DEF Order, Sending1
  <2>2. Refused(id)'
    BY <1>1, <1>11 DEF Order, Refused
  <2>3. Closed(id)'
    BY <1>1 DEF Order, Closed, Shut, TakesOf
  <2>4. Taken1(id)'
    <3>1. ~Halted(id)
      BY <1>1, <1>11 DEF Order, Taken1
    <3>2. ~mayDown' /\ TakesOf(down', id) => ~Has(fwd', "done", id)
      BY <1>1 DEF Perms, Idle
    <3>3. TakesOf(down', id) /\ ~Lively(id)' => Has(fwd', "cancel", id)
      BY <1>1, <1>6, <1>10, <1>11 DEF Order, Taken1
    <3>. QED  BY <1>1, <3>1, <3>2, <3>3 DEF Order, Taken1, Halted, Open
  <2>. QED  BY <2>1, <2>2, <2>3, <2>4 DEF Order
<1>14. Steady(id)
  <2>1. \A j : Ahead(fwd, "cancel", id, "offer", j) => Ahead(fwd', "cancel", id, "offer", j)
    BY <1>2, <1>4, AheadLast
  <2>. QED  BY <1>1, <1>6, <1>8, <1>11, <1>12, <2>1 DEF Steady
<1>. QED  BY <1>7, <1>9, <1>13, <1>14 DEF Even, Orders

\* What a list of cancellations with something at its end holds.
LEMMA CancelsAndHas ==
    ASSUME NEW S, IsFiniteSet(S), NEW told, IsSeq(told), NEW c, c = Cancels(S) \o told
    PROVE  /\ IsSeq(c)
           /\ \A kind, i : Has(c, kind, i) <=> (kind = "cancel" /\ i \in S) \/ Has(told, kind, i)
<1>1. PICK b : b = Cancels(S)
  OBVIOUS
<1>2. IsSeq(b)
  BY <1>1, CancelsOf
<1>3. IsSeq(c) /\ Inserted(b, told, c)
  BY <1>1, <1>2, ConcatInserts
<1>4. \A kind, i : Has(c, kind, i) <=> Has(b, kind, i) \/ Has(told, kind, i)
  BY <1>2, <1>3, InsertedHas
<1>5. \A kind, i : Has(b, kind, i) <=> kind = "cancel" /\ i \in S
  BY <1>1, CancelsHas
<1>. QED  BY <1>3, <1>4, <1>5

\* The permission of the sender changes, or it hears that it did.
LEMMA AllowedUpEven ==
    ASSUME Inv, Orders, NEW on \in BOOLEAN, NEW told, IsSeq(told),
           \A kind, i : Has(told, kind, i) => kind = "perm",
           SetAllowedUp(on, told),
           back' = back \/ (back # <<>> /\ back' = Tail(back) /\ Head(back).t = "perm" /\ Head(back).on = on),
           UNCHANGED <<stream, down, approvals, mode, mayDown, next>>
    PROVE  Even
<1>1. Shape /\ Uploads(up) /\ IsSeq(fwd)
  BY DEF Inv, Shape, Sent
<1>2. PICK ids : /\ ids = (IF on THEN {} ELSE With(Running, up))
                 /\ CancelUp(ids) /\ Tell(Cancels(ids) \o told)
  BY DEF SetAllowedUp
<1>3. IsFiniteSet(ids)
  BY <1>1, <1>2, RunningFinite, FS_EmptySet
<1>4. PICK c : c = Cancels(ids) \o told
  OBVIOUS
<1>5. IsSeq(c) /\ \A kind, i : Has(c, kind, i) <=> (kind = "cancel" /\ i \in ids) \/ Has(told, kind, i)
  BY <1>3, <1>4, CancelsAndHas
<1>6. Inserted(fwd, c, fwd')
  BY <1>1, <1>2, <1>4, <1>5, OvertakingInserts DEF Tell
<1>7. SenderStep(c)
  BY <1>1, <1>5, <1>6 DEF SenderStep, Shape
<1>8. /\ \A i : i \in DOMAIN up' => i \in DOMAIN up /\ up'[i].src = up[i].src
      /\ \A i : Lively(i)' <=> Lively(i) /\ i \notin ids
  BY <1>1, <1>2, LivelyCancelled
<1>9. ~on => \A i : ~Lively(i)'
  BY <1>2, <1>8 DEF Lively
<1>10. ASSUME NEW i \in Ids PROVE SenderCalm(c, i)
  <2>1. \A kind \in {"offer", "chunk", "done"} : ~Has(c, kind, i)
    BY <1>5
  <2>2. Has(c, "cancel", i) => ~Lively(i)' /\ i < next
    <3>. SUFFICES ASSUME Has(c, "cancel", i) PROVE ~Lively(i)' /\ i < next
      OBVIOUS
    <3>1. i \in ids
      BY <1>5
    <3>2. i \in DOMAIN up
      BY <1>2, <3>1 DEF With
    <3>. QED  BY <1>8, <3>1, <3>2 DEF Orders, Order, Sending1
  <2>3. back' # back => (Bars(mode, Head(back), i) => ~Lively(i)')
    BY <1>9 DEF Bars
  <2>4. ~Lively(i)' => ~Lively(i) \/ Has(c, "cancel", i)
    BY <1>5, <1>8
  <2>5. Lively(i)' => Lively(i) /\ up'[i].src = up[i].src
    BY <1>8 DEF Lively, With
  <2>. QED  BY <1>8, <2>1, <2>2, <2>3, <2>4, <2>5 DEF SenderCalm
<1>11. NothingOff'
  <2>1. mayUp' = on
    BY DEF SetAllowedUp
  <2>. QED  BY <1>9, <2>1 DEF NothingOff
<1>. QED  BY <1>5, <1>7, <1>10, <1>11, SenderAllEven

\* A new transfer is offered; nothing else changes.
LEMMA OfferEven ==
    ASSUME Inv, Orders, NEW s \in Sources, NEW tbl, Offer(s, tbl), mode = "download" => mayUp,
           DOMAIN tbl \subseteq DOMAIN up, \A i \in DOMAIN tbl : tbl[i] = up[i],
           \A i \in DOMAIN up \ DOMAIN tbl : ~Lively(i),
           back' = back \/ (back # <<>> /\ back' = Tail(back) /\ Head(back).t = "fetch")
    PROVE  /\ Orders'
           /\ \A i \in Ids \ {next} : Steady(i)
           /\ \A i \in Ids : i \in DOMAIN up' => i = next \/ i \in DOMAIN tbl
           /\ \A i \in Ids \ {next} : i \in DOMAIN up' => up'[i] = up[i]
           /\ next \in Ids /\ next \notin DOMAIN up /\ up'[next].src = s
<1>. PICK n : n = next
  OBVIOUS
<1>. PICK m : m = [t |-> "offer", id |-> next, src |-> s]
  OBVIOUS
<1>. PICK ms : ms = <<m>>
  OBVIOUS
<1>1. /\ next <= MaxOffers /\ next' = next + 1 /\ fwd' \in Overtaking(fwd, ms)
      /\ up' = Put(tbl, next, [src |-> s, status |-> "Pending"])
      /\ UNCHANGED <<stream, down, approvals, mode, mayUp, mayDown>>
  BY DEF Offer, Tell, receiver, perms, world
<1>2. Shape /\ Numbers /\ Uploads(up) /\ IsSeq(fwd) /\ Stages
  BY DEF Inv, Shape, Sent
<1>3. next \in Nat /\ next \in Ids
  BY <1>1, <1>2, BoundsAssumption DEF Shape, Ids
<1>4. /\ DOMAIN up' = DOMAIN tbl \cup {next} /\ up'[next] = [src |-> s, status |-> "Pending"]
      /\ \A i \in DOMAIN tbl : i # next => up'[i] = up[i]
  <2>1. PICK w : w = [src |-> s, status |-> "Pending"]
    OBVIOUS
  <2>2. up' = Put(tbl, n, w)
    BY <1>1, <2>1
  <2>3. DOMAIN up' = DOMAIN tbl \cup {n} /\ up'[n] = w /\ \A i \in DOMAIN tbl : i # n => up'[i] = tbl[i]
    BY <2>2 DEF Put
  <2>. QED  BY <2>1, <2>3
<1>5. next \notin DOMAIN up /\ next \notin DOMAIN down /\ ~Has(fwd, "cancel", next)
  <2>1. Order(next) /\ ~(next < next)
    BY <1>3 DEF Orders
  <2>. QED  BY <1>2, <1>3, <2>1 DEF Order, Sending1, Numbers
<1>6. IsSeq(ms) /\ \A kind, i : Has(ms, kind, i) <=> kind = "offer" /\ i = next
  <2>1. m.t = "offer" /\ m.id = next
    OBVIOUS
  <2>. QED  BY <2>1, OneIn
<1>7. Inserted(fwd, ms, fwd')
  BY <1>1, <1>2, <1>6, OvertakingInserts
<1>8. SenderStep(ms)
  BY <1>1, <1>6, <1>7 DEF SenderStep
<1>9. \A i : i # next => (Lively(i)' <=> Lively(i)) /\ (i \in DOMAIN up' => i \in DOMAIN up /\ up'[i] = up[i])
  BY <1>4 DEF Lively, With
<1>10. ASSUME NEW i \in Ids, i # next PROVE Order(i)' /\ Steady(i)
  <2>1. Lively(i)' => Lively(i) /\ up'[i].src = up[i].src
    BY <1>9, <1>10 DEF Lively, With
  <2>2. back' # back => ~Bars(mode, Head(back), i)
    BY DEF Bars
  <2>3. SenderCalm(ms, i)
    BY <1>1, <1>6, <1>9, <1>10, <2>1, <2>2 DEF SenderCalm
  <2>4. Order(i)
    BY DEF Orders
  <2>5. \A j : ~Has(ms, "done", j)
    BY <1>6
  <2>. QED  BY <1>8, <2>3, <2>4, <2>5, SenderQuietly
<1>11. \A kind, i : Has(fwd', kind, i) <=> Has(fwd, kind, i) \/ (kind = "offer" /\ i = next)
  BY <1>2, <1>6, <1>7, InsertedHas
<1>12. \A kind, i : Has(back', kind, i) => Has(back, kind, i)
  BY <1>2, TailKeeps DEF Shape, Sent
<1>13. Order(n)'
  <2>1. Order(n) /\ Stage(n) /\ Fresh(n)
    BY <1>2, <1>3 DEF Orders, Stages, Fresh
  <2>2. ~Has(fwd, "done", n) /\ stream[n].pc = "none" /\ ~Has(back, "accept", n) /\ ~Has(fwd, "chunk", n)
    BY <2>1 DEF Stage, Order, Sending1, Idle
  <2>3. ~Has(back, "cancel", n) /\ ~Has(back, "verified", n)
    BY <1>5, <2>1 DEF Order, Closed, Shut
  <2>4. Still(n)'
    BY <1>1, <1>11, <2>2 DEF Still, Idle
  <2>5. ~Ahead(back', "accept", n, "reject", n)
    BY <1>12, <2>2, AheadHas
  <2>6. Sending1(n)'
    BY <1>1, <1>3, <1>5, <1>11, <2>2 DEF Sending1
  <2>7. Refused(n)' /\ Closed(n)'
    BY <1>12, <2>3, <2>4, <2>5 DEF Refused, Closed
  <2>8. Taken1(n)'
    BY <1>1, <1>5 DEF Taken1, Halted, Open, TakesOf
  <2>. QED  BY <2>6, <2>7, <2>8 DEF Order
<1>14. NothingOff'
  BY <1>1 DEF NothingOff
<1>15. Orders'
  BY <1>10, <1>13, <1>14 DEF Orders
<1>. QED  BY <1>3, <1>4, <1>5, <1>9, <1>10, <1>15

\* What came from the receiver is at the head of the queue.
LEMMA HeadHas ==
    ASSUME NEW q, IsSeq(q), q # <<>>
    PROVE  /\ Has(q, Head(q).t, Head(q).id)
           /\ \A kind, i : Has(Tail(q), kind, i) => Ahead(q, Head(q).t, Head(q).id, kind, i)
<1>. PICK r : r = Tail(q)
  OBVIOUS
<1>1. /\ Head(q) = q[1] /\ 1 \in 1..Len(q) /\ Len(r) = Len(q) - 1 /\ Len(q) \in Nat
      /\ \A k \in 1..Len(r) : k + 1 \in 1..Len(q) /\ r[k] = q[k + 1]
  BY TailOf
<1>2. Has(q, Head(q).t, Head(q).id)
  BY <1>1 DEF Has
<1>3. ASSUME NEW kind, NEW i, Has(r, kind, i) PROVE Ahead(q, Head(q).t, Head(q).id, kind, i)
  <2>1. PICK k \in 1..Len(r) : r[k].t = kind /\ r[k].id = i
    BY <1>3 DEF Has
  <2>2. PICK x \in 1..Len(q) : x = k + 1 /\ 1 < x
    BY <1>1
  <2>3. q[x] = r[k]
    BY <1>1, <2>2
  <2>. QED  BY <1>1, <2>1, <2>2, <2>3 DEF Ahead
<1>. QED  BY <1>2, <1>3

\* The acceptance of a transfer that waits for it starts its stream.
LEMMA AcceptEven ==
    ASSUME Inv, Orders, back # <<>>, back' = Tail(back), mayUp,
           NEW id \in Ids, Head(back).t = "accept", Head(back).id = id, Lively(id),
           up' = [up EXCEPT ![id].status = "Active"],
           NEW w, stream' = [stream EXCEPT ![id] = w],
           UNCHANGED <<next, mode, down, approvals, mayUp, mayDown, fwd>>
    PROVE  Even
<1>1. Shape /\ Uploads(up) /\ Streams(stream) /\ IsSeq(back) /\ Stage(id) /\ Order(id)
  BY DEF Inv, Shape, Sent, Stages, Orders
<1>2. SenderStep(<<>>)
  BY SameStep DEF Inv, Shape
<1>3. \A i \in Ids : i # id => stream'[i] = stream[i]
  BY <1>1 DEF Streams
<1>4. /\ \A i : i \in DOMAIN up' => i \in DOMAIN up /\ up'[i].src = up[i].src
      /\ \A i : Lively(i)' <=> Lively(i)
  <2>1. /\ \A i : i \in DOMAIN up' => i \in DOMAIN up /\ up'[i].src = up[i].src
        /\ \A i : i # id => (Lively(i)' <=> Lively(i))
        /\ "Active" \in Running /\ id \in DOMAIN up => Lively(id)'
    BY <1>1, LivelySet
  <2>2. "Active" \in Running /\ id \in DOMAIN up
    BY DEF Running, Lively, With
  <2>. QED  BY <2>1, <2>2
<1>5. /\ Has(back, "accept", id) /\ \A kind, i : Has(back', kind, i) => Has(back, kind, i)
      /\ \A kind, i : Has(back', kind, i) => Ahead(back, "accept", id, kind, i)
  BY <1>1, HeadHas, TailKeeps
<1>6. ASSUME NEW i \in Ids, i # id PROVE Order(i)' /\ Steady(i)
  <2>1. Lively(i)' => Lively(i) /\ up'[i].src = up[i].src
    BY <1>4 DEF Lively, With
  <2>2. ~Bars(mode, Head(back), i)
    BY DEF Bars
  <2>3. SenderCalm(<<>>, i)
    BY <1>3, <1>4, <1>6, <2>1, <2>2, NothingIn DEF SenderCalm
  <2>4. Order(i)
    BY DEF Orders
  <2>. QED  BY <1>2, <2>3, <2>4, NothingIn, SenderQuietly
<1>7. ~Fresh(id) /\ ~Has(fwd, "done", id) /\ ~Has(fwd, "cancel", id) /\ ~Spent(id)
  BY <1>1, <1>5 DEF Stage, Order, Sending1, Spent
<1>8. ~Fresh(id)'
  BY <1>7 DEF Fresh
<1>9. ~Has(back', "reject", id)
  <2>1. Has(back', "reject", id) => Has(back, "reject", id) /\ Ahead(back, "accept", id, "reject", id)
    BY <1>5
  <2>. QED  BY <1>1, <2>1 DEF Order, Refused
<1>10. ~Halted(id)
  <2>1. ~Barrier(mode, back, id)
    <3>1. Head(back) = back[1] /\ 1 \in 1..Len(back) /\ Len(back) \in Nat
      BY <1>1, TailOf
    <3>. SUFFICES ASSUME Barrier(mode, back, id) PROVE FALSE
      OBVIOUS
    <3>2. PICK k \in 1..Len(back) : /\ Bars(mode, back[k], id)
                                    /\ \A j \in 1..(k - 1) : ~(back[j].t = "accept" /\ back[j].id = id)
      BY DEF Barrier
    <3>3. k # 1
      BY <3>1, <3>2 DEF Bars
    <3>4. 1 \in 1..(k - 1)
      BY <3>1, <3>3
    <3>. QED  BY <3>1, <3>2, <3>4
  <2>. QED  BY <1>1, <2>1 DEF Order, Taken1, Barred
<1>11. Order(id)'
  <2>1. Sending1(id)'
    BY <1>1, <1>4, <1>7, <1>8 DEF Order, Sending1
  <2>2. Refused(id)'
    BY <1>9 DEF Refused
  <2>3. Closed(id)'
    BY <1>1, <1>5 DEF Order, Closed, Shut, TakesOf
  <2>4. Taken1(id)'
    BY <1>1, <1>4, <1>7, <1>10 DEF Order, Taken1, Halted, Open, TakesOf
  <2>. QED  BY <2>1, <2>2, <2>3, <2>4 DEF Order
<1>12. Steady(id)
  <2>1. up'[id].src = up[id].src
    BY <1>4 DEF Lively, With
  <2>. QED  BY <1>4, <1>7, <1>8, <2>1 DEF Steady
<1>13. NothingOff'
  BY DEF NothingOff
<1>. QED  BY <1>6, <1>11, <1>12, <1>13 DEF Even, Orders

\* The sender drops the head of the queue, and maybe closes one of its transfers.
LEMMA SettledEven ==
    ASSUME Inv, Orders, back # <<>>, back' = Tail(back), UNCHANGED <<stream, next, mode, down, approvals, mayUp, mayDown>>,
           NEW ms, SenderStep(ms), \A i \in Ids, kind \in {"offer", "chunk", "cancel", "done"} : ~Has(ms, kind, i),
           \A j : ~Has(ms, "done", j),
           \A i : i \in DOMAIN up' => i \in DOMAIN up /\ up'[i].src = up[i].src,
           \A i : Lively(i)' => Lively(i),
           \A i \in Ids : Bars(mode, Head(back), i) => ~Lively(i)',
           \A i \in Ids : TakesOf(down, i) /\ Lively(i) /\ ~Lively(i)' => Still(i) /\ fwd' = fwd
    PROVE  Even
<1>1. ASSUME NEW i \in Ids PROVE SenderCalm(ms, i)
  <2>1. Lively(i)' => Lively(i) /\ up'[i].src = up[i].src
    BY DEF Lively, With
  <2>2. TakesOf(down, i) /\ ~Lively(i)' => ~Lively(i) \/ Spent(i)'
    BY DEF Still, Idle, Spent
  <2>. QED  BY <2>1, <2>2 DEF SenderCalm
<1>2. NothingOff'
  BY DEF Orders, NothingOff
<1>. QED  BY <1>1, <1>2, SenderAllEven

LEMMA OnBackEven ==
    ASSUME Inv, Orders, OnBack, ~(Head(back).t = "fetch" /\ mayUp)
    PROVE  Even
<1>. PICK m : m = Head(back)
  OBVIOUS
<1>1. /\ Shape /\ Stages /\ back # <<>> /\ back' = Tail(back) /\ Sent(back, "accept")
      /\ Uploads(up) /\ IsSeq(fwd) /\ IsSeq(back)
  BY DEF Inv, OnBack, Shape, Sent
<1>2. Sound(m) /\ Has(back, m.t, m.id)
  <2>1. Sound(Head(back)) /\ Has(back, Head(back).t, Head(back).id)
    BY <1>1, BackTail, HeadHas
  <2>. QED  BY <2>1
<1>3. CASE /\ m.t = "perm" /\ SetAllowedUp(m.on, <<>>)
           /\ UNCHANGED <<stream, mayDown, next, receiver, disk, world>>
  <2>1. UNCHANGED <<stream, down, approvals, mode, mayDown, next>> /\ m.on \in BOOLEAN
    BY <1>2, <1>3 DEF receiver, world, Sound
  <2>2. IsSeq(<<>>) /\ \A kind, i : Has(<<>>, kind, i) => kind = "perm"
    BY EmptyOf, NothingIn
  <2>. QED  BY <1>1, <1>3, <2>1, <2>2, AllowedUpEven
<1>4. CASE /\ m.t = "fetch" /\ ~mayUp /\ Tell(<<[t |-> "reject", id |-> 0]>>)
           /\ UNCHANGED <<manager, next, receiver, perms, disk, world>>
  <2>1. UNCHANGED <<up, stream, next, mode, down, approvals, mayUp, mayDown>>
    BY <1>4 DEF manager, receiver, perms, world
  <2>. PICK ms : ms = <<[t |-> "reject", id |-> 0]>>
    OBVIOUS
  <2>2. IsSeq(ms) /\ \A kind, i : Has(ms, kind, i) <=> "reject" = kind /\ 0 = i
    BY OneIn
  <2>3. SenderStep(ms)
    <3>1. Inserted(fwd, ms, fwd')
      BY <1>1, <1>4, <2>2, OvertakingInserts DEF Tell
    <3>. QED  BY <1>1, <2>1, <2>2, <3>1 DEF SenderStep, Shape
  <2>4. \A i : Lively(i)' <=> Lively(i)
    BY <2>1 DEF Lively, With
  <2>5. \A i \in Ids : ~Bars(mode, Head(back), i)
    BY <1>4 DEF Bars
  <2>. QED  BY <1>1, <2>1, <2>2, <2>3, <2>4, <2>5, SettledEven
<1>5. ASSUME UNCHANGED <<fwd, stream, next, receiver, perms, disk, world>>
      PROVE  UNCHANGED <<stream, next, mode, down, approvals, mayUp, mayDown>> /\ SenderStep(<<>>)
  <2>1. UNCHANGED <<stream, next, mode, down, approvals, mayUp, mayDown>>
    BY <1>5 DEF receiver, perms, world
  <2>. QED  BY <1>1, <1>5, <2>1, SameStep DEF Shape
<1>6. CASE /\ m.t \notin {"perm", "fetch"} /\ ~mayUp
           /\ UNCHANGED <<fwd, manager, next, receiver, perms, disk, world>>
  <2>1. UNCHANGED <<stream, next, mode, down, approvals, mayUp, mayDown>> /\ SenderStep(<<>>) /\ up' = up
    BY <1>5, <1>6 DEF manager
  <2>2. \A i : Lively(i)' <=> Lively(i)
    BY <2>1 DEF Lively, With
  <2>3. \A i \in Ids : Bars(mode, Head(back), i) => ~Lively(i)'
    BY <1>6, <2>2 DEF Orders, NothingOff, Bars
  <2>. QED  BY <1>1, <2>1, <2>2, <2>3, NothingIn, SettledEven
<1>7. CASE m.t = "accept" /\ mayUp /\ OnAccept(m) /\ UNCHANGED <<receiver, disk, world>>
  <2>1. UNCHANGED <<fwd, next, mode, down, approvals, mayUp, mayDown>> /\ m.id \in Ids
    BY <1>2, <1>7 DEF OnAccept, receiver, perms, world, Sound
  <2>2. SenderStep(<<>>) /\ Still(m.id)
    BY <1>1, <1>2, <1>7, <2>1, SameStep DEF Shape, Stages, Stage, Orders, Order, Sending1, Still
  <2>3. \A i \in Ids : ~Bars(mode, Head(back), i)
    BY <1>7 DEF Bars
  <2>4. CASE UNCHANGED <<up, stream>>
    <3>1. \A i : Lively(i)' <=> Lively(i)
      BY <2>4 DEF Lively, With
    <3>. QED  BY <1>1, <2>1, <2>2, <2>3, <2>4, <3>1, NothingIn, SettledEven
  <2>5. CASE up' = [up EXCEPT ![m.id].status = "Failed"] /\ UNCHANGED stream
    <3>0. "Failed" \notin Running
      BY DEF Running
    <3>1. /\ \A i : i \in DOMAIN up' => i \in DOMAIN up /\ up'[i].src = up[i].src
          /\ \A i : i # m.id => (Lively(i)' <=> Lively(i))
          /\ ~Lively(m.id)'
      BY <1>1, <2>5, <3>0, LivelySet
    <3>2. \A i : Lively(i)' => Lively(i)
      BY <3>1
    <3>3. \A i : Lively(i) /\ ~Lively(i)' => Still(i)
      BY <2>2, <3>1
    <3>. QED  BY <1>1, <2>1, <2>2, <2>3, <2>5, <3>1, <3>2, <3>3, NothingIn, SettledEven
  <2>6. CASE /\ m.id \in With({"Pending"}, up)
             /\ up' = [up EXCEPT ![m.id].status = "Active"]
             /\ stream' = [stream EXCEPT ![m.id] = [pc |-> "read", src |-> up[m.id].src, pos |-> m.from]]
    <3>. PICK id : id = m.id
      OBVIOUS
    <3>. PICK w : w = [pc |-> "read", src |-> up[m.id].src, pos |-> m.from]
      OBVIOUS
    <3>1. Lively(id)
      BY <2>6 DEF Lively, With, Running
    <3>. QED  BY <1>1, <1>7, <2>1, <2>6, <3>1, AcceptEven
  <2>. QED  BY <1>7, <2>4, <2>5, <2>6 DEF OnAccept
<1>8. CASE /\ m.t \in {"reject", "verified"} /\ mayUp
           /\ SetStatus(m.id, IF m.t = "verified" /\ m.ok THEN "Completed" ELSE "Failed")
           /\ UNCHANGED <<fwd, ctl, stream, next, receiver, perms, disk, world>>
  <2>1. UNCHANGED <<stream, next, mode, down, approvals, mayUp, mayDown>> /\ SenderStep(<<>>)
    BY <1>5, <1>8
  <2>2. PICK st : st \notin Running /\ SetStatus(m.id, st)
    <3>1. "Completed" \notin Running /\ "Failed" \notin Running
      BY DEF Running
    <3>. QED  BY <1>8, <3>1
  <2>3. /\ \A i : i \in DOMAIN up' => i \in DOMAIN up /\ up'[i].src = up[i].src
        /\ \A i : i # m.id => (Lively(i)' <=> Lively(i))
        /\ \A i : Lively(i)' => Lively(i)
    <3>1. CASE m.id \in DOMAIN up
      <4>1. up' = [up EXCEPT ![m.id].status = st]
        BY <2>2, <3>1 DEF SetStatus
      <4>2. /\ \A i : i \in DOMAIN up' => i \in DOMAIN up /\ up'[i].src = up[i].src
            /\ \A i : i # m.id => (Lively(i)' <=> Lively(i))
            /\ ~Lively(m.id)'
        BY <1>1, <2>2, <4>1, LivelySet
      <4>. QED  BY <4>2
    <3>2. CASE m.id \notin DOMAIN up
      <4>1. up' = up
        BY <2>2, <3>2 DEF SetStatus
      <4>. QED  BY <4>1 DEF Lively, With
    <3>. QED  BY <3>1, <3>2
  <2>4. ASSUME NEW i \in Ids, TakesOf(down, i), Lively(i), ~Lively(i)' PROVE Still(i)
    <3>1. i = m.id /\ Order(i)
      BY <2>3, <2>4 DEF Orders
    <3>2. CASE m.t = "reject"
      BY <1>2, <3>1, <3>2 DEF Order, Refused
    <3>3. CASE m.t = "verified"
      BY <1>2, <2>4, <3>1, <3>3 DEF Order, Closed, Shut
    <3>. QED  BY <1>8, <3>2, <3>3
  <2>5. \A i \in Ids : ~Bars(mode, Head(back), i)
    BY <1>8 DEF Bars
  <2>. QED  BY <1>1, <1>8, <2>1, <2>3, <2>4, <2>5, NothingIn, SettledEven
<1>9. CASE /\ m.t = "cancel" /\ mayUp /\ CancelUp({m.id} \cap DOMAIN up)
           /\ UNCHANGED <<fwd, stream, next, receiver, perms, disk, world>>
  <2>1. UNCHANGED <<stream, next, mode, down, approvals, mayUp, mayDown>> /\ SenderStep(<<>>)
    BY <1>5, <1>9
  <2>2. /\ \A i : i \in DOMAIN up' => i \in DOMAIN up /\ up'[i].src = up[i].src
        /\ \A i : Lively(i)' <=> Lively(i) /\ i \notin ({m.id} \cap DOMAIN up)
    BY <1>1, <1>9, LivelyCancelled
  <2>3. \A i : Lively(i) => i \in DOMAIN up
    BY DEF Lively, With
  <2>4. \A i \in Ids : Bars(mode, Head(back), i) => ~Lively(i)'
    BY <1>9, <2>2, <2>3 DEF Bars
  <2>5. ASSUME NEW i \in Ids, TakesOf(down, i), Lively(i), ~Lively(i)' PROVE FALSE
    <3>1. i = m.id /\ Order(i)
      BY <2>2, <2>5 DEF Orders
    <3>. QED  BY <1>2, <1>9, <2>5, <3>1 DEF Order, Closed, Shut
  <2>. QED  BY <1>1, <2>1, <2>2, <2>4, <2>5, NothingIn, SettledEven
<1>. QED  BY <1>3, <1>4, <1>6, <1>7, <1>8, <1>9 DEF OnBack

-----------------------------------------------------------------------------
(* The receiver's steps *)

\* The receiver answers about one transfer, and changes its row at most.
OneRow(id, ms) ==
    /\ DOMAIN down \subseteq DOMAIN down' /\ DOMAIN down' \subseteq DOMAIN down \cup {id}
    /\ \A x \in DOMAIN down : x # id => down'[x] = down[x]
    /\ \A x \in Ids : x # id => (Fresh(x)' => Fresh(x))
    /\ \A x \in Ids, kind \in {"accept", "reject", "cancel", "verified"} : x # id => ~Has(ms, kind, x)
    /\ mayDown' = mayDown
    /\ fwd' # fwd => Head(fwd).t # "cancel"

LEMMA OtherRows ==
    ASSUME Orders, NEW id \in Ids, NEW ms, OneRow(id, ms), NEW i \in Ids, i # id
    PROVE  ReceiverCalm(ms, i)
<1>1. i \in DOMAIN down' <=> i \in DOMAIN down
  BY DEF OneRow
<1>2. i \in DOMAIN down => down'[i] = down[i]
  BY DEF OneRow
<1>3. /\ Shut(i)' <=> Shut(i)
      /\ Halted(i)' <=> Halted(i)
      /\ Open(i)' <=> Open(i)
      /\ TakesOf(down', i) <=> TakesOf(down, i)
  BY <1>1, <1>2 DEF Shut, Halted, Open, TakesOf
<1>4. Open(i)' => ~down'[i].queued
  BY <1>2, <1>3 DEF Orders, Order, Taken1, Open
<1>. QED  BY <1>1, <1>2, <1>3, <1>4 DEF OneRow, ReceiverCalm

\* The sequences a receiver's step works on.
LEMMA RepliedStep ==
    ASSUME Shape, NEW m, Reply(<<m>>), UNCHANGED <<up, stream, mode, next>>,
           fwd' = fwd \/ (fwd # <<>> /\ fwd' = Tail(fwd))
    PROVE  /\ ReceiverStep(<<m>>)
           /\ \A kind, i : Has(<<m>>, kind, i) <=> m.t = kind /\ m.id = i
<1>. PICK ms : ms = <<m>>
  OBVIOUS
<1>1. IsSeq(ms) /\ \A kind, i : Has(ms, kind, i) <=> m.t = kind /\ m.id = i
  BY OneIn
<1>2. ReceiverStep(ms)
  BY <1>1 DEF ReceiverStep, Reply
<1>. QED  BY <1>1, <1>2

LEMMA SilentStep ==
    ASSUME Shape, back' = back, UNCHANGED <<up, stream, mode, next>>,
           fwd' = fwd \/ (fwd # <<>> /\ fwd' = Tail(fwd))
    PROVE  ReceiverStep(<<>>)
<1>1. PICK T : back \in Seq(T)
  BY DEF Shape, Sent, IsSeq
<1>2. back \o <<>> = back
  BY <1>1, ConcatEmptySeq
<1>. QED  BY <1>2, EmptyOf DEF ReceiverStep

\* A transfer whose turn it is waits in the queue, if it has a row.
LEMMA TakingQueued ==
    ASSUME Shape, Numbers, NEW id \in Ids, Taking(id)
    PROVE  id \in DOMAIN down => down[id].queued
<1>1. ~(id >= next)
  BY BoundsAssumption DEF Taking, Ids, Shape
<1>2. id \in DOMAIN down => ~Has(fwd, "offer", id) /\ id \notin DOMAIN approvals
  BY DEF Numbers
<1>. QED  BY <1>1, <1>2 DEF Taking, Fresh, Numbers

\* Only offers and requests are answered with a row.
OfferFirst == fwd' = fwd \/ (fwd # <<>> /\ fwd' = Tail(fwd) /\ Head(fwd).t = "offer")

LEMMA StartsEven ==
    ASSUME Inv, Orders, NEW id \in Ids, NEW s \in Sources, Taking(id), StartIncoming(id, s), OfferFirst,
           id \in DOMAIN down => s = down[id].src
    PROVE  Even
<1>1. Shape /\ Numbers /\ Rows(down)
  BY DEF Inv, Shape
<1>2. PICK w, from : /\ down' = Put(down, id, w) /\ w.src = s /\ ~w.queued
                     /\ w.cancelled = (id \in DOMAIN down /\ down[id].cancelled)
                     /\ Reply(<<[t |-> "accept", id |-> id, from |-> from]>>)
  <2>. DEFINE plain  == <<NameOf[s], 0>>
              resume == parts[plain] # 0 /\ targets[plain] = 0
              path   == IF resume THEN plain ELSE UniquePath(NameOf[s])
              node   == IF parts[path] # 0 THEN parts[path] ELSE CHOOSE n \in FreeInodes : TRUE
              length == IF resume THEN Len(inodes[node]) ELSE 0
              kept   == IF length <= SizeOf[s] THEN length ELSE 0
  <2>1. PICK w : w = [src |-> s, status |-> "Active", queued |-> FALSE,
                      cancelled |-> id \in DOMAIN down /\ down[id].cancelled,
                      file |-> [node |-> node, path |-> path, received |-> kept]]
    BY Zenon
  <2>2. down' = Put(down, id, w) /\ Reply(<<[t |-> "accept", id |-> id, from |-> kept]>>)
    BY <2>1, Zenon DEF StartIncoming
  <2>. HIDE DEF plain, resume, path, node, length, kept
  <2>3. w.src = s /\ ~w.queued /\ w.cancelled = (id \in DOMAIN down /\ down[id].cancelled)
    BY <2>1
  <2>. QED  BY <2>2, <2>3
<1>. PICK m : m = [t |-> "accept", id |-> id, from |-> from]
  OBVIOUS
<1>. PICK ms : ms = <<m>>
  OBVIOUS
<1>3. UNCHANGED <<up, stream, mode, next, mayUp, mayDown>>
  BY DEF Taking
<1>4. ReceiverStep(ms) /\ \A kind, i : Has(ms, kind, i) <=> kind = "accept" /\ i = id
  <2>1. /\ ReceiverStep(<<m>>)
        /\ \A kind, i : Has(<<m>>, kind, i) <=> m.t = kind /\ m.id = i
    BY <1>1, <1>2, <1>3, RepliedStep DEF OfferFirst
  <2>. QED  BY <2>1
<1>5. /\ DOMAIN down' = DOMAIN down \cup {id} /\ down'[id] = w
      /\ \A x \in DOMAIN down : x # id => down'[x] = down[x]
  BY <1>2 DEF Put
<1>6. \A x \in Ids : x # id => (Fresh(x)' => Fresh(x))
  <2>1. /\ \A x : Has(fwd', "offer", x) => Has(fwd, "offer", x)
        /\ next' = next /\ DOMAIN approvals' \subseteq DOMAIN approvals
    BY DEF Taking, FwdKeeps, FwdCarries
  <2>. QED  BY <1>5, <2>1 DEF Fresh
<1>7. OneRow(id, ms)
  BY <1>3, <1>4, <1>5, <1>6 DEF OneRow, OfferFirst
<1>8. ReceiverCalm(ms, id)
  <2>1. Fresh(id) /\ (id \in DOMAIN down => down[id].queued)
    BY <1>1, TakingQueued DEF Taking
  <2>2. Halted(id)' => Halted(id)
    BY <1>2, <1>5, <2>1 DEF Halted
  <2>3. Shut(id) => Shut(id)'
    BY <1>2, <1>5, <2>1 DEF Shut, TakesOf
  <2>4. ~down'[id].queued
    BY <1>2, <1>5
  <2>. QED  BY <1>2, <1>4, <1>5, <2>1, <2>2, <2>3, <2>4 DEF ReceiverCalm
<1>9. \A i \in Ids : ReceiverCalm(ms, i)
  BY <1>7, <1>8, OtherRows
<1>. QED  BY <1>3, <1>4, <1>9, ReceiverEven

LEMMA StartFailsEven ==
    ASSUME Inv, Orders, NEW id \in Ids, Taking(id), StartFails(id), OfferFirst
    PROVE  Even
<1>1. Shape /\ Numbers /\ Rows(down)
  BY DEF Inv, Shape
<1>2. UNCHANGED <<up, stream, mode, next, mayUp, mayDown>>
  BY DEF Taking
<1>. PICK ms : ms = <<[t |-> "reject", id |-> id]>>
  OBVIOUS
<1>3. ReceiverStep(ms) /\ \A kind, i : Has(ms, kind, i) <=> kind = "reject" /\ i = id
  <2>1. PICK m : m = [t |-> "reject", id |-> id]
    OBVIOUS
  <2>3. /\ ReceiverStep(<<m>>)
        /\ \A kind, i : Has(<<m>>, kind, i) <=> m.t = kind /\ m.id = i
    BY <1>1, <1>2, <2>1, RepliedStep DEF StartFails, OfferFirst
  <2>. QED  BY <2>1, <2>3
<1>4. /\ DOMAIN down' = DOMAIN down
      /\ \A x \in DOMAIN down : x # id => down'[x] = down[x]
  BY DEF StartFails
<1>5. id \in DOMAIN down => /\ down'[id].file = None /\ down'[id].queued = down[id].queued
                            /\ down'[id].cancelled = down[id].cancelled /\ down'[id].src = down[id].src
  BY <1>1 DEF StartFails, Rows, RowOk
<1>6. \A x \in Ids : Fresh(x)' => Fresh(x)
  <2>1. /\ \A x : Has(fwd', "offer", x) => Has(fwd, "offer", x)
        /\ next' = next /\ DOMAIN approvals' \subseteq DOMAIN approvals
    BY DEF Taking, FwdKeeps, FwdCarries
  <2>. QED  BY <1>4, <1>5, <2>1 DEF Fresh
<1>7. OneRow(id, ms)
  BY <1>2, <1>3, <1>4, <1>6 DEF OneRow, OfferFirst
<1>8. ReceiverCalm(ms, id)
  <2>1. Fresh(id) /\ (id \in DOMAIN down => down[id].queued)
    BY <1>1, TakingQueued DEF Taking
  <2>2. Halted(id)' => Halted(id)
    BY <1>4, <1>5, <2>1 DEF Halted
  <2>3. Shut(id) => Shut(id)'
    BY <1>4, <1>5, <2>1 DEF Shut, TakesOf
  <2>4. ~Open(id)'
    BY <1>4, <1>5 DEF Open
  <2>. QED  BY <1>3, <1>4, <1>5, <1>6, <2>1, <2>2, <2>3, <2>4 DEF ReceiverCalm
<1>9. \A i \in Ids : ReceiverCalm(ms, i)
  BY <1>7, <1>8, OtherRows
<1>. QED  BY <1>2, <1>3, <1>9, ReceiverEven

LEMMA QueuedEven ==
    ASSUME Inv, Orders, NEW id \in Ids, NEW s \in Sources, Taking(id), OfferFirst, id \notin DOMAIN down,
           down' = Put(down, id, [src |-> s, status |-> "Pending", queued |-> TRUE,
                                  cancelled |-> FALSE, file |-> None]),
           back' = back
    PROVE  Even
<1>1. Shape /\ Numbers /\ Rows(down)
  BY DEF Inv, Shape
<1>2. UNCHANGED <<up, stream, mode, next, mayUp, mayDown>>
  BY DEF Taking
<1>3. ReceiverStep(<<>>)
  BY <1>1, <1>2, SilentStep DEF OfferFirst
<1>. PICK w : w = [src |-> s, status |-> "Pending", queued |-> TRUE, cancelled |-> FALSE, file |-> None]
  OBVIOUS
<1>4. /\ DOMAIN down' = DOMAIN down \cup {id} /\ down'[id] = w
      /\ \A x \in DOMAIN down : x # id => down'[x] = down[x]
  <2>1. down' = Put(down, id, w)
    OBVIOUS
  <2>. QED  BY <2>1 DEF Put
<1>5. \A x \in Ids : Fresh(x)' => Fresh(x)
  <2>1. /\ \A x : Has(fwd', "offer", x) => Has(fwd, "offer", x)
        /\ next' = next /\ DOMAIN approvals' \subseteq DOMAIN approvals /\ Fresh(id)
    BY DEF Taking, FwdKeeps, FwdCarries
  <2>. QED  BY <1>4, <2>1 DEF Fresh
<1>6. OneRow(id, <<>>)
  BY <1>2, <1>4, <1>5, NothingIn DEF OneRow, OfferFirst
<1>7. ReceiverCalm(<<>>, id)
  BY <1>4, <1>5, NothingIn DEF ReceiverCalm, Halted, Shut, Open, TakesOf
<1>8. \A i \in Ids : ReceiverCalm(<<>>, i)
  BY <1>6, <1>7, OtherRows
<1>. QED  BY <1>2, <1>3, <1>8, ReceiverEven

LEMMA AnsweredEven ==
    ASSUME Inv, Orders, NEW id \in Ids, NEW s \in Sources, Taking(id), OfferFirst, id \notin DOMAIN down,
           AcceptIncoming(id, s)
    PROVE  Even
<1>1. CASE StartIncoming(id, s)
  BY <1>1, StartsEven
<1>2. CASE StartFails(id)
  BY <1>2, StartFailsEven
<1>3. CASE /\ down' = Put(down, id, [src |-> s, status |-> "Pending", queued |-> TRUE,
                                     cancelled |-> FALSE, file |-> None])
           /\ UNCHANGED <<back, disk, used>>
  BY <1>3, QueuedEven
<1>. QED  BY <1>1, <1>2, <1>3 DEF AcceptIncoming

\* An offer is refused, by the owner or without asking.
LEMMA RefusedEven ==
    ASSUME Inv, Orders, NEW id \in Ids, Fresh(id), Reply(<<[t |-> "reject", id |-> id]>>),
           UNCHANGED <<up, stream, mode, next, mayUp, mayDown, down>>, OfferFirst,
           DOMAIN approvals' \subseteq DOMAIN approvals
    PROVE  Even
<1>1. Shape
  BY DEF Inv
<1>. PICK ms : ms = <<[t |-> "reject", id |-> id]>>
  OBVIOUS
<1>2. ReceiverStep(ms) /\ \A kind, i : Has(ms, kind, i) <=> kind = "reject" /\ i = id
  <2>1. PICK m : m = [t |-> "reject", id |-> id]
    OBVIOUS
  <2>2. Reply(<<m>>) /\ (fwd' = fwd \/ (fwd # <<>> /\ fwd' = Tail(fwd)))
    BY <2>1 DEF OfferFirst
  <2>3. /\ ReceiverStep(<<m>>)
        /\ \A kind, i : Has(<<m>>, kind, i) <=> m.t = kind /\ m.id = i
    BY <1>1, <2>2, RepliedStep
  <2>. QED  BY <2>1, <2>3
<1>3. \A x \in Ids : Fresh(x)' => Fresh(x)
  <2>1. \A x : Has(fwd', "offer", x) => Has(fwd, "offer", x)
    BY <1>1, TailKeeps DEF OfferFirst, Shape, Sent
  <2>. QED  BY <2>1 DEF Fresh
<1>4. OneRow(id, ms)
  BY <1>2, <1>3 DEF OneRow, OfferFirst
<1>5. ReceiverCalm(ms, id)
  <2>1. Open(id)' => ~down'[id].queued
    BY DEF Orders, Order, Taken1, Open
  <2>. QED  BY <1>2, <1>3, <2>1 DEF ReceiverCalm, Halted, Shut, TakesOf
<1>6. \A i \in Ids : ReceiverCalm(ms, i)
  BY <1>4, <1>5, OtherRows
<1>. QED  BY <1>2, <1>6, ReceiverEven

\* Rows that stay open, closed, queued and cancelled as they were.
SameRows == /\ DOMAIN down' = DOMAIN down
            /\ \A i \in DOMAIN down : /\ down'[i].src = down[i].src /\ down'[i].queued = down[i].queued
                                      /\ down'[i].cancelled = down[i].cancelled
                                      /\ down'[i].file # None => down[i].file # None

\* A step of the receiver that touches no row, or writes, pauses and goes on.
LEMMA SameRowsEven ==
    ASSUME Inv, Orders, NEW ms, ReceiverStep(ms), SameRows, UNCHANGED <<mayUp, mayDown, approvals>>,
           \A i \in Ids, kind \in {"accept", "reject", "cancel", "verified"} : ~Has(ms, kind, i),
           \A i \in Ids : TakesOf(down, i) /\ fwd' # fwd /\ Head(fwd).t = "cancel" /\ Head(fwd).id = i => Spent(i)
    PROVE  Even
<1>1. \A x \in Ids : Fresh(x)' => Fresh(x)
  <2>0. Shape
    BY DEF Inv
  <2>1. IsSeq(fwd) /\ (fwd' = fwd \/ (fwd # <<>> /\ fwd' = Tail(fwd))) /\ next' = next
    BY <2>0 DEF ReceiverStep, Shape, Sent
  <2>2. ASSUME NEW x, Has(fwd', "offer", x) PROVE Has(fwd, "offer", x)
    <3>. PICK r : r = fwd'
      OBVIOUS
    <3>1. CASE r = fwd
      BY <2>2, <3>1
    <3>2. CASE fwd # <<>> /\ r = Tail(fwd)
      <4>1. Has(Tail(fwd), "offer", x)
        BY <2>2, <3>2
      <4>. QED  BY <2>1, <3>2, <4>1, TailKeeps
    <3>. QED  BY <2>1, <3>1, <3>2
  <2>. QED  BY <2>1, <2>2 DEF Fresh, SameRows
<1>2. ASSUME NEW i \in Ids PROVE ReceiverCalm(ms, i)
  <2>1. Open(i)' => ~down'[i].queued
    BY DEF Orders, Order, Taken1, Open, SameRows
  <2>. QED  BY <1>1, <2>1 DEF ReceiverCalm, SameRows, Halted, Shut, TakesOf
<1>. QED  BY <1>2, ReceiverEven

\* A transfer with an open file ends here, and the sender is told.
EndsAs(id, st) == down' = [down EXCEPT ![id].status = st, ![id].file = None]
LEMMA ClosesEven ==
    ASSUME Inv, Orders, NEW id \in Ids, Open(id), NEW st, EndsAs(id, st),
           NEW m, m.t \in {"cancel", "verified"}, m.id = id, Reply(<<m>>),
           fwd # <<>>, fwd' = Tail(fwd), Head(fwd).t # "cancel",
           UNCHANGED <<up, stream, mode, next, mayUp, mayDown, approvals>>
    PROVE  Even
<1>1. Shape /\ Rows(down)
  BY DEF Inv, Shape
<1>. PICK ms : ms = <<m>>
  OBVIOUS
<1>2. ReceiverStep(ms) /\ \A kind, i : Has(ms, kind, i) <=> m.t = kind /\ i = id
  <2>1. /\ ReceiverStep(<<m>>)
        /\ \A kind, i : Has(<<m>>, kind, i) <=> m.t = kind /\ m.id = i
    BY <1>1, RepliedStep
  <2>. QED  BY <2>1
<1>3. /\ DOMAIN down' = DOMAIN down /\ id \in DOMAIN down /\ ~down[id].queued
      /\ \A x \in DOMAIN down : x # id => down'[x] = down[x]
      /\ down'[id].file = None /\ down'[id].queued = down[id].queued
      /\ down'[id].cancelled = down[id].cancelled /\ down'[id].src = down[id].src
  BY <1>1 DEF EndsAs, Rows, RowOk, Open, Orders, Order, Taken1
<1>4. \A x \in Ids : Fresh(x)' => Fresh(x)
  <2>1. \A x : Has(fwd', "offer", x) => Has(fwd, "offer", x)
    BY <1>1, TailKeeps DEF Shape, Sent
  <2>. QED  BY <1>3, <2>1 DEF Fresh
<1>5. OneRow(id, ms)
  BY <1>2, <1>3, <1>4 DEF OneRow
<1>6. ReceiverCalm(ms, id)
  BY <1>2, <1>3, <1>4 DEF ReceiverCalm, Halted, Shut, Open, TakesOf
<1>7. \A i \in Ids : ReceiverCalm(ms, i)
  BY <1>5, <1>6, OtherRows
<1>. QED  BY <1>2, <1>7, ReceiverEven

\* What CancelDown does to a row.
LEMMA CancelledRows ==
    ASSUME Rows(down), NEW S, CancelDown(S)
    PROVE  /\ DOMAIN down' = DOMAIN down
           /\ \A i \in DOMAIN down : i \notin S => down'[i] = down[i]
           /\ \A i \in DOMAIN down \cap S : /\ down'[i].file = None /\ down'[i].cancelled
                                            /\ down'[i].queued = down[i].queued /\ down'[i].src = down[i].src
<1>1. /\ DOMAIN down' = DOMAIN down
      /\ \A i \in DOMAIN down : down'[i] =
            IF i \in S THEN [down[i] EXCEPT !.status = "Cancelled", !.cancelled = TRUE, !.file = None]
                       ELSE down[i]
  BY DEF CancelDown
<1>2. ASSUME NEW i \in DOMAIN down \cap S
      PROVE  /\ down'[i].file = None /\ down'[i].cancelled
             /\ down'[i].queued = down[i].queued /\ down'[i].src = down[i].src
  <2>1. DOMAIN down[i] = {"src", "status", "queued", "cancelled", "file"}
    BY DEF Rows, RowOk
  <2>. QED  BY <1>1, <2>1
<1>. QED  BY <1>1, <1>2

\* Transfers are cancelled at the receiver: by the sender, or before the sender hears of it.
LEMMA CancelsEven ==
    ASSUME Inv, Orders, NEW S, CancelDown(S), NEW ms, ReceiverStep(ms),
           \A i \in Ids, kind \in {"accept", "reject", "verified"} : ~Has(ms, kind, i),
           \A i \in Ids : Has(ms, "cancel", i) => i \in S /\ i \in DOMAIN down,
           \A i \in S \cap Ids : i \in DOMAIN down => ~Lively(i) \/ Barrier(mode, ms, i),
           \A i \in Ids : TakesOf(down, i) /\ fwd' # fwd /\ Head(fwd).t = "cancel" /\ Head(fwd).id = i => i \in S,
           ~mayDown' => ~mayDown \/ \A i \in Ids : TakesOf(down, i) => i \in S,
           UNCHANGED <<mayUp, approvals>>
    PROVE  Even
<1>1. Shape /\ Rows(down)
  BY DEF Inv, Shape
<1>2. /\ DOMAIN down' = DOMAIN down
      /\ \A i \in DOMAIN down : i \notin S => down'[i] = down[i]
      /\ \A i \in DOMAIN down \cap S : /\ down'[i].file = None /\ down'[i].cancelled
                                       /\ down'[i].queued = down[i].queued /\ down'[i].src = down[i].src
  BY <1>1, CancelledRows
<1>3. \A x \in Ids : Fresh(x)' => Fresh(x)
  <2>1. IsSeq(fwd) /\ (fwd' = fwd \/ (fwd # <<>> /\ fwd' = Tail(fwd))) /\ next' = next
    BY <1>1 DEF ReceiverStep, Shape, Sent
  <2>2. \A x : Has(fwd', "offer", x) => Has(fwd, "offer", x)
    BY <2>1, TailKeeps
  <2>3. \A i \in DOMAIN down : down'[i].queued = down[i].queued
    BY <1>2
  <2>. QED  BY <1>2, <2>1, <2>2, <2>3 DEF Fresh
<1>4. ASSUME NEW i \in Ids, i \notin S PROVE ReceiverCalm(ms, i)
  <2>1. i \in DOMAIN down' <=> i \in DOMAIN down
    BY <1>2
  <2>2. i \in DOMAIN down => down'[i] = down[i]
    BY <1>2, <1>4
  <2>3. /\ Shut(i)' <=> Shut(i)
        /\ Halted(i)' <=> Halted(i)
        /\ Open(i)' <=> Open(i)
        /\ TakesOf(down', i) <=> TakesOf(down, i)
    BY <2>1, <2>2 DEF Shut, Halted, Open, TakesOf
  <2>4. Open(i)' => ~down'[i].queued
    BY <2>2, <2>3 DEF Orders, Order, Taken1, Open
  <2>. QED  BY <1>3, <1>4, <2>1, <2>2, <2>3, <2>4 DEF ReceiverCalm
<1>5. ASSUME NEW i \in Ids, i \in S PROVE ReceiverCalm(ms, i)
  <2>1. i \in DOMAIN down => /\ down'[i].file = None /\ down'[i].cancelled
                             /\ down'[i].queued = down[i].queued /\ down'[i].src = down[i].src
    BY <1>2, <1>5
  <2>2. ~Open(i)' /\ ~TakesOf(down', i)
    BY <1>2, <2>1 DEF Open, TakesOf
  <2>3. i \in DOMAIN down => Shut(i)'
    BY <1>2, <2>1, <2>2 DEF Shut
  <2>4. Halted(i)' => Fresh(i) /\ (~Lively(i) \/ Barrier(mode, ms, i))
    BY <1>2, <1>5, <2>1 DEF Halted, Fresh
  <2>5. Shut(i) => Shut(i)'
    BY <2>3 DEF Shut
  <2>. QED  BY <1>2, <1>3, <2>1, <2>2, <2>3, <2>4, <2>5 DEF ReceiverCalm
<1>. QED  BY <1>4, <1>5, ReceiverEven

\* The permission of the receiver changes, or it hears that it did.
LEMMA AllowedDownEven ==
    ASSUME Inv, Orders, NEW on \in BOOLEAN, NEW told, IsSeq(told),
           \/ told = <<>> /\ mode = "download"
           \/ told = <<[t |-> "perm", on |-> on]>>,
           SetAllowedDown(on, told),
           fwd' = fwd \/ (fwd # <<>> /\ fwd' = Tail(fwd) /\ Head(fwd).t = "perm"),
           UNCHANGED <<up, stream, mode, next, mayUp, approvals>>
    PROVE  Even
<1>1. Shape /\ Rows(down)
  BY DEF Inv, Shape
<1>2. PICK ids : /\ ids = (IF on THEN {} ELSE With(Running, down))
                 /\ mayDown' = on /\ CancelDown(ids) /\ Reply(Cancels(ids) \o told)
  BY DEF SetAllowedDown
<1>3. IsFiniteSet(ids)
  BY <1>1, <1>2, RunningFinite, FS_EmptySet
<1>4. PICK ms : ms = Cancels(ids) \o told
  OBVIOUS
<1>5. IsSeq(ms) /\ \A kind, i : Has(ms, kind, i) <=> (kind = "cancel" /\ i \in ids) \/ Has(told, kind, i)
  BY <1>3, <1>4, CancelsAndHas
<1>6. \A kind, i : Has(told, kind, i) => kind = "perm"
  <2>1. CASE told = <<>>
    BY <2>1, NothingIn
  <2>2. CASE told = <<[t |-> "perm", on |-> on]>>
    <3>1. Len(told) = 1 /\ told[1] = [t |-> "perm", on |-> on]
      BY <2>2, SingleOf
    <3>. QED  BY <3>1 DEF Has
  <2>. QED  BY <2>1, <2>2
<1>7. ReceiverStep(ms)
  BY <1>2, <1>4, <1>5 DEF ReceiverStep, Reply
<1>8. ASSUME NEW i \in ids \cap Ids PROVE Barrier(mode, ms, i)
  <2>1. ~on
    BY <1>2
  <2>2. \A k \in 1..Len(ms) : ~(ms[k].t = "accept" /\ ms[k].id = i)
    <3>1. ~Has(ms, "accept", i)
      BY <1>5, <1>6
    <3>. QED  BY <3>1 DEF Has
  <2>3. Len(ms) \in Nat
    BY <1>5, LenOf
  <2>4. ASSUME NEW k \in 1..Len(ms), Bars(mode, ms[k], i) PROVE Barrier(mode, ms, i)
    <3>1. \A j \in 1..(k - 1) : j \in 1..Len(ms)
      BY <2>3
    <3>. QED  BY <2>2, <2>4, <3>1 DEF Barrier
  <2>5. CASE mode = "download"
    <3>0. Has(ms, "cancel", i)
      BY <1>5
    <3>1. PICK k \in 1..Len(ms) : ms[k].t = "cancel" /\ ms[k].id = i
      BY <3>0 DEF Has
    <3>. QED  BY <2>4, <2>5, <3>1 DEF Bars
  <2>6. CASE mode # "download"
    <3>1. Len(told) = 1 /\ told[1] = [t |-> "perm", on |-> on]
      BY <2>6, SingleOf
    <3>2. Concat(Cancels(ids), told, ms) /\ Len(Cancels(ids)) \in Nat
      BY <1>3, <1>4, <3>1, CancelsOf, ConcatOf, LenOf
    <3>3. PICK k : k = Len(Cancels(ids)) + 1
      OBVIOUS
    <3>4. k \in 1..Len(ms) /\ ms[k] = told[1]
      BY <3>1, <3>2, <3>3 DEF Concat
    <3>5. Bars(mode, ms[k], i)
      BY <2>1, <3>1, <3>4 DEF Bars
    <3>. QED  BY <2>4, <3>4, <3>5
  <2>. QED  BY <2>5, <2>6
<1>9. \A i : Has(ms, "cancel", i) => i \in ids /\ i \in DOMAIN down
  BY <1>2, <1>5, <1>6 DEF With
<1>10. ~mayDown' => \A i \in Ids : TakesOf(down, i) => i \in ids
  BY <1>1, <1>2 DEF TakesOf, Rows, RowOk, With, Running
<1>11. fwd' # fwd => Head(fwd).t # "cancel"
  OBVIOUS
<1>. QED  BY <1>2, <1>5, <1>6, <1>7, <1>8, <1>9, <1>10, <1>11, CancelsEven

\* The hash of a transfer that is not open, or any message without the permission, is dropped.
LEMMA DroppedEven ==
    ASSUME Inv, Orders, fwd # <<>>, fwd' = Tail(fwd), UNCHANGED <<up, stream, mode, next, mayUp, mayDown>>,
           UNCHANGED <<down, approvals, back>>, Head(fwd).t = "cancel" => ~mayDown
    PROVE  Even
<1>1. ReceiverStep(<<>>)
  BY SilentStep DEF Inv
<1>2. ASSUME NEW i \in Ids, TakesOf(down, i), Head(fwd).t = "cancel", Head(fwd).id = i PROVE Spent(i)
  <2>1. IsSeq(fwd)
    BY DEF Inv, Shape, Sent
  <2>2. Has(fwd, "cancel", i)
    BY <1>2, <2>1, HeadHas
  <2>3. stream[i].pc = "none"
    BY <1>2 DEF Inv, Perms, Idle
  <2>. QED  BY <1>2, <2>2, <2>3 DEF Orders, Order, Sending1, Taken1, Spent
<1>3. SameRows
  BY DEF SameRows
<1>. QED  BY <1>1, <1>2, <1>3, NothingIn, SameRowsEven

LEMMA OnFwdEven ==
    ASSUME Inv, Orders, OnFwd
    PROVE  Even
<1>. PICK m : m = Head(fwd)
  OBVIOUS
<1>1. /\ Shape /\ Numbers /\ Perms /\ fwd # <<>> /\ fwd' = Tail(fwd) /\ ~starting
      /\ Sent(fwd, "offer") /\ IsSeq(fwd) /\ Rows(down) /\ Asked(approvals)
      /\ UNCHANGED <<up, stream, mode, next>>
  BY DEF Inv, OnFwd, Shape, manager, Sent
<1>2. /\ Sound(m) /\ Has(fwd, m.t, m.id)
      /\ mode # "download" => m.t # "perm"
      /\ m.t = "offer" => ~Has(fwd', "offer", m.id)
      /\ FwdKeeps(fwd, fwd') /\ \A id : ~Chunk(m, id) => ChunksKept(fwd, fwd', id)
  BY <1>1, FwdTail DEF Perms
<1>3. CASE /\ m.t = "perm" /\ SetAllowedDown(m.on, <<>>)
           /\ UNCHANGED <<approvals, starting, mayUp, disk, used>>
  <2>1. mode = "download" /\ m.on \in BOOLEAN /\ IsSeq(<<>>)
    BY <1>2, <1>3, EmptyOf DEF Sound
  <2>. QED  BY <1>1, <1>3, <2>1, AllowedDownEven
<1>4. CASE /\ m.t # "perm" /\ m.t # "offer" /\ ~mayDown
           /\ UNCHANGED <<down, approvals, starting, perms, back, disk, used>>
  BY <1>1, <1>4, DroppedEven DEF perms
<1>5. CASE m.t = "offer" /\ OnOffer(m) /\ UNCHANGED <<starting, perms>>
  <2>1. /\ UNCHANGED <<starting, mayUp, mayDown>> /\ m.id \in Ids /\ m.src \in Sources
        /\ \A x : ChunksKept(fwd, fwd', x)
    BY <1>2, <1>5 DEF perms, Sound, Chunk
  <2>2. m.id < next /\ m.id \notin DOMAIN approvals /\ m.id \notin DOMAIN down /\ Fresh(m.id) /\ OfferFirst
    BY <1>1, <1>2, <1>5 DEF Numbers, Fresh, OfferFirst
  <2>3. CASE /\ Reply(<<[t |-> "reject", id |-> m.id]>>)
             /\ UNCHANGED <<down, approvals, disk, used>>
    BY <1>1, <2>1, <2>2, <2>3, RefusedEven
  <2>4. CASE /\ approvals' = Put(approvals, m.id, m.src)
             /\ UNCHANGED <<down, back, disk, used>>
    <3>1. \A x : Has(fwd', "offer", x) => Has(fwd, "offer", x)
      BY <1>1, TailKeeps
    <3>2. DOMAIN approvals' = DOMAIN approvals \cup {m.id}
      BY <2>4 DEF Put
    <3>3. \A x \in Ids : Fresh(x)' => Fresh(x)
      BY <1>1, <2>2, <2>4, <3>1, <3>2 DEF Fresh
    <3>4. ReceiverStep(<<>>)
      BY <1>1, <2>4, SilentStep
    <3>5. OneRow(m.id, <<>>)
      BY <1>5, <2>1, <2>4, <3>3, NothingIn DEF OneRow
    <3>6. ReceiverCalm(<<>>, m.id)
      BY <2>1, <2>2, <2>4, <3>3, NothingIn DEF ReceiverCalm, Halted, Shut, Open, TakesOf
    <3>7. \A i \in Ids : ReceiverCalm(<<>>, i)
      BY <2>1, <3>5, <3>6, OtherRows
    <3>. QED  BY <2>1, <3>4, <3>7, ReceiverEven
  <2>5. CASE mayDown /\ AcceptIncoming(m.id, m.src) /\ UNCHANGED approvals
    <3>1. Taking(m.id)
      BY <1>1, <1>2, <1>5, <2>1, <2>2, <2>5 DEF Taking
    <3>. QED  BY <2>1, <2>2, <2>5, <3>1, AnsweredEven
  <2>. QED  BY <1>5, <2>3, <2>4, <2>5 DEF OnOffer
<1>6. CASE /\ m.t = "chunk" /\ mayDown /\ OnChunk(m)
           /\ UNCHANGED <<approvals, starting, perms, parts, targets>>
  <2>1. UNCHANGED <<approvals, mayUp, mayDown>>
    BY <1>6 DEF perms
  <2>2. CASE ~Takes(m.id)
    <3>1. UNCHANGED <<down, back>>
      BY <1>6, <2>2 DEF OnChunk
    <3>. QED  BY <1>1, <1>6, <2>1, <3>1, DroppedEven
  <2>3. CASE Takes(m.id) /\ FailChunk(m.id)
    <3>. PICK id, c : id = m.id /\ c = [t |-> "cancel", id |-> id]
      OBVIOUS
    <3>1. id \in Ids /\ Open(id)
      BY <1>1, <2>3 DEF Takes, Open, Rows
    <3>2. EndsAs(id, "Failed") /\ Reply(<<c>>)
      BY <2>3 DEF FailChunk, EndsAs
    <3>3. c.t \in {"cancel", "verified"} /\ c.id = id
      OBVIOUS
    <3>4. /\ fwd # <<>> /\ fwd' = Tail(fwd) /\ Head(fwd).t # "cancel"
          /\ UNCHANGED <<up, stream, mode, next, mayUp, mayDown, approvals>>
      BY <1>1, <1>6, <2>1
    <3>. QED  BY <3>1, <3>2, <3>3, <3>4, ClosesEven
  <2>4. CASE /\ Takes(m.id)
             /\ down' = [down EXCEPT ![m.id].file.received = @ + 1]
             /\ UNCHANGED back
    <3>. PICK id : id = m.id
      OBVIOUS
    <3>0. /\ id \in DOMAIN down /\ RowOk(down[id]) /\ down[id].file # None
          /\ DOMAIN down[id].file = {"node", "path", "received"}
      BY <1>1, <2>4 DEF Rows, Takes, RowOk
    <3>. PICK g : g = [down[id].file EXCEPT !.received = down[id].file.received + 1]
      OBVIOUS
    <3>1. down' = [down EXCEPT ![id].file = g]
      BY <2>4, <3>0 DEF RowOk
    <3>3. SameRows
      <4>1. /\ DOMAIN down' = DOMAIN down /\ \A x \in DOMAIN down : x # id => down'[x] = down[x]
            /\ down'[id] = [down[id] EXCEPT !.file = g]
        BY <3>0, <3>1
      <4>2. /\ down'[id].src = down[id].src /\ down'[id].queued = down[id].queued
            /\ down'[id].cancelled = down[id].cancelled /\ down'[id].file = g
        BY <3>0, <4>1 DEF RowOk
      <4>. QED  BY <3>0, <4>1, <4>2 DEF SameRows
    <3>4. ReceiverStep(<<>>)
      BY <1>1, <2>4, SilentStep
    <3>. QED  BY <1>6, <2>1, <3>3, <3>4, NothingIn, SameRowsEven
  <2>. QED  BY <1>6, <2>2, <2>3, <2>4 DEF OnChunk
<1>7. CASE m.t = "done" /\ mayDown /\ OnDone(m) /\ UNCHANGED <<approvals, perms, inodes, used>>
  <2>1. UNCHANGED <<approvals, mayUp, mayDown>>
    BY <1>7 DEF perms
  <2>2. CASE ~Open(m.id)
    <3>1. UNCHANGED <<down, back>>
      BY <1>7, <2>2 DEF OnDone, Open
    <3>. QED  BY <1>1, <1>7, <2>1, <3>1, DroppedEven
  <2>3. CASE Open(m.id)
    <3>1. PICK id, ok : id = m.id /\ ok = Finish(down[m.id].file, SizeOf[down[m.id].src], m.hash)
      OBVIOUS
    <3>2. PICK st, c : st = (IF ok THEN "Completed" ELSE "Failed") /\ c = [t |-> "verified", id |-> id, ok |-> ok]
      OBVIOUS
    <3>3. id \in Ids /\ Open(id) /\ id \in DOMAIN down /\ RowOk(down[id])
      BY <1>1, <2>3, <3>1 DEF Open, Rows
    <3>4. down' = [down EXCEPT ![id].file = None, ![id].status = st] /\ Reply(<<c>>)
      BY <1>7, <2>3, <3>1, <3>2 DEF OnDone, Open
    <3>5. EndsAs(id, st)
      <4>1. [[down[id] EXCEPT !.file = None] EXCEPT !.status = st]
              = [[down[id] EXCEPT !.status = st] EXCEPT !.file = None]
        BY <3>3 DEF RowOk
      <4>. QED  BY <3>3, <3>4, <4>1 DEF EndsAs
    <3>6. c.t \in {"cancel", "verified"} /\ c.id = id /\ Reply(<<c>>)
      BY <3>2, <3>4
    <3>7. /\ fwd # <<>> /\ fwd' = Tail(fwd) /\ Head(fwd).t # "cancel"
          /\ UNCHANGED <<up, stream, mode, next, mayUp, mayDown, approvals>>
      BY <1>1, <1>7, <2>1
    <3>. QED  BY <3>3, <3>5, <3>6, <3>7, ClosesEven
  <2>. QED  BY <2>2, <2>3
<1>8. CASE /\ m.t = "cancel" /\ mayDown /\ CancelDown({m.id})
           /\ UNCHANGED <<approvals, starting, perms, back, disk, used>>
  <2>1. UNCHANGED <<approvals, mayUp, mayDown, back>>
    BY <1>8 DEF perms
  <2>2. ReceiverStep(<<>>)
    BY <1>1, <2>1, SilentStep
  <2>3. \A i \in {m.id} \cap Ids : ~Lively(i)
    BY <1>2, <1>8 DEF Orders, Order, Sending1
  <2>. QED  BY <1>8, <2>1, <2>2, <2>3, NothingIn, CancelsEven
<1>9. CASE /\ m.t = "reject" /\ mayDown
           /\ UNCHANGED <<down, approvals, starting, perms, back, disk, used>>
  BY <1>1, <1>9, DroppedEven DEF perms
<1>. QED  BY <1>3, <1>4, <1>5, <1>6, <1>7, <1>8, <1>9 DEF OnFwd

LEMMA RespondEven ==
    ASSUME Inv, Orders, NEW id \in Ids, NEW accept, Respond(id, accept)
    PROVE  Even
<1>1. Shape /\ Numbers /\ Perms /\ Asked(approvals)
  BY DEF Inv, Shape
<1>2. /\ id \in DOMAIN approvals /\ ~starting
      /\ approvals' = [x \in DOMAIN approvals \ {id} |-> approvals[x]]
      /\ UNCHANGED <<up, stream, starting, mayUp, mayDown, fwd, mode, next>>
  BY DEF Respond, manager, perms
<1>3. /\ Asked(approvals') /\ DOMAIN approvals' = DOMAIN approvals \ {id} /\ approvals[id] \in Sources
      /\ id \notin DOMAIN down /\ OfferFirst /\ Fresh(id)
  BY <1>1, <1>2 DEF Asked, Numbers, OfferFirst, Fresh
<1>4. FwdKeeps(fwd, fwd') /\ \A x : ChunksKept(fwd, fwd', x)
  BY <1>1, <1>2, FwdStays
<1>5. CASE AcceptIncoming(id, approvals[id])
  <2>1. id < next /\ ~Has(fwd', "offer", id)
    BY <1>1, <1>2 DEF Numbers
  <2>2. mode # "ask" => mayDown
    BY <1>1, <1>2 DEF Perms
  <2>3. Taking(id)
    BY <1>2, <1>3, <1>4, <2>1, <2>2 DEF Taking
  <2>. QED  BY <1>3, <1>5, <2>3, AnsweredEven
<1>6. CASE Reply(<<[t |-> "reject", id |-> id]>>) /\ UNCHANGED <<down, disk, used>>
  BY <1>2, <1>3, <1>6, RefusedEven
<1>. QED  BY <1>5, <1>6 DEF Respond

LEMMA StartQueuedEven ==
    ASSUME Inv, Orders, StartQueued
    PROVE  Even
<1>1. Shape /\ Numbers /\ Perms /\ Rows(down) /\ Asked(approvals)
  BY DEF Inv, Shape
<1>2. starting /\ UNCHANGED <<up, stream, approvals, mayUp, mayDown, fwd, mode, next>>
  BY DEF StartQueued, manager, perms
<1>3. FwdKeeps(fwd, fwd') /\ (\A x : ChunksKept(fwd, fwd', x)) /\ mayDown /\ OfferFirst
  BY <1>1, <1>2, FwdStays DEF Perms, OfferFirst
<1>4. ASSUME NEW id \in DOMAIN down, down[id].queued,
             StartIncoming(id, down[id].src) \/ StartFails(id)
      PROVE  Even
  <2>1. id \in Ids /\ down[id].src \in Sources
    BY <1>1 DEF Rows, RowOk
  <2>2. id < next /\ ~Has(fwd', "offer", id) /\ Fresh(id) /\ id \notin DOMAIN approvals
    BY <1>1, <1>2, <1>4 DEF Numbers, Fresh
  <2>3. Taking(id)
    BY <1>1, <1>2, <1>3, <2>2 DEF Taking
  <2>4. PICK s \in Sources : s = down[id].src
    BY <2>1
  <2>. QED  BY <1>3, <1>4, <2>1, <2>3, <2>4, StartsEven, StartFailsEven
<1>5. CASE UNCHANGED <<down, back, disk, used>>
  BY <1>2, <1>5, NothingEven
<1>. QED  BY <1>4, <1>5 DEF StartQueued

LEMMA DownloadEven ==
    ASSUME Inv, Orders, NEW s \in Sources, Download(s)
    PROVE  Even
<1>. PICK m : m = [t |-> "fetch", id |-> 0, src |-> s]
  OBVIOUS
<1>1. /\ UNCHANGED <<up, stream, down, approvals, mayUp, mayDown, fwd, mode, next>>
      /\ Reply(<<m>>) /\ m.t = "fetch"
  BY DEF Download, manager, perms, disk, world
<1>2. PICK ms : ms = <<m>>
  OBVIOUS
<1>3. ReceiverStep(ms) /\ \A kind, i : Has(ms, kind, i) <=> m.t = kind /\ m.id = i
  BY <1>1, <1>2, RepliedStep DEF Inv
<1>4. SameRows
  BY <1>1 DEF SameRows
<1>. QED  BY <1>1, <1>3, <1>4, SameRowsEven

-----------------------------------------------------------------------------
LEMMA TogglesEven ==
    ASSUME Inv, Orders, NEW id \in Ids, ViewerPauses(id) \/ ViewerResumes(id),
           UNCHANGED <<fwd, back, stream, approvals, mayUp, mayDown, mode, next>>
    PROVE  Even
<1>1. Shape /\ Rows(down) /\ Uploads(up)
  BY DEF Inv, Shape
<1>2. CASE mode = "download"
  <2>1. PICK st : id \in DOMAIN down /\ down' = [down EXCEPT ![id].status = st] /\ up' = up
    <3>1. CASE ViewerPauses(id)
      BY <1>2, <3>1 DEF ViewerPauses, With
    <3>2. CASE ViewerResumes(id)
      BY <1>2, <3>2 DEF ViewerResumes, With
    <3>. QED  BY <3>1, <3>2
  <2>2. /\ DOMAIN down' = DOMAIN down /\ RowOk(down[id])
        /\ \A x \in DOMAIN down : x # id => down'[x] = down[x]
        /\ down'[id] = [down[id] EXCEPT !.status = st]
    BY <1>1, <2>1 DEF Rows
  <2>3. /\ down'[id].src = down[id].src /\ down'[id].queued = down[id].queued
        /\ down'[id].cancelled = down[id].cancelled /\ down'[id].file = down[id].file
    BY <2>2 DEF RowOk
  <2>4. SameRows
    BY <2>2, <2>3 DEF SameRows
  <2>5. ReceiverStep(<<>>)
    BY <1>1, <2>1, SilentStep
  <2>. QED  BY <2>4, <2>5, NothingIn, SameRowsEven
<1>3. CASE mode # "download"
  <2>1. PICK st : id \in DOMAIN up /\ up[id].status \in {"Active", "Paused"} /\ up' = [up EXCEPT ![id].status = st] /\ down' = down
    <3>1. CASE ViewerPauses(id)
      BY <1>3, <3>1 DEF ViewerPauses, With
    <3>2. CASE ViewerResumes(id)
      BY <1>3, <3>2 DEF ViewerResumes, With
    <3>. QED  BY <3>1, <3>2
  <2>2. /\ \A i : i \in DOMAIN up' => i \in DOMAIN up /\ up'[i].src = up[i].src
        /\ \A i : i # id => (Lively(i)' <=> Lively(i))
    BY <1>1, <2>1, LivelySet
  <2>3. Lively(id) /\ Lively(id)'
    <3>1. Lively(id)
      BY <2>1 DEF Lively, With, Running
    <3>2. PICK st2 \in Running : up' = [up EXCEPT ![id].status = st2]
      <4>1. CASE ViewerPauses(id)
        BY <1>3, <4>1 DEF ViewerPauses, Running
      <4>2. CASE ViewerResumes(id)
        BY <1>3, <4>2 DEF ViewerResumes, Running
      <4>. QED  BY <4>1, <4>2
    <3>3. Lively(id)'
      BY <1>1, <2>1, <3>2, LivelySet
    <3>. QED  BY <3>1, <3>3
  <2>4. \A i : Lively(i)' <=> Lively(i)
    BY <2>2, <2>3
  <2>5. SenderStep(<<>>)
    BY <2>1, SameStep DEF Inv, Shape
  <2>6. ASSUME NEW i \in Ids PROVE SenderCalm(<<>>, i)
    BY <2>1, <2>2, <2>4, NothingIn DEF SenderCalm
  <2>7. NothingOff'
    BY <1>3 DEF NothingOff
  <2>. QED  BY <2>5, <2>6, <2>7, NothingIn, SenderAllEven
<1>. QED  BY <1>2, <1>3

LEMMA ViewerCancelsEven ==
    ASSUME Inv, Orders, NEW id \in Ids, ViewerCancels(id),
           UNCHANGED <<stream, approvals, mayUp, mayDown, mode, next>>
    PROVE  Even
<1>0. Shape
  BY DEF Inv
<1>1. Shape /\ Rows(down) /\ Uploads(up) /\ IsSeq(fwd) /\ IsSeq(back)
  BY <1>0 DEF Shape, Sent
<1>. PICK c : c = Cancels({id})
  OBVIOUS
<1>2. IsSeq(c) /\ \A k \in 1..Len(c) : c[k].t = "cancel"
  BY FS_Singleton, CancelsOf
<1>3. \A kind, i : Has(c, kind, i) <=> kind = "cancel" /\ i = id
  <2>. PICK S : S = {id}
    OBVIOUS
  <2>1. IsFiniteSet(S) /\ c = Cancels(S)
    BY FS_Singleton
  <2>2. \A kind, i : Has(c, kind, i) <=> kind = "cancel" /\ i \in S
    BY <2>1, CancelsHas
  <2>. QED  BY <2>2
<1>4. CASE mode = "download"
  <2>1. CancelDown({id}) /\ back' = back \o c /\ UNCHANGED <<up, fwd>>
    BY <1>4 DEF ViewerCancels, Reply
  <2>2. ReceiverStep(c)
    BY <1>2, <2>1 DEF ReceiverStep
  <2>3. Barrier(mode, c, id)
    <3>1. PICK k \in 1..Len(c) : c[k].t = "cancel" /\ c[k].id = id
      BY <1>3 DEF Has
    <3>2. \A j \in 1..(k - 1) : j \in 1..Len(c)
      BY <1>2, <3>1, LenOf
    <3>3. \A j \in 1..(k - 1) : c[j].t # "accept"
      BY <1>2, <3>2
    <3>. QED  BY <1>4, <3>1, <3>3 DEF Barrier, Bars
  <2>4. id \in DOMAIN down
    BY <1>4 DEF ViewerCancels, With
  <2>5. /\ \A i \in Ids, kind \in {"accept", "reject", "verified"} : ~Has(c, kind, i)
        /\ \A i \in Ids : Has(c, "cancel", i) => i \in {id} /\ i \in DOMAIN down
        /\ \A i \in {id} \cap Ids : i \in DOMAIN down => ~Lively(i) \/ Barrier(mode, c, i)
    BY <1>3, <2>3, <2>4
  <2>6. CancelDown({id}) /\ fwd' = fwd /\ mayDown' = mayDown /\ UNCHANGED <<mayUp, approvals>>
    BY <2>1
  <2>. QED  BY <2>2, <2>5, <2>6, CancelsEven
<1>5. CASE mode # "download"
  <2>1. CancelUp({id}) /\ Tell(c) /\ UNCHANGED <<down, back, stream>> /\ id \in DOMAIN up
    BY <1>5 DEF ViewerCancels, With
  <2>2. /\ \A i : i \in DOMAIN up' => i \in DOMAIN up /\ up'[i].src = up[i].src
        /\ \A i : Lively(i)' <=> Lively(i) /\ i \notin {id}
    BY <1>1, <2>1, LivelyCancelled
  <2>3. SenderStep(c)
    <3>1. Inserted(fwd, c, fwd')
      BY <1>1, <1>2, <2>1, OvertakingInserts DEF Tell
    <3>. QED  BY <1>1, <1>2, <2>1, <3>1 DEF SenderStep, Shape
  <2>4. id < next
    BY <2>1 DEF Orders, Order, Sending1
  <2>5. ASSUME NEW i \in Ids PROVE SenderCalm(c, i)
    <3>1. /\ \A kind \in {"offer", "chunk", "done"} : ~Has(c, kind, i)
          /\ Has(c, "cancel", i) <=> i = id
      BY <1>3
    <3>2. Lively(i)' => i \in DOMAIN up'
      BY DEF Lively, With
    <3>3. UNCHANGED <<back, stream>>
      BY <2>1
    <3>. QED  BY <2>2, <2>4, <3>1, <3>2, <3>3 DEF SenderCalm
  <2>6. NothingOff'
    BY <1>5 DEF NothingOff
  <2>. QED  BY <1>3, <2>3, <2>5, <2>6, SenderAllEven
<1>. QED  BY <1>4, <1>5

LEMMA ViewerEven ==
    ASSUME Inv, Orders, NEW id \in Ids, Viewer(id)
    PROVE  Even
<1>1. UNCHANGED <<stream, approvals, mayUp, mayDown, mode, next>>
  BY DEF Viewer, perms, world
<1>. QED  BY <1>1, TogglesEven, ViewerCancelsEven DEF Viewer

LEMMA SetPermissionEven ==
    ASSUME Inv, Orders, NEW on \in BOOLEAN, SetPermission(on)
    PROVE  Even
<1>. PICK m : m = [t |-> "perm", on |-> on]
  OBVIOUS
<1>. PICK told : told = <<m>>
  OBVIOUS
<1>1. UNCHANGED <<stream, approvals, mode, next>>
  BY DEF SetPermission
<1>2. IsSeq(told) /\ \A kind, i : Has(told, kind, i) <=> m.t = kind /\ m.id = i
  BY OneIn
<1>3. m.t = "perm"
  OBVIOUS
<1>4. CASE mode = "download"
  <2>1. SetAllowedUp(on, told) /\ UNCHANGED <<down, mayDown, back>>
    BY <1>4 DEF SetPermission
  <2>. QED  BY <1>1, <1>2, <1>3, <2>1, AllowedUpEven
<1>5. CASE mode # "download"
  <2>1. SetAllowedDown(on, told) /\ UNCHANGED <<up, mayUp, fwd>>
    BY <1>5 DEF SetPermission
  <2>. QED  BY <1>1, <1>2, <2>1, AllowedDownEven
<1>. QED  BY <1>4, <1>5

-----------------------------------------------------------------------------
(* Every step *)

\* A source is offered under a new id: sent, retried, or asked for.
OneMore(s, tbl) ==
    /\ Offer(s, tbl) /\ (mode = "download" => mayUp)
    /\ DOMAIN tbl \subseteq DOMAIN up /\ \A i \in DOMAIN tbl : tbl[i] = up[i]
    /\ \A i \in DOMAIN up \ DOMAIN tbl : ~Lively(i)
    /\ \/ back' = back /\ mode # "download" /\ (Careful => ~Sending(NameOf[s]))
       \/ back # <<>> /\ back' = Tail(back) /\ Head(back).t = "fetch" /\ Head(back).src = s

\* Every other step of a session.
Ordinary ==
    \/ \E s \in Sources : Download(s) \/ EditSource(s)
    \/ \E id \in Ids : Viewer(id) \/ Respond(id, TRUE) \/ Respond(id, FALSE)
    \/ \E id \in Ids : StreamRead(id) \/ StreamResume(id) \/ StreamFails(id) \/ StreamSend(id)
    \/ OnFwd \/ StartQueued \/ WindowCloses
    \/ OnBack /\ ~(Head(back).t = "fetch" /\ mayUp)
    \/ \E on \in BOOLEAN : SetPermission(on)
    \/ UNCHANGED vars

LEMMA EveryStep ==
    ASSUME Inv, [Next]_vars
    PROVE  Ordinary \/ Reconnect \/ \E s \in Sources : \E tbl : OneMore(s, tbl)
<1>1. Shape /\ Uploads(up)
  BY DEF Inv, Shape
<1>2. ASSUME NEW s \in Sources, SendPaths(s)
      PROVE  OneMore(s, up)
  BY <1>1, <1>2 DEF SendPaths, OneMore
<1>3. ASSUME NEW id \in Ids, Retry(id)
      PROVE  \E s \in Sources : \E tbl : OneMore(s, tbl)
  <2>. PICK tbl, s : tbl = [x \in DOMAIN up \ {id} |-> up[x]] /\ s = up[id].src
    OBVIOUS
  <2>1. id \in DOMAIN up /\ s \in Sources /\ ~Lively(id) /\ mode # "download"
    BY <1>1, <1>3 DEF Retry, With, Lively, Running, Uploads
  <2>2. DOMAIN tbl \subseteq DOMAIN up /\ (\A i \in DOMAIN tbl : tbl[i] = up[i]) /\ DOMAIN up \ DOMAIN tbl = {id}
    BY <2>1
  <2>3. Offer(s, tbl) /\ (Careful => ~Sending(NameOf[s])) /\ back' = back
    BY <1>3 DEF Retry
  <2>4. OneMore(s, tbl)
    BY <2>1, <2>2, <2>3 DEF OneMore
  <2>. QED  BY <2>1, <2>4
<1>4. CASE OnBack /\ Head(back).t = "fetch" /\ mayUp
  <2>1. /\ Offer(Head(back).src, up) /\ back # <<>> /\ back' = Tail(back)
    BY <1>4 DEF OnBack
  <2>2. Sound(Head(back))
    <3>1. Sent(back, "accept") /\ back # <<>>
      BY <1>1, <2>1 DEF Shape
    <3>2. PICK u : u = IF Head(back).t = "perm" THEN Head(back).on ELSE FALSE
      OBVIOUS
    <3>. QED  BY <3>1, <3>2, BackTail
  <2>3. PICK s \in Sources : s = Head(back).src
    BY <1>4, <2>2 DEF Sound
  <2>. QED  BY <1>4, <2>1, <2>3 DEF OneMore
<1>. QED  BY <1>2, <1>3, <1>4 DEF Next, Ordinary

LEMMA OrdinaryEven ==
    ASSUME Inv, Orders, Ordinary
    PROVE  Even
<1>1. CASE \E s \in Sources : EditSource(s)
  BY <1>1, NothingEven DEF EditSource, manager, receiver, perms
<1>2. CASE WindowCloses
  BY <1>2, NothingEven DEF WindowCloses, manager, perms, world
<1>3. CASE UNCHANGED vars
  BY <1>3, NothingEven DEF vars
<1>. QED  BY <1>1, <1>2, <1>3, DownloadEven, ViewerEven, RespondEven, StreamsEven, StreamSendEven, OnFwdEven,
             StartQueuedEven, OnBackEven, SetPermissionEven DEF Ordinary

-----------------------------------------------------------------------------
(* The theorems *)

LEMMA InvInit == Init => Inv
<1>1. Init => New /\ Stored
  BY EmptyOf DEF Init, New, Stored
<1>. QED  BY <1>1, NewSession

LEMMA InvNext == Inv /\ [Next]_vars => Inv'
<1>. SUFFICES ASSUME Inv, [Next]_vars PROVE Inv'
  OBVIOUS
<1>1. CASE \E s \in Sources : SendPaths(s) \/ Download(s) \/ EditSource(s)
  <2>1. PICK s \in Sources : SendPaths(s) \/ Download(s) \/ EditSource(s)
    BY <1>1
  <2>2. CASE EditSource(s)
    BY <2>2, NothingHere DEF EditSource, manager, receiver, perms, disk
  <2>. QED  BY <2>1, <2>2, SendPathsKeeps, DownloadKeeps
<1>2. CASE \E id \in Ids : Retry(id) \/ Viewer(id) \/ Respond(id, TRUE) \/ Respond(id, FALSE)
  BY <1>2, RetryKeeps, ViewerKeeps, RespondKeeps
<1>3. CASE \E id \in Ids : StreamRead(id) \/ StreamResume(id) \/ StreamFails(id) \/ StreamSend(id)
  BY <1>3, StreamReadKeeps, StreamFailsKeeps, StreamSendKeeps
<1>4. CASE OnFwd \/ OnBack \/ StartQueued
  BY <1>4, OnFwdKeeps, OnBackKeeps, StartQueuedKeeps
<1>5. CASE WindowCloses
  BY <1>5, NothingHere DEF WindowCloses, manager, perms, disk, world
<1>6. CASE \E on \in BOOLEAN : SetPermission(on)
  BY <1>6, SetPermissionKeeps
<1>7. CASE Reconnect
  BY <1>7, ReconnectKeeps
<1>8. CASE UNCHANGED vars
  BY <1>8, NothingHere DEF vars
<1>. QED  BY <1>1, <1>2, <1>3, <1>4, <1>5, <1>6, <1>7, <1>8 DEF Next

\* Acceptances, chunks and streams stay where they belong, whatever was cut, refused,
\* cancelled, paused, queued or withdrawn: the invariant the two results below rest on.
THEOREM TransfersStayInOrder == Spec => []Inv
BY InvInit, InvNext, PTL DEF Spec

\* The chunks on their way continue where the open file of their transfer ends, each
\* once and in order, and the stream continues where they end (on_accept, on_chunk and
\* stream_file agree on the resume offset), for every file and every number of transfers.
THEOREM ChunksHold == Spec => []ChunksContinueTheFile
<1>1. Inv => ChunksContinueTheFile
  <2>. SUFFICES ASSUME Inv, NEW id \in DOMAIN down, Takes(id), mayDown
                PROVE  \E to \in down[id].file.received..(down[id].file.received + Len(fwd)) :
                          /\ Continues(fwd, id, down[id].file.received, to)
                          /\ stream[id].pc # "none" => stream[id].pos = to
    BY DEF ChunksContinueTheFile
  <2>1. id \in Ids /\ TakesOf(down, id) /\ RowOk(down[id]) /\ IsSeq(fwd) /\ AllSound(fwd)
    BY DEF Inv, Shape, Rows, Takes, TakesOf, Sent
  <2>2. PICK from : from = down[id].file.received
    OBVIOUS
  <2>3. from \in Nat
    BY <2>1, <2>2 DEF RowOk, TakesOf
  <2>4. PICK to \in Nat : /\ from <= to /\ Continues(fwd, id, from, to)
                          /\ stream[id].pc # "none" => stream[id].pos = to
    BY <2>1, <2>2 DEF Inv, Stages, Stage, Awaited
  <2>5. to \in from..(from + Len(fwd))
    BY <2>1, <2>3, <2>4, ContinuesBound
  <2>. QED  BY <2>2, <2>4, <2>5
<1>. QED  BY <1>1, TransfersStayInOrder, PTL

\* Once the file permission is gone nothing runs at the receiver (set_allowed cancels
\* what runs, and nothing starts again), except what the owner of an asking host approves.
THEOREM RevokedHolds == Spec => []RevokedStopsReceiving
<1>1. Inv => RevokedStopsReceiving
  BY DEF Inv, Perms, RevokedStopsReceiving, With
<1>. QED  BY <1>1, TransfersStayInOrder, PTL
=============================================================================
