----------------------------- MODULE ObjectsProofs -----------------------------
(***************************************************************************)
(* Proofs about Objects for every graph of objects, every set of requests  *)
(* and workers and every sequence of pushes: what is read is what was      *)
(* stored, every enrichment item is accounted for, and every step of the   *)
(* store is a step of ContentStore or none.                                *)
(***************************************************************************)
EXTENDS Objects, FiniteSetTheorems, WellFoundedInduction, TLAPS

-----------------------------------------------------------------------------
(* Helpers.                                                                *)

Bodies(q) == [i \in DOMAIN q |-> q[i].body]
Entry     == [digest : Digests, body : Digests]
Row       == Digests \X Nat

LEMMA LeastNumber ==
    ASSUME NEW S \in SUBSET Nat, S # {}
    PROVE  Min(S) \in S /\ \A i \in S : Min(S) <= i
<1>1. IsWellFoundedOn(OpToRel(<, Nat), Nat)
  BY NatLessThanWellFounded
<1>2. PICK m \in S : \A i \in S : ~(<<i, m>> \in OpToRel(<, Nat))
  BY <1>1, WFMin
<1>3. \A i \in S : ~(i < m)
  BY <1>2 DEF OpToRel
<1>4. \A i \in S : m <= i
  BY <1>3
<1> QED BY <1>4 DEF Min

(* A pack has an entry for each of the missing objects and for no other.   *)
LEMMA PackEntries ==
    ASSUME NEW S \in SUBSET Digests, IsFiniteSet(S), S # {}, NEW q \in Packs(S)
    PROVE  /\ q \in Seq(Entry) /\ Len(q) \in Nat /\ DOMAIN q = 1..Len(q)
           /\ \A i \in 1..Len(q) : q[i].digest \in S
           /\ \A d \in S : \E i \in 1..Len(q) : q[i].digest = d
<1> DEFINE n == Cardinality(S)
<1>1. n \in Nat /\ n # 0
  BY FS_CardinalityType, FS_EmptySet
<1>2. PICK f, h :
          /\ f \in SetToSeqs(S)
          /\ h = [i \in DOMAIN f |-> [digest |-> f[i], body |-> f[i]]]
          /\ q = h \/ q = [h EXCEPT ![Len(h)].body = h[1].body]
  BY DEF Packs
<1> HIDE DEF n
<1>3. f \in [1..n -> S] /\ \A i, j \in 1..n : i # j => f[i] # f[j]
  BY <1>2 DEF SetToSeqs, n
<1>4. f \in Surjection(1..n, S)
  <2>1. IsFiniteSet(1..n) /\ Cardinality(1..n) = n
    BY <1>1, FS_Interval
  <2>2. f \in Injection(1..n, S)
    BY <1>3 DEF Injection, IsInjective
  <2> QED BY <2>1, <2>2, FS_Injection DEF n
<1>5. \A d \in S : \E i \in 1..n : f[i] = d
  BY <1>4 DEF Surjection
<1>6. h = [i \in 1..n |-> [digest |-> f[i], body |-> f[i]]]
  BY <1>2, <1>3
<1>7. h \in Seq(Entry) /\ Len(h) = n
  BY <1>1, <1>3, <1>6 DEF Entry
<1>8. /\ DOMAIN q = 1..n
      /\ \A i \in 1..n : q[i] \in Entry /\ q[i].digest = f[i]
  <2>1. \A i \in 1..n : h[i] \in Entry /\ h[i].digest = f[i]
    BY <1>3, <1>6 DEF Entry
  <2>2. CASE q = h
    BY <1>6, <2>1, <2>2
  <2>3. CASE q = [h EXCEPT ![Len(h)].body = h[1].body]
    <3>1. 1 \in 1..n /\ h[1].body \in Digests
      BY <1>1, <2>1 DEF Entry
    <3>2. DOMAIN q = 1..n
      BY <1>6, <2>3
    <3>3. ASSUME NEW i \in 1..n PROVE q[i] = h[i] \/ q[i] = [h[i] EXCEPT !.body = h[1].body]
      BY <1>6, <2>3
    <3> QED BY <2>1, <3>1, <3>2, <3>3 DEF Entry
  <2> QED BY <1>2, <2>2, <2>3
<1>9. q \in Seq(Entry) /\ Len(q) = n
  <2>1. q = [i \in 1..n |-> q[i]]
    <3>1. q = [i \in DOMAIN q |-> q[i]]
      BY <1>2, <1>6
    <3> QED BY <1>8, <3>1
  <2> QED BY <1>1, <1>8, <2>1
<1> QED BY <1>1, <1>3, <1>5, <1>8, <1>9
-----------------------------------------------------------------------------
(* The invariant.                                                          *)

PushRec == [pc : {"idle", "send", "index", "committed", "stored", "refused", "error"}, want : SUBSET Digests,
            pack : Seq(Entry), seg : Nat, i : Nat, rows : SUBSET Row,
            items : Seq(Digests)]
Item    == [node : Digests, status : {"pending", "processing", "done", "failed"}]

Types ==
    /\ nextSeg \in Nat \ {0} /\ crashes \in 0..MaxCrashes
    /\ DOMAIN segments \subseteq 1..(nextSeg - 1) /\ DOMAIN blobs \subseteq 1..(nextSeg - 1)
    /\ \A id \in DOMAIN segments : segments[id] \in Seq(Digests)
    /\ objects = [d \in DOMAIN objects |-> objects[d]] /\ DOMAIN objects \subseteq Digests
    /\ queue \in Seq(Item)
    /\ push \in [Procs -> PushRec]
    /\ working \in [Workers -> Nat]

(* Each transaction still to begin has a segment id left.                  *)
Sending == {p \in Procs : push[p].pc = "send"}
IdInv == nextSeg + Cardinality(Sending) <= MaxSegs + 1

(* A pack has what is wanted and was not stored when it was negotiated.    *)
Sent(x, d) == \E j \in 1..Len(x.pack) : x.pack[j].digest = d
PackInv(x) ==
    x.pc \in {"send", "index"} =>
        /\ \A j \in 1..Len(x.pack) : x.pack[j].digest \in x.want
        /\ \A d \in x.want : d \in DOMAIN objects \/ Sent(x, d)
        /\ x.pc = "send" => x.rows = {} /\ x.items = <<>>

(* The objects that an open transaction has met are honest, and stored or  *)
(* among its own rows; a row names its place in the pack; a snapshot among *)
(* the rows has its item.                                                  *)
IndexInv(x) ==
    x.pc = "index" =>
        /\ x.i \in 1..(Len(x.pack) + 1)
        /\ \A j \in 1..(x.i - 1) :
               /\ x.pack[j].body = x.pack[j].digest
               /\ x.pack[j].digest \in DOMAIN objects \/ \E r \in x.rows : r[1] = x.pack[j].digest
        /\ \A r \in x.rows :
               /\ r[2] \in 1..(x.i - 1) /\ x.pack[r[2]].digest = r[1]
               /\ Node[r[1]].kind = "Snapshot" => \E k \in 1..Len(x.items) : x.items[k] = r[1]

(* The segment of an open transaction is its own, and what was uploaded    *)
(* for it is what will be committed.                                       *)
SegInv(x) ==
    x.pc = "index" =>
        /\ x.seg \in 1..(nextSeg - 1) /\ x.seg \notin DOMAIN segments
        /\ x.seg \in DOMAIN blobs => blobs[x.seg] = Bodies(x.pack)

PushInv == \A p \in Procs : /\ PackInv(push[p]) /\ IndexInv(push[p]) /\ SegInv(push[p])

OwnSegments ==
    \A p, q \in Procs : push[p].pc = "index" /\ push[q].pc = "index" /\ push[p].seg = push[q].seg
                            => p = q

(* Both copies of a segment agree, and a row points at its object.         *)
Located(d) ==
    LET o == objects[d] IN
    /\ o.seg \in DOMAIN segments /\ o.off \in 1..Len(segments[o.seg])
    /\ segments[o.seg][o.off] = d
StoreInv ==
    /\ \A id \in DOMAIN segments \cap DOMAIN blobs : blobs[id] = segments[id]
    /\ \A d \in DOMAIN objects : Located(d)

(* The queue. *)
Held   == {working[w] : w \in {v \in Workers : working[v] # 0}}
Orphan == {i \in DOMAIN queue \ Held : queue[i].status = "processing"}
QueueInv ==
    /\ \A s \in OfKind("Snapshot") : s \in DOMAIN objects => \E i \in DOMAIN queue : queue[i].node = s
    /\ \A v, w \in Workers : working[v] = working[w] => v = w \/ working[w] = 0
    /\ \A i \in Held : i \in DOMAIN queue /\ queue[i].status = "processing"
    /\ Cardinality(Orphan) <= crashes

ObjInv == Types /\ IdInv /\ PushInv /\ OwnSegments /\ StoreInv /\ QueueInv

LEMMA Bounds == MaxSegs \in Nat /\ MaxCrashes \in Nat /\ IsFiniteSet(Procs)
BY ObjectsAssumption

LEMMA WantsFinite == \A want \in Wants : want \in SUBSET Digests /\ IsFiniteSet(want)
BY ObjectsAssumption

LEMMA InitObjInv == Init => ObjInv
<1> SUFFICES ASSUME Init PROVE ObjInv
  OBVIOUS
<1>1. /\ IdlePush \in PushRec /\ IdlePush.pc = "idle"
      /\ DOMAIN Empty = {} /\ Empty = [d \in {} |-> Empty[d]]
  BY DEF IdlePush, PushRec, Empty
<1>2. /\ \A p \in Procs : push[p].pc = "idle"
      /\ segments = Empty /\ blobs = Empty /\ objects = Empty /\ queue = <<>>
      /\ nextSeg = 1 /\ crashes = 0 /\ working = [w \in Workers |-> 0]
  BY <1>1 DEF Init
<1>3. Types
  <2>1. push \in [Procs -> PushRec]
    BY <1>1 DEF Init
  <2>2. queue \in Seq(Item) /\ working \in [Workers -> Nat]
    BY <1>2
  <2>3. crashes \in 0..MaxCrashes /\ nextSeg \in Nat \ {0}
    BY <1>2, Bounds
  <2>4. /\ DOMAIN segments = {} /\ DOMAIN blobs = {}
        /\ objects = [d \in DOMAIN objects |-> objects[d]] /\ DOMAIN objects = {}
    BY <1>1, <1>2
  <2> QED BY <2>1, <2>2, <2>3, <2>4 DEF Types
<1>4. IdInv
  <2>1. Sending = {}
    BY <1>2 DEF Sending
  <2> QED BY <1>2, <2>1, FS_EmptySet, Bounds DEF IdInv
<1>5. PushInv /\ OwnSegments
  BY <1>2 DEF PushInv, PackInv, IndexInv, SegInv, OwnSegments
<1>6. StoreInv
  BY <1>1, <1>2 DEF StoreInv
<1>7. QueueInv
  <2>1. Held = {} /\ Orphan = {}
    BY <1>2 DEF Held, Orphan
  <2> QED BY <1>1, <1>2, <2>1, FS_EmptySet DEF QueueInv
<1> QED BY <1>3, <1>4, <1>5, <1>6, <1>7 DEF ObjInv
-----------------------------------------------------------------------------
(* The steps of a push.                                                    *)

(* What the others' invariants need of a step of p.                        *)
LEMMA OthersPush ==
    ASSUME ObjInv, NEW p \in Procs, NEW v \in PushRec, push' = [push EXCEPT ![p] = v],
           DOMAIN objects \subseteq DOMAIN objects', nextSeg' \in Nat, nextSeg <= nextSeg',
           \A q \in Procs \ {p} : push[q].pc = "index" =>
               /\ push[q].seg \notin DOMAIN segments'
               /\ push[q].seg \in DOMAIN blobs' => push[q].seg \in DOMAIN blobs
                                                   /\ blobs'[push[q].seg] = blobs[push[q].seg]
    PROVE  /\ \A q \in Procs \ {p} : (PackInv(push[q]) /\ IndexInv(push[q]) /\ SegInv(push[q]))'
           /\ push' \in [Procs -> PushRec]
           /\ push'[p] = v /\ \A q \in Procs \ {p} : push'[q] = push[q]
<1>1. push \in [Procs -> PushRec] /\ nextSeg \in Nat
  BY DEF ObjInv, Types
<1>2. /\ push'[p] = v /\ \A q \in Procs \ {p} : push'[q] = push[q]
      /\ push' \in [Procs -> PushRec]
  BY <1>1
<1>3. ASSUME NEW q \in Procs \ {p}
      PROVE  PackInv(push[q])' /\ IndexInv(push[q])' /\ SegInv(push[q])'
  <2>1. PackInv(push[q]) /\ IndexInv(push[q]) /\ SegInv(push[q]) /\ push'[q] = push[q]
    BY <1>2 DEF ObjInv, PushInv
  <2>2. PackInv(push[q])'
    BY <2>1 DEF PackInv, Sent
  <2>3. IndexInv(push[q])'
    BY <2>1 DEF IndexInv
  <2>4. SegInv(push[q])'
    <3>1. push[q].pc = "index" => push[q].seg \in 1..(nextSeg' - 1)
      BY <1>1, <2>1 DEF SegInv
    <3> QED BY <2>1, <3>1 DEF SegInv
  <2> QED BY <2>2, <2>3, <2>4
<1> QED BY <1>2, <1>3

(* Steps that only move a push. *)
LEMMA QuietPush ==
    ASSUME ObjInv, NEW p \in Procs, NEW v \in PushRec, push' = [push EXCEPT ![p] = v],
           UNCHANGED <<segments, nextSeg, objects, blobs, queue, working>>,
           crashes' \in crashes..MaxCrashes,
           PackInv(v), IndexInv(v), SegInv(v),
           v.pc = "index" => push[p].pc = "index" /\ v.seg = push[p].seg,
           v.pc = "send" => push[p].pc = "send" \/ nextSeg + Cardinality(Sending) <= MaxSegs
    PROVE  ObjInv'
<1>0. /\ Types /\ IdInv /\ OwnSegments /\ StoreInv /\ QueueInv /\ PushInv
      /\ push \in [Procs -> PushRec] /\ nextSeg \in Nat /\ crashes \in Nat
  BY DEF ObjInv, Types
<1>1. /\ \A q \in Procs \ {p} : (PackInv(push[q]) /\ IndexInv(push[q]) /\ SegInv(push[q]))'
      /\ push' \in [Procs -> PushRec]
      /\ push'[p] = v /\ \A q \in Procs \ {p} : push'[q] = push[q]
  <2>1. \A q \in Procs \ {p} : push[q].pc = "index" =>
            /\ push[q].seg \notin DOMAIN segments'
            /\ push[q].seg \in DOMAIN blobs' => push[q].seg \in DOMAIN blobs
                                                /\ blobs'[push[q].seg] = blobs[push[q].seg]
    BY <1>0 DEF PushInv, SegInv
  <2>2. DOMAIN objects \subseteq DOMAIN objects' /\ nextSeg' \in Nat /\ nextSeg <= nextSeg'
    BY <1>0
  <2> QED BY <2>1, <2>2, OthersPush
<1>2. PushInv'
  <2>1. (PackInv(push[p]) /\ IndexInv(push[p]) /\ SegInv(push[p]))'
    BY <1>1 DEF PackInv, IndexInv, SegInv, Sent
  <2> QED BY <1>1, <2>1 DEF PushInv
<1>3. OwnSegments'
  BY <1>0, <1>1 DEF OwnSegments
<1>4. IdInv'
  <2>1. IsFiniteSet(Sending)
    <3>1. Sending \subseteq Procs
      BY DEF Sending
    <3> QED BY <3>1, Bounds, FS_Subset
  <2>2. CASE v.pc = "send" /\ push[p].pc # "send"
    <3>1. Sending' = Sending \cup {p} /\ p \notin Sending
      BY <1>1, <2>2 DEF Sending
    <3>2. Cardinality(Sending') = Cardinality(Sending) + 1 /\ Cardinality(Sending) \in Nat
      BY <2>1, <3>1, FS_AddElement, FS_CardinalityType
    <3> QED BY <1>0, <2>2, <3>2, Bounds DEF IdInv
  <2>3. CASE v.pc = "send" /\ push[p].pc = "send"
    <3>1. Sending' = Sending
      BY <1>1, <2>3 DEF Sending
    <3> QED BY <1>0, <3>1 DEF IdInv
  <2>4. CASE v.pc # "send"
    <3>1. Sending' \subseteq Sending
      BY <1>1, <2>4 DEF Sending
    <3>2. Cardinality(Sending') <= Cardinality(Sending)
      BY <2>1, <3>1, FS_Subset
    <3>3. Cardinality(Sending') \in Nat /\ Cardinality(Sending) \in Nat
      BY <2>1, <3>1, FS_Subset, FS_CardinalityType
    <3> QED BY <1>0, <3>2, <3>3, Bounds DEF IdInv
  <2> QED BY <2>2, <2>3, <2>4
<1>5. Types'
  <2>1. crashes' \in 0..MaxCrashes
    BY <1>0, Bounds DEF Types
  <2> QED BY <1>0, <1>1, <2>1 DEF Types
<1>6. StoreInv'
  BY <1>0 DEF StoreInv, Located
<1>7. QueueInv'
  <2>1. Held' = Held /\ Orphan' = Orphan
    BY DEF Held, Orphan
  <2>2. IsFiniteSet(Orphan)
    <3>1. Orphan \subseteq 1..Len(queue) /\ Len(queue) \in Nat
      BY <1>0 DEF Orphan, Types
    <3>2. IsFiniteSet(1..Len(queue))
      BY <3>1, FS_Interval
    <3> QED BY <3>1, <3>2, FS_Subset
  <2>3. Cardinality(Orphan') <= crashes'
    <3>1. Cardinality(Orphan) \in Nat /\ Cardinality(Orphan) <= crashes
      BY <1>0, <2>2, FS_CardinalityType DEF QueueInv
    <3> QED BY <1>0, <2>1, <3>1, Bounds
  <2> QED BY <1>0, <2>1, <2>3 DEF QueueInv
<1> QED BY <1>2, <1>3, <1>4, <1>5, <1>6, <1>7 DEF ObjInv

(* A push that has no open transaction and no pack to send. *)
LEMMA Resting ==
    ASSUME NEW v, v.pc \in {"idle", "committed", "stored", "refused", "error"}
    PROVE  PackInv(v) /\ IndexInv(v) /\ SegInv(v)
BY DEF PackInv, IndexInv, SegInv

LEMMA IdlePushRec == IdlePush \in PushRec /\ IdlePush.rows = {} /\ IdlePush.items = <<>>
<1>1. /\ IdlePush.rows = {} /\ IdlePush.items = <<>>
      /\ IdlePush = [pc |-> "idle", want |-> {}, pack |-> <<>>, seg |-> 0, i |-> 0,
                     rows |-> {}, items |-> <<>>]
  BY DEF IdlePush
<1>2. IdlePush \in PushRec
  BY DEF IdlePush, PushRec
<1> QED BY <1>1, <1>2

LEMMA RestRec ==
    ASSUME NEW pc \in {"committed", "stored", "refused", "error"}, NEW want \in SUBSET Digests
    PROVE  LET v == [IdlePush EXCEPT !.pc = pc, !.want = want] IN
           v \in PushRec /\ v.pc = pc /\ v.want = want
BY IdlePushRec DEF PushRec

LEMMA AnswersRec ==
    ASSUME NEW p \in Procs, push[p].want \in SUBSET Digests,
           NEW told \in {"committed", "stored", "refused", "error"}
    PROVE  /\ Answers(p, told) \in PushRec /\ Answers(p, told).pc = told
           /\ Answers(p, told).want = push[p].want
BY IdlePushRec DEF PushRec, Answers

SendOf(want, q) == [IdlePush EXCEPT !.pc = "send", !.want = want, !.pack = q]
LEMMA SendRec ==
    ASSUME NEW want \in SUBSET Digests, NEW q \in Seq(Entry)
    PROVE  /\ SendOf(want, q) \in PushRec /\ SendOf(want, q).pc = "send"
           /\ SendOf(want, q).want = want /\ SendOf(want, q).pack = q
           /\ SendOf(want, q).rows = {} /\ SendOf(want, q).items = <<>>
BY IdlePushRec DEF PushRec, SendOf

LEMMA AnswerKeeps ==
    ASSUME ObjInv, NEW p \in Procs, NEW told \in {"stored", "refused", "error"},
           push' = [push EXCEPT ![p] = Answers(p, told)],
           UNCHANGED <<segments, nextSeg, objects, blobs, queue, working>>,
           crashes' \in crashes..MaxCrashes
    PROVE  ObjInv'
<1>1. push[p].want \in SUBSET Digests
  BY DEF ObjInv, Types, PushRec
<1>2. PICK v \in PushRec : v.pc = told /\ push' = [push EXCEPT ![p] = v]
  <2>1. told \in {"committed", "stored", "refused", "error"}
    OBVIOUS
  <2>2. Answers(p, told) \in PushRec /\ Answers(p, told).pc = told
    BY <1>1, <2>1, AnswersRec
  <2> QED BY <2>2
<1>3. PackInv(v) /\ IndexInv(v) /\ SegInv(v) /\ v.pc # "index" /\ v.pc # "send"
  BY <1>2, Resting
<1> QED BY <1>2, <1>3, QuietPush

LEMMA NegotiateKeeps ==
    ASSUME ObjInv, NEW p \in Procs, NEW want \in Wants, Negotiate(p, want)
    PROVE  ObjInv'
<1> DEFINE missing == want \ PgHasObjects(want)
<1>1. want \in SUBSET Digests /\ IsFiniteSet(want)
  BY WantsFinite
<1>2. /\ UNCHANGED <<segments, nextSeg, objects, blobs, queue, working>>
      /\ crashes' \in crashes..MaxCrashes
  <2>1. UNCHANGED <<segments, nextSeg, objects, blobs, queue, working, crashes>>
    BY DEF Negotiate
  <2>2. crashes \in 0..MaxCrashes
    BY DEF ObjInv, Types
  <2> QED BY <2>1, <2>2, Bounds
<1>3. CASE missing = {}
  <2>1. PICK v \in PushRec : v.pc = "stored" /\ push' = [push EXCEPT ![p] = v]
    BY <1>1, <1>3, RestRec DEF Negotiate
  <2>2. PackInv(v) /\ IndexInv(v) /\ SegInv(v) /\ v.pc # "index" /\ v.pc # "send"
    BY <2>1, Resting
  <2> QED BY <1>2, <2>1, <2>2, QuietPush
<1>4. CASE missing # {}
  <2>1. PICK q \in Packs(missing) :
            push' = [push EXCEPT ![p] = [IdlePush EXCEPT !.pc = "send", !.want = want, !.pack = q]]
    BY <1>4 DEF Negotiate
  <2>2. nextSeg + Cardinality(Sending) <= MaxSegs
    BY <1>4 DEF Negotiate, Sending
  <2>3. missing \in SUBSET Digests /\ IsFiniteSet(missing)
    BY <1>1, FS_Subset
  <2> HIDE DEF missing
  <2>4. /\ q \in Seq(Entry) /\ Len(q) \in Nat /\ DOMAIN q = 1..Len(q)
        /\ \A i \in 1..Len(q) : q[i].digest \in missing
        /\ \A d \in missing : \E i \in 1..Len(q) : q[i].digest = d
    BY <1>4, <2>3, PackEntries
  <2>5. PICK v \in PushRec :
            /\ push' = [push EXCEPT ![p] = v]
            /\ v.pc = "send" /\ v.want = want /\ v.pack = q /\ v.rows = {} /\ v.items = <<>>
    <3>1. want \in SUBSET Digests /\ q \in Seq(Entry)
      BY <1>1, <2>4
    <3>2. push' = [push EXCEPT ![p] = SendOf(want, q)]
      BY <2>1 DEF SendOf
    <3>3. /\ SendOf(want, q) \in PushRec /\ SendOf(want, q).pc = "send"
          /\ SendOf(want, q).want = want /\ SendOf(want, q).pack = q
          /\ SendOf(want, q).rows = {} /\ SendOf(want, q).items = <<>>
      BY <3>1, SendRec
    <3> QED BY <3>2, <3>3
  <2>6. \A d \in want : d \in DOMAIN objects \/ d \in missing
    BY DEF missing, PgHasObjects
  <2>7. PackInv(v) /\ IndexInv(v) /\ SegInv(v)
    BY <2>4, <2>5, <2>6 DEF PackInv, IndexInv, SegInv, Sent, missing
  <2>8. v.pc # "index"
    BY <2>5
  <2> QED BY <1>2, <2>2, <2>5, <2>7, <2>8, QuietPush
<1> QED BY <1>3, <1>4
LEMMA SendingFinite == IsFiniteSet(Sending) /\ Cardinality(Sending) \in Nat
<1>1. Sending \subseteq Procs
  BY DEF Sending
<1>2. IsFiniteSet(Sending)
  BY <1>1, Bounds, FS_Subset
<1> QED BY <1>2, FS_CardinalityType

(* The segment goes in, under an id nothing has, with or without an upload. *)
LEMMA InsertKeeps == ASSUME ObjInv, NEW p \in Procs, PgInsertSegmentTx(p) PROVE ObjInv'
<1>0. /\ Types /\ IdInv /\ OwnSegments /\ StoreInv /\ QueueInv /\ PushInv
      /\ push \in [Procs -> PushRec] /\ push[p] \in PushRec
      /\ nextSeg \in Nat /\ nextSeg # 0
  BY DEF ObjInv, Types
<1>1. /\ push[p].pc = "send" /\ nextSeg' = nextSeg + 1
      /\ UNCHANGED <<segments, objects, queue, working, crashes>>
  BY DEF PgInsertSegmentTx
<1>2. PICK n \in Nat : n = nextSeg
  BY <1>0
<1>3. PICK v \in PushRec :
          /\ push' = [push EXCEPT ![p] = v]
          /\ v.pc = "index" /\ v.seg = n /\ v.i = 1
          /\ v.want = push[p].want /\ v.pack = push[p].pack
          /\ v.rows = push[p].rows /\ v.items = push[p].items
  <2> DEFINE w == [push[p] EXCEPT !.pc = "index", !.seg = n, !.i = 1]
  <2>1. w \in PushRec /\ w.pc = "index" /\ w.seg = n /\ w.i = 1
        /\ w.want = push[p].want /\ w.pack = push[p].pack
        /\ w.rows = push[p].rows /\ w.items = push[p].items
    BY <1>0 DEF PushRec
  <2>2. push' = [push EXCEPT ![p] = w]
    BY <1>0, <1>2 DEF PgInsertSegmentTx, NextSegmentID
  <2> HIDE DEF w
  <2> QED BY <2>1, <2>2
<1>4. \/ blobs' = Put(blobs, n, Bodies(v.pack))
      \/ blobs' = blobs
  BY <1>2, <1>3 DEF PgInsertSegmentTx, NextSegmentID, Bodies
<1>5. /\ DOMAIN blobs' \subseteq 1..n
      /\ n \in DOMAIN blobs' => blobs'[n] = Bodies(v.pack)
      /\ \A id \in 1..(n - 1) : id \in DOMAIN blobs' => id \in DOMAIN blobs /\ blobs'[id] = blobs[id]
  <2>1. DOMAIN blobs \subseteq 1..(n - 1)
    BY <1>0, <1>2 DEF Types
  <2>2. CASE blobs' = blobs
    BY <1>0, <1>2, <2>1, <2>2
  <2>3. CASE blobs' = Put(blobs, n, Bodies(v.pack))
    <3>1. /\ DOMAIN blobs' = DOMAIN blobs \cup {n} /\ blobs'[n] = Bodies(v.pack)
          /\ \A id \in DOMAIN blobs : id # n => blobs'[id] = blobs[id]
      BY <2>3 DEF Put
    <3> QED BY <1>0, <1>2, <2>1, <3>1
  <2> QED BY <1>4, <2>2, <2>3
<1>6. \A q \in Procs : push[q].pc = "index" => push[q].seg \in 1..(n - 1)
  BY <1>0, <1>2 DEF PushInv, SegInv
<1>7. /\ \A q \in Procs \ {p} : (PackInv(push[q]) /\ IndexInv(push[q]) /\ SegInv(push[q]))'
      /\ push' \in [Procs -> PushRec]
      /\ push'[p] = v /\ \A q \in Procs \ {p} : push'[q] = push[q]
  <2>1. \A q \in Procs \ {p} : push[q].pc = "index" =>
            /\ push[q].seg \notin DOMAIN segments'
            /\ push[q].seg \in DOMAIN blobs' => push[q].seg \in DOMAIN blobs
                                                /\ blobs'[push[q].seg] = blobs[push[q].seg]
    BY <1>0, <1>1, <1>5, <1>6 DEF PushInv, SegInv
  <2>2. DOMAIN objects \subseteq DOMAIN objects' /\ nextSeg' \in Nat /\ nextSeg <= nextSeg'
    BY <1>0, <1>1
  <2> QED BY <1>3, <2>1, <2>2, OthersPush
<1>8. PushInv'
  <2>1. PackInv(push[p]) /\ push[p].rows = {} /\ Len(push[p].pack) \in Nat
    <3>1. PackInv(push[p])
      BY <1>0 DEF PushInv
    <3>2. push[p].rows = {}
      BY <1>1, <3>1 DEF PackInv
    <3>3. push[p].pack \in Seq(Entry)
      BY <1>0 DEF PushRec
    <3> QED BY <3>1, <3>2, <3>3
  <2>2. PackInv(push[p])'
    BY <1>1, <1>3, <1>7, <2>1 DEF PackInv, Sent
  <2>3. IndexInv(push[p])'
    BY <1>3, <1>7, <2>1 DEF IndexInv
  <2>4. n \in 1..(nextSeg' - 1) /\ n \notin DOMAIN segments'
    BY <1>0, <1>1, <1>2 DEF Types
  <2>5. SegInv(push[p])'
    BY <1>3, <1>5, <1>7, <2>4 DEF SegInv
  <2> QED BY <1>7, <2>2, <2>3, <2>5 DEF PushInv
<1>9. OwnSegments'
  <2>1. \A q \in Procs : push[q].pc = "index" => push[q].seg # n
    BY <1>2, <1>6
  <2> QED BY <1>0, <1>3, <1>7, <2>1 DEF OwnSegments
<1>10. IdInv'
  <2>1. Sending' = Sending \ {p} /\ p \in Sending
    BY <1>1, <1>3, <1>7 DEF Sending
  <2>2. Cardinality(Sending') = Cardinality(Sending) - 1
    BY <2>1, SendingFinite, FS_RemoveElement
  <2> QED BY <1>0, <1>1, <2>2, SendingFinite, Bounds DEF IdInv
<1>11. Types'
  <2>1. /\ nextSeg' \in Nat \ {0} /\ DOMAIN blobs' \subseteq 1..(nextSeg' - 1)
        /\ DOMAIN segments' \subseteq 1..(nextSeg' - 1)
    BY <1>0, <1>1, <1>2, <1>5 DEF Types
  <2> QED BY <1>0, <1>1, <1>7, <2>1 DEF Types
<1>12. StoreInv'
  <2>1. \A id \in DOMAIN segments' \cap DOMAIN blobs' : blobs'[id] = segments'[id]
    <3>1. DOMAIN segments \subseteq 1..(n - 1)
      BY <1>0, <1>2 DEF Types
    <3> QED BY <1>0, <1>1, <1>5, <3>1 DEF StoreInv
  <2> QED BY <1>0, <1>1, <2>1 DEF StoreInv, Located
<1>13. QueueInv'
  <2>1. Held' = Held /\ Orphan' = Orphan
    BY <1>1 DEF Held, Orphan
  <2> QED BY <1>0, <1>1, <2>1 DEF QueueInv
<1> QED BY <1>8, <1>9, <1>10, <1>11, <1>12, <1>13 DEF ObjInv

Indexed(x, k, R, I) == [x EXCEPT !.i = k + 1, !.rows = R, !.items = I]
LEMMA IndexRec ==
    \A x \in PushRec, k \in Nat, R \in SUBSET Row, I \in Seq(Digests) :
        LET w == Indexed(x, k, R, I) IN
        /\ w \in PushRec /\ w.pc = x.pc /\ w.seg = x.seg /\ w.i = k + 1
        /\ w.want = x.want /\ w.pack = x.pack /\ w.rows = R /\ w.items = I
<1> TAKE x \in PushRec, k \in Nat, R \in SUBSET Row, I \in Seq(Digests)
<1>1. k + 1 \in Nat
  OBVIOUS
<1> QED BY <1>1 DEF PushRec, Indexed

(* One entry is verified, and inserted unless its object is stored or      *)
(* already inserted by this transaction.                                   *)
LEMMA IndexKeeps == ASSUME ObjInv, NEW p \in Procs, IndexObject(p) PROVE ObjInv'
<1>0. /\ PushInv /\ push \in [Procs -> PushRec] /\ push[p] \in PushRec /\ crashes \in 0..MaxCrashes
  BY DEF ObjInv, Types
<1>1. /\ push[p].pc = "index" /\ push[p].i <= Len(push[p].pack)
      /\ UNCHANGED <<segments, nextSeg, objects, blobs, queue, working, crashes>>
      /\ Len(push[p].pack) \in Nat /\ push[p].i \in Nat
  <2>1. push[p].pack \in Seq(Entry) /\ push[p].i \in Nat
    BY <1>0 DEF PushRec
  <2>2. /\ push[p].pc = "index" /\ push[p].i <= Len(push[p].pack)
        /\ UNCHANGED <<segments, nextSeg, objects, blobs, queue, working, crashes>>
    BY DEF IndexObject
  <2> QED BY <2>1, <2>2
<1>2. /\ UNCHANGED <<segments, nextSeg, objects, blobs, queue, working>>
      /\ crashes' \in crashes..MaxCrashes
  BY <1>0, <1>1, Bounds
<1>3. CASE Rollback(p, "refused")
  BY <1>2, <1>3, AnswerKeeps DEF Rollback
<1>4. CASE ~Rollback(p, "refused")
  <2> DEFINE x == push[p]
             e == x.pack[x.i]
  <2>1. PICK k \in 1..Len(x.pack) : k = x.i
    <3>1. push[p].i # 0
      BY <1>0, <1>1 DEF PushInv, IndexInv
    <3> QED BY <1>1, <3>1
  <2>2. PICK d \in Digests : d = e.digest /\ e.body = d
    <3>1. e \in Entry
      BY <1>0, <2>1 DEF PushRec
    <3>2. Verified(e)
      BY <1>4 DEF IndexObject
    <3> QED BY <3>1, <3>2 DEF Entry, Verified
  <2>3. MayInsert(p)
    BY <1>4 DEF IndexObject
  <2> DEFINE R == IF Stored(d) \/ Holder(d) # {} THEN x.rows ELSE x.rows \cup {<<d, k>>}
             I == IF Node[d].kind = "Snapshot" THEN Append(x.items, d) ELSE x.items
             w == Indexed(x, k, R, I)
  <2>4. push' = [push EXCEPT ![p] = w]
    BY <1>0, <1>4, <2>1, <2>2 DEF IndexObject, Indexed
  <2>5. /\ x.rows \in SUBSET Row /\ x.items \in Seq(Digests) /\ k \in Nat
        /\ x.pack \in Seq(Entry)
    BY <1>0 DEF PushRec
  <2>6. R \in SUBSET Row /\ I \in Seq(Digests)
    <3>1. <<d, k>> \in Row
      BY <2>5 DEF Row
    <3>2. R \in SUBSET Row
      BY <2>5, <3>1
    <3>3. I \in Seq(Digests)
      BY <2>5
    <3> QED BY <3>2, <3>3
  <2> HIDE DEF R, I
  <2>7. x \in PushRec /\ x.pc = "index"
    BY <1>0, <1>1
  <2>8. PICK v \in PushRec :
            /\ push' = [push EXCEPT ![p] = v]
            /\ v.pc = "index" /\ v.seg = x.seg /\ v.i = k + 1
            /\ v.want = x.want /\ v.pack = x.pack /\ v.rows = R /\ v.items = I
    <3>1. /\ w \in PushRec /\ w.pc = x.pc /\ w.seg = x.seg /\ w.i = k + 1
          /\ w.want = x.want /\ w.pack = x.pack /\ w.rows = R /\ w.items = I
      <4> HIDE DEF x
      <4> QED BY <2>5, <2>6, <2>7, IndexRec
    <3> HIDE DEF w
    <3> QED BY <2>4, <2>7, <3>1
  <2>9. PackInv(x) /\ IndexInv(x) /\ SegInv(x) /\ x.pc = "index"
    BY <1>0, <1>1 DEF PushInv
  <2>10. PackInv(v) /\ SegInv(v)
    BY <2>8, <2>9 DEF PackInv, SegInv, Sent
  <2>11. d \in DOMAIN objects \/ \E r \in R : r[1] = d
    <3>1. CASE Stored(d)
      BY <3>1 DEF Stored
    <3>2. CASE ~Stored(d) /\ Holder(d) = {}
      <4>1. <<d, k>> \in R
        BY <3>2 DEF R
      <4> QED BY <4>1
    <3>3. CASE ~Stored(d) /\ Holder(d) # {}
      <4>1. Holder(d) \ {p} = {}
        BY <1>1, <2>1, <2>2, <2>3 DEF MayInsert, WaitsFor
      <4>2. p \in Holder(d)
        BY <3>3, <4>1
      <4>3. \E r \in x.rows : r[1] = d
        BY <4>2 DEF Holder
      <4> QED BY <4>3 DEF R
    <3> QED BY <3>1, <3>2, <3>3
  <2>12. x.rows \subseteq R /\ \A r \in R : r \in x.rows \/ r = <<d, k>>
    BY DEF R
  <2>13. /\ \A m \in 1..Len(x.items) : m \in 1..Len(I) /\ I[m] = x.items[m]
         /\ Node[d].kind = "Snapshot" => \E m \in 1..Len(I) : I[m] = d
    <3>1. CASE Node[d].kind = "Snapshot"
      <4>1. /\ I = Append(x.items, d) /\ Len(x.items) \in Nat
        BY <2>5, <3>1 DEF I
      <4>2. /\ Len(I) = Len(x.items) + 1 /\ I[Len(x.items) + 1] = d
            /\ \A m \in 1..Len(x.items) : I[m] = x.items[m]
        BY <2>5, <4>1
      <4> QED BY <4>1, <4>2
    <3>2. CASE Node[d].kind # "Snapshot"
      BY <3>2 DEF I
    <3> QED BY <3>1, <3>2
  <2>14. \A j \in 1..k : j \in 1..(k - 1) \/ j = k
    BY <2>1
  <2>15. k + 1 \in 1..(Len(x.pack) + 1) /\ (k + 1) - 1 = k /\ k \in 1..k
    BY <1>1, <2>1
  <2>16. \A j \in 1..k : /\ x.pack[j].body = x.pack[j].digest
                         /\ x.pack[j].digest \in DOMAIN objects
                            \/ \E r \in R : r[1] = x.pack[j].digest
    BY <2>1, <2>2, <2>9, <2>11, <2>12, <2>14 DEF IndexInv
  <2>17. \A r \in R : /\ r[2] \in 1..k /\ x.pack[r[2]].digest = r[1]
                      /\ Node[r[1]].kind = "Snapshot" => \E m \in 1..Len(I) : I[m] = r[1]
    <3>1. ASSUME NEW r \in x.rows
          PROVE  /\ r[2] \in 1..k /\ x.pack[r[2]].digest = r[1]
                 /\ Node[r[1]].kind = "Snapshot" => \E m \in 1..Len(I) : I[m] = r[1]
      <4>1. /\ r[2] \in 1..(k - 1) /\ x.pack[r[2]].digest = r[1]
            /\ Node[r[1]].kind = "Snapshot" => \E m \in 1..Len(x.items) : x.items[m] = r[1]
        BY <2>1, <2>9 DEF IndexInv
      <4> QED BY <2>1, <2>13, <4>1
    <3>2. ASSUME NEW r, r = <<d, k>>
          PROVE  /\ r[2] \in 1..k /\ x.pack[r[2]].digest = r[1]
                 /\ Node[r[1]].kind = "Snapshot" => \E m \in 1..Len(I) : I[m] = r[1]
      <4>1. r[1] = d /\ r[2] = k
        BY <3>2
      <4> QED BY <2>1, <2>2, <2>13, <2>15, <4>1
    <3> QED BY <2>12, <3>1, <3>2
  <2>18. IndexInv(v)
    <3> HIDE DEF x
    <3> QED BY <2>8, <2>15, <2>16, <2>17 DEF IndexInv
  <2> QED BY <1>1, <1>2, <2>8, <2>10, <2>18, QuietPush
<1> QED BY <1>3, <1>4
LEMMA CrashesStep ==
    ASSUME Types
    PROVE  /\ crashes' = crashes => crashes' \in crashes..MaxCrashes
           /\ crashes < MaxCrashes /\ crashes' = crashes + 1 => crashes' \in crashes..MaxCrashes
BY Bounds DEF Types

LEMMA DeadlockVictimKeeps == ASSUME ObjInv, NEW p \in Procs, DeadlockVictim(p) PROVE ObjInv'
<1>1. /\ Rollback(p, "error")
      /\ UNCHANGED <<segments, nextSeg, objects, blobs, queue, working>>
      /\ crashes' = crashes
  BY DEF DeadlockVictim
<1>2. crashes' \in crashes..MaxCrashes
  BY <1>1, CrashesStep DEF ObjInv
<1> QED BY <1>1, <1>2, AnswerKeeps DEF Rollback

LEMMA IngestFailsKeeps == ASSUME ObjInv, NEW p \in Procs, IngestFails(p) PROVE ObjInv'
<1>1. /\ Rollback(p, "error")
      /\ UNCHANGED <<segments, nextSeg, objects, blobs, queue, working>>
      /\ crashes < MaxCrashes /\ crashes' = crashes + 1
  BY DEF IngestFails
<1>2. crashes' \in crashes..MaxCrashes
  BY <1>1, CrashesStep DEF ObjInv
<1> QED BY <1>1, <1>2, AnswerKeeps DEF Rollback

LEMMA AnswerIngestedKeeps == ASSUME ObjInv, NEW p \in Procs, AnswerIngested(p) PROVE ObjInv'
<1>1. /\ push' = [push EXCEPT ![p] = Answers(p, "stored")]
      /\ UNCHANGED <<segments, nextSeg, objects, blobs, queue, working>>
      /\ crashes' = crashes
  BY DEF AnswerIngested
<1>2. crashes' \in crashes..MaxCrashes
  BY <1>1, CrashesStep DEF ObjInv
<1> QED BY <1>1, <1>2, AnswerKeeps

LEMMA UnacknowledgedKeeps == ASSUME ObjInv, NEW p \in Procs, CommitUnacknowledged(p) PROVE ObjInv'
<1>1. /\ push' = [push EXCEPT ![p] = Answers(p, "error")]
      /\ UNCHANGED <<segments, nextSeg, objects, blobs, queue, working>>
      /\ crashes < MaxCrashes /\ crashes' = crashes + 1
  BY DEF CommitUnacknowledged
<1>2. crashes' \in crashes..MaxCrashes
  BY <1>1, CrashesStep DEF ObjInv
<1> QED BY <1>1, <1>2, AnswerKeeps

-----------------------------------------------------------------------------
(* The commit: the segment, the rows and the queue items appear at once.   *)

(* What the commit of x writes. *)
Enqueued(q, items) == q \o [k \in DOMAIN items |-> [node |-> items[k], status |-> "pending"]]
Written(x) == {r[1] : r \in x.rows}
Commits(x, n) ==
    /\ segments' = Put(segments, n, Bodies(x.pack))
    /\ DOMAIN objects' = DOMAIN objects \cup Written(x)
    /\ objects' = [d \in DOMAIN objects' |-> objects'[d]]
    /\ \A d \in DOMAIN objects : objects'[d] = objects[d]
    /\ \A d \in Written(x) \ DOMAIN objects :
           \E r \in x.rows : r[1] = d /\ objects'[d] = [seg |-> n, off |-> r[2]]
    /\ queue' = Enqueued(queue, x.items)

LEMMA CommitWrites ==
    ASSUME NEW p \in Procs, IngestCommit(p) PROVE Commits(push[p], push[p].seg)
<1> DEFINE x == push[p]
<1>1. /\ segments' = Put(segments, x.seg, Bodies(x.pack))
      /\ objects' = [d \in DOMAIN objects \cup Written(x) |->
                        IF d \in DOMAIN objects THEN objects[d]
                        ELSE [seg |-> x.seg, off |-> (CHOOSE r \in x.rows : r[1] = d)[2]]]
      /\ queue' = Enqueued(queue, x.items)
  BY DEF IngestCommit, Bodies, Written, Stored, Enqueued
<1>2. \A d \in Written(x) :
          (CHOOSE r \in x.rows : r[1] = d) \in x.rows /\ (CHOOSE r \in x.rows : r[1] = d)[1] = d
  <2> TAKE d \in Written(x)
  <2>1. \E r \in x.rows : r[1] = d
    BY DEF Written
  <2> QED BY <2>1
<1> HIDE DEF x
<1>3. /\ DOMAIN objects' = DOMAIN objects \cup Written(x)
      /\ objects' = [d \in DOMAIN objects' |-> objects'[d]]
      /\ \A d \in DOMAIN objects : objects'[d] = objects[d]
  BY <1>1
<1>4. \A d \in Written(x) \ DOMAIN objects :
          \E r \in x.rows : r[1] = d /\ objects'[d] = [seg |-> x.seg, off |-> r[2]]
  <2> TAKE d \in Written(x) \ DOMAIN objects
  <2>1. objects'[d] = [seg |-> x.seg, off |-> (CHOOSE r \in x.rows : r[1] = d)[2]]
    BY <1>1
  <2> QED BY <1>2, <2>1
<1> QED BY <1>1, <1>3, <1>4 DEF Commits, x
LEMMA BodiesSeq ==
    ASSUME NEW q \in Seq(Entry)
    PROVE  /\ Bodies(q) \in Seq(Digests) /\ Len(Bodies(q)) = Len(q)
           /\ \A j \in 1..Len(q) : Bodies(q)[j] = q[j].body
<1>1. /\ DOMAIN q = 1..Len(q) /\ Len(q) \in Nat
      /\ \A j \in 1..Len(q) : q[j].body \in Digests
  <2>1. DOMAIN q = 1..Len(q) /\ Len(q) \in Nat /\ \A j \in 1..Len(q) : q[j] \in Entry
    OBVIOUS
  <2>2. \A e \in Entry : e.body \in Digests
    BY DEF Entry
  <2> QED BY <2>1, <2>2
<1>2. Bodies(q) = [j \in 1..Len(q) |-> q[j].body]
  BY <1>1 DEF Bodies
<1> QED BY <1>1, <1>2

(* What the queue keeps and gains. *)
Grown(q, items, r) ==
    /\ r \in Seq(Item)
    /\ \A i \in DOMAIN q : i \in DOMAIN r /\ r[i] = q[i]
    /\ \A i \in DOMAIN r \ DOMAIN q : r[i].status = "pending"
    /\ \A k \in 1..Len(items) : \E i \in DOMAIN r : r[i].node = items[k]

LEMMA QueueGrows ==
    ASSUME NEW q \in Seq(Item), NEW items \in Seq(Digests)
    PROVE  Grown(q, items, Enqueued(q, items))
<1> DEFINE s == [k \in DOMAIN items |-> [node |-> items[k], status |-> "pending"]]
           r == q \o s
<1>1. PICK m \in Nat, n \in Nat :
          m = Len(q) /\ n = Len(items) /\ DOMAIN q = 1..m /\ DOMAIN items = 1..n
  OBVIOUS
<1>2. s = [k \in 1..n |-> [node |-> items[k], status |-> "pending"]]
  BY <1>1
<1>3. \A k \in 1..n : [node |-> items[k], status |-> "pending"] \in Item
  BY <1>1 DEF Item
<1>4. s \in Seq(Item) /\ Len(s) = n
  BY <1>1, <1>2, <1>3
<1>5. \A k \in 1..n : s[k].node = items[k] /\ s[k].status = "pending"
  BY <1>2
<1> HIDE DEF s
<1>6. /\ r \in Seq(Item) /\ DOMAIN r = 1..(m + n)
      /\ \A i \in 1..m : r[i] = q[i]
      /\ \A k \in 1..n : r[m + k] = s[k]
  BY <1>1, <1>4
<1> HIDE DEF r
<1>7. \A i \in DOMAIN q : i \in DOMAIN r /\ r[i] = q[i]
  BY <1>1, <1>6
<1>8. \A i \in DOMAIN r \ DOMAIN q : r[i].status = "pending"
  <2> TAKE i \in DOMAIN r \ DOMAIN q
  <2>1. i - m \in 1..n /\ i = m + (i - m)
    BY <1>1, <1>6
  <2>2. PICK k \in 1..n : i = m + k
    BY <2>1
  <2> QED BY <1>5, <1>6, <2>2
<1>9. \A k \in 1..Len(items) : \E i \in DOMAIN r : r[i].node = items[k]
  <2> TAKE k \in 1..Len(items)
  <2>1. m + k \in 1..(m + n)
    BY <1>1
  <2>2. r[m + k].node = items[k]
    BY <1>1, <1>5, <1>6
  <2> QED BY <1>6, <2>1, <2>2
<1>10. r = Enqueued(q, items)
  BY DEF Enqueued, r, s
<1> QED BY <1>6, <1>7, <1>8, <1>9, <1>10 DEF Grown

LEMMA IngestCommitKeeps == ASSUME ObjInv, NEW p \in Procs, IngestCommit(p) PROVE ObjInv'
<1>0. /\ Types /\ IdInv /\ OwnSegments /\ StoreInv /\ QueueInv /\ PushInv
      /\ push \in [Procs -> PushRec] /\ push[p] \in PushRec /\ nextSeg \in Nat
  BY DEF ObjInv, Types
<1>1. /\ push[p].pc = "index" /\ push[p].i > Len(push[p].pack)
      /\ UNCHANGED <<nextSeg, blobs, working, crashes>>
  BY DEF IngestCommit
<1>2. PICK x \in PushRec : x = push[p]
  BY <1>0
<1>3. PICK n \in Nat : n = x.seg
  BY DEF PushRec
<1>4. Commits(x, n)
  BY <1>2, <1>3, CommitWrites
<1>5. PICK v \in PushRec : v.pc = "committed" /\ push' = [push EXCEPT ![p] = v]
  <2>1. x.want \in SUBSET Digests
    BY DEF PushRec
  <2> QED BY <1>2, <2>1, RestRec DEF IngestCommit, Answers
<1>6. /\ x.pack \in Seq(Entry) /\ Len(x.pack) \in Nat /\ x.items \in Seq(Digests)
      /\ x.rows \in SUBSET Row
  BY DEF PushRec
<1>7. /\ IndexInv(x) /\ SegInv(x) /\ x.pc = "index" /\ x.i - 1 = Len(x.pack)
  <2>1. IndexInv(x) /\ SegInv(x) /\ x.pc = "index" /\ x.i > Len(x.pack)
    BY <1>0, <1>1, <1>2 DEF PushInv
  <2>2. x.i \in 1..(Len(x.pack) + 1)
    BY <2>1 DEF IndexInv
  <2> QED BY <1>6, <2>1, <2>2
<1>8. /\ \A j \in 1..Len(x.pack) : x.pack[j].body = x.pack[j].digest
      /\ \A r \in x.rows : /\ r[2] \in 1..Len(x.pack) /\ x.pack[r[2]].digest = r[1]
                           /\ Node[r[1]].kind = "Snapshot" =>
                                  \E k \in 1..Len(x.items) : x.items[k] = r[1]
  BY <1>7 DEF IndexInv
<1>9. /\ n \in 1..(nextSeg - 1) /\ n \notin DOMAIN segments
      /\ n \in DOMAIN blobs => blobs[n] = Bodies(x.pack)
  BY <1>3, <1>7 DEF SegInv
<1>10. /\ DOMAIN segments' = DOMAIN segments \cup {n} /\ segments'[n] = Bodies(x.pack)
       /\ \A id \in DOMAIN segments : segments'[id] = segments[id]
  BY <1>4, <1>9 DEF Commits, Put
<1>11. /\ Bodies(x.pack) \in Seq(Digests) /\ Len(Bodies(x.pack)) = Len(x.pack)
       /\ \A j \in 1..Len(x.pack) : Bodies(x.pack)[j] = x.pack[j].body
  BY <1>6, BodiesSeq
<1>12. /\ queue' \in Seq(Item)
       /\ \A i \in DOMAIN queue : i \in DOMAIN queue' /\ queue'[i] = queue[i]
       /\ \A i \in DOMAIN queue' \ DOMAIN queue : queue'[i].status = "pending"
       /\ \A k \in 1..Len(x.items) : \E i \in DOMAIN queue' : queue'[i].node = x.items[k]
  <2>1. PICK q \in Seq(Item) : q = queue
    BY <1>0 DEF Types
  <2>2. queue' = Enqueued(q, x.items)
    BY <1>4, <2>1 DEF Commits
  <2>3. Grown(q, x.items, queue')
    BY <1>6, <2>2, QueueGrows
  <2> QED BY <2>1, <2>3 DEF Grown
<1>13. Written(x) \subseteq Digests
  BY <1>6 DEF Written, Row
<1>14. /\ \A q \in Procs \ {p} : (PackInv(push[q]) /\ IndexInv(push[q]) /\ SegInv(push[q]))'
       /\ push' \in [Procs -> PushRec]
       /\ push'[p] = v /\ \A q \in Procs \ {p} : push'[q] = push[q]
  <2>1. \A q \in Procs \ {p} : push[q].pc = "index" =>
            /\ push[q].seg \notin DOMAIN segments'
            /\ push[q].seg \in DOMAIN blobs' => push[q].seg \in DOMAIN blobs
                                                /\ blobs'[push[q].seg] = blobs[push[q].seg]
    <3> TAKE q \in Procs \ {p}
    <3> HAVE push[q].pc = "index"
    <3>1. push[q].seg \notin DOMAIN segments
      BY <1>0 DEF PushInv, SegInv
    <3>2. push[q].seg # n
      BY <1>0, <1>1, <1>2, <1>3 DEF OwnSegments
    <3>3. push[q].seg \notin DOMAIN segments'
      BY <1>10, <3>1, <3>2
    <3>4. blobs' = blobs
      BY <1>1
    <3> QED BY <3>3, <3>4
  <2>2. DOMAIN objects \subseteq DOMAIN objects' /\ nextSeg' \in Nat /\ nextSeg <= nextSeg'
    BY <1>0, <1>1, <1>4 DEF Commits
  <2> QED BY <1>5, <2>1, <2>2, OthersPush
<1>15. PushInv'
  <2>1. (PackInv(push[p]) /\ IndexInv(push[p]) /\ SegInv(push[p]))'
    BY <1>5, <1>14 DEF PackInv, IndexInv, SegInv
  <2> QED BY <1>14, <2>1 DEF PushInv
<1>16. OwnSegments'
  BY <1>0, <1>5, <1>14 DEF OwnSegments
<1>17. IdInv'
  <2>1. Sending' = Sending
    BY <1>1, <1>5, <1>14 DEF Sending
  <2> QED BY <1>0, <1>1, <2>1 DEF IdInv
<1>18. Types'
  <2>1. DOMAIN segments' \subseteq 1..(nextSeg' - 1)
    BY <1>0, <1>1, <1>9, <1>10 DEF Types
  <2>2. \A id \in DOMAIN segments' : segments'[id] \in Seq(Digests)
    BY <1>0, <1>10, <1>11 DEF Types
  <2>3. objects' = [d \in DOMAIN objects' |-> objects'[d]] /\ DOMAIN objects' \subseteq Digests
    BY <1>0, <1>4, <1>13 DEF Types, Commits
  <2> QED BY <1>0, <1>1, <1>12, <1>14, <2>1, <2>2, <2>3 DEF Types
<1>19. StoreInv'
  <2>1. \A id \in DOMAIN segments' \cap DOMAIN blobs' : blobs'[id] = segments'[id]
    BY <1>0, <1>1, <1>9, <1>10 DEF StoreInv
  <2>2. \A d \in DOMAIN objects' : Located(d)'
    <3> TAKE d \in DOMAIN objects'
    <3>1. CASE d \in DOMAIN objects
      <4>1. objects'[d] = objects[d]
        BY <1>4, <3>1 DEF Commits
      <4>2. /\ objects[d].seg \in DOMAIN segments
            /\ objects[d].off \in 1..Len(segments[objects[d].seg])
            /\ segments[objects[d].seg][objects[d].off] = d
        BY <1>0, <3>1 DEF StoreInv, Located
      <4> QED BY <1>10, <4>1, <4>2 DEF Located
    <3>2. CASE d \notin DOMAIN objects
      <4>1. PICK r \in x.rows : r[1] = d /\ objects'[d] = [seg |-> n, off |-> r[2]]
        BY <1>4, <3>2 DEF Commits
      <4>2. objects'[d].seg = n /\ objects'[d].off = r[2]
        BY <4>1
      <4>3. r[2] \in 1..Len(x.pack) /\ x.pack[r[2]].body = d
        BY <1>8, <4>1
      <4> QED BY <1>10, <1>11, <4>2, <4>3 DEF Located
    <3> QED BY <3>1, <3>2
  <2> QED BY <2>1, <2>2 DEF StoreInv
<1>20. QueueInv'
  <2>1. Held' = Held
    BY <1>1 DEF Held
  <2>2. \A i \in Held : i \in DOMAIN queue /\ queue[i].status = "processing"
    BY <1>0 DEF QueueInv
  <2>3. \A i : i \in DOMAIN queue' /\ queue'[i].status = "processing" <=>
                i \in DOMAIN queue /\ queue[i].status = "processing"
    BY <1>12
  <2>4. Orphan' = Orphan
    BY <2>1, <2>3 DEF Orphan
  <2>5. \A i \in Held' : i \in DOMAIN queue' /\ queue'[i].status = "processing"
    BY <1>12, <2>1, <2>2
  <2>6. \A s \in OfKind("Snapshot") :
            s \in DOMAIN objects' => \E i \in DOMAIN queue' : queue'[i].node = s
    <3> SUFFICES ASSUME NEW s \in OfKind("Snapshot"), s \in DOMAIN objects'
                 PROVE  \E i \in DOMAIN queue' : queue'[i].node = s
      OBVIOUS
    <3>1. CASE s \in DOMAIN objects
      <4>1. PICK i \in DOMAIN queue : queue[i].node = s
        BY <1>0, <3>1 DEF QueueInv
      <4>2. i \in DOMAIN queue' /\ queue'[i].node = s
        BY <1>12, <4>1
      <4> QED BY <4>2
    <3>2. CASE s \notin DOMAIN objects
      <4>1. PICK r \in x.rows : r[1] = s
        BY <1>4, <3>2 DEF Commits
      <4>2. PICK k \in 1..Len(x.items) : x.items[k] = s
        BY <1>8, <4>1 DEF OfKind
      <4> QED BY <1>12, <4>2
    <3> QED BY <3>1, <3>2
  <2>7. \A w, u \in Workers : working'[w] = working'[u] => w = u \/ working'[w] = 0
    BY <1>0, <1>1 DEF QueueInv
  <2>8. Cardinality(Orphan') <= crashes'
    BY <1>0, <1>1, <2>4 DEF QueueInv
  <2> QED BY <2>5, <2>6, <2>7, <2>8 DEF QueueInv
<1> QED BY <1>15, <1>16, <1>17, <1>18, <1>19, <1>20 DEF ObjInv
-----------------------------------------------------------------------------
(* The enrichment workers.                                                 *)

LEMMA WorkerStep ==
    ASSUME ObjInv, UNCHANGED <<segments, nextSeg, objects, blobs, push>>,
           crashes' \in 0..MaxCrashes, queue' \in Seq(Item), working' \in [Workers -> Nat],
           QueueInv'
    PROVE  ObjInv'
<1>0. Types /\ IdInv /\ PushInv /\ OwnSegments /\ StoreInv
  BY DEF ObjInv
<1>1. Types'
  BY <1>0 DEF Types
<1>2. IdInv'
  <2>1. Sending' = Sending
    BY DEF Sending
  <2> QED BY <1>0, <2>1 DEF IdInv
<1>3. PushInv' /\ OwnSegments'
  <2>1. \A p \in Procs : (PackInv(push[p]) /\ IndexInv(push[p]) /\ SegInv(push[p]))'
    BY <1>0 DEF PushInv, PackInv, IndexInv, SegInv, Sent
  <2> QED BY <1>0, <2>1 DEF PushInv, OwnSegments
<1>4. StoreInv'
  BY <1>0 DEF StoreInv, Located
<1> QED BY <1>1, <1>2, <1>3, <1>4 DEF ObjInv

LEMMA OrphanFinite == ASSUME Types PROVE IsFiniteSet(Orphan) /\ Cardinality(Orphan) \in Nat
<1>1. Orphan \subseteq 1..Len(queue) /\ Len(queue) \in Nat
  BY DEF Orphan, Types
<1>2. IsFiniteSet(1..Len(queue))
  BY <1>1, FS_Interval
<1>3. IsFiniteSet(Orphan)
  BY <1>1, <1>2, FS_Subset
<1> QED BY <1>3, FS_CardinalityType

(* One status is set. *)
Changed(q, i, s, r) ==
    /\ r \in Seq(Item) /\ DOMAIN r = DOMAIN q
    /\ r[i].status = s /\ r[i].node = q[i].node
    /\ \A j \in DOMAIN q \ {i} : r[j] = q[j]

LEMMA StatusSet ==
    ASSUME NEW q \in Seq(Item), NEW i \in DOMAIN q,
           NEW s \in {"pending", "processing", "done", "failed"}
    PROVE  Changed(q, i, s, [q EXCEPT ![i].status = s])
<1> DEFINE r == [q EXCEPT ![i].status = s]
<1>1. /\ q \in [1..Len(q) -> Item] /\ DOMAIN q = 1..Len(q) /\ Len(q) \in Nat
      /\ q[i] \in Item
  OBVIOUS
<1>2. PICK x \in Item : x = [q[i] EXCEPT !.status = s] /\ x.status = s /\ x.node = q[i].node
  <2>1. PICK y \in Item : y = q[i]
    BY <1>1
  <2>2. [y EXCEPT !.status = s] \in Item
    BY DEF Item
  <2>3. [y EXCEPT !.status = s].status = s /\ [y EXCEPT !.status = s].node = y.node
    BY DEF Item
  <2> QED BY <2>1, <2>2, <2>3
<1>3. r = [q EXCEPT ![i] = x]
  BY <1>2
<1> HIDE DEF r
<1>4. DOMAIN r = DOMAIN q /\ r[i] = x /\ \A j \in DOMAIN q \ {i} : r[j] = q[j]
  BY <1>3
<1>5. r \in [1..Len(q) -> Item]
  BY <1>1, <1>3
<1>6. r \in Seq(Item)
  BY <1>1, <1>5
<1> QED BY <1>2, <1>4, <1>6 DEF r, Changed

LEMMA ClaimKeeps == ASSUME ObjInv, NEW w \in Workers, ClaimEnrichmentItem(w) PROVE ObjInv'
<1>0. /\ Types /\ QueueInv /\ queue \in Seq(Item) /\ working \in [Workers -> Nat]
      /\ crashes \in 0..MaxCrashes
  BY DEF ObjInv, Types
<1>1. /\ UNCHANGED <<segments, nextSeg, objects, blobs, push, crashes>>
      /\ working[w] = 0 /\ Claimable # {}
      /\ working' = [working EXCEPT ![w] = Min(Claimable)]
      /\ queue' = [queue EXCEPT ![Min(Claimable)].status = "processing"]
  BY DEF ClaimEnrichmentItem
<1>2. PICK i \in Claimable : i = Min(Claimable)
  <2>1. Claimable \in SUBSET Nat
    BY <1>0 DEF Claimable
  <2> QED BY <1>1, <2>1, LeastNumber
<1>3. i \in DOMAIN queue /\ queue[i].status = "pending" /\ i \in Nat /\ i # 0
  BY <1>0, <1>2 DEF Claimable
<1>4. /\ queue' \in Seq(Item) /\ DOMAIN queue' = DOMAIN queue
      /\ queue'[i].status = "processing" /\ queue'[i].node = queue[i].node
      /\ \A j \in DOMAIN queue \ {i} : queue'[j] = queue[j]
  <2>1. queue' = [queue EXCEPT ![i].status = "processing"]
    BY <1>1, <1>2
  <2>2. Changed(queue, i, "processing", queue')
    BY <1>0, <1>3, <2>1, StatusSet
  <2> QED BY <2>2 DEF Changed
<1>5. /\ working' \in [Workers -> Nat] /\ working'[w] = i
      /\ \A u \in Workers \ {w} : working'[u] = working[u]
  BY <1>0, <1>1, <1>2, <1>3
<1>6. Held' = Held \cup {i}
  BY <1>1, <1>3, <1>5 DEF Held
<1>7. i \notin Held
  BY <1>0, <1>3 DEF QueueInv
<1>8. Orphan' = Orphan
  BY <1>3, <1>4, <1>6 DEF Orphan
<1>9. QueueInv'
  <2>1. \A s \in OfKind("Snapshot") :
            s \in DOMAIN objects' => \E j \in DOMAIN queue' : queue'[j].node = s
    <3>1. \A j \in DOMAIN queue : queue'[j].node = queue[j].node
      BY <1>4
    <3> QED BY <1>0, <1>1, <1>4, <3>1 DEF QueueInv
  <2>2. \A v, u \in Workers : working'[v] = working'[u] => v = u \/ working'[v] = 0
    <3>1. \A u \in Workers : working[u] # i
      BY <1>3, <1>7 DEF Held
    <3> QED BY <1>0, <1>5, <3>1 DEF QueueInv
  <2>3. \A j \in Held' : j \in DOMAIN queue' /\ queue'[j].status = "processing"
    BY <1>0, <1>3, <1>4, <1>6 DEF QueueInv
  <2>4. Cardinality(Orphan') <= crashes'
    BY <1>0, <1>1, <1>8 DEF QueueInv
  <2> QED BY <2>1, <2>2, <2>3, <2>4 DEF QueueInv
<1> QED BY <1>0, <1>1, <1>4, <1>5, <1>9, WorkerStep

(* A worker that lets go of its item. *)
LEMMA Released ==
    ASSUME ObjInv, NEW w \in Workers, working[w] # 0, working' = [working EXCEPT ![w] = 0]
    PROVE  /\ working' \in [Workers -> Nat] /\ Held' = Held \ {working[w]}
           /\ \A v, u \in Workers : working'[v] = working'[u] => v = u \/ working'[v] = 0
           /\ working[w] \in Held /\ working[w] \in DOMAIN queue
           /\ queue[working[w]].status = "processing" /\ working[w] \notin Orphan
<1>0. QueueInv /\ working \in [Workers -> Nat]
  BY DEF ObjInv, Types
<1>1. /\ working' \in [Workers -> Nat] /\ working'[w] = 0
      /\ \A u \in Workers \ {w} : working'[u] = working[u]
  BY <1>0
<1>2. \A v, u \in Workers : working[v] = working[u] => v = u \/ working[v] = 0
  BY <1>0 DEF QueueInv
<1>3. Held' = Held \ {working[w]}
  BY <1>1, <1>2 DEF Held
<1>4. working[w] \in Held
  BY DEF Held
<1>5. working[w] \in DOMAIN queue /\ queue[working[w]].status = "processing"
  BY <1>0, <1>4 DEF QueueInv
<1>6. working[w] \notin Orphan
  BY <1>4 DEF Orphan
<1> QED BY <1>1, <1>2, <1>3, <1>4, <1>5, <1>6

LEMMA processOneKeeps == ASSUME ObjInv, NEW w \in Workers, processOne(w) PROVE ObjInv'
<1>0. /\ Types /\ QueueInv /\ queue \in Seq(Item) /\ crashes \in 0..MaxCrashes
  BY DEF ObjInv, Types
<1>1. /\ UNCHANGED <<segments, nextSeg, objects, blobs, push, crashes>>
      /\ working[w] # 0 /\ working' = [working EXCEPT ![w] = 0]
  BY DEF processOne
<1>2. /\ working' \in [Workers -> Nat] /\ Held' = Held \ {working[w]}
      /\ \A v, u \in Workers : working'[v] = working'[u] => v = u \/ working'[v] = 0
      /\ working[w] \in Held /\ working[w] \in DOMAIN queue
      /\ queue[working[w]].status = "processing" /\ working[w] \notin Orphan
  BY <1>1, Released
<1>3. PICK i \in DOMAIN queue : i = working[w]
  BY <1>2
<1>4. PICK s \in {"done", "failed"} : queue' = [queue EXCEPT ![i].status = s]
  <2>1. queue' = [queue EXCEPT ![i].status = enrichSnapshot(queue[i].node)]
    BY <1>3 DEF processOne, CompleteEnrichmentItem
  <2>2. enrichSnapshot(queue[i].node) \in {"done", "failed"}
    BY DEF enrichSnapshot
  <2> QED BY <2>1, <2>2
<1>5. /\ queue' \in Seq(Item) /\ DOMAIN queue' = DOMAIN queue
      /\ queue'[i].status = s /\ queue'[i].node = queue[i].node
      /\ \A j \in DOMAIN queue \ {i} : queue'[j] = queue[j]
  <2>1. Changed(queue, i, s, queue')
    BY <1>0, <1>4, StatusSet
  <2> QED BY <2>1 DEF Changed
<1>6. Orphan' = Orphan
  BY <1>2, <1>3, <1>4, <1>5 DEF Orphan
<1>7. QueueInv'
  <2>1. \A n \in OfKind("Snapshot") :
            n \in DOMAIN objects' => \E j \in DOMAIN queue' : queue'[j].node = n
    <3>1. \A j \in DOMAIN queue : queue'[j].node = queue[j].node
      BY <1>5
    <3> QED BY <1>0, <1>1, <1>5, <3>1 DEF QueueInv
  <2>2. \A j \in Held' : j \in DOMAIN queue' /\ queue'[j].status = "processing"
    BY <1>0, <1>2, <1>3, <1>5 DEF QueueInv
  <2>3. Cardinality(Orphan') <= crashes'
    BY <1>0, <1>1, <1>6 DEF QueueInv
  <2> QED BY <1>2, <2>1, <2>2, <2>3 DEF QueueInv
<1> QED BY <1>0, <1>1, <1>2, <1>5, <1>7, WorkerStep

LEMMA WorkerDiesKeeps == ASSUME ObjInv, NEW w \in Workers, WorkerDies(w) PROVE ObjInv'
<1>0. /\ Types /\ QueueInv /\ queue \in Seq(Item) /\ crashes \in 0..MaxCrashes
  BY DEF ObjInv, Types
<1>1. /\ UNCHANGED <<segments, nextSeg, objects, blobs, queue, push>>
      /\ crashes < MaxCrashes /\ crashes' = crashes + 1
      /\ working[w] # 0 /\ working' = [working EXCEPT ![w] = 0]
  BY DEF WorkerDies
<1>2. /\ working' \in [Workers -> Nat] /\ Held' = Held \ {working[w]}
      /\ \A v, u \in Workers : working'[v] = working'[u] => v = u \/ working'[v] = 0
      /\ working[w] \in Held /\ working[w] \in DOMAIN queue
      /\ queue[working[w]].status = "processing" /\ working[w] \notin Orphan
  BY <1>1, Released
<1>3. PICK i \in DOMAIN queue : i = working[w]
  BY <1>2
<1>4. Orphan' = Orphan \cup {i}
  BY <1>1, <1>2, <1>3 DEF Orphan
<1>5. Cardinality(Orphan') <= crashes'
  <2>1. Cardinality(Orphan') = Cardinality(Orphan) + 1
    BY <1>0, <1>2, <1>3, <1>4, OrphanFinite, FS_AddElement
  <2>2. Cardinality(Orphan) <= crashes
    BY <1>0 DEF QueueInv
  <2> QED BY <1>0, <1>1, <2>1, <2>2, OrphanFinite, Bounds
<1>6. QueueInv'
  BY <1>0, <1>1, <1>2, <1>5 DEF QueueInv
<1>7. crashes' \in 0..MaxCrashes
  BY <1>0, <1>1, Bounds
<1> QED BY <1>0, <1>1, <1>2, <1>6, <1>7, WorkerStep

LEMMA NextObjInv == ObjInv /\ [Next]_vars => ObjInv'
<1> SUFFICES ASSUME ObjInv, [Next]_vars PROVE ObjInv'
  OBVIOUS
<1>1. ASSUME NEW p \in Procs, Handler(p) \/ IngestFails(p) \/ CommitUnacknowledged(p)
      PROVE  ObjInv'
  BY <1>1, InsertKeeps, IndexKeeps, IngestCommitKeeps, AnswerIngestedKeeps, DeadlockVictimKeeps,
     IngestFailsKeeps, UnacknowledgedKeeps DEF Handler
<1>2. ASSUME NEW p \in Procs, NEW want \in Wants, Negotiate(p, want) PROVE ObjInv'
  BY <1>2, NegotiateKeeps
<1>3. ASSUME NEW w \in Workers, ClaimEnrichmentItem(w) \/ processOne(w) \/ WorkerDies(w)
      PROVE  ObjInv'
  BY <1>3, ClaimKeeps, processOneKeeps, WorkerDiesKeeps
<1>4. CASE UNCHANGED vars
  <2>1. UNCHANGED <<segments, nextSeg, objects, blobs, queue, push, working, crashes>>
    BY <1>4 DEF vars
  <2>2. Types /\ QueueInv
    BY DEF ObjInv
  <2>3. crashes' \in 0..MaxCrashes /\ queue' \in Seq(Item) /\ working' \in [Workers -> Nat]
    BY <2>1, <2>2 DEF Types
  <2>4. QueueInv'
    <3>1. Held' = Held /\ Orphan' = Orphan
      BY <2>1 DEF Held, Orphan
    <3> QED BY <2>1, <2>2, <3>1 DEF QueueInv
  <2> QED BY <2>1, <2>3, <2>4, WorkerStep
<1> QED BY <1>1, <1>2, <1>3, <1>4 DEF Next

THEOREM ObjInvHolds == Spec => []ObjInv
BY InitObjInv, NextObjInv, PTL DEF Spec
-----------------------------------------------------------------------------
(* What is read.                                                           *)

LEMMA TypesHold == ObjInv => TypeOK
<1> SUFFICES ASSUME ObjInv PROVE TypeOK
  OBVIOUS
<1>1. Types /\ IdInv /\ StoreInv
  BY DEF ObjInv
<1>2. nextSeg \in 1 .. MaxSegs + 1 /\ crashes \in 0 .. MaxCrashes
  BY <1>1, SendingFinite, Bounds DEF Types, IdInv
<1>3. DOMAIN segments \cup DOMAIN blobs \subseteq 1 .. nextSeg - 1 /\ DOMAIN objects \subseteq Digests
  BY <1>1 DEF Types
<1>4. \A d \in DOMAIN objects : objects[d].seg \in DOMAIN segments /\ objects[d].off \in Nat
  <2> TAKE d \in DOMAIN objects
  <2>1. objects[d].seg \in DOMAIN segments /\ objects[d].off \in 1..Len(segments[objects[d].seg])
    BY <1>1 DEF StoreInv, Located
  <2>2. Len(segments[objects[d].seg]) \in Nat
    BY <1>1, <2>1 DEF Types
  <2> QED BY <2>1, <2>2
<1>5. \A i \in DOMAIN queue : queue[i].status \in {"pending", "processing", "done", "failed"}
  <2>1. \A i \in DOMAIN queue : queue[i] \in Item
    BY <1>1 DEF Types
  <2> QED BY <2>1 DEF Item
<1>6. \A p \in Procs :
        push[p].pc \in {"idle", "send", "index", "committed", "stored", "refused", "error"}
  <2>1. \A p \in Procs : push[p] \in PushRec
    BY <1>1 DEF Types
  <2> QED BY <2>1 DEF PushRec
<1> QED BY <1>2, <1>3, <1>4, <1>5, <1>6 DEF TypeOK

(* Whichever copy of the segment serves the read. *)
LEMMA ReadIsTheObject ==
    ASSUME ObjInv, NEW d \in DOMAIN objects PROVE PgExtractObjectFromDB(d) = {d}
<1> DEFINE r == objects[d]
<1>1. /\ r.seg \in DOMAIN segments /\ r.off \in 1..Len(segments[r.seg])
      /\ segments[r.seg][r.off] = d
      /\ r.seg \in DOMAIN blobs => blobs[r.seg] = segments[r.seg]
  BY DEF ObjInv, StoreInv, Located
<1>2. Len(segments[r.seg]) \in Nat /\ r.off <= Len(segments[r.seg])
  <2>1. segments[r.seg] \in Seq(Digests)
    BY <1>1 DEF ObjInv, Types
  <2> QED BY <1>1, <2>1
<1> HIDE DEF r
<1>3. PgGetSegmentBlobByID(r.seg) = {segments[r.seg]}
  BY <1>1 DEF PgGetSegmentBlobByID
<1> DEFINE RangeRead == IF External /\ r.seg \in DOMAIN blobs /\ r.off <= Len(blobs[r.seg])
                        THEN {blobs[r.seg][r.off]} ELSE {}
<1>4. RangeRead \subseteq {d}
  BY <1>1
<1>5. {b[r.off] : b \in {x \in PgGetSegmentBlobByID(r.seg) : r.off <= Len(x)}} = {d}
  BY <1>1, <1>2, <1>3
<1>6. PgExtractObjectFromDB(d) =
          RangeRead \cup {b[r.off] : b \in {x \in PgGetSegmentBlobByID(r.seg) : r.off <= Len(x)}}
  BY DEF PgExtractObjectFromDB, PgGetObjectInfo, r
<1> HIDE DEF RangeRead
<1> QED BY <1>4, <1>5, <1>6

LEMMA ReadsHold == ObjInv => ReadsReturnTheObject
<1> SUFFICES ASSUME ObjInv PROVE ReadsReturnTheObject
  OBVIOUS
<1>1. PgBatchGetObjects(DOMAIN objects) = [d \in DOMAIN objects |-> PgExtractObjectFromDB(d)]
  <2>1. PgHasObjects(DOMAIN objects) = DOMAIN objects
    BY DEF PgHasObjects
  <2> QED BY <2>1 DEF PgBatchGetObjects
<1>2. \A d \in DOMAIN objects : PgExtractObjectFromDB(d) = {d}
  BY ReadIsTheObject
<1> QED BY <1>1, <1>2 DEF ReadsReturnTheObject

(* What an entry of the listing leads to. *)
Leads(e) == {<<e.path, c>> : c \in GetFileContent(e.digest)}

(* A snapshot with inline entries, and one with a list of File objects. *)
LEMMA ArchivesMatch == ArchiveMatchesListing
<1> SUFFICES ASSUME NEW s \in OfKind("Snapshot"), Complete(s)
             PROVE  GetSnapshotArchive(s) = UNION {Leads(e) : e \in ListSnapshotFiles(s)}
  BY DEF ArchiveMatchesListing, Leads
<1>1. /\ \A f \in Node[s].fileDigests :
             Stored(f) /\ Stored(Node[f].content) /\ Node[f].kind = "File"
      /\ \A e \in Node[s].files :
             /\ Stored(e.digest) /\ Stored(Node[e.digest].content) /\ Node[e.digest].kind = "File"
             /\ e.content \in {"", Node[e.digest].content}
  BY ObjectsAssumption DEF Complete, OfKind
<1>2. /\ \A f \in Node[s].fileDigests : GetFileContent(f) = {Node[f].content}
      /\ \A e \in Node[s].files : GetFileContent(e.digest) = {Node[e.digest].content}
  BY <1>1 DEF GetFileContent
<1>3. CASE Node[s].files # {}
  <2> DEFINE F == Node[s].files
             P(e) == <<e.path, Node[e.digest].content>>
             Q(e) == <<e.path, e.content>>
             A == {P(e) : e \in F}
  <2>1. ListSnapshotFiles(s) = F
    BY <1>3 DEF ListSnapshotFiles
  <2>2. \A e \in F : Leads(e) = {P(e)}
    BY <1>2 DEF Leads
  <2>3. ArchiveRefs(s) = {Q(e) : e \in {x \in F : x.content # ""}}
                         \cup {P(e) : e \in {x \in F : x.content = "" /\ Stored(x.digest)}}
    BY <1>3 DEF ArchiveRefs
  <2>4. \A e \in F : (e.content # "" => Q(e) = P(e)) /\ Stored(e.digest) /\ Stored(P(e)[2])
    BY <1>1
  <2> HIDE DEF F, P, Q
  <2>5. UNION {Leads(e) : e \in F} = A
    BY <2>2
  <2>6. ArchiveRefs(s) = A
    BY <2>3, <2>4
  <2>7. GetSnapshotArchive(s) = A
    BY <2>4, <2>6 DEF GetSnapshotArchive
  <2> QED BY <2>1, <2>5, <2>7
<1>4. CASE Node[s].files = {}
  <2> DEFINE G == {g \in Node[s].fileDigests : Stored(g) /\ Node[g].kind = "File"}
             E(f) == [path |-> Node[f].path, digest |-> f, content |-> Node[f].content]
             P(f) == <<Node[f].path, Node[f].content>>
  <2>1. ListSnapshotFiles(s) = {E(f) : f \in G}
    BY <1>4 DEF ListSnapshotFiles
  <2>2. \A f \in G : Leads(E(f)) = {P(f)} /\ Stored(P(f)[2])
    <3> TAKE f \in G
    <3>1. E(f).path = Node[f].path /\ E(f).digest = f /\ f \in Node[s].fileDigests
      OBVIOUS
    <3>2. GetFileContent(f) = {Node[f].content} /\ Stored(Node[f].content)
      BY <1>1, <1>2, <3>1
    <3>3. Leads(E(f)) = {<<E(f).path, c>> : c \in GetFileContent(E(f).digest)}
      BY DEF Leads
    <3>4. P(f) = <<Node[f].path, Node[f].content>> /\ P(f)[2] = Node[f].content
      OBVIOUS
    <3> HIDE DEF E, P, G
    <3>5. Leads(E(f)) = {<<Node[f].path, c>> : c \in {Node[f].content}}
      BY <3>1, <3>2, <3>3
    <3> QED BY <3>2, <3>4, <3>5
  <2>3. ArchiveRefs(s) = {P(f) : f \in G}
    BY <1>4 DEF ArchiveRefs
  <2> HIDE DEF G, E, P
  <2>4. UNION {Leads(e) : e \in {E(f) : f \in G}} = {P(f) : f \in G}
    BY <2>2
  <2>5. GetSnapshotArchive(s) = {P(f) : f \in G}
    BY <2>2, <2>3 DEF GetSnapshotArchive
  <2> QED BY <2>1, <2>4, <2>5
<1> QED BY <1>3, <1>4

(* Whatever uploads, roll-backs, deadlocks, dishonest packs and crashes    *)
(* came before, every stored object reads back as itself, alone, in a      *)
(* batch and in an archive.                                                *)
THEOREM ReadsAreTrueHolds == Spec => []ReadsAreTrue
<1>1. ObjInv => ReadsAreTrue
  BY TypesHold, ReadsHold, ArchivesMatch DEF ReadsAreTrue
<1> QED BY <1>1, ObjInvHolds, PTL

(* No snapshot is stored without its enrichment item, no two workers have  *)
(* one item, and an item is stuck only if a worker died over it.           *)
THEOREM EnrichmentHolds == Spec => []EnrichmentAccounted
<1>1. ObjInv => EnrichmentAccounted
  <2> SUFFICES ASSUME ObjInv PROVE EnrichmentAccounted
    OBVIOUS
  <2>1. QueueInv
    BY DEF ObjInv
  <2> QED BY <2>1 DEF QueueInv, EnrichmentAccounted, Held, Orphan, Stored
<1> QED BY <1>1, ObjInvHolds, PTL
-----------------------------------------------------------------------------
(* The store implements ContentStore: its steps are ContentStore's.        *)

(* What a client is told of a push. *)
Told(x) ==
    [state |-> CASE x.pc = "idle" -> "none"
                 [] x.pc \in {"send", "index"} -> "open"
                 [] OTHER -> x.pc,
     want  |-> x.want]
Asked == [p \in Procs |-> Answer(p)]

LEMMA ToldCases ==
    ASSUME NEW x \in PushRec
    PROVE  /\ Told(x).want = x.want /\ Told(x) = [state |-> Told(x).state, want |-> x.want]
           /\ x.pc = "idle" => Told(x).state = "none"
           /\ x.pc \in {"send", "index"} => Told(x).state = "open"
           /\ x.pc \in {"committed", "stored", "refused", "error"} => Told(x).state = x.pc
BY DEF Told

(* The clients' view of a step of p. *)
LEMMA AskedStep ==
    ASSUME Types, NEW p \in Procs, NEW v \in PushRec, push' = [push EXCEPT ![p] = v]
    PROVE  /\ Asked' = [Asked EXCEPT ![p] = Told(v)] /\ Asked[p] = Told(push[p])
           /\ Told(v) = Told(push[p]) => Asked' = Asked
<1>1. push \in [Procs -> PushRec]
  BY DEF Types
<1>2. Asked = [q \in Procs |-> Told(push[q])] /\ Asked' = [q \in Procs |-> Told(push'[q])]
  BY DEF Asked, Answer, Told
<1>3. push'[p] = v /\ \A q \in Procs \ {p} : push'[q] = push[q]
  BY <1>1
<1> QED BY <1>2, <1>3

(* The steps of ContentStore, on the mapped variables. *)
StoreStep(p) ==
    \/ /\ UNCHANGED <<DOMAIN objects, Asked>>
    \/ \E want \in Wants : Promise!Ask(p, want) \/ Promise!AlreadyStored(p, want)
    \/ Promise!Store(p) \/ Promise!Acknowledge(p) \/ Promise!Refuse(p) \/ Promise!Fail(p)

LEMMA StoreStepIsNext == ASSUME NEW p \in Procs, StoreStep(p) PROVE [Promise!Next]_(Promise!csVars)
BY DEF StoreStep, Promise!Next, Promise!csVars, Asked
(* A push whose client waits is given an answer. *)
LEMMA AnswerStep ==
    ASSUME ObjInv, NEW p \in Procs, push[p].pc \in {"send", "index", "committed"},
           NEW told \in {"stored", "refused", "error"},
           told = "stored" => push[p].pc = "committed",
           told = "refused" => push[p].pc # "committed",
           push' = [push EXCEPT ![p] = Answers(p, told)], UNCHANGED objects
    PROVE  StoreStep(p)
<1>1. Types /\ push[p] \in PushRec /\ push[p].want \in SUBSET Digests
  BY DEF ObjInv, Types, PushRec
<1>2. PICK v \in PushRec : v.pc = told /\ v.want = push[p].want /\ push' = [push EXCEPT ![p] = v]
  <2>1. told \in {"committed", "stored", "refused", "error"}
    OBVIOUS
  <2>2. /\ Answers(p, told) \in PushRec /\ Answers(p, told).pc = told
        /\ Answers(p, told).want = push[p].want
    BY <1>1, <2>1, AnswersRec
  <2> QED BY <2>2
<1>. DEFINE was == IF push[p].pc = "committed" THEN "committed" ELSE "open"
<1>3. /\ Told(push[p]) = [state |-> was, want |-> push[p].want]
      /\ Told(v) = [state |-> told, want |-> push[p].want]
  BY <1>1, <1>2, ToldCases
<1>4. Asked' = [Asked EXCEPT ![p] = Told(v)] /\ Asked[p] = Told(push[p])
  BY <1>1, <1>2, AskedStep
<1>5. Asked' = [Asked EXCEPT ![p].state = told] /\ Asked[p].state = was
  <2>1. [Asked[p] EXCEPT !.state = told] = Told(v) /\ Asked[p].state = was
    BY <1>3, <1>4
  <2> QED BY <1>4, <2>1
<1>6. Promise!Acknowledge(p) \/ Promise!Refuse(p) \/ Promise!Fail(p)
  BY <1>5 DEF Promise!Acknowledge, Promise!Refuse, Promise!Fail, Asked
<1> QED BY <1>6 DEF StoreStep

LEMMA AnswerIngestedStep == ASSUME ObjInv, NEW p \in Procs, AnswerIngested(p) PROVE StoreStep(p)
BY AnswerStep DEF AnswerIngested

LEMMA FailureStep ==
    ASSUME ObjInv, NEW p \in Procs, IngestFails(p) \/ CommitUnacknowledged(p)
    PROVE  StoreStep(p)
BY AnswerStep DEF IngestFails, CommitUnacknowledged, Rollback

LEMMA NegotiateStep ==
    ASSUME ObjInv, NEW p \in Procs, NEW want \in Wants, Negotiate(p, want)
    PROVE  StoreStep(p)
<1> DEFINE missing == want \ PgHasObjects(want)
<1>1. /\ Types /\ push[p] \in PushRec /\ want \in SUBSET Digests /\ IsFiniteSet(want)
      /\ UNCHANGED objects /\ push[p].pc \in {"idle", "refused", "error"}
  <2>1. UNCHANGED objects /\ push[p].pc \in {"idle", "refused", "error"}
    BY DEF Negotiate
  <2> QED BY <2>1, WantsFinite DEF ObjInv, Types
<1>2. Told(push[p]).state \in Promise!MayAsk
  BY <1>1, ToldCases DEF Promise!MayAsk
<1>3. CASE missing = {}
  <2>1. PICK v \in PushRec :
            v.pc = "stored" /\ v.want = want /\ push' = [push EXCEPT ![p] = v]
    BY <1>1, <1>3, RestRec DEF Negotiate
  <2>2. /\ Asked' = [Asked EXCEPT ![p] = [state |-> "stored", want |-> want]]
        /\ Asked[p].state \in Promise!MayAsk
    <3>1. Told(v) = [state |-> "stored", want |-> want]
      BY <2>1, ToldCases
    <3>2. Asked' = [Asked EXCEPT ![p] = Told(v)] /\ Asked[p] = Told(push[p])
      BY <1>1, <2>1, AskedStep
    <3> QED BY <1>2, <3>1, <3>2
  <2>3. want \subseteq DOMAIN objects
    BY <1>3 DEF PgHasObjects
  <2>4. Promise!AlreadyStored(p, want)
    BY <1>1, <2>2, <2>3 DEF Promise!AlreadyStored, Asked
  <2> QED BY <2>4 DEF StoreStep
<1>4. CASE missing # {}
  <2>1. PICK q \in Packs(missing) :
            push' = [push EXCEPT ![p] = [IdlePush EXCEPT !.pc = "send", !.want = want, !.pack = q]]
    BY <1>4 DEF Negotiate
  <2>2. missing \in SUBSET Digests /\ IsFiniteSet(missing)
    BY <1>1, FS_Subset
  <2> HIDE DEF missing
  <2>3. q \in Seq(Entry)
    BY <1>4, <2>2, PackEntries
  <2>4. PICK v \in PushRec : v.pc = "send" /\ v.want = want /\ push' = [push EXCEPT ![p] = v]
    <3>1. push' = [push EXCEPT ![p] = SendOf(want, q)]
      BY <2>1 DEF SendOf
    <3>2. want \in SUBSET Digests
      BY <1>1
    <3>3. /\ SendOf(want, q) \in PushRec /\ SendOf(want, q).pc = "send"
          /\ SendOf(want, q).want = want
      BY <2>3, <3>2, SendRec
    <3> QED BY <3>1, <3>3
  <2>5. /\ Asked' = [Asked EXCEPT ![p] = Promise!Open(want)]
        /\ Asked[p].state \in Promise!MayAsk
    <3>1. Told(v) = Promise!Open(want)
      BY <2>4, ToldCases DEF Promise!Open
    <3> QED BY <1>1, <1>2, <2>4, <3>1, AskedStep
  <2>6. Promise!Ask(p, want)
    BY <1>1, <2>5 DEF Promise!Ask, Asked
  <2> QED BY <2>6 DEF StoreStep
<1> QED BY <1>3, <1>4

LEMMA InsertStep == ASSUME ObjInv, NEW p \in Procs, PgInsertSegmentTx(p) PROVE StoreStep(p)
<1>1. Types /\ push[p] \in PushRec /\ nextSeg \in Nat /\ push \in [Procs -> PushRec]
  BY DEF ObjInv, Types
<1>2. push[p].pc = "send" /\ UNCHANGED objects
  BY DEF PgInsertSegmentTx
<1>3. PICK v \in PushRec :
          v.pc = "index" /\ v.want = push[p].want /\ push' = [push EXCEPT ![p] = v]
  <2> DEFINE w == [push[p] EXCEPT !.pc = "index", !.seg = nextSeg, !.i = 1]
  <2>1. w \in PushRec /\ w.pc = "index" /\ w.want = push[p].want
    BY <1>1 DEF PushRec
  <2>2. push' = [push EXCEPT ![p] = w]
    BY <1>1 DEF PgInsertSegmentTx, NextSegmentID
  <2> HIDE DEF w
  <2> QED BY <2>1, <2>2
<1>4. Told(v) = Told(push[p])
  BY <1>1, <1>2, <1>3, ToldCases
<1>5. Asked' = Asked
  BY <1>1, <1>3, <1>4, AskedStep
<1> QED BY <1>2, <1>5 DEF StoreStep

LEMMA IndexStep == ASSUME ObjInv, NEW p \in Procs, IndexObject(p) PROVE StoreStep(p)
<1>1. Types /\ push[p] \in PushRec /\ push \in [Procs -> PushRec]
  BY DEF ObjInv, Types
<1>2. push[p].pc = "index" /\ UNCHANGED objects
  BY DEF IndexObject
<1>3. CASE Rollback(p, "refused")
  BY <1>2, <1>3, AnswerStep DEF Rollback
<1>4. CASE ~Rollback(p, "refused")
  <2>1. push' = [push EXCEPT
                ![p].i = @ + 1,
                ![p].rows = IF Stored(push[p].pack[push[p].i].digest)
                               \/ Holder(push[p].pack[push[p].i].digest) # {}
                            THEN @ ELSE @ \cup {<<push[p].pack[push[p].i].digest, push[p].i>>},
                ![p].items = IF Node[push[p].pack[push[p].i].digest].kind = "Snapshot"
                             THEN Append(@, push[p].pack[push[p].i].digest) ELSE @]
    BY <1>4 DEF IndexObject
  <2>2. Asked' = Asked
    <3>1. \A q \in Procs \ {p} : push'[q] = push[q]
      BY <1>1, <2>1
    <3>2. push'[p].pc = push[p].pc /\ push'[p].want = push[p].want
      BY <1>1, <2>1 DEF PushRec
    <3> QED BY <3>1, <3>2 DEF Asked, Answer
  <2> QED BY <1>2, <2>2 DEF StoreStep
<1> QED BY <1>3, <1>4

(* The victim of a deadlock has rows that another push waits for. *)
LEMMA VictimStep == ASSUME ObjInv, NEW p \in Procs, DeadlockVictim(p) PROVE StoreStep(p)
<1>1. PICK S \in SUBSET Procs : p \in S /\ S = UNION {WaitsFor(q) : q \in S}
  BY DEF DeadlockVictim
<1>2. PICK q \in S : p \in WaitsFor(q)
  BY <1>1
<1>3. push[p].pc = "index"
  BY <1>2 DEF WaitsFor, Holder
<1> QED BY <1>3, AnswerStep DEF DeadlockVictim, Rollback

(* At the commit, what was asked for is stored, and nothing else is new. *)
LEMMA CommitStep == ASSUME ObjInv, NEW p \in Procs, IngestCommit(p) PROVE StoreStep(p)
<1>1. Types /\ PushInv /\ push[p] \in PushRec /\ push[p].want \in SUBSET Digests
  BY DEF ObjInv, Types, PushRec
<1>2. PICK x \in PushRec : x = push[p]
  BY <1>1
<1>3. PICK v \in PushRec : v.pc = "committed" /\ v.want = x.want /\ push' = [push EXCEPT ![p] = v]
  <2>1. x.want \in SUBSET Digests
    BY DEF PushRec
  <2>2. push' = [push EXCEPT ![p] = [IdlePush EXCEPT !.pc = "committed", !.want = x.want]]
    BY <1>2 DEF IngestCommit, Answers
  <2> QED BY <2>1, <2>2, RestRec
<1>4. /\ PackInv(x) /\ IndexInv(x) /\ x.pc = "index" /\ x.i > Len(x.pack)
      /\ x.i \in Nat /\ Len(x.pack) \in Nat
  <2>1. x.pack \in Seq(Entry) /\ x.i \in Nat
    BY DEF PushRec
  <2>2. x.pc = "index" /\ x.i > Len(x.pack)
    BY <1>2 DEF IngestCommit
  <2> QED BY <1>1, <1>2, <2>1, <2>2 DEF PushInv
<1>5. \A j \in 1..Len(x.pack) : j \in 1..(x.i - 1)
  BY <1>4
<1>6. x.i - 1 = Len(x.pack)
  <2>1. x.i \in 1..(Len(x.pack) + 1)
    BY <1>4 DEF IndexInv
  <2> QED BY <1>4, <2>1
<1>7. Written(x) \subseteq x.want
  <2>1. \A r \in x.rows : r[2] \in 1..Len(x.pack) /\ x.pack[r[2]].digest = r[1]
    BY <1>4, <1>6 DEF IndexInv
  <2>2. \A j \in 1..Len(x.pack) : x.pack[j].digest \in x.want
    BY <1>4 DEF PackInv
  <2> QED BY <2>1, <2>2 DEF Written
<1>8. x.want \subseteq DOMAIN objects \cup Written(x)
  <2> SUFFICES ASSUME NEW d \in x.want, d \notin DOMAIN objects PROVE d \in Written(x)
    OBVIOUS
  <2>1. PICK j \in 1..Len(x.pack) : x.pack[j].digest = d
    BY <1>4 DEF PackInv, Sent
  <2>2. \E r \in x.rows : r[1] = d
    BY <1>4, <1>5, <2>1 DEF IndexInv
  <2> QED BY <2>2 DEF Written
<1>9. DOMAIN objects' = DOMAIN objects \cup x.want
  <2>1. DOMAIN objects' = DOMAIN objects \cup Written(x)
    BY <1>2, CommitWrites DEF Commits
  <2> QED BY <1>7, <1>8, <2>1
<1>10. /\ Told(x) = [state |-> "open", want |-> x.want]
       /\ Told(v) = [state |-> "committed", want |-> x.want]
  BY <1>3, <1>4, ToldCases
<1>11. Asked' = [Asked EXCEPT ![p] = Told(v)] /\ Asked[p] = Told(x)
  BY <1>1, <1>2, <1>3, AskedStep
<1>12. /\ Asked' = [Asked EXCEPT ![p].state = "committed"]
       /\ Asked[p].state = "open" /\ Asked[p].want = x.want
  <2>1. /\ [Asked[p] EXCEPT !.state = "committed"] = Told(v)
        /\ Asked[p].state = "open" /\ Asked[p].want = x.want
    BY <1>10, <1>11
  <2> QED BY <1>11, <2>1
<1>13. Promise!Store(p)
  BY <1>9, <1>12 DEF Promise!Store, Asked
<1> QED BY <1>13 DEF StoreStep

(* Safety of the refinement; that every request is answered is liveness.   *)
THEOREM StoreRefines == Spec => Promise!Init /\ [][Promise!Next]_(Promise!csVars)
<1>1. Init => Promise!Init
  <2> SUFFICES ASSUME Init PROVE Promise!Init
    OBVIOUS
  <2>1. DOMAIN objects = {}
    BY DEF Init, Empty
  <2>2. \A p \in Procs : Answer(p) = [state |-> "none", want |-> {}]
    BY DEF Init, Answer, IdlePush
  <2> QED BY <2>1, <2>2 DEF Promise!Init
<1>2. ObjInv /\ [Next]_vars => [Promise!Next]_(Promise!csVars)
  <2> SUFFICES ASSUME ObjInv, [Next]_vars PROVE [Promise!Next]_(Promise!csVars)
    OBVIOUS
  <2>1. ASSUME NEW p \in Procs, Handler(p) PROVE [Promise!Next]_(Promise!csVars)
    <3>1. StoreStep(p)
      BY <2>1, InsertStep, IndexStep, CommitStep, AnswerIngestedStep, VictimStep DEF Handler
    <3> QED BY <3>1, StoreStepIsNext
  <2>2. ASSUME NEW p \in Procs, IngestFails(p) \/ CommitUnacknowledged(p)
        PROVE  [Promise!Next]_(Promise!csVars)
    <3>1. StoreStep(p)
      BY <2>2, FailureStep
    <3> QED BY <3>1, StoreStepIsNext
  <2>3. ASSUME NEW p \in Procs, NEW want \in Wants, Negotiate(p, want)
        PROVE  [Promise!Next]_(Promise!csVars)
    BY <2>3, NegotiateStep, StoreStepIsNext
  <2>4. ASSUME UNCHANGED <<objects, push>> PROVE [Promise!Next]_(Promise!csVars)
    BY <2>4 DEF Promise!csVars, Answer
  <2>5. ASSUME NEW w \in Workers, ClaimEnrichmentItem(w) \/ processOne(w) \/ WorkerDies(w)
        PROVE  [Promise!Next]_(Promise!csVars)
    <3>1. UNCHANGED <<objects, push>>
      BY <2>5 DEF ClaimEnrichmentItem, processOne, WorkerDies
    <3> QED BY <2>4, <3>1
  <2>6. CASE UNCHANGED vars
    <3>1. UNCHANGED <<objects, push>>
      BY <2>6 DEF vars
    <3> QED BY <2>4, <3>1
  <2> QED BY <2>1, <2>2, <2>3, <2>5, <2>6 DEF Next
<1> QED BY <1>1, <1>2, ObjInvHolds, PTL DEF Spec
===============================================================================
