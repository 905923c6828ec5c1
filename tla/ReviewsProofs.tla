----------------------------- MODULE ReviewsProofs -----------------------------
(* Proofs about Reviews: an ended review stays ended as long as its requests *)
(* do not overlap, a merge is whole, notices speak of committed updates and  *)
(* nobody gets two mails about one, for any number of requests, reviews,     *)
(* names and recipients.                                                     *)
(*                                                                           *)
(* Handlers read the ref and the object outside the transaction that writes  *)
(* the new version. What they hold stays true because objects do not change: *)
(* the invariant says that a request names a version of its review, and that *)
(* the ref of a review names the last of its versions. The loop              *)
(* over the recipients is shown, name by name, to keep the mails distinct.   *)
EXTENDS Reviews, FiniteSetTheorems, NaturalsInduction, WellFoundedInduction, TLAPS

Version   == [rev : Ids, state : States, author : Authors,
              assignees : NameLists \cup {<< >>}, from : Nat]
Handlers  == {"state", "update", "comment"}

(* The version numbered i, among vs, and the one it was made from. *)
Follows(vs, i) ==
    LET v == vs[i] IN
    /\ v.from \in 0 .. i - 1
    /\ v.from # 0 =>
         /\ vs[v.from].rev = v.rev
         /\ v.state # vs[v.from].state => v.state \in validTransitions(vs[v.from].state)

VersionInv ==
    /\ versions \in Seq(Version)
    /\ \A i \in DOMAIN versions : Follows(versions, i)
    /\ ref \in [Ids -> 0 .. Len(versions)]
    /\ \A r \in Ids : ref[r] # 0 => versions[ref[r]].rev = r
    /\ \A k \in DOMAIN versions : k <= ref[versions[k].rev]
    /\ \A c \in comments : c.on \in DOMAIN versions

(* What a request r has read. *)
ReadInv(r, vs) ==
    /\ r.op \in Handlers =>
         r.rev \in Ids /\ r.read \in DOMAIN vs /\ vs[r.read].rev = r.rev
    /\ r.op = "state" => r.state \in validTransitions(vs[r.read].state)
    /\ r.op = "update" => r.assignees \in NameLists
ReqInv == DOMAIN req = Requests /\ \A p \in Requests : ReadInv(req[p], versions)

(* A merge is recorded under the version that it wrote. *)
MergeInv == MergeIsAtomic /\ unread \subseteq DOMAIN versions

ReviewInv == VersionInv /\ ReqInv /\ EndingsLast /\ MergeInv /\ NoticesAreCommitted
-----------------------------------------------------------------------------
(* The transitions of a review's state. *)

LEMMA Transitions ==
  ASSUME NEW t, NEW s \in validTransitions(t)
  PROVE  /\ s \in States /\ s # "draft"
         /\ t \in States \ {"merged", "abandoned"}
         /\ s = "merged" => t \in {"open", "approved"}
<1>1. CASE t = "draft"  BY <1>1 DEF validTransitions, States
<1>2. CASE t = "open"  BY <1>2 DEF validTransitions, States
<1>3. CASE t = "approved"  BY <1>3 DEF validTransitions, States
<1>4. CASE t = "changes_requested"  BY <1>4 DEF validTransitions, States
<1>5. CASE t \notin {"draft", "open", "approved", "changes_requested"}
  <2>1. validTransitions(t) = {}  BY <1>5 DEF validTransitions
  <2>. QED  BY <2>1
<1>. QED  BY <1>1, <1>2, <1>3, <1>4, <1>5

-----------------------------------------------------------------------------
(* Objects are only added. *)

Longer(vs, us) == DOMAIN vs \subseteq DOMAIN us /\ \A i \in DOMAIN vs : us[i] = vs[i]

LEMMA LongerRefl == ASSUME NEW vs PROVE Longer(vs, vs)
BY DEF Longer

LEMMA Appended ==
  ASSUME NEW S, NEW q \in Seq(S), NEW x \in S
  PROVE  /\ Append(q, x) \in Seq(S)
         /\ DOMAIN Append(q, x) = DOMAIN q \cup {Len(q) + 1}
         /\ Append(q, x)[Len(q) + 1] = x
         /\ \A i \in DOMAIN q : Append(q, x)[i] = q[i]
         /\ Len(Append(q, x)) = Len(q) + 1
         /\ DOMAIN q = 1 .. Len(q) /\ Len(q) \in Nat
OBVIOUS

(* The version v of review r is stored. *)
Fits(v, r, vs) ==
    /\ v \in Version /\ v.rev = r
    /\ v.from # 0 =>
         /\ v.from \in DOMAIN vs /\ vs[v.from].rev = r
         /\ v.state # vs[v.from].state => v.state \in validTransitions(vs[v.from].state)

LEMMA Stored ==
  ASSUME VersionInv, NEW r \in Ids, NEW v, Fits(v, r, versions), StoreVersion(r, v)
  PROVE  /\ versions' \in Seq(Version)
         /\ DOMAIN versions' = DOMAIN versions \cup {Len(versions) + 1}
         /\ versions'[Len(versions) + 1] = v
         /\ Longer(versions, versions')
         /\ Len(versions') = Len(versions) + 1
         /\ DOMAIN versions = 1 .. Len(versions) /\ Len(versions) \in Nat
         /\ ref' = [ref EXCEPT ![r] = Len(versions) + 1]
<1>1. versions \in Seq(Version)  BY DEF VersionInv
<1>2. v \in Version  BY DEF Fits
<1>3. versions' = Append(versions, v) /\ ref' = [ref EXCEPT ![r] = Len(versions) + 1]
  BY DEF StoreVersion
<1>4. /\ versions' \in Seq(Version)
      /\ DOMAIN versions' = DOMAIN versions \cup {Len(versions) + 1}
      /\ versions'[Len(versions) + 1] = v
      /\ \A i \in DOMAIN versions : versions'[i] = versions[i]
      /\ Len(versions') = Len(versions) + 1
      /\ DOMAIN versions = 1 .. Len(versions) /\ Len(versions) \in Nat
  BY <1>1, <1>2, <1>3, Appended
<1>. QED  BY <1>3, <1>4 DEF Longer

LEMMA StoredFollows ==
  ASSUME VersionInv, NEW r \in Ids, NEW v, Fits(v, r, versions), StoreVersion(r, v),
         NEW i \in DOMAIN versions'
  PROVE  Follows(versions', i)
<1>1. /\ DOMAIN versions' = DOMAIN versions \cup {Len(versions) + 1}
      /\ versions'[Len(versions) + 1] = v
      /\ Longer(versions, versions')
      /\ DOMAIN versions = 1 .. Len(versions) /\ Len(versions) \in Nat
  BY Stored
<1>2. CASE i \in DOMAIN versions
  <2>1. Follows(versions, i)  BY <1>2 DEF VersionInv
  <2>2. versions'[i] = versions[i]  BY <1>1, <1>2 DEF Longer
  <2>3. versions[i].from # 0 => versions[i].from \in DOMAIN versions
    BY <2>1, <1>1, <1>2 DEF Follows
  <2>4. versions[i].from # 0 => versions'[versions[i].from] = versions[versions[i].from]
    BY <2>3, <1>1 DEF Longer
  <2>. QED  BY <2>1, <2>2, <2>4 DEF Follows
<1>3. CASE i = Len(versions) + 1
  <2>1. versions'[i] = v  BY <1>1, <1>3
  <2>2. v.from # 0 => v.from \in DOMAIN versions /\ versions'[v.from] = versions[v.from]
    BY <1>1 DEF Fits, Longer
  <2>3. v.from \in 0 .. i - 1
    <3>1. v.from \in Nat  BY DEF Fits, Version
    <3>2. v.from \in 0 .. Len(versions)  BY <1>1, <2>2, <3>1
    <3>. QED  BY <3>2, <1>3, <1>1
  <2>. QED  BY <2>1, <2>2, <2>3 DEF Follows, Fits
<1>. QED  BY <1>1, <1>2, <1>3

LEMMA VersionStep ==
  ASSUME VersionInv, NEW r \in Ids, NEW v, Fits(v, r, versions), StoreVersion(r, v),
         comments' = comments
  PROVE  VersionInv'
<1>1. /\ versions' \in Seq(Version)
      /\ DOMAIN versions' = DOMAIN versions \cup {Len(versions) + 1}
      /\ versions'[Len(versions) + 1] = v
      /\ Longer(versions, versions')
      /\ Len(versions') = Len(versions) + 1
      /\ DOMAIN versions = 1 .. Len(versions) /\ Len(versions) \in Nat
      /\ ref' = [ref EXCEPT ![r] = Len(versions) + 1]
  BY Stored
<1>2. \A i \in DOMAIN versions' : Follows(versions', i)  BY StoredFollows
<1>3. ref' \in [Ids -> 0 .. Len(versions')]
  <2>1. ref \in [Ids -> 0 .. Len(versions)]  BY DEF VersionInv
  <2>2. 0 .. Len(versions) \subseteq 0 .. Len(versions') /\ Len(versions) + 1 \in 0 .. Len(versions')
    BY <1>1
  <2>. QED  BY <1>1, <2>1, <2>2
<1>4. ASSUME NEW x \in Ids, ref'[x] # 0 PROVE versions'[ref'[x]].rev = x
  <2>1. ref \in [Ids -> 0 .. Len(versions)]  BY DEF VersionInv
  <2>2. CASE x = r
    <3>1. ref'[x] = Len(versions) + 1  BY <1>1, <2>1, <2>2
    <3>. QED  BY <1>1, <2>2, <3>1 DEF Fits
  <2>3. CASE x # r
    <3>1. ref'[x] = ref[x] /\ ref[x] \in 0 .. Len(versions)  BY <1>1, <2>1, <2>3
    <3>2. ref[x] \in DOMAIN versions  BY <1>1, <1>4, <3>1
    <3>3. versions'[ref[x]] = versions[ref[x]]  BY <1>1, <3>2 DEF Longer
    <3>. QED  BY <1>4, <3>1, <3>3 DEF VersionInv
  <2>. QED  BY <2>2, <2>3
<1>5. \A c \in comments' : c.on \in DOMAIN versions'  BY <1>1 DEF VersionInv
<1>6. ASSUME NEW k \in DOMAIN versions' PROVE k <= ref'[versions'[k].rev]
  <2>1. ref \in [Ids -> 0 .. Len(versions)] /\ versions \in Seq(Version)  BY DEF VersionInv
  <2>2. CASE k = Len(versions) + 1
    <3>1. versions'[k].rev = r  BY <1>1, <2>2 DEF Fits
    <3>. QED  BY <1>1, <2>1, <2>2, <3>1
  <2>3. CASE k \in DOMAIN versions
    <3>1. versions'[k] = versions[k] /\ versions[k].rev \in Ids
      <4>1. versions'[k] = versions[k]  BY <1>1, <2>3 DEF Longer
      <4>2. versions[k] \in Version  BY <2>1, <2>3
      <4>. QED  BY <4>1, <4>2 DEF Version
    <3>2. k <= ref[versions[k].rev] /\ k <= Len(versions)  BY <1>1, <2>3 DEF VersionInv
    <3>3. ref'[versions[k].rev] \in {ref[versions[k].rev], Len(versions) + 1}  BY <1>1, <2>1, <3>1
    <3>. QED  BY <1>1, <2>1, <2>3, <3>1, <3>2, <3>3
  <2>. QED  BY <1>1, <2>2, <2>3
<1>. QED  BY <1>1, <1>2, <1>3, <1>4, <1>5, <1>6 DEF VersionInv

-----------------------------------------------------------------------------
(* Endings. *)

LEMMA UndisputedBefore ==
  ASSUME NEW N \in Nat, DOMAIN versions = 1 .. N, DOMAIN versions' = 1 .. N + 1,
         Longer(versions, versions'), NEW k \in 1 .. N, Undisputed(k)'
  PROVE  Undisputed(k)
<1>1. SUFFICES ASSUME NEW i \in DOMAIN versions, Replaces(i, k) PROVE versions[k].from = i
  BY DEF Undisputed
<1>2. \A m \in 1 .. N : versions'[m] = versions[m]  BY DEF Longer
<1>3. i \in 1 .. N /\ i < k  BY <1>1 DEF Replaces
<1>4. \A m \in i + 1 .. k - 1 : m \in 1 .. N  BY <1>3
<1>5. Replaces(i, k)'  BY <1>1, <1>2, <1>3, <1>4 DEF Replaces
<1>6. versions'[k].from = i  BY <1>3, <1>5 DEF Undisputed
<1>. QED  BY <1>2, <1>6

ReplacesIn(vs, i, j) ==
    /\ i < j /\ vs[i].rev = vs[j].rev
    /\ \A k \in i + 1 .. j - 1 : vs[k].rev # vs[j].rev

(* The head of the review is what the new version replaces.                  *)
LEMMA ReplacesHead ==
  ASSUME VersionInv, NEW r \in Ids, NEW v, Fits(v, r, versions), StoreVersion(r, v), ref[r] # 0
  PROVE  ReplacesIn(versions', ref[r], Len(versions) + 1)
<1>1. /\ versions' \in Seq(Version)
      /\ DOMAIN versions' = DOMAIN versions \cup {Len(versions) + 1}
      /\ versions'[Len(versions) + 1] = v
      /\ \A i \in DOMAIN versions : versions'[i] = versions[i]
      /\ DOMAIN versions = 1 .. Len(versions) /\ Len(versions) \in Nat
  BY Stored DEF Longer
<1>. DEFINE N == Len(versions)
            h == ref[r]
<1>2. h \in 1 .. N /\ versions[h].rev = r  BY <1>1 DEF VersionInv
<1>3. ASSUME NEW k \in h + 1 .. N PROVE versions'[k].rev # r
  <2>1. k \in DOMAIN versions /\ k > h  BY <1>1, <1>2
  <2>2. k <= ref[versions[k].rev]  BY <2>1 DEF VersionInv
  <2>3. versions[k].rev # r  BY <1>1, <1>2, <2>1, <2>2
  <2>. QED  BY <1>1, <2>1, <2>3
<1>4. versions'[h].rev = r /\ versions'[N + 1].rev = r  BY <1>1, <1>2 DEF Fits
<1>5. h < N + 1 /\ (N + 1) - 1 = N  BY <1>1, <1>2
<1>6. /\ h < N + 1 /\ versions'[h].rev = versions'[N + 1].rev
      /\ \A k \in h + 1 .. (N + 1) - 1 : versions'[k].rev # versions'[N + 1].rev
  BY <1>3, <1>4, <1>5
<1>. QED  BY <1>6 DEF ReplacesIn

LEMMA EndingsStored ==
  ASSUME VersionInv, EndingsLast, NEW r \in Ids, NEW v, Fits(v, r, versions), StoreVersion(r, v)
  PROVE  EndingsLast'
<1>1. /\ DOMAIN versions' = DOMAIN versions \cup {Len(versions) + 1}
      /\ versions'[Len(versions) + 1] = v
      /\ Longer(versions, versions')
      /\ DOMAIN versions = 1 .. Len(versions) /\ Len(versions) \in Nat
  BY Stored
<1>. DEFINE N == Len(versions)
            h == ref[r]
<1>2. N \in Nat /\ DOMAIN versions = 1 .. N /\ DOMAIN versions' = 1 .. N + 1
      /\ \A m \in 1 .. N : versions'[m] = versions[m]
  BY <1>1 DEF Longer
<1>3. \A k \in 1 .. N : Undisputed(k)' => Undisputed(k)  BY <1>1, <1>2, UndisputedBefore
<1>4. SUFFICES ASSUME NEW i \in 1 .. N + 1, NEW j \in 1 .. N + 1, i < j,
                      versions'[i].rev = versions'[j].rev,
                      versions'[i].state \in {"merged", "abandoned"},
                      \A k \in i + 1 .. j : versions'[k].rev = versions'[i].rev => Undisputed(k)'
               PROVE  versions'[j].state = versions'[i].state
  BY <1>2 DEF EndingsLast
<1>5. i \in 1 .. N /\ versions'[i] = versions[i]  BY <1>2, <1>4
<1>6. ASSUME NEW x \in 1 .. N, i < x, x <= j, versions[x].rev = versions[i].rev
      PROVE  versions[x].state = versions[i].state
  <2>1. ASSUME NEW k \in i + 1 .. x, versions[k].rev = versions[i].rev PROVE Undisputed(k)
    <3>1. k \in 1 .. N /\ k \in i + 1 .. j  BY <1>2, <1>5, <1>6
    <3>2. versions'[k].rev = versions'[i].rev  BY <1>2, <1>5, <2>1, <3>1
    <3>. QED  BY <1>3, <1>4, <3>1, <3>2
  <2>2. i \in DOMAIN versions /\ x \in DOMAIN versions  BY <1>2, <1>5, <1>6
  <2>. QED  BY <1>4, <1>5, <1>6, <2>1, <2>2 DEF EndingsLast
<1>7. CASE j \in 1 .. N
  BY <1>2, <1>4, <1>5, <1>6, <1>7
<1>8. CASE j = N + 1
  <2>1. versions'[j] = v /\ v.rev = r /\ versions[i].rev = r
    BY <1>1, <1>4, <1>5, <1>8 DEF Fits
  <2>2. i <= h /\ h \in 0 .. N
    <3>1. i \in DOMAIN versions  BY <1>2, <1>5
    <3>. QED  BY <1>2, <2>1, <3>1 DEF VersionInv
  <2>3. h \in 1 .. N /\ h # 0  BY <1>2, <1>5, <2>2
  <2>4. versions[h].rev = r  BY <2>3 DEF VersionInv
  <2>5. ReplacesIn(versions', h, N + 1)  BY <2>3, ReplacesHead
  <2>6. v.from = h
    <3>1. Undisputed(j)'
      <4>1. j \in i + 1 .. j  BY <1>4, <1>5, <1>8, <1>2
      <4>. QED  BY <1>4, <4>1
    <3>2. h \in DOMAIN versions'  BY <1>2, <2>3
    <3>3. versions'[j].from = h
      <4>1. \A y \in DOMAIN versions' : ReplacesIn(versions', y, j) => versions'[j].from = y
        BY <3>1 DEF Undisputed, Replaces, ReplacesIn
      <4>2. ReplacesIn(versions', h, j)  BY <1>8, <2>5
      <4>. QED  BY <3>2, <4>1, <4>2
    <3>. QED  BY <2>1, <3>3
  <2>7. versions[h].state = versions[i].state
    <3>1. CASE h = i  BY <3>1
    <3>2. CASE h # i
      <4>1. i < h /\ h <= j  BY <1>2, <1>5, <1>8, <2>2, <2>3, <3>2
      <4>. QED  BY <1>6, <2>1, <2>3, <2>4, <4>1
    <3>. QED  BY <3>1, <3>2
  <2>8. v.state # versions[h].state => v.state \in validTransitions(versions[h].state)
    BY <2>3, <2>6 DEF Fits
  <2>9. versions[h].state \in {"merged", "abandoned"}  BY <1>4, <1>5, <2>7
  <2>10. v.state = versions[h].state  BY <2>8, <2>9, Transitions
  <2>. QED  BY <1>5, <2>1, <2>7, <2>10
<1>. QED  BY <1>2, <1>4, <1>7, <1>8

LEMMA EndingsStay == ASSUME EndingsLast, versions' = versions PROVE EndingsLast'
<1>1. \A i, j : Replaces(i, j)' <=> Replaces(i, j)  BY DEF Replaces
<1>2. \A k : Undisputed(k)' <=> Undisputed(k)  BY <1>1 DEF Undisputed
<1>. QED  BY <1>2 DEF EndingsLast

-----------------------------------------------------------------------------
(* Requests. *)

LEMMA ReadKept ==
  ASSUME NEW r, NEW vs, NEW us, Longer(vs, us), ReadInv(r, vs)
  PROVE  ReadInv(r, us)
<1>1. r.op \in Handlers => r.read \in DOMAIN us /\ us[r.read] = vs[r.read]
  BY DEF ReadInv, Longer
<1>2. r.op \in Handlers => r.rev \in Ids /\ us[r.read].rev = r.rev
  BY <1>1 DEF ReadInv
<1>3. r.op = "state" => r.state \in validTransitions(us[r.read].state)
  BY <1>1 DEF ReadInv, Handlers
<1>. QED  BY <1>1, <1>2, <1>3 DEF ReadInv

LEMMA IdleRead == ASSUME NEW vs PROVE ReadInv(Idle, vs)
<1>1. Idle.op = "idle"  BY DEF Idle
<1>. QED  BY <1>1 DEF ReadInv, Handlers

LEMMA ReqStep ==
  ASSUME ReqInv, NEW p \in Requests, NEW r, req' = [req EXCEPT ![p] = r],
         Longer(versions, versions'), ReadInv(r, versions')
  PROVE  ReqInv'
<1>1. DOMAIN req' = Requests /\ req'[p] = r /\ \A q \in Requests \ {p} : req'[q] = req[q]
  BY DEF ReqInv
<1>2. ASSUME NEW q \in Requests PROVE ReadInv(req'[q], versions')
  <2>1. CASE q = p  BY <2>1, <1>1
  <2>2. CASE q # p
    <3>1. ReadInv(req[q], versions)  BY DEF ReqInv
    <3>2. ReadInv(req[q], versions')  BY <3>1, ReadKept
    <3>. QED  BY <3>2, <2>2, <1>1
  <2>. QED  BY <2>1, <2>2
<1>. QED  BY <1>1, <1>2 DEF ReqInv

LEMMA ReqRest ==
  ASSUME ReqInv, req' = req, Longer(versions, versions')
  PROVE  ReqInv'
<1>1. ASSUME NEW q \in Requests PROVE ReadInv(req[q], versions')
  <2>1. ReadInv(req[q], versions)  BY DEF ReqInv
  <2>. QED  BY <2>1, ReadKept
<1>. QED  BY <1>1 DEF ReqInv

LEMMA ReqEnds ==
  ASSUME ReqInv, NEW p \in Requests, req' = [req EXCEPT ![p] = Idle], Longer(versions, versions')
  PROVE  ReqInv'
BY IdleRead, ReqStep
-----------------------------------------------------------------------------
(* Merges and notices. *)

LEMMA MergedAfter ==
  ASSUME VersionInv, NEW r \in Ids, NEW v, Fits(v, r, versions), StoreVersion(r, v)
  PROVE  Merges' = Merges \cup
           (IF /\ v.from # 0 /\ v.state = "merged" /\ versions[v.from].state # "merged"
               /\ HeadOf[r] # NoSnap
            THEN {Len(versions) + 1} ELSE {})
<1>1. /\ DOMAIN versions' = DOMAIN versions \cup {Len(versions) + 1}
      /\ versions'[Len(versions) + 1] = v
      /\ \A i \in DOMAIN versions : versions'[i] = versions[i]
      /\ DOMAIN versions = 1 .. Len(versions) /\ Len(versions) \in Nat
  BY Stored DEF Longer
<1>2. v.rev = r /\ (v.from # 0 => v.from \in DOMAIN versions)  BY DEF Fits
<1>3. \A i \in DOMAIN versions : versions[i].from # 0 => versions[i].from \in DOMAIN versions
  BY <1>1 DEF VersionInv, Follows
<1>. QED  BY <1>1, <1>2, <1>3 DEF Merges

(* No merge: main stays. *)
LEMMA MergeStays ==
  ASSUME MergeInv, Merges' = Merges, mains' = mains, Longer(versions, versions')
  PROVE  MergeInv'
<1>1. snapMain' = snapMain /\ mainLog' = mainLog /\ unread' = unread  BY DEF mains
<1>2. \A i \in mainLog : versions'[i] = versions[i]
  BY DEF MergeInv, MergeIsAtomic, Merges, Longer
<1>3. unread' \subseteq DOMAIN versions'  BY <1>1 DEF MergeInv, Longer
<1>. QED  BY <1>1, <1>2, <1>3 DEF MergeInv, MergeIsAtomic

LEMMA MergesKept == ASSUME versions' = versions PROVE Merges' = Merges
BY DEF Merges

LEMMA MergeHappens ==
  ASSUME VersionInv, MergeInv, NEW r \in Ids, NEW v, Fits(v, r, versions), StoreVersion(r, v),
         Merges' = Merges \cup {Len(versions) + 1}, HeadOf[r] # NoSnap, MergeMovesMain(r, "merged")
  PROVE  MergeInv'
<1>1. /\ DOMAIN versions' = DOMAIN versions \cup {Len(versions) + 1}
      /\ versions'[Len(versions) + 1] = v /\ v.rev = r
      /\ \A i \in DOMAIN versions : versions'[i] = versions[i]
      /\ DOMAIN versions = 1 .. Len(versions) /\ Len(versions) \in Nat
  BY Stored DEF Longer, Fits
<1>. DEFINE N == Len(versions)
<1>2. mainLog \subseteq 1 .. N /\ unread \subseteq 1 .. N  BY <1>1 DEF MergeInv, MergeIsAtomic, Merges
<1>3. N + 1 \notin 1 .. N  BY <1>1
<1>4. \/ snapMain' = HeadOf[r] /\ mainLog' = mainLog \cup {N + 1} /\ unread' = unread
      \/ unread' = unread \cup {N + 1} /\ snapMain' = snapMain /\ mainLog' = mainLog
  BY DEF MergeMovesMain
<1>5. unread' \subseteq DOMAIN versions'  BY <1>1, <1>2, <1>4
<1>6. mainLog' = Merges' \ unread'
  <2>1. mainLog = Merges \ unread  BY DEF MergeInv, MergeIsAtomic
  <2>. QED  BY <1>2, <1>3, <1>4, <2>1
<1>7. mainLog' = {} => snapMain' = NoSnap  BY <1>4 DEF MergeInv, MergeIsAtomic
<1>8. ASSUME NEW i \in mainLog', \A j \in mainLog' : j <= i
      PROVE  snapMain' = HeadOf[versions'[i].rev]
  <2>1. CASE snapMain' = HeadOf[r] /\ mainLog' = mainLog \cup {N + 1} /\ unread' = unread
    <3>1. i = N + 1  BY <1>1, <1>2, <1>8, <2>1
    <3>. QED  BY <1>1, <2>1, <3>1
  <2>2. CASE unread' = unread \cup {N + 1} /\ snapMain' = snapMain /\ mainLog' = mainLog
    <3>1. snapMain = HeadOf[versions[i].rev]  BY <1>8, <2>2 DEF MergeInv, MergeIsAtomic
    <3>2. versions'[i] = versions[i]  BY <1>1, <1>2, <1>8, <2>2
    <3>. QED  BY <2>2, <3>1, <3>2
  <2>. QED  BY <1>4, <2>1, <2>2
<1>. QED  BY <1>5, <1>6, <1>7, <1>8 DEF MergeInv, MergeIsAtomic

(* What the notice n says is committed. *)
Told(n, vs) ==
    n.kind \in {"state", "changes"} =>
        \E i \in DOMAIN vs : vs[i].rev = n.rev /\
            vs[i].state = (IF n.state = "ready" THEN "open" ELSE n.state)

LEMMA ToldIff == NoticesAreCommitted <=> \A n \in notices : Told(n, versions)
BY DEF NoticesAreCommitted, Told

LEMMA NoticeStep ==
  ASSUME NoticesAreCommitted, Longer(versions, versions'),
         \A n \in notices' : n \in notices \/ Told(n, versions')
  PROVE  NoticesAreCommitted'
<1>1. ASSUME NEW n \in notices' PROVE Told(n, versions')
  <2>1. CASE n \in notices
    <3>1. Told(n, versions)  BY <2>1, ToldIff
    <3>. QED  BY <3>1 DEF Told, Longer
  <2>. QED  BY <2>1
<1>. QED  BY <1>1 DEF NoticesAreCommitted, Told

-----------------------------------------------------------------------------
(* The handlers. *)

LEMMA StepCreateReview ==
  ASSUME ReviewInv, NEW r \in Ids, NEW a \in Authors, CreateReview(r, a)
  PROVE  ReviewInv'
<1>. DEFINE v == [rev |-> r, state |-> "draft", author |-> a, assignees |-> <<>>, from |-> 0]
<1>1. StoreVersion(r, v) /\ UNCHANGED <<mains, comments, req, notices>>
  BY DEF CreateReview
<1>2. v \in Version /\ v.rev = r /\ v.state = "draft" /\ v.from = 0  BY DEF Version, States
<1>. HIDE DEF v
<1>3. Fits(v, r, versions)  BY <1>2 DEF Fits
<1>4. VersionInv'  BY <1>1, <1>3, VersionStep DEF ReviewInv
<1>5. Longer(versions, versions')  BY <1>1, <1>3, Stored DEF ReviewInv
<1>6. ReqInv'  BY <1>1, <1>5, ReqRest DEF ReviewInv
<1>7. Merges' = Merges  BY <1>1, <1>2, <1>3, MergedAfter DEF ReviewInv
<1>8. MergeInv'  BY <1>1, <1>5, <1>7, MergeStays DEF ReviewInv
<1>9. EndingsLast'  BY <1>1, <1>3, EndingsStored DEF ReviewInv
<1>10. NoticesAreCommitted'  BY <1>1, <1>5, NoticeStep DEF ReviewInv
<1>. QED  BY <1>4, <1>6, <1>8, <1>9, <1>10 DEF ReviewInv

LEMMA StepPushReview ==
  ASSUME ReviewInv, NEW r \in Ids, NEW a \in Authors, NEW s \in Pushed, PushReview(r, a, s)
  PROVE  ReviewInv'
<1>. DEFINE v == [rev |-> r, state |-> s, author |-> a, assignees |-> <<>>, from |-> 0]
            n == [kind |-> "pushed", rev |-> r]
<1>1. /\ StoreVersion(r, v) /\ notices' = notices \cup {n}
      /\ UNCHANGED <<mains, comments, req>>
  BY DEF PushReview, Notify
<1>2. v \in Version /\ v.rev = r /\ v.from = 0  BY ReviewsAssumption DEF Version
<1>3. n.kind = "pushed"  OBVIOUS
<1>. HIDE DEF v, n
<1>4. Fits(v, r, versions)  BY <1>2 DEF Fits
<1>5. VersionInv'  BY <1>1, <1>4, VersionStep DEF ReviewInv
<1>6. Longer(versions, versions')  BY <1>1, <1>4, Stored DEF ReviewInv
<1>7. ReqInv'  BY <1>1, <1>6, ReqRest DEF ReviewInv
<1>8. Merges' = Merges  BY <1>1, <1>2, <1>4, MergedAfter DEF ReviewInv
<1>9. MergeInv'  BY <1>1, <1>6, <1>8, MergeStays DEF ReviewInv
<1>10. Told(n, versions')  BY <1>3 DEF Told
<1>11. NoticesAreCommitted'  BY <1>1, <1>6, <1>10, NoticeStep DEF ReviewInv
<1>12. EndingsLast'  BY <1>1, <1>4, EndingsStored DEF ReviewInv
<1>. QED  BY <1>5, <1>7, <1>9, <1>11, <1>12 DEF ReviewInv

(* A request reads; nothing else changes. *)
LEMMA StepRead ==
  ASSUME ReviewInv, NEW p \in Requests, NEW r, req' = [req EXCEPT ![p] = r],
         ReadInv(r, versions), UNCHANGED <<versions, ref, mains, comments, notices>>
  PROVE  ReviewInv'
<1>1. Longer(versions, versions')  BY LongerRefl
<1>2. ReadInv(r, versions')  OBVIOUS
<1>3. ReqInv'  BY <1>1, <1>2, ReqStep DEF ReviewInv
<1>4. VersionInv'  BY DEF ReviewInv, VersionInv
<1>5. MergeInv'  BY <1>1, MergeStays, MergesKept DEF ReviewInv
<1>6. EndingsLast'  BY EndingsStay DEF ReviewInv
<1>7. NoticesAreCommitted'  BY <1>1, NoticeStep DEF ReviewInv
<1>. QED  BY <1>3, <1>4, <1>5, <1>6, <1>7 DEF ReviewInv

LEMMA RefRead ==
  ASSUME VersionInv, NEW r \in Ids, ref[r] # 0
  PROVE  ref[r] \in DOMAIN versions /\ versions[ref[r]].rev = r
<1>1. ref[r] \in 0 .. Len(versions) /\ versions \in Seq(Version)  BY DEF VersionInv
<1>2. ref[r] \in DOMAIN versions  BY <1>1
<1>. QED  BY <1>2 DEF VersionInv

LEMMA StepUpdateReviewState ==
  ASSUME ReviewInv, NEW p \in Requests, NEW r \in Ids, NEW s, NEW a, UpdateReviewState(p, r, s, a)
  PROVE  ReviewInv'
<1>. DEFINE q == [op |-> "state", rev |-> r, read |-> ref[r], state |-> s, actor |-> a]
<1>1. /\ req' = [req EXCEPT ![p] = q] /\ ref[r] # 0
      /\ s \in validTransitions(versions[ref[r]].state)
      /\ UNCHANGED <<versions, ref, mains, comments, notices>>
  BY DEF UpdateReviewState
<1>2. q.op = "state" /\ q.rev = r /\ q.read = ref[r] /\ q.state = s  OBVIOUS
<1>. HIDE DEF q
<1>3. ref[r] \in DOMAIN versions /\ versions[ref[r]].rev = r  BY <1>1, RefRead DEF ReviewInv
<1>4. ReadInv(q, versions)  BY <1>1, <1>2, <1>3 DEF ReadInv, Handlers
<1>. QED  BY <1>1, <1>4, StepRead

LEMMA StepUpdateReview ==
  ASSUME ReviewInv, NEW p \in Requests, NEW r \in Ids, NEW as \in NameLists, UpdateReview(p, r, as)
  PROVE  ReviewInv'
<1>. DEFINE q == [op |-> "update", rev |-> r, read |-> ref[r], assignees |-> as]
<1>1. /\ req' = [req EXCEPT ![p] = q] /\ ref[r] # 0
      /\ UNCHANGED <<versions, ref, mains, comments, notices>>
  BY DEF UpdateReview
<1>2. q.op = "update" /\ q.rev = r /\ q.read = ref[r] /\ q.assignees = as  OBVIOUS
<1>. HIDE DEF q
<1>3. ref[r] \in DOMAIN versions /\ versions[ref[r]].rev = r  BY <1>1, RefRead DEF ReviewInv
<1>4. ReadInv(q, versions)  BY <1>2, <1>3 DEF ReadInv, Handlers
<1>. QED  BY <1>1, <1>4, StepRead

LEMMA StepCreateReviewComment ==
  ASSUME ReviewInv, NEW p \in Requests, NEW r \in Ids, NEW a, NEW parent, NEW ms,
         CreateReviewComment(p, r, a, parent, ms)
  PROVE  ReviewInv'
<1>. DEFINE q == [op |-> "comment", rev |-> r, read |-> ref[r], actor |-> a,
                  parent |-> parent, mentions |-> ms]
<1>1. /\ req' = [req EXCEPT ![p] = q] /\ ref[r] # 0
      /\ UNCHANGED <<versions, ref, mains, comments, notices>>
  BY DEF CreateReviewComment
<1>2. q.op = "comment" /\ q.rev = r /\ q.read = ref[r]  OBVIOUS
<1>. HIDE DEF q
<1>3. ref[r] \in DOMAIN versions /\ versions[ref[r]].rev = r  BY <1>1, RefRead DEF ReviewInv
<1>4. ReadInv(q, versions)  BY <1>2, <1>3 DEF ReadInv, Handlers
<1>. QED  BY <1>1, <1>4, StepRead
-----------------------------------------------------------------------------
(* The commits. *)

LEMMA CommitRead ==
  ASSUME ReviewInv, NEW p \in Requests, req[p].op \in Handlers
  PROVE  /\ req[p].rev \in Ids /\ req[p].read \in DOMAIN versions
         /\ versions[req[p].read].rev = req[p].rev
         /\ versions[req[p].read] \in Version
         /\ Follows(versions, req[p].read)
         /\ req[p].read # 0
<1>1. ReadInv(req[p], versions)  BY DEF ReviewInv, ReqInv
<1>2. /\ req[p].rev \in Ids /\ req[p].read \in DOMAIN versions
      /\ versions[req[p].read].rev = req[p].rev
  BY <1>1 DEF ReadInv
<1>3. versions \in Seq(Version)  BY DEF ReviewInv, VersionInv
<1>4. versions[req[p].read] \in Version /\ req[p].read # 0  BY <1>2, <1>3
<1>5. Follows(versions, req[p].read)  BY <1>2 DEF ReviewInv, VersionInv
<1>. QED  BY <1>2, <1>4, <1>5

LEMMA StepUpdateReviewStateCommit ==
  ASSUME ReviewInv, NEW p \in Requests, UpdateReviewStateCommit(p)
  PROVE  ReviewInv'
<1>. DEFINE q == req[p]
            r == q.rev
            w == versions[q.read]
            v == [w EXCEPT !.state = q.state, !.from = q.read]
            n == StateNotice(q)
<1>1. /\ q.op = "state" /\ StoreVersion(r, v) /\ MergeMovesMain(r, q.state)
      /\ notices' = notices \cup {n}
      /\ req' = [req EXCEPT ![p] = Idle] /\ comments' = comments
  BY DEF UpdateReviewStateCommit, Notify
<1>2. q.op \in Handlers  BY <1>1 DEF Handlers
<1>3. r \in Ids /\ q.read \in DOMAIN versions /\ w.rev = r /\ w \in Version /\ q.read # 0
  BY <1>2, CommitRead
<1>4. q.state \in validTransitions(w.state)  BY <1>1 DEF ReviewInv, ReqInv, ReadInv
<1>5. q.state \in States  BY <1>4, Transitions
<1>6. q.read \in Nat
  <2>1. versions \in Seq(Version)  BY DEF ReviewInv, VersionInv
  <2>. QED  BY <1>3, <2>1
<1>7. v \in Version /\ v.rev = r /\ v.state = q.state /\ v.from = q.read
  BY <1>3, <1>5, <1>6 DEF Version
<1>8. /\ n.kind = (IF q.state = "changes_requested" THEN "changes" ELSE "state")
      /\ n.rev = r /\ n.state = (IF q.state = "open" THEN "ready" ELSE q.state)
  BY DEF StateNotice
<1>. HIDE DEF v, n
<1>9. Fits(v, r, versions)  BY <1>3, <1>4, <1>7 DEF Fits
<1>10. VersionInv'  BY <1>1, <1>3, <1>9, VersionStep DEF ReviewInv
<1>11. /\ Longer(versions, versions') /\ Len(versions) + 1 \in DOMAIN versions'
       /\ versions'[Len(versions) + 1] = v
  BY <1>1, <1>3, <1>9, Stored DEF ReviewInv
<1>12. ReqInv'  BY <1>1, <1>11, ReqEnds DEF ReviewInv
<1>13. Merges' = Merges \cup
         (IF /\ v.from # 0 /\ v.state = "merged" /\ versions[v.from].state # "merged"
             /\ HeadOf[r] # NoSnap
          THEN {Len(versions) + 1} ELSE {})
  BY <1>1, <1>3, <1>9, MergedAfter DEF ReviewInv
<1>14. MergeInv'
  <2>1. CASE q.state = "merged" /\ HeadOf[r] # NoSnap
    <3>1. w.state # "merged"  BY <1>4, Transitions
    <3>2. Merges' = Merges \cup {Len(versions) + 1}  BY <1>3, <1>7, <1>13, <2>1, <3>1
    <3>3. MergeMovesMain(r, "merged")  BY <1>1, <2>1
    <3>. QED  BY <1>1, <1>3, <1>9, <2>1, <3>2, <3>3, MergeHappens DEF ReviewInv
  <2>2. CASE ~(q.state = "merged" /\ HeadOf[r] # NoSnap)
    <3>1. Merges' = Merges  BY <1>7, <1>13, <2>2
    <3>2. mains' = mains  BY <1>1, <2>2 DEF MergeMovesMain
    <3>. QED  BY <1>11, <3>1, <3>2, MergeStays DEF ReviewInv
  <2>. QED  BY <2>1, <2>2
<1>15. Told(n, versions')
  <2>1. versions'[Len(versions) + 1].rev = n.rev  BY <1>7, <1>8, <1>11
  <2>2. versions'[Len(versions) + 1].state = q.state  BY <1>7, <1>11
  <2>3. q.state # "ready"  BY <1>5 DEF States
  <2>4. q.state = (IF n.state = "ready" THEN "open" ELSE n.state)  BY <1>8, <2>3
  <2>. QED  BY <1>11, <2>1, <2>2, <2>4 DEF Told
<1>16. NoticesAreCommitted'  BY <1>1, <1>11, <1>15, NoticeStep DEF ReviewInv
<1>17. EndingsLast'  BY <1>1, <1>3, <1>9, EndingsStored DEF ReviewInv
<1>. QED  BY <1>10, <1>12, <1>14, <1>16, <1>17 DEF ReviewInv

LEMMA StepUpdateReviewCommit ==
  ASSUME ReviewInv, NEW p \in Requests, UpdateReviewCommit(p)
  PROVE  ReviewInv'
<1>. DEFINE q == req[p]
            r == q.rev
            w == versions[q.read]
            v == [w EXCEPT !.assignees = q.assignees, !.from = q.read]
<1>1. /\ q.op = "update" /\ StoreVersion(r, v)
      /\ req' = [req EXCEPT ![p] = Idle]
      /\ UNCHANGED <<mains, comments, notices>>
  BY DEF UpdateReviewCommit
<1>2. q.op \in Handlers  BY <1>1 DEF Handlers
<1>3. /\ r \in Ids /\ q.read \in DOMAIN versions /\ w.rev = r /\ w \in Version /\ q.read # 0
      /\ Follows(versions, q.read)
  BY <1>2, CommitRead
<1>4. q.assignees \in NameLists  BY <1>1 DEF ReviewInv, ReqInv, ReadInv
<1>5. q.read \in Nat
  <2>1. versions \in Seq(Version)  BY DEF ReviewInv, VersionInv
  <2>. QED  BY <1>3, <2>1
<1>6. v \in Version /\ v.rev = r /\ v.state = w.state /\ v.from = q.read
  BY <1>3, <1>4, <1>5 DEF Version
<1>. HIDE DEF v
<1>7. Fits(v, r, versions)  BY <1>3, <1>6 DEF Fits
<1>8. VersionInv'  BY <1>1, <1>3, <1>7, VersionStep DEF ReviewInv
<1>9. Longer(versions, versions')  BY <1>1, <1>3, <1>7, Stored DEF ReviewInv
<1>10. ReqInv'  BY <1>1, <1>9, ReqEnds DEF ReviewInv
<1>11. Merges' = Merges  BY <1>1, <1>3, <1>6, <1>7, MergedAfter DEF ReviewInv
<1>12. MergeInv'  BY <1>1, <1>9, <1>11, MergeStays DEF ReviewInv
<1>13. EndingsLast'  BY <1>1, <1>3, <1>7, EndingsStored DEF ReviewInv
<1>14. NoticesAreCommitted'  BY <1>1, <1>9, NoticeStep DEF ReviewInv
<1>. QED  BY <1>8, <1>10, <1>12, <1>13, <1>14 DEF ReviewInv

LEMMA StepCreateReviewCommentCommit ==
  ASSUME ReviewInv, NEW p \in Requests, CreateReviewCommentCommit(p)
  PROVE  ReviewInv'
<1>. DEFINE q == req[p]
            c == [id |-> Cardinality(comments) + 1, rev |-> q.rev, on |-> q.read, author |-> q.actor]
            n == [kind |-> "comment", rev |-> q.rev, on |-> q.read,
                  author |-> versions[q.read].author, actor |-> q.actor,
                  parent |-> q.parent, mentions |-> q.mentions]
<1>1. /\ q.op = "comment" /\ comments' = comments \cup {c} /\ notices' = notices \cup {n}
      /\ req' = [req EXCEPT ![p] = Idle]
      /\ UNCHANGED <<versions, ref, mains>>
  BY DEF CreateReviewCommentCommit, Notify
<1>2. q.op \in Handlers  BY <1>1 DEF Handlers
<1>3. q.read \in DOMAIN versions  BY <1>2, CommitRead
<1>4. n.kind = "comment" /\ c.on = q.read  OBVIOUS
<1>. HIDE DEF c, n
<1>5. Longer(versions, versions')  BY <1>1, LongerRefl
<1>6. VersionInv'
  <2>1. \A x \in comments' : x.on \in DOMAIN versions  BY <1>1, <1>3, <1>4 DEF ReviewInv, VersionInv
  <2>. QED  BY <1>1, <2>1 DEF ReviewInv, VersionInv
<1>7. ReqInv'  BY <1>1, <1>5, ReqEnds DEF ReviewInv
<1>8. MergeInv'  BY <1>1, <1>5, MergeStays, MergesKept DEF ReviewInv
<1>9. Told(n, versions')  BY <1>4 DEF Told
<1>10. NoticesAreCommitted'  BY <1>1, <1>5, <1>9, NoticeStep DEF ReviewInv
<1>11. EndingsLast'  BY <1>1, EndingsStay DEF ReviewInv
<1>. QED  BY <1>6, <1>7, <1>8, <1>10, <1>11 DEF ReviewInv

LEMMA StepCommitFails ==
  ASSUME ReviewInv, NEW p \in Requests, CommitFails(p)
  PROVE  ReviewInv'
<1>1. /\ req' = [req EXCEPT ![p] = Idle]
      /\ UNCHANGED <<versions, ref, mains, comments, notices>>
  BY DEF CommitFails, ReviewRollback
<1>2. ReadInv(Idle, versions)  BY IdleRead
<1>. QED  BY <1>1, <1>2, StepRead

(* The goroutines only take notices away, or ask for a review's reviewers. *)
LEMMA StepNotices ==
  ASSUME ReviewInv, NEW n \in notices, notifyReviewCreated(n) \/ NoticeLost(n) \/ Deliver(n)
  PROVE  ReviewInv'
<1>1. UNCHANGED <<versions, ref, mains, comments, req>>
  BY DEF notifyReviewCreated, NoticeLost, Deliver
<1>2. Longer(versions, versions')  BY <1>1, LongerRefl
<1>3. \A m \in notices' : m \in notices \/ m.kind = "review"
  BY DEF notifyReviewCreated, NoticeLost, Deliver
<1>4. \A m \in notices' : m \in notices \/ Told(m, versions')  BY <1>3 DEF Told
<1>5. NoticesAreCommitted'  BY <1>2, <1>4, NoticeStep DEF ReviewInv
<1>6. VersionInv'  BY <1>1 DEF ReviewInv, VersionInv
<1>7. ReqInv'  BY <1>1, <1>2, ReqRest DEF ReviewInv
<1>8. MergeInv'  BY <1>1, <1>2, MergeStays, MergesKept DEF ReviewInv
<1>9. EndingsLast'  BY <1>1, EndingsStay DEF ReviewInv
<1>. QED  BY <1>5, <1>6, <1>7, <1>8, <1>9 DEF ReviewInv

-----------------------------------------------------------------------------
(* The invariant. *)

LEMMA InitInv == ASSUME ReviewsInit PROVE ReviewInv
<1>1. /\ versions = <<>> /\ ref = [r \in Ids |-> 0] /\ snapMain = NoSnap /\ mainLog = {} /\ unread = {}
      /\ comments = {} /\ req = [p \in Requests |-> Idle] /\ notices = {}
  BY DEF ReviewsInit
<1>2. versions \in Seq(Version) /\ DOMAIN versions = {} /\ Len(versions) = 0  BY <1>1
<1>3. VersionInv  BY <1>1, <1>2 DEF VersionInv
<1>4. ReqInv
  <2>1. DOMAIN req = Requests /\ \A p \in Requests : req[p] = Idle  BY <1>1
  <2>. QED  BY <2>1, IdleRead DEF ReqInv
<1>5. Merges = {}  BY <1>2 DEF Merges
<1>6. MergeInv  BY <1>1, <1>5 DEF MergeInv, MergeIsAtomic
<1>7. NoticesAreCommitted  BY <1>1 DEF NoticesAreCommitted
<1>8. EndingsLast  BY <1>2 DEF EndingsLast
<1>. QED  BY <1>3, <1>4, <1>6, <1>7, <1>8 DEF ReviewInv

LEMMA NextInv == ASSUME ReviewInv, [ReviewsNext]_reviewVars PROVE ReviewInv'
<1>1. CASE UNCHANGED reviewVars
  <2>1. UNCHANGED <<versions, ref, mains, comments, req, notices>>
    BY <1>1 DEF reviewVars
  <2>2. Longer(versions, versions')  BY <2>1, LongerRefl
  <2>3. VersionInv'  BY <2>1 DEF ReviewInv, VersionInv
  <2>4. ReqInv'  BY <2>1, <2>2, ReqRest DEF ReviewInv
  <2>5. MergeInv'  BY <2>1, <2>2, MergeStays, MergesKept DEF ReviewInv
  <2>6. NoticesAreCommitted'  BY <2>1, <2>2, NoticeStep DEF ReviewInv
  <2>7. EndingsLast'  BY <2>1, EndingsStay DEF ReviewInv
  <2>. QED  BY <2>3, <2>4, <2>5, <2>6, <2>7 DEF ReviewInv
<1>2. ASSUME NEW r \in Ids, NEW a \in Authors,
             CreateReview(r, a) \/ \E s \in Pushed : PushReview(r, a, s)
      PROVE  ReviewInv'
  BY <1>2, StepCreateReview, StepPushReview
<1>3. ASSUME NEW p \in Requests, NEW r \in Ids,
             \/ \E s \in States, a \in Authors : UpdateReviewState(p, r, s, a)
             \/ \E as \in NameLists : UpdateReview(p, r, as)
             \/ \E a \in Authors, parent \in 0 .. MaxComments, ms \in NameLists :
                    CreateReviewComment(p, r, a, parent, ms)
      PROVE  ReviewInv'
  BY <1>3, StepUpdateReviewState, StepUpdateReview, StepCreateReviewComment
<1>4. ASSUME NEW p \in Requests,
             \/ UpdateReviewStateCommit(p) \/ UpdateReviewCommit(p)
             \/ CreateReviewCommentCommit(p) \/ CommitFails(p)
      PROVE  ReviewInv'
  BY <1>4, StepUpdateReviewStateCommit, StepUpdateReviewCommit, StepCreateReviewCommentCommit,
     StepCommitFails
<1>5. ASSUME NEW n \in notices, notifyReviewCreated(n) \/ NoticeLost(n) \/ Deliver(n)
      PROVE  ReviewInv'
  BY <1>5, StepNotices
<1>. QED  BY <1>1, <1>2, <1>3, <1>4, <1>5 DEF ReviewsNext

LEMMA SpecInv == ReviewsSpec => []ReviewInv
<1>1. ReviewsInit => ReviewInv  BY InitInv
<1>2. ReviewInv /\ [ReviewsNext]_reviewVars => ReviewInv'  BY NextInv
<1>. QED  BY <1>1, <1>2, PTL DEF ReviewsSpec

LEMMA InvMeans == ASSUME ReviewInv PROVE MergesAreFinal
<1>1. \A i \in DOMAIN versions : Follows(versions, i) /\ versions[i] \in Version
  BY DEF ReviewInv, VersionInv
<1>2. ReviewsTypeOK
  <2>1. \A i \in DOMAIN versions : versions[i].state \in States /\ versions[i].from \in 0 .. i - 1
    BY <1>1 DEF Follows, Version
  <2>. QED  BY <2>1 DEF ReviewInv, VersionInv, MergeInv, ReviewsTypeOK
<1>. QED  BY <1>2 DEF ReviewInv, MergeInv, MergesAreFinal

(* A review ends once, and its merge is whole: whatever requests are served  *)
(* between the read of a review and the commit of its next version           *)
(* (routes.go: UpdateReviewState, UpdateReview), the ref stays merged or     *)
(* abandoned until a version made from another head replaces it; a committed *)
(* merge has moved snap.main unless it could not read its changeset, and     *)
(* snap.main is the head of the last one that did.                           *)
THEOREM MergesHold == ReviewsSpec => []MergesAreFinal
<1>1. ReviewInv => MergesAreFinal  BY InvMeans
<1>. QED  BY <1>1, SpecInv, PTL

-----------------------------------------------------------------------------
(* Mails. The loops of the control plane go through the names one by one:    *)
(* after each, the mails sent go to distinct addresses, all of them noted.   *)

Addresses == {Account[name] : name \in DOMAIN Account}

Fresh(acc) ==
    /\ acc = [notified |-> acc.notified, sent |-> acc.sent]
    /\ acc.sent \in Seq(Addresses) /\ IsInjective(acc.sent)
    /\ \A i \in DOMAIN acc.sent : acc.sent[i] \in acc.notified

LEMMA NoneSent == ASSUME NEW S PROVE Fresh([notified |-> S, sent |-> <<>>])
BY DEF Fresh, IsInjective

LEMMA OneSent ==
  ASSUME NEW S, NEW a \in Addresses, a \in S
  PROVE  Fresh([notified |-> S, sent |-> <<a>>])
BY DEF Fresh, IsInjective

LEMMA SendOnceFresh ==
  ASSUME NEW acc, NEW name, Fresh(acc)
  PROVE  Fresh(SendOnce(acc, name))
<1>1. CASE name \in acc.notified \/ ~Known(name)  BY <1>1 DEF SendOnce
<1>2. CASE name \notin acc.notified /\ Known(name) /\ Account[name] \in acc.notified
  BY <1>2 DEF SendOnce
<1>3. CASE name \notin acc.notified /\ Known(name) /\ Account[name] \notin acc.notified
  <2>. DEFINE a == Account[name]
              q == Append(acc.sent, a)
  <2>1. a \in Addresses /\ a \notin acc.notified  BY <1>3 DEF Known, Addresses
  <2>2. SendOnce(acc, name) = [notified |-> acc.notified \cup {name, a}, sent |-> q]
    BY <1>3 DEF SendOnce
  <2>. HIDE DEF a
  <2>3. acc.sent \in Seq(Addresses) /\ IsInjective(acc.sent)
        /\ \A i \in DOMAIN acc.sent : acc.sent[i] \in acc.notified
    BY DEF Fresh
  <2>4. /\ q \in Seq(Addresses) /\ DOMAIN q = DOMAIN acc.sent \cup {Len(acc.sent) + 1}
        /\ q[Len(acc.sent) + 1] = a /\ \A i \in DOMAIN acc.sent : q[i] = acc.sent[i]
    BY <2>1, <2>3, Appended
  <2>. HIDE DEF q
  <2>5. \A i \in DOMAIN acc.sent : q[i] # a  BY <2>1, <2>3, <2>4
  <2>6. IsInjective(q)  BY <2>3, <2>4, <2>5 DEF IsInjective
  <2>7. \A i \in DOMAIN q : q[i] \in acc.notified \cup {name, a}  BY <2>3, <2>4
  <2>. QED  BY <2>2, <2>4, <2>6, <2>7 DEF Fresh
<1>. QED  BY <1>1, <1>2, <1>3

(* What holds of 0 and of the next number, as far as n, holds up to n. *)
LEMMA UpTo ==
  ASSUME NEW n \in Nat, NEW S, 0 \in S, \A i \in 1 .. n : i - 1 \in S => i \in S
  PROVE  \A i \in 0 .. n : i \in S
<1>. DEFINE Bad == (0 .. n) \ S
<1>1. SUFFICES ASSUME Bad # {} PROVE FALSE  OBVIOUS
<1>2. Bad \subseteq Nat  OBVIOUS
<1>3. PICK m \in Bad : \A i \in Bad : ~(<<i, m>> \in OpToRel(<, Nat))
  <2>. HIDE DEF Bad
  <2>. QED  BY <1>1, <1>2, NatLessThanWellFounded, WFMin
<1>4. \A i \in Bad : ~(i < m)
  <2>. HIDE DEF Bad
  <2>. QED  BY <1>2, <1>3 DEF OpToRel
<1>a. m \in 0 .. n /\ m # 0  OBVIOUS
<1>5. m \in 1 .. n /\ m - 1 \in 0 .. n  BY <1>a
<1>6. m - 1 \in S  BY <1>4, <1>5
<1>. QED  BY <1>5, <1>6

LEMMA SendEachFresh ==
  ASSUME NEW start, Fresh(start), NEW names, Len(names) \in Nat
  PROVE  SendEach(start, names) \in Seq(Addresses) /\ IsInjective(SendEach(start, names))
<1>. DEFINE n == Len(names)
            Step(g, i) == IF i = 0 THEN start ELSE SendOnce(g[i - 1], names[i])
            IsLoop(g, k) == g = [i \in 0 .. k |-> Step(g, i)]
            S == {k \in 0 .. n : \E g : IsLoop(g, k)}
<1>1. 0 \in S
  <2>. DEFINE g == [i \in 0 .. 0 |-> start]
  <2>1. IsLoop(g, 0)  OBVIOUS
  <2>. HIDE DEF g, IsLoop
  <2>. QED  BY <2>1
<1>2. ASSUME NEW k \in 1 .. n, k - 1 \in S PROVE k \in S
  <2>1. PICK g : IsLoop(g, k - 1)  BY <1>2
  <2>. DEFINE h == [i \in 0 .. k |-> IF i = k THEN SendOnce(g[k - 1], names[k]) ELSE g[i]]
  <2>2. ASSUME NEW i \in 0 .. k PROVE h[i] = Step(h, i)
    <3>1. CASE i = k
      <4>1. h[k - 1] = g[k - 1]  OBVIOUS
      <4>. QED  BY <3>1, <4>1
    <3>2. CASE i # k
      <4>1. i \in 0 .. k - 1 /\ h[i] = g[i]  BY <3>2
      <4>2. g[i] = Step(g, i)  BY <2>1, <4>1
      <4>3. i # 0 => h[i - 1] = g[i - 1]  BY <4>1
      <4>. QED  BY <4>1, <4>2, <4>3
    <3>. QED  BY <3>1, <3>2
  <2>3. IsLoop(h, k)
    <3>1. h = [i \in 0 .. k |-> h[i]]  OBVIOUS
    <3>. HIDE DEF h
    <3>. QED  BY <2>2, <3>1
  <2>. HIDE DEF h, IsLoop
  <2>. QED  BY <2>3
<1>3. \A k \in 0 .. n : k \in S
  <2>. HIDE DEF S, IsLoop
  <2>. QED  BY <1>1, <1>2, UpTo
<1>4. \E g : IsLoop(g, n)  BY <1>3
<1>. DEFINE after == CHOOSE g : IsLoop(g, n)
<1>5. IsLoop(after, n)
  <2>. HIDE DEF IsLoop
  <2>. QED  BY <1>4
<1>6. SendEach(start, names) = after[n].sent  BY DEF SendEach
<1>. HIDE DEF after, S
<1>7. \A i \in 0 .. n : Fresh(after[i])
  <2>. DEFINE T == {i \in 0 .. n : Fresh(after[i])}
  <2>1. after[0] = start  BY <1>5
  <2>2. 0 \in T  BY <2>1
  <2>3. ASSUME NEW i \in 1 .. n, i - 1 \in T PROVE i \in T
    <3>1. after[i] = SendOnce(after[i - 1], names[i])  BY <1>5
    <3>2. Fresh(after[i - 1])  BY <2>3
    <3>. QED  BY <3>1, <3>2, SendOnceFresh
  <2>4. \A i \in 0 .. n : i \in T
    <3>. HIDE DEF T
    <3>. QED  BY <2>2, <2>3, UpTo
  <2>. QED  BY <2>4
<1>8. Fresh(after[n])  BY <1>7
<1>. QED  BY <1>6, <1>8 DEF Fresh

-----------------------------------------------------------------------------
(* What a notice says is enough to deliver it: recipients come in lists, and *)
(* the ref of a review that was pushed is there when it is read again.       *)

Lists == NameLists \cup {<< >>}

Deliverable(n, rf) ==
    /\ n.kind \in {"pushed", "review", "comment", "changes", "state"}
    /\ n.kind = "pushed"  => n.rev \in Ids /\ rf[n.rev] # 0
    /\ n.kind = "review"  => n.reviewers \in Lists
    /\ n.kind = "comment" => n.mentions \in Lists
    /\ n.kind = "state"   =>
         n.state \in {"merged", "abandoned", "approved", "ready"} /\ n.reviewers \in Lists

MailInv ==
    /\ IsInjective(mails)
    /\ \A n \in notices : Deliverable(n, ref)
    /\ \A p \in Requests : req[p].op = "comment" => req[p].mentions \in NameLists

RefsStay == \A r \in Ids : ref[r] # 0 => ref'[r] # 0

LEMMA ListsAreSequences ==
  ASSUME NEW names \in Lists
  PROVE  /\ Len(names) \in Nat
         /\ \A x : <<x>> \o names \in Seq({x} \cup {names[i] : i \in DOMAIN names})
<1>1. names \in Seq({names[i] : i \in DOMAIN names})
  <2>1. CASE names = <<>>  BY <2>1
  <2>2. CASE names \in NameLists  BY <2>2, ReviewsAssumption
  <2>. QED  BY <2>1, <2>2 DEF Lists
<1>. DEFINE S == {names[i] : i \in DOMAIN names}
<1>. HIDE DEF S
<1>2. names \in Seq(S)  BY <1>1 DEF S
<1>3. ASSUME NEW x PROVE <<x>> \o names \in Seq({x} \cup S)
  <2>1. <<x>> \in Seq({x} \cup S) /\ names \in Seq({x} \cup S)  BY <1>2
  <2>. QED  BY <2>1
<1>. QED  BY <1>2, <1>3 DEF S

LEMMA SendAllInjective ==
  ASSUME NEW names, Len(names) \in Nat, NEW self
  PROVE  IsInjective(SendAll(names, self))
BY NoneSent, SendEachFresh DEF SendAll

LEMMA SingleInjective == ASSUME NEW x PROVE IsInjective(<<x>>)
BY DEF IsInjective

LEMMA DeliverInjective ==
  ASSUME NEW n, Deliverable(n, ref), Deliver(n)
  PROVE  IsInjective(mails')
<1>1. CASE n.kind = "review"
  <2>1. mails' = SendAll(n.reviewers, n.author)  BY <1>1 DEF Deliver, NotifyReview
  <2>2. Len(n.reviewers) \in Nat  BY <1>1, ListsAreSequences DEF Deliverable
  <2>. QED  BY <2>1, <2>2, SendAllInjective
<1>2. CASE n.kind = "comment"
  <2>. DEFINE parent  == findCommentAuthor(n.on, n.parent)
              primary == IF parent # "" THEN parent ELSE n.author
              a       == Account[primary]
              first   == IF primary # n.actor /\ Known(primary)
                         THEN [notified |-> {n.actor, primary, a}, sent |-> <<a>>]
                         ELSE [notified |-> {n.actor}, sent |-> <<>>]
  <2>1. mails' = SendEach(first, n.mentions)  BY <1>2 DEF Deliver, NotifyComment
  <2>2. Len(n.mentions) \in Nat  BY <1>2, ListsAreSequences DEF Deliverable
  <2>3. Fresh(first)
    <3>1. CASE primary # n.actor /\ Known(primary)
      <4>1. a \in Addresses  BY <3>1 DEF Known, Addresses
      <4>2. first = [notified |-> {n.actor, primary, a}, sent |-> <<a>>]  BY <3>1
      <4>. HIDE DEF a, first, primary
      <4>. QED  BY <4>1, <4>2, OneSent
    <3>2. CASE ~(primary # n.actor /\ Known(primary))
      <4>1. first = [notified |-> {n.actor}, sent |-> <<>>]  BY <3>2
      <4>. HIDE DEF first
      <4>. QED  BY <4>1, NoneSent
    <3>. QED  BY <3>1, <3>2
  <2>. HIDE DEF first
  <2>. QED  BY <2>1, <2>2, <2>3, SendEachFresh
<1>3. CASE n.kind = "changes"
  <2>1. mails' = IF Known(n.author) THEN <<Account[n.author]>> ELSE <<>>
    BY <1>3 DEF Deliver, NotifyRequestChanges
  <2>2. IsInjective(<<>>)  BY DEF IsInjective
  <2>. QED  BY <2>1, <2>2, SingleInjective
<1>4. CASE n.kind = "state"
  <2>1. mails' = NotifyReviewState(n)  BY <1>4 DEF Deliver
  <2>2. n.reviewers \in Lists /\ n.state \in {"merged", "abandoned", "approved", "ready"}
    BY <1>4 DEF Deliverable
  <2>3. CASE n.state \in {"merged", "abandoned"}
    <3>1. mails' = SendAll(<<n.author>> \o n.reviewers, n.actor)  BY <2>1, <2>3 DEF NotifyReviewState
    <3>2. Len(<<n.author>> \o n.reviewers) \in Nat  BY <2>2, ListsAreSequences
    <3>. QED  BY <3>1, <3>2, SendAllInjective
  <2>4. CASE n.state = "approved"
    <3>1. mails' = SendAll(<<n.author>>, n.actor)  BY <2>1, <2>4 DEF NotifyReviewState
    <3>2. Len(<<n.author>>) \in Nat  OBVIOUS
    <3>. QED  BY <3>1, <3>2, SendAllInjective
  <2>5. CASE n.state = "ready"
    <3>1. mails' = SendAll(n.reviewers, n.actor)  BY <2>1, <2>5 DEF NotifyReviewState
    <3>2. Len(n.reviewers) \in Nat  BY <2>2, ListsAreSequences
    <3>. QED  BY <3>1, <3>2, SendAllInjective
  <2>. QED  BY <2>2, <2>3, <2>4, <2>5
<1>. QED  BY <1>1, <1>2, <1>3, <1>4 DEF Deliver, Deliverable

LEMMA MailStep ==
  ASSUME MailInv, ReqInv, RefsStay, mails' = mails,
         \A n \in notices' : n \in notices \/ Deliverable(n, ref'),
         \A p \in Requests : req'[p] = req[p] \/ (req'[p].op = "comment" => req'[p].mentions \in NameLists)
  PROVE  MailInv'
<1>1. ASSUME NEW n \in notices' PROVE Deliverable(n, ref')
  <2>1. CASE n \in notices
    <3>1. Deliverable(n, ref)  BY <2>1 DEF MailInv
    <3>2. n.kind = "pushed" => ref'[n.rev] # 0  BY <3>1 DEF Deliverable, RefsStay
    <3>. QED  BY <3>1, <3>2 DEF Deliverable
  <2>. QED  BY <2>1
<1>2. IsInjective(mails')  BY DEF MailInv
<1>3. \A p \in Requests : req'[p].op = "comment" => req'[p].mentions \in NameLists  BY DEF MailInv
<1>. QED  BY <1>1, <1>2, <1>3 DEF MailInv

LEMMA RefsStayStored ==
  ASSUME VersionInv, NEW r \in Ids, NEW v, StoreVersion(r, v)
  PROVE  RefsStay /\ ref'[r] # 0
<1>1. ref \in [Ids -> 0 .. Len(versions)] /\ versions \in Seq(Version)  BY DEF VersionInv
<1>2. Len(versions) \in Nat /\ ref' = [ref EXCEPT ![r] = Len(versions) + 1]
  BY <1>1 DEF StoreVersion
<1>. QED  BY <1>1, <1>2 DEF RefsStay

(* The requests p and the rest of them after req[p] becomes r. *)
LEMMA OneRequest ==
  ASSUME ReqInv, NEW p \in Requests, NEW r, req' = [req EXCEPT ![p] = r],
         r.op = "comment" => r.mentions \in NameLists
  PROVE  \A x \in Requests : req'[x] = req[x] \/ (req'[x].op = "comment" => req'[x].mentions \in NameLists)
BY DEF ReqInv

LEMMA IdleOp == Idle.op # "comment"
BY DEF Idle

LEMMA MailNext == ASSUME ReviewInv, MailInv, [ReviewsNext]_reviewVars PROVE MailInv'
<1>. USE DEF ReviewInv
<1>1. CASE UNCHANGED reviewVars
  BY <1>1, MailStep DEF reviewVars, RefsStay
<1>2. ASSUME NEW r \in Ids, NEW a \in Authors, CreateReview(r, a) PROVE MailInv'
  <2>1. RefsStay  BY <1>2, RefsStayStored DEF CreateReview
  <2>. QED  BY <1>2, <2>1, MailStep DEF CreateReview
<1>3. ASSUME NEW r \in Ids, NEW a \in Authors, NEW s \in Pushed, PushReview(r, a, s) PROVE MailInv'
  <2>. DEFINE n == [kind |-> "pushed", rev |-> r]
  <2>1. RefsStay /\ ref'[r] # 0  BY <1>3, RefsStayStored DEF PushReview
  <2>2. notices' = notices \cup {n} /\ UNCHANGED <<req, mails>>  BY <1>3 DEF PushReview, Notify
  <2>3. Deliverable(n, ref')  BY <2>1 DEF Deliverable
  <2>. HIDE DEF n
  <2>. QED  BY <2>1, <2>2, <2>3, MailStep
<1>4. ASSUME NEW p \in Requests, NEW r \in Ids,
             \/ \E s \in States, a \in Authors : UpdateReviewState(p, r, s, a)
             \/ \E as \in NameLists : UpdateReview(p, r, as)
             \/ \E a \in Authors, parent \in 0 .. MaxComments, ms \in NameLists :
                    CreateReviewComment(p, r, a, parent, ms)
      PROVE  MailInv'
  <2>1. PICK q : req' = [req EXCEPT ![p] = q] /\ (q.op = "comment" => q.mentions \in NameLists)
    <3>1. ASSUME NEW t, NEW a, UpdateReviewState(p, r, t, a)
          PROVE  \E q : req' = [req EXCEPT ![p] = q] /\ (q.op = "comment" => q.mentions \in NameLists)
      <4>. DEFINE q == [op |-> "state", rev |-> r, read |-> ref[r], state |-> t, actor |-> a]
      <4>1. req' = [req EXCEPT ![p] = q] /\ q.op # "comment"  BY <3>1 DEF UpdateReviewState
      <4>. HIDE DEF q
      <4>. QED  BY <4>1
    <3>2. ASSUME NEW as \in NameLists, UpdateReview(p, r, as)
          PROVE  \E q : req' = [req EXCEPT ![p] = q] /\ (q.op = "comment" => q.mentions \in NameLists)
      <4>. DEFINE q == [op |-> "update", rev |-> r, read |-> ref[r], assignees |-> as]
      <4>1. req' = [req EXCEPT ![p] = q] /\ q.op # "comment"  BY <3>2 DEF UpdateReview
      <4>. HIDE DEF q
      <4>. QED  BY <4>1
    <3>3. ASSUME NEW a, NEW parent, NEW ms \in NameLists, CreateReviewComment(p, r, a, parent, ms)
          PROVE  \E q : req' = [req EXCEPT ![p] = q] /\ (q.op = "comment" => q.mentions \in NameLists)
      <4>. DEFINE q == [op |-> "comment", rev |-> r, read |-> ref[r], actor |-> a,
                        parent |-> parent, mentions |-> ms]
      <4>1. req' = [req EXCEPT ![p] = q] /\ q.mentions \in NameLists  BY <3>3 DEF CreateReviewComment
      <4>. HIDE DEF q
      <4>. QED  BY <4>1
    <3>. QED  BY <1>4, <3>1, <3>2, <3>3
  <2>2. UNCHANGED <<ref, notices, mails>>
    BY <1>4 DEF UpdateReviewState, UpdateReview, CreateReviewComment
  <2>3. RefsStay  BY <2>2 DEF RefsStay
  <2>. QED  BY <2>1, <2>2, <2>3, OneRequest, MailStep
<1>5. ASSUME NEW p \in Requests, UpdateReviewStateCommit(p) PROVE MailInv'
  <2>. DEFINE q == req[p]
              n == StateNotice(q)
              w == versions[q.read]
  <2>1. /\ q.op = "state" /\ StoreVersion(q.rev, [w EXCEPT !.state = q.state, !.from = q.read])
        /\ notices' = notices \cup {n} /\ req' = [req EXCEPT ![p] = Idle] /\ mails' = mails
    BY <1>5 DEF UpdateReviewStateCommit, Notify
  <2>2. q.rev \in Ids /\ w \in Version  BY <2>1, CommitRead DEF Handlers
  <2>3. q.state \in validTransitions(w.state)  BY <2>1 DEF ReqInv, ReadInv
  <2>4. q.state \in States \ {"draft"}  BY <2>3, Transitions
  <2>5. RefsStay  BY <2>1, <2>2, RefsStayStored
  <2>6. n.reviewers \in Lists  BY <2>2 DEF StateNotice, Version, Lists
  <2>7. /\ n.kind = (IF q.state = "changes_requested" THEN "changes" ELSE "state")
        /\ n.state = (IF q.state = "open" THEN "ready" ELSE q.state)
    BY DEF StateNotice
  <2>8. Deliverable(n, ref')  BY <2>4, <2>6, <2>7 DEF Deliverable, States
  <2>9. \A x \in Requests : req'[x] = req[x] \/ (req'[x].op = "comment" => req'[x].mentions \in NameLists)
    BY <2>1, IdleOp, OneRequest
  <2>. HIDE DEF n
  <2>. QED  BY <2>1, <2>5, <2>8, <2>9, MailStep
<1>6. ASSUME NEW p \in Requests, UpdateReviewCommit(p) PROVE MailInv'
  <2>1. /\ req[p].op = "update" /\ \E v : StoreVersion(req[p].rev, v)
        /\ req' = [req EXCEPT ![p] = Idle] /\ UNCHANGED <<notices, mails>>
    BY <1>6 DEF UpdateReviewCommit
  <2>2. req[p].rev \in Ids  BY <2>1, CommitRead DEF Handlers
  <2>3. RefsStay  BY <2>1, <2>2, RefsStayStored
  <2>. QED  BY <2>1, <2>3, IdleOp, OneRequest, MailStep
<1>7. ASSUME NEW p \in Requests, CreateReviewCommentCommit(p) PROVE MailInv'
  <2>. DEFINE q == req[p]
              n == [kind |-> "comment", rev |-> q.rev, on |-> q.read,
                    author |-> versions[q.read].author, actor |-> q.actor,
                    parent |-> q.parent, mentions |-> q.mentions]
  <2>1. /\ q.op = "comment" /\ notices' = notices \cup {n}
        /\ req' = [req EXCEPT ![p] = Idle] /\ UNCHANGED <<ref, mails>>
    BY <1>7 DEF CreateReviewCommentCommit, Notify
  <2>2. Deliverable(n, ref')  BY <2>1 DEF Deliverable, MailInv, Lists
  <2>3. RefsStay  BY <2>1 DEF RefsStay
  <2>. HIDE DEF n
  <2>. QED  BY <2>1, <2>2, <2>3, IdleOp, OneRequest, MailStep
<1>8. ASSUME NEW p \in Requests, CommitFails(p) PROVE MailInv'
  <2>1. req' = [req EXCEPT ![p] = Idle] /\ UNCHANGED <<ref, notices, mails>>
    BY <1>8 DEF CommitFails
  <2>2. RefsStay  BY <2>1 DEF RefsStay
  <2>. QED  BY <2>1, <2>2, IdleOp, OneRequest, MailStep
<1>9. ASSUME NEW n \in notices, notifyReviewCreated(n) PROVE MailInv'
  <2>. DEFINE v == versions[ref[n.rev]]
              m == [kind |-> "review", rev |-> n.rev, author |-> v.author, reviewers |-> v.assignees]
  <2>1. /\ n.kind = "pushed" /\ UNCHANGED <<ref, req, mails>>
        /\ \A x \in notices' : x \in notices \/ x = m
    BY <1>9 DEF notifyReviewCreated
  <2>2. n.rev \in Ids /\ ref[n.rev] # 0  BY <2>1 DEF MailInv, Deliverable
  <2>3. v \in Version
    <3>1. ref[n.rev] \in DOMAIN versions  BY <2>2, RefRead
    <3>2. versions \in Seq(Version)  BY DEF VersionInv
    <3>. QED  BY <3>1, <3>2
  <2>4. Deliverable(m, ref')  BY <2>3 DEF Deliverable, Version, Lists
  <2>5. RefsStay  BY <2>1 DEF RefsStay
  <2>. HIDE DEF m
  <2>. QED  BY <2>1, <2>4, <2>5, MailStep
<1>10. ASSUME NEW n \in notices, NoticeLost(n) PROVE MailInv'
  <2>1. notices' \subseteq notices /\ UNCHANGED <<ref, req, mails>>  BY <1>10 DEF NoticeLost
  <2>2. RefsStay  BY <2>1 DEF RefsStay
  <2>. QED  BY <2>1, <2>2, MailStep
<1>11. ASSUME NEW n \in notices, Deliver(n) PROVE MailInv'
  <2>1. IsInjective(mails')  BY <1>11, DeliverInjective DEF MailInv
  <2>2. notices' \subseteq notices /\ UNCHANGED <<ref, req>>  BY <1>11 DEF Deliver
  <2>. QED  BY <2>1, <2>2 DEF MailInv
<1>. QED  BY <1>1, <1>2, <1>3, <1>4, <1>5, <1>6, <1>7, <1>8, <1>9, <1>10, <1>11 DEF ReviewsNext

LEMMA MailInit == ASSUME ReviewsInit PROVE MailInv
<1>1. mails = <<>> /\ notices = {} /\ req = [p \in Requests |-> Idle]  BY DEF ReviewsInit
<1>2. IsInjective(mails)  BY <1>1 DEF IsInjective
<1>. QED  BY <1>1, <1>2, IdleOp DEF MailInv

(* The notices of state changes (routes.go, sshserver/webhooks.go) speak of  *)
(* committed versions, although goroutines deliver them later and commits    *)
(* fail; and no account gets two mails about an event, under whatever names  *)
(* it is among the recipients (notifications.go: notified).                  *)
THEOREM NoticesHold == ReviewsSpec => []NoticesAreSound
<1>1. ReviewsInit => MailInv  BY MailInit
<1>2. ReviewInv /\ MailInv /\ [ReviewsNext]_reviewVars => MailInv'  BY MailNext
<1>3. ReviewInv /\ MailInv => NoticesAreSound
  BY DEF ReviewInv, MailInv, NoticesAreSound, OneMailPerAccount
<1>. QED  BY <1>1, <1>2, <1>3, SpecInv, PTL DEF ReviewsSpec
=============================================================================
