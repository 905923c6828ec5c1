----------------------------- MODULE GitPushProofs -----------------------------
(* Proofs about GitPush: the mirror follows the refs, and a clone of a       *)
(* branch with a linear history is whole, for any commits, branches,         *)
(* sessions and numbers of pushes.                                           *)
(*                                                                           *)
(* A thin pack leaves out what the client was told the server has. What the  *)
(* client was told are commits refs have pointed to, and on a linear history *)
(* the packs of those come earlier in the chain of heads: a walk over the    *)
(* chain, oldest first, knows the ancestors of every commit it has passed,   *)
(* so that no delta of the next pack is without its base.                    *)
EXTENDS GitPush, NaturalsInduction, WellFoundedInduction, TLAPS

Updates == UNION {[D -> Commits \cup {Zero}] : D \in SUBSET Branches}
Packs   == SUBSET [oid : Commits, base : Commits \cup {Zero}]

Changeset == [head : Nat, pack : Packs, updates : Updates]

Session ==
    [pc : {"base", "store", "refs", "mirror", "update-ref"},
     ups : Updates, pack : Packs, new : SUBSET Branches, base : Nat, cs : Nat,
     todo : SUBSET Branches, read : Branches \X Nat]

GitTypes ==
    /\ css \in Seq(Changeset)
    /\ refs \in [Branches -> Nat] /\ mirror \in [Branches -> Nat] /\ missed \in SUBSET Branches
    /\ history \in [Branches -> Seq(Nat)]
    /\ sess \in [Sessions -> Session \cup {NoSess}]

(* What session r holds about the changesets vs. *)
Holds(r, vs) ==
    /\ r.base \in 0 .. Len(vs) /\ r.read[2] \in 0 .. Len(vs)
    /\ r.pc \in {"refs", "mirror", "update-ref"} => r.cs \in 1 .. Len(vs)
    /\ r.pc = "refs" => vs[r.cs].updates = r.ups

Numbers ==
    /\ \A b \in Branches : mirror[b] \in 0 .. Len(css)
    /\ csLatest \in 0 .. Len(css)
    /\ \A i \in DOMAIN css : css[i].head \in 0 .. i - 1
    /\ \A p \in Sessions : sess[p] # NoSess => Holds(sess[p], css)

(* A ref is the last of its history, which has changesets that name it. *)
Histories ==
    /\ \A b \in Branches : refs[b] = IF history[b] = <<>> THEN 0 ELSE history[b][Len(history[b])]
    /\ \A b \in Branches : \A i \in Range(history[b]) : i # 0 =>
           i \in DOMAIN css /\ b \in DOMAIN css[i].updates /\ css[i].updates[b] # Zero
    /\ \A i \in DOMAIN css : \A b, d \in DOMAIN css[i].updates :
           i \in Range(history[b]) /\ css[i].updates[d] # Zero => i \in Range(history[d])

RefInv == GitTypes /\ Numbers /\ Histories
-----------------------------------------------------------------------------
(* Walks over the commits. *)

LEMMA WalkStarts ==
  ASSUME NEW within \in SUBSET Commits, NEW c \in within
  PROVE  c \in Walk(c, within)
BY DEF Walk

LEMMA WalkSteps ==
  ASSUME NEW within \in SUBSET Commits, NEW c, NEW x \in Walk(c, within), Parent[x] \in within
  PROVE  Parent[x] \in Walk(c, within)
BY DEF Walk

LEMMA WalkLeast ==
  ASSUME NEW within, NEW c, NEW S \in SUBSET Commits, c \in within => c \in S,
         \A x \in S : Parent[x] \in within => Parent[x] \in S
  PROVE  Walk(c, within) \subseteq S
BY DEF Walk

LEMMA AncestorsAreCommits == ASSUME NEW c PROVE Ancestors(c) \subseteq Commits
BY DEF Ancestors, Walk

LEMMA AncestorsClosed ==
  ASSUME NEW c, NEW x \in Ancestors(c), Parent[x] # Zero
  PROVE  Parent[x] \in Ancestors(c)
<1>1. x \in Commits  BY AncestorsAreCommits
<1>2. Parent[x] \in Commits  BY <1>1, GitPushAssumption
<1>. QED  BY <1>2, WalkSteps DEF Ancestors

(* A walk that finds every ancestor among the objects is the ancestry. *)
LEMMA WalkIsAncestry ==
  ASSUME NEW c, NEW objects \in SUBSET Commits, Ancestors(c) \subseteq objects
  PROVE  Walk(c, objects) = Ancestors(c)
<1>1. Walk(c, objects) \subseteq Ancestors(c)
  <2>1. c \in objects => c \in Ancestors(c)  BY WalkStarts DEF Ancestors
  <2>2. \A x \in Ancestors(c) : Parent[x] \in objects => Parent[x] \in Ancestors(c)
    BY WalkSteps DEF Ancestors
  <2>. QED  BY <2>1, <2>2, AncestorsAreCommits, WalkLeast
<1>2. Walk(c, Commits) \subseteq Walk(c, objects)
  <2>1. c \in Commits => c \in Walk(c, objects)
    <3>1. c \in Commits => c \in Ancestors(c)  BY WalkStarts DEF Ancestors
    <3>. QED  BY <3>1, WalkStarts
  <2>2. ASSUME NEW x \in Walk(c, objects), Parent[x] \in Commits PROVE Parent[x] \in Walk(c, objects)
    <3>1. Parent[x] # Zero  BY <2>2, GitPushAssumption
    <3>2. Parent[x] \in Ancestors(c)  BY <1>1, <3>1, AncestorsClosed
    <3>. QED  BY <3>2, WalkSteps
  <2>3. Walk(c, objects) \subseteq Commits  BY <1>1, AncestorsAreCommits
  <2>. QED  BY <2>1, <2>2, <2>3, WalkLeast
<1>. QED  BY <1>1, <1>2 DEF Ancestors

(* Every object of a thin pack is found when the parents it leaves out are  *)
(* known.                                                                   *)
LEMMA ThinPackParses ==
  ASSUME NEW X \in SUBSET Commits, NEW known \in SUBSET Commits,
         \A x \in X : Parent[x] # Zero => Parent[x] \in X \cup known
  PROVE  parseGitPackWithBases(ThinPack(X), known) = X
<1>. DEFINE E(x) == [oid |-> x, base |-> IF Parent[x] \in X THEN Zero ELSE Parent[x]]
            P == ThinPack(X)
            Whole == {e.oid : e \in {y \in P : y.base = Zero}}
            Delta == {e.oid : e \in {y \in P : y.base \in Whole \cup known}}
<1>1. parseGitPackWithBases(P, known) = Whole \cup Delta  BY DEF parseGitPackWithBases
<1>2. P = {E(x) : x \in X}  BY DEF ThinPack
<1>3. Whole \subseteq X /\ Delta \subseteq X  BY <1>2
<1>4. ASSUME NEW x \in X PROVE x \in Whole \cup Delta
  <2>1. E(x) \in P /\ E(x).oid = x  BY <1>2
  <2>2. CASE E(x).base = Zero  BY <2>1, <2>2
  <2>3. CASE E(x).base # Zero
    <3>1. E(x).base = Parent[x] /\ Parent[x] \notin X /\ Parent[x] # Zero  BY <2>3
    <3>2. E(x).base \in known  BY <3>1
    <3>3. E(x) \in {y \in P : y.base \in Whole \cup known}  BY <2>1, <3>2
    <3>. HIDE DEF E, P, Whole
    <3>. QED  BY <2>1, <3>3
  <2>. QED  BY <2>2, <2>3
<1>. HIDE DEF Whole, Delta, P
<1>. QED  BY <1>1, <1>3, <1>4 DEF P
-----------------------------------------------------------------------------
(* Types. *)

LEMMA NoSessIsNone == ASSUME NEW r \in Session PROVE r # NoSess
BY DEF Session, NoSess

LEMMA Appended ==
  ASSUME NEW S, NEW q \in Seq(S), NEW x \in S
  PROVE  /\ Append(q, x) \in Seq(S) /\ Append(q, x) # <<>>
         /\ DOMAIN Append(q, x) = DOMAIN q \cup {Len(q) + 1}
         /\ Append(q, x)[Len(q) + 1] = x
         /\ \A i \in DOMAIN q : Append(q, x)[i] = q[i]
         /\ Len(Append(q, x)) = Len(q) + 1
         /\ DOMAIN q = 1 .. Len(q) /\ Len(q) \in Nat
OBVIOUS

LEMMA AppendedRange ==
  ASSUME NEW S, NEW q \in Seq(S), NEW x \in S
  PROVE  Range(Append(q, x)) = Range(q) \cup {x}
BY Appended DEF Range

(* A session p that is open goes on as r. *)
LEMMA SessionStep ==
  ASSUME GitTypes, NEW p \in Sessions, NEW r \in Session \cup {NoSess}, sess' = [sess EXCEPT ![p] = r]
  PROVE  /\ sess' \in [Sessions -> Session \cup {NoSess}]
         /\ sess'[p] = r
         /\ \A q \in Sessions : q # p => sess'[q] = sess[q]
BY DEF GitTypes

LEMMA UpdatesTyped ==
  /\ \A b \in Branches : \A c \in Commits \cup {Zero} : [x \in {b} |-> c] \in Updates
  /\ \A c \in Commits \cup {Zero} : [x \in Branches |-> c] \in Updates
  /\ \A u \in Updates : DOMAIN u \subseteq Branches /\ \A b \in DOMAIN u : u[b] \in Commits \cup {Zero}
<1>1. ASSUME NEW b \in Branches, NEW c \in Commits \cup {Zero} PROVE [x \in {b} |-> c] \in Updates
  <2>1. {b} \in SUBSET Branches /\ [x \in {b} |-> c] \in [{b} -> Commits \cup {Zero}]  OBVIOUS
  <2>. QED  BY <2>1 DEF Updates
<1>2. ASSUME NEW c \in Commits \cup {Zero} PROVE [x \in Branches |-> c] \in Updates
  <2>1. Branches \in SUBSET Branches /\ [x \in Branches |-> c] \in [Branches -> Commits \cup {Zero}]  OBVIOUS
  <2>. QED  BY <2>1 DEF Updates
<1>3. ASSUME NEW u \in Updates
      PROVE  DOMAIN u \subseteq Branches /\ \A b \in DOMAIN u : u[b] \in Commits \cup {Zero}
  <2>1. PICK D \in SUBSET Branches : u \in [D -> Commits \cup {Zero}]  BY DEF Updates
  <2>. QED  BY <2>1
<1>. QED  BY <1>1, <1>2, <1>3

LEMMA ThinPackTyped == ASSUME NEW X \in SUBSET Commits PROVE ThinPack(X) \in Packs
BY GitPushAssumption DEF ThinPack, Packs

LEMMA LackingTyped == ASSUME NEW ups PROVE Lacking(ups) \in SUBSET Commits
<1>1. \A b \in DOMAIN ups : Ancestors(ups[b]) \subseteq Commits  BY AncestorsAreCommits
<1>. QED  BY <1>1 DEF Lacking

(* A push that ReceivePack may be called with. *)
OneCommit(u) == \A a, b \in DOMAIN u : u[a] = u[b]

Asked(u) == u \in Updates /\ OneCommit(u)

Step(p) ==
    \/ \E u \in Updates : Asked(u) /\ ReceivePack(p, u)
    \/ resolveBaseSnapshot(p) \/ storeNodeObject(p)
    \/ createChangeSetFromPack(p) \/ PushFails(p)
    \/ SyncRefs(p) \/ updateRef(p) \/ RefSkipped(p) \/ SyncAbandoned(p)

LEMMA ForwardTyped == ASSUME NEW b PROVE Forward(b) \subseteq Commits \cup {Zero}
BY DEF Forward

LEMMA NextIsStep == ASSUME GitNext PROVE \E p \in Sessions : Step(p)
<1>1. PICK p \in Sessions :
         \/ \E b \in Branches : \E c \in Forward(b) : ReceivePack(p, [x \in {b} |-> c])
         \/ \E c \in Commits : (\A b \in Branches : c \in Forward(b)) /\ ReceivePack(p, [x \in Branches |-> c])
         \/ resolveBaseSnapshot(p) \/ storeNodeObject(p)
         \/ createChangeSetFromPack(p) \/ PushFails(p)
         \/ SyncRefs(p) \/ updateRef(p) \/ RefSkipped(p) \/ SyncAbandoned(p)
  BY DEF GitNext
<1>2. ASSUME NEW b \in Branches, NEW c \in Forward(b), ReceivePack(p, [x \in {b} |-> c]) PROVE Step(p)
  <2>1. [x \in {b} |-> c] \in Updates  BY ForwardTyped, UpdatesTyped
  <2>2. OneCommit([x \in {b} |-> c])  BY DEF OneCommit
  <2>. QED  BY <1>2, <2>1, <2>2 DEF Step, Asked
<1>3. ASSUME NEW c \in Commits, ReceivePack(p, [x \in Branches |-> c]) PROVE Step(p)
  <2>1. [x \in Branches |-> c] \in Updates  BY UpdatesTyped
  <2>2. OneCommit([x \in Branches |-> c])  BY DEF OneCommit
  <2>. QED  BY <1>3, <2>1, <2>2 DEF Step, Asked
<1>4. Step(p)  BY <1>1, <1>2, <1>3 DEF Step
<1>. QED  BY <1>4

(* What each step makes of its session. *)
Received(u) ==
    [pc |-> "base", ups |-> u, pack |-> ThinPack(Lacking(u)),
     new |-> {b \in DOMAIN u : refs[b] = 0}, base |-> 0, cs |-> 0, todo |-> {}, read |-> <<Main, 0>>]

LEMMA ReceivedTyped == ASSUME NEW u \in Updates PROVE Received(u) \in Session
<1>1. ThinPack(Lacking(u)) \in Packs  BY LackingTyped, ThinPackTyped
<1>2. {b \in DOMAIN u : refs[b] = 0} \in SUBSET Branches  BY UpdatesTyped
<1>3. <<Main, 0>> \in Branches \X Nat  BY GitPushAssumption
<1>. QED  BY <1>1, <1>2, <1>3 DEF Received, Session

LEMMA OpenIsSession ==
  ASSUME GitTypes, NEW p \in Sessions, sess[p].pc # "idle"
  PROVE  sess[p] \in Session
BY DEF GitTypes, NoSess

LEMMA TypesInit == GitInit => GitTypes
BY DEF GitInit, GitTypes

LEMMA TypesStep ==
  ASSUME GitTypes, NEW p \in Sessions, Step(p)
  PROVE  GitTypes'
<1>1. ASSUME NEW u \in Updates, ReceivePack(p, u) PROVE GitTypes'
  <2>1. sess' = [sess EXCEPT ![p] = Received(u)] /\ UNCHANGED <<css, refs, csLatest, history, mirror, missed>>
    BY <1>1 DEF ReceivePack, Received
  <2>2. sess' \in [Sessions -> Session \cup {NoSess}]  BY <2>1, ReceivedTyped, SessionStep
  <2>. QED  BY <2>1, <2>2 DEF GitTypes
<1>2. ASSUME resolveBaseSnapshot(p) PROVE GitTypes'
  <2>1. sess[p] \in Session  BY <1>2, OpenIsSession DEF resolveBaseSnapshot
  <2>0. PICK n \in {refs[Main], 0} : sess' = [sess EXCEPT ![p] = [sess[p] EXCEPT !.pc = "store", !.base = n]]
    BY <1>2 DEF resolveBaseSnapshot
  <2>. DEFINE r == [sess[p] EXCEPT !.pc = "store", !.base = n]
  <2>2. n \in Nat  BY GitPushAssumption DEF GitTypes
  <2>3. r \in Session  BY <2>1, <2>2 DEF Session
  <2>4. sess' = [sess EXCEPT ![p] = r]  BY <2>0
  <2>. HIDE DEF r
  <2>5. sess' \in [Sessions -> Session \cup {NoSess}]  BY <2>3, <2>4, SessionStep
  <2>. QED  BY <1>2, <2>5 DEF resolveBaseSnapshot, GitTypes
<1>3. ASSUME storeNodeObject(p) PROVE GitTypes'
  <2>1. sess[p] \in Session  BY <1>3, OpenIsSession DEF storeNodeObject
  <2>. DEFINE r == [sess[p] EXCEPT !.pc = "refs", !.cs = Len(css) + 1]
              x == [head |-> sess[p].base, pack |-> sess[p].pack, updates |-> sess[p].ups]
  <2>2. Len(css) + 1 \in Nat  BY DEF GitTypes
  <2>3. r \in Session  BY <2>1, <2>2 DEF Session
  <2>4. sess' = [sess EXCEPT ![p] = r] /\ css' = Append(css, x)  BY <1>3 DEF storeNodeObject
  <2>5. x \in Changeset  BY <2>1 DEF Session, Changeset
  <2>. HIDE DEF r, x
  <2>6. sess' \in [Sessions -> Session \cup {NoSess}]  BY <2>3, <2>4, SessionStep
  <2>7. css' \in Seq(Changeset)  BY <2>4, <2>5, Appended DEF GitTypes
  <2>. QED  BY <1>3, <2>6, <2>7 DEF storeNodeObject, GitTypes
<1>4. ASSUME createChangeSetFromPack(p) PROVE GitTypes'
  <2>1. sess[p] \in Session  BY <1>4, OpenIsSession DEF createChangeSetFromPack
  <2>. DEFINE r == [sess[p] EXCEPT !.pc = "mirror", !.todo = DOMAIN sess[p].ups]
              T(b) == IF sess[p].ups[b] = Zero THEN 0 ELSE sess[p].cs
              bs == DOMAIN sess[p].ups
  <2>2. sess[p].cs \in Nat /\ bs \subseteq Branches  BY <2>1, UpdatesTyped DEF Session
  <2>3. r \in Session  BY <2>1, <2>2 DEF Session
  <2>4. /\ sess' = [sess EXCEPT ![p] = r] /\ css' = css /\ mirror' = mirror /\ missed' = missed
        /\ refs' = [b \in Branches |-> IF b \in bs THEN T(b) ELSE refs[b]]
        /\ history' = [b \in Branches |-> IF b \in bs THEN Append(history[b], T(b)) ELSE history[b]]
    BY <1>4 DEF createChangeSetFromPack, ApplyUpdates
  <2>5. \A b \in bs : T(b) \in Nat  BY <2>2
  <2>. HIDE DEF r, T
  <2>6. sess' \in [Sessions -> Session \cup {NoSess}]  BY <2>3, <2>4, SessionStep
  <2>7. refs' \in [Branches -> Nat]  BY <2>4, <2>5 DEF GitTypes
  <2>8. \A b \in Branches : b \in bs => Append(history[b], T(b)) \in Seq(Nat)  BY <2>5 DEF GitTypes
  <2>9. history' \in [Branches -> Seq(Nat)]  BY <2>4, <2>8 DEF GitTypes
  <2>. QED  BY <2>4, <2>6, <2>7, <2>9 DEF GitTypes
<1>5. ASSUME PushFails(p) PROVE GitTypes'
  <2>1. sess' = [sess EXCEPT ![p] = NoSess]  BY <1>5 DEF PushFails
  <2>2. sess' \in [Sessions -> Session \cup {NoSess}]  BY <2>1, SessionStep
  <2>. QED  BY <1>5, <2>2 DEF PushFails, GitTypes
<1>6. ASSUME SyncRefs(p) PROVE GitTypes'
  <2>1. sess[p] \in Session  BY <1>6, OpenIsSession DEF SyncRefs
  <2>2. CASE sess' = [sess EXCEPT ![p] = NoSess]
    <3>1. sess' \in [Sessions -> Session \cup {NoSess}]  BY <2>2, SessionStep
    <3>. QED  BY <1>6, <3>1 DEF SyncRefs, GitTypes
  <2>3. ASSUME NEW b \in sess[p].todo,
               sess' = [sess EXCEPT ![p] = [@ EXCEPT !.pc = "update-ref", !.todo = sess[p].todo \ {b}, !.read = <<b, refs[b]>>]]
        PROVE  GitTypes'
    <3>. DEFINE r == [sess[p] EXCEPT !.pc = "update-ref", !.todo = sess[p].todo \ {b}, !.read = <<b, refs[b]>>]
    <3>1. b \in Branches  BY <2>1 DEF Session
    <3>2. <<b, refs[b]>> \in Branches \X Nat /\ sess[p].todo \ {b} \in SUBSET Branches
      BY <2>1, <3>1 DEF GitTypes, Session
    <3>3. r \in Session  BY <2>1, <3>2 DEF Session
    <3>4. sess' = [sess EXCEPT ![p] = r]  BY <2>3
    <3>. HIDE DEF r
    <3>5. sess' \in [Sessions -> Session \cup {NoSess}]  BY <3>3, <3>4, SessionStep
    <3>. QED  BY <1>6, <3>5 DEF SyncRefs, GitTypes
  <2>. QED  BY <1>6, <2>2, <2>3 DEF SyncRefs
<1>7. ASSUME updateRef(p) PROVE GitTypes'
  <2>1. sess[p] \in Session  BY <1>7, OpenIsSession DEF updateRef
  <2>. DEFINE r == [sess[p] EXCEPT !.pc = "mirror"]
  <2>2. r \in Session  BY <2>1 DEF Session
  <2>3. sess' = [sess EXCEPT ![p] = r]  BY <1>7 DEF updateRef
  <2>. HIDE DEF r
  <2>4. sess' \in [Sessions -> Session \cup {NoSess}]  BY <2>2, <2>3, SessionStep
  <2>5. sess[p].read[1] \in Branches /\ sess[p].read[2] \in Nat  BY <2>1 DEF Session
  <2>6. mirror' \in [Branches -> Nat]  BY <1>7, <2>5 DEF updateRef, GitTypes
  <2>7. missed' \in SUBSET Branches  BY <1>7 DEF updateRef, GitTypes
  <2>. QED  BY <1>7, <2>4, <2>6, <2>7 DEF updateRef, GitTypes
<1>8. ASSUME RefSkipped(p) PROVE GitTypes'
  <2>1. sess[p] \in Session  BY <1>8, OpenIsSession DEF RefSkipped
  <2>. DEFINE r == [sess[p] EXCEPT !.pc = "mirror"]
  <2>2. r \in Session  BY <2>1 DEF Session
  <2>3. sess' = [sess EXCEPT ![p] = r]  BY <1>8 DEF RefSkipped
  <2>. HIDE DEF r
  <2>4. sess' \in [Sessions -> Session \cup {NoSess}]  BY <2>2, <2>3, SessionStep
  <2>5. sess[p].read[1] \in Branches  BY <2>1 DEF Session
  <2>6. missed' \in SUBSET Branches  BY <1>8, <2>5 DEF RefSkipped, GitTypes
  <2>. QED  BY <1>8, <2>4, <2>6 DEF RefSkipped, GitTypes
<1>9. ASSUME SyncAbandoned(p) PROVE GitTypes'
  <2>1. sess[p] \in Session  BY <1>9, OpenIsSession DEF SyncAbandoned
  <2>2. sess' = [sess EXCEPT ![p] = NoSess]  BY <1>9 DEF SyncAbandoned
  <2>3. sess' \in [Sessions -> Session \cup {NoSess}]  BY <2>2, SessionStep
  <2>4. Left(sess[p]) \in SUBSET Branches  BY <2>1 DEF Left, Session
  <2>5. missed' \in SUBSET Branches  BY <1>9, <2>4 DEF SyncAbandoned, GitTypes
  <2>. QED  BY <1>9, <2>3, <2>5 DEF SyncAbandoned, GitTypes
<1>. QED  BY <1>1, <1>2, <1>3, <1>4, <1>5, <1>6, <1>7, <1>8, <1>9 DEF Step
-----------------------------------------------------------------------------
(* Numbers of changesets. *)

LEMMA HoldsLonger ==
  ASSUME NEW r \in Session, NEW vs \in Seq(Changeset), NEW us \in Seq(Changeset), Holds(r, vs),
         Len(vs) <= Len(us), \A i \in DOMAIN vs : us[i] = vs[i]
  PROVE  Holds(r, us)
<1>1. Len(vs) \in Nat /\ Len(us) \in Nat /\ DOMAIN vs = 1 .. Len(vs)  OBVIOUS
<1>2. r.pc = "refs" => us[r.cs] = vs[r.cs]  BY <1>1 DEF Holds
<1>3. \A i : i \in 0 .. Len(vs) => i \in 0 .. Len(us)  BY <1>1
<1>4. \A i : i \in 1 .. Len(vs) => i \in 1 .. Len(us)  BY <1>1
<1>. QED  BY <1>2, <1>3, <1>4 DEF Holds

(* A session that is moved to r while the others stay and css grows or not. *)
LEMMA HoldsStep ==
  ASSUME GitTypes, GitTypes', Numbers, NEW p \in Sessions, NEW r, sess' = [sess EXCEPT ![p] = r],
         r # NoSess => Holds(r, css'),
         Len(css) <= Len(css'), \A i \in DOMAIN css : css'[i] = css[i]
  PROVE  \A q \in Sessions : sess'[q] # NoSess => Holds(sess'[q], css')
<1>. SUFFICES ASSUME NEW q \in Sessions, sess'[q] # NoSess PROVE Holds(sess'[q], css')  OBVIOUS
<1>1. CASE q = p  BY <1>1 DEF GitTypes
<1>2. CASE q # p
  <2>1. sess'[q] = sess[q]  BY <1>2 DEF GitTypes
  <2>2. sess[q] \in Session /\ Holds(sess[q], css)  BY <2>1 DEF GitTypes, Numbers
  <2>3. css \in Seq(Changeset) /\ css' \in Seq(Changeset)  BY DEF GitTypes
  <2>. QED  BY <2>1, <2>2, <2>3, HoldsLonger
<1>. QED  BY <1>1, <1>2

LEMMA HoldsSame ==
  ASSUME GitTypes, GitTypes', Numbers, NEW p \in Sessions, NEW r, sess' = [sess EXCEPT ![p] = r],
         css' = css, r # NoSess => Holds(r, css)
  PROVE  \A q \in Sessions : sess'[q] # NoSess => Holds(sess'[q], css')
<1>. SUFFICES ASSUME NEW q \in Sessions, sess'[q] # NoSess PROVE Holds(sess'[q], css)  OBVIOUS
<1>1. CASE q = p  BY <1>1 DEF GitTypes
<1>2. CASE q # p  BY <1>2 DEF GitTypes, Numbers
<1>. QED  BY <1>1, <1>2

LEMMA RefsAreNumbers ==
  ASSUME GitTypes, Histories
  PROVE  \A b \in Branches : refs[b] \in 0 .. Len(css)
<1>. SUFFICES ASSUME NEW b \in Branches PROVE refs[b] \in 0 .. Len(css)  OBVIOUS
<1>0. Len(css) \in Nat /\ DOMAIN css = 1 .. Len(css)  BY DEF GitTypes
<1>1. CASE history[b] = <<>>  BY <1>0, <1>1 DEF Histories
<1>2. CASE history[b] # <<>>
  <2>1. history[b] \in Seq(Nat)  BY DEF GitTypes
  <2>2. Len(history[b]) \in DOMAIN history[b]  BY <1>2, <2>1
  <2>3. refs[b] = history[b][Len(history[b])]  BY <1>2 DEF Histories
  <2>4. refs[b] \in Range(history[b])  BY <2>2, <2>3 DEF Range
  <2>5. refs[b] # 0 => refs[b] \in DOMAIN css  BY <2>4 DEF Histories
  <2>. QED  BY <1>0, <2>5
<1>. QED  BY <1>1, <1>2

LEMMA NumbersStep ==
  ASSUME GitTypes, GitTypes', Numbers, Histories, NEW p \in Sessions, Step(p)
  PROVE  Numbers'
<1>0. Len(css) \in Nat /\ DOMAIN css = 1 .. Len(css)  BY DEF GitTypes
<1>1. ASSUME NEW u \in Updates, ReceivePack(p, u) PROVE Numbers'
  <2>1. sess' = [sess EXCEPT ![p] = Received(u)] /\ UNCHANGED <<css, refs, csLatest, history, mirror, missed>>
    BY <1>1 DEF ReceivePack, Received
  <2>2. Holds(Received(u), css)  BY <1>0, <2>1 DEF Holds, Received
  <2>3. \A q \in Sessions : sess'[q] # NoSess => Holds(sess'[q], css')  BY <2>1, <2>2, HoldsSame
  <2>. QED  BY <2>1, <2>3 DEF Numbers
<1>2. ASSUME resolveBaseSnapshot(p) PROVE Numbers'
  <2>0. PICK n \in {refs[Main], 0} : sess' = [sess EXCEPT ![p] = [sess[p] EXCEPT !.pc = "store", !.base = n]]
    BY <1>2 DEF resolveBaseSnapshot
  <2>. DEFINE r == [sess[p] EXCEPT !.pc = "store", !.base = n]
  <2>1. sess[p] \in Session /\ sess[p] # NoSess
    BY <1>2, OpenIsSession, NoSessIsNone DEF resolveBaseSnapshot
  <2>2. sess' = [sess EXCEPT ![p] = r] /\ UNCHANGED <<css, csLatest, mirror>>
    BY <1>2, <2>0 DEF resolveBaseSnapshot
  <2>3. n \in 0 .. Len(css)  BY <1>0, RefsAreNumbers, GitPushAssumption
  <2>4. r.pc = "store" /\ r.base = n /\ r.read = sess[p].read  BY <2>1 DEF Session
  <2>. HIDE DEF r
  <2>5. Holds(r, css)  BY <2>1, <2>2, <2>3, <2>4 DEF Holds, Numbers
  <2>6. \A q \in Sessions : sess'[q] # NoSess => Holds(sess'[q], css')  BY <2>2, <2>5, HoldsSame
  <2>. QED  BY <2>2, <2>6 DEF Numbers
<1>3. ASSUME storeNodeObject(p) PROVE Numbers'
  <2>. DEFINE r == [sess[p] EXCEPT !.pc = "refs", !.cs = Len(css) + 1]
              x == [head |-> sess[p].base, pack |-> sess[p].pack, updates |-> sess[p].ups]
  <2>1. sess[p] \in Session /\ sess[p] # NoSess
    BY <1>3, OpenIsSession, NoSessIsNone DEF storeNodeObject
  <2>2. sess' = [sess EXCEPT ![p] = r] /\ css' = Append(css, x) /\ UNCHANGED <<csLatest, mirror>>
    BY <1>3 DEF storeNodeObject
  <2>3. x \in Changeset /\ x.updates = sess[p].ups /\ x.head = sess[p].base
    BY <2>1 DEF Session, Changeset
  <2>4. /\ r.pc = "refs" /\ r.cs = Len(css) + 1
        /\ r.base = sess[p].base /\ r.read = sess[p].read /\ r.ups = sess[p].ups
    BY <2>1 DEF Session
  <2>. HIDE DEF r, x
  <2>5. /\ DOMAIN css' = DOMAIN css \cup {Len(css) + 1} /\ css'[Len(css) + 1] = x
        /\ \A i \in DOMAIN css : css'[i] = css[i]
        /\ Len(css') = Len(css) + 1
    BY <2>2, <2>3, Appended DEF GitTypes
  <2>6. sess[p].base \in 0 .. Len(css) /\ sess[p].read[2] \in 0 .. Len(css)  BY <2>1 DEF Numbers, Holds
  <2>7. \A i : i \in 0 .. Len(css) => i \in 0 .. Len(css')  BY <1>0, <2>5
  <2>a. r.cs \in 1 .. Len(css')  BY <1>0, <2>4, <2>5
  <2>8. Holds(r, css')  BY <2>3, <2>4, <2>5, <2>6, <2>7, <2>a DEF Holds
  <2>b. Len(css) <= Len(css')  BY <1>0, <2>5
  <2>9. \A q \in Sessions : sess'[q] # NoSess => Holds(sess'[q], css')  BY <2>b, <2>2, <2>5, <2>8, HoldsStep
  <2>10. ASSUME NEW i \in DOMAIN css' PROVE css'[i].head \in 0 .. i - 1
    <3>1. CASE i \in DOMAIN css  BY <3>1, <2>5 DEF Numbers
    <3>2. CASE i = Len(css) + 1
      <4>1. css'[i].head = sess[p].base  BY <3>2, <2>5, <2>3
      <4>. QED  BY <3>2, <4>1, <2>6, <1>0
    <3>. QED  BY <3>1, <3>2, <2>5
  <2>. QED  BY <2>2, <2>7, <2>9, <2>10 DEF Numbers
<1>4. ASSUME createChangeSetFromPack(p) PROVE Numbers'
  <2>. DEFINE r == [sess[p] EXCEPT !.pc = "mirror", !.todo = DOMAIN sess[p].ups]
  <2>1. sess[p] \in Session /\ sess[p] # NoSess /\ sess[p].pc = "refs"
    BY <1>4, OpenIsSession, NoSessIsNone DEF createChangeSetFromPack
  <2>2. sess' = [sess EXCEPT ![p] = r] /\ csLatest' = sess[p].cs /\ UNCHANGED <<css, mirror>>
    BY <1>4 DEF createChangeSetFromPack, ApplyUpdates
  <2>3. r.pc = "mirror" /\ r.base = sess[p].base /\ r.cs = sess[p].cs /\ r.read = sess[p].read
    BY <2>1 DEF Session
  <2>. HIDE DEF r
  <2>4. Holds(sess[p], css)  BY <2>1 DEF Numbers
  <2>5. Holds(r, css)  BY <2>1, <2>2, <2>3, <2>4 DEF Holds
  <2>6. \A q \in Sessions : sess'[q] # NoSess => Holds(sess'[q], css')  BY <2>2, <2>5, HoldsSame
  <2>7. csLatest' \in 0 .. Len(css)  BY <1>0, <2>1, <2>2, <2>4 DEF Holds
  <2>. QED  BY <2>2, <2>6, <2>7 DEF Numbers
<1>5. ASSUME PushFails(p) PROVE Numbers'
  <2>1. sess' = [sess EXCEPT ![p] = NoSess] /\ UNCHANGED <<css, csLatest, mirror>>  BY <1>5 DEF PushFails
  <2>2. \A q \in Sessions : sess'[q] # NoSess => Holds(sess'[q], css')  BY <2>1, HoldsSame
  <2>. QED  BY <2>1, <2>2 DEF Numbers
<1>6. ASSUME SyncRefs(p) PROVE Numbers'
  <2>1. sess[p] \in Session /\ sess[p] # NoSess /\ UNCHANGED <<css, csLatest, mirror>>
    BY <1>6, OpenIsSession, NoSessIsNone DEF SyncRefs
  <2>2. CASE sess' = [sess EXCEPT ![p] = NoSess]
    <3>1. \A q \in Sessions : sess'[q] # NoSess => Holds(sess'[q], css')  BY <2>1, <2>2, HoldsSame
    <3>. QED  BY <2>1, <3>1 DEF Numbers
  <2>3. ASSUME NEW b \in sess[p].todo,
               sess' = [sess EXCEPT ![p] = [@ EXCEPT !.pc = "update-ref", !.todo = sess[p].todo \ {b}, !.read = <<b, refs[b]>>]]
        PROVE  Numbers'
    <3>. DEFINE r == [sess[p] EXCEPT !.pc = "update-ref", !.todo = sess[p].todo \ {b}, !.read = <<b, refs[b]>>]
    <3>1. r.pc = "update-ref" /\ r.base = sess[p].base /\ r.cs = sess[p].cs /\ r.read = <<b, refs[b]>>
      BY <2>1 DEF Session
    <3>2. sess' = [sess EXCEPT ![p] = r]  BY <2>3
    <3>. HIDE DEF r
    <3>3. b \in Branches  BY <2>1 DEF Session
    <3>4. refs[b] \in 0 .. Len(css)  BY <3>3, RefsAreNumbers
    <3>5. sess[p].pc = "mirror" /\ Holds(sess[p], css)  BY <1>6, <2>1 DEF Numbers, SyncRefs
    <3>6. Holds(r, css)  BY <2>1, <3>1, <3>4, <3>5 DEF Holds
    <3>7. \A q \in Sessions : sess'[q] # NoSess => Holds(sess'[q], css')  BY <2>1, <3>2, <3>6, HoldsSame
    <3>. QED  BY <2>1, <3>7 DEF Numbers
  <2>. QED  BY <1>6, <2>2, <2>3 DEF SyncRefs
<1>7. ASSUME updateRef(p) PROVE Numbers'
  <2>. DEFINE r == [sess[p] EXCEPT !.pc = "mirror"]
  <2>1. sess[p] \in Session /\ sess[p] # NoSess  BY <1>7, OpenIsSession, NoSessIsNone DEF updateRef
  <2>2. /\ sess' = [sess EXCEPT ![p] = r] /\ UNCHANGED <<css, csLatest>>
        /\ mirror' = [mirror EXCEPT ![sess[p].read[1]] = sess[p].read[2]]
    BY <1>7 DEF updateRef
  <2>3. r.pc = "mirror" /\ r.base = sess[p].base /\ r.cs = sess[p].cs /\ r.read = sess[p].read
    BY <2>1 DEF Session
  <2>. HIDE DEF r
  <2>4. sess[p].pc = "update-ref" /\ Holds(sess[p], css)  BY <1>7, <2>1 DEF Numbers, updateRef
  <2>5. Holds(r, css)  BY <2>2, <2>3, <2>4 DEF Holds
  <2>6. \A q \in Sessions : sess'[q] # NoSess => Holds(sess'[q], css')  BY <2>2, <2>5, HoldsSame
  <2>7. sess[p].read[2] \in 0 .. Len(css)  BY <2>4 DEF Holds
  <2>8. \A b \in Branches : mirror'[b] \in 0 .. Len(css)  BY <2>2, <2>7 DEF GitTypes, Numbers
  <2>. QED  BY <2>2, <2>6, <2>8 DEF Numbers
<1>8. ASSUME RefSkipped(p) PROVE Numbers'
  <2>. DEFINE r == [sess[p] EXCEPT !.pc = "mirror"]
  <2>1. sess[p] \in Session /\ sess[p] # NoSess  BY <1>8, OpenIsSession, NoSessIsNone DEF RefSkipped
  <2>2. sess' = [sess EXCEPT ![p] = r] /\ UNCHANGED <<css, csLatest, mirror>>  BY <1>8 DEF RefSkipped
  <2>3. r.pc = "mirror" /\ r.base = sess[p].base /\ r.cs = sess[p].cs /\ r.read = sess[p].read
    BY <2>1 DEF Session
  <2>. HIDE DEF r
  <2>4. sess[p].pc = "update-ref" /\ Holds(sess[p], css)  BY <1>8, <2>1 DEF Numbers, RefSkipped
  <2>5. Holds(r, css)  BY <2>3, <2>4 DEF Holds
  <2>6. \A q \in Sessions : sess'[q] # NoSess => Holds(sess'[q], css')  BY <2>2, <2>5, HoldsSame
  <2>. QED  BY <2>2, <2>6 DEF Numbers
<1>9. ASSUME SyncAbandoned(p) PROVE Numbers'
  <2>1. sess' = [sess EXCEPT ![p] = NoSess] /\ UNCHANGED <<css, csLatest, mirror>>  BY <1>9 DEF SyncAbandoned
  <2>2. \A q \in Sessions : sess'[q] # NoSess => Holds(sess'[q], css')  BY <2>1, HoldsSame
  <2>. QED  BY <2>1, <2>2 DEF Numbers
<1>. QED  BY <1>1, <1>2, <1>3, <1>4, <1>5, <1>6, <1>7, <1>8, <1>9 DEF Step
-----------------------------------------------------------------------------
(* Refs and their histories: only the transaction of a push moves them. *)

LEMMA OnlyPushesMove ==
  ASSUME NEW p \in Sessions, Step(p)
  PROVE  storeNodeObject(p) \/ createChangeSetFromPack(p) \/ UNCHANGED <<css, refs, csLatest, history>>
BY DEF Step, ReceivePack, resolveBaseSnapshot, PushFails, SyncRefs, updateRef, RefSkipped, SyncAbandoned

LEMMA HistoriesStored ==
  ASSUME GitTypes, GitTypes', Histories, NEW p \in Sessions, storeNodeObject(p)
  PROVE  Histories'
<1>. DEFINE x == [head |-> sess[p].base, pack |-> sess[p].pack, updates |-> sess[p].ups]
<1>1. sess[p] \in Session  BY OpenIsSession DEF storeNodeObject
<1>2. css' = Append(css, x) /\ refs' = refs /\ history' = history  BY DEF storeNodeObject
<1>3. x \in Changeset  BY <1>1 DEF Session, Changeset
<1>. HIDE DEF x
<1>4. /\ DOMAIN css' = DOMAIN css \cup {Len(css) + 1}
      /\ \A i \in DOMAIN css : css'[i] = css[i]
      /\ DOMAIN css = 1 .. Len(css) /\ Len(css) \in Nat
  BY <1>2, <1>3, Appended DEF GitTypes
<1>5. ASSUME NEW b \in Branches, NEW i \in Range(history[b]), i # 0
      PROVE  i \in DOMAIN css /\ i \in DOMAIN css' /\ b \in DOMAIN css'[i].updates /\ css'[i].updates[b] # Zero
  BY <1>4, <1>5 DEF Histories
<1>6. ASSUME NEW i \in DOMAIN css', NEW b \in DOMAIN css'[i].updates, NEW d \in DOMAIN css'[i].updates,
             i \in Range(history[b]), css'[i].updates[d] # Zero
      PROVE  i \in Range(history[d])
  <2>1. css'[i] \in Changeset  BY DEF GitTypes
  <2>2. b \in Branches  BY <2>1, UpdatesTyped DEF Changeset
  <2>3. i # 0  BY <1>4
  <2>4. i \in DOMAIN css  BY <2>2, <2>3, <1>5, <1>6
  <2>5. css'[i] = css[i]  BY <2>4, <1>4
  <2>. QED  BY <1>6, <2>4, <2>5 DEF Histories
<1>7. \A b \in Branches : refs'[b] = IF history'[b] = <<>> THEN 0 ELSE history'[b][Len(history'[b])]
  BY <1>2 DEF Histories
<1>. QED  BY <1>2, <1>5, <1>6, <1>7 DEF Histories

(* What createChangeSetFromPack sets the ref of b to. *)
TargetOf(r, b) == IF r.ups[b] = Zero THEN 0 ELSE r.cs

LEMMA Pushed ==
  ASSUME GitTypes, Numbers, NEW p \in Sessions, createChangeSetFromPack(p)
  PROVE  /\ sess[p] \in Session /\ sess[p].pc = "refs" /\ DOMAIN sess[p].ups \subseteq Branches
         /\ css' = css /\ mirror' = mirror /\ missed' = missed
         /\ sess[p].cs \in DOMAIN css /\ css[sess[p].cs].updates = sess[p].ups
         /\ \A b \in Branches \ DOMAIN sess[p].ups : refs'[b] = refs[b] /\ history'[b] = history[b]
         /\ \A b \in DOMAIN sess[p].ups :
               /\ refs'[b] = TargetOf(sess[p], b) /\ TargetOf(sess[p], b) \in Nat
               /\ history'[b] = Append(history[b], TargetOf(sess[p], b))
         /\ sess' = [sess EXCEPT ![p] = [sess[p] EXCEPT !.pc = "mirror", !.todo = DOMAIN sess[p].ups]]
<1>. DEFINE bs == DOMAIN sess[p].ups
<1>1. sess[p] \in Session /\ sess[p].pc = "refs"  BY OpenIsSession DEF createChangeSetFromPack
<1>2. bs \subseteq Branches  BY <1>1, UpdatesTyped DEF Session
<1>3. Holds(sess[p], css)  BY <1>1, NoSessIsNone DEF Numbers
<1>4. sess[p].cs \in DOMAIN css /\ css[sess[p].cs].updates = sess[p].ups  BY <1>1, <1>3 DEF Holds, GitTypes
<1>5. /\ css' = css /\ mirror' = mirror /\ missed' = missed
      /\ refs' = [b \in Branches |-> IF b \in bs THEN TargetOf(sess[p], b) ELSE refs[b]]
      /\ history' = [b \in Branches |-> IF b \in bs THEN Append(history[b], TargetOf(sess[p], b)) ELSE history[b]]
      /\ sess' = [sess EXCEPT ![p] = [sess[p] EXCEPT !.pc = "mirror", !.todo = DOMAIN sess[p].ups]]
  <2>1. ApplyUpdates(p, bs)  BY DEF createChangeSetFromPack
  <2>. HIDE DEF bs
  <2>. QED  BY <2>1 DEF ApplyUpdates, TargetOf, bs
<1>6. \A b \in bs : TargetOf(sess[p], b) \in Nat  BY <1>1 DEF TargetOf, Session
<1>7. \A b \in Branches \ bs : refs'[b] = refs[b] /\ history'[b] = history[b]  BY <1>5
<1>8. \A b \in bs : refs'[b] = TargetOf(sess[p], b) /\ history'[b] = Append(history[b], TargetOf(sess[p], b))
  BY <1>2, <1>5
<1>. QED  BY <1>1, <1>2, <1>4, <1>5, <1>6, <1>7, <1>8

LEMMA HistoriesPushed ==
  ASSUME GitTypes, GitTypes', Numbers, Histories, NEW p \in Sessions, createChangeSetFromPack(p)
  PROVE  Histories'
<1>. DEFINE s == sess[p]
            bs == DOMAIN s.ups
<1>1. /\ s \in Session /\ bs \subseteq Branches /\ css' = css
      /\ s.cs \in DOMAIN css /\ css[s.cs].updates = s.ups
      /\ \A b \in Branches \ bs : refs'[b] = refs[b] /\ history'[b] = history[b]
      /\ \A b \in bs : /\ refs'[b] = TargetOf(s, b) /\ TargetOf(s, b) \in Nat
                      /\ history'[b] = Append(history[b], TargetOf(s, b))
  BY Pushed
<1>. HIDE DEF s, bs
<1>0. Len(css) \in Nat /\ DOMAIN css = 1 .. Len(css) /\ s.cs # 0  BY <1>1 DEF GitTypes
<1>2. ASSUME NEW b \in bs PROVE Range(history'[b]) = Range(history[b]) \cup {TargetOf(s, b)}
  <2>1. history[b] \in Seq(Nat) /\ TargetOf(s, b) \in Nat  BY <1>1 DEF GitTypes
  <2>2. Range(Append(history[b], TargetOf(s, b))) = Range(history[b]) \cup {TargetOf(s, b)}
    BY <2>1, AppendedRange
  <2>. QED  BY <1>1, <2>2
<1>3. \A b \in Branches : Range(history[b]) \subseteq Range(history'[b])  BY <1>1, <1>2
<1>4. ASSUME NEW b \in Branches
      PROVE  refs'[b] = IF history'[b] = <<>> THEN 0 ELSE history'[b][Len(history'[b])]
  <2>1. CASE b \in bs
    <3>1. /\ history'[b] # <<>> /\ Len(history'[b]) = Len(history[b]) + 1
          /\ history'[b][Len(history[b]) + 1] = TargetOf(s, b)
      BY <1>1, <2>1, Appended DEF GitTypes
    <3>. QED  BY <1>1, <2>1, <3>1
  <2>2. CASE b \notin bs  BY <1>1, <2>2 DEF Histories
  <2>. QED  BY <2>1, <2>2
<1>5. ASSUME NEW b \in Branches, NEW i \in Range(history'[b]), i # 0
      PROVE  i \in DOMAIN css /\ b \in DOMAIN css[i].updates /\ css[i].updates[b] # Zero
  <2>1. CASE i \in Range(history[b])  BY <1>5, <2>1 DEF Histories
  <2>2. CASE i \notin Range(history[b])
    <3>1. b \in bs /\ i = TargetOf(s, b)  BY <1>1, <1>2, <2>2
    <3>2. i = s.cs /\ s.ups[b] # Zero  BY <1>5, <3>1 DEF TargetOf
    <3>. QED  BY <1>1, <3>1, <3>2 DEF bs
  <2>. QED  BY <2>1, <2>2
<1>6. ASSUME NEW i \in DOMAIN css, NEW b \in DOMAIN css[i].updates, NEW d \in DOMAIN css[i].updates,
             i \in Range(history'[b]), css[i].updates[d] # Zero
      PROVE  i \in Range(history'[d])
  <2>1. css[i] \in Changeset  BY DEF GitTypes
  <2>2. b \in Branches /\ d \in Branches  BY <2>1, UpdatesTyped DEF Changeset
  <2>3. CASE i \in Range(history[b])
    <3>1. i \in Range(history[d])  BY <1>6, <2>3 DEF Histories
    <3>. QED  BY <1>3, <2>2, <3>1
  <2>4. CASE i \notin Range(history[b])
    <3>1. b \in bs /\ i = TargetOf(s, b)  BY <1>1, <1>2, <1>6, <2>2, <2>4
    <3>2. i = s.cs  BY <1>0, <3>1 DEF TargetOf
    <3>3. d \in bs /\ s.ups[d] # Zero  BY <1>1, <1>6, <3>2 DEF bs
    <3>4. TargetOf(s, d) = i  BY <3>2, <3>3 DEF TargetOf
    <3>. QED  BY <1>2, <3>3, <3>4
  <2>. QED  BY <2>3, <2>4
<1>. QED  BY <1>1, <1>4, <1>5, <1>6 DEF Histories

LEMMA InitRefs == GitInit => RefInv
<1>. SUFFICES ASSUME GitInit PROVE RefInv  OBVIOUS
<1>1. GitTypes  BY TypesInit
<1>2. Numbers  BY DEF GitInit, Numbers
<1>3. Range(<<>>) = {}  BY DEF Range
<1>4. Histories  BY <1>3 DEF GitInit, Histories
<1>. QED  BY <1>1, <1>2, <1>4 DEF RefInv

LEMMA RefStep ==
  ASSUME RefInv, [GitNext]_gitVars
  PROVE  RefInv'
<1>1. CASE UNCHANGED gitVars
  <2>1. GitTypes'  BY <1>1 DEF RefInv, GitTypes, gitVars
  <2>2. Numbers'  BY <1>1 DEF RefInv, Numbers, gitVars
  <2>3. Histories'  BY <1>1 DEF RefInv, Histories, gitVars
  <2>. QED  BY <2>1, <2>2, <2>3 DEF RefInv
<1>2. ASSUME GitNext PROVE RefInv'
  <2>1. PICK p \in Sessions : Step(p)  BY <1>2, NextIsStep
  <2>2. GitTypes'  BY <2>1, TypesStep DEF RefInv
  <2>3. Numbers'  BY <2>1, <2>2, NumbersStep DEF RefInv
  <2>4. CASE storeNodeObject(p)
    <3>1. Histories'  BY <2>2, <2>4, HistoriesStored DEF RefInv
    <3>. QED  BY <2>2, <2>3, <3>1 DEF RefInv
  <2>5. CASE createChangeSetFromPack(p)
    <3>1. Histories'  BY <2>2, <2>5, HistoriesPushed DEF RefInv
    <3>. QED  BY <2>2, <2>3, <3>1 DEF RefInv
  <2>6. CASE UNCHANGED <<css, refs, csLatest, history>>
    <3>1. Histories'  BY <2>6 DEF RefInv, Histories
    <3>. QED  BY <2>2, <2>3, <3>1 DEF RefInv
  <2>. QED  BY <2>1, <2>4, <2>5, <2>6, OnlyPushesMove
<1>. QED  BY <1>1, <1>2

LEMMA RefInvAlways == GitSpec => []RefInv
BY InitRefs, RefStep, PTL DEF GitSpec

LEMMA LastInHistory ==
  ASSUME RefInv, NEW b \in Branches, refs[b] # 0
  PROVE  /\ refs[b] \in Range(history[b]) /\ refs[b] \in DOMAIN css
         /\ history[b] \in Seq(Nat) /\ Len(history[b]) \in DOMAIN history[b]
         /\ refs[b] = history[b][Len(history[b])]
         /\ b \in DOMAIN css[refs[b]].updates /\ css[refs[b]].updates[b] # Zero
<1>1. history[b] # <<>> /\ refs[b] = history[b][Len(history[b])]  BY DEF RefInv, Histories
<1>2. history[b] \in Seq(Nat)  BY DEF RefInv, GitTypes
<1>3. Len(history[b]) \in DOMAIN history[b]  BY <1>1, <1>2
<1>4. refs[b] \in Range(history[b])  BY <1>1, <1>3 DEF Range
<1>. QED  BY <1>1, <1>2, <1>3, <1>4 DEF RefInv, Histories

LEMMA RefsAreNamed == ASSUME RefInv PROVE GitTypeOK /\ RefsNameTheirUpdate
<1>1. GitTypeOK
  <2>1. \A b \in Branches : refs[b] \in 0 .. Len(css)  BY RefsAreNumbers DEF RefInv
  <2>2. refs \in [Branches -> 0 .. Len(css)]  BY <2>1 DEF RefInv, GitTypes
  <2>3. mirror \in [Branches -> 0 .. Len(css)]  BY DEF RefInv, GitTypes, Numbers
  <2>4. missed \subseteq Branches  BY DEF RefInv, GitTypes
  <2>. QED  BY <2>2, <2>3, <2>4 DEF RefInv, GitTypeOK, Numbers
<1>2. RefsNameTheirUpdate
  <2>1. \A b \in Branches : refs[b] # 0 => b \in DOMAIN css[refs[b]].updates /\ css[refs[b]].updates[b] # Zero
    BY LastInHistory
  <2>. QED  BY <2>1 DEF RefsNameTheirUpdate, RefInv, Histories
<1>. QED  BY <1>1, <1>2
-----------------------------------------------------------------------------
(* The mirror. While pushes do not overlap, one session is open at a time,  *)
(* and what it has still to write is all the mirror lacks, but for the refs *)
(* that were missed.                                                        *)

Unpushed == {"idle", "base", "store", "refs"}

OneOpen  == \A p, q \in Sessions : sess[p] # NoSess /\ sess[q] # NoSess => p = q
Same(mr, rf, but) == \A b \in Branches : b \in but \/ mr[b] = rf[b]
InStep   == (\A p \in Sessions : sess[p].pc \in Unpushed) => Same(mirror, refs, missed)
Lacks(r, mr, rf, ms) ==
    /\ r.pc \in {"mirror", "update-ref"} => Same(mr, rf, ms \cup Left(r))
    /\ r.pc = "update-ref" => r.read[2] = rf[r.read[1]]
SomeLack == \A p \in Sessions : Lacks(sess[p], mirror, refs, missed)

MirrorInv == ~overlapped => OneOpen /\ InStep /\ SomeLack

LEMMA OverlapStays ==
  ASSUME NEW p \in Sessions, Step(p), ~overlapped'
  PROVE  ~overlapped
<1>1. ASSUME NEW u, ReceivePack(p, u) PROVE ~overlapped  BY <1>1, Zenon DEF ReceivePack
<1>2. ASSUME resolveBaseSnapshot(p) PROVE ~overlapped  BY <1>2, Zenon DEF resolveBaseSnapshot
<1>3. ASSUME storeNodeObject(p) PROVE ~overlapped  BY <1>3, Zenon DEF storeNodeObject
<1>4. ASSUME createChangeSetFromPack(p) PROVE ~overlapped
  BY <1>4, Zenon DEF createChangeSetFromPack, ApplyUpdates
<1>5. ASSUME PushFails(p) PROVE ~overlapped  BY <1>5, Zenon DEF PushFails
<1>6. ASSUME SyncRefs(p) PROVE ~overlapped  BY <1>6, Zenon DEF SyncRefs
<1>7. ASSUME updateRef(p) PROVE ~overlapped  BY <1>7, Zenon DEF updateRef
<1>8. ASSUME RefSkipped(p) PROVE ~overlapped  BY <1>8, Zenon DEF RefSkipped
<1>9. ASSUME SyncAbandoned(p) PROVE ~overlapped  BY <1>9, Zenon DEF SyncAbandoned
<1>. QED  BY <1>1, <1>2, <1>3, <1>4, <1>5, <1>6, <1>7, <1>8, <1>9, Zenon DEF Step

LEMMA OpensAlone ==
  ASSUME NEW p \in Sessions, NEW u, ReceivePack(p, u), ~overlapped'
  PROVE  \A q \in Sessions : sess[q] = NoSess
BY Zenon DEF ReceivePack

(* Session p, the only one open, becomes r. *)
LEMMA AloneStep ==
  ASSUME GitTypes, NEW p \in Sessions, NEW r, sess' = [sess EXCEPT ![p] = r],
         \A q \in Sessions : q # p => sess[q] = NoSess,
         Lacks(r, mirror', refs', missed'),
         r.pc \in Unpushed => Same(mirror', refs', missed')
  PROVE  OneOpen' /\ InStep' /\ SomeLack'
<1>1. sess'[p] = r /\ \A q \in Sessions : q # p => sess'[q] = NoSess  BY DEF GitTypes
<1>2. OneOpen'  BY <1>1 DEF OneOpen
<1>3. InStep'  BY <1>1 DEF InStep
<1>4. ASSUME NEW q \in Sessions PROVE Lacks(sess'[q], mirror', refs', missed')
  <2>1. CASE q = p  BY <1>1, <2>1
  <2>2. CASE q # p  BY <1>1, <2>2 DEF Lacks, NoSess
  <2>. QED  BY <2>1, <2>2
<1>. QED  BY <1>2, <1>3, <1>4 DEF SomeLack

LEMMA MirrorStep ==
  ASSUME GitTypes, Numbers, MirrorInv, NEW p \in Sessions, Step(p), ~overlapped'
  PROVE  OneOpen' /\ InStep' /\ SomeLack'
<1>0. OneOpen /\ InStep /\ SomeLack  BY OverlapStays DEF MirrorInv
<1>a. sess[p] # NoSess => \A q \in Sessions : q # p => sess[q] = NoSess  BY <1>0 DEF OneOpen
<1>b. ASSUME \A q \in Sessions : q # p => sess[q] = NoSess, sess[p].pc \in Unpushed PROVE Same(mirror, refs, missed)
  <2>1. \A q \in Sessions : sess[q].pc \in Unpushed  BY <1>b DEF NoSess, Unpushed
  <2>. QED  BY <1>0, <2>1 DEF InStep
<1>1. ASSUME NEW u \in Updates, ReceivePack(p, u) PROVE OneOpen' /\ InStep' /\ SomeLack'
  <2>1. sess' = [sess EXCEPT ![p] = Received(u)] /\ refs' = refs /\ mirror' = mirror /\ missed' = missed
    BY <1>1 DEF ReceivePack, Received
  <2>2. \A q \in Sessions : sess[q] = NoSess  BY <1>1, OpensAlone
  <2>3. Same(mirror, refs, missed)  BY <2>2, <1>b DEF NoSess, Unpushed
  <2>4. Lacks(Received(u), mirror', refs', missed')  BY DEF Lacks, Received
  <2>. QED  BY <2>1, <2>2, <2>3, <2>4, AloneStep
<1>2. ASSUME resolveBaseSnapshot(p) PROVE OneOpen' /\ InStep' /\ SomeLack'
  <2>0. PICK n \in {refs[Main], 0} : sess' = [sess EXCEPT ![p] = [sess[p] EXCEPT !.pc = "store", !.base = n]]
    BY <1>2 DEF resolveBaseSnapshot
  <2>. DEFINE r == [sess[p] EXCEPT !.pc = "store", !.base = n]
  <2>1. sess[p] \in Session /\ sess[p] # NoSess /\ sess[p].pc = "base"
    BY <1>2, OpenIsSession, NoSessIsNone DEF resolveBaseSnapshot
  <2>2. sess' = [sess EXCEPT ![p] = r] /\ refs' = refs /\ mirror' = mirror /\ missed' = missed
    BY <1>2, <2>0 DEF resolveBaseSnapshot
  <2>3. r.pc = "store"  BY <2>1 DEF Session
  <2>. HIDE DEF r
  <2>4. Same(mirror, refs, missed)  BY <1>a, <1>b, <2>1 DEF Unpushed
  <2>5. Lacks(r, mirror', refs', missed')  BY <2>3 DEF Lacks
  <2>. QED  BY <1>a, <2>1, <2>2, <2>4, <2>5, AloneStep
<1>3. ASSUME storeNodeObject(p) PROVE OneOpen' /\ InStep' /\ SomeLack'
  <2>. DEFINE r == [sess[p] EXCEPT !.pc = "refs", !.cs = Len(css) + 1]
  <2>1. sess[p] \in Session /\ sess[p] # NoSess /\ sess[p].pc = "store"
    BY <1>3, OpenIsSession, NoSessIsNone DEF storeNodeObject
  <2>2. sess' = [sess EXCEPT ![p] = r] /\ refs' = refs /\ mirror' = mirror /\ missed' = missed
    BY <1>3 DEF storeNodeObject
  <2>3. r.pc = "refs"  BY <2>1 DEF Session
  <2>. HIDE DEF r
  <2>4. Same(mirror, refs, missed)  BY <1>a, <1>b, <2>1 DEF Unpushed
  <2>5. Lacks(r, mirror', refs', missed')  BY <2>3 DEF Lacks
  <2>. QED  BY <1>a, <2>1, <2>2, <2>4, <2>5, AloneStep
<1>4. ASSUME createChangeSetFromPack(p) PROVE OneOpen' /\ InStep' /\ SomeLack'
  <2>. DEFINE r == [sess[p] EXCEPT !.pc = "mirror", !.todo = DOMAIN sess[p].ups]
  <2>1. /\ sess[p] \in Session /\ sess[p].pc = "refs" /\ mirror' = mirror /\ missed' = missed
        /\ \A b \in Branches \ DOMAIN sess[p].ups : refs'[b] = refs[b]
        /\ sess' = [sess EXCEPT ![p] = r]
    BY <1>4, Pushed
  <2>2. sess[p] # NoSess  BY <2>1, NoSessIsNone
  <2>3. r.pc = "mirror" /\ r.todo = DOMAIN sess[p].ups  BY <2>1 DEF Session
  <2>. HIDE DEF r
  <2>4. Same(mirror, refs, missed)  BY <1>a, <1>b, <2>1, <2>2 DEF Unpushed
  <2>5. Lacks(r, mirror', refs', missed')  BY <2>1, <2>3, <2>4 DEF Lacks, Same, Left
  <2>6. r.pc \notin Unpushed  BY <2>3 DEF Unpushed
  <2>. QED  BY <1>a, <2>1, <2>2, <2>5, <2>6, AloneStep
<1>5. ASSUME PushFails(p) PROVE OneOpen' /\ InStep' /\ SomeLack'
  <2>1. sess[p] \in Session /\ sess[p] # NoSess /\ sess[p].pc \in {"base", "store", "refs"}
    BY <1>5, OpenIsSession, NoSessIsNone DEF PushFails
  <2>2. sess' = [sess EXCEPT ![p] = NoSess] /\ refs' = refs /\ mirror' = mirror /\ missed' = missed
    BY <1>5 DEF PushFails
  <2>3. Same(mirror, refs, missed)  BY <1>a, <1>b, <2>1 DEF Unpushed
  <2>4. Lacks(NoSess, mirror', refs', missed')  BY DEF Lacks, NoSess
  <2>. QED  BY <1>a, <2>1, <2>2, <2>3, <2>4, AloneStep
<1>6. ASSUME SyncRefs(p) PROVE OneOpen' /\ InStep' /\ SomeLack'
  <2>1. /\ sess[p] \in Session /\ sess[p] # NoSess /\ sess[p].pc = "mirror"
        /\ refs' = refs /\ mirror' = mirror /\ missed' = missed
    BY <1>6, OpenIsSession, NoSessIsNone DEF SyncRefs
  <2>2. Same(mirror, refs, missed \cup sess[p].todo)  BY <1>0, <2>1 DEF SomeLack, Lacks, Left
  <2>3. ASSUME sess[p].todo = {}, sess' = [sess EXCEPT ![p] = NoSess]
        PROVE  OneOpen' /\ InStep' /\ SomeLack'
    <3>1. Same(mirror, refs, missed)  BY <2>2, <2>3
    <3>2. Lacks(NoSess, mirror', refs', missed')  BY DEF Lacks, NoSess
    <3>. QED  BY <1>a, <2>1, <2>3, <3>1, <3>2, AloneStep
  <2>4. ASSUME NEW b \in sess[p].todo,
               sess' = [sess EXCEPT ![p] = [@ EXCEPT !.pc = "update-ref", !.todo = sess[p].todo \ {b}, !.read = <<b, refs[b]>>]]
        PROVE  OneOpen' /\ InStep' /\ SomeLack'
    <3>. DEFINE r == [sess[p] EXCEPT !.pc = "update-ref", !.todo = sess[p].todo \ {b}, !.read = <<b, refs[b]>>]
    <3>1. r.pc = "update-ref" /\ r.todo = sess[p].todo \ {b} /\ r.read = <<b, refs[b]>>  BY <2>1 DEF Session
    <3>2. sess' = [sess EXCEPT ![p] = r]  BY <2>4
    <3>. HIDE DEF r
    <3>3. r.read[1] = b /\ r.read[2] = refs[b]  BY <3>1
    <3>4. Left(r) = sess[p].todo  BY <3>1, <3>3 DEF Left
    <3>5. Lacks(r, mirror', refs', missed')  BY <2>1, <2>2, <3>1, <3>3, <3>4 DEF Lacks
    <3>6. r.pc \notin Unpushed  BY <3>1 DEF Unpushed
    <3>. QED  BY <1>a, <2>1, <3>2, <3>5, <3>6, AloneStep
  <2>5. (\E b \in sess[p].todo : SyncRead(p, b)) <=> sess[p].todo # {}  BY DEF SyncRead
  <2>. QED  BY <1>6, <2>3, <2>4, <2>5 DEF SyncRefs
<1>7. ASSUME updateRef(p) PROVE OneOpen' /\ InStep' /\ SomeLack'
  <2>. DEFINE r == [sess[p] EXCEPT !.pc = "mirror"]
              a == sess[p].read[1]
  <2>1. /\ sess[p] \in Session /\ sess[p] # NoSess /\ sess[p].pc = "update-ref" /\ refs' = refs
        /\ sess' = [sess EXCEPT ![p] = r] /\ mirror' = [mirror EXCEPT ![a] = sess[p].read[2]]
        /\ missed' = missed \ {a}
    BY <1>7, OpenIsSession, NoSessIsNone DEF updateRef
  <2>2. r.pc = "mirror" /\ Left(r) = sess[p].todo  BY <2>1 DEF Session, Left
  <2>3. a \in Branches  BY <2>1 DEF Session
  <2>4. sess[p].read[2] = refs[a] /\ Same(mirror, refs, missed \cup sess[p].todo \cup {a})
    BY <1>0, <2>1 DEF SomeLack, Lacks, Left
  <2>. HIDE DEF r, a
  <2>5. Same(mirror', refs', missed' \cup sess[p].todo)  BY <2>1, <2>3, <2>4 DEF GitTypes, Same
  <2>6. Lacks(r, mirror', refs', missed')  BY <2>2, <2>5 DEF Lacks
  <2>7. r.pc \notin Unpushed  BY <2>2 DEF Unpushed
  <2>. QED  BY <1>a, <2>1, <2>6, <2>7, AloneStep
<1>8. ASSUME RefSkipped(p) PROVE OneOpen' /\ InStep' /\ SomeLack'
  <2>. DEFINE r == [sess[p] EXCEPT !.pc = "mirror"]
              a == sess[p].read[1]
  <2>1. /\ sess[p] \in Session /\ sess[p] # NoSess /\ sess[p].pc = "update-ref" /\ refs' = refs
        /\ sess' = [sess EXCEPT ![p] = r] /\ mirror' = mirror /\ missed' = missed \cup {a}
    BY <1>8, OpenIsSession, NoSessIsNone DEF RefSkipped
  <2>2. r.pc = "mirror" /\ Left(r) = sess[p].todo  BY <2>1 DEF Session, Left
  <2>3. Same(mirror, refs, missed \cup sess[p].todo \cup {a})
    BY <1>0, <2>1 DEF SomeLack, Lacks, Left
  <2>. HIDE DEF r, a
  <2>4. Same(mirror', refs', missed' \cup sess[p].todo)  BY <2>1, <2>3 DEF Same
  <2>5. Lacks(r, mirror', refs', missed')  BY <2>2, <2>4 DEF Lacks
  <2>6. r.pc \notin Unpushed  BY <2>2 DEF Unpushed
  <2>. QED  BY <1>a, <2>1, <2>5, <2>6, AloneStep
<1>9. ASSUME SyncAbandoned(p) PROVE OneOpen' /\ InStep' /\ SomeLack'
  <2>1. /\ sess[p] \in Session /\ sess[p] # NoSess /\ sess[p].pc \in {"mirror", "update-ref"}
        /\ sess' = [sess EXCEPT ![p] = NoSess]
        /\ refs' = refs /\ mirror' = mirror /\ missed' = missed \cup Left(sess[p])
    BY <1>9, OpenIsSession, NoSessIsNone DEF SyncAbandoned
  <2>2. Same(mirror, refs, missed \cup Left(sess[p]))  BY <1>0, <2>1 DEF SomeLack, Lacks
  <2>3. Lacks(NoSess, mirror', refs', missed')  BY DEF Lacks, NoSess
  <2>. QED  BY <1>a, <2>1, <2>2, <2>3, AloneStep
<1>. QED  BY <1>1, <1>2, <1>3, <1>4, <1>5, <1>6, <1>7, <1>8, <1>9 DEF Step

LEMMA MirrorNext ==
  ASSUME RefInv, MirrorInv, [GitNext]_gitVars
  PROVE  MirrorInv'
<1>1. CASE UNCHANGED gitVars
  BY <1>1 DEF MirrorInv, OneOpen, InStep, SomeLack, gitVars
<1>2. ASSUME GitNext PROVE MirrorInv'
  <2>1. PICK p \in Sessions : Step(p)  BY <1>2, NextIsStep
  <2>2. ~overlapped' => OneOpen' /\ InStep' /\ SomeLack'  BY <2>1, MirrorStep DEF RefInv
  <2>. QED  BY <2>2 DEF MirrorInv
<1>. QED  BY <1>1, <1>2

LEMMA MirrorInit == GitInit => MirrorInv
BY DEF GitInit, MirrorInv, OneOpen, InStep, SomeLack, Lacks, NoSess, Same

LEMMA MirrorInSync == ASSUME MirrorInv PROVE MirrorCatchesUp
<1>. SUFFICES ASSUME ~overlapped, \A p \in Sessions : sess[p] = NoSess PROVE Same(mirror, refs, missed)
  BY DEF MirrorCatchesUp, Same
<1>1. \A p \in Sessions : sess[p].pc \in Unpushed  BY DEF NoSess, Unpushed
<1>. QED  BY <1>1 DEF MirrorInv, InStep

(* What was read of a ref to be written to the mirror, and what the mirror  *)
(* holds, is in the history of the ref, however sessions overlap or fail.   *)
WasSeen(b, n, h) == n = 0 \/ n \in Range(h[b])

ReadSeen(r, h) == r # NoSess => WasSeen(r.read[1], r.read[2], h)

PastInv ==
    /\ \A b \in Branches : WasSeen(b, mirror[b], history)
    /\ \A p \in Sessions : ReadSeen(sess[p], history)

(* Changesets are only added and histories only grow. *)
Grows ==
    /\ Len(css) <= Len(css') /\ \A i \in DOMAIN css : css'[i] = css[i]
    /\ \A b \in Branches : Range(history[b]) \subseteq Range(history'[b])

LEMMA StepGrows ==
  ASSUME RefInv, NEW p \in Sessions, Step(p)
  PROVE  Grows
<1>0. GitTypes /\ Numbers /\ Len(css) \in Nat  BY DEF RefInv, GitTypes
<1>1. CASE storeNodeObject(p)
  <2>. DEFINE x == [head |-> sess[p].base, pack |-> sess[p].pack, updates |-> sess[p].ups]
  <2>1. sess[p] \in Session  BY <1>0, <1>1, OpenIsSession DEF storeNodeObject
  <2>2. css' = Append(css, x) /\ history' = history  BY <1>1 DEF storeNodeObject
  <2>3. x \in Changeset  BY <2>1 DEF Session, Changeset
  <2>. HIDE DEF x
  <2>4. Len(css') = Len(css) + 1 /\ \A i \in DOMAIN css : css'[i] = css[i]
    BY <1>0, <2>2, <2>3, Appended DEF GitTypes
  <2>. QED  BY <1>0, <2>2, <2>4 DEF Grows
<1>2. CASE createChangeSetFromPack(p)
  <2>1. /\ css' = css /\ DOMAIN sess[p].ups \subseteq Branches
        /\ \A b \in Branches \ DOMAIN sess[p].ups : history'[b] = history[b]
        /\ \A b \in DOMAIN sess[p].ups : /\ TargetOf(sess[p], b) \in Nat
                                       /\ history'[b] = Append(history[b], TargetOf(sess[p], b))
    BY <1>0, <1>2, Pushed
  <2>2. ASSUME NEW b \in DOMAIN sess[p].ups PROVE Range(history[b]) \subseteq Range(history'[b])
    <3>1. history[b] \in Seq(Nat) /\ TargetOf(sess[p], b) \in Nat  BY <1>0, <2>1 DEF GitTypes
    <3>2. Range(Append(history[b], TargetOf(sess[p], b))) = Range(history[b]) \cup {TargetOf(sess[p], b)}
      BY <3>1, AppendedRange
    <3>. QED  BY <2>1, <3>2
  <2>3. \A b \in Branches : Range(history[b]) \subseteq Range(history'[b])  BY <2>1, <2>2
  <2>4. Len(css) <= Len(css') /\ \A i \in DOMAIN css : css'[i] = css[i]  BY <1>0, <2>1
  <2>. QED  BY <2>3, <2>4 DEF Grows
<1>3. CASE UNCHANGED <<css, refs, csLatest, history>>  BY <1>0, <1>3 DEF Grows
<1>. QED  BY <1>1, <1>2, <1>3, OnlyPushesMove

LEMMA RefsSeen == ASSUME RefInv, NEW b \in Branches PROVE WasSeen(b, refs[b], history)
BY LastInHistory DEF WasSeen

(* Session p becomes r, while the mirror shows the past. *)
LEMMA PastSession ==
  ASSUME RefInv, RefInv', PastInv, Grows, NEW p \in Sessions, NEW r, sess' = [sess EXCEPT ![p] = r],
         ReadSeen(r, history), \A b \in Branches : WasSeen(b, mirror'[b], history)
  PROVE  PastInv'
<1>0. GitTypes  BY DEF RefInv
<1>1. \A b \in Branches : \A n : WasSeen(b, n, history) => WasSeen(b, n, history')  BY DEF Grows, WasSeen
<1>2. ASSUME NEW x \in Session \cup {NoSess}, ReadSeen(x, history) PROVE ReadSeen(x, history')
  <2>1. x # NoSess => x.read[1] \in Branches  BY DEF Session
  <2>. QED  BY <1>1, <1>2, <2>1 DEF ReadSeen
<1>3. sess'[p] = r /\ \A q \in Sessions : q # p => sess'[q] = sess[q]  BY <1>0 DEF GitTypes
<1>4. ASSUME NEW q \in Sessions PROVE ReadSeen(sess'[q], history)
  <2>1. CASE q = p  BY <1>3, <2>1
  <2>2. CASE q # p  BY <1>3, <2>2 DEF PastInv
  <2>. QED  BY <2>1, <2>2
<1>5. \A q \in Sessions : ReadSeen(sess'[q], history')
  <2>1. \A q \in Sessions : sess'[q] \in Session \cup {NoSess}  BY DEF RefInv, GitTypes
  <2>. QED  BY <1>2, <1>4, <2>1
<1>. QED  BY <1>1, <1>5 DEF PastInv

LEMMA PastStep ==
  ASSUME RefInv, RefInv', PastInv, NEW p \in Sessions, Step(p)
  PROVE  PastInv'
<1>0. GitTypes /\ Numbers  BY DEF RefInv
<1>g. Grows  BY StepGrows
<1>m. \A b \in Branches : WasSeen(b, mirror[b], history)  BY DEF PastInv
<1>n. ReadSeen(NoSess, history)  BY DEF ReadSeen
<1>r. ASSUME sess[p] \in Session, NEW r, r.read = sess[p].read PROVE ReadSeen(r, history)
  BY <1>r, NoSessIsNone DEF ReadSeen, PastInv
<1>1. ASSUME NEW u \in Updates, ReceivePack(p, u) PROVE PastInv'
  <2>1. sess' = [sess EXCEPT ![p] = Received(u)] /\ mirror' = mirror  BY <1>1 DEF ReceivePack, Received
  <2>2. ReadSeen(Received(u), history)  BY DEF ReadSeen, Received, WasSeen
  <2>. QED  BY <1>g, <1>m, <2>1, <2>2, PastSession
<1>2. ASSUME resolveBaseSnapshot(p) PROVE PastInv'
  <2>1. PICK n \in {refs[Main], 0} : sess' = [sess EXCEPT ![p] = [sess[p] EXCEPT !.pc = "store", !.base = n]]
    BY <1>2 DEF resolveBaseSnapshot
  <2>. DEFINE r == [sess[p] EXCEPT !.pc = "store", !.base = n]
  <2>2. sess[p] \in Session /\ mirror' = mirror  BY <1>0, <1>2, OpenIsSession DEF resolveBaseSnapshot
  <2>3. r.read = sess[p].read  BY <2>2 DEF Session
  <2>. HIDE DEF r
  <2>4. ReadSeen(r, history)  BY <1>r, <2>2, <2>3
  <2>. QED  BY <1>g, <1>m, <2>1, <2>2, <2>4, PastSession DEF r
<1>3. ASSUME storeNodeObject(p) PROVE PastInv'
  <2>. DEFINE r == [sess[p] EXCEPT !.pc = "refs", !.cs = Len(css) + 1]
  <2>1. sess[p] \in Session /\ mirror' = mirror /\ sess' = [sess EXCEPT ![p] = r]
    BY <1>0, <1>3, OpenIsSession DEF storeNodeObject
  <2>2. r.read = sess[p].read  BY <2>1 DEF Session
  <2>. HIDE DEF r
  <2>3. ReadSeen(r, history)  BY <1>r, <2>1, <2>2
  <2>. QED  BY <1>g, <1>m, <2>1, <2>3, PastSession
<1>4. ASSUME createChangeSetFromPack(p) PROVE PastInv'
  <2>. DEFINE r == [sess[p] EXCEPT !.pc = "mirror", !.todo = DOMAIN sess[p].ups]
  <2>1. sess[p] \in Session /\ mirror' = mirror /\ sess' = [sess EXCEPT ![p] = r]  BY <1>0, <1>4, Pushed
  <2>2. r.read = sess[p].read  BY <2>1 DEF Session
  <2>. HIDE DEF r
  <2>3. ReadSeen(r, history)  BY <1>r, <2>1, <2>2
  <2>. QED  BY <1>g, <1>m, <2>1, <2>3, PastSession
<1>5. ASSUME PushFails(p) PROVE PastInv'
  <2>1. mirror' = mirror /\ sess' = [sess EXCEPT ![p] = NoSess]  BY <1>5 DEF PushFails
  <2>. QED  BY <1>g, <1>m, <1>n, <2>1, PastSession
<1>6. ASSUME SyncRefs(p) PROVE PastInv'
  <2>1. sess[p] \in Session /\ mirror' = mirror  BY <1>0, <1>6, OpenIsSession DEF SyncRefs
  <2>2. CASE sess' = [sess EXCEPT ![p] = NoSess]  BY <1>g, <1>m, <1>n, <2>1, <2>2, PastSession
  <2>3. ASSUME NEW b \in sess[p].todo,
               sess' = [sess EXCEPT ![p] = [@ EXCEPT !.pc = "update-ref", !.todo = sess[p].todo \ {b}, !.read = <<b, refs[b]>>]]
        PROVE  PastInv'
    <3>. DEFINE r == [sess[p] EXCEPT !.pc = "update-ref", !.todo = sess[p].todo \ {b}, !.read = <<b, refs[b]>>]
    <3>1. sess' = [sess EXCEPT ![p] = r] /\ b \in Branches  BY <2>1, <2>3 DEF Session
    <3>2. r.read = <<b, refs[b]>>  BY <2>1 DEF Session
    <3>. HIDE DEF r
    <3>3. ReadSeen(r, history)  BY <3>1, <3>2, RefsSeen DEF ReadSeen
    <3>. QED  BY <1>g, <1>m, <2>1, <3>1, <3>3, PastSession
  <2>. QED  BY <1>6, <2>2, <2>3 DEF SyncRefs
<1>7. ASSUME updateRef(p) PROVE PastInv'
  <2>. DEFINE r == [sess[p] EXCEPT !.pc = "mirror"]
              a == sess[p].read[1]
  <2>1. /\ sess[p] \in Session /\ sess' = [sess EXCEPT ![p] = r]
        /\ mirror' = [mirror EXCEPT ![a] = sess[p].read[2]]
    BY <1>0, <1>7, OpenIsSession DEF updateRef
  <2>2. r.read = sess[p].read  BY <2>1 DEF Session
  <2>. HIDE DEF r
  <2>3. ReadSeen(r, history) /\ ReadSeen(sess[p], history)  BY <1>r, <2>1, <2>2
  <2>4. WasSeen(a, sess[p].read[2], history)  BY <2>1, <2>3, NoSessIsNone DEF ReadSeen
  <2>5. \A b \in Branches : WasSeen(b, mirror'[b], history)  BY <1>0, <1>m, <2>1, <2>4 DEF GitTypes
  <2>. QED  BY <1>g, <2>1, <2>3, <2>5, PastSession
<1>8. ASSUME RefSkipped(p) PROVE PastInv'
  <2>. DEFINE r == [sess[p] EXCEPT !.pc = "mirror"]
  <2>1. sess[p] \in Session /\ mirror' = mirror /\ sess' = [sess EXCEPT ![p] = r]
    BY <1>0, <1>8, OpenIsSession DEF RefSkipped
  <2>2. r.read = sess[p].read  BY <2>1 DEF Session
  <2>. HIDE DEF r
  <2>3. ReadSeen(r, history)  BY <1>r, <2>1, <2>2
  <2>. QED  BY <1>g, <1>m, <2>1, <2>3, PastSession
<1>9. ASSUME SyncAbandoned(p) PROVE PastInv'
  <2>1. mirror' = mirror /\ sess' = [sess EXCEPT ![p] = NoSess]  BY <1>9 DEF SyncAbandoned
  <2>. QED  BY <1>g, <1>m, <1>n, <2>1, PastSession
<1>. QED  BY <1>1, <1>2, <1>3, <1>4, <1>5, <1>6, <1>7, <1>8, <1>9 DEF Step, Asked

LEMMA PastNext ==
  ASSUME RefInv, RefInv', PastInv, [GitNext]_gitVars
  PROVE  PastInv'
<1>1. CASE UNCHANGED gitVars  BY <1>1 DEF PastInv, ReadSeen, WasSeen, gitVars
<1>2. ASSUME GitNext PROVE PastInv'
  <2>1. PICK p \in Sessions : Step(p)  BY <1>2, NextIsStep
  <2>. QED  BY <2>1, PastStep
<1>. QED  BY <1>1, <1>2

LEMMA PastInit == GitInit => PastInv
BY DEF GitInit, PastInv, ReadSeen, WasSeen

(* Whatever overlaps or fails, the mirror shows of a ref nothing but what   *)
(* the ref has been. When the pushes never overlapped and the sessions are  *)
(* over it shows the refs as they are, deleted ones included, but for those *)
(* whose last sync failed or was left out: SyncRefs takes each ref a push   *)
(* named, and none but a push moves a ref (mirror.go:43).                   *)
THEOREM MirrorHolds == GitSpec => []MirrorFollows
<1>1. MirrorInv => MirrorCatchesUp  BY MirrorInSync
<1>2. PastInv => MirrorShowsThePast  BY DEF PastInv, WasSeen, MirrorShowsThePast
<1>3. RefInv /\ MirrorInv /\ [GitNext]_gitVars => MirrorInv'  BY MirrorNext
<1>4. RefInv /\ RefInv' /\ PastInv /\ [GitNext]_gitVars => PastInv'  BY PastNext
<1>5. MirrorInv /\ PastInv => MirrorFollows  BY <1>1, <1>2 DEF MirrorFollows
<1>. QED  BY <1>3, <1>4, <1>5, MirrorInit, PastInit, RefInvAlways, PTL DEF GitSpec
-----------------------------------------------------------------------------
(* The chain of heads. *)

LEMMA UpTo ==
  ASSUME NEW n \in Nat, NEW S, 0 \in S, \A i \in 1 .. n : i - 1 \in S => i \in S
  PROVE  \A i \in 0 .. n : i \in S
<1>. DEFINE Bad == (0 .. n) \ S
<1>1. SUFFICES ASSUME Bad # {} PROVE FALSE  OBVIOUS
<1>2. Bad \subseteq Nat  OBVIOUS
<1>3. PICK m \in Bad : \A i \in Bad : ~(<<i, m>> \in OpToRel(<, Nat))
  <2>. HIDE DEF Bad
  <2>. QED  BY <1>1, <1>2, NatLessThanWellFounded, WFMin
<1>4. \A i \in Bad : ~(i < m)
  <2>. HIDE DEF Bad
  <2>. QED  BY <1>2, <1>3 DEF OpToRel
<1>a. m \in 0 .. n /\ m # 0  OBVIOUS
<1>5. m \in 1 .. n /\ m - 1 \in 0 .. n  BY <1>a
<1>6. m - 1 \in S  BY <1>4, <1>5
<1>. QED  BY <1>5, <1>6

(* A loop of n rounds from v, each making the next value with F. *)
Rounds(n, V) ==
    \A v \in V : \A F \in [V \X (1 .. n) -> V] :
        \E g \in [0 .. n -> V] : g[0] = v /\ \A i \in 1 .. n : g[i] = F[<<g[i - 1], i>>]

LEMMA Iterates == ASSUME NEW n \in Nat, NEW V PROVE Rounds(n, V)
<1>. SUFFICES ASSUME NEW v \in V, NEW F \in [V \X (1 .. n) -> V]
              PROVE  \E g \in [0 .. n -> V] : g[0] = v /\ \A i \in 1 .. n : g[i] = F[<<g[i - 1], i>>]
  BY Zenon DEF Rounds
<1>. DEFINE Loop(g, k) == g[0] = v /\ \A i \in 1 .. k : g[i] = F[<<g[i - 1], i>>]
            S == {k \in 0 .. n : \E g \in [0 .. k -> V] : Loop(g, k)}
<1>1. 0 \in S
  <2>. DEFINE g == [i \in 0 .. 0 |-> v]
  <2>1. g \in [0 .. 0 -> V] /\ Loop(g, 0)  OBVIOUS
  <2>. HIDE DEF g, Loop
  <2>. QED  BY <2>1
<1>2. ASSUME NEW k \in 1 .. n, k - 1 \in S PROVE k \in S
  <2>1. PICK g \in [0 .. k - 1 -> V] : Loop(g, k - 1)  BY <1>2
  <2>2. k - 1 \in 0 .. k - 1  OBVIOUS
  <2>3. F[<<g[k - 1], k>>] \in V  BY <2>2
  <2>. DEFINE h == [i \in 0 .. k |-> IF i = k THEN F[<<g[k - 1], k>>] ELSE g[i]]
  <2>4. ASSUME NEW i \in 0 .. k PROVE h[i] \in V  BY <2>3
  <2>5. h[0] = v  BY <2>1
  <2>6. ASSUME NEW i \in 1 .. k PROVE h[i] = F[<<h[i - 1], i>>]
    <3>1. CASE i = k
      <4>1. h[k - 1] = g[k - 1] /\ h[k] = F[<<g[k - 1], k>>]  OBVIOUS
      <4>. HIDE DEF h
      <4>. QED  BY <3>1, <4>1
    <3>2. CASE i # k
      <4>1. i \in 1 .. k - 1 /\ h[i] = g[i] /\ h[i - 1] = g[i - 1]  BY <3>2
      <4>. QED  BY <2>1, <4>1
    <3>. QED  BY <3>1, <3>2
  <2>7. h = [i \in 0 .. k |-> h[i]]  OBVIOUS
  <2>. HIDE DEF h
  <2>8. h \in [0 .. k -> V] /\ Loop(h, k)  BY <2>4, <2>5, <2>6, <2>7
  <2>. HIDE DEF Loop
  <2>. QED  BY <2>8
<1>3. \A k \in 0 .. n : k \in S
  <2>. HIDE DEF S
  <2>. QED  BY <1>1, <1>2, UpTo
<1>. QED  BY <1>3

ChainFrom(at, i, n) ==
    /\ at \in [0 .. n -> 0 .. Len(css)] /\ at[0] = i
    /\ \A k \in 1 .. n : at[k] = IF at[k - 1] = 0 THEN 0 ELSE css[at[k - 1]].head

LEMMA ChainFollows ==
  ASSUME GitTypes, Numbers, NEW i \in DOMAIN css, NEW n \in Nat
  PROVE  \E at : ChainFrom(at, i, n) /\ Chain(i, n) = [k \in {j \in 1 .. n : at[j - 1] # 0} |-> at[k - 1]]
<1>. DEFINE V == 0 .. Len(css)
            F == [x \in V \X (1 .. n) |-> IF x[1] = 0 THEN 0 ELSE css[x[1]].head]
            Next1(g, k) == IF k = 0 THEN i ELSE IF g[k - 1] = 0 THEN 0 ELSE css[g[k - 1]].head
            IsLoop(g) == g = [k \in 0 .. n |-> Next1(g, k)]
<1>1. DOMAIN css = 1 .. Len(css) /\ Len(css) \in Nat  BY DEF GitTypes
<1>2. ASSUME NEW x \in V, x # 0 PROVE css[x].head \in V
  <2>1. x \in DOMAIN css  BY <1>1, <1>2
  <2>2. css[x].head \in 0 .. x - 1  BY <2>1 DEF Numbers
  <2>. QED  BY <1>1, <2>1, <2>2
<1>3. 0 \in V /\ i \in V  BY <1>1
<1>4. F \in [V \X (1 .. n) -> V]
  <2>1. ASSUME NEW x \in V \X (1 .. n) PROVE (IF x[1] = 0 THEN 0 ELSE css[x[1]].head) \in V
    <3>1. x[1] \in V  OBVIOUS
    <3>. HIDE DEF V
    <3>. QED  BY <1>2, <1>3, <3>1
  <2>. HIDE DEF V
  <2>. QED  BY <2>1
<1>5. PICK g \in [0 .. n -> V] : g[0] = i /\ \A k \in 1 .. n : g[k] = F[<<g[k - 1], k>>]
  <2>. HIDE DEF F, V
  <2>1. Rounds(n, V)  BY Iterates
  <2>. QED  BY <1>3, <1>4, <2>1, Zenon DEF Rounds
<1>6. ASSUME NEW k \in 1 .. n PROVE g[k] = IF g[k - 1] = 0 THEN 0 ELSE css[g[k - 1]].head
  <2>1. k - 1 \in 0 .. n  OBVIOUS
  <2>2. g[k - 1] \in V  BY <2>1
  <2>3. <<g[k - 1], k>> \in V \X (1 .. n)  BY <2>2
  <2>. HIDE DEF V
  <2>. QED  BY <1>5, <2>3
<1>7. \E f : IsLoop(f)
  <2>1. ASSUME NEW k \in 0 .. n PROVE g[k] = Next1(g, k)
    <3>1. CASE k = 0  BY <1>5, <3>1
    <3>2. CASE k # 0
      <4>1. k \in 1 .. n  BY <3>2
      <4>. QED  BY <4>1, <1>6, <3>2
    <3>. QED  BY <3>1, <3>2
  <2>2. g = [k \in 0 .. n |-> g[k]]  OBVIOUS
  <2>3. IsLoop(g)
    <3>. HIDE DEF Next1
    <3>. QED  BY <2>1, <2>2
  <2>. HIDE DEF IsLoop
  <2>. QED  BY <2>3
<1>. DEFINE at == CHOOSE f : IsLoop(f)
<1>8. IsLoop(at)
  <2>. HIDE DEF IsLoop
  <2>. QED  BY <1>7
<1>9. Chain(i, n) = [k \in {j \in 1 .. n : at[j - 1] # 0} |-> at[k - 1]]  BY DEF Chain
<1>. HIDE DEF at
<1>10. at[0] = i /\ \A k \in 1 .. n : at[k] = IF at[k - 1] = 0 THEN 0 ELSE css[at[k - 1]].head
  <2>1. \A k \in 0 .. n : at[k] = Next1(at, k)  BY <1>8
  <2>2. \A k \in 1 .. n : k \in 0 .. n /\ k # 0  OBVIOUS
  <2>3. 0 \in 0 .. n  OBVIOUS
  <2>. QED  BY <2>1, <2>2, <2>3
<1>11. \A k \in 0 .. n : at[k] \in V
  <2>. DEFINE T == {k \in 0 .. n : at[k] \in V}
  <2>1. 0 \in T  BY <1>3, <1>10
  <2>2. ASSUME NEW k \in 1 .. n, k - 1 \in T PROVE k \in T
    <3>1. at[k - 1] \in V  BY <2>2
    <3>2. at[k] \in V
      <4>. HIDE DEF V
      <4>. QED  BY <1>2, <1>3, <1>10, <3>1
    <3>. QED  BY <3>2
  <2>3. \A k \in 0 .. n : k \in T
    <3>. HIDE DEF T
    <3>. QED  BY <2>1, <2>2, UpTo
  <2>. QED  BY <2>3
<1>12. ChainFrom(at, i, n)
  <2>1. at \in [0 .. n -> V]
    <3>1. at = [k \in 0 .. n |-> at[k]]  BY <1>8
    <3>. HIDE DEF V, IsLoop
    <3>. QED  BY <1>11, <3>1
  <2>. QED  BY <2>1, <1>10 DEF ChainFrom
<1>. QED  BY <1>9, <1>12

(* The newest changeset of a chain is the one it starts from. *)
LEMMA ChainStarts ==
  ASSUME GitTypes, Numbers, NEW i \in DOMAIN css, NEW n \in Nat
  PROVE  /\ DOMAIN Chain(i, n) \subseteq 1 .. n
         /\ DOMAIN Chain(i, n) # {} => 1 \in DOMAIN Chain(i, n) /\ Chain(i, n)[1] = i
<1>1. PICK at : ChainFrom(at, i, n) /\ Chain(i, n) = [k \in {j \in 1 .. n : at[j - 1] # 0} |-> at[k - 1]]
  BY ChainFollows
<1>2. DOMAIN Chain(i, n) = {j \in 1 .. n : at[j - 1] # 0}  BY <1>1
<1>3. ASSUME NEW k \in DOMAIN Chain(i, n) PROVE 1 \in DOMAIN Chain(i, n) /\ Chain(i, n)[1] = i
  <2>1. 1 \in 1 .. n  BY <1>2
  <2>2. at[1 - 1] = i /\ i # 0  BY <1>1 DEF ChainFrom, GitTypes
  <2>. QED  BY <1>1, <1>2, <2>1, <2>2
<1>. QED  BY <1>2, <1>3

(* Only the changeset a ref points to is asked for the commit of the ref. *)
LEMMA CommitIsTip ==
  ASSUME RefInv, NEW b \in Branches, refs[b] # 0
  PROVE  /\ CommitOIDs(Chain(refs[b], MaxChain), b) \subseteq {css[refs[b]].updates[b]}
         /\ DOMAIN Chain(refs[b], MaxChain) # {} =>
               CommitOIDs(Chain(refs[b], MaxChain), b) = {css[refs[b]].updates[b]}
<1>. DEFINE ch == Chain(refs[b], MaxChain)
            Names(j) == b \in DOMAIN css[ch[j]].updates /\ css[ch[j]].updates[b] # Zero
            K == {j \in DOMAIN ch : Names(j) /\ \A i \in 1 .. j - 1 : ~Names(i)}
<1>1. CommitOIDs(ch, b) = {css[ch[k]].updates[b] : k \in K}  BY DEF CommitOIDs
<1>2. refs[b] \in DOMAIN css /\ b \in DOMAIN css[refs[b]].updates /\ css[refs[b]].updates[b] # Zero
  BY LastInHistory
<1>3. DOMAIN ch \subseteq 1 .. MaxChain /\ (DOMAIN ch # {} => 1 \in DOMAIN ch /\ ch[1] = refs[b])
  BY <1>2, ChainStarts, GitPushAssumption DEF RefInv
<1>4. DOMAIN ch # {} => Names(1)  BY <1>2, <1>3
<1>. HIDE DEF ch
<1>5. ASSUME NEW k \in K PROVE k = 1
  <2>1. k \in 1 .. MaxChain  BY <1>3
  <2>2. 1 \notin 1 .. k - 1  BY <1>4, <1>5
  <2>. QED  BY <2>1, <2>2
<1>6. DOMAIN ch # {} => 1 \in K  BY <1>3, <1>4
<1>7. \A k \in K : ch[k] = refs[b]  BY <1>3, <1>5
<1>. HIDE DEF K
<1>8. CommitOIDs(ch, b) \subseteq {css[refs[b]].updates[b]}  BY <1>1, <1>7
<1>9. DOMAIN ch # {} => CommitOIDs(ch, b) = {css[refs[b]].updates[b]}  BY <1>1, <1>6, <1>7
<1>. QED  BY <1>8, <1>9 DEF ch

LEMMA BuiltCommit ==
  ASSUME RefInv, NEW b \in Branches, refs[b] # 0
  PROVE  buildRef(b).commit \in {Zero, css[refs[b]].updates[b]}
<1>. DEFINE ch == Chain(refs[b], MaxChain)
            r == resolveGitPackObjects(refs[b], b)
<1>1. CommitOIDs(ch, b) \subseteq {css[refs[b]].updates[b]}  BY CommitIsTip
<1>2. r.commit \in {Zero, css[refs[b]].updates[b]}
  <2>1. CASE CommitOIDs(ch, b) = {}
    <3>1. r = Synthetic  BY <2>1 DEF resolveGitPackObjects
    <3>. QED  BY <3>1 DEF Synthetic
  <2>2. CASE CommitOIDs(ch, b) # {}
    <3>. DEFINE c == CHOOSE x \in CommitOIDs(ch, b) : TRUE
    <3>1. c \in CommitOIDs(ch, b)  BY <2>2
    <3>2. r = [commit |-> c, objects |-> AllObjects(ch)]  BY <2>2 DEF resolveGitPackObjects
    <3>. HIDE DEF c, ch
    <3>3. r.commit = c  BY <3>2
    <3>. QED  BY <1>1, <3>1, <3>3
  <2>. QED  BY <2>1, <2>2
<1>. HIDE DEF r
<1>3. buildRef(b).commit \in {r.commit, Zero}  BY DEF buildRef, Synthetic, r
<1>. QED  BY <1>2, <1>3
-----------------------------------------------------------------------------
(* Packs. The commits a client was told of, as pairs of a branch and of a   *)
(* changeset that was once its target, are all the pack leaves out.         *)

Given(n, hs) == {s \in Branches \X (1 .. n - 1) : s[2] \in Range(hs[s[1]])}
Told(S, cs)  == UNION {Ancestors(cs[s[2]].updates[s[1]]) : s \in S}
Wanted(u)    == UNION {Ancestors(u[b]) : b \in DOMAIN u}

ThinFor(pack, u, n, cs, hs) ==
    /\ OneCommit(u)
    /\ \E S \in SUBSET Given(n, hs) : pack = ThinPack(Wanted(u) \ Told(S, cs))

PackInv ==
    /\ \A i \in DOMAIN css : ThinFor(css[i].pack, css[i].updates, i, css, history)
    /\ \A p \in Sessions : sess[p].pc \in {"base", "store"} =>
           ThinFor(sess[p].pack, sess[p].ups, Len(css) + 1, css, history)

LEMMA ThinForLater ==
  ASSUME NEW pack, NEW u, NEW n \in Nat, NEW m \in Nat, n <= m,
         NEW cs, NEW cs2, NEW hs, NEW hs2, ThinFor(pack, u, n, cs, hs),
         \A i \in 1 .. n - 1 : cs2[i] = cs[i],
         \A b \in Branches : Range(hs[b]) \subseteq Range(hs2[b])
  PROVE  ThinFor(pack, u, m, cs2, hs2)
<1>1. PICK S \in SUBSET Given(n, hs) : pack = ThinPack(Wanted(u) \ Told(S, cs))  BY DEF ThinFor
<1>2. Given(n, hs) \subseteq Given(m, hs2)
  <2>. SUFFICES ASSUME NEW s \in Given(n, hs) PROVE s \in Given(m, hs2)  OBVIOUS
  <2>1. s \in Branches \X (1 .. n - 1) /\ s[2] \in Range(hs[s[1]])  BY DEF Given
  <2>2. s \in Branches \X (1 .. m - 1) /\ s[1] \in Branches  BY <2>1
  <2>. QED  BY <2>1, <2>2 DEF Given
<1>3. \A s \in S : cs2[s[2]] = cs[s[2]]
  <2>. SUFFICES ASSUME NEW s \in S PROVE cs2[s[2]] = cs[s[2]]  OBVIOUS
  <2>1. s \in Branches \X (1 .. n - 1)  BY <1>1 DEF Given
  <2>2. s[2] \in 1 .. n - 1  BY <2>1
  <2>. QED  BY <2>2
<1>4. Told(S, cs2) = Told(S, cs)  BY <1>3 DEF Told
<1>5. S \in SUBSET Given(m, hs2)  BY <1>1, <1>2
<1>6. OneCommit(u)  BY DEF ThinFor
<1>. QED  BY <1>1, <1>4, <1>5, <1>6 DEF ThinFor

(* What the server advertises is the commits its refs point to, or fewer. *)
LEMMA AdvertisedIsTold ==
  ASSUME RefInv
  PROVE  \E S \in SUBSET Given(Len(css) + 1, history) :
            UNION {Ancestors(c) : c \in advertised} = Told(S, css)
<1>. DEFINE B == {b \in Branches : refs[b] # 0 /\ buildRef(b).commit # Zero}
            S == {<<b, refs[b]>> : b \in B}
<1>1. \A b \in B : buildRef(b).commit = css[refs[b]].updates[b]  BY BuiltCommit
<1>2. advertised = {buildRef(b).commit : b \in B}
  <2>. DEFINE A == {buildRef(b).commit : b \in {x \in Branches : refs[x] # 0}}
  <2>1. advertised = A \ {Zero}  BY DEF advertised
  <2>2. \A c : c \in A <=> \E b \in Branches : refs[b] # 0 /\ c = buildRef(b).commit  OBVIOUS
  <2>3. \A c : c \in advertised <=> \E b \in B : c = buildRef(b).commit
    <3>. HIDE DEF A
    <3>. QED  BY <2>1, <2>2
  <2>. HIDE DEF B
  <2>. QED  BY <2>3
<1>3. advertised = {css[refs[b]].updates[b] : b \in B}
  <2>. HIDE DEF B
  <2>. QED  BY <1>1, <1>2
<1>4. S \subseteq Given(Len(css) + 1, history)
  <2>. SUFFICES ASSUME NEW b \in B PROVE <<b, refs[b]>> \in Given(Len(css) + 1, history)  OBVIOUS
  <2>1. b \in Branches /\ refs[b] \in Range(history[b]) /\ refs[b] \in DOMAIN css  BY LastInHistory
  <2>2. refs[b] \in 1 .. (Len(css) + 1) - 1  BY <2>1 DEF RefInv, GitTypes
  <2>3. <<b, refs[b]>> \in Branches \X (1 .. (Len(css) + 1) - 1)  BY <2>1, <2>2
  <2>. QED  BY <2>1, <2>3 DEF Given
<1>. HIDE DEF B
<1>5. Told(S, css) = UNION {Ancestors(css[refs[b]].updates[b]) : b \in B}
  <2>1. \A c : c \in Told(S, css) <=> \E s \in S : c \in Ancestors(css[s[2]].updates[s[1]])  BY DEF Told
  <2>2. \A s : s \in S <=> \E b \in B : s = <<b, refs[b]>>  OBVIOUS
  <2>. HIDE DEF S
  <2>3. ASSUME NEW c \in Told(S, css) PROVE \E b \in B : c \in Ancestors(css[refs[b]].updates[b])
    <3>1. PICK s \in S : c \in Ancestors(css[s[2]].updates[s[1]])  BY <2>1
    <3>2. PICK b \in B : s = <<b, refs[b]>>  BY <2>2
    <3>. QED  BY <3>1, <3>2
  <2>4. ASSUME NEW b \in B, NEW c \in Ancestors(css[refs[b]].updates[b]) PROVE c \in Told(S, css)
    <3>. DEFINE s == <<b, refs[b]>>
    <3>1. s \in S /\ s[1] = b /\ s[2] = refs[b]  BY <2>2
    <3>. HIDE DEF s
    <3>. QED  BY <2>1, <3>1
  <2>. HIDE DEF B
  <2>. QED  BY <2>3, <2>4
<1>6. UNION {Ancestors(c) : c \in advertised} = Told(S, css)
  <2>. HIDE DEF S
  <2>. QED  BY <1>3, <1>5
<1>. HIDE DEF S
<1>. QED  BY <1>4, <1>6

LEMMA ReceivedIsThin ==
  ASSUME RefInv, NEW u, OneCommit(u)
  PROVE  ThinFor(ThinPack(Lacking(u)), u, Len(css) + 1, css, history)
<1>1. PICK S \in SUBSET Given(Len(css) + 1, history) :
         UNION {Ancestors(c) : c \in advertised} = Told(S, css)
  BY AdvertisedIsTold
<1>. DEFINE T == UNION {Ancestors(c) : c \in advertised}
<1>2. Lacking(u) = Wanted(u) \ T  BY Zenon DEF Lacking, Wanted
<1>3. Lacking(u) = Wanted(u) \ Told(S, css)
  <2>. HIDE DEF T
  <2>1. T = Told(S, css)  BY <1>1 DEF T
  <2>. QED  BY <1>2, <2>1
<1>. QED  BY <1>3 DEF ThinFor

LEMMA ThinKept ==
  ASSUME RefInv, RefInv', Grows, PackInv
  PROVE  /\ \A i \in DOMAIN css : ThinFor(css'[i].pack, css'[i].updates, i, css', history')
         /\ \A p \in Sessions : sess[p].pc \in {"base", "store"} =>
               ThinFor(sess[p].pack, sess[p].ups, Len(css') + 1, css', history')
<1>1. DOMAIN css = 1 .. Len(css) /\ Len(css) \in Nat /\ Len(css') \in Nat  BY DEF RefInv, GitTypes
<1>2. ASSUME NEW i \in DOMAIN css
      PROVE  ThinFor(css'[i].pack, css'[i].updates, i, css', history')
  <2>1. ThinFor(css[i].pack, css[i].updates, i, css, history)  BY DEF PackInv
  <2>2. \A j \in 1 .. i - 1 : css'[j] = css[j]  BY <1>1 DEF Grows
  <2>3. i \in Nat /\ i <= i /\ css'[i] = css[i]  BY <1>1 DEF Grows
  <2>4. ThinFor(css[i].pack, css[i].updates, i, css', history')
    BY <2>1, <2>2, <2>3, ThinForLater DEF Grows
  <2>. QED  BY <2>3, <2>4
<1>3. ASSUME NEW p \in Sessions, sess[p].pc \in {"base", "store"}
      PROVE  ThinFor(sess[p].pack, sess[p].ups, Len(css') + 1, css', history')
  <2>1. ThinFor(sess[p].pack, sess[p].ups, Len(css) + 1, css, history)  BY <1>3 DEF PackInv
  <2>2. \A j \in 1 .. (Len(css) + 1) - 1 : css'[j] = css[j]  BY <1>1 DEF Grows
  <2>3. Len(css) + 1 \in Nat /\ Len(css') + 1 \in Nat /\ Len(css) + 1 <= Len(css') + 1  BY <1>1 DEF Grows
  <2>. QED  BY <2>1, <2>2, <2>3, ThinForLater DEF Grows
<1>. QED  BY <1>2, <1>3

(* Session p becomes r, whose pack is thin if it is still to be stored. *)
LEMMA PackSession ==
  ASSUME RefInv, RefInv', Grows, PackInv, NEW p \in Sessions, NEW r, sess' = [sess EXCEPT ![p] = r],
         r.pc \in {"base", "store"} => ThinFor(r.pack, r.ups, Len(css') + 1, css', history'),
         \A i \in DOMAIN css' : i \in DOMAIN css \/ ThinFor(css'[i].pack, css'[i].updates, i, css', history')
  PROVE  PackInv'
<1>1. ASSUME NEW q \in Sessions, sess'[q].pc \in {"base", "store"}
      PROVE  ThinFor(sess'[q].pack, sess'[q].ups, Len(css') + 1, css', history')
  <2>1. CASE q = p
    <3>1. sess'[q] = r  BY <2>1 DEF RefInv, GitTypes
    <3>. QED  BY <1>1, <3>1
  <2>2. CASE q # p
    <3>1. sess'[q] = sess[q]  BY <2>2 DEF RefInv, GitTypes
    <3>. QED  BY <1>1, <3>1, ThinKept
  <2>. QED  BY <2>1, <2>2
<1>2. \A i \in DOMAIN css' : ThinFor(css'[i].pack, css'[i].updates, i, css', history')  BY ThinKept
<1>. QED  BY <1>1, <1>2 DEF PackInv

LEMMA PackStep ==
  ASSUME RefInv, RefInv', PackInv, NEW p \in Sessions, Step(p)
  PROVE  PackInv'
<1>g. Grows  BY StepGrows
<1>0. GitTypes /\ Numbers  BY DEF RefInv
<1>1. ASSUME NEW u \in Updates, OneCommit(u), ReceivePack(p, u) PROVE PackInv'
  <2>1. sess' = [sess EXCEPT ![p] = Received(u)] /\ css' = css /\ history' = history
    BY <1>1 DEF ReceivePack, Received
  <2>2. ThinFor(ThinPack(Lacking(u)), u, Len(css) + 1, css, history)  BY <1>1, ReceivedIsThin
  <2>3. Received(u).pack = ThinPack(Lacking(u)) /\ Received(u).ups = u  BY DEF Received
  <2>. QED  BY <1>g, <2>1, <2>2, <2>3, PackSession
<1>2. ASSUME resolveBaseSnapshot(p) PROVE PackInv'
  <2>0. PICK n \in {refs[Main], 0} : sess' = [sess EXCEPT ![p] = [sess[p] EXCEPT !.pc = "store", !.base = n]]
    BY <1>2 DEF resolveBaseSnapshot
  <2>. DEFINE r == [sess[p] EXCEPT !.pc = "store", !.base = n]
  <2>1. sess[p] \in Session /\ sess[p].pc = "base"  BY <1>0, <1>2, OpenIsSession DEF resolveBaseSnapshot
  <2>2. sess' = [sess EXCEPT ![p] = r] /\ css' = css /\ history' = history
    BY <1>2, <2>0 DEF resolveBaseSnapshot
  <2>3. r.pack = sess[p].pack /\ r.ups = sess[p].ups  BY <2>1 DEF Session
  <2>. HIDE DEF r
  <2>4. ThinFor(r.pack, r.ups, Len(css) + 1, css, history)  BY <2>1, <2>3 DEF PackInv
  <2>. QED  BY <1>g, <2>2, <2>4, PackSession
<1>3. ASSUME storeNodeObject(p) PROVE PackInv'
  <2>. DEFINE r == [sess[p] EXCEPT !.pc = "refs", !.cs = Len(css) + 1]
              x == [head |-> sess[p].base, pack |-> sess[p].pack, updates |-> sess[p].ups]
  <2>1. sess[p] \in Session /\ sess[p].pc = "store"  BY <1>0, <1>3, OpenIsSession DEF storeNodeObject
  <2>2. sess' = [sess EXCEPT ![p] = r] /\ css' = Append(css, x) /\ history' = history
    BY <1>3 DEF storeNodeObject
  <2>3. x \in Changeset /\ x.pack = sess[p].pack /\ x.updates = sess[p].ups  BY <2>1 DEF Session, Changeset
  <2>4. r.pc = "refs"  BY <2>1 DEF Session
  <2>. HIDE DEF r, x
  <2>5. /\ DOMAIN css' = DOMAIN css \cup {Len(css) + 1} /\ css'[Len(css) + 1] = x
        /\ \A i \in DOMAIN css : css'[i] = css[i]
        /\ DOMAIN css = 1 .. Len(css) /\ Len(css) \in Nat
    BY <1>0, <2>2, <2>3, Appended DEF GitTypes
  <2>6. ThinFor(x.pack, x.updates, Len(css) + 1, css, history)  BY <2>1, <2>3 DEF PackInv
  <2>7. \A i \in 1 .. (Len(css) + 1) - 1 : css'[i] = css[i]  BY <2>5
  <2>a. Len(css) + 1 \in Nat /\ Len(css) + 1 <= Len(css) + 1  BY <2>5
  <2>8. ThinFor(x.pack, x.updates, Len(css) + 1, css', history')
    BY <1>g, <2>6, <2>7, <2>a, ThinForLater DEF Grows
  <2>9. \A i \in DOMAIN css' : i \in DOMAIN css \/ ThinFor(css'[i].pack, css'[i].updates, i, css', history')
    BY <2>5, <2>8
  <2>. QED  BY <1>g, <2>2, <2>4, <2>9, PackSession
<1>4. ASSUME createChangeSetFromPack(p) PROVE PackInv'
  <2>. DEFINE r == [sess[p] EXCEPT !.pc = "mirror", !.todo = DOMAIN sess[p].ups]
  <2>1. sess[p] \in Session /\ css' = css /\ sess' = [sess EXCEPT ![p] = r]  BY <1>0, <1>4, Pushed
  <2>2. r.pc = "mirror"  BY <2>1 DEF Session
  <2>. HIDE DEF r
  <2>. QED  BY <1>g, <2>1, <2>2, PackSession
<1>5. ASSUME PushFails(p) PROVE PackInv'
  <2>1. sess' = [sess EXCEPT ![p] = NoSess] /\ css' = css  BY <1>5 DEF PushFails
  <2>2. NoSess.pc = "idle"  BY DEF NoSess
  <2>. QED  BY <1>g, <2>1, <2>2, PackSession
<1>6. ASSUME SyncRefs(p) PROVE PackInv'
  <2>1. sess[p] \in Session /\ css' = css  BY <1>0, <1>6, OpenIsSession DEF SyncRefs
  <2>2. CASE sess' = [sess EXCEPT ![p] = NoSess]
    <3>1. NoSess.pc = "idle"  BY DEF NoSess
    <3>. QED  BY <1>g, <2>1, <2>2, <3>1, PackSession
  <2>3. ASSUME NEW b \in sess[p].todo,
               sess' = [sess EXCEPT ![p] = [@ EXCEPT !.pc = "update-ref", !.todo = sess[p].todo \ {b}, !.read = <<b, refs[b]>>]]
        PROVE  PackInv'
    <3>. DEFINE r == [sess[p] EXCEPT !.pc = "update-ref", !.todo = sess[p].todo \ {b}, !.read = <<b, refs[b]>>]
    <3>1. sess' = [sess EXCEPT ![p] = r] /\ r.pc = "update-ref"  BY <2>1, <2>3 DEF Session
    <3>. HIDE DEF r
    <3>. QED  BY <1>g, <2>1, <3>1, PackSession
  <2>. QED  BY <1>6, <2>2, <2>3 DEF SyncRefs
<1>7. ASSUME updateRef(p) PROVE PackInv'
  <2>. DEFINE r == [sess[p] EXCEPT !.pc = "mirror"]
  <2>1. sess[p] \in Session /\ css' = css  BY <1>0, <1>7, OpenIsSession DEF updateRef
  <2>2. sess' = [sess EXCEPT ![p] = r] /\ r.pc = "mirror"  BY <1>7, <2>1 DEF updateRef, Session
  <2>. HIDE DEF r
  <2>. QED  BY <1>g, <2>1, <2>2, PackSession
<1>8. ASSUME RefSkipped(p) PROVE PackInv'
  <2>. DEFINE r == [sess[p] EXCEPT !.pc = "mirror"]
  <2>1. sess[p] \in Session /\ css' = css  BY <1>0, <1>8, OpenIsSession DEF RefSkipped
  <2>2. sess' = [sess EXCEPT ![p] = r] /\ r.pc = "mirror"  BY <1>8, <2>1 DEF RefSkipped, Session
  <2>. HIDE DEF r
  <2>. QED  BY <1>g, <2>1, <2>2, PackSession
<1>9. ASSUME SyncAbandoned(p) PROVE PackInv'
  <2>1. sess' = [sess EXCEPT ![p] = NoSess] /\ css' = css  BY <1>9 DEF SyncAbandoned
  <2>2. NoSess.pc = "idle"  BY DEF NoSess
  <2>. QED  BY <1>g, <2>1, <2>2, PackSession
<1>. QED  BY <1>1, <1>2, <1>3, <1>4, <1>5, <1>6, <1>7, <1>8, <1>9 DEF Step, Asked

LEMMA PackNext ==
  ASSUME RefInv, RefInv', PackInv, [GitNext]_gitVars
  PROVE  PackInv'
<1>1. CASE UNCHANGED gitVars  BY <1>1 DEF PackInv, gitVars
<1>2. ASSUME GitNext PROVE PackInv'
  <2>1. PICK p \in Sessions : Step(p)  BY <1>2, NextIsStep
  <2>. QED  BY <2>1, PackStep
<1>. QED  BY <1>1, <1>2

LEMMA PackInit == GitInit => PackInv
BY DEF GitInit, PackInv, NoSess

LEMMA PackInvAlways == GitSpec => []PackInv
<1>1. RefInv /\ RefInv' /\ PackInv /\ [GitNext]_gitVars => PackInv'  BY PackNext
<1>. QED  BY <1>1, PackInit, RefInvAlways, PTL DEF GitSpec
-----------------------------------------------------------------------------
(* Clones of a linear history. *)

(* The history h of a branch b, whose chain of heads it is. *)
LinearHistory(b, h) ==
    /\ b \in Branches /\ refs[b] # 0 /\ h = history[b] /\ h \in Seq(Nat)
    /\ Len(h) \in 1 .. MaxChain /\ refs[b] = h[Len(h)]
    /\ \A d \in Branches \ {b} : history[d] = <<>>
    /\ \A k \in 1 .. Len(h) :
          /\ h[k] \in DOMAIN css /\ css[h[k]].head = (IF k = 1 THEN 0 ELSE h[k - 1])
          /\ b \in DOMAIN css[h[k]].updates

LEMMA LinearIsHistory ==
  ASSUME RefInv, NEW b \in Branches, refs[b] # 0, Linear(b)
  PROVE  LinearHistory(b, history[b])
<1>. DEFINE h == history[b]
<1>1. /\ h \in Seq(Nat) /\ Len(h) \in DOMAIN h /\ refs[b] = h[Len(h)]  BY LastInHistory
<1>2. DOMAIN h = 1 .. Len(h)  BY <1>1
<1>3. Len(h) \in 1 .. MaxChain  BY <1>1, GitPushAssumption DEF Linear
<1>4. ASSUME NEW k \in 1 .. Len(h)
      PROVE  /\ h[k] \in DOMAIN css /\ css[h[k]].head = (IF k = 1 THEN 0 ELSE h[k - 1])
             /\ b \in DOMAIN css[h[k]].updates
  <2>1. h[k] # 0 /\ css[h[k]].head = (IF k = 1 THEN 0 ELSE h[k - 1])  BY <1>2 DEF Linear
  <2>2. h[k] \in Range(h)  BY <1>2 DEF Range
  <2>. QED  BY <2>1, <2>2 DEF RefInv, Histories
<1>. QED  BY <1>1, <1>3, <1>4 DEF LinearHistory, Linear

LEMMA HistoryIncreases ==
  ASSUME RefInv, NEW b, NEW h, LinearHistory(b, h)
  PROVE  \A k \in 1 .. Len(h) : \A j \in 1 .. k - 1 : h[j] < h[k]
<1>. DEFINE m == Len(h)
            S == {k \in 0 .. m : \A j \in 1 .. k - 1 : h[j] < h[k]}
<1>1. m \in Nat /\ h \in Seq(Nat)  BY DEF LinearHistory
<1>2. 0 \in S  BY <1>1
<1>3. ASSUME NEW k \in 1 .. m, k - 1 \in S PROVE k \in S
  <2>1. \A j \in 1 .. (k - 1) - 1 : h[j] < h[k - 1]  BY <1>3
  <2>2. k # 1 => h[k - 1] < h[k]
    <3>1. h[k] \in DOMAIN css /\ (k # 1 => css[h[k]].head = h[k - 1])  BY DEF LinearHistory
    <3>2. css[h[k]].head \in 0 .. h[k] - 1  BY <3>1 DEF RefInv, Numbers
    <3>3. h[k] \in Nat  BY <1>1
    <3>. QED  BY <3>1, <3>2, <3>3
  <2>3. ASSUME NEW j \in 1 .. k - 1 PROVE h[j] < h[k]
    <3>1. h[j] \in Nat /\ h[k - 1] \in Nat /\ h[k] \in Nat  BY <1>1
    <3>2. CASE j = k - 1  BY <2>2, <3>2
    <3>3. CASE j # k - 1
      <4>1. h[j] < h[k - 1]  BY <2>1, <3>3
      <4>. QED  BY <2>2, <3>1, <4>1
    <3>. QED  BY <3>2, <3>3
  <2>. QED  BY <2>3
<1>4. \A k \in 0 .. m : k \in S
  <2>. HIDE DEF S
  <2>. QED  BY <1>1, <1>2, <1>3, UpTo
<1>. QED  BY <1>4

LEMMA ChainIsHistory ==
  ASSUME RefInv, NEW b, NEW h, LinearHistory(b, h)
  PROVE  Chain(refs[b], MaxChain) = [k \in 1 .. Len(h) |-> h[Len(h) + 1 - k]]
<1>. DEFINE m == Len(h)
            n == MaxChain
<1>1. /\ m \in Nat /\ n \in Nat /\ 1 <= m /\ m <= n /\ h \in Seq(Nat) /\ refs[b] = h[m]
      /\ \A k \in 1 .. m : h[k] \in Nat \ {0} /\ css[h[k]].head = (IF k = 1 THEN 0 ELSE h[k - 1])
  <2>1. \A k \in 1 .. m : h[k] \in Nat \ {0}
    <3>1. DOMAIN css \subseteq Nat \ {0}  BY DEF RefInv, GitTypes
    <3>. QED  BY <3>1 DEF LinearHistory
  <2>. QED  BY <2>1, GitPushAssumption DEF LinearHistory
<1>2. refs[b] \in DOMAIN css  BY <1>1 DEF LinearHistory
<1>3. PICK at : /\ ChainFrom(at, refs[b], n)
                /\ Chain(refs[b], n) = [k \in {j \in 1 .. n : at[j - 1] # 0} |-> at[k - 1]]
  BY <1>1, <1>2, ChainFollows DEF RefInv
<1>4. at[0] = h[m] /\ \A k \in 1 .. n : at[k] = IF at[k - 1] = 0 THEN 0 ELSE css[at[k - 1]].head
  BY <1>1, <1>3 DEF ChainFrom
<1>. DEFINE S == {k \in 0 .. m - 1 : at[k] = h[m - k]}
            Z == {k \in 0 .. n : k < m \/ at[k] = 0}
<1>. HIDE DEF m, n
<1>5. \A k \in 0 .. m - 1 : k \in S
  <2>1. 0 \in S  BY <1>1, <1>4
  <2>2. ASSUME NEW k \in 1 .. m - 1, k - 1 \in S PROVE k \in S
    <3>1. at[k - 1] = h[m - (k - 1)]  BY <2>2
    <3>2. m - (k - 1) \in 1 .. m /\ m - (k - 1) # 1 /\ (m - (k - 1)) - 1 = m - k  BY <1>1
    <3>3. at[k - 1] # 0 /\ css[at[k - 1]].head = h[m - k]  BY <1>1, <3>1, <3>2
    <3>4. k \in 1 .. n /\ k \in 0 .. m - 1  BY <1>1
    <3>5. at[k] = h[m - k]  BY <1>4, <3>3, <3>4
    <3>. QED  BY <3>4, <3>5
  <2>3. m - 1 \in Nat  BY <1>1
  <2>. HIDE DEF S
  <2>. QED  BY <2>1, <2>2, <2>3, UpTo
<1>6. \A k \in 0 .. n : k \in Z
  <2>1. 0 \in Z  BY <1>1
  <2>2. ASSUME NEW k \in 1 .. n, k - 1 \in Z PROVE k \in Z
    <3>1. CASE k < m  BY <3>1
    <3>2. CASE k = m
      <4>1. m - 1 \in 0 .. m - 1 /\ m - (m - 1) = 1  BY <1>1
      <4>2. at[k - 1] = h[1]  BY <1>5, <3>2, <4>1
      <4>3. css[at[k - 1]].head = 0  BY <1>1, <4>2
      <4>4. at[k] = 0  BY <1>4, <4>3
      <4>. QED  BY <4>4
    <3>3. CASE k > m
      <4>1. ~(k - 1 < m)  BY <1>1, <3>3
      <4>2. at[k - 1] = 0  BY <2>2, <4>1
      <4>3. at[k] = 0  BY <1>4, <4>2
      <4>. QED  BY <4>3
    <3>. QED  BY <1>1, <3>1, <3>2, <3>3
  <2>. HIDE DEF Z
  <2>. QED  BY <1>1, <2>1, <2>2, UpTo
<1>7. \A j \in 1 .. m : at[j - 1] = h[m + 1 - j] /\ at[j - 1] # 0
  <2>. SUFFICES ASSUME NEW j \in 1 .. m PROVE at[j - 1] = h[m + 1 - j] /\ at[j - 1] # 0  OBVIOUS
  <2>1. j - 1 \in 0 .. m - 1 /\ m - (j - 1) = m + 1 - j /\ m + 1 - j \in 1 .. m  BY <1>1
  <2>2. at[j - 1] = h[m - (j - 1)]  BY <1>5, <2>1
  <2>. QED  BY <1>1, <2>1, <2>2
<1>8. {j \in 1 .. n : at[j - 1] # 0} = 1 .. m
  <2>1. ASSUME NEW j \in 1 .. n, at[j - 1] # 0 PROVE j \in 1 .. m
    <3>1. j - 1 \in 0 .. n  BY <1>1
    <3>2. j - 1 < m  BY <1>6, <2>1, <3>1
    <3>. QED  BY <1>1, <3>2
  <2>2. \A j \in 1 .. m : j \in 1 .. n  BY <1>1
  <2>. QED  BY <1>7, <2>1, <2>2
<1>9. Chain(refs[b], n) = [k \in 1 .. m |-> at[k - 1]]  BY <1>3, <1>8
<1>10. Chain(refs[b], n) = [k \in 1 .. m |-> h[m + 1 - k]]  BY <1>7, <1>9
<1>. QED  BY <1>10 DEF m, n

LEMMA OrderIsHistory ==
  ASSUME RefInv, NEW b, NEW h, LinearHistory(b, h)
  PROVE  PackOrder(Chain(refs[b], MaxChain)) = h
<1>. DEFINE m == Len(h)
            ch == [k \in 1 .. m |-> h[m + 1 - k]]
<1>1. m \in Nat /\ h \in Seq(Nat)  BY DEF LinearHistory
<1>2. Chain(refs[b], MaxChain) = ch  BY ChainIsHistory
<1>3. \A k \in 1 .. m : h[m + 1 - k] \in Nat  BY <1>1
<1>4. ch \in Seq(Nat) /\ Len(ch) = m  BY <1>1, <1>3
<1>5. Reverse(ch) = [k \in 1 .. m |-> ch[(m - k) + 1]]  BY <1>4 DEF Reverse
<1>6. ASSUME NEW k \in 1 .. m PROVE ch[(m - k) + 1] = h[k]
  <2>1. (m - k) + 1 \in 1 .. m /\ m + 1 - ((m - k) + 1) = k  BY <1>1
  <2>. QED  BY <2>1
<1>. HIDE DEF ch
<1>7. Reverse(ch) = [k \in 1 .. m |-> h[k]]  BY <1>5, <1>6
<1>8. h = [k \in 1 .. m |-> h[k]]  BY <1>1
<1>. QED  BY <1>2, <1>7, <1>8 DEF PackOrder

(* What the push of the k-th changeset of a linear history left out belongs *)
(* to the pushes before it.                                                 *)
LEMMA ToldIsEarlier ==
  ASSUME RefInv, NEW b, NEW h, LinearHistory(b, h), NEW k \in 1 .. Len(h),
         NEW S \in SUBSET Given(h[k], history), NEW known,
         \A j \in 1 .. k - 1 : Ancestors(css[h[j]].updates[b]) \subseteq known
  PROVE  Told(S, css) \subseteq known
<1>. SUFFICES ASSUME NEW s \in S PROVE Ancestors(css[s[2]].updates[s[1]]) \subseteq known
  BY DEF Told
<1>1. s[1] \in Branches /\ s[2] \in 1 .. h[k] - 1 /\ s[2] \in Range(history[s[1]])  BY DEF Given
<1>2. s[1] = b
  <2>1. Range(<<>>) = {}  BY DEF Range
  <2>2. history[s[1]] # <<>>  BY <1>1, <2>1
  <2>. QED  BY <1>1, <2>2 DEF LinearHistory
<1>3. h \in Seq(Nat) /\ Len(h) \in Nat /\ h = history[b]  BY DEF LinearHistory
<1>4. PICK j \in 1 .. Len(h) : s[2] = h[j]
  <2>1. s[2] \in Range(h)  BY <1>1, <1>2, <1>3
  <2>2. PICK j \in DOMAIN h : s[2] = h[j]  BY <2>1 DEF Range
  <2>. QED  BY <1>3, <2>2
<1>5. h[j] \in Nat /\ h[k] \in Nat /\ h[j] < h[k]  BY <1>1, <1>3, <1>4
<1>6. j # k /\ (k < j => h[k] < h[j])
  <2>1. k < j => k \in 1 .. j - 1  BY <1>3
  <2>. QED  BY <1>5, <2>1, HistoryIncreases
<1>7. j \in 1 .. k - 1  BY <1>5, <1>6
<1>. QED  BY <1>2, <1>4, <1>7

(* What the walk knows when it has passed a pack. *)
Knows(known, i) == known \cup parseGitPackWithBases(css[i].pack, known)

LEMMA KnowsCommits ==
  ASSUME GitTypes, NEW i \in DOMAIN css, NEW known \in SUBSET Commits
  PROVE  Knows(known, i) \in SUBSET Commits
<1>1. css[i] \in Changeset  BY DEF GitTypes
<1>2. \A e \in css[i].pack : e.oid \in Commits  BY <1>1 DEF Changeset, Packs
<1>. QED  BY <1>2 DEF Knows, parseGitPackWithBases

LEMMA KnowsAncestors ==
  ASSUME RefInv, PackInv, NEW b, NEW h, LinearHistory(b, h), NEW k \in 1 .. Len(h),
         NEW known \in SUBSET Commits,
         \A j \in 1 .. k - 1 : Ancestors(css[h[j]].updates[b]) \subseteq known
  PROVE  Ancestors(css[h[k]].updates[b]) \subseteq Knows(known, h[k])
<1>. DEFINE i == h[k]
            u == css[i].updates
            A == Ancestors(u[b])
<1>1. i \in DOMAIN css /\ b \in DOMAIN u  BY DEF LinearHistory
<1>2. ThinFor(css[i].pack, u, i, css, history)  BY <1>1 DEF PackInv
<1>3. PICK S \in SUBSET Given(i, history) : css[i].pack = ThinPack(Wanted(u) \ Told(S, css))
  BY <1>2 DEF ThinFor
<1>4. Wanted(u) = A
  <2>1. \A d \in DOMAIN u : u[d] = u[b]  BY <1>1, <1>2 DEF ThinFor, OneCommit
  <2>. QED  BY <1>1, <2>1 DEF Wanted
<1>5. Told(S, css) \subseteq known  BY ToldIsEarlier
<1>. DEFINE X == A \ Told(S, css)
<1>6. X \in SUBSET Commits  BY AncestorsAreCommits
<1>7. ASSUME NEW x \in X, Parent[x] # Zero PROVE Parent[x] \in X \cup known
  <2>1. Parent[x] \in A  BY <1>7, AncestorsClosed
  <2>. QED  BY <1>5, <2>1
<1>8. parseGitPackWithBases(ThinPack(X), known) = X
  <2>. HIDE DEF X
  <2>. QED  BY <1>6, <1>7, ThinPackParses
<1>9. Knows(known, i) = known \cup X  BY <1>3, <1>4, <1>8 DEF Knows
<1>. QED  BY <1>5, <1>9

LEMMA ObjectsGathered ==
  ASSUME RefInv, PackInv, NEW b, NEW h, LinearHistory(b, h), NEW ch, PackOrder(ch) = h
  PROVE  /\ AllObjects(ch) \in SUBSET Commits
         /\ Ancestors(css[refs[b]].updates[b]) \subseteq AllObjects(ch)
<1>. DEFINE m == Len(h)
            V == SUBSET Commits
            F == [x \in V \X (1 .. m) |-> Knows(x[1], h[x[2]])]
            Round(g, k) == IF k = 0 THEN {} ELSE Knows(g[k - 1], h[k])
            IsLoop(g) == g = [k \in 0 .. m |-> Round(g, k)]
<1>1. m \in Nat /\ m >= 1 /\ refs[b] = h[m] /\ \A k \in 1 .. m : h[k] \in DOMAIN css
  BY DEF LinearHistory
<1>2. \A k \in 1 .. m : \A x \in V : Knows(x, h[k]) \in V  BY <1>1, KnowsCommits DEF RefInv
<1>3. F \in [V \X (1 .. m) -> V]
  <2>1. ASSUME NEW x \in V \X (1 .. m) PROVE Knows(x[1], h[x[2]]) \in V
    <3>1. x[1] \in V /\ x[2] \in 1 .. m  OBVIOUS
    <3>. HIDE DEF V
    <3>. QED  BY <1>2, <3>1
  <2>. HIDE DEF V
  <2>. QED  BY <2>1
<1>4. PICK g \in [0 .. m -> V] : g[0] = {} /\ \A k \in 1 .. m : g[k] = F[<<g[k - 1], k>>]
  <2>1. {} \in V  OBVIOUS
  <2>. HIDE DEF F, V, m
  <2>2. Rounds(m, V)  BY <1>1, Iterates
  <2>. QED  BY <1>3, <2>1, <2>2, Zenon DEF Rounds
<1>5. ASSUME NEW k \in 0 .. m PROVE g[k] = Round(g, k)
  <2>1. CASE k = 0  BY <1>4, <2>1
  <2>2. CASE k # 0
    <3>1. k \in 1 .. m /\ k - 1 \in 0 .. m  BY <1>1, <2>2
    <3>2. <<g[k - 1], k>> \in V \X (1 .. m)  BY <3>1
    <3>. HIDE DEF V
    <3>. QED  BY <1>4, <2>2, <3>1, <3>2
  <2>. QED  BY <2>1, <2>2
<1>6. \E f : IsLoop(f)
  <2>1. g = [k \in 0 .. m |-> g[k]]  OBVIOUS
  <2>2. IsLoop(g)
    <3>. HIDE DEF Round
    <3>. QED  BY <1>5, <2>1
  <2>. HIDE DEF IsLoop
  <2>. QED  BY <2>2
<1>. DEFINE known == CHOOSE f : IsLoop(f)
<1>7. IsLoop(known)
  <2>. HIDE DEF IsLoop
  <2>. QED  BY <1>6
<1>8. AllObjects(ch) = known[m]  BY DEF AllObjects, Knows
<1>. HIDE DEF known
<1>9. \A k \in 0 .. m : known[k] = Round(known, k)  BY <1>7
<1>. DEFINE T == {k \in 0 .. m : /\ known[k] \in V
                             /\ \A j \in 1 .. k : Ancestors(css[h[j]].updates[b]) \subseteq known[k]}
<1>10. 0 \in T
  <2>1. known[0] = {}  BY <1>1, <1>9
  <2>. QED  BY <1>1, <2>1
<1>11. ASSUME NEW k \in 1 .. m, k - 1 \in T PROVE k \in T
  <2>1. /\ known[k - 1] \in V
        /\ \A j \in 1 .. k - 1 : Ancestors(css[h[j]].updates[b]) \subseteq known[k - 1]
    BY <1>11
  <2>2. k \in 0 .. m /\ known[k] = Knows(known[k - 1], h[k])  BY <1>1, <1>9
  <2>3. known[k] \in V  BY <1>2, <2>1, <2>2
  <2>4. Ancestors(css[h[k]].updates[b]) \subseteq known[k]
    <3>1. known[k - 1] \in SUBSET Commits /\ k \in 1 .. Len(h)  BY <2>1
    <3>2. Ancestors(css[h[k]].updates[b]) \subseteq Knows(known[k - 1], h[k])
      <4>. HIDE DEF T, m
      <4>. QED  BY <2>1, <3>1, KnowsAncestors
    <3>. QED  BY <2>2, <3>2
  <2>5. known[k - 1] \subseteq known[k]  BY <2>2 DEF Knows
  <2>6. ASSUME NEW j \in 1 .. k PROVE Ancestors(css[h[j]].updates[b]) \subseteq known[k]
    <3>1. j = k \/ j \in 1 .. k - 1  BY <1>1
    <3>. QED  BY <2>1, <2>4, <2>5, <3>1
  <2>. QED  BY <2>2, <2>3, <2>6
<1>12. \A k \in 0 .. m : k \in T
  <2>. HIDE DEF T
  <2>. QED  BY <1>1, <1>10, <1>11, UpTo
<1>13. m \in 0 .. m /\ m \in 1 .. m  BY <1>1
<1>14. m \in T  BY <1>12, <1>13
<1>15. known[m] \in V /\ Ancestors(css[h[m]].updates[b]) \subseteq known[m]  BY <1>13, <1>14
<1>. QED  BY <1>1, <1>8, <1>15

LEMMA LinearIsComplete ==
  ASSUME RefInv, PackInv, NEW b \in Branches, refs[b] # 0, Linear(b)
  PROVE  buildRef(b).objects = Ancestors(css[refs[b]].updates[b])
<1>. DEFINE ch == Chain(refs[b], MaxChain)
            h  == history[b]
            c  == css[refs[b]].updates[b]
            r  == resolveGitPackObjects(refs[b], b)
<1>1. LinearHistory(b, h)  BY LinearIsHistory
<1>2. PackOrder(ch) = h  BY <1>1, OrderIsHistory
<1>3. AllObjects(ch) \in SUBSET Commits /\ Ancestors(c) \subseteq AllObjects(ch)
  BY <1>1, <1>2, ObjectsGathered
<1>4. DOMAIN ch # {}
  <2>1. ch = [k \in 1 .. Len(h) |-> h[Len(h) + 1 - k]]  BY <1>1, ChainIsHistory
  <2>2. 1 \in 1 .. Len(h)  BY <1>1 DEF LinearHistory
  <2>. QED  BY <2>1, <2>2
<1>5. CommitOIDs(ch, b) = {c}  BY <1>4, CommitIsTip
<1>6. c \in Commits
  <2>1. refs[b] \in DOMAIN css /\ b \in DOMAIN css[refs[b]].updates /\ c # Zero  BY LastInHistory
  <2>2. css[refs[b]] \in Changeset  BY <2>1 DEF RefInv, GitTypes
  <2>3. css[refs[b]].updates \in Updates  BY <2>2 DEF Changeset
  <2>. QED  BY <2>1, <2>3, UpdatesTyped
<1>7. c \in AllObjects(ch)
  <2>1. c \in Ancestors(c)  BY <1>6, WalkStarts DEF Ancestors
  <2>. QED  BY <1>3, <2>1
<1>8. r = [commit |-> c, objects |-> AllObjects(ch)]
  <2>1. \A x \in CommitOIDs(ch, b) : x = c  BY <1>5
  <2>2. (CHOOSE x \in CommitOIDs(ch, b) : TRUE) = c  BY <1>5, <2>1
  <2>3. CommitOIDs(ch, b) # {}  BY <1>5
  <2>. HIDE DEF c, ch
  <2>. QED  BY <2>2, <2>3 DEF resolveGitPackObjects, ch
<1>. HIDE DEF c, ch
<1>9. r.commit = c /\ r.objects = AllObjects(ch)  BY <1>8
<1>10. buildRef(b) = [commit |-> r.commit, objects |-> collectCommitObjects(r.objects, r.commit)]
  BY <1>7, <1>9 DEF buildRef
<1>. HIDE DEF r
<1>11. buildRef(b).objects = Walk(c, AllObjects(ch))  BY <1>9, <1>10 DEF collectCommitObjects
<1>12. Walk(c, AllObjects(ch)) = Ancestors(c)  BY <1>3, WalkIsAncestry
<1>. QED  BY <1>11, <1>12 DEF c

(* What is served for a branch is the branch's: every ref points to a       *)
(* changeset that names it and gives it a commit, an update that was part   *)
(* of a push stands in the histories of all its branches, and a clone of a  *)
(* branch with a linear history, no longer than the walk follows, gets      *)
(* exactly the commit and its ancestors: each thin pack finds the objects   *)
(* it leaves out in the packs before it (gitpack.go:397).                   *)
THEOREM ClonesHold == GitSpec => []ClonesAreComplete
<1>1. ASSUME RefInv, PackInv PROVE ClonesAreComplete
  <2>1. GitTypeOK /\ RefsNameTheirUpdate  BY <1>1, RefsAreNamed
  <2>2. LinearClonesAreComplete  BY <1>1, LinearIsComplete DEF LinearClonesAreComplete
  <2>. QED  BY <2>1, <2>2 DEF ClonesAreComplete
<1>2. RefInv /\ PackInv => ClonesAreComplete  BY <1>1
<1>. QED  BY <1>2, RefInvAlways, PackInvAlways, PTL
=============================================================================
