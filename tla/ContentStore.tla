----------------------------- MODULE ContentStore -----------------------------
(* What the object store promises its clients: a set of digests that only   *)
(* grows. A client asks for a set of objects to be stored, and they appear  *)
(* together. It is told "stored" when all of them are; "refused" when none  *)
(* of them has been stored on its behalf; and an "error", which says        *)
(* nothing: they may have been stored, since the commit or its answer can   *)
(* be lost behind it.                                                       *)
EXTENDS FiniteSets

CONSTANTS Clients, Requests   \* sets of digests a client asks to be stored

VARIABLES stored,   \* the digests that can be read
          asked     \* [Clients -> the last request and its answer]

csVars == <<stored, asked>>

Open(want) == [state |-> "open", want |-> want]

Init == stored = {} /\ asked = [c \in Clients |-> [state |-> "none", want |-> {}]]

MayAsk == {"none", "refused", "error"}

Ask(c, want) ==
    /\ asked[c].state \in MayAsk
    /\ asked' = [asked EXCEPT ![c] = Open(want)]
    /\ UNCHANGED stored

(* The new objects are some of those asked for. *)
Store(c) ==
    /\ asked[c].state = "open"
    /\ stored' = stored \cup asked[c].want
    /\ asked' = [asked EXCEPT ![c].state = "committed"]

Acknowledge(c) ==
    /\ asked[c].state = "committed"
    /\ asked' = [asked EXCEPT ![c].state = "stored"]
    /\ UNCHANGED stored

AlreadyStored(c, want) ==
    /\ asked[c].state \in MayAsk /\ want \subseteq stored
    /\ asked' = [asked EXCEPT ![c] = [state |-> "stored", want |-> want]]
    /\ UNCHANGED stored

Refuse(c) ==
    /\ asked[c].state = "open"
    /\ asked' = [asked EXCEPT ![c].state = "refused"]
    /\ UNCHANGED stored

Fail(c) ==
    /\ asked[c].state \in {"open", "committed"}
    /\ asked' = [asked EXCEPT ![c].state = "error"]
    /\ UNCHANGED stored

Next == \E c \in Clients :
    \/ \E want \in Requests : Ask(c, want) \/ AlreadyStored(c, want)
    \/ Store(c) \/ Acknowledge(c) \/ Refuse(c) \/ Fail(c)

(* Every request is answered. *)
Waits(c) == asked[c].state \in {"open", "committed"}
Answered == \A c \in Clients : Waits(c) ~> ~Waits(c)

Spec == Init /\ [][Next]_csVars /\ Answered
=============================================================================
