------------------------------ MODULE BusSpec ------------------------------
(***************************************************************************)
(* What an asynchronous in-process event bus promises its users, stated    *)
(* without slices, locks or goroutines: a topic has an ordered list of     *)
(* subscribed handlers; a publication promises one call of every handler   *)
(* subscribed to its topic at the moment of publication, once per          *)
(* subscription; promised calls are made later, in any order.              *)
(*                                                                         *)
(* EventBus.tla is the AsyncEventBus of framework/bus/bus.go and is        *)
(* checked to implement this module (EventBus!AbstractBus).                *)
(***************************************************************************)
EXTENDS Naturals, Sequences

CONSTANTS
    Topics,         \* topic names
    Funcs,          \* handler function values
    MaxPublishes    \* number of publications explored

VARIABLES
    subs,       \* subs[t]: handlers subscribed to t, in subscription order
    promised,   \* calls owed by a publication and not yet made
    called,     \* calls made
    npub        \* publications so far; the last one's identity

vars == <<subs, promised, called, npub>>

Init ==
    /\ subs = [t \in Topics |-> <<>>]
    /\ promised = {}
    /\ called = {}
    /\ npub = 0

\* Drop the first occurrence of f from s; s itself when f is not in s.
DropFirst(s, f) ==
    IF \E k \in 1..Len(s) : s[k] = f
    THEN LET k == CHOOSE j \in 1..Len(s) :
                    s[j] = f /\ \A i \in 1..(j - 1) : s[i] # f
         IN  SubSeq(s, 1, k - 1) \o SubSeq(s, k + 1, Len(s))
    ELSE s

Subscribe(t, f) ==
    /\ subs' = [subs EXCEPT ![t] = Append(@, f)]
    /\ UNCHANGED <<promised, called, npub>>

Unsubscribe(t, f) ==
    /\ subs' = [subs EXCEPT ![t] = DropFirst(@, f)]
    /\ UNCHANGED <<promised, called, npub>>

Publish(t) ==
    /\ npub < MaxPublishes
    /\ npub' = npub + 1
    /\ promised' = promised \cup
         {[pub |-> npub + 1, idx |-> k, f |-> subs[t][k]] : k \in 1..Len(subs[t])}
    /\ UNCHANGED <<subs, called>>

Deliver(c) ==
    /\ c \in promised
    /\ promised' = promised \ {c}
    /\ called' = called \cup {c}
    /\ UNCHANGED <<subs, npub>>

Next ==
    \/ \E t \in Topics, f \in Funcs : Subscribe(t, f) \/ Unsubscribe(t, f)
    \/ \E t \in Topics : Publish(t)
    \/ \E c \in promised : Deliver(c)

Spec == Init /\ [][Next]_vars

=============================================================================
