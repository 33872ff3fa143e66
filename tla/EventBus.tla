------------------------------ MODULE EventBus ------------------------------
(***************************************************************************)
(* AsyncEventBus of framework/bus/bus.go.                                  *)
(*                                                                         *)
(* handlers is a Go map from topic to a slice of reflect.Value.  A slice   *)
(* is a header (backing array, length); the backing arrays are explicit    *)
(* here (mem), because append and the in-place delete of Unsubscribe       *)
(* write into arrays that headers taken earlier still point to.            *)
(*                                                                         *)
(*  - Subscribe and Unsubscribe hold bus.lock; each is two steps: compute  *)
(*    the new slice (append / in-place delete, writing mem), then store it *)
(*    in the map and unlock.  A client between the two is writing the map. *)
(*  - Publish takes no lock: it reads the map entry once (a concurrent map *)
(*    write may make the Go runtime abort the process) and starts one      *)
(*    goroutine per index of the slice it read; each goroutine reads       *)
(*    handlers[idx] of that header only when it runs.                      *)
(*                                                                         *)
(* Ghost state: tab is the list of subscriptions the calls made so far     *)
(* should leave.                                                           *)
(***************************************************************************)
EXTENDS Naturals, Sequences, FiniteSets

CONSTANTS
    Topics, Funcs,
    Clients,        \* goroutines calling the bus
    Ops,            \* operations the clients call: subset of OpNames
    MaxPublishes,   \* bound: publications explored
    MaxCalls,       \* bound: Subscribe and Unsubscribe calls explored
    MaxLen,         \* bound: length of a topic's slice
    MaxArrays,      \* bound: backing arrays allocated by append
    Zero,           \* zero reflect.Value in unused capacity
    NoClient

OpNames == {"Subscribe", "Unsubscribe", "Publish"}

VARIABLES
    mem,        \* mem[a]: backing array a, its length is its capacity
    nalloc,     \* arrays allocated so far
    handlers,   \* the map: handlers[t].in is "t is a key"
    lock,       \* holder of bus.lock
    pc,         \* "idle" or "store" (between compute and map store)
    staged,     \* staged[c]: the slice c will store, with its operation
    gor,        \* goroutines started by Publish and not yet run
    called,     \* handler calls made: publication, index, function
    npub,       \* publications so far
    ncalls,     \* Subscribe and Unsubscribe calls so far
    crashed,    \* the runtime aborted on a concurrent map read and write
    tab         \* ghost: subscriptions as the calls made define them

vars == <<mem, nalloc, handlers, lock, pc, staged, gor, called, npub,
          ncalls, crashed, tab>>

ArrayIds == 1..MaxArrays
Header   == [in : BOOLEAN, arr : 0..MaxArrays, len : 0..MaxLen]
Empty    == [in |-> TRUE, arr |-> 0, len |-> 0]   \* []reflect.Value{}

\* cap() of a slice on array a; array 0 is the zero-capacity literal.
Cap(a) == IF a = 0 THEN 0 ELSE Len(mem[a])

\* The elements a slice header shows.
Contents(h) == [k \in 1..h.len |-> mem[h.arr][k]]

\* handler, ok := bus.handlers[topic]; if !ok { handler = []reflect.Value{} }
Lookup(t) == IF handlers[t].in THEN handlers[t] ELSE Empty

\* Capacity growslice picks for a full slice of reflect.Value this small.
GrowCap(c) == IF c = 0 THEN 1 ELSE 2 * c

InPlace(h) == h.len < Cap(h.arr)

\* New backing array of append(handler, v) when the old one is full.
Grown(h, f) ==
    Contents(h) \o <<f>> \o [k \in 1..(GrowCap(Cap(h.arr)) - h.len - 1) |-> Zero]

\* Mutant: handler[:n-1] instead of the delete: the last element goes.
RemoveAtNoShift(a, k, n) == a

\* append(handler[:i], handler[i+1:]...) on array a holding n elements:
\* a[k+1..n] moves down one slot in the same array; a[n] stays as it was.
RemoveAt(a, k, n) ==
    [j \in DOMAIN a |-> IF k <= j /\ j < n THEN a[j + 1] ELSE a[j]]

\* Index of the first h == v in the slice, 0 when there is none.
FirstIndex(h, f) ==
    IF \E k \in 1..h.len : mem[h.arr][k] = f
    THEN CHOOSE k \in 1..h.len :
            mem[h.arr][k] = f /\ \A j \in 1..(k - 1) : mem[h.arr][j] # f
    ELSE 0

\* Mutant: `for i := 0; i <= len(handlers); i++` starts one goroutine too many.
SpawnInclusive(p, h) == {[pub |-> p, idx |-> k, arr |-> h.arr] : k \in 1..(h.len + 1)}

\* Mutant: the goroutine closes over the loop variable instead of taking
\* it as the idx argument (before Go 1.22 every such goroutine that runs
\* after the loop reads the last index).
SpawnSharedIndex(p, h) == {[pub |-> p, idx |-> h.len, arr |-> h.arr] : k \in 1..h.len}

\* for i := range handlers { go func(idx int){ handlers[idx].Call(params) }(i) }
Spawn(p, h) == {[pub |-> p, idx |-> k, arr |-> h.arr] : k \in 1..h.len}

\* The list s without its first f: what one Unsubscribe(f) should leave.
DropFirst(s, f) ==
    IF \E k \in 1..Len(s) : s[k] = f
    THEN LET k == CHOOSE j \in 1..Len(s) :
                    s[j] = f /\ \A i \in 1..(j - 1) : s[i] # f
         IN  SubSeq(s, 1, k - 1) \o SubSeq(s, k + 1, Len(s))
    ELSE s

\* Some client is between its map lookup and its map store.
MapWriting == \E c \in Clients : pc[c] = "store"

\* The local slice of a client that is not inside Subscribe or Unsubscribe.
NoStaged == [op |-> "Subscribe", t |-> CHOOSE t \in Topics : TRUE,
             f |-> CHOOSE f \in Funcs : TRUE, h |-> Empty]

Init ==
    /\ mem = [a \in ArrayIds |-> <<>>]
    /\ nalloc = 0
    /\ handlers = [t \in Topics |-> [in |-> FALSE, arr |-> 0, len |-> 0]]
    /\ lock = NoClient
    /\ pc = [c \in Clients |-> "idle"]
    /\ staged = [c \in Clients |-> NoStaged]
    /\ gor = {}
    /\ called = {}
    /\ npub = 0
    /\ ncalls = 0
    /\ crashed = FALSE
    /\ tab = [t \in Topics |-> <<>>]

\* Subscribe up to the map store: lock, look up, append.
Subscribe(c, t, f) ==
    LET h == Lookup(t) IN
    /\ "Subscribe" \in Ops
    /\ ~crashed /\ pc[c] = "idle" /\ lock = NoClient
    /\ ncalls < MaxCalls
    /\ ncalls' = ncalls + 1
    /\ h.len < MaxLen
    /\ \/ /\ InPlace(h)
          /\ mem' = [mem EXCEPT ![h.arr][h.len + 1] = f]
          /\ UNCHANGED nalloc
       \/ /\ ~InPlace(h)
          /\ nalloc < MaxArrays
          /\ nalloc' = nalloc + 1
          /\ mem' = [mem EXCEPT ![nalloc + 1] = Grown(h, f)]
    /\ LET arr == IF InPlace(h) THEN h.arr ELSE nalloc + 1 IN
       staged' = [staged EXCEPT ![c] = [op |-> "Subscribe", t |-> t, f |-> f,
                                        h |-> [in |-> TRUE, arr |-> arr, len |-> h.len + 1]]]
    /\ lock' = c
    /\ pc' = [pc EXCEPT ![c] = "store"]
    /\ UNCHANGED <<handlers, gor, called, npub, crashed, tab>>

\* Unsubscribe up to the map store: lock, look up, delete the first match.
Unsubscribe(c, t, f) ==
    LET h == Lookup(t)
        k == FirstIndex(h, f)
    IN
    /\ "Unsubscribe" \in Ops
    /\ ~crashed /\ pc[c] = "idle" /\ lock = NoClient
    /\ ncalls < MaxCalls
    /\ ncalls' = ncalls + 1
    /\ IF k = 0
       THEN /\ staged' = [staged EXCEPT ![c] = [op |-> "Unsubscribe", t |-> t, f |-> f, h |-> h]]
            /\ UNCHANGED mem
       ELSE /\ mem' = [mem EXCEPT ![h.arr] = RemoveAt(@, k, h.len)]
            /\ staged' = [staged EXCEPT ![c] = [op |-> "Unsubscribe", t |-> t, f |-> f,
                                                h |-> [h EXCEPT !.len = h.len - 1]]]
    /\ lock' = c
    /\ pc' = [pc EXCEPT ![c] = "store"]
    /\ UNCHANGED <<nalloc, handlers, gor, called, npub, crashed, tab>>

\* bus.handlers[topic] = handler, then the deferred Unlock.
Store(c) ==
    LET s == staged[c] IN
    /\ ~crashed /\ pc[c] = "store"
    /\ handlers' = [handlers EXCEPT ![s.t] = s.h]
    /\ tab' = [tab EXCEPT ![s.t] = IF s.op = "Subscribe" THEN Append(@, s.f)
                                                        ELSE DropFirst(@, s.f)]
    /\ lock' = NoClient
    /\ pc' = [pc EXCEPT ![c] = "idle"]
    /\ staged' = [staged EXCEPT ![c] = NoStaged]
    /\ UNCHANGED <<mem, nalloc, gor, called, npub, ncalls, crashed>>

\* Publish: an unlocked map read, then one goroutine per handler.
Publish(c, t) ==
    /\ "Publish" \in Ops
    /\ ~crashed /\ pc[c] = "idle"
    /\ npub < MaxPublishes
    /\ \/ /\ MapWriting
          /\ crashed' = TRUE
          /\ UNCHANGED <<gor, npub>>
       \/ /\ npub' = npub + 1
          /\ gor' = IF handlers[t].in THEN gor \cup Spawn(npub + 1, handlers[t]) ELSE gor
          /\ UNCHANGED crashed
    /\ UNCHANGED <<mem, nalloc, handlers, lock, pc, staged, called, ncalls, tab>>

\* A publication goroutine runs: handlers[idx].Call(params).
Run(g) ==
    /\ ~crashed
    /\ called' = called \cup {[pub |-> g.pub, idx |-> g.idx, f |-> mem[g.arr][g.idx]]}
    /\ gor' = gor \ {g}
    /\ UNCHANGED <<mem, nalloc, handlers, lock, pc, staged, npub, ncalls, crashed, tab>>

\* Every step of the bus and its clients.
Busy ==
    \/ \E c \in Clients, t \in Topics, f \in Funcs :
          Subscribe(c, t, f) \/ Unsubscribe(c, t, f)
    \/ \E c \in Clients : Store(c)
    \/ \E c \in Clients, t \in Topics : Publish(c, t)
    \/ \E g \in gor : Run(g)

\* The process was aborted, or the explored calls are all made.
Halted ==
    /\ ~ENABLED Busy
    /\ UNCHANGED vars

Next == Busy \/ Halted

Spec == Init /\ [][Next]_vars

-----------------------------------------------------------------------------

Call == [pub : 1..MaxPublishes, idx : 1..MaxLen, f : Funcs \cup {Zero}]

\* Every value has its type, and every goroutine indexes inside its array.
TypeOK ==
    /\ nalloc \in 0..MaxArrays
    /\ \A a \in ArrayIds : mem[a] \in Seq(Funcs \cup {Zero})
    /\ handlers \in [Topics -> Header]
    /\ \A t \in Topics : handlers[t].len <= Cap(handlers[t].arr)
    /\ lock \in Clients \cup {NoClient}
    /\ pc \in [Clients -> {"idle", "store"}]
    /\ gor \subseteq [pub : 1..MaxPublishes, idx : 1..MaxLen, arr : ArrayIds]
    /\ \A g \in gor : g.idx <= Cap(g.arr)
    /\ called \subseteq Call
    /\ npub \in 0..MaxPublishes
    /\ ncalls \in 0..MaxCalls
    /\ crashed \in BOOLEAN

\* Whenever bus.lock is free, the slice stored for every topic lists
\* exactly the handlers the completed Subscribe and Unsubscribe calls
\* leave, in order: the in-place delete of Unsubscribe and append's reuse
\* of spare capacity never corrupt the table itself.
TableMatchesSubscriptions ==
    lock = NoClient =>
        \A t \in Topics : Contents(Lookup(t)) = tab[t]

\* The process is never aborted by Publish reading bus.handlers while
\* Subscribe or Unsubscribe writes it.
NoConcurrentMapAbort == ~crashed

\* The bus implements BusSpec: subscriptions are the slices in the map,
\* and an owed call is whatever a pending goroutine's slot holds now.
Abs == INSTANCE BusSpec WITH
    subs     <- [t \in Topics |-> Contents(Lookup(t))],
    promised <- {[pub |-> g.pub, idx |-> g.idx, f |-> mem[g.arr][g.idx]] : g \in gor},
    called   <- called,
    npub     <- npub

AbstractBus == Abs!Spec

=============================================================================
