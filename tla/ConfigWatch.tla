----------------------------- MODULE ConfigWatch -----------------------------
(***************************************************************************)
(* The process configuration fed from Kubernetes ConfigMaps.               *)
(*                                                                         *)
(* config's init() calls Watch for the license ConfigMap and then for the  *)
(* application ConfigMap (framework/config/config.go).  Each Watch loads   *)
(* the ConfigMap's data keys, merges every parsed document into the        *)
(* package variable `o` with variant.Merge, opens a Kubernetes watch and   *)
(* starts a goroutine that merges the documents of every later event       *)
(* (framework/config/configmap.go).  Readers take `o` under the RWMutex.   *)
(*                                                                         *)
(* Configuration values are variant.AbstractValue trees, kept here as      *)
(* records: an object maps keys to values, an array is a sequence, a       *)
(* scalar is a model value.  Merge and Copy are translated as recursive    *)
(* operators (framework/variant/variant.go), including the way             *)
(* Variant.Set deletes a map entry when it is given a nil value and        *)
(* panics when it stores one into a slice (framework/variant/value.go).    *)
(***************************************************************************)
EXTENDS Naturals, Sequences, FiniteSets, SequencesExt

CONSTANTS
    Watched,     \* the ConfigMaps init() watches, in the order it watches them
    Ext,         \* Ext[c]: the parser chosen by the extension of c's data key
    Docs,        \* Docs[c]: the documents c's data key may hold
    MaxUpdates,  \* bound on the ConfigMap edits made by the operator
    MaxTicks     \* bound on the hourly license validations

ASSUME Ext \in [ToSet(Watched) -> {"json", "yaml"}]

-----------------------------------------------------------------------------
(* Values.                                                                 *)

None == [k |-> "none"]            \* a nil AbstractValue interface
NilV == [k |-> "nil"]             \* &Nil, a Variant whose ref is nil
Obj(f) == [k |-> "obj", m |-> f]  \* a map[string]any
Arr(s) == [k |-> "arr", a |-> s]  \* a []any

(* Documents a data key can hold besides a parseable tree.                 *)
Malformed == [k |-> "malformed"]  \* text no parser accepts, or empty text
NoKey == [k |-> "nokey"]          \* the ConfigMap lacks the data key
Absent == [k |-> "absent"]        \* the ConfigMap does not exist
NoDoc == [k |-> "nodoc"]          \* nothing merged from a ConfigMap yet

(* Variant.Get on a map: a missing key reads as &Nil.                      *)
GetKey(m, key) == IF key \in DOMAIN m THEN m[key] ELSE NilV

(* LoadConfigMap: the extension picks the parser.  LoadJson returns a nil  *)
(* interface with its error; LoadYaml ignores the error and returns a      *)
(* Variant with a nil ref.  GetConfigMapData gives empty data for a        *)
(* missing key, which both parsers reject.                                 *)
(* Malformed is a document the parser rejects with an error.  Two inputs   *)
(* that end the process instead are not explored: JSON truncated at its    *)
(* end (json.go:17-18 panics) and ciphertext that does not decrypt         *)
(* (decrypt.go:42-49 calls log.Fatal).                                   *)
LoadConfigMap(c, doc) ==
    IF doc \in {Malformed, NoKey}
    THEN IF Ext[c] = "yaml" THEN NilV ELSE None
    ELSE doc

(* Copy: ret.Set(k, Copy(New(v))) drops the nil entries of a map and       *)
(* panics on a nil element of a slice (reflect.Value.Set of a zero Value). *)
RECURSIVE CopyPanics(_)
CopyPanics(v) ==
    \/ v.k = "arr" /\ \E i \in DOMAIN v.a : v.a[i] = NilV \/ CopyPanics(v.a[i])
    \/ v.k = "obj" /\ \E key \in DOMAIN v.m : CopyPanics(v.m[key])

RECURSIVE Copy(_)
Copy(v) ==
    CASE v.k = "obj" -> Obj([key \in {x \in DOMAIN v.m : v.m[x] # NilV}
                                 |-> Copy(v.m[key])])
      [] v.k = "arr" -> Arr([i \in DOMAIN v.a |-> Copy(v.a[i])])
      [] OTHER       -> v

(* The traveral visitor of merge, run over the map m1 into the map dst:    *)
(* an object merges into an object recursively, an array meets an array by *)
(* keeping dst's (array2 := dst.ToArray()), a nil value deletes the key,   *)
(* anything else is stored over dst's entry.                               *)
RECURSIVE MergeInto(_, _)
MergeInto(m1, dst) ==
    LET Visit(value, d) ==
            CASE value.k = "obj" /\ d.k = "obj" -> Obj(MergeInto(value.m, d.m))
              [] value.k = "arr" /\ d.k = "arr" -> d
              [] OTHER                          -> value
        kept == (DOMAIN dst \ DOMAIN m1) \cup {x \in DOMAIN m1 : m1[x] # NilV}
    IN  [key \in kept |-> IF key \in DOMAIN m1
                            THEN Visit(m1[key], GetKey(dst, key))
                            ELSE dst[key]]

(* merge(m1, m2): nil when either is nil, when their types differ, or when *)
(* m2 is neither an object nor an array; otherwise m1 traversed into a     *)
(* copy of m2.  Documents are objects at the top, so m2 is never an array. *)
MergeOk(m1, m2) ==
    m1 # None /\ m2 # None /\ m1.k = m2.k /\ m2.k \in {"obj", "arr"}

merge(m1, m2) ==
    IF MergeOk(m1, m2) THEN Obj(MergeInto(m1.m, Copy(m2).m)) ELSE None

(* Merge(newValue, oldValue): either side nil gives the other one.         *)
Merge(newValue, oldValue) ==
    CASE newValue = None -> oldValue
      [] oldValue = None -> newValue
      [] OTHER           -> merge(newValue, oldValue)

(* Merge reaches Copy(oldValue), which may panic.                          *)
MergePanics(newValue, oldValue) ==
    newValue # None /\ oldValue # None /\ MergeOk(newValue, oldValue)
        /\ CopyPanics(oldValue)

(* get(j, keys): a path is followed through objects; a nil j, an empty    *)
(* path or a step into a scalar reads as &Nil.                            *)
RECURSIVE get(_, _)
get(j, keys) ==
    CASE j = None \/ keys = <<>> -> NilV
      [] j.k = "obj" /\ Len(keys) = 1 -> GetKey(j.m, Head(keys))
      [] j.k = "obj" -> get(GetKey(j.m, Head(keys)), Tail(keys))
      [] OTHER -> NilV

(* initConfigVariants reads ServiceName = GetString("service.name", ""):  *)
(* the value found, which ToString formats, or the default.               *)
Unset == [k |-> "unset"]   \* the default "" of GetString
GetServiceName(cfg) ==
    LET v == get(cfg, <<"service", "name">>) IN IF v = NilV THEN Unset ELSE v

-----------------------------------------------------------------------------
(* State.                                                                  *)

VARIABLES
    o,            \* the configuration, package variable o of config.go
    serviceName,  \* package variable ServiceName of variants.go
    read,         \* read[a]: what initConfigVariants of goroutine a read, not yet stored
    cm,           \* cm[c]: the document c's data key holds in the cluster
    events,       \* events[c]: events of c's watch not yet received
    watching,     \* ConfigMaps whose watch the API server still serves
    monitor,      \* the names in the package map monitor
    running,      \* ConfigMaps whose watcher goroutine runs
    step,         \* init(): the index in Watched of the Watch in progress
    phase,        \* where init() is within that Watch, or after them
    encrypted,    \* init()'s configEncrypted
    enc,          \* enc[c]: the EncryptedConfig of c's Watch: off, key, nokey
    val,          \* val[a]: the step of validateLicense goroutine a is at
    ticks,        \* scheduled validations begun
    mergeBy,      \* the watcher between Copy(o) and o = m under the lock
    mergeV,       \* the document it merges
    snap,         \* the value of o its Copy read
    applied,      \* applied[c]: the last object document merged from c
    crashed,      \* "no", or how the process ended: panic, race, fatal
    updates       \* ConfigMap edits made so far

vars == <<o, serviceName, read, cm, events, watching, monitor, running, step,
          phase, encrypted, enc, val, ticks, mergeBy, mergeV, snap, applied,
          crashed, updates>>

CMs == ToSet(Watched)
LicenseCM == Watched[1]

(* The goroutines that call initConfigVariants: init() and the watchers;   *)
(* and those that run validateLicense: init() and the ticker's goroutine.  *)
Actors == CMs \cup {"init"}
Validators == {"init", "tick"}

NoRead == [k |-> "noread"]
NoOne == "none"

AllDocs == UNION {Docs[c] : c \in CMs}

Up == crashed = "no"

(* GetString(key, "") # "": the key is set in cfg.                         *)
IsSet(cfg, key) == get(cfg, <<key>>) # NilV

(* No watcher holds the lock: RLock and Lock can be taken.                 *)
Unlocked == mergeBy = NoOne

TypeOK ==
    /\ cm \in [CMs -> AllDocs \cup {Absent}]
    /\ events \in [CMs -> Seq(AllDocs)]
    /\ DOMAIN read = Actors
    /\ watching \subseteq CMs /\ monitor \subseteq CMs /\ running \subseteq CMs
    /\ step \in 1..Len(Watched) + 1
    /\ phase \in {"load", "start", "license", "validate", "done"}
    /\ encrypted \in BOOLEAN /\ enc \in [CMs -> {"off", "key", "nokey"}]
    /\ val \in [Validators -> {"idle", "fetch", "set", "check"}]
    /\ ticks \in 0..MaxTicks /\ mergeBy \in CMs \cup {NoOne}
    /\ crashed \in {"no", "panic", "race", "fatal"}
    /\ updates \in 0..MaxUpdates

(* The process starts with an empty configuration; the ConfigMaps hold any *)
(* of their documents, or do not exist.                                    *)
Init ==
    /\ o = None /\ serviceName = Unset
    /\ read = [a \in Actors |-> NoRead]
    /\ cm \in {f \in [CMs -> AllDocs \cup {Absent}] :
                  \A c \in CMs : f[c] \in Docs[c] \cup {Absent}}
    /\ events = [c \in CMs |-> <<>>]
    /\ watching = {} /\ monitor = {} /\ running = {}
    /\ step = 1 /\ phase = "load"
    /\ encrypted = FALSE /\ enc = [c \in CMs |-> "off"]
    /\ val = [a \in Validators |-> "idle"] /\ ticks = 0
    /\ mergeBy = NoOne /\ mergeV = None /\ snap = None
    /\ applied = [c \in CMs |-> NoDoc]
    /\ crashed = "no"
    /\ updates = 0

(* LoadConfigMap of a present data key under c's EncryptedConfig: with no  *)
(* FixedPrivateKey, DecryptDataWithFixedPrivateKey ends the process.       *)
DecryptFails(c) == enc[c] = "nokey"

(* o = variant.Merge(v, o) under lock, in one step: a nil v is skipped, a  *)
(* panic in Copy kills the process.                                        *)
MergeDoc(c, v) ==
    CASE v = None -> UNCHANGED <<o, applied, crashed>>
      [] MergePanics(v, o) -> crashed' = "panic" /\ UNCHANGED <<o, applied>>
      [] OTHER -> /\ o' = Merge(v, o)
                  /\ applied' = IF v.k = "obj" THEN [applied EXCEPT ![c] = v]
                                               ELSE applied
                  /\ UNCHANGED crashed

(* initConfigVariants, first half: the getters read o under RLock.         *)
ReadVariants(a) == read' = [read EXCEPT ![a] = GetServiceName(o')]

-----------------------------------------------------------------------------
(* Actions of init().                                                      *)

(* Watch, lines 191-220: the EncryptedConfig takes FixedPrivateKey from o; *)
(* the data key is loaded (a missing ConfigMap is an error and is         *)
(* skipped), decrypted, parsed and merged, and the variants are read.     *)
(* The names init() watches differ, so the early return of lines 174-189  *)
(* for a name already in monitor is not taken.                            *)
WatchLoad ==
    /\ Up /\ Unlocked /\ step <= Len(Watched) /\ phase = "load"
    /\ LET c == Watched[step]
           e == IF ~encrypted THEN "off"
                ELSE IF IsSet(o, "fixedPrivateKey") THEN "key" ELSE "nokey"
       IN  /\ enc' = [enc EXCEPT ![c] = e]
           /\ CASE cm[c] = Absent -> UNCHANGED <<o, applied, crashed>>
                [] e = "nokey"    -> crashed' = "fatal" /\ UNCHANGED <<o, applied>>
                [] OTHER          -> MergeDoc(c, LoadConfigMap(c, cm[c]))
    /\ ReadVariants("init")
    /\ phase' = "start"
    /\ UNCHANGED <<serviceName, cm, events, watching, monitor, running, step,
                   encrypted, val, ticks, mergeBy, mergeV, snap, updates>>

(* Watch, lines 222-226: WatchConfigMap fails and Watch returns its error, *)
(* which init() logs before going on; the license is then not validated.  *)
WatchFail ==
    /\ Up /\ step <= Len(Watched) /\ phase = "start"
    /\ read["init"] = NoRead
    /\ step' = step + 1 /\ phase' = "load"
    /\ UNCHANGED <<o, serviceName, read, cm, events, watching, monitor,
                   running, encrypted, enc, val, ticks, mergeBy, mergeV, snap,
                   applied, crashed, updates>>

(* Watch, lines 222-229: the watch opens, monitor[name] = keys, and the    *)
(* watcher goroutine starts.  A watch without a resourceVersion begins     *)
(* with an ADDED event for the existing ConfigMap.  The map write races    *)
(* with line 239's read in a watcher that is handling an event: Go may     *)
(* detect it and abort the process.  After the license Watch, init()       *)
(* goes on to config.go line 48.                                          *)
WatchStart ==
    /\ Up /\ step <= Len(Watched) /\ phase = "start"
    /\ read["init"] = NoRead
    /\ LET c == Watched[step]
       IN  /\ watching' = watching \cup {c}
           /\ events' = [events EXCEPT ![c] =
                           IF cm[c] = Absent THEN <<>> ELSE <<cm[c]>>]
           /\ \/ /\ monitor' = monitor \cup {c}
                 /\ running' = running \cup {c}
                 /\ IF c = LicenseCM
                    THEN phase' = "license" /\ UNCHANGED step
                    ELSE step' = step + 1 /\ phase' = "load"
                 /\ UNCHANGED crashed
              \/ /\ \E d \in running : events[d] # <<>>
                 /\ crashed' = "race"
                 /\ UNCHANGED <<monitor, running, step, phase>>
    /\ UNCHANGED <<o, serviceName, read, cm, encrypted, enc, val, ticks,
                   mergeBy, mergeV, snap, applied, updates>>

(* config.go lines 48-55: a license server URL in the configuration makes *)
(* the application configuration encrypted and the license validated, at  *)
(* once and then every hour; otherwise init() goes on to the next Watch.  *)
License ==
    /\ Up /\ Unlocked /\ phase = "license"
    /\ IF IsSet(o, "serverUrl")
       THEN /\ encrypted' = TRUE
            /\ val' = [val EXCEPT !["init"] = "fetch"]
            /\ phase' = "validate"
            /\ UNCHANGED step
       ELSE /\ step' = step + 1 /\ phase' = "load"
            /\ UNCHANGED <<encrypted, val>>
    /\ UNCHANGED <<o, serviceName, read, cm, events, watching, monitor, running,
                   enc, ticks, mergeBy, mergeV, snap, applied, crashed, updates>>

(* validateLicenseWhenStart returned; validateLicenseScheduled has started *)
(* its ticker, and init() goes on to the application Watch.               *)
Validated ==
    /\ Up /\ phase = "validate" /\ val["init"] = "idle"
    /\ step' = step + 1 /\ phase' = "load"
    /\ UNCHANGED <<o, serviceName, read, cm, events, watching, monitor, running,
                   encrypted, enc, val, ticks, mergeBy, mergeV, snap, applied,
                   crashed, updates>>

(* config.go line 74: after the Watch calls init() reads the variants once *)
(* more.                                                                   *)
InitVariants ==
    /\ Up /\ Unlocked /\ step = Len(Watched) + 1 /\ phase = "load"
    /\ read["init"] = NoRead
    /\ read' = [read EXCEPT !["init"] = GetServiceName(o)]
    /\ phase' = "done"
    /\ UNCHANGED <<o, serviceName, cm, events, watching, monitor, running,
                   step, encrypted, enc, val, ticks, mergeBy, mergeV, snap,
                   applied, crashed, updates>>

(* initConfigVariants, second half: the value read is stored into          *)
(* ServiceName, with no lock, after the read lock was released.            *)
PublishVariants(a) ==
    /\ Up /\ read[a] # NoRead
    /\ serviceName' = read[a]
    /\ read' = [read EXCEPT ![a] = NoRead]
    /\ UNCHANGED <<o, cm, events, watching, monitor, running, step, phase,
                   encrypted, enc, val, ticks, mergeBy, mergeV, snap, applied,
                   crashed, updates>>

-----------------------------------------------------------------------------
(* validateLicense (license.go), run by init() and by the ticker.           *)

(* The ticker's goroutine: once an hour, long after init() has finished.   *)
Tick ==
    /\ Up /\ phase = "done" /\ encrypted /\ ticks < MaxTicks
    /\ val["tick"] = "idle"
    /\ val' = [val EXCEPT !["tick"] = "fetch"]
    /\ ticks' = ticks + 1
    /\ UNCHANGED <<o, serviceName, read, cm, events, watching, monitor, running,
                   step, phase, encrypted, enc, mergeBy, mergeV, snap, applied,
                   crashed, updates>>

(* Lines 39-62: http.Get of GetString(serverUrl): an empty URL is an error *)
(* and log.Fatal ends the process.  The license server's answer is taken  *)
(* as received.                                                           *)
Fetch(a) ==
    /\ Up /\ Unlocked /\ val[a] = "fetch"
    /\ IF IsSet(o, "serverUrl")
       THEN val' = [val EXCEPT ![a] = "set"] /\ UNCHANGED crashed
       ELSE crashed' = "fatal" /\ UNCHANGED val
    /\ UNCHANGED <<o, serviceName, read, cm, events, watching, monitor, running,
                   step, phase, encrypted, enc, ticks, mergeBy, mergeV, snap,
                   applied, updates>>

(* Lines 64-75: o.Set(sn) and o.Set(fixedPrivateKey), with no lock.  On a *)
(* nil o, or a Variant with a nil ref, Set panics.  While a watcher holds *)
(* the lock between Copy(o) and o = m, the write either meets the Copy    *)
(* (a concurrent map read and write the runtime aborts on) or lands in    *)
(* the map that o = m is about to replace.                                *)
Finger == {"sn", "fixedPrivateKey"}

SetFinger(a) ==
    /\ Up /\ val[a] = "set"
    /\ IF o.k # "obj"
       THEN crashed' = "panic" /\ UNCHANGED <<o, val>>
       ELSE \/ /\ o' = Obj([x \in DOMAIN o.m \cup Finger |->
                                IF x \in Finger THEN [k |-> "finger"] ELSE o.m[x]])
               /\ val' = [val EXCEPT ![a] = "check"]
               /\ UNCHANGED crashed
            \/ /\ ~Unlocked
               /\ crashed' = "race"
               /\ UNCHANGED <<o, val>>
    /\ UNCHANGED <<serviceName, read, cm, events, watching, monitor, running,
                   step, phase, encrypted, enc, ticks, mergeBy, mergeV, snap,
                   applied, updates>>

(* Lines 77-151: token, noise and privateKey must be set, or log.Fatal;   *)
(* the decryption, expiry and fingerprint checks that follow are taken to *)
(* pass.                                                                  *)
Check(a) ==
    /\ Up /\ Unlocked /\ val[a] = "check"
    /\ IF \A key \in {"token", "noise", "privateKey"} : IsSet(o, key)
       THEN val' = [val EXCEPT ![a] = "idle"] /\ UNCHANGED crashed
       ELSE crashed' = "fatal" /\ UNCHANGED val
    /\ UNCHANGED <<o, serviceName, read, cm, events, watching, monitor, running,
                   step, phase, encrypted, enc, ticks, mergeBy, mergeV, snap,
                   applied, updates>>

-----------------------------------------------------------------------------
(* The cluster, and the watcher goroutines.                                *)

(* The operator edits, creates or deletes a ConfigMap.  An open watch      *)
(* delivers the ConfigMap of the event; a DELETED event carries its last   *)
(* state.                                                                  *)
Update(c, doc) ==
    /\ Up /\ updates < MaxUpdates
    /\ doc # cm[c]
    /\ cm' = [cm EXCEPT ![c] = doc]
    /\ events' = IF c \in watching
                 THEN [events EXCEPT ![c] = Append(@,
                         IF doc = Absent THEN cm[c] ELSE doc)]
                 ELSE events
    /\ updates' = updates + 1
    /\ UNCHANGED <<o, serviceName, read, watching, monitor, running, step,
                   phase, encrypted, enc, val, ticks, mergeBy, mergeV, snap,
                   applied, crashed>>

(* The API server ends a watch (its timeout, or an error): the result      *)
(* channel closes after the events it holds.  The watcher then reads zero  *)
(* events for ever (lines 268-273) and nothing opens a new watch.          *)
Expire(c) ==
    /\ Up /\ c \in watching
    /\ watching' = watching \ {c}
    /\ UNCHANGED <<o, serviceName, read, cm, events, monitor, running, step,
                   phase, encrypted, enc, val, ticks, mergeBy, mergeV, snap,
                   applied, crashed, updates>>

(* The watcher goroutine, lines 236-259, receives a *v1.ConfigMap event.   *)
(* A data key absent from the event is skipped, as is a document that     *)
(* parses to a nil interface.  Otherwise it takes the lock and Merge      *)
(* copies o (which may panic); with no FixedPrivateKey the decryption     *)
(* ends the process first.                                                *)
Receive(c) ==
    /\ Up /\ Unlocked /\ c \in running /\ events[c] # <<>>
    /\ read[c] = NoRead
    /\ LET doc == Head(events[c])
           v   == LoadConfigMap(c, doc)
       IN  CASE c \notin monitor \/ doc = NoKey ->
                    UNCHANGED <<mergeBy, mergeV, snap, crashed>>
             [] DecryptFails(c) ->
                    crashed' = "fatal" /\ UNCHANGED <<mergeBy, mergeV, snap>>
             [] v = None ->
                    UNCHANGED <<mergeBy, mergeV, snap, crashed>>
             [] MergePanics(v, o) ->
                    crashed' = "panic" /\ UNCHANGED <<mergeBy, mergeV, snap>>
             [] OTHER ->
                    /\ mergeBy' = c /\ mergeV' = v /\ snap' = o
                    /\ UNCHANGED crashed
    /\ events' = [events EXCEPT ![c] = Tail(@)]
    /\ UNCHANGED <<o, serviceName, read, cm, watching, monitor, running, step,
                   phase, encrypted, enc, val, ticks, applied, updates>>

(* Lines 258-264: o = m, computed from the copy, the unlock, and the read *)
(* of the variants.                                                       *)
Merged(c) ==
    /\ Up /\ mergeBy = c
    /\ o' = Merge(mergeV, snap)
    /\ applied' = IF mergeV.k = "obj" THEN [applied EXCEPT ![c] = mergeV]
                                      ELSE applied
    /\ ReadVariants(c)
    /\ mergeBy' = NoOne /\ mergeV' = None /\ snap' = None
    /\ UNCHANGED <<serviceName, cm, events, watching, monitor, running, step,
                   phase, encrypted, enc, val, ticks, crashed, updates>>

(* App.Shutdown sets IsRunning to false (framework/app.go); the goroutine  *)
(* polling it cancels the context and every watcher returns at             *)
(* ctx.Done() once it is back in its select.                              *)
Stop ==
    /\ Up /\ Unlocked /\ running # {}
    /\ running' = {}
    /\ UNCHANGED <<o, serviceName, read, cm, events, watching, monitor, step,
                   phase, encrypted, enc, val, ticks, mergeBy, mergeV, snap,
                   applied, crashed, updates>>

Busy ==
    \/ WatchLoad \/ WatchFail \/ WatchStart \/ License \/ Validated
    \/ InitVariants \/ Tick \/ Stop
    \/ \E a \in Actors : PublishVariants(a)
    \/ \E a \in Validators : Fetch(a) \/ SetFinger(a) \/ Check(a)
    \/ \E c \in CMs :
          \/ Receive(c) \/ Merged(c) \/ Expire(c)
          \/ \E doc \in Docs[c] \cup {Absent} : Update(c, doc)

(* A process that died, or that has nothing left to do, stays as it is.    *)
Halted == ~ENABLED Busy /\ UNCHANGED vars

Next == Busy \/ Halted

Spec == Init /\ [][Next]_vars

-----------------------------------------------------------------------------
(* Properties.                                                             *)

(* The configuration holds every value the document d sets: the leaves of  *)
(* d are read back from o by Get, a nil leaf reads as absent.              *)
RECURSIVE Holds(_, _)
Holds(cfg, d) ==
    IF d.k = "obj"
    THEN cfg.k = "obj" /\ \A key \in DOMAIN d.m : Holds(GetKey(cfg.m, key), d.m[key])
    ELSE cfg = d

(* Merge's comment: "key相同时newValue会覆盖oldValue的值", the new document  *)
(* overrides the old values at equal keys.  So after the watchers merge    *)
(* documents, the configuration holds the last document merged from each   *)
(* ConfigMap whose keys no later document overrode; the ConfigMaps here    *)
(* own disjoint keys.  Broken by merge returning nil for a document of     *)
(* another type and by Merge keeping the old array.                        *)
ConfigHoldsLastMerged ==
    \A c \in CMs : applied[c] # NoDoc => Holds(o, applied[c])

(* init() validates the license before it watches the application         *)
(* ConfigMap (config.go:52-55), and validateLicense stores fixedPrivateKey *)
(* in o (license.go:74-75).  So every Watch of an encrypted configuration *)
(* finds the key when it builds its EncryptedConfig (configmap.go:191-194) *)
(* and DecryptDataWithFixedPrivateKey never ends the process for the lack *)
(* of it.  Broken when the license watcher's merge, having copied o,      *)
(* replaces the map the unlocked o.Set wrote the key into.                *)
DecryptKeyPresent == \A c \in CMs : enc[c] # "nokey"

========================================================================
