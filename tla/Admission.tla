----------------------------- MODULE Admission -----------------------------
(***************************************************************************)
(* Job admission: NewTask of src/src/abandoned/web/controller/task.go with *)
(* the quota check CheckEquity and the format check                      *)
(* CheckTaskTargetFormat (controller/equity.go), the Mongo equity records *)
(* read and written by web/service/equity.go, and the Redis key NewTask  *)
(* uses as a de-duplication lock.                                         *)
(*                                                                         *)
(* Every request runs NewTask in its own handler goroutine.  The shared   *)
(* state is the equity record of each owner (AvailableNum) and the Redis  *)
(* keys.  A request's     *)
(* body is a model value: the MD5 fingerprint of equal bodies is equal,   *)
(* and the checks that depend only on the body or the owner are given as  *)
(* constant sets.                                                          *)
(***************************************************************************)
EXTENDS Naturals, Sequences, FiniteSets

CONSTANTS
    Requests,          \* concurrent NewTask calls
    Owners,            \* user/tenant owning a request
    Bodies,            \* request bodies (json.Marshal(req))
    Record,            \* [Owners -> {"none", "disabled", "enabled"}]: the owner's equity records
    InitialAvailable,  \* [Owners -> Nat]: AvailableNum of an enabled record
    FormatAllowed,     \* pairs <<owner, body>> CheckTaskTargetFormat accepts
    ValidBodies,       \* bodies validate.Struct accepts
    FolderBodies,      \* bodies with a non-empty FolderConfig
    DBFaults,          \* whether Mongo and Redis calls may fail
    Serial,            \* whether calls are made one after another
    NoToken            \* model value: no Redis key / nothing read

ASSUME /\ Record \in [Owners -> {"none", "disabled", "enabled"}]
       /\ InitialAvailable \in [Owners -> Nat]
       /\ FormatAllowed \subseteq Owners \X Bodies
       /\ ValidBodies \subseteq Bodies /\ FolderBodies \subseteq Bodies
       /\ DBFaults \in BOOLEAN /\ Serial \in BOOLEAN
       /\ NoToken \notin Requests

VARIABLES
    req,          \* each request's owner and body
    rpc,          \* where each NewTask call is
    readVal,      \* AvailableNum CheckEquity read, or NoToken after a read error
    avail,        \* AvailableNum stored in Mongo
    lockKey,      \* Redis: fingerprint -> random token of the last SET
    outcome,      \* what NewTask returned
    charged       \* auxiliary: CheckEquity passed by consuming a credit

vars == <<req, rpc, readVal, avail, lockKey, outcome, charged>>

Steps == {"read", "decide", "lock", "build", "release", "done"}
Outcomes == {"pending", "panic", "quota", "format", "invalid", "duplicate", "folder"}

Owner(r) == req[r].owner
Body(r) == req[r].body
InFlight(r) == rpc[r] \notin {"read", "done"}

(* A call enters NewTask; with Serial the previous one has returned.      *)
MayStart(r) == Serial => \A s \in Requests \ {r} : ~InFlight(s)

(* Mutation of HasCredit: the comparison off by one.                      *)
HasCreditAtZero(v) == v >= 0

(* equity.go:24 with runNum = 1: `equityDB.AvailableNum >= runNum`.       *)
HasCredit(v) == v >= 1

(* UpdateEquity (service/equity.go:40-57): UpdateOne with $set of the     *)
(* whole record; CheckEquity drops its error, and a failed write leaves   *)
(* the stored value as it was.                                            *)
UpdateEquity(o, v) ==
    \/ avail' = [avail EXCEPT ![o] = v]
    \/ DBFaults /\ UNCHANGED avail

(* CheckTaskTargetFormat (equity.go:66-104) reads only the static         *)
(* equity_config and the request's formats: a fixed relation of owner   *)
(* and body.                                                              *)
CheckTaskTargetFormat(r) == <<Owner(r), Body(r)>> \in FormatAllowed

(* RedisSetCtx (framework/database/redis.go:107-117): a plain SET with    *)
(* expiry, which overwrites whatever the key holds.                       *)
RedisSetCtx(b, r) == lockKey' = [lockKey EXCEPT ![b] = r]

(* RedisMultiDelCtx (redis.go:378-385): DEL whoever set the key; its     *)
(* error is only logged by NewTask's deferred call.                       *)
RedisMultiDelCtx(b) ==
    \/ lockKey' = [lockKey EXCEPT ![b] = NoToken]
    \/ DBFaults /\ UNCHANGED lockKey

-----------------------------------------------------------------------------
TypeOK ==
    /\ req \in [Requests -> [owner : Owners, body : Bodies]]
    /\ rpc \in [Requests -> Steps]
    /\ readVal \in [Requests -> Nat \cup {NoToken}]
    /\ avail \in [Owners -> Nat]
    /\ lockKey \in [Bodies -> Requests \cup {NoToken}]
    /\ outcome \in [Requests -> Outcomes]
    /\ charged \in [Requests -> BOOLEAN]

Init ==
    /\ req \in [Requests -> [owner : Owners, body : Bodies]]
    /\ rpc = [r \in Requests |-> "read"]
    /\ readVal = [r \in Requests |-> NoToken]
    /\ avail = InitialAvailable
    /\ lockKey = [b \in Bodies |-> NoToken]
    /\ outcome = [r \in Requests |-> "pending"]
    /\ charged = [r \in Requests |-> FALSE]

-----------------------------------------------------------------------------
(* CheckEquity, first half (equity.go:13-16 and service/equity.go:15-38): *)
(* GetEquityListByUserIDOrTenantId reads the owner's records.             *)
ReadEquity(r) ==
    /\ rpc[r] = "read"
    /\ MayStart(r)
    /\ \/ readVal' = [readVal EXCEPT ![r] = avail[Owner(r)]]
       \/ DBFaults /\ UNCHANGED readVal            \* the find fails: err != nil
    /\ rpc' = [rpc EXCEPT ![r] = "decide"]
    /\ UNCHANGED <<req, avail, lockKey, outcome, charged>>

(* CheckEquity, second half (equity.go:14-33) and its use in NewTask     *)
(* (task.go:25-27).  NewTask refuses only when the check says no *and*   *)
(* returned no error, so a failed read lets the request through.  No     *)
(* record, or no enabled one, passes free.  The first enabled record      *)
(* decides: with a credit it is written back whole ($set, upsert) as the  *)
(* value read minus one, and UpdateEquity's error is dropped               *)
(* (service/equity.go:40-58).                                              *)
DecideEquity(r) ==
    /\ rpc[r] = "decide"
    /\ LET o == Owner(r) IN
       \/ /\ readVal[r] = NoToken \/ Record[o] # "enabled"
          /\ rpc' = [rpc EXCEPT ![r] = "lock"]
          /\ UNCHANGED <<avail, outcome, charged>>
       \/ /\ readVal[r] # NoToken /\ Record[o] = "enabled"
          /\ HasCredit(readVal[r])
          /\ UpdateEquity(o, readVal[r] - 1)
          /\ charged' = [charged EXCEPT ![r] = TRUE]
          /\ rpc' = [rpc EXCEPT ![r] = "lock"]
          /\ UNCHANGED outcome
       \/ /\ readVal[r] # NoToken /\ Record[o] = "enabled"
          /\ ~HasCredit(readVal[r])
          /\ outcome' = [outcome EXCEPT ![r] = "quota"]
          /\ rpc' = [rpc EXCEPT ![r] = "done"]
          /\ UNCHANGED <<avail, charged>>
    /\ UNCHANGED <<req, readVal, lockKey>>

(* task.go:46-67 with CheckTaskTargetFormat (equity.go:66-104) and       *)
(* RedisSetCtx (framework/database/redis.go:107-117): the target formats are checked against the owner's     *)
(* support_format list, the body is validated, then the fingerprint key   *)
(* is written with a plain SET (RedisSetCtx), which fails only when Redis *)
(* does.  Each refusal returns before the lock is taken.                  *)
TakeLock(r) ==
    /\ rpc[r] = "lock"
    /\ \/ /\ ~CheckTaskTargetFormat(r)
          /\ outcome' = [outcome EXCEPT ![r] = "format"]
          /\ rpc' = [rpc EXCEPT ![r] = "done"]
          /\ UNCHANGED lockKey
       \/ /\ CheckTaskTargetFormat(r)
          /\ Body(r) \notin ValidBodies
          /\ outcome' = [outcome EXCEPT ![r] = "invalid"]
          /\ rpc' = [rpc EXCEPT ![r] = "done"]
          /\ UNCHANGED lockKey
       \/ /\ CheckTaskTargetFormat(r)
          /\ Body(r) \in ValidBodies
          /\ DBFaults
          /\ outcome' = [outcome EXCEPT ![r] = "duplicate"]
          /\ rpc' = [rpc EXCEPT ![r] = "done"]
          /\ UNCHANGED lockKey
       \/ /\ CheckTaskTargetFormat(r)
          /\ Body(r) \in ValidBodies
          /\ RedisSetCtx(Body(r), r)
          /\ rpc' = [rpc EXCEPT ![r] = "build"]
          /\ UNCHANGED outcome
    /\ UNCHANGED <<req, readVal, avail, charged>>

(* task.go:74-163: an empty FolderConfig is refused; otherwise the job is *)
(* built and posted with PostEventVIP or PostEvent (model/server.go:30-44) *)
(* on model.ServiceServer, which is nil (model/common.go:5): whichever     *)
(* CheckVIP answers, reading srv.EvtQueue panics.  The panic unwinds       *)
(* through the deferred DEL (Release).                                     *)
Build(r) ==
    /\ rpc[r] = "build"
    /\ \/ /\ Body(r) \notin FolderBodies
          /\ outcome' = [outcome EXCEPT ![r] = "folder"]
       \/ /\ Body(r) \in FolderBodies
          /\ outcome' = [outcome EXCEPT ![r] = "panic"]
    /\ rpc' = [rpc EXCEPT ![r] = "release"]
    /\ UNCHANGED <<req, readVal, avail, lockKey, charged>>

(* task.go:68-73: the deferred DEL of the fingerprint key.               *)
Release(r) ==
    /\ rpc[r] = "release"
    /\ RedisMultiDelCtx(Body(r))
    /\ rpc' = [rpc EXCEPT ![r] = "done"]
    /\ UNCHANGED <<req, readVal, avail, outcome, charged>>

(* The 10 s expiry of a fingerprint key.                                   *)
Expire(b) ==
    /\ lockKey[b] # NoToken
    /\ lockKey' = [lockKey EXCEPT ![b] = NoToken]
    /\ UNCHANGED <<req, rpc, readVal, avail, outcome, charged>>

Terminated ==
    /\ \A r \in Requests : rpc[r] = "done"
    /\ UNCHANGED vars

Next ==
    \/ \E r \in Requests :
         ReadEquity(r) \/ DecideEquity(r) \/ TakeLock(r) \/ Build(r) \/ Release(r)
    \/ \E b \in Bodies : Expire(b)
    \/ Terminated

Spec == Init /\ [][Next]_vars

-----------------------------------------------------------------------------
(* Properties *)

ChargedBy(o) == {r \in Requests : Owner(r) = o /\ charged[r]}
EnabledOwners == {o \in Owners : Record[o] = "enabled"}

(* No owner's enabled equity record grants more jobs than the credits it  *)
(* held: CheckEquity's read-modify-write (equity.go:13-26) must not let  *)
(* two calls spend the same credit.                                       *)
QuotaNeverOverdrawn ==
    \A o \in EnabledOwners : Cardinality(ChargedBy(o)) <= InitialAvailable[o]

=============================================================================
