------------------------------ MODULE Catalogue ------------------------------
(***************************************************************************)
(* The catalogue services of the control plane: the JobManagement,         *)
(* ResourcePoolManagement and TenantManagement gRPC services               *)
(* (src/grpcserver/jobmanage.go, resourcepool.go, tenantConfig.go), their  *)
(* controllers (src/controller/*.go) and the Mongo services behind them    *)
(* (src/service/jobmanage.go, resourcemanage.go).                          *)
(*                                                                         *)
(* gRPC serves every request on a goroutine of its own, so handlers        *)
(* interleave between their Mongo calls; each Mongo call (FindOne,         *)
(* InsertOne, DeleteOne, UpdateOne, a Find with its cursor) is one atomic  *)
(* step.  A collection is a sequence of documents in natural order: Mongo  *)
(* keeps no unique index on JobTypeId, JobSetId or ResourcePoolId, so two  *)
(* documents may share an id, and DeleteOne/UpdateOne act on the first     *)
(* match.  Documents keep only their id (and a job set its JobTypeId); the *)
(* other fields are data no control decision reads.                        *)
(*                                                                         *)
(* A panic in a handler (a nil pointer or nil map dereference) is not      *)
(* recovered: CustomRpcServerInterceptor installs no recover, so the       *)
(* process dies; log.Fatalf ends it too.  Either is `crashed`, after       *)
(* which nothing runs.                                                     *)
(***************************************************************************)
EXTENDS Integers, Sequences, SequencesExt

CONSTANTS
    Reqs,           \* goroutines serving requests
    Ids,            \* ids a request names, and the values GenerateID returns
    NoId,           \* the empty string: no id filter
    Faults,         \* whether Mongo calls fail and metadata headers go missing
    Skips, Pages, Limits,   \* int32 pagination inputs of the queries
    MaxRequests     \* requests served in a behaviour

VARIABLES
    jobTypes,   \* JobTypeCollection: JobTypeIds in natural order
    jobSets,    \* JobSetCollection: [id, type] in natural order
    pools,      \* RpTypeCollection: ResourcePoolIds in natural order
    pc,         \* pc[r]: "idle" or the Mongo call request r makes next
    loc,        \* loc[r]: the id and job type request r carries between calls
    reply,      \* reply[r]: the status of r's last reply
    crashed,    \* the process has died
    nreq        \* requests begun

vars == <<jobTypes, jobSets, pools, pc, loc, reply, crashed, nreq>>

Init ==
    /\ jobTypes = <<>>
    /\ jobSets = <<>>
    /\ pools = <<>>
    /\ pc = [r \in Reqs |-> "idle"]
    /\ loc = [r \in Reqs |-> [id |-> NoId, type |-> NoId]]
    /\ reply = [r \in Reqs |-> "none"]
    /\ crashed = FALSE
    /\ nreq = 0

-----------------------------------------------------------------------------
(* Outcomes of the environment.                                            *)

\* A Mongo call returns an error (a decode error of a cursor included).
MongoErr == IF Faults THEN BOOLEAN ELSE {FALSE}

\* framework.GetCommonHeaders finds the request's metadata; its checks of the
\* target always pass, since every handler hands it a *CommonHeaders.
HeaderOk == IF Faults THEN BOOLEAN ELSE {TRUE}

\* ValidateJobTypeById / ValidateRpById: TRUE only when FindOne returns
\* ErrNoDocuments; a document found and any other error both give FALSE.
ValidateById(coll, id, err) == ~err /\ ~Contains(coll, id)

SetIds == [k \in 1..Len(jobSets) |-> jobSets[k].id]

\* UpdateOne on JobSetId: the first match gets the new JobTypeId.
SetFirstType(s, id, t) ==
    LET k == SelectInSeq(s, LAMBDA d : d.id = id)
    IN  IF k = 0 THEN s ELSE [s EXCEPT ![k].type = t]

\* HandleJobTypeQueries/HandleJobSetQueries/HandleQueries: the cursor
\* skips `skip` documents, then reads up to `limit`.
CursorPage(s, skip, limit) ==
    LET from == IF skip < 0 THEN 0 ELSE skip
        n    == IF limit < 0 THEN 0 ELSE limit
    IN  SubSeq(s, from + 1, IF from + n < Len(s) THEN from + n ELSE Len(s))

\* QueryJobType pages the page again: result[startIndex:endIndex] with
\* both indexes clamped as the code does; Go panics when start > end.
SlicePanics(n, skip, page, limit) ==
    LET s0 == (page - 1) * limit + skip
        e0 == s0 + limit
        st == IF s0 < 0 THEN 0 ELSE s0
        en == IF e0 > n THEN n ELSE e0
    IN  st > en

-----------------------------------------------------------------------------
(* Steps shared by the handlers.                                           *)

Begin(r) ==
    /\ ~crashed
    /\ pc[r] = "idle"
    /\ nreq < MaxRequests
    /\ nreq' = nreq + 1

Goto(r, step, l) ==
    /\ pc' = [pc EXCEPT ![r] = step]
    /\ loc' = [loc EXCEPT ![r] = l]
    /\ UNCHANGED <<reply, crashed>>

Finish(r, code) ==
    /\ pc' = [pc EXCEPT ![r] = "idle"]
    /\ reply' = [reply EXCEPT ![r] = code]
    /\ UNCHANGED <<loc, crashed>>

Panic ==
    /\ crashed' = TRUE
    /\ UNCHANGED <<pc, loc, reply>>

At(r, step) == ~crashed /\ pc[r] = step /\ UNCHANGED nreq


-----------------------------------------------------------------------------
(* JobManagement.                                                          *)

\* controller.AddJobType: GenerateID, then ValidateJobTypeById.  A failed
\* validation returns (nil, err) and the server handler writes to the nil
\* response: a panic.
AddJobType(r) ==
    /\ \E id \in Ids, err \in MongoErr :
         \/ ~ValidateById(jobTypes, id, err) /\ Panic
         \/ ValidateById(jobTypes, id, err)
               /\ Goto(r, "insertType", [id |-> id, type |-> NoId])
    /\ UNCHANGED <<jobTypes, jobSets, pools>>

\* service.AddJobType's InsertOne; its error reaches the nil response too.
InsertType(r) ==
    /\ At(r, "insertType")
    /\ \E err \in MongoErr :
         \/ err /\ Panic /\ UNCHANGED jobTypes
         \/ ~err /\ jobTypes' = Append(jobTypes, loc[r].id) /\ Finish(r, "200")
    /\ UNCHANGED <<jobSets, pools>>

\* RemoveJobType: DeleteOne.  The service drops DeleteOne's error and reads
\* DeletedCount of the nil result: a panic.
RemoveJobType(r) ==
    /\ \E id \in Ids, err \in MongoErr :
         \/ err /\ Panic /\ UNCHANGED jobTypes
         \/ ~err /\ Contains(jobTypes, id)
                 /\ jobTypes' = RemoveFirst(jobTypes, id) /\ Finish(r, "200")
         \/ ~err /\ ~Contains(jobTypes, id)
                 /\ Finish(r, "500") /\ UNCHANGED jobTypes
    /\ UNCHANGED <<jobSets, pools>>

\* SetJobType: ValidateJobTypeById; FALSE (found, or an error) goes on to
\* the update, TRUE answers 404.
SetJobType(r) ==
    /\ \E id \in Ids, err \in MongoErr :
         \/ ValidateById(jobTypes, id, err) /\ Finish(r, "404")
         \/ ~ValidateById(jobTypes, id, err)
               /\ Goto(r, "updateType", [id |-> id, type |-> NoId])
    /\ UNCHANGED <<jobTypes, jobSets, pools>>

\* UpdateJobType's UpdateOne sets only fields the model does not keep; an
\* error goes to log.Fatalf, which ends the process.
UpdateType(r) ==
    /\ At(r, "updateType")
    /\ \E err \in MongoErr : IF err THEN Panic ELSE Finish(r, "200")
    /\ UNCHANGED <<jobTypes, jobSets, pools>>

\* AddJobSet: GenerateID, then ValidateJobTypeById on the job set's
\* JobTypeId: TRUE (no such job type) answers 402.
AddJobSet(r) ==
    /\ \E id \in Ids, t \in Ids, err \in MongoErr :
         \/ ValidateById(jobTypes, t, err) /\ Finish(r, "402")
         \/ ~ValidateById(jobTypes, t, err)
               /\ Goto(r, "insertSet", [id |-> id, type |-> t])
    /\ UNCHANGED <<jobTypes, jobSets, pools>>

\* service.AddJobSet's InsertOne; an error answers 402.
InsertSet(r) ==
    /\ At(r, "insertSet")
    /\ \E err \in MongoErr :
         \/ err /\ Finish(r, "402") /\ UNCHANGED jobSets
         \/ ~err /\ jobSets' = Append(jobSets, loc[r])
                 /\ Finish(r, "200")
    /\ UNCHANGED <<jobTypes, pools>>

\* RemoveJobSet: DeleteOne, with the same nil result on an error as
\* RemoveJobType.
RemoveJobSet(r) ==
    /\ \E id \in Ids, err \in MongoErr :
         \/ err /\ Panic /\ UNCHANGED jobSets
         \/ ~err /\ Contains(SetIds, id)
                 /\ jobSets' = RemoveFirstMatch(jobSets, LAMBDA d : d.id = id)
                 /\ Finish(r, "200")
         \/ ~err /\ ~Contains(SetIds, id) /\ Finish(r, "500")
                 /\ UNCHANGED jobSets
    /\ UNCHANGED <<jobTypes, pools>>

\* SetJobSet: ValidateJobTypeById on the new JobTypeId.
SetJobSet(r) ==
    /\ \E id \in Ids, t \in Ids, err \in MongoErr :
         \/ ValidateById(jobTypes, t, err) /\ Finish(r, "402")
         \/ ~ValidateById(jobTypes, t, err)
               /\ Goto(r, "updateSet", [id |-> id, type |-> t])
    /\ UNCHANGED <<jobTypes, jobSets, pools>>

\* UpdateJobSet's UpdateOne; an error answers 500.
UpdateSet(r) ==
    /\ At(r, "updateSet")
    /\ \E err \in MongoErr :
         \/ err /\ Finish(r, "500") /\ UNCHANGED jobSets
         \/ ~err /\ jobSets' = SetFirstType(jobSets, loc[r].id, loc[r].type)
                 /\ Finish(r, "200")
    /\ UNCHANGED <<jobTypes, pools>>

\* GetJobSet and GetJobType write to a nil *Rpn on every path.
GetOne(r) ==
    /\ Panic
    /\ UNCHANGED <<jobTypes, jobSets, pools>>

\* QueryJobSet: the Total filter is always set, so at least one Find runs;
\* an error returns (nil, err) to a handler that writes to the nil reply.
QueryJobSet(r) ==
    /\ \E err \in MongoErr : IF err THEN Panic ELSE Finish(r, "200")
    /\ UNCHANGED <<jobTypes, jobSets, pools>>

\* QueryJobType with the JobTypeId filter (or none): Find and the cursor
\* page, an error returning (nil, err) as above, then the second paging
\* of the result, which panics when its start passes its end.
QueryJobType(r) ==
    /\ \E f \in Ids \cup {NoId}, skip \in Skips, page \in Pages,
          limit \in Limits, err \in MongoErr :
         LET found == SelectSeq(jobTypes, LAMBDA d : d = f)
             n     == Len(CursorPage(found, skip, limit))
         IN  \/ f = NoId /\ Finish(r, "200")
             \/ f # NoId /\ err /\ Panic
             \/ f # NoId /\ ~err /\ SlicePanics(n, skip, page, limit) /\ Panic
             \/ f # NoId /\ ~err /\ ~SlicePanics(n, skip, page, limit)
                /\ Finish(r, "200")
    /\ UNCHANGED <<jobTypes, jobSets, pools>>


-----------------------------------------------------------------------------
(* ResourcePoolManagement and TenantManagement.                            *)

\* AddResourcePool: a request with ResourceLimit entries writes them into
\* the nil ResourceLimits map of the new pool: a panic.  Otherwise
\* ValidateRpById; FALSE returns (nil, err) to a handler that writes to the
\* nil response.
AddResourcePool(r) ==
    /\ \E limits \in BOOLEAN, id \in Ids, err \in MongoErr :
         \/ limits /\ Panic
         \/ ~limits /\ ~ValidateById(pools, id, err) /\ Panic
         \/ ~limits /\ ValidateById(pools, id, err)
                    /\ Goto(r, "insertPool", [id |-> id, type |-> NoId])
    /\ UNCHANGED <<jobTypes, jobSets, pools>>

\* service.AddResourcePool's InsertOne; its error reaches the nil response.
InsertPool(r) ==
    /\ At(r, "insertPool")
    /\ \E err \in MongoErr :
         \/ err /\ Panic /\ UNCHANGED pools
         \/ ~err /\ pools' = Append(pools, loc[r].id) /\ Finish(r, "200")
    /\ UNCHANGED <<jobTypes, jobSets>>

\* RemoveResourcePool: DeleteOne, its error dropped and the nil result read.
RemoveResourcePool(r) ==
    /\ \E id \in Ids, err \in MongoErr :
         \/ err /\ Panic /\ UNCHANGED pools
         \/ ~err /\ Contains(pools, id)
                 /\ pools' = RemoveFirst(pools, id) /\ Finish(r, "200")
         \/ ~err /\ ~Contains(pools, id) /\ Finish(r, "404")
                 /\ UNCHANGED pools
    /\ UNCHANGED <<jobTypes, jobSets>>

\* SetResourcePool: the same nil-map write for ResourceLimit entries, then
\* ValidateRpById; TRUE answers 404.
SetResourcePool(r) ==
    /\ \E limits \in BOOLEAN, id \in Ids, err \in MongoErr :
         \/ limits /\ Panic
         \/ ~limits /\ ValidateById(pools, id, err) /\ Finish(r, "404")
         \/ ~limits /\ ~ValidateById(pools, id, err)
                    /\ Goto(r, "updatePool", [id |-> id, type |-> NoId])
    /\ UNCHANGED <<jobTypes, jobSets, pools>>

\* UpdateResourcePool's UpdateOne; an error returns (nil, err) to a handler
\* that writes to the nil response.
UpdatePool(r) ==
    /\ At(r, "updatePool")
    /\ \E err \in MongoErr : IF err THEN Panic ELSE Finish(r, "200")
    /\ UNCHANGED <<jobTypes, jobSets, pools>>

\* GetResourcePool: ValidateRpById, TRUE answering 200 "No Record"; then
\* FindOne, its error answering 200 too; then the pool, in a reply whose
\* Code is left nil.  Stored pools never hold ResourceLimits (the requests
\* carrying them panic first), so its copy loop writes nothing.
GetResourcePool(r) ==
    /\ \E id \in Ids, err \in MongoErr, err2 \in MongoErr :
         Finish(r, IF ValidateById(pools, id, err) \/ err2 THEN "200" ELSE "none")
    /\ UNCHANGED <<jobTypes, jobSets, pools>>

\* QueryResourcePool: the IsShared filter always runs a Find; the first
\* error returns the partial reply, its Code still nil.
QueryResourcePool(r) ==
    /\ \E err \in MongoErr : Finish(r, IF err THEN "none" ELSE "200")
    /\ UNCHANGED <<jobTypes, jobSets, pools>>

\* SetTenantConfig and SetDefaultTenantConfig write to a nil *Rpn whatever
\* GetResourcePool and GetJobSet return.
SetTenantConfig(r) ==
    /\ Panic
    /\ UNCHANGED <<jobTypes, jobSets, pools>>

-----------------------------------------------------------------------------
(* The gRPC server handlers (src/grpcserver/*.go).  Each is one goroutine  *)
(* of its own, so each begins a request; a controller error comes with     *)
(* the nil response the controller actions above end in a Panic for.       *)

\* The handlers that read the headers first: without them the reply is 500
\* and the controller never runs.
Headed(r, ctrl) ==
    \E ok \in HeaderOk :
        \/ ~ok /\ Finish(r, "500") /\ UNCHANGED <<jobTypes, jobSets, pools>>
        \/ ok /\ ctrl

GrpcAddJobType(r) == Begin(r) /\ Headed(r, AddJobType(r))
GrpcRemoveJobType(r) == Begin(r) /\ Headed(r, RemoveJobType(r))
GrpcSetJobType(r) == Begin(r) /\ Headed(r, SetJobType(r))
GrpcAddJobSet(r) == Begin(r) /\ Headed(r, AddJobSet(r))
GrpcSetJobSet(r) == Begin(r) /\ Headed(r, SetJobSet(r))

\* The handlers that call the controller straight away.
GrpcQueryJobSet(r) == Begin(r) /\ QueryJobSet(r)
GrpcGetJobSet(r) == Begin(r) /\ GetOne(r)
GrpcQueryJobType(r) == Begin(r) /\ QueryJobType(r)
GrpcGetJobType(r) == Begin(r) /\ GetOne(r)
GrpcRemoveJobSet(r) == Begin(r) /\ RemoveJobSet(r)
GrpcAddResourcePool(r) == Begin(r) /\ AddResourcePool(r)
GrpcRemoveResourcePool(r) == Begin(r) /\ RemoveResourcePool(r)
GrpcSetResourcePool(r) == Begin(r) /\ SetResourcePool(r)
GrpcGetResourcePool(r) == Begin(r) /\ GetResourcePool(r)
GrpcQueryResourcePool(r) == Begin(r) /\ QueryResourcePool(r)
GrpcSetTenantConfig(r) == Begin(r) /\ SetTenantConfig(r)
GrpcSetDefaultTenantConfig(r) == Begin(r) /\ SetTenantConfig(r)

-----------------------------------------------------------------------------

Busy ==
    \E r \in Reqs :
        \/ GrpcAddJobType(r) \/ GrpcRemoveJobType(r) \/ GrpcSetJobType(r)
        \/ GrpcAddJobSet(r) \/ GrpcSetJobSet(r)
        \/ GrpcQueryJobSet(r) \/ GrpcGetJobSet(r) \/ GrpcQueryJobType(r)
        \/ GrpcGetJobType(r) \/ GrpcRemoveJobSet(r)
        \/ GrpcAddResourcePool(r) \/ GrpcRemoveResourcePool(r)
        \/ GrpcSetResourcePool(r) \/ GrpcGetResourcePool(r)
        \/ GrpcQueryResourcePool(r)
        \/ GrpcSetTenantConfig(r) \/ GrpcSetDefaultTenantConfig(r)
        \/ InsertType(r) \/ UpdateType(r) \/ InsertSet(r) \/ UpdateSet(r)
        \/ InsertPool(r) \/ UpdatePool(r)

\* The process has died, or every request is served.
Halted == ~ENABLED Busy /\ UNCHANGED vars

Next == Busy \/ Halted

Spec == Init /\ [][Next]_vars

-----------------------------------------------------------------------------
(* Properties.                                                             *)

\* controller.AddJobSet and controller.SetJobSet check that the job set's
\* JobTypeId names a stored job type ("Associated Job Type Exists, Proceed
\* with the Request"), and only then write it: a job set InsertOne, or an
\* UpdateOne that finds its job set, answering 200 stores a JobTypeId that
\* is in JobTypeCollection at that moment.
JobSetWrittenWithItsType ==
    [][\A r \in Reqs :
         (/\ pc[r] \in {"insertSet", "updateSet"}
          /\ pc'[r] = "idle" /\ reply'[r] = "200"
          /\ pc[r] = "updateSet" => Contains(SetIds, loc[r].id))
            => Contains(jobTypes, loc[r].type)]_vars

=============================================================================
